----------------------------- MODULE MCHostCalls -----------------------------
(***************************************************************************)
(* Instances of HostCalls for TLC: what the host asks, and which hosts.     *)
(***************************************************************************)
EXTENDS HostCalls

CONSTANT p1     \* a profile

\* An execution that says nothing, and one that says everything.
Bare ==
    [input |-> "absent", context |-> "absent", dryRun |-> FALSE,
     names |-> [k \in Names |-> ""],
     backup |-> FALSE, iteration |-> "none", parameters |-> "absent",
     solutionMetadata |-> FALSE, profile |-> DefaultProfile]

Full ==
    [input |-> "value", context |-> "value", dryRun |-> TRUE,
     names |-> [k \in Names |-> IF k = "outputDirectory" THEN "that" ELSE "this"],
     backup |-> TRUE, iteration |-> "value", parameters |-> "value",
     solutionMetadata |-> TRUE, profile |-> p1]

\* A dry run without a backup, in a working directory.
Dry ==
    [Bare EXCEPT !.dryRun = TRUE, !.names["workingDirectory"] = "that",
                 !.iteration = "null"]

\* Requests of one part that is malformed, null, or of another shape.
Odd ==
    {[Full EXCEPT !.input = "malformed"], [Full EXCEPT !.context = "malformed"],
     [Full EXCEPT !.parameters = "malformed"], [Full EXCEPT !.iteration = "malformed"],
     [Full EXCEPT !.iteration = "absent", !.parameters = "null", !.context = "other"]}

Execution(method, w) == [method |-> method, profile |-> DefaultProfile, wire |-> w]
Preview(method, i) ==
    [method |-> method, profile |-> DefaultProfile, wire |-> [input |-> i]]
Other(method, p) == [method |-> method, profile |-> p]

MCRequests ==
    {Execution("ExecuteProvider", w) : w \in {Bare, Full, Dry} \cup Odd}
    \cup {Execution("ExecuteProviderStream", Full)}
    \cup {Preview("DescribeWhatIf", i) : i \in {"malformed", "null"}}
    \cup {Other("GetProviders", DefaultProfile), Other("GetToken", p1)}

\* A host of today and one that has none of the newer methods.
MCHosts == {HostService, HostService \ {"GetAuthGroups", "PromptAuthResponse"}}
=============================================================================
