---------------------------- MODULE RequestContext ----------------------------
(***************************************************************************)
(* What the plugin finds in the context of a call: the values that          *)
(* provider/context.go, auth/context.go and plugin/context.go keep in a     *)
(* context.Context, and applyRequestContext (plugin/grpc_server.go), which   *)
(* fills it from an ExecuteProviderRequest.                                *)
(*                                                                         *)
(* A context is a function from keys to values. Names, paths and documents  *)
(* are told apart only by being empty, absent, malformed or present.       *)
(***************************************************************************)
CONSTANTS Profiles,         \* the profile names that requests carry
          DefaultProfile    \* the empty profile name

Unset == "unset"

ASSUME ProfilesAssumption ==
    DefaultProfile \notin Profiles /\ Unset \notin Profiles \cup {DefaultProfile}

Keys == {"executionMode", "dryRun", "resolverContext", "parameters", "iteration",
         "solutionMetadata", "outputDirectory", "workingDirectory",
         "conflictStrategy", "backup", "profile", "hostClient"}

\* context.Background(), as far as these keys are concerned.
Background == [k \in Keys |-> Unset]

\* WithExecutionMode, WithDryRun, ...: a new context with one value more.
With(ctx, k, v) == [ctx EXCEPT ![k] = v]

\* ExecutionModeFromContext, ...: the value and whether there is one.
Found(ctx, k) == ctx[k] # Unset

\* DryRunFromContext: not a dry run when nothing says so.
DryRunFromContext(ctx) == ctx["dryRun"] = "true"

\* auth.ProfileFromContext: the empty name when there is none.
ProfileFromContext(ctx) == IF Found(ctx, "profile") THEN ctx["profile"] ELSE DefaultProfile

-----------------------------------------------------------------------------
(***************************************************************************)
(* ExecuteProviderRequest, without the settings (see ProviderSettings)      *)
(***************************************************************************)

\* JSON documents: bytes that are not there, that do not parse into the type
\* expected, that say null, or that hold a value.
Json == {"absent", "malformed", "null", "value"}

\* The fields with a name that enters the context unless it is empty; two names
\* suffice to tell whose is where.
Names == {"executionMode", "workingDirectory", "outputDirectory", "conflictStrategy"}
Words == {"this", "that"}

\* A context document may parse and have no resolverContext object in it. An
\* iteration item that is absent or null is nil to the plugin.
ExecuteRequests ==
    [input : Json,
     context : Json \cup {"other"},
     dryRun : BOOLEAN,
     names : [Names -> {""} \cup Words],
     backup : BOOLEAN,
     iteration : {"none"} \cup Json,
     parameters : Json,
     solutionMetadata : BOOLEAN,
     profile : Profiles \cup {DefaultProfile}]

\* Mutant: the error of the iteration item is dropped.
DecodeErrorsButItem(w) ==
    {f \in {"input", "context", "parameters"} : w[f] = "malformed"}

\* What makes the handler answer before it calls the plugin.
DecodeErrors(w) ==
    {f \in {"input", "context", "iteration", "parameters"} : w[f] = "malformed"}

Decodes(w) == DecodeErrors(w) = {}

\* unmarshalIterationContext, when it succeeds.
UnmarshalIterationContext(ctx, w) ==
    IF w.iteration = "none" THEN ctx
    ELSE With(ctx, "iteration", IF w.iteration = "value" THEN "item" ELSE "nil")

\* unmarshalSolutionMeta
UnmarshalSolutionMeta(ctx, w) ==
    IF w.solutionMetadata THEN With(ctx, "solutionMetadata", "meta") ELSE ctx

\* Mutant: the directories are exchanged.
NameExchanged(w, k) ==
    CASE k = "workingDirectory" -> w.names["outputDirectory"]
      [] k = "outputDirectory" -> w.names["workingDirectory"]
      [] OTHER -> w.names[k]

\* The field of the request whose name enters the context under k.
NameFor(w, k) == w.names[k]

\* Mutant: the flag of the backup is copied for that of the dry run.
DryRunOfBackup(w) == w.backup

DryRun(w) == w.dryRun

\* The fields that applyRequestContext copies as they are.
CopyFields(ctx, w) ==
    [k \in Keys |->
        CASE k = "dryRun" -> IF DryRun(w) THEN "true" ELSE "false"
          [] k \in Names /\ NameFor(w, k) # "" -> NameFor(w, k)
          [] k = "backup" /\ w.backup -> "true"
          [] k = "resolverContext" /\ w.context = "value" -> "map"
          [] OTHER -> ctx[k]]

\* A parameters document that says null leaves a nil map in the context.
Parameters(ctx, w) ==
    CASE w.parameters = "value" -> With(ctx, "parameters", "map")
      [] w.parameters = "null" -> With(ctx, "parameters", "nil")
      [] OTHER -> ctx

\* Mutant: the profile of the request does not enter the context.
ApplyProfileLost(ctx, w) == ctx

ApplyProfile(ctx, w) ==
    IF w.profile # DefaultProfile THEN With(ctx, "profile", w.profile) ELSE ctx

\* applyRequestContext, for a request that decodes.
ApplyRequestContext(ctx, w) ==
    ApplyProfile(
        UnmarshalSolutionMeta(
            Parameters(UnmarshalIterationContext(CopyFields(ctx, w), w), w), w), w)
=============================================================================
