# A TLA+ model of scafctl-plugin-sdk

scafctl is a command line tool that runs its providers and auth handlers as
plugins: child processes it talks to over gRPC (hashicorp/go-plugin). The SDK is
the plugin's half of that: a plugin implements a Go interface, the SDK serves it.
This directory holds TLA+ modules that model the SDK, TLC configurations that
check them on small instances, and TLAPS proofs for instances of any size.

Line numbers in modules and in this file refer to the source at the commit the
models were written from.

## The system

| Component | State it keeps | Operations | What is hard | Correct when |
|---|---|---|---|---|
| Auth handler server, `plugin/grpc_auth_server.go` | `conn`, `hostClient`, `closed` under `mu` | ConfigureAuthHandler, StopAuthHandler; Login, Logout, GetStatus, GetToken, ListCachedTokens, PurgeExpiredTokens, DetectAvailableFlows, ActivateServerMode, GetAuthHandlers | the dial runs outside the lock; one `closed` flag and one connection for all handlers | no connection leaks, nobody is handed a closed client, nobody goes without a client for no reason, a hanging dial hurts only its own call |
| Provider server, `plugin/grpc_server.go` | `conn`, `hostClient`, `configureSettings` under `mu` | ConfigureProvider, StopProvider, ExecuteProvider, ExecuteProviderStream, DescribeWhatIf, ExtractDependencies, GetProviders, GetProviderDescriptor | the dial runs under the lock that every call takes; settings are stored before the dial and before the plugin sees them | one connection, every call answered, executions merge over the right configuration |
| Settings, ConfigureProvider and withSettings | maps and byte slices shared by server, plugin and executions | store, snapshot, merge | the merge reads the stored map outside the lock; the plugin keeps what it is given | no map is shared with the plugin, executions are isolated |
| Output stream, ExecuteProviderStream and streamForwarder | `err` under the forwarder's `mu` | forward, final Send | concurrent forwards, a host that goes away, a final Send beside the forwarder | one Send at a time, order kept, nothing after a failure, the Results the plugin asked for |
| Login stream, Login | `sendFailed` | device code callback, final Send | callbacks from other goroutines, with no mutex | the outcome is heard once, a lost prompt is the last of its goroutine, Login ends |
| Host client, `plugin/host_client.go` | none; the host's secrets are behind it | the nine calls into the host, IsUnimplemented | a client outlives its connection, a call is given up while the host still works on it, the profile travels in the context, an old host lacks methods | tokens are asked for the right profile, a call knows what it has stored unless a write failed, a missing method is told from a failure |
| Request context, applyRequestContext and the `context.go` of three packages | the values in the context of a call | decode and apply the parts of a request | parts that are malformed, null or absent | the plugin finds what the request says and nothing else, or is not called |
| Bootstrap, `plugin/server.go`, `plugin/grpc_plugin.go`, `plugin/interface.go` | none | Serve, ServeAuthHandler, registration of the service | a process of the wrong kind | a host gets a stub only of what the process serves |
| Provider model, `provider/provider.go`, `provider/validation.go` | none | descriptor validation, operations that write | two lists of write operations that must agree | validation finds every broken rule, and on what it accepts every way to ask agrees |
| Conversions, rest of `plugin/grpc_server.go` | none | descriptors and schemas to the wire and back | nil and empty, int32 truncation, zero limits, a schema that travels twice | the host classifies operations as the plugin does; a fallback schema is exact or looser |
| Auth types, `auth/`, and their conversions | none | status, claims, tokens, login results; flows, capabilities, metadata | a time that is not known | the host gets the claims and times that the plugin reported |
| Examples, `examples/` | sessions (multicluster), login state (staticauth) | auth handler calls | concurrent calls, expiry, purges | multicluster: a logged out session stays out, a purge takes only the expired; staticauth: a status is what the last Login or Logout left, or one that overlapped it |
| Secret references, `plugin/secretref.go`; schema helper; echo example; test doubles | none | parsing, builders | nothing concurrent | not modelled |
| Generated code, `plugin/proto/` | none | stubs, handlers, messages | calls of old and new peers | in part: see `GrpcServices` |

How they interact. The host starts the process and calls Configure with the id
of a broker service; the server dials that and keeps the connection. gRPC runs
every call in a goroutine of its own; each puts the host client it finds into
the context it gives the plugin, and the plugin may call the host through it.
Stop, and for auth handlers a failed configuration, closes the connection.
Provider executions get settings merged from the request and from the last
configuration, and may stream output through a callback.

## The modules

`HostSlot` is the abstract specification of what a server promises about its
connection: at most one in use, open while it is, and every other one that was
dialled closed in the end. Both servers implement it (`ImplementsHostSlot`): `life`
is the `link` of the call that dialled, `slot` is `conn`.

`AuthHandlerServer` has one process per gRPC call. `pc[c]` says where call c is
(`reopen`, `check`, `dial`, `commit` are the parts of ConfigureAuthHandler and
ensureHostClient; `inject`, `impl`, `close` are injectHostClient, the call into the
plugin, closeHostClient). A critical section of `s.mu` is one action because none
of them blocks. The calls that only read the connection differ in nothing the
properties see, so they are one request, `Serve`. A connection is named after
the call that dialled it. `closedAt` is a history variable: where a call was when
a closeHostClient of another ran.

`ProviderServer` is built in the same way, with one difference that matters: the
dial happens under `s.mu`, so the lock is a variable, and every other step that
takes it waits. Settings are named after the configuration that brought them.

`ProviderSettings` opens the settings up: maps are objects whose entries refer
to buffers, and the plugin edits maps and writes bytes at any time after it was
given them. The buffer of a request and the clone made for an execution are
named after the call and the key.

`PluginStream` is what the two calls that stream to the host have in common: the handler's
goroutine, the plugin's goroutines that call back, and the stream. `ServerStream` is the
abstract specification of what both promise: each sender has one message at a time,
which reaches the host once while the stream is open and is given up only when it is
closed, and every sender gets away in the end. Both implement it
(`ImplementsServerStream`, `LoginImplementsServerStream`): `asked` counts the chunks with
something to send, or the prompts, `pending` is what a goroutine is in Send with or waits
to send, and the stream is `open` while the host is there and the handler has not
returned.

`ExecStream` is one ExecuteProviderStream call. A Send takes two steps, so that
two of them can overlap; the mutex is the worker that holds it. The plugin may
or may not wait for its goroutines (`joins`). `ChunksInOrder` counts: the n-th message
of a goroutine is the n-th chunk it was given that is not empty.

`LoginStream` is one Login call of the auth handler server. The callback has no
mutex: it loads `sendFailed`, sends, and stores `sendFailed` when that fails, and these
are steps of their own for each goroutine; the final Send is the handler's. gRPC
promises nothing once two Sends overlap, so `overlapped` records whether they have,
and `OutcomeHeardOnce` is about the runs in which the plugin kept them apart.

`Descriptor` is provider/provider.go as operators: `ValidateDescriptor` is the set of
errors the function joins, with its early returns, its `break` and its `continue`s,
and `IsWriteOperation` and `EffectiveWriteOperations` are the two ways to ask what
writes. `Consistent` is the declarative form of the rules that validation is compared
with: those that the comments on OutputSchemas, WriteOperations and Operations
(provider.go:58-67, 98-122), on ValidateDescriptor (381-385) and validateOperations
(457-466), and the tests of the names (provider_test.go:320-333) state. It is not all that
the fields are documented to require: the tags also ask for a version and an input schema
(`required:"true"`) and bound sizes (`minLength`, `maxLength`, `maxItems`), and validation
looks at none of that (see the divergences). So `AcceptsTheConsistent` says that no entry
of the lists and maps escapes the loops, not that an accepted descriptor is complete.

`DescriptorWire` is the conversion of a descriptor to protobuf and back, again as
operators, and a small state machine of the two ends: the plugin sends the
descriptor (`GetProviderDescriptor`), or a plugin built without this SDK sends one
with no JSON for its schemas, or with JSON that does not parse, and perhaps with a bad
version (`GetForeignDescriptor`), and the host converts it (`ReceiveDescriptor`). A schema is a record of typed properties with one
field for each kind of limit: one that goes through int32, a bound with a Has flag,
a default, a list of values.

`MultiCluster` is the example plugin with state, the repository's own model of an
auth handler. A call arrives, may read the clock, works in one critical section,
and is answered. `before[c]` is a history variable: which calls had been answered when c
arrived, so that properties can speak of one call being over before another begins.

`GrpcServices` lists the methods of the three services of plugin.proto, the groups that
the servers treat alike, and errors as Go code sees them: the chain that `errors.Unwrap`
walks, with `status.Code` and `IsUnimplemented` on it.

`PluginProcess` is how a process comes to serve: the handshakes of the two kinds of
plugin, and the service that a kind registers and that a host gets a stub of.

`RequestContext` is a context as a function from keys to values, and
`applyRequestContext` on it, one operator for each part of an ExecuteProviderRequest.
Names have one of two words as values and a dry run is true or false, so that
`ContextExact`, which reads every value back as the plugin does and compares it with the
request, can tell a value that was exchanged, lost or fixed.
`HostClient` is what `HostServiceClient` puts into a request and makes of a reply.

`HostCalls` composes these four. The host starts a process of some kind (`Start`), and
calls it through generated stub and handler (`Send`, `Serve`). While the plugin works
(`impl`) it may call the host (`waiting`); the message stays in `flying` until the
host handles it. The call may be given up (`Cancel`) and the connection may close
(`Disconnect`) at any time: the plugin then gets an error (`AbortCallback`), but the
message stays out, and the host may handle it late. A `host` implements all methods or
those of an old one. Each call keeps a secret of its own, so what happens to it is the
work of its own callbacks. `acked`, `unsure` and `returned` are history variables: the
last write that call c was told has succeeded, whether one has failed, and the error
the plugin returned. When the connection is opened and closed is left to
AuthHandlerServer and ProviderServer; here it is only there or not.

`AuthMessages` is the conversion of claims, status, tokens and login results, in which
of a time only matters whether it is Go's zero time. `StaticAuth` is the example that
keeps two fields without a lock: a call has a set of accesses to do, in any order,
because the compiler may order accesses to different fields as it likes. `before` is
as in `MultiCluster`.

The `MC...` modules add what TLC needs: symmetry sets, the chunks and the
descriptors to try. The `...Proofs` modules hold the theorems.

Operators marked "Mutant" are plausible bugs, each next to the definition it
replaces; with it in place, TLC finds the property violated that the manifest
names. No specification uses them.

## What is checked

| Run | Instance | Shows |
|---|---|---|
| `auth_server` | 3 calls, 1 handler | All properties of AuthHandlerServer, with its refinement and progress |
| `auth_stale_dial` | 3 calls | Violated: a dial that a stop overtook is closed |
| `provider_server` | 3 calls, 1 provider | All properties of ProviderServer, with its refinement and progress |
| `provider_settings` | 2 configurations, 2 executions, 1 setting, 2 values | Isolation of the settings |
| `settings_bytes` | 1 configuration, 1 execution | Violated: the stored copy is independent of cfg.Settings |
| `exec_stream` | 2 goroutines, 2 chunks each, 5 shapes of chunk | All properties of ExecStream, with its refinement and progress |
| `login_stream` | 2 goroutines, 2 prompts each | All properties of LoginStream, with its refinement and progress |
| `descriptor_wire` | 7276 descriptors | Validation, the operations that write, and what the host gets |
| `descriptor_all_reads` | the same | Violated: "all operations are reads" reaches the host |
| `multi_cluster` | 3 calls, 2 clusters, clock 0..3, sessions of 1 | All properties of MultiCluster |
| `host_calls` | 1 call of twelve, 2 callbacks, 2 secrets, 1 profile, a host of today and an old one | All properties of HostCalls |
| `static_auth` | 4 calls | All properties of StaticAuth |

Why these bounds are enough. Each property of the servers relates at most three calls:
two that race and one that overtakes them, or a configuration, a stop and a call that
uses the result. With three calls TLC reaches every such order; runs with four calls
(safety only, 1.8 million states) found nothing else, and for safety the proofs
remove the bound. In ProviderSettings, two configurations let one replace the
other under a merge, two executions share a base; keys do not interact. In ExecStream
two goroutines contend for the mutex and the second chunk of each meets the error the
first one left; in LoginStream the second prompt of each meets `sendFailed` in the
same way. The properties of MultiCluster relate a Login, a Logout or purge, and a call
that looks, on a cluster and on all of them (the empty hostname); the clock has room
for a session to be made, to expire and to be purged. The properties of StaticAuth
relate a call that looks to two that write before or under it, and to a third that has
followed them. `HostCalls` needs one call: calls share the process, the connection and
the host, which change by themselves at any time, and no property relates two calls;
the proofs remove the bound. Two callbacks
let a read, or a second write, follow a write that the host handles late; the twelve
requests take each class of methods that the servers treat alike, a request with
nothing, one with everything, and one for each part that is malformed, null or of
another shape. `MaxTime`, `MaxPrompts`, `MaxCallbacks` and the chunks are the bounds
of counters that would grow for ever.

The descriptors come in three families, because the parts of a descriptor do not
interact: the lists of operations (up to two names of three, one of them empty,
and up to two operations; a duplicate, a contradiction and a missing entry each take
two), the input schema, and the capabilities with their output schemas. `Half` = 4
stands for 2^31, so that limits below it, from it on, beyond 2^32 (here 8), and below
-2^31 are all there.

Deadlock is not an error anywhere: when every call has been answered, or the
stream has returned, the model stops as the system does.

Fairness. AuthHandlerServer assumes that a goroutine that can run does, and that the
plugin returns; it does not assume that a dial returns. ProviderServer assumes the
latter too: a dial that hangs there holds the lock, and nothing is answered any more,
which is the price of dialling under the lock. ExecStream assumes that Send returns,
and that `sync.Mutex` lets every waiter in at last (Go's does), not that the plugin
returns; LoginStream assumes the same of Send, and likewise nothing about the plugin.
HostCalls assumes that goroutines run, that the plugin returns once it has made its
callbacks, and that the host handles what it need not ask the user about; a prompt may
stay open for ever, and then only giving up the call or closing the connection ends
it. DescriptorWire, MultiCluster and StaticAuth have safety properties only and assume
nothing.

## What is proved

Every safety property of the passing runs is a theorem: it holds for any sets of
calls, handlers, providers, goroutines, keys, values and names, and any bound. So
do the safety parts of the two abstract specifications, HostSlot for both servers and
ServerStream for both streams. The invariants were checked by TLC on the instances
above before they were proved. Each module of proofs assumes of the constants what the
named ASSUMEs of its specification say, and nothing else: in the main that `Nil`,
`NoCall`, `NoMap` and the like are none of the things they stand beside. Two of them say a little more: `Values` of settings is not empty, and a
descriptor has the types of the Go structs (`HasCapabilities`, `HasOperations`,
`HasSchema`) and a version that parses.

`AuthHandlerServerProofs`: `TypeCorrect`, `NeverLeaksConn`, `ClientAlwaysUsable`,
`StoppedIsDisconnected`, `ConfigureGetsClient`, `NoDeadClientInjected`,
`RefinesHostSlot`. None of the properties is inductive alone. `IndInv` adds where a
call's own connection is at each location (`ConnInv`: none before its dial returns,
open while it commits, afterwards open only as the server's), that the connection in
the server was installed by a call that has left its commit, that a context has a
client only after injection (`CtxInv`), and, for configurations during which nothing
was closed, that the server stays open until they commit and then has a client
(`ConfigureInv`).

`ProviderServerProofs`: `TypeCorrect`, `ConfigureGetsClient`, `NoDeadClientInjected`,
`ExecutionsReadAnswered`, `StoredSettingsAccepted`, `LockNeverKept`, `RefinesHostSlot`.
The first half
of `IndInv` is about the connection: the lock is held just while its holder dials, and
then there is no connection to lose (`LockInv`), so the only open one is the server's
(`ConnInv`). This is simpler than in the auth handler server because of the lock, and
the two refinements of HostSlot show that both disciplines keep the same promise. The
second half is about settings. What ReadsAnsweredConfiguration says of an execution
needs a fact about the map it reads: once a configuration is stored, the map holds its
settings or those of one that did not come before it (`LatestInv`). `StoredIsAccepted`
says when the settings the server keeps may differ from those the plugin accepted last:
when the configuration stored is itself under way or was itself refused, or when the one
accepted last was under way as it stored. An earlier refusal or overlap is no excuse once
another configuration has followed. `AcceptedInv` adds `OverlapInv`: a configuration that
the plugin is still to accept is the one stored or was under way when that was stored.

`ProviderSettingsProofs`: `TypeCorrect`, `NeverRacesMaps`, `StoredBaseKept`,
`ExecutionsExact`. The invariant is about aliasing: the server reads only maps that a
configuration has stored (`ServerInv`), every map refers only to buffers of its own
call (`MapsInv`), and the bytes of a configuration are those that came or those the
plugin wrote (`ContentInv`). On top, the state of the merge loop: the new map has the
entries already visited, with the bytes found there, and no others (`MergeInv`).

`StreamProofs`, about ExecStream: `TypeCorrect`, `OneSendAtATime`, `MutexNeverKept`,
`ChunksArriveInOrder`, `EveryResultTold`, `ExecKeepsStreamPromise`. The worker that sends
is the one that holds the mutex, and has found no error (`LockInv`), and if the plugin
waits for its goroutines none is left in forward when the handler sends (`CallInv`). With
these two ChunksInOrder is inductive. ResultsAccounted needs two more: the handler's
message is the last (`HandlerInv`), and until a Send fails there are as many Results on
the wire as behind the goroutines (`CountInv`, on the cardinality of the two sets). About
LoginStream: `LoginOutcomeHeard`, from `LoginInv`, which says that a message about the
outcome is the last and there just when Login returned OK, and
`LoginKeepsStreamPromise`. Both refinements of ServerStream go step by step, and the
step that matters is the one by which a goroutine gives up its message without a Send.
In forward that is the early return after an error, and CallInv says that the host has
gone by then or the handler has returned; in the callback it is the load of `sendFailed`,
and `LateInv` says the same of that flag. So the mutex is not what keeps messages from
being lost: Login keeps the promise without one.

`DescriptorProofs`: `AcceptsExactlyTheConsistent`, `WritesAlwaysAgree`,
`WritesReachHost`, `ValidityTravels`, `FallbackIsExact`, `FallbackIsNeverStricter`.
These come from the pure functions, and the invariants only say what is in transit:
`WireInv` which operations the wire carries, `FormInv` that the wire holds one of the
two forms of the descriptor and the host what is made of it.

- Validation: `CapabilitiesChecked`, `WriteListChecked` and `OperationsChecked` say of
  each part of ValidateDescriptor that it finds nothing exactly if its rules are kept;
  the loop that breaks at the first empty name still finds every repetition, as
  there is an error already. `ValidationIsExact` puts them together.
- Writes: what an accepted descriptor satisfies (`AcceptedFacts`) makes both ways to ask
  agree (`Agreement`). The host may have to fall back to Operations where the plugin had
  an empty WriteOperations; `HostHearsTheSame` shows that the two agree, because an
  accepted descriptor with an empty list has no operation marked as a write.
- Schemas: `Int32Bounds` is the arithmetic of the conversion to int32 for every width,
  `LimitTravels` what it makes of a limit, `PropertyTravels` and `RebuiltSchema` what
  comes back of a property and of a schema. FallbackNeverStricter excepts limits from
  2^32 and, as the proof required, minimum lengths below -2^31: both wrap to other limits.

`MultiClusterProofs`: `TypeCorrect`, `LogoutIsFinal`, `PurgeIsFinal`, `LoginIsVisible`,
`PurgeSparesTheLiving` (an action property). What the properties say of reports is not
inductive: the invariants say it of the map too. From its critical section on, a Logout
keeps out every session named after a Login that was answered before the Logout arrived
(`MapInv`), and a purge every session of such a Login that had expired (`PurgeInv`);
after a Login there is a session of its cluster as long as nobody who may take it away
has begun (`SeenInv`); and no call has read a time of the future (`StampInv`).

`HostCallsProofs`: `TypeCorrect`, `ProfileAlwaysReachesHost`, `WritesAlwaysRead`,
`ContextAlwaysExact`, `OldHostAlwaysTold`, `UnimplementedAlwaysCaused`,
`AnswersFindTheirCall`. For the profile,
`AppliedProfile` follows it through applyRequestContext, `ContextProfile` does so for
every method, and the invariant says of every message that is out that it carries its
call's profile (`FlyingInv`). ReadsOwnWrites is not inductive because a write that was
given up may be done at any later time: `WriteInv` says that, as long as no write of a
call has failed, the only write of it that is out is the one it waits for.
`AppliedIsMeant` says of every value of a context that the plugin reads back what the
request means, the dry-run flag and the word of every name included. For
errors, `OutermostStatus`, `UnimplementedAnywhere` and `WrappedUnimplemented` say what
`status.Code` and `IsUnimplemented` make of a wrapped error; `CourseInv` keeps the
process and the methods called of one kind, `AnswerInv` ties a host's answer to what it
implements, and `CauseInv` an answer of Unimplemented to what the plugin returned.

`StaticAuthProofs`: `FieldsAreOfLastWriters`. A field holds what
some Login or Logout wrote that was not over when another writer of the field arrived
(`FieldInv`). A call takes it over when it reads (`ReadInv`), and the argument that it
stays a last or overlapping writer is `WindowsStable`: which calls these are does not
change any more once the field is read.

Only model-checked:

- Liveness (SlowDialBlocksNobodyElse, EveryCallAnswered, OnlyTheUserIsWaitedFor; in
  HostSlot that connections are settled in the end, in ServerStream that every sender is
  rid of its message): TLAPS does not reason about fairness. What three of them rest on is
  proved: who holds the lock of the provider server is in its dial (`LockNeverKept`), who
  holds the mutex of the forwarder is in Send (`MutexNeverKept`), and who waits for the
  host has a request under way or its answer (`AnswersFindTheirCall`). So nobody waits
  for somebody who waits for the same lock, nor for an answer that was lost.
- The three violated statements, which are counterexamples.

Two definitions are written so that they can be proved about: `MarshalledValues` and
`ChunksInOrder` take the n-th element that passes a test by counting, where `SelectSeq`
would be shorter, because the provers cannot expand that.

The modules without a run for their `TypeOK` state it as documentation of their
variables; in the modules with a `TypeCorrect` it is proved.

## Where the code and its documents differ

Three runs show a statement of a comment or document that the code does not keep;
the findings in the manifest quote them. The settings one is a defect: the copy
meant to protect the server's settings shares their bytes with the plugin. The
one about the stale dial needs a stop and another configuration inside one
dial, and leaves a working connection in place. The one about reads is a limit
of protobuf: a provider that says "all operations are reads" with an empty
WriteOperations alone arrives as one that cannot say. It can declare Operations
instead, which do arrive; `WritesKept` shows that nothing is classified wrongly.

Others that follow from the code without a run:

- One connection serves all handlers of a plugin, so that a stop of one, by name,
  closes it for the others (grpc_auth_server.go:190-197, and StopProvider). The models
  have it; `DeadClientOnlyIfClosedUnderCall` and `NoClientOnlyIfClosed` allow for it.
- `ValidateDescriptor` "validates that a Descriptor meets all requirements"
  (provider.go:381), but it never looks at Version and Schema, which are tagged
  `required:"true"` (48, 56), and takes a nil output schema of a capability that requires
  no fields, although one is "Required for all declared capabilities" (59). Descriptors of
  all three kinds are among those of `descriptor_wire`, and validation accepts them; the
  last kind has no schema at all at the host, which refuses it.
- plugin.proto:21-22 promises a stream that ends with exactly one result; the server
  sends as many as the plugin forwards (`ResultsAccounted` says how many).
- ConfigureAuthHandler answers with PluginProtocolVersion, 3
  (grpc_auth_server.go:187), while interface.go:215-216 says that the version of auth
  handler plugins is 2.
- GetAuthIdentity and GetAuthGroups of the host client carry no profile: only
  GetAuthToken does (host_client.go:107), which is what `ProfileReachesHost` is about.
- Claims and login results carry the zero time of Go as a time in the year 1, where
  status and tokens carry 0 (grpc_auth_server.go:102 and 306-347). `AuthMessages` has both
  conversions as they are; no document says which is meant, so no property does.

## What is not modelled, and the plan

Not modelled, with the reason:

- `SecretRef` (plugin/secretref.go): one read of the environment or a file behind a
  prefix. No other code of the SDK uses it and it keeps nothing.
- `SchemaValidator` (provider/validation.go): it hands data and schema to a JSON
  schema library and splits the library's text into lines.
- Flow names, capabilities, the handler metadata and `Token.IsValidFor` (auth/): pure
  functions for plugins and hosts, which no code of the SDK calls.
- The schema builders and the echo example: no state and no decisions.
- The broker of go-plugin and its ids: a server that has a client ignores a new
  HostServiceId (grpc_auth_server.go:222), which the models keep; whether the old
  connection is still good is up to the host.
- The size limit of messages, JSON itself, and the encoding of the generated messages;
  of these only the fields that a property tells apart.
- Overflow of the purged count below -2^31 and of durations above 292 years: no
  handler or host comes near.

Where a model is coarser than the code:

- StaticAuth publishes claims together with the pointer to them. Under Go's memory model a
  reader that races the writer might see fields of them still empty.
- In LoginStream a goroutine loads `sendFailed` and begins its Send in one step, and the
  final Send of the handler is one step; Sends of goroutines take two, so that they can
  overlap each other and the final one.
- In ProviderSettings the plugin takes entries out of its configuration map and writes
  into buffers, but adds no entries; the map is its own (`NoMapRace`), the buffers are not.
- In HostCalls a host answers Unimplemented only for methods it lacks, and the transport
  fails a callback only by Cancel and Disconnect.
- RequestContext decodes all parts of a request at once, where the code stops at the first
  that is malformed: contexts do not change once made, so half a request is seen by
  nobody.
- A plugin that is not of this SDK sends all of its JSON or none, and all of it parses or
  none does; protobuf has no nil entries in lists, so their checks (grpc_server.go:553 and
  578) never apply.

Left for theorems: nothing that a run checks and TLAPS can express. Worth adding would be
an abstract specification of the sessions of MultiCluster, an atomic map, with a proof
that the plugin implements it.
