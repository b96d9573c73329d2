---------------------------- MODULE HostCallsProofs ----------------------------
(***************************************************************************)
(* Theorems about HostCalls, for any calls, requests, hosts and numbers of  *)
(* callbacks.                                                              *)
(***************************************************************************)
EXTENDS HostCalls, SequenceTheorems, TLAPS

-----------------------------------------------------------------------------
(***************************************************************************)
(* Contexts                                                                *)
(***************************************************************************)

Contexts == [Keys -> Entries]

\* A new context has the value that was put into it, and all the others.
LEMMA WithExact ==
    ASSUME NEW cx \in Contexts, NEW k \in Keys, NEW v \in Entries
    PROVE  /\ With(cx, k, v) \in Contexts
           /\ With(cx, k, v)[k] = v
           /\ \A j \in Keys \ {k} : With(cx, k, v)[j] = cx[j]
BY DEF With, Contexts

\* None of the steps of applyRequestContext but the last touches the profile,
\* which is that of the request (grpc_server.go:265-334).
LEMMA AppliedProfile ==
    ASSUME NEW w \in ExecuteRequests, NEW cx \in Contexts,
           cx["profile"] = Unset
    PROVE  /\ ApplyRequestContext(cx, w) \in Contexts
           /\ ProfileFromContext(ApplyRequestContext(cx, w)) = w.profile
           /\ ApplyRequestContext(cx, w)["hostClient"] = cx["hostClient"]
<1> DEFINE c1 == CopyFields(cx, w)
           c2 == UnmarshalIterationContext(c1, w)
           c3 == Parameters(c2, w)
           c4 == UnmarshalSolutionMeta(c3, w)
           Rest(d) == /\ d \in Contexts
                      /\ d["profile"] = Unset
                      /\ d["hostClient"] = cx["hostClient"]
<1>k. {"profile", "hostClient", "iteration", "parameters", "solutionMetadata"} \subseteq Keys
    BY DEF Keys
<1>v. {"item", "nil", "map", "meta", "true", "false"} \cup Words \subseteq Entries
    BY DEF Entries
<1>1. Rest(c1)
    <2>n. \A k \in Names : NameFor(w, k) \in {""} \cup Words
        BY DEF NameFor, ExecuteRequests
    <2>1. \A k \in Keys : c1[k] \in Entries
        BY <1>v, <2>n DEF CopyFields, Contexts
    <2>2. c1["profile"] = cx["profile"] /\ c1["hostClient"] = cx["hostClient"]
        BY <1>k DEF CopyFields, Names
    <2>3. c1 = [k \in Keys |-> c1[k]]
        BY DEF CopyFields
    <2> HIDE DEF c1
    <2> QED BY <2>1, <2>2, <2>3 DEF Contexts
<1> HIDE DEF c1
<1>w. ASSUME NEW d, Rest(d), NEW k \in Keys \ {"profile", "hostClient"}, NEW v \in Entries
      PROVE  Rest(With(d, k, v))
    <2>1. With(d, k, v) \in Contexts /\ \A j \in Keys \ {k} : With(d, k, v)[j] = d[j]
        BY <1>w, WithExact
    <2> QED BY <2>1, <1>w, <1>k
<1>2. Rest(c2)
    BY <1>1, <1>k, <1>v, <1>w DEF UnmarshalIterationContext
<1> HIDE DEF c2
<1>3. Rest(c3)
    BY <1>2, <1>k, <1>v, <1>w DEF Parameters
<1> HIDE DEF c3
<1>4. Rest(c4)
    BY <1>3, <1>k, <1>v, <1>w DEF UnmarshalSolutionMeta
<1> HIDE DEF c4
<1>5. ApplyRequestContext(cx, w) = ApplyProfile(c4, w)
    BY DEF ApplyRequestContext, c1, c2, c3, c4
<1>6. w.profile \in ProfileNames /\ ProfileNames \subseteq Entries
    BY DEF ExecuteRequests, ProfileNames, Entries
<1>7. w.profile # Unset
    BY <1>6, ProfilesAssumption DEF ProfileNames
<1>8. CASE w.profile = DefaultProfile
    BY <1>4, <1>5, <1>8 DEF ApplyProfile, ProfileFromContext, Found
<1>9. CASE w.profile # DefaultProfile
    BY <1>4, <1>5, <1>6, <1>7, <1>9, <1>k, WithExact
    DEF ApplyProfile, ProfileFromContext, Found
<1> QED BY <1>8, <1>9

\* What a server gives the plugin: a context in which, if the plugin can call
\* the host at all, the profile is the request's.
LEMMA ContextProfile ==
    ASSUME NEW r \in Requests
    PROVE  /\ ContextFor(r) \in Contexts
           /\ Found(ContextFor(r), "hostClient")
                => ProfileFromContext(ContextFor(r)) = ProfileOf(r)
<1>k. {"profile", "hostClient"} \subseteq Keys
    BY DEF Keys
<1>v. {Unset, "client"} \cup ProfileNames \subseteq Entries
    BY DEF Entries
<1>b. Background \in Contexts /\ \A k \in Keys : Background[k] = Unset
    BY <1>v DEF Background, Contexts
<1>i. ASSUME NEW cx \in Contexts
      PROVE  /\ InjectHostClient(cx) \in Contexts
             /\ InjectHostClient(cx)["profile"] = cx["profile"]
    BY <1>k, <1>v, WithExact DEF InjectHostClient
<1>d. Executions \cap BareContext = {} /\ Executions \cap SetsProfile = {}
         /\ BareContext \cap SetsProfile = {}
    BY DEF Executions, BareContext, SetsProfile
<1>1. CASE r.method \in BareContext
    BY <1>1, <1>b, <1>k DEF ContextFor, Found
<1>2. CASE r.method \in Executions
    <2>1. r.wire \in ExecuteRequests
        BY <1>2, CallsAssumption
    <2> DEFINE cx == ApplyRequestContext(Background, r.wire)
    <2>2. cx \in Contexts /\ ProfileFromContext(cx) = r.wire.profile
        BY <2>1, <1>b, <1>k, AppliedProfile
    <2> HIDE DEF cx
    <2>3. ContextFor(r) = InjectHostClient(cx)
        BY <1>2, <1>d DEF ContextFor, cx
    <2>4. ProfileOf(r) = r.wire.profile
        BY <1>2 DEF ProfileOf
    <2> QED BY <2>2, <2>3, <2>4, <1>i DEF ProfileFromContext, Found
<1>3. CASE r.method \in SetsProfile
    <2>1. r.profile \in ProfileNames /\ r.profile # Unset
        BY CallsAssumption, ProfilesAssumption DEF ProfileNames
    <2>2. ContextFor(r) = With(InjectHostClient(Background), "profile", r.profile)
        BY <1>3, <1>d DEF ContextFor
    <2>3. ProfileOf(r) = r.profile
        BY <1>3, <1>d DEF ProfileOf
    <2> QED BY <2>1, <2>2, <2>3, <1>b, <1>i, <1>k, <1>v, WithExact
            DEF ProfileFromContext, Found
<1>4. CASE r.method \notin BareContext \cup Executions \cup SetsProfile
    <2>1. ContextFor(r) = InjectHostClient(Background)
        BY <1>4 DEF ContextFor
    <2>2. ProfileOf(r) = DefaultProfile
        BY <1>4 DEF ProfileOf
    <2> QED BY <2>1, <2>2, <1>b, <1>i, <1>k DEF ProfileFromContext, Found
<1> QED BY <1>1, <1>2, <1>3, <1>4

-----------------------------------------------------------------------------
(***************************************************************************)
(* Types                                                                   *)
(***************************************************************************)

\* The errors that Go code makes are short chains.
LEMMA ErrorTypes ==
    /\ Nil \in Errors(1) /\ <<Plain>> \in Errors(1) /\ <<NotSupported>> \in Errors(1)
    /\ \A code \in Codes : <<code>> \in Errors(1)
    /\ \A n \in Nat : \A err \in Errors(n) : Wrap(err) \in Errors(n + 1)
    /\ \A n \in Nat : Errors(n) \subseteq Errors(n + 1)
<1>1. /\ Nil \in Errors(1) /\ <<Plain>> \in Errors(1) /\ <<NotSupported>> \in Errors(1)
      /\ \A code \in Codes : <<code>> \in Errors(1)
    BY DEF Errors, Nil
<1>2. ASSUME NEW n \in Nat, NEW err \in Errors(n) PROVE Wrap(err) \in Errors(n + 1)
    <2>1. /\ <<Plain>> \in Seq(Codes \cup {Plain, NotSupported}) /\ Len(<<Plain>>) = 1
          /\ err \in Seq(Codes \cup {Plain, NotSupported}) /\ Len(err) <= n
        BY DEF Errors
    <2>2. /\ Wrap(err) \in Seq(Codes \cup {Plain, NotSupported})
          /\ Len(Wrap(err)) = 1 + Len(err)
        BY <2>1, ConcatProperties DEF Wrap
    <2>3. Len(err) \in Nat
        BY <2>1
    <2> QED BY <2>1, <2>2, <2>3 DEF Errors
<1>3. \A n \in Nat : Errors(n) \subseteq Errors(n + 1)
    BY DEF Errors
<1> QED BY <1>1, <1>2, <1>3

\* The errors of the client and of the plugin, with what they wrap.
LEMMA ErrorLengths ==
    /\ Errors(1) \subseteq Errors(2) /\ Errors(2) \subseteq Errors(3)
    /\ \A err \in Errors(1) : Wrap(err) \in Errors(2)
    /\ \A err \in Errors(2) : Wrap(err) \in Errors(3)
    /\ \A err \in Errors(3) : Wrap(err) \in Errors(4)
<1>1. 1 + 1 = 2 /\ 2 + 1 = 3 /\ 3 + 1 = 4
    OBVIOUS
<1> QED BY <1>1, ErrorTypes

\* The code of a chain with a status is that of one of its statuses.
LEMMA OutermostStatus ==
    ASSUME NEW err \in Errors(4)
    PROVE  /\ HasStatus(err) => \E i \in Statuses(err) : StatusCode(err) = err[i]
           /\ ~HasStatus(err) => StatusCode(err) \in {"OK", "Unknown"}
<1> DEFINE First(i) == \A j \in Statuses(err) : i <= j
<1>1. Statuses(err) \subseteq 1..4
    BY DEF Statuses, Errors
<1>2. ASSUME Statuses(err) # {} PROVE \E i \in Statuses(err) : First(i)
    BY <1>1, <1>2
<1>3. ASSUME Statuses(err) # {} PROVE (CHOOSE i \in Statuses(err) : First(i)) \in Statuses(err)
    <2> HIDE DEF First
    <2> QED BY <1>2, <1>3
<1>4. HasStatus(err) => err # Nil
    BY DEF HasStatus, Statuses, Nil
<1> QED BY <1>3, <1>4 DEF StatusCode, HasStatus

\* So it is one of the codes.
LEMMA StatusCodeType ==
    ASSUME NEW err \in Errors(4)
    PROVE  StatusCode(err) \in Codes
<1>1. \A i \in Statuses(err) : err[i] \in Codes
    BY DEF Statuses
<1> QED BY <1>1, OutermostStatus DEF Codes

\* The answers of servers and hosts are replies.
LEMMA ReplyTypes ==
    /\ NoReply \in Replies /\ InBand \in Replies /\ Unimplemented \in Replies
    /\ \A code \in Codes : [NoReply EXCEPT !.code = code] \in Replies
    BY DEF NoReply, InBand, Unimplemented, Replies, Values, Stored, Codes

\* The client makes an error or a value of any reply that arrived.
LEMMA ClientResultType ==
    ASSUME NEW method \in HostService, NEW r \in Replies, r.code # "none"
    PROVE  ClientResult(method, r) \in Results
<1>1. r.code \in Codes /\ r.value \in Values
    BY DEF Replies
<1>2. Wrap(<<r.code>>) \in Errors(2) /\ <<Plain>> \in Errors(2) /\ Nil \in Errors(2)
    BY <1>1, ErrorTypes, ErrorLengths
<1>3. EmptyList \in Values /\ NoValue \in Values
    BY DEF Values, Stored
<1> QED BY <1>1, <1>2, <1>3 DEF ClientResult, ClientValue, Results

\* The values in the answers of a host are values; a token's is the profile it
\* was asked for.
LEMMA HostReplyType ==
    ASSUME TypeOK, NEW c \in Calls, NEW cb \in Callbacks,
           cb.method = "GetAuthToken" => cb.profile \in ProfileNames,
           NEW r \in HostReplies(c, cb) \cup {Unimplemented}
    PROVE  r \in Replies /\ r.code # "none"
<1>1. secrets[c] \in Values /\ NoValue \in Values
    BY DEF TypeOK, Values, Stored
<1>2. cb.method = "GetAuthToken" => cb.profile \in Values
    BY DEF Values
<1>3. {"OK", "Unknown", "Unavailable", "Canceled", "Unimplemented"} \subseteq Codes
    BY DEF Codes
<1> DEFINE T == [code : Codes, error : BOOLEAN, value : Values]
<1>4. Unimplemented \in T /\ InBand \in T
    BY <1>1, <1>3 DEF NoReply, InBand, Unimplemented
<1>5. \A code \in {"Unknown", "Unavailable", "Canceled"} : [NoReply EXCEPT !.code = code] \in T
    BY <1>1, <1>3 DEF NoReply
<1>6. HostValue(c, cb) \in Values
    BY <1>1, <1>2 DEF HostValue
<1>7. [code |-> "OK", error |-> FALSE, value |-> HostValue(c, cb)] \in T
    BY <1>3, <1>6
<1>8. r \in T
    <2> HIDE DEF T
    <2> QED BY <1>4, <1>5, <1>7 DEF HostReplies
<1> QED BY <1>8 DEF Replies, Codes

-----------------------------------------------------------------------------
(***************************************************************************)
(* Types, and the profile of callbacks                                      *)
(***************************************************************************)

\* A call that is past its arrival has a request; one that has not reached the
\* plugin has asked the host nothing, one that waits has asked a method; a context
\* in which the plugin finds a client names the profile of the request; and so
\* does every token request, whose call is past its server.
CallInv ==
    /\ \A c \in Calls : pc[c] # "idle" => req[c] \in Requests
    /\ \A c \in Calls : pc[c] \in {"idle", "sent"} => callback[c] = NoCallback
    /\ \A c \in Calls : pc[c] = "waiting" => callback[c].method \in HostService
    /\ \A c \in Calls : answer[c] # NoReply => answer[c].code # "none"
    /\ \A c \in Calls : pc[c] \in {"impl", "waiting"} /\ Found(ctx[c], "hostClient")
                        => ProfileFromContext(ctx[c]) = ProfileOf(req[c])
FlyingInv ==
    \A f \in flying :
        /\ pc[f[1]] \notin {"idle", "sent"}
        /\ f[2].method \in HostService
        /\ f[2].method = "GetAuthToken" => f[2].profile = ProfileOf(req[f[1]])

ProfileInv == TypeOK /\ CallInv /\ FlyingInv

\* A request names a profile or the default one.
LEMMA ProfileOfType ==
    ASSUME NEW r \in Requests PROVE ProfileOf(r) \in ProfileNames
BY CallsAssumption DEF ProfileOf, ProfileNames, ExecuteRequests

\* Nothing has happened yet.
LEMMA ProfileInvInit == Init => ProfileInv
<1> SUFFICES ASSUME Init PROVE ProfileInv
    OBVIOUS
<1>1. Background \in [Keys -> Entries]
    BY DEF Background, Entries
<1>2. NoCallback \in Callbacks
    BY DEF NoCallback, Callbacks, Stored
<1>3. NoResult \in Results
    BY ErrorTypes, ErrorLengths DEF NoResult, Results, Values, Stored
<1>4. TypeOK
    BY <1>1, <1>2, <1>3, ErrorTypes, ErrorLengths, ReplyTypes DEF Init, TypeOK, Stored
<1> QED BY <1>4 DEF Init, ProfileInv, CallInv, FlyingInv

\* The host starts the process, calls it and gives up.
LEMMA HostStepsKeep ==
    ASSUME ProfileInv,
           \/ Start
           \/ \E c \in Calls, r \in Requests : Send(c, r)
           \/ \E c \in Calls : Cancel(c)
           \/ Disconnect
    PROVE  ProfileInv'
<1> USE DEF ProfileInv
<1>1. CASE Start
    BY <1>1 DEF Start, TypeOK, CallInv, FlyingInv, calls, callbacks, host, history
<1>2. ASSUME NEW c \in Calls, NEW r \in Requests, Send(c, r) PROVE ProfileInv'
    <2>1. TypeOK'
        BY <1>2 DEF Send, Goto, TypeOK, start, callbacks, host, history
    <2>2. CallInv'
        BY <1>2 DEF Send, Goto, TypeOK, CallInv, callbacks
    <2>3. FlyingInv'
        BY <1>2 DEF Send, Goto, TypeOK, FlyingInv, callbacks
    <2> QED BY <2>1, <2>2, <2>3
<1>3. ASSUME NEW c \in Calls, Cancel(c) PROVE ProfileInv'
    <2>1. [NoReply EXCEPT !.code = "Canceled"] \in Replies
        BY ReplyTypes DEF Codes
    <2>2. TypeOK'
        BY <1>3, <2>1 DEF Cancel, TypeOK, start, callbacks, host, history
    <2> QED BY <1>3, <2>2 DEF Cancel, CallInv, FlyingInv, callbacks
<1>4. CASE Disconnect
    BY <1>4 DEF Disconnect, TypeOK, CallInv, FlyingInv, start, calls, callbacks, history
<1> QED BY <1>1, <1>2, <1>3, <1>4

\* The server refuses the call or gives the plugin its context.
LEMMA ServeKeeps ==
    ASSUME ProfileInv, NEW c \in Calls, Serve(c)
    PROVE  ProfileInv'
<1> USE DEF ProfileInv
<1>1. req[c] \in Requests
    BY DEF Serve, CallInv
<1>2. Refusal(req[c]) \in Replies
    BY ReplyTypes DEF Refusal
<1>3. /\ ContextFor(req[c]) \in [Keys -> Entries]
      /\ Found(ContextFor(req[c]), "hostClient")
            => ProfileFromContext(ContextFor(req[c])) = ProfileOf(req[c])
    BY <1>1, ContextProfile DEF Contexts
<1>4. TypeOK'
    <2>1. CASE UNCHANGED ctx
        BY <1>2, <2>1 DEF Serve, Answer, Goto, TypeOK, start, callbacks, host, history
    <2>2. CASE ctx' = [ctx EXCEPT ![c] = ContextFor(req[c])] /\ UNCHANGED reply
        BY <1>3, <2>2 DEF Serve, Goto, TypeOK, start, callbacks, host, history
    <2> QED BY <1>2, <1>3, <2>1, <2>2 DEF Serve
<1>5. CallInv'
    BY <1>1, <1>3 DEF Serve, Goto, TypeOK, CallInv, callbacks
<1>6. FlyingInv'
    <2>1. \A k \in Calls : pc[k] \notin {"idle", "sent"} => pc'[k] = pc[k]
        BY DEF Serve, Goto, TypeOK
    <2>2. UNCHANGED <<req, flying>>
        BY DEF Serve, callbacks
    <2>3. \A f \in flying : f[1] \in Calls
        BY DEF TypeOK
    <2> QED BY <2>1, <2>2, <2>3 DEF FlyingInv
<1> QED BY <1>4, <1>5, <1>6

\* What the client asks the host carries the profile of the call.
LEMMA CallHostServiceKeeps ==
    ASSUME ProfileInv, NEW c \in Calls, NEW method \in HostService, NEW v \in Stored,
           CallHostService(c, method, v)
    PROVE  ProfileInv'
<1> USE DEF ProfileInv
<1> DEFINE cb == [n |-> callback[c].n + 1, method |-> method,
                  profile |-> ProfileSent(ctx[c], method), value |-> v]
<1>1. req[c] \in Requests /\ pc[c] = "impl" /\ Found(ctx[c], "hostClient")
    BY DEF CallHostService, CallInv
<1>2. ProfileFromContext(ctx[c]) = ProfileOf(req[c]) /\ ProfileOf(req[c]) \in ProfileNames
    BY <1>1, ProfileOfType DEF CallInv
<1>3. ProfileSent(ctx[c], method) \in ProfileNames \cup {Unset}
    BY <1>2 DEF ProfileSent
<1>4. callback[c].n + 1 \in Nat
    BY DEF TypeOK, Callbacks
<1>5. /\ cb \in Callbacks /\ cb.method \in HostService
      /\ cb.method = "GetAuthToken" => cb.profile = ProfileOf(req[c])
    BY <1>2, <1>3, <1>4 DEF Callbacks, ProfileSent
<1>6. Aborted(method) \in Results
    <2>1. /\ [NoReply EXCEPT !.code = "Canceled"] \in Replies
          /\ [NoReply EXCEPT !.code = "Canceled"].code # "none"
        BY ReplyTypes DEF Codes, NoReply
    <2> QED BY <2>1, ClientResultType DEF Aborted
<1>7. /\ callback' = [callback EXCEPT ![c] = cb]
      /\ answer' = [answer EXCEPT ![c] = NoReply]
      /\ UNCHANGED <<start, req, ctx, canceled, reply, returned, host>>
      /\ \/ /\ flying' = flying \cup {<<c, cb>>}
            /\ result' = [result EXCEPT ![c] = NoResult]
            /\ Goto(c, "waiting")
            /\ UNCHANGED history
         \/ /\ Record(c, cb, Aborted(method))
            /\ UNCHANGED <<pc, flying>>
    BY DEF CallHostService
<1> HIDE DEF cb
<1>8. TypeOK'
    <2>1. NoResult \in Results
        BY ErrorTypes, ErrorLengths DEF NoResult, Results, Values, Stored
    <2>2. cb.value \in Stored
        BY <1>5 DEF Callbacks
    <2>3. flying' \subseteq Calls \X Callbacks
        BY <1>5, <1>7 DEF TypeOK
    <2>4. /\ callback' \in [Calls -> Callbacks] /\ answer' \in [Calls -> Replies]
          /\ result' \in [Calls -> Results]
          /\ pc' \in [Calls -> {"idle", "sent", "impl", "waiting", "done"}]
        BY <1>5, <1>6, <1>7, <2>1, ReplyTypes DEF TypeOK, Goto, Record
    <2>5. acked' \in [Calls -> Stored] /\ unsure' \in [Calls -> BOOLEAN]
        BY <1>7, <2>2 DEF TypeOK, Record, history
    <2> QED BY <1>7, <2>3, <2>4, <2>5 DEF TypeOK, start, host
<1>9. CallInv'
    BY <1>1, <1>5, <1>7 DEF CallInv, TypeOK, Goto
<1>10. FlyingInv'
    <2>1. \A k \in Calls : pc[k] \notin {"idle", "sent"} => pc'[k] \notin {"idle", "sent"}
        BY <1>7 DEF Goto, TypeOK
    <2>2. pc'[c] \notin {"idle", "sent"}
        BY <1>1, <2>1
    <2>3. \A f \in flying : f[1] \in Calls
        BY DEF TypeOK
    <2>4. \A f \in flying' : f \in flying \/ f = <<c, cb>>
        BY <1>7
    <2>5. UNCHANGED req
        BY <1>7
    <2> QED BY <1>5, <2>1, <2>2, <2>3, <2>4, <2>5 DEF FlyingInv
<1> QED BY <1>8, <1>9, <1>10

\* The plugin hears what became of its callback.
LEMMA CallbackStepKeeps ==
    ASSUME ProfileInv, NEW c \in Calls, CallbackStep(c)
    PROVE  ProfileInv'
<1> USE DEF ProfileInv
<1>1. PICK r : /\ r \in Replies /\ r.code # "none"
               /\ Record(c, callback[c], ClientResult(callback[c].method, r))
    <2>1. CASE AbortCallback(c)
        <3>1. /\ [NoReply EXCEPT !.code = "Canceled"] \in Replies
              /\ [NoReply EXCEPT !.code = "Canceled"].code # "none"
            BY ReplyTypes DEF Codes, NoReply
        <3> QED BY <2>1, <3>1 DEF AbortCallback, Aborted
    <2>2. CASE ReceiveReply(c)
        BY <2>2 DEF ReceiveReply, CallInv, TypeOK
    <2> QED BY <2>1, <2>2 DEF CallbackStep
<1>2. /\ pc[c] = "waiting" /\ Goto(c, "impl")
      /\ UNCHANGED <<start, req, ctx, canceled, reply, returned, callback, answer, flying, host>>
    BY DEF CallbackStep, AbortCallback, ReceiveReply
<1>3. ClientResult(callback[c].method, r) \in Results
    BY <1>1, <1>2, ClientResultType DEF CallInv
<1>4. TypeOK'
    <2>1. callback[c].value \in Stored
        BY DEF TypeOK, Callbacks
    <2>2. /\ result' \in [Calls -> Results] /\ acked' \in [Calls -> Stored]
          /\ unsure' \in [Calls -> BOOLEAN]
        BY <1>1, <1>3, <2>1 DEF Record, TypeOK
    <2> QED BY <1>2, <2>2 DEF TypeOK, Goto, start, host
<1>5. CallInv'
    BY <1>2 DEF CallInv, TypeOK, Goto
<1>6. FlyingInv'
    <2>1. \A k \in Calls : pc[k] \notin {"idle", "sent"} => pc'[k] \notin {"idle", "sent"}
        BY <1>2 DEF Goto, TypeOK
    <2>2. \A f \in flying : f[1] \in Calls
        BY DEF TypeOK
    <2> QED BY <1>2, <2>1, <2>2 DEF FlyingInv
<1> QED BY <1>4, <1>5, <1>6

\* Whatever the host answers to a request under way tells something.
LEMMA HostAnswerType ==
    ASSUME ProfileInv, NEW f \in flying,
           NEW r \in HostReplies(f[1], f[2]) \cup {Unimplemented}
    PROVE  r \in Replies /\ r.code # "none"
<1> USE DEF ProfileInv
<1>1. f[1] \in Calls /\ f[2] \in Callbacks
    BY DEF TypeOK
<1>2. pc[f[1]] \notin {"idle", "sent"} /\ req[f[1]] \in Requests
    BY <1>1 DEF FlyingInv, CallInv
<1>3. f[2].method = "GetAuthToken" => f[2].profile \in ProfileNames
    BY <1>2, ProfileOfType DEF FlyingInv
<1> QED BY <1>1, <1>3, HostReplyType

\* The host handles a callback, in time or not.
LEMMA HandleHostServiceKeeps ==
    ASSUME ProfileInv, NEW f \in flying,
           NEW r \in HostReplies(f[1], f[2]) \cup {Unimplemented},
           HandleHostService(f[1], f[2], r)
    PROVE  ProfileInv'
<1> USE DEF ProfileInv
<1> DEFINE c == f[1]
           cb == f[2]
<1>1. c \in Calls /\ cb \in Callbacks
    BY DEF TypeOK
<1>2. r \in Replies /\ r.code # "none"
    BY HostAnswerType
<1>3. TypeOK'
    <2>1. cb.value \in Stored
        BY <1>1 DEF Callbacks
    <2>2. /\ secrets' \in [Calls -> Stored] /\ answer' \in [Calls -> Replies]
          /\ flying' \subseteq Calls \X Callbacks
        BY <1>1, <1>2, <2>1 DEF HandleHostService, TypeOK
    <2> QED BY <2>2 DEF HandleHostService, TypeOK, start, calls, history
<1>4. CallInv'
    BY <1>1, <1>2 DEF HandleHostService, TypeOK, CallInv, calls
<1>5. FlyingInv'
    BY DEF HandleHostService, FlyingInv, calls
<1> QED BY <1>3, <1>4, <1>5

\* The plugin returns.
LEMMA ImplReturnsKeeps ==
    ASSUME ProfileInv, NEW c \in Calls, NEW err, ImplReturns(c, err)
    PROVE  ProfileInv'
<1> USE DEF ProfileInv
<1>1. err \in Errors(3)
    <2>1. result[c].err \in Errors(2)
        BY DEF TypeOK, Results
    <2> QED BY <2>1, ErrorTypes, ErrorLengths DEF ImplReturns, ImplErrors
<1>2. ServerReply(req[c].method, err) \in Replies
    <2>1. StatusCode(Wrap(err)) \in Codes
        BY <1>1, ErrorLengths, StatusCodeType
    <2>2. {"OK", "Unimplemented"} \subseteq Codes
        BY DEF Codes
    <2>3. CodeOf(req[c].method, err) \in Codes
        BY <2>1, <2>2 DEF CodeOf
    <2> QED BY <2>2, <2>3, ReplyTypes DEF ServerReply
<1>3. TypeOK'
    BY <1>1, <1>2 DEF ImplReturns, Answer, Goto, TypeOK, start, callbacks, host, history
<1>4. CallInv'
    BY DEF ImplReturns, Goto, TypeOK, CallInv, callbacks
<1>5. FlyingInv'
    <2>1. \A k \in Calls : pc[k] \notin {"idle", "sent"} => pc'[k] \notin {"idle", "sent"}
        BY DEF ImplReturns, Goto, TypeOK
    <2>2. UNCHANGED <<req, flying>>
        BY DEF ImplReturns, callbacks
    <2>3. \A f \in flying : f[1] \in Calls
        BY DEF TypeOK
    <2> QED BY <2>1, <2>2, <2>3 DEF FlyingInv
<1> QED BY <1>3, <1>4, <1>5

\* The steps of one call, with what the proofs of the invariants use of them.
LEMMA NextSteps ==
    ASSUME Next
    PROVE  \/ \/ Start
              \/ \E c \in Calls, r \in Requests : Send(c, r)
              \/ \E c \in Calls : Cancel(c)
              \/ Disconnect
           \/ \E c \in Calls : Serve(c)
           \/ \E c \in Calls, method \in HostService, v \in Stored :
                 CallHostService(c, method, v)
           \/ \E c \in Calls : CallbackStep(c)
           \/ \E f \in flying : \E r \in HostReplies(f[1], f[2]) \cup {Unimplemented} :
                 HandleHostService(f[1], f[2], r)
           \/ \E c \in Calls : \E err \in ImplErrors(c) : ImplReturns(c, err)
BY DEF Next, CallPluginService, CallAuthHandlerService, HandlePluginService,
       HandleAuthHandlerService, CallHost, HostStep, Stored

LEMMA ProfileInvNext == ProfileInv /\ [Next]_vars => ProfileInv'
<1> SUFFICES ASSUME ProfileInv, [Next]_vars PROVE ProfileInv'
    OBVIOUS
<1>1. CASE Next
    BY <1>1, NextSteps, HostStepsKeep, ServeKeeps, CallHostServiceKeeps,
       CallbackStepKeeps, HandleHostServiceKeeps, ImplReturnsKeeps
<1>2. CASE UNCHANGED vars
    BY <1>2 DEF vars, start, calls, callbacks, host, history, ProfileInv, TypeOK,
                CallInv, FlyingInv
<1> QED BY <1>1, <1>2

LEMMA ProfileInvHolds == SafeSpec => []ProfileInv
BY ProfileInvInit, ProfileInvNext, PTL DEF SafeSpec

\* The variables have their types (TypeOK), for any calls and requests.
THEOREM TypeCorrect == SafeSpec => []TypeOK
BY ProfileInvHolds, PTL DEF ProfileInv

\* A plugin asks the host for tokens on behalf of the profile the host has named
\* in the call, or of none (host_client.go:107; grpc_server.go:330-332).
THEOREM ProfileAlwaysReachesHost == SafeSpec => []ProfileReachesHost
<1>1. ProfileInv => ProfileReachesHost
    BY DEF ProfileInv, FlyingInv, ProfileReachesHost
<1> QED BY <1>1, ProfileInvHolds, PTL

-----------------------------------------------------------------------------
(***************************************************************************)
(* What a call knows of its secret                                          *)
(***************************************************************************)

Stands(r) == r.code = "OK" /\ ~r.error

\* As long as no write of c has failed, the only write that can be out is the one
\* c waits for, unanswered; if it has been answered well, its value is stored, and
\* so is what a read was answered with.
WriteInvOf(c) ==
    /\ \A f \in flying : f[1] = c /\ f[2].method \in Writes
            => pc[c] = "waiting" /\ f[2] = callback[c] /\ answer[c] = NoReply
    /\ ~(pc[c] = "waiting" /\ callback[c].method \in Writes) => secrets[c] = acked[c]
    /\ pc[c] = "waiting" /\ answer[c] # NoReply
        => /\ callback[c].method \in Writes /\ Stands(answer[c])
                => secrets[c] = callback[c].value
           /\ callback[c].method = "GetSecret" /\ Stands(answer[c])
                => answer[c].value = secrets[c]
    /\ pc[c] = "impl" /\ callback[c].method = "GetSecret" /\ result[c].err = Nil
        => result[c].value = acked[c]

WriteInv == \A c \in Calls : ~unsure[c] => WriteInvOf(c)

\* A good result is one of a good reply, and carries its value.
LEMMA GoodResult ==
    ASSUME NEW method \in Writes \cup {"GetSecret"}, NEW r \in Replies, r.code # "none",
           ClientResult(method, r).err = Nil
    PROVE  Stands(r) /\ ClientResult(method, r).value = r.value
<1>1. method \in HasErrorField /\ method # "GetAuthGroups"
    BY DEF Writes, HasErrorField, HostService
<1>2. <<Plain>> # Nil
    BY DEF Nil
<1>3. Wrap(<<r.code>>) # Nil
    <2>1. Len(Wrap(<<r.code>>)) = 2
        BY DEF Wrap
    <2> QED BY <2>1 DEF Nil
<1> QED BY <1>1, <1>2, <1>3 DEF ClientResult, ResponseError, ClientValue, Stands

\* The plugin calls the host: nothing is out yet but what it asks now, and a
\* call that ends at once is an error.
LEMMA CallHostServiceKeepsWrites ==
    ASSUME ProfileInv, WriteInv, NEW c \in Calls, NEW method \in HostService,
           NEW v \in Stored, CallHostService(c, method, v)
    PROVE  WriteInv'
<1> DEFINE cb == [n |-> callback[c].n + 1, method |-> method,
                  profile |-> ProfileSent(ctx[c], method), value |-> v]
<1>1. /\ pc[c] = "impl"
      /\ callback' = [callback EXCEPT ![c] = cb]
      /\ answer' = [answer EXCEPT ![c] = NoReply]
      /\ UNCHANGED secrets
      /\ \/ /\ flying' = flying \cup {<<c, cb>>}
            /\ result' = [result EXCEPT ![c] = NoResult]
            /\ pc' = [pc EXCEPT ![c] = "waiting"]
            /\ UNCHANGED <<acked, unsure>>
         \/ /\ Record(c, cb, Aborted(method))
            /\ UNCHANGED <<pc, flying>>
    BY DEF CallHostService, host, history, Goto
<1>2. cb.method = method
    OBVIOUS
<1> HIDE DEF cb
<1>3. ASSUME method \in Writes \cup {"GetSecret"} PROVE Aborted(method).err # Nil
    <2>1. /\ [NoReply EXCEPT !.code = "Canceled"] \in Replies
          /\ [NoReply EXCEPT !.code = "Canceled"].code = "Canceled"
        BY ReplyTypes DEF Codes, NoReply
    <2> QED BY <1>3, <2>1, GoodResult DEF Aborted, Stands
<1>4. ASSUME NEW k \in Calls, k # c, ~unsure'[k] PROVE WriteInvOf(k)'
    <2>1. /\ ~unsure[k] /\ pc'[k] = pc[k] /\ callback'[k] = callback[k]
          /\ answer'[k] = answer[k] /\ result'[k] = result[k] /\ acked'[k] = acked[k]
          /\ secrets'[k] = secrets[k]
        BY <1>1, <1>4 DEF ProfileInv, TypeOK, Record
    <2>2. \A f \in flying' : f[1] = k => f \in flying
        BY <1>1, <1>4
    <2> QED BY <2>1, <2>2 DEF WriteInv, WriteInvOf
<1>5. ASSUME ~unsure'[c] PROVE WriteInvOf(c)'
    <2>1. ~unsure[c] /\ secrets[c] = acked[c]
        BY <1>1, <1>5 DEF ProfileInv, TypeOK, Record, WriteInv, WriteInvOf
    <2>2. \A f \in flying : f[1] = c => f[2].method \notin Writes
        BY <1>1, <2>1 DEF WriteInv, WriteInvOf
    <2>3. callback'[c] = cb /\ answer'[c] = NoReply /\ secrets'[c] = secrets[c]
        BY <1>1 DEF ProfileInv, TypeOK
    <2>4. CASE pc' = [pc EXCEPT ![c] = "waiting"] /\ flying' = flying \cup {<<c, cb>>}
               /\ UNCHANGED acked
        <3>1. pc'[c] = "waiting"
            BY <2>4 DEF ProfileInv, TypeOK
        <3>2. \A f \in flying' : f[1] = c /\ f[2].method \in Writes => f[2] = cb
            BY <2>2, <2>4
        <3> QED BY <2>1, <2>3, <2>4, <3>1, <3>2 DEF WriteInvOf
    <2>5. CASE Record(c, cb, Aborted(method)) /\ UNCHANGED <<pc, flying>>
        <3>1. result'[c] = Aborted(method)
            BY <2>5 DEF ProfileInv, TypeOK, Record
        <3>2. cb.method \notin Writes
            BY <1>2, <1>3, <1>5, <2>5 DEF ProfileInv, TypeOK, Record
        <3>3. acked' = acked /\ pc'[c] = "impl"
            BY <1>1, <2>5, <3>2 DEF Record
        <3> QED BY <1>2, <1>3, <2>1, <2>2, <2>3, <2>5, <3>1, <3>2, <3>3 DEF WriteInvOf
    <2> QED BY <1>1, <2>4, <2>5
<1> QED BY <1>4, <1>5 DEF WriteInv

\* A write that is given up or fails leaves its call unsure; one that succeeds
\* is stored.
LEMMA CallbackStepKeepsWrites ==
    ASSUME ProfileInv, WriteInv, NEW c \in Calls, CallbackStep(c)
    PROVE  WriteInv'
<1> DEFINE cb == callback[c]
<1>1. /\ pc[c] = "waiting" /\ pc' = [pc EXCEPT ![c] = "impl"]
      /\ UNCHANGED <<callback, answer, flying, secrets>>
      /\ cb.method \in HostService
    BY DEF CallbackStep, AbortCallback, ReceiveReply, Goto, host, ProfileInv, CallInv
<1>2. PICK r : /\ r \in Replies /\ r.code # "none"
               /\ Record(c, cb, ClientResult(cb.method, r))
               /\ Stands(r) => r = answer[c] /\ answer[c] # NoReply
    <2>1. CASE AbortCallback(c)
        <3>1. /\ [NoReply EXCEPT !.code = "Canceled"] \in Replies
              /\ [NoReply EXCEPT !.code = "Canceled"].code = "Canceled"
            BY ReplyTypes DEF Codes, NoReply
        <3> QED BY <2>1, <3>1 DEF AbortCallback, Aborted, Stands
    <2>2. CASE ReceiveReply(c)
        BY <2>2 DEF ReceiveReply, ProfileInv, CallInv, TypeOK
    <2> QED BY <2>1, <2>2 DEF CallbackStep
<1> DEFINE res == ClientResult(cb.method, r)
<1>3. ASSUME cb.method \in Writes \cup {"GetSecret"}, res.err = Nil
      PROVE  Stands(answer[c]) /\ answer[c] # NoReply /\ res.value = answer[c].value
    BY <1>2, <1>3, GoodResult
<1> HIDE DEF res
<1>4. Record(c, cb, res)
    BY <1>2 DEF res
<1>5. ASSUME NEW k \in Calls, k # c, ~unsure'[k] PROVE WriteInvOf(k)'
    <2>1. /\ ~unsure[k] /\ pc'[k] = pc[k] /\ result'[k] = result[k] /\ acked'[k] = acked[k]
        BY <1>1, <1>4, <1>5 DEF ProfileInv, TypeOK, Record
    <2> QED BY <1>1, <2>1 DEF WriteInv, WriteInvOf
<1>6. ASSUME ~unsure'[c] PROVE WriteInvOf(c)'
    <2>1. ~unsure[c] /\ pc'[c] = "impl" /\ result'[c] = res
        BY <1>1, <1>4, <1>6 DEF ProfileInv, TypeOK, Record
    <2>2. WriteInvOf(c)
        BY <2>1 DEF WriteInv
    <2>3. CASE cb.method \in Writes
        <3>1. res.err = Nil /\ acked'[c] = cb.value
            BY <1>4, <1>6, <2>3 DEF ProfileInv, TypeOK, Record
        <3>2. secrets[c] = cb.value /\ answer[c] # NoReply
            BY <1>1, <1>3, <2>2, <2>3, <3>1 DEF WriteInvOf
        <3>3. cb.method # "GetSecret"
            BY <2>3 DEF Writes
        <3> QED BY <1>1, <2>1, <2>2, <3>1, <3>2, <3>3 DEF WriteInvOf
    <2>4. CASE cb.method \notin Writes
        <3>1. acked' = acked
            BY <1>4, <2>4 DEF Record
        <3>2. cb.method = "GetSecret" /\ res.err = Nil => res.value = secrets[c]
            BY <1>1, <1>3, <2>2 DEF WriteInvOf
        <3> QED BY <1>1, <2>1, <2>2, <2>4, <3>1, <3>2 DEF WriteInvOf
    <2> QED BY <2>3, <2>4
<1> QED BY <1>5, <1>6 DEF WriteInv

\* The host handles a callback: if it is a write of a call that is not unsure,
\* that call waits for it.
LEMMA HandleHostServiceKeepsWrites ==
    ASSUME ProfileInv, WriteInv, NEW f \in flying,
           NEW r \in HostReplies(f[1], f[2]) \cup {Unimplemented},
           HandleHostService(f[1], f[2], r)
    PROVE  WriteInv'
<1> DEFINE c == f[1]
           cb == f[2]
<1>1. c \in Calls /\ cb \in Callbacks
    BY DEF ProfileInv, TypeOK
<1>2. /\ flying' = flying \ {<<c, cb>>} /\ f = <<c, cb>>
      /\ secrets' = IF cb.method \in Writes /\ Stands(r)
                    THEN [secrets EXCEPT ![c] = cb.value] ELSE secrets
      /\ answer' = IF pc[c] = "waiting" /\ cb = callback[c]
                   THEN [answer EXCEPT ![c] = r] ELSE answer
      /\ UNCHANGED <<pc, callback, result, acked, unsure>>
    BY <1>1 DEF HandleHostService, calls, history, Stands, ProfileInv, TypeOK
<1>3. r # NoReply
    <2>1. pc[c] \notin {"idle", "sent"} /\ req[c] \in Requests
        BY <1>1 DEF ProfileInv, FlyingInv, CallInv
    <2>2. cb.method = "GetAuthToken" => cb.profile \in ProfileNames
        BY <2>1, ProfileOfType DEF ProfileInv, FlyingInv
    <2>3. r.code # "none"
        BY <1>1, <2>2, HostReplyType DEF ProfileInv
    <2> QED BY <2>3 DEF NoReply
<1>4. ASSUME cb.method = "GetSecret", Stands(r) PROVE r.value = secrets[c]
    <2>1. \A code \in {"Unavailable", "Canceled", "Unknown"} :
             [NoReply EXCEPT !.code = code].code # "OK"
        BY DEF NoReply
    <2>2. Unimplemented.code # "OK" /\ InBand.error
        BY DEF Unimplemented, InBand, NoReply
    <2>3. r = [code |-> "OK", error |-> FALSE, value |-> HostValue(c, cb)]
        BY <1>4, <2>1, <2>2 DEF HostReplies, Stands
    <2> QED BY <1>4, <2>3 DEF HostValue
<1>5. ASSUME NEW k \in Calls, k # c, ~unsure'[k] PROVE WriteInvOf(k)'
    <2>1. /\ ~unsure[k] /\ secrets'[k] = secrets[k] /\ answer'[k] = answer[k]
        BY <1>1, <1>2, <1>5 DEF ProfileInv, TypeOK
    <2> QED BY <1>2, <2>1 DEF WriteInv, WriteInvOf
<1>6. ASSUME ~unsure'[c] PROVE WriteInvOf(c)'
    <2>1. ~unsure[c] /\ WriteInvOf(c)
        BY <1>1, <1>2, <1>6 DEF WriteInv
    <2>2. CASE cb.method \in Writes
        <3>1. pc[c] = "waiting" /\ cb = callback[c]
            BY <2>1, <2>2 DEF WriteInvOf
        <3>2. answer'[c] = r /\ cb.method # "GetSecret"
            BY <1>1, <1>2, <2>2, <3>1 DEF ProfileInv, TypeOK, Writes
        <3>3. Stands(r) => secrets'[c] = cb.value
            BY <1>1, <1>2, <2>2 DEF ProfileInv, TypeOK
        <3>4. \A g \in flying' : g[1] = c => g[2].method \notin Writes
            <4> SUFFICES ASSUME NEW g \in flying, g[1] = c, g[2].method \in Writes
                         PROVE  g = <<c, cb>>
                BY <1>2
            <4>1. g[2] = callback[c]
                BY <2>1 DEF WriteInvOf
            <4> QED BY <3>1, <4>1 DEF ProfileInv, TypeOK
        <3> QED BY <1>2, <2>2, <3>1, <3>2, <3>3, <3>4 DEF WriteInvOf
    <2>3. CASE cb.method \notin Writes
        <3>1. secrets' = secrets
            BY <1>2, <2>3
        <3>2. CASE pc[c] = "waiting" /\ cb = callback[c]
            <4>1. answer'[c] = r
                BY <1>1, <1>2, <3>2 DEF ProfileInv, TypeOK
            <4>2. \A g \in flying : g[1] = c => g[2].method \notin Writes
                BY <2>1, <2>3, <3>2 DEF WriteInvOf
            <4> QED BY <1>2, <1>4, <2>1, <2>3, <3>1, <3>2, <4>1, <4>2 DEF WriteInvOf
        <3>3. CASE ~(pc[c] = "waiting" /\ cb = callback[c])
            BY <1>2, <2>1, <3>1, <3>3 DEF WriteInvOf
        <3> QED BY <3>2, <3>3
    <2> QED BY <2>2, <2>3
<1> QED BY <1>5, <1>6 DEF WriteInv

\* The other steps of a call leave its callbacks and its secret alone.
LEMMA OtherStepsKeepWrites ==
    ASSUME ProfileInv, WriteInv, NEW c \in Calls,
           \/ \E r \in Requests : Send(c, r)
           \/ Serve(c)
           \/ \E err \in ImplErrors(c) : ImplReturns(c, err)
    PROVE  WriteInv'
<1>1. /\ UNCHANGED <<callback, answer, result, flying, secrets, acked, unsure>>
      /\ pc[c] # "waiting"
      /\ pc' = [pc EXCEPT ![c] = "done"] \/ pc[c] \in {"idle", "sent"}
      /\ \E loc \in {"sent", "impl", "done"} : pc' = [pc EXCEPT ![c] = loc]
    BY DEF Send, Serve, ImplReturns, Goto, callbacks, host, history
<1>2. pc'[c] # "waiting" /\ \A k \in Calls \ {c} : pc'[k] = pc[k]
    BY <1>1 DEF ProfileInv, TypeOK
<1>3. pc'[c] = "impl" => callback[c].method = "none"
    <2>1. pc'[c] = "impl" => pc[c] \in {"idle", "sent"}
        BY <1>1 DEF ProfileInv, TypeOK
    <2> QED BY <2>1 DEF ProfileInv, CallInv, NoCallback
<1>4. ASSUME NEW k \in Calls, ~unsure'[k] PROVE WriteInvOf(k)'
    <2>1. WriteInvOf(k)
        BY <1>1, <1>4 DEF WriteInv
    <2>2. CASE k = c
        BY <1>1, <1>2, <1>3, <2>1, <2>2 DEF WriteInvOf
    <2>3. CASE k # c
        BY <1>1, <1>2, <2>1, <2>3 DEF WriteInvOf
    <2> QED BY <2>2, <2>3
<1> QED BY <1>4 DEF WriteInv

LEMMA WriteInvNext == ProfileInv /\ WriteInv /\ [Next]_vars => WriteInv'
<1> SUFFICES ASSUME ProfileInv, WriteInv, [Next]_vars PROVE WriteInv'
    OBVIOUS
<1>1. CASE Start \/ Disconnect \/ (\E c \in Calls : Cancel(c)) \/ UNCHANGED vars
    <2>1. UNCHANGED <<pc, callback, answer, result, flying, secrets, acked, unsure>>
        BY <1>1 DEF Start, Disconnect, Cancel, vars, calls, callbacks, host, history
    <2> QED BY <2>1 DEF WriteInv, WriteInvOf
<1>2. CASE Next
    BY <1>1, <1>2, NextSteps, OtherStepsKeepWrites, CallHostServiceKeepsWrites,
       CallbackStepKeepsWrites, HandleHostServiceKeepsWrites
<1> QED BY <1>1, <1>2

\* As long as none of its writes has failed a call knows what the host has stored,
\* and reads that (host_client.go:29-63).
THEOREM WritesAlwaysRead == SafeSpec => []ReadsOwnWrites
<1>1. Init => WriteInv
    BY DEF Init, WriteInv, WriteInvOf, NoCallback, Writes
<1>2. WriteInv => ReadsOwnWrites
    BY DEF WriteInv, WriteInvOf, ReadsOwnWrites
<1> QED BY <1>1, <1>2, ProfileInvHolds, WriteInvNext, PTL DEF SafeSpec

-----------------------------------------------------------------------------
(***************************************************************************)
(* Errors that say that a method is not implemented                         *)
(***************************************************************************)

\* IsUnimplemented finds the status anywhere in the chain (host_client.go:166-182).
LEMMA UnimplementedAnywhere ==
    ASSUME NEW err \in Errors(4)
    PROVE  IsUnimplemented(err) <=> \E i \in 1..Len(err) : err[i] = "Unimplemented"
<1>0. /\ err \in Seq(Codes \cup {Plain, NotSupported}) /\ Len(err) \in Nat /\ Len(err) <= 4
      /\ "Unimplemented" \in Codes
    BY DEF Errors, Codes
<1>1. ASSUME NEW i \in 1..Len(err)
      PROVE  /\ SubSeq(err, i, Len(err)) \in Errors(4)
             /\ Len(SubSeq(err, i, Len(err))) = Len(err) - i + 1
             /\ \A j \in 1..(Len(err) - i + 1) : SubSeq(err, i, Len(err))[j] = err[i + j - 1]
    BY <1>0 DEF Errors
<1>2. ASSUME NEW i \in 1..Len(err),
             HasStatus(SubSeq(err, i, Len(err))),
             StatusCode(SubSeq(err, i, Len(err))) = "Unimplemented"
      PROVE  \E j \in 1..Len(err) : err[j] = "Unimplemented"
    <2>1. PICK j \in Statuses(SubSeq(err, i, Len(err))) :
              SubSeq(err, i, Len(err))[j] = "Unimplemented"
        BY <1>1, <1>2, OutermostStatus
    <2>2. j \in 1..(Len(err) - i + 1)
        BY <1>1, <2>1 DEF Statuses
    <2>3. err[i + j - 1] = "Unimplemented" /\ i + j - 1 \in 1..Len(err)
        BY <1>0, <1>1, <2>1, <2>2
    <2> QED BY <2>3
<1>3. ASSUME NEW i \in 1..Len(err), err[i] = "Unimplemented"
      PROVE  IsUnimplemented(err)
    <2> DEFINE rest == SubSeq(err, i, Len(err))
    <2>1. 1 \in 1..Len(rest) /\ rest[1] = "Unimplemented"
        BY <1>0, <1>1, <1>3
    <2>2. 1 \in Statuses(rest) /\ \A j \in Statuses(rest) : 1 <= j
        BY <1>0, <2>1 DEF Statuses
    <2>3. \A k \in Statuses(rest) : (\A j \in Statuses(rest) : k <= j) => k = 1
        BY <1>0, <1>1, <2>2 DEF Statuses
    <2> HIDE DEF rest
    <2>4. (CHOOSE k \in Statuses(rest) : \A j \in Statuses(rest) : k <= j) = 1
        BY <2>2, <2>3
    <2>5. rest # Nil /\ HasStatus(rest)
        BY <2>1, <2>2 DEF Nil, HasStatus
    <2>6. StatusCode(rest) = "Unimplemented"
        BY <2>1, <2>4, <2>5 DEF StatusCode
    <2> QED BY <2>5, <2>6 DEF IsUnimplemented, rest
<1> QED BY <1>2, <1>3 DEF IsUnimplemented

\* To wrap an error changes nothing about that.
LEMMA WrappedUnimplemented ==
    ASSUME NEW err \in Errors(3)
    PROVE  /\ IsUnimplemented(Wrap(err)) <=> IsUnimplemented(err)
           /\ StatusCode(Wrap(err)) = "Unimplemented" => IsUnimplemented(err)
<1>1. err \in Errors(4) /\ Wrap(err) \in Errors(4) /\ Len(err) \in Nat
    BY ErrorTypes, ErrorLengths DEF Errors
<1>2. /\ Len(Wrap(err)) = Len(err) + 1
      /\ Wrap(err)[1] = Plain
      /\ \A i \in 1..Len(err) : Wrap(err)[i + 1] = err[i]
    <2>1. /\ <<Plain>> \in Seq(Codes \cup {Plain, NotSupported}) /\ Len(<<Plain>>) = 1
          /\ <<Plain>>[1] = Plain
          /\ err \in Seq(Codes \cup {Plain, NotSupported})
        BY DEF Errors
    <2> QED BY <1>1, <2>1, ConcatProperties DEF Wrap
<1>3. ASSUME NEW i \in 1..Len(Wrap(err)), Wrap(err)[i] = "Unimplemented"
      PROVE  i - 1 \in 1..Len(err) /\ err[i - 1] = "Unimplemented"
    BY <1>1, <1>2, <1>3 DEF Plain
<1>4. IsUnimplemented(Wrap(err)) <=> IsUnimplemented(err)
    <2>1. ASSUME IsUnimplemented(Wrap(err)) PROVE IsUnimplemented(err)
        BY <1>1, <1>3, <2>1, UnimplementedAnywhere
    <2>2. ASSUME IsUnimplemented(err) PROVE IsUnimplemented(Wrap(err))
        <3>1. PICK i \in 1..Len(err) : err[i] = "Unimplemented"
            BY <1>1, <2>2, UnimplementedAnywhere
        <3>2. i + 1 \in 1..Len(Wrap(err)) /\ Wrap(err)[i + 1] = "Unimplemented"
            BY <1>1, <1>2, <3>1
        <3> QED BY <1>1, <3>2, UnimplementedAnywhere
    <2> QED BY <2>1, <2>2
<1>5. ASSUME StatusCode(Wrap(err)) = "Unimplemented" PROVE IsUnimplemented(Wrap(err))
    <2>1. \E i \in Statuses(Wrap(err)) : Wrap(err)[i] = "Unimplemented"
        BY <1>1, <1>5, OutermostStatus
    <2> QED BY <1>1, <2>1, UnimplementedAnywhere DEF Statuses
<1> QED BY <1>4, <1>5

\* What the plugin can tell from the error of the client: a canceled call, and a
\* method that is not implemented, from all the rest.
LEMMA ClientResultTells ==
    ASSUME NEW method \in HostService, NEW r \in Replies, r.code # "none"
    PROVE  /\ r.code = "Canceled" => StatusCode(ClientResult(method, r).err) = "Canceled"
           /\ r.code # "Unimplemented" => ~IsUnimplemented(ClientResult(method, r).err)
           /\ r.code = "Unimplemented" =>
                 IF method = "GetAuthGroups"
                 THEN ClientResult(method, r) = [err |-> Nil, value |-> EmptyList]
                 ELSE IsUnimplemented(ClientResult(method, r).err)
<1>1. r.code \in Codes /\ <<r.code>> \in Errors(4) /\ Wrap(<<r.code>>) \in Errors(4)
    BY ErrorTypes, ErrorLengths DEF Replies
<1>2. StatusCode(<<r.code>>) = r.code
    <2>1. Statuses(<<r.code>>) = {1}
        BY <1>1 DEF Statuses
    <2> QED BY <1>1, <2>1, OutermostStatus DEF HasStatus
<1>3. /\ Wrap(<<r.code>>) \in Seq(Codes \cup {Plain}) /\ Len(Wrap(<<r.code>>)) = 2
      /\ Wrap(<<r.code>>)[1] = Plain /\ Wrap(<<r.code>>)[2] = r.code
    BY <1>1 DEF Wrap
<1>4. Statuses(Wrap(<<r.code>>)) = {2}
    BY <1>1, <1>3 DEF Statuses, Plain, Codes
<1>5. StatusCode(Wrap(<<r.code>>)) = r.code
    BY <1>1, <1>3, <1>4, OutermostStatus DEF HasStatus
<1>6. IsUnimplemented(Wrap(<<r.code>>)) <=> r.code = "Unimplemented"
    BY <1>1, <1>3, UnimplementedAnywhere DEF Plain
<1>7. ~IsUnimplemented(Nil) /\ ~IsUnimplemented(<<Plain>>)
    BY ErrorTypes, ErrorLengths, UnimplementedAnywhere DEF Nil, Plain
<1>8. GroupsUnsupported(r) <=> r.code = "Unimplemented"
    BY <1>2 DEF GroupsUnsupported
<1>9. CASE method = "GetAuthGroups" /\ r.code = "Unimplemented"
    BY <1>8, <1>9 DEF ClientResult
<1>10. CASE ~(method = "GetAuthGroups" /\ r.code = "Unimplemented") /\ r.code # "OK"
    <2>1. ClientResult(method, r) = [err |-> Wrap(<<r.code>>), value |-> NoValue]
        BY <1>8, <1>10 DEF ClientResult
    <2> QED BY <1>5, <1>6, <1>10, <2>1
<1>11. CASE r.code = "OK"
    <2>1. ClientResult(method, r).err \in {Nil, <<Plain>>}
        BY <1>8, <1>11 DEF ClientResult
    <2> QED BY <1>7, <1>11, <2>1
<1> QED BY <1>9, <1>10, <1>11

-----------------------------------------------------------------------------
(***************************************************************************)
(* What the plugin finds in the context of an execution                     *)
(***************************************************************************)

\* applyRequestContext, step by step: every value is that of the request, under
\* its own key, and what the request leaves out is not there.
LEMMA AppliedIsMeant ==
    ASSUME NEW w \in ExecuteRequests, Decodes(w)
    PROVE  /\ ApplyRequestContext(Background, w) \in Contexts
           /\ ReadBack(ApplyRequestContext(Background, w)) = Meant(w)
<1> DEFINE c1 == CopyFields(Background, w)
           c2 == UnmarshalIterationContext(c1, w)
           c3 == Parameters(c2, w)
           c4 == UnmarshalSolutionMeta(c3, w)
           c5 == ApplyProfile(c4, w)
           Copied == {"dryRun", "backup", "resolverContext"} \cup Names
           Later == {"iteration", "parameters", "solutionMetadata", "profile"}
<1> USE DEF Unset
<1>k. Copied \cup Later \subseteq Keys /\ Copied \cap Later = {}
    BY DEF Keys, Names
<1>w. /\ \A k \in Names : w.names[k] \in {""} \cup Words
      /\ w.profile \in Profiles \cup {DefaultProfile}
      /\ w.dryRun \in BOOLEAN /\ w.backup \in BOOLEAN /\ w.solutionMetadata \in BOOLEAN
      /\ w.names = [k \in Names |-> w.names[k]]
    BY DEF ExecuteRequests
<1>v. {"item", "nil", "map", "meta", "true", "false"} \cup Words
          \cup Profiles \cup {DefaultProfile} \subseteq Entries \ {Unset}
    BY ProfilesAssumption DEF Entries, Words, ProfileNames
<1>1. /\ c1 \in Contexts
      /\ c1["dryRun"] = IF w.dryRun THEN "true" ELSE "false"
      /\ \A k \in Names : c1[k] = IF w.names[k] # "" THEN w.names[k] ELSE Unset
      /\ c1["backup"] = IF w.backup THEN "true" ELSE Unset
      /\ c1["resolverContext"] = IF w.context = "value" THEN "map" ELSE Unset
      /\ \A k \in Later : c1[k] = Unset
    <2>1. \A k \in Keys : c1[k] \in Entries
        BY <1>v, <1>w DEF CopyFields, Background, Entries, NameFor
    <2>2. c1 = [k \in Keys |-> c1[k]]
        BY DEF CopyFields
    <2>3. c1 \in Contexts
        BY <2>1, <2>2 DEF Contexts
    <2>4. \A k \in Names : c1[k] = IF w.names[k] # "" THEN w.names[k] ELSE Unset
        BY <1>k DEF CopyFields, Background, Names, NameFor
    <2> QED BY <1>k, <2>3, <2>4 DEF CopyFields, Background, Names, NameFor, DryRun
<1> HIDE DEF c1
<1>p. ASSUME NEW cx \in Contexts, NEW k \in Later, NEW v \in Entries
      PROVE  /\ With(cx, k, v) \in Contexts
             /\ With(cx, k, v)[k] = v
             /\ \A j \in Keys \ {k} : With(cx, k, v)[j] = cx[j]
    <2>1. k \in Keys
        BY <1>k
    <2> QED BY <2>1, <1>p, WithExact
<1>e. c1["iteration"] = Unset
    BY <1>1
<1>2. /\ c2 \in Contexts /\ \A k \in Keys \ {"iteration"} : c2[k] = c1[k]
      /\ c2["iteration"] = IF w.iteration = "none" THEN Unset
                           ELSE IF w.iteration = "value" THEN "item" ELSE "nil"
    <2>1. CASE w.iteration = "none"
        BY <1>1, <1>e, <2>1 DEF UnmarshalIterationContext
    <2>2. CASE w.iteration # "none"
        <3> DEFINE v == IF w.iteration = "value" THEN "item" ELSE "nil"
        <3>1. c2 = With(c1, "iteration", v)
            BY <2>2 DEF UnmarshalIterationContext
        <3>2. v \in Entries
            BY <1>v
        <3> HIDE DEF c2, v
        <3>k. "iteration" \in Keys
            BY <1>k
        <3>c. c1 \in Contexts
            BY <1>1
        <3>3. c2 \in Contexts /\ c2["iteration"] = v
            BY <3>1, <3>2, <3>k, <3>c, WithExact
        <3>4. \A k \in Keys \ {"iteration"} : c2[k] = c1[k]
            BY <1>1, <3>1 DEF With, Contexts
        <3> QED BY <2>2, <3>3, <3>4 DEF v
    <2> QED BY <2>1, <2>2
<1> HIDE DEF c2
<1>f. c2["parameters"] = Unset
    BY <1>1, <1>2, <1>k
<1>3. /\ c3 \in Contexts /\ \A k \in Keys \ {"parameters"} : c3[k] = c2[k]
      /\ c3["parameters"] = CASE w.parameters = "value" -> "map"
                              [] w.parameters = "null" -> "nil"
                              [] OTHER -> Unset
    BY <1>2, <1>f, <1>p, <1>v DEF Parameters
<1> HIDE DEF c3
<1>g. c3["solutionMetadata"] = Unset
    BY <1>1, <1>2, <1>3, <1>k
<1>4. /\ c4 \in Contexts /\ \A k \in Keys \ {"solutionMetadata"} : c4[k] = c3[k]
      /\ c4["solutionMetadata"] = IF w.solutionMetadata THEN "meta" ELSE Unset
    BY <1>3, <1>g, <1>p, <1>v DEF UnmarshalSolutionMeta
<1> HIDE DEF c4
<1>h. c4["profile"] = Unset
    BY <1>1, <1>2, <1>3, <1>4, <1>k
<1>5. /\ c5 \in Contexts /\ \A k \in Keys \ {"profile"} : c5[k] = c4[k]
      /\ c5["profile"] = IF w.profile # DefaultProfile THEN w.profile ELSE Unset
    <2>1. CASE w.profile = DefaultProfile
        BY <1>4, <1>h, <2>1 DEF ApplyProfile
    <2>2. CASE w.profile # DefaultProfile
        <3>1. c5 = With(c4, "profile", w.profile)
            BY <2>2 DEF ApplyProfile
        <3>2. w.profile \in Entries
            BY <1>v, <1>w
        <3> HIDE DEF c5
        <3>k. "profile" \in Keys
            BY <1>k
        <3>c. c4 \in Contexts
            BY <1>4
        <3>3. c5 \in Contexts /\ c5["profile"] = w.profile
            BY <3>1, <3>2, <3>k, <3>c, WithExact
        <3>4. \A k \in Keys \ {"profile"} : c5[k] = c4[k]
            BY <1>4, <3>1 DEF With, Contexts
        <3> QED BY <2>2, <3>3, <3>4
    <2> QED BY <2>1, <2>2
<1>6. ApplyRequestContext(Background, w) = c5
    BY DEF ApplyRequestContext, c1, c2, c3, c4
<1> HIDE DEF c5
<1>7. \A k \in Copied : c5[k] = c1[k]
    BY <1>k, <1>2, <1>3, <1>4, <1>5
<1>8. /\ c5["iteration"] = c2["iteration"] /\ c5["parameters"] = c3["parameters"]
      /\ c5["solutionMetadata"] = c4["solutionMetadata"]
    BY <1>k, <1>3, <1>4, <1>5
<1>9. /\ w.iteration # "malformed" /\ w.context # "malformed"
      /\ w.parameters \in {"absent", "null", "value"}
    BY DEF Decodes, DecodeErrors, ExecuteRequests, Json
<1> DEFINE rb == ReadBack(c5)
           mw == Meant(w)
<1>10. rb.names = mw.names
    <2>1. rb.names = [k \in Names |-> IF Found(c5, k) THEN c5[k] ELSE ""]
        BY DEF ReadBack
    <2>2. \A k \in Names : (IF Found(c5, k) THEN c5[k] ELSE "") = w.names[k]
        BY <1>1, <1>7, <1>w DEF Found, Words
    <2> QED BY <1>w, <2>1, <2>2 DEF Meant
<1>11. rb.dryRun = mw.dryRun /\ rb.backup = mw.backup /\ rb.context = mw.context
    BY <1>1, <1>7, <1>9, <1>w DEF ReadBack, Meant, DryRunFromContext
<1>12. rb.iteration = mw.iteration /\ rb.parameters = mw.parameters
    BY <1>2, <1>3, <1>8, <1>9 DEF ReadBack, Meant
<1>13. rb.solutionMetadata = mw.solutionMetadata
    BY <1>4, <1>8, <1>w DEF ReadBack, Meant, Found
<1>14. rb.profile = mw.profile
    BY <1>5, <1>v, <1>w DEF ReadBack, Meant, Found, ProfileFromContext
<1>15. rb = mw
    BY <1>10, <1>11, <1>12, <1>13, <1>14 DEF ReadBack, Meant
<1> QED BY <1>5, <1>6, <1>15

\* The client of the host is none of the values of the request.
LEMMA ClientReadsBack ==
    ASSUME NEW cx \in Contexts
    PROVE  ReadBack(InjectHostClient(cx)) = ReadBack(cx)
<1>1. "hostClient" \in Keys /\ "client" \in Entries
    BY DEF Keys, Entries
<1>2. \A k \in Keys \ {"hostClient"} : InjectHostClient(cx)[k] = cx[k]
    BY <1>1, WithExact DEF InjectHostClient
<1>3. Names \cup {"dryRun", "backup", "resolverContext", "iteration", "parameters",
                 "solutionMetadata", "profile"} \subseteq Keys \ {"hostClient"}
    BY DEF Names, Keys
<1>4. [k \in Names |-> IF Found(InjectHostClient(cx), k) THEN InjectHostClient(cx)[k] ELSE ""]
        = [k \in Names |-> IF Found(cx, k) THEN cx[k] ELSE ""]
    BY <1>2, <1>3 DEF Found
<1> QED BY <1>2, <1>3, <1>4 DEF ReadBack, Found, DryRunFromContext, ProfileFromContext

-----------------------------------------------------------------------------
(***************************************************************************)
(* The course of a call                                                     *)
(***************************************************************************)

\* The plugin has what an execution means.
ContextIsMeant(c) ==
    req[c].method \in Executions =>
        ReadBack(ctx[c]) = Meant(req[c].wire)

\* A process that serves is of the kind the host wants, so its server has all
\* methods that are called; only a call that it has not refused gets to the
\* plugin, with its context, and from there to the host.
CourseInv ==
    /\ process = "serving" => served = wanted
    /\ \A c \in Calls :
          /\ pc[c] = "idle" => req[c] = NoRequest
          /\ pc[c] # "idle" => req[c].method \in Methods(served)
          /\ pc[c] \in {"impl", "waiting"} => ~Refused(req[c]) /\ ContextIsMeant(c)
          /\ callback[c] # NoCallback => ~Refused(req[c])
          /\ callback[c] = NoCallback => result[c] = NoResult

\* The answer of a host to a callback tells whether it has the method.
AnswerInv ==
    \A c \in Calls : answer[c] # NoReply =>
        IF callback[c].method \in implemented THEN answer[c].code # "Unimplemented"
        ELSE answer[c].code = "Unimplemented"

\* A call that ended with Unimplemented has a cause.
CauseInv ==
    \A c \in Calls : reply[c].code = "Unimplemented" =>
        /\ pc[c] = "done"
        /\ \/ req[c].method = "ExecuteProviderStream" /\ IsNotSupported(returned[c])
           \/ req[c].method \in ReturnsError /\ IsUnimplemented(returned[c])
                                             /\ callback[c].method \notin implemented

\* A process serves only a host that wants its kind.
LEMMA HandshakesDiffer ==
    ASSUME NEW s \in Kinds, NEW w \in Kinds, Accepts(s, w)
    PROVE  s = w
BY DEF Accepts, Handshake, Kinds

LEMMA CourseStep == ProfileInv /\ CourseInv /\ [Next]_vars => CourseInv'
<1> SUFFICES ASSUME ProfileInv, CourseInv, [Next]_vars PROVE CourseInv'
    OBVIOUS
<1> USE DEF ProfileInv
<1>1. CASE Start
    <2>1. process' = "serving" => served' = wanted'
        BY <1>1, HandshakesDiffer DEF Start, TypeOK
    <2>2. UNCHANGED <<served, calls, callbacks>>
        BY <1>1 DEF Start
    <2> QED BY <2>1, <2>2 DEF CourseInv, Refused, ContextIsMeant, calls, callbacks
<1>2. ASSUME NEW c \in Calls, NEW r \in Requests, Send(c, r) PROVE CourseInv'
    <2>1. /\ r.method \in Methods(served) /\ pc[c] = "idle"
          /\ req' = [req EXCEPT ![c] = r] /\ pc' = [pc EXCEPT ![c] = "sent"]
          /\ UNCHANGED <<start, ctx, callbacks>>
        BY <1>2 DEF Send, Goto, CourseInv
    <2>2. callback[c] = NoCallback
        BY <2>1 DEF CallInv
    <2> QED BY <2>1, <2>2
            DEF CourseInv, Refused, ContextIsMeant, start, callbacks, TypeOK
<1>3. CASE Disconnect \/ (\E c \in Calls : Cancel(c)) \/ UNCHANGED vars
    <2>1. UNCHANGED <<start, pc, req, ctx, callbacks>>
        BY <1>3 DEF Disconnect, Cancel, vars, calls
    <2> QED BY <2>1 DEF CourseInv, Refused, ContextIsMeant, start, callbacks
<1>4. ASSUME NEW c \in Calls, Serve(c) PROVE CourseInv'
    <2>1. /\ pc[c] = "sent" /\ req[c] \in Requests
          /\ UNCHANGED <<start, req, callbacks>>
        BY <1>4 DEF Serve, CallInv
    <2>2. CASE UNCHANGED ctx /\ pc' = [pc EXCEPT ![c] = "done"]
        BY <2>1, <2>2 DEF CourseInv, Refused, ContextIsMeant, start, callbacks, TypeOK
    <2>3. CASE /\ ~Refused(req[c]) /\ pc' = [pc EXCEPT ![c] = "impl"]
               /\ ctx' = [ctx EXCEPT ![c] = ContextFor(req[c])]
        <3>1. ctx'[c] = ContextFor(req[c])
            BY <2>3 DEF TypeOK
        <3>2. ASSUME req[c].method \in Executions
              PROVE  ReadBack(ContextFor(req[c])) = Meant(req[c].wire)
            <4>1. req[c].wire \in ExecuteRequests /\ Decodes(req[c].wire)
                BY <2>1, <2>3, <3>2, CallsAssumption DEF Refused
            <4>2. ContextFor(req[c])
                    = InjectHostClient(ApplyRequestContext(Background, req[c].wire))
                BY <3>2 DEF ContextFor, Executions, BareContext
            <4> QED BY <4>1, <4>2, AppliedIsMeant, ClientReadsBack
        <3> QED BY <2>1, <2>3, <3>1, <3>2
                DEF CourseInv, Refused, ContextIsMeant, start, callbacks, TypeOK
    <2> QED BY <1>4, <2>2, <2>3 DEF Serve, Goto
<1>5. ASSUME NEW c \in Calls, NEW method \in HostService, NEW v \in Stored,
             CallHostService(c, method, v)
      PROVE  CourseInv'
    <2>1. /\ pc[c] = "impl" /\ pc' \in {pc, [pc EXCEPT ![c] = "waiting"]}
          /\ callback'[c].method = method
          /\ \A k \in Calls \ {c} : callback'[k] = callback[k] /\ result'[k] = result[k]
          /\ UNCHANGED <<start, req, ctx>>
        BY <1>5 DEF CallHostService, Goto, Record, TypeOK
    <2>2. callback'[c] # NoCallback
        BY <2>1 DEF NoCallback, HostService
    <2> QED BY <2>1, <2>2 DEF CourseInv, Refused, ContextIsMeant, start, TypeOK
<1>6. ASSUME NEW c \in Calls, CallbackStep(c) PROVE CourseInv'
    <2>1. /\ pc[c] = "waiting" /\ pc' = [pc EXCEPT ![c] = "impl"]
          /\ \A k \in Calls \ {c} : result'[k] = result[k]
          /\ UNCHANGED <<start, req, ctx, callback>>
        BY <1>6 DEF CallbackStep, AbortCallback, ReceiveReply, Goto, Record, TypeOK
    <2>2. callback[c] # NoCallback
        BY <2>1 DEF CallInv, NoCallback, HostService
    <2> QED BY <2>1, <2>2 DEF CourseInv, Refused, ContextIsMeant, start, TypeOK
<1>7. ASSUME NEW f \in flying, NEW r, HandleHostService(f[1], f[2], r) PROVE CourseInv'
    BY <1>7 DEF HandleHostService, CourseInv, Refused, ContextIsMeant, start, calls
<1>8. ASSUME NEW c \in Calls, NEW err, ImplReturns(c, err) PROVE CourseInv'
    <2>1. /\ pc[c] = "impl" /\ pc' = [pc EXCEPT ![c] = "done"]
          /\ UNCHANGED <<start, req, ctx, callbacks>>
        BY <1>8 DEF ImplReturns, Goto
    <2> QED BY <2>1 DEF CourseInv, Refused, ContextIsMeant, start, callbacks, TypeOK
<1> QED BY <1>1, <1>2, <1>3, <1>4, <1>5, <1>6, <1>7, <1>8, NextSteps

\* The plugin reads back the request of the host, value by value, in any number
\* of concurrent calls, and runs with no half of a request (grpc_server.go:61-71,
\* 265-334; provider/context.go).
THEOREM ContextAlwaysExact == SafeSpec => []ContextExact
<1>1. Init => CourseInv
    BY DEF Init, CourseInv, NoCallback
<1>2. CourseInv => ContextExact
    BY DEF CourseInv, ContextIsMeant, ContextExact
<1> QED BY <1>1, <1>2, ProfileInvHolds, CourseStep, PTL DEF SafeSpec

-----------------------------------------------------------------------------
(***************************************************************************)
(* What the plugin can tell of the host, and the host of a call             *)
(***************************************************************************)

\* The host does not learn methods.
LEMMA SameHost == [Next]_vars => implemented' = implemented
BY NextSteps DEF vars, Start, Send, Cancel, Disconnect, Serve, CallHostService, CallbackStep,
   AbortCallback, ReceiveReply, HandleHostService, ImplReturns, host

\* A host that has the method never answers that it has not.
LEMMA ImplementedAnswers ==
    ASSUME NEW c, NEW cb, NEW r \in HostReplies(c, cb)
    PROVE  r.code # "Unimplemented"
<1>1. \A code \in {"Unknown", "Unavailable", "Canceled"} :
          [NoReply EXCEPT !.code = code].code # "Unimplemented"
    BY DEF NoReply
<1>2. InBand.code # "Unimplemented"
    BY DEF InBand, NoReply
<1>3. [code |-> "OK", error |-> FALSE, value |-> HostValue(c, cb)].code # "Unimplemented"
    OBVIOUS
<1>4. \/ r = [code |-> "OK", error |-> FALSE, value |-> HostValue(c, cb)]
      \/ \E code \in {"Unknown", "Unavailable", "Canceled"} : r = [NoReply EXCEPT !.code = code]
      \/ r = InBand
    BY DEF HostReplies
<1> QED BY <1>1, <1>2, <1>3, <1>4

LEMMA AnswerStep == ProfileInv /\ AnswerInv /\ [Next]_vars => AnswerInv'
<1> SUFFICES ASSUME ProfileInv, AnswerInv, [Next]_vars PROVE AnswerInv'
    OBVIOUS
<1> USE DEF ProfileInv
<1>1. ASSUME NEW c \in Calls, NEW method \in HostService, NEW v \in Stored,
             CallHostService(c, method, v)
      PROVE  AnswerInv'
    <2>1. /\ answer'[c] = NoReply /\ UNCHANGED implemented
          /\ \A k \in Calls \ {c} : answer'[k] = answer[k] /\ callback'[k] = callback[k]
        BY <1>1 DEF CallHostService, TypeOK, host
    <2> QED BY <2>1 DEF AnswerInv
<1>2. ASSUME NEW f \in flying, NEW r \in HostReplies(f[1], f[2]) \cup {Unimplemented},
             HandleHostService(f[1], f[2], r)
      PROVE  AnswerInv'
    <2>1. IF f[2].method \in implemented THEN r.code # "Unimplemented"
          ELSE r.code = "Unimplemented"
        BY <1>2, ImplementedAnswers DEF HandleHostService, Unimplemented, NoReply
    <2>2. UNCHANGED <<callback, implemented>>
        BY <1>2 DEF HandleHostService
    <2>3. \A k \in Calls : answer'[k] = answer[k] \/ (answer'[k] = r /\ f[2] = callback[k])
        BY <1>2 DEF HandleHostService, TypeOK
    <2> QED BY <2>1, <2>2, <2>3 DEF AnswerInv
<1>3. CASE UNCHANGED <<answer, callback, implemented>>
    BY <1>3 DEF AnswerInv
<1>4. \/ UNCHANGED <<answer, callback, implemented>>
      \/ \E c \in Calls, method \in HostService, v \in Stored : CallHostService(c, method, v)
      \/ \E f \in flying : \E r \in HostReplies(f[1], f[2]) \cup {Unimplemented} :
            HandleHostService(f[1], f[2], r)
    BY NextSteps DEF vars, Start, Send, Cancel, Disconnect, Serve, CallbackStep, AbortCallback,
       ReceiveReply, ImplReturns, callbacks, host
<1> QED BY <1>1, <1>2, <1>3, <1>4

\* OldHostTold for the result r of a callback of method m to a host with some methods.
Tells(has, m, r) ==
    IF m \in has THEN ~IsUnimplemented(r.err)
    ELSE \/ StatusCode(r.err) = "Canceled"
         \/ IF m = "GetAuthGroups" THEN r.err = Nil /\ r.value = EmptyList
            ELSE IsUnimplemented(r.err)

\* A call that is aborted tells nothing of the host.
LEMMA AbortedTells ==
    ASSUME NEW m \in HostService
    PROVE  \A has : Tells(has, m, Aborted(m))
<1>1. /\ [NoReply EXCEPT !.code = "Canceled"] \in Replies
      /\ [NoReply EXCEPT !.code = "Canceled"].code = "Canceled"
    BY ReplyTypes DEF Codes, NoReply
<1> QED BY <1>1, ClientResultTells DEF Tells, Aborted

LEMMA ToldStep == ProfileInv /\ AnswerInv /\ OldHostTold /\ [Next]_vars => OldHostTold'
<1> SUFFICES ASSUME ProfileInv, AnswerInv, OldHostTold, [Next]_vars, NEW c \in Calls,
                    pc'[c] = "impl", callback'[c] # NoCallback
             PROVE  Tells(implemented, callback'[c].method, result'[c])
    BY SameHost DEF OldHostTold, Tells
<1> USE DEF ProfileInv
<1>1. CASE CallbackStep(c)
    <2>1. callback' = callback /\ callback[c].method \in HostService
        BY <1>1 DEF CallbackStep, AbortCallback, ReceiveReply, CallInv
    <2>2. CASE AbortCallback(c)
        <3>1. result'[c] = Aborted(callback[c].method)
            BY <2>2 DEF AbortCallback, Record, TypeOK
        <3> QED BY <2>1, <3>1, AbortedTells
    <2>3. CASE ReceiveReply(c)
        <3>1. /\ result'[c] = ClientResult(callback[c].method, answer[c])
              /\ answer[c] # NoReply /\ answer[c] \in Replies /\ answer[c].code # "none"
            BY <2>3 DEF ReceiveReply, Record, TypeOK, CallInv
        <3>2. IF callback[c].method \in implemented THEN answer[c].code # "Unimplemented"
              ELSE answer[c].code = "Unimplemented"
            BY <3>1 DEF AnswerInv
        <3> QED BY <2>1, <3>1, <3>2, ClientResultTells DEF Tells
    <2> QED BY <1>1, <2>2, <2>3 DEF CallbackStep
<1>2. ASSUME NEW method \in HostService, NEW v \in Stored, CallHostService(c, method, v)
      PROVE  Tells(implemented, callback'[c].method, result'[c])
    <2>1. callback'[c].method = method
        BY <1>2 DEF CallHostService, TypeOK
    <2>2. pc' = pc
        BY <1>2 DEF CallHostService, Goto, TypeOK
    <2>3. result'[c] = Aborted(method)
        BY <1>2, <2>2 DEF CallHostService, Goto, Record, TypeOK
    <2> QED BY <2>1, <2>3, AbortedTells
<1>3. CASE /\ ~CallbackStep(c)
           /\ ~ \E method \in HostService, v \in Stored : CallHostService(c, method, v)
    <2>1. callback'[c] = callback[c] /\ result'[c] = result[c]
        <3>1. ASSUME NEW k \in Calls \ {c},
                     \/ CallbackStep(k)
                     \/ \E method \in HostService, v \in Stored : CallHostService(k, method, v)
              PROVE  callback'[c] = callback[c] /\ result'[c] = result[c]
            BY <3>1 DEF CallbackStep, AbortCallback, ReceiveReply, CallHostService, Record, TypeOK
        <3>2. \/ UNCHANGED <<callback, result>>
              \/ \E k \in Calls \ {c} :
                    \/ CallbackStep(k)
                    \/ \E method \in HostService, v \in Stored : CallHostService(k, method, v)
            BY <1>3, NextSteps DEF vars, Start, Send, Cancel, Disconnect, Serve,
               HandleHostService, ImplReturns, callbacks
        <3> QED BY <3>1, <3>2
    <2>2. pc[c] = "impl"
        <3>1. pc[c] \notin {"idle", "sent"}
            BY <2>1 DEF CallInv
        <3> QED BY <1>3, <3>1, NextSteps DEF vars, Start, Send, Cancel, Disconnect, Serve,
                CallHostService, CallbackStep, AbortCallback, ReceiveReply, HandleHostService,
                ImplReturns, Goto, calls, TypeOK
    <2> QED BY <2>1, <2>2 DEF OldHostTold, Tells
<1> QED BY <1>1, <1>2, <1>3

\* IsUnimplemented tells an old host from everything else that may go wrong
\* (host_client.go:124-142, 166-182).
THEOREM OldHostAlwaysTold == SafeSpec => []OldHostTold
<1>1. Init => AnswerInv /\ OldHostTold
    BY DEF Init, AnswerInv, OldHostTold
<1> QED BY <1>1, ProfileInvHolds, AnswerStep, ToldStep, PTL DEF SafeSpec

\* The errors that the plugin returns say that a method is not implemented only
\* if its last callback said so.
LEMMA PassedOn ==
    ASSUME ProfileInv, NEW c \in Calls, NEW err \in ImplErrors(c), IsUnimplemented(err)
    PROVE  IsUnimplemented(result[c].err)
<1>1. result[c].err \in Errors(2) /\ result[c].err \in Errors(3)
    BY ErrorLengths DEF ProfileInv, TypeOK, Results
<1>2. \A e \in {Nil, <<Plain>>, <<NotSupported>>} : ~IsUnimplemented(e)
    <2>1. \A e \in {Nil, <<Plain>>, <<NotSupported>>} : e \in Errors(4)
        <3>1. \A e \in Errors(1) : e \in Errors(4)
            BY DEF Errors
        <3> QED BY <3>1, ErrorTypes
    <2>2. \A e \in {Nil, <<Plain>>, <<NotSupported>>} :
              \A i \in 1..Len(e) : e[i] # "Unimplemented"
        BY DEF Nil, Plain, NotSupported
    <2> QED BY <2>1, <2>2, UnimplementedAnywhere
<1> QED BY <1>1, <1>2, WrappedUnimplemented DEF ImplErrors

\* The status of an answer is Unimplemented only by the plugin's doing.
LEMMA UnimplementedReply ==
    ASSUME NEW method, NEW err \in Errors(3), ServerReply(method, err).code = "Unimplemented"
    PROVE  \/ method = "ExecuteProviderStream" /\ IsNotSupported(err)
           \/ method \in ReturnsError /\ IsUnimplemented(err)
<1>1. AsStatus(method, err) /\ CodeOf(method, err) = "Unimplemented"
    BY DEF ServerReply, NoReply, InBand
<1> QED BY <1>1, WrappedUnimplemented DEF AsStatus, CodeOf

LEMMA CauseStep ==
    ProfileInv /\ CourseInv /\ OldHostTold /\ CauseInv /\ [Next]_vars => CauseInv'
<1> SUFFICES ASSUME ProfileInv, CourseInv, OldHostTold, CauseInv, [Next]_vars,
                    NEW c \in Calls, reply'[c].code = "Unimplemented"
             PROVE  /\ pc'[c] = "done"
                    /\ \/ req'[c].method = "ExecuteProviderStream" /\ IsNotSupported(returned'[c])
                       \/ req'[c].method \in ReturnsError /\ IsUnimplemented(returned'[c])
                                              /\ callback'[c].method \notin implemented'
    BY DEF CauseInv
<1> USE DEF ProfileInv
<1>1. CASE reply'[c] = reply[c]
    <2>1. pc[c] = "done"
        BY <1>1 DEF CauseInv
    <2>2. /\ pc'[c] = "done" /\ req'[c] = req[c] /\ returned'[c] = returned[c]
          /\ callback'[c] = callback[c]
        BY <2>1, NextSteps DEF vars, Start, Send, Cancel, Disconnect, Serve, CallHostService,
           CallbackStep, AbortCallback, ReceiveReply, HandleHostService, ImplReturns, Goto, calls,
           callbacks, TypeOK
    <2> QED BY <1>1, <2>2, SameHost DEF CauseInv
<1>2. CASE reply'[c] # reply[c]
    <2>1. \/ Cancel(c) \/ Serve(c) \/ \E err \in ImplErrors(c) : ImplReturns(c, err)
        BY <1>2, NextSteps DEF vars, Start, Send, Cancel, Disconnect, Serve, CallHostService,
           CallbackStep, AbortCallback, ReceiveReply, HandleHostService, ImplReturns, Answer,
           calls, TypeOK
    <2>2. ~Cancel(c)
        <3>1. Cancel(c) => reply'[c].code = "Canceled"
            BY DEF Cancel, TypeOK, NoReply
        <3> QED BY <3>1
    <2>3. ~Serve(c)
        <3> SUFFICES ASSUME Serve(c) PROVE FALSE
            OBVIOUS
        <3>1. reply'[c] = Refusal(req[c])
            BY <1>2 DEF Serve, Answer, TypeOK
        <3>2. Refusal(req[c]) = InBand
            BY DEF Serve, CourseInv, Refusal
        <3> QED BY <3>1, <3>2 DEF InBand, NoReply
    <2>4. PICK err \in ImplErrors(c) : ImplReturns(c, err)
        BY <2>1, <2>2, <2>3
    <2>5. /\ pc[c] = "impl" /\ pc'[c] = "done" /\ returned'[c] = err
          /\ req' = req /\ callback' = callback
          /\ reply'[c] = ServerReply(req[c].method, err)
        BY <1>2, <2>4 DEF ImplReturns, Goto, Answer, callbacks, TypeOK
    <2>6. err \in Errors(3)
        <3>1. result[c].err \in Errors(2)
            BY DEF TypeOK, Results
        <3> QED BY <3>1, ErrorTypes, ErrorLengths DEF ImplErrors
    <2>7. \/ req[c].method = "ExecuteProviderStream" /\ IsNotSupported(err)
          \/ req[c].method \in ReturnsError /\ IsUnimplemented(err)
        BY <2>5, <2>6, UnimplementedReply
    <2>8. IsUnimplemented(err) => callback[c].method \notin implemented
        <3> SUFFICES ASSUME IsUnimplemented(err) PROVE callback[c].method \notin implemented
            OBVIOUS
        <3>1. IsUnimplemented(result[c].err)
            BY PassedOn
        <3>2. callback[c] # NoCallback
            <4>1. ~IsUnimplemented(NoResult.err)
                BY ErrorTypes, ErrorLengths, UnimplementedAnywhere DEF NoResult, Nil
            <4> QED BY <3>1, <4>1 DEF CourseInv
        <3> QED BY <2>5, <3>1, <3>2 DEF OldHostTold
    <2> QED BY <2>5, <2>7, <2>8, SameHost
<1> QED BY <1>1, <1>2

\* The host hears Unimplemented only when the plugin says that it does not stream,
\* or passes on that a callback is not implemented (grpc_server.go:158-162;
\* interface.go:202-229).
THEOREM UnimplementedAlwaysCaused == SafeSpec => []UnimplementedHasACause
<1>1. Init => CourseInv /\ AnswerInv /\ OldHostTold /\ CauseInv
    BY DEF Init, CourseInv, AnswerInv, OldHostTold, CauseInv, NoCallback, NoReply
<1>2. CauseInv => UnimplementedHasACause
    BY DEF CauseInv, UnimplementedHasACause
<1> QED BY <1>1, <1>2, ProfileInvHolds, CourseStep, AnswerStep, ToldStep, CauseStep, PTL
        DEF SafeSpec

-----------------------------------------------------------------------------
(***************************************************************************)
(* What OnlyTheUserIsWaitedFor rests on                                    *)
(***************************************************************************)

\* Whoever waits for the host has a request that the host is still to handle, or
\* its answer.
ReplyNeverLost ==
    \A c \in Calls : pc[c] = "waiting" => <<c, callback[c]>> \in flying \/ answer[c] # NoReply

LEMMA ReplyStep == ProfileInv /\ ReplyNeverLost /\ [Next]_vars => ReplyNeverLost'
<1> SUFFICES ASSUME ProfileInv, ReplyNeverLost, [Next]_vars PROVE ReplyNeverLost'
    OBVIOUS
<1> USE DEF ProfileInv
<1>1. ASSUME NEW c \in Calls, NEW method \in HostService, NEW v \in Stored,
             CallHostService(c, method, v)
      PROVE  ReplyNeverLost'
    <2>1. /\ flying \subseteq flying'
          /\ \A k \in Calls \ {c} :
                pc'[k] = pc[k] /\ answer'[k] = answer[k] /\ callback'[k] = callback[k]
        BY <1>1 DEF CallHostService, Goto, TypeOK
    <2>2. pc'[c] = "waiting" => <<c, callback'[c]>> \in flying'
        BY <1>1 DEF CallHostService, Goto, TypeOK
    <2> QED BY <2>1, <2>2 DEF ReplyNeverLost
<1>2. ASSUME NEW f \in flying, NEW r \in HostReplies(f[1], f[2]) \cup {Unimplemented},
             HandleHostService(f[1], f[2], r)
      PROVE  ReplyNeverLost'
    <2>1. r # NoReply
        BY <1>2, HostAnswerType DEF NoReply
    <2>2. UNCHANGED <<pc, callback>> /\ flying' = flying \ {<<f[1], f[2]>>}
        BY <1>2 DEF HandleHostService, calls
    <2>3. \A k \in Calls : answer'[k] = answer[k] \/ answer'[k] = r
        BY <1>2 DEF HandleHostService, TypeOK
    <2>4. \A k \in Calls : pc[k] = "waiting" /\ <<k, callback[k]>> = <<f[1], f[2]>>
                => answer'[k] = r
        BY <1>2 DEF HandleHostService, TypeOK
    <2> QED BY <2>1, <2>2, <2>3, <2>4 DEF ReplyNeverLost
<1>3. CASE /\ UNCHANGED <<answer, callback, flying>>
           /\ \A k \in Calls : pc'[k] = "waiting" => pc[k] = "waiting"
    BY <1>3 DEF ReplyNeverLost
<1>4. \/ /\ UNCHANGED <<answer, callback, flying>>
         /\ \A k \in Calls : pc'[k] = "waiting" => pc[k] = "waiting"
      \/ \E c \in Calls, method \in HostService, v \in Stored : CallHostService(c, method, v)
      \/ \E f \in flying : \E r \in HostReplies(f[1], f[2]) \cup {Unimplemented} :
            HandleHostService(f[1], f[2], r)
    BY NextSteps DEF vars, Start, Send, Cancel, Disconnect, Serve, CallbackStep, AbortCallback,
       ReceiveReply, ImplReturns, Goto, calls, callbacks, TypeOK
<1> QED BY <1>1, <1>2, <1>3, <1>4

\* No call waits for an answer that was lost on its way or given to another
\* (host_client.go, all methods; grpc_server.go:265-334).
THEOREM AnswersFindTheirCall == SafeSpec => []ReplyNeverLost
<1>1. Init => ReplyNeverLost
    BY DEF Init, ReplyNeverLost
<1> QED BY <1>1, ProfileInvHolds, ReplyStep, PTL DEF SafeSpec
=============================================================================
