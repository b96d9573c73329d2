--------------------------- MODULE ProviderSettings ---------------------------
(***************************************************************************)
(* Who shares which memory when provider settings are configured and merged *)
(* (ConfigureProvider and withSettings in plugin/grpc_server.go), for one   *)
(* provider. A Go map of json.RawMessage is an object in the heap that      *)
(* refers to byte buffers, which are objects too. ConfigureProvider hands   *)
(* the plugin one map and stores another with the same buffers; withSettings*)
(* builds a map with buffers of its own for every execution, reading the    *)
(* stored map after it has released the lock. The plugin keeps every map    *)
(* it is given and may change it at any time.                              *)
(*                                                                         *)
(* The buffer of key k in the request of call c is <<c, k>>, and so is the  *)
(* clone that withSettings makes for execution c.                          *)
(***************************************************************************)
EXTENDS Naturals

CONSTANTS Configs,     \* the ConfigureProvider calls
          Execs,       \* the ExecuteProvider calls
          Keys,        \* names of settings
          Values,      \* contents of a buffer
          Absent,      \* no entry for a key
          NoMap        \* nil, no map stored yet

ASSUME ObjectsAssumption ==
    /\ Configs \cap Execs = {}
    /\ Values # {}
    /\ Absent \notin Values
    /\ Absent \notin (Configs \cup Execs) \X Keys
    /\ NoMap \notin {"plugin", "stored", "exec"} \X (Configs \cup Execs)

Buffers == (Configs \cup Execs) \X Keys
MapIds == ({"plugin", "stored"} \X Configs) \cup ({"exec"} \X Execs)

\* What a request carries: a value for some of the keys.
Settings == [Keys -> Values \cup {Absent}]
Nothing == [k \in Keys |-> Absent]

VARIABLES
    content,            \* content[b]: the bytes in buffer b
    maps,               \* maps[m][k]: the buffer map m has for key k
    configPc,           \* configPc[c]: "idle", "stored", "delivered"
    configureSettings,  \* s.configureSettings[provider]: a map, or NoMap
    execPc,             \* execPc[e]: "idle", "snapshot", "merge", "impl"
    asked,              \* asked[e]: the settings in the request of execution e
    snapshot,           \* snapshot[e]: the map withSettings found stored
    todo,               \* todo[e]: keys of the snapshot still to be cloned
    sent,               \* history: the settings configuration c came with
    expected,           \* history: what execution e should see, its own
                        \* changes included
    written             \* history: buffers of cfg.Settings the plugin wrote to

vars == <<content, maps, configPc, configureSettings, execPc, asked, snapshot,
          todo, sent, expected, written>>

PluginMap(c) == <<"plugin", c>>
StoredMap(c) == <<"stored", c>>
ExecMap(e) == <<"exec", e>>

\* The settings someone who reads map m finds.
View(m) == [k \in Keys |-> IF maps[m][k] = Absent THEN Absent
                           ELSE content[maps[m][k]]]

Init ==
    /\ content = [b \in Buffers |-> CHOOSE v \in Values : TRUE]
    /\ maps = [m \in MapIds |-> Nothing]
    /\ configPc = [c \in Configs |-> "idle"]
    /\ configureSettings = NoMap
    /\ execPc = [e \in Execs |-> "idle"]
    /\ asked = [e \in Execs |-> Nothing]
    /\ snapshot = [e \in Execs |-> NoMap]
    /\ todo = [e \in Execs |-> {}]
    /\ sent = [c \in Configs |-> Nothing]
    /\ expected = [e \in Execs |-> Nothing]
    /\ written = {}

-----------------------------------------------------------------------------
(***************************************************************************)
(* ConfigureProvider                                                       *)
(***************************************************************************)

\* The buffers of the request, as entries of a map.
EntriesOf(c, s) == [k \in Keys |-> IF s[k] = Absent THEN Absent ELSE <<c, k>>]

\* content after call c has filled its buffers with settings s.
Filled(c, s) ==
    [b \in Buffers |-> IF b[1] = c /\ s[b[2]] # Absent THEN s[b[2]] ELSE content[b]]

\* Mutant: the map the plugin gets is stored itself.
StoreOriginal(c) == PluginMap(c)

\* The map that is stored: a copy.
MapToStore(c) == StoredMap(c)

\* Both maps are made before the lock is taken, and refer to the same buffers.
StoreSettings(c, s) ==
    /\ configPc[c] = "idle"
    /\ configPc' = [configPc EXCEPT ![c] = "stored"]
    /\ content' = Filled(c, s)
    /\ maps' = [maps EXCEPT ![PluginMap(c)] = EntriesOf(c, s),
                            ![StoredMap(c)] = EntriesOf(c, s)]
    /\ configureSettings' = MapToStore(c)
    /\ sent' = [sent EXCEPT ![c] = s]
    /\ UNCHANGED <<execPc, asked, snapshot, todo, expected, written>>

\* s.Impl.ConfigureProvider: from now on the plugin has cfg.Settings.
Deliver(c) ==
    /\ configPc[c] = "stored"
    /\ configPc' = [configPc EXCEPT ![c] = "delivered"]
    /\ UNCHANGED <<content, maps, configureSettings, execPc, asked, snapshot, todo,
                   sent, expected, written>>

-----------------------------------------------------------------------------
(***************************************************************************)
(* withSettings                                                            *)
(***************************************************************************)

Execute(e, s) ==
    /\ execPc[e] = "idle"
    /\ execPc' = [execPc EXCEPT ![e] = "snapshot"]
    /\ asked' = [asked EXCEPT ![e] = s]
    /\ UNCHANGED <<content, maps, configPc, configureSettings, snapshot, todo, sent,
                   expected, written>>

\* What the configuration that map m was stored for came with.
SentIn(m) == IF m = NoMap THEN Nothing ELSE sent[m[2]]

\* Settings s over settings t.
Over(s, t) == [k \in Keys |-> IF s[k] # Absent THEN s[k] ELSE t[k]]

\* configure := s.configureSettings[providerName], under the read lock.
TakeSnapshot(e) ==
    LET m == configureSettings IN
    /\ execPc[e] = "snapshot"
    /\ execPc' = [execPc EXCEPT ![e] = "merge"]
    /\ snapshot' = [snapshot EXCEPT ![e] = m]
    /\ todo' = [todo EXCEPT ![e] = {k \in Keys : m # NoMap /\ maps[m][k] # Absent}]
    /\ expected' = [expected EXCEPT ![e] = Over(asked[e], SentIn(m))]
    /\ UNCHANGED <<content, maps, configPc, configureSettings, asked, sent, written>>

\* Mutant: the entry is copied, its bytes are not.
ShareBuffer(e, k) == maps[snapshot[e]][k]

\* The buffer bytes.Clone makes.
CloneOf(e, k) == <<e, k>>

\* One step of the range over the stored map, outside the lock.
CloneKey(e, k) ==
    /\ execPc[e] = "merge"
    /\ k \in todo[e]
    /\ content' = [content EXCEPT ![CloneOf(e, k)] = content[maps[snapshot[e]][k]]]
    /\ maps' = [maps EXCEPT ![ExecMap(e)][k] = CloneOf(e, k)]
    /\ todo' = [todo EXCEPT ![e] = @ \ {k}]
    /\ UNCHANGED <<configPc, configureSettings, execPc, asked, snapshot, sent,
                   expected, written>>

\* Mutant: configure-time settings win.
AddMissing(e) ==
    [k \in Keys |-> IF maps[ExecMap(e)][k] = Absent THEN asked[e][k] ELSE Absent]

\* The settings of the request that enter the map: all of them.
OverlayOf(e) == asked[e]

\* The settings of the request, cloned too, replace those of the same name;
\* then the plugin runs with the map.
OverlayExecute(e) ==
    /\ execPc[e] = "merge"
    /\ todo[e] = {}
    /\ execPc' = [execPc EXCEPT ![e] = "impl"]
    /\ content' = Filled(e, OverlayOf(e))
    /\ maps' = [maps EXCEPT ![ExecMap(e)] = Over(EntriesOf(e, OverlayOf(e)), @)]
    /\ UNCHANGED <<configPc, configureSettings, asked, snapshot, todo, sent,
                   expected, written>>

-----------------------------------------------------------------------------
(***************************************************************************)
(* The plugin, with the maps it has been given                             *)
(***************************************************************************)

\* delete(cfg.Settings, k)
EditConfigMap(c, k) ==
    /\ configPc[c] = "delivered"
    /\ maps' = [maps EXCEPT ![PluginMap(c)][k] = Absent]
    /\ UNCHANGED <<content, configPc, configureSettings, execPc, asked, snapshot, todo,
                   sent, expected, written>>

\* copy(cfg.Settings[k], v)
WriteConfigBytes(c, k, v) ==
    /\ configPc[c] = "delivered"
    /\ maps[PluginMap(c)][k] # Absent
    /\ content' = [content EXCEPT ![maps[PluginMap(c)][k]] = v]
    /\ written' = written \cup {maps[PluginMap(c)][k]}
    /\ UNCHANGED <<maps, configPc, configureSettings, execPc, asked, snapshot, todo,
                   sent, expected>>

EditExecMap(e, k) ==
    /\ execPc[e] = "impl"
    /\ maps' = [maps EXCEPT ![ExecMap(e)][k] = Absent]
    /\ expected' = [expected EXCEPT ![e][k] = Absent]
    /\ UNCHANGED <<content, configPc, configureSettings, execPc, asked, snapshot, todo,
                   sent, written>>

WriteExecBytes(e, k, v) ==
    /\ execPc[e] = "impl"
    /\ maps[ExecMap(e)][k] # Absent
    /\ content' = [content EXCEPT ![maps[ExecMap(e)][k]] = v]
    /\ expected' = [expected EXCEPT ![e][k] = v]
    /\ UNCHANGED <<maps, configPc, configureSettings, execPc, asked, snapshot,
                   todo, sent, written>>

-----------------------------------------------------------------------------
Next ==
    \/ \E c \in Configs :
          \/ \E s \in Settings : StoreSettings(c, s)
          \/ Deliver(c)
          \/ \E k \in Keys : EditConfigMap(c, k)
          \/ \E k \in Keys, v \in Values : WriteConfigBytes(c, k, v)
    \/ \E e \in Execs :
          \/ \E s \in Settings : Execute(e, s)
          \/ TakeSnapshot(e)
          \/ \E k \in Keys : CloneKey(e, k) \/ EditExecMap(e, k)
          \/ OverlayExecute(e)
          \/ \E k \in Keys, v \in Values : WriteExecBytes(e, k, v)

Spec == Init /\ [][Next]_vars

-----------------------------------------------------------------------------
(***************************************************************************)
(* Correctness                                                             *)
(***************************************************************************)

TypeOK ==
    /\ content \in [Buffers -> Values]
    /\ maps \in [MapIds -> [Keys -> Buffers \cup {Absent}]]
    /\ configPc \in [Configs -> {"idle", "stored", "delivered"}]
    /\ configureSettings \in MapIds \cup {NoMap}
    /\ execPc \in [Execs -> {"idle", "snapshot", "merge", "impl"}]
    /\ asked \in [Execs -> Settings]
    /\ snapshot \in [Execs -> MapIds \cup {NoMap}]
    /\ todo \in [Execs -> SUBSET Keys]
    /\ sent \in [Configs -> Settings]
    /\ expected \in [Execs -> Settings]
    /\ written \in SUBSET Buffers

\* The maps the server reads: the stored one, and those that executions in
\* withSettings are ranging over.
ServerMaps ==
    ({configureSettings} \cup {snapshot[e] : e \in {x \in Execs : execPc[x] = "merge"}})
        \ {NoMap}

PluginMaps ==
    {PluginMap(c) : c \in {x \in Configs : configPc[x] = "delivered"}}
        \cup {ExecMap(e) : e \in {x \in Execs : execPc[x] = "impl"}}

\* The plugin never holds a map the server ranges over, so its writes to a
\* map do not race withSettings (grpc_server.go:89-91).
NoMapRace == ServerMaps \cap PluginMaps = {}

\* Whatever the plugin does to maps, and to the bytes executions are given,
\* the server merges the settings that were configured (grpc_server.go:232-234);
\* only writing into the bytes of cfg.Settings can change them.
StoredBaseIntact ==
    \A m \in ServerMaps, k \in Keys :
        maps[m][k] \in written \/ View(m)[k] = sent[m[2]][k]

\* An execution sees its own settings over those of one configuration, and
\* changes made by nobody but itself, however executions and configurations
\* interleave; except for what was written into a stored buffer before.
ExecSettingsExact ==
    \A e \in Execs, k \in Keys :
        execPc[e] = "impl" =>
            \/ View(ExecMap(e))[k] = expected[e][k]
            \/ /\ asked[e][k] = Absent
               /\ snapshot[e] # NoMap
               /\ <<snapshot[e][2], k>> \in written

-----------------------------------------------------------------------------
(***************************************************************************)
(* What comments say and the code does not do                              *)
(***************************************************************************)

\* grpc_server.go:89-91 and grpc_server_test.go:296-297: the stored copy is
\* independent of cfg.Settings, so nothing the plugin does to it corrupts the
\* server's. The copy is of the map, not of the bytes.
StoredCopyIndependent == \A m \in ServerMaps : View(m) = sent[m[2]]
=============================================================================
