------------------------- MODULE ProviderSettingsProofs -------------------------
(***************************************************************************)
(* Proofs about ProviderSettings, for any configurations, executions, names *)
(* and values of settings.                                                 *)
(*                                                                         *)
(* The invariant says who refers to what: a map of a call only ever refers  *)
(* to the buffers of that call, stored maps stay as they were made, and the *)
(* server never ranges over any other map. So only the plugin's writes to   *)
(* the bytes of a configuration reach what executions are given.           *)
(*                                                                         *)
(* The names of maps and buffers are tuples; the proofs use only that the   *)
(* names of different ones differ (MapNames, BufferNames).                  *)
(***************************************************************************)
EXTENDS ProviderSettings, TLAPS

Owners == Configs \cup Execs
Buffer(o, k) == <<o, k>>
Owner(m) == m[2]

IsStored(m) == \E c \in Configs : configPc[c] # "idle" /\ m = StoredMap(c)

\* The server reads only maps that a configuration has stored.
ServerInv ==
    /\ configureSettings # NoMap => IsStored(configureSettings)
    /\ \A e \in Execs : snapshot[e] # NoMap => IsStored(snapshot[e])

\* Maps of different calls share no buffers, and nothing changes a stored map.
MapsInv ==
    /\ \A c \in Configs, k \in Keys :
          /\ maps[PluginMap(c)][k] \in {Absent, Buffer(c, k)}
          /\ configPc[c] # "idle" =>
                maps[StoredMap(c)][k] = IF sent[c][k] = Absent THEN Absent ELSE Buffer(c, k)
    /\ \A e \in Execs, k \in Keys : maps[ExecMap(e)][k] \in {Absent, Buffer(e, k)}

\* The bytes of a configuration are those it came with, unless the plugin wrote
\* into them.
ContentInv ==
    /\ written \subseteq Buffers
    /\ \A c \in Configs, k \in Keys :
          configPc[c] # "idle" /\ sent[c][k] # Absent
              => Buffer(c, k) \in written \/ content[Buffer(c, k)] = sent[c][k]

\* The plugin wrote into the bytes that execution e took for k.
Tainted(e, k) == snapshot[e] # NoMap /\ Buffer(Owner(snapshot[e]), k) \in written

\* What execution e took for k.
Taken(e, k) == IF snapshot[e] = NoMap THEN Absent ELSE sent[Owner(snapshot[e])][k]

\* While withSettings ranges over the stored map, the new map has the entries
\* already visited, with the bytes found there, and no others.
MergeInv ==
    \A e \in Execs, k \in Keys :
        /\ execPc[e] \in {"idle", "snapshot"} =>
              snapshot[e] = NoMap /\ maps[ExecMap(e)][k] = Absent
        /\ execPc[e] = "merge" =>
              /\ expected[e][k] = IF asked[e][k] # Absent THEN asked[e][k] ELSE Taken(e, k)
              /\ k \in todo[e] => Taken(e, k) # Absent
              /\ maps[ExecMap(e)][k] =
                    IF Taken(e, k) = Absent \/ k \in todo[e] THEN Absent ELSE Buffer(e, k)
              /\ maps[ExecMap(e)][k] # Absent =>
                    content[Buffer(e, k)] = Taken(e, k) \/ Tainted(e, k)

\* While the plugin runs, its map has what was expected, but for bytes of the
\* configuration that it wrote before they were taken.
ImplInv ==
    \A e \in Execs, k \in Keys :
        execPc[e] = "impl" =>
            \/ expected[e][k] = IF maps[ExecMap(e)][k] = Absent THEN Absent
                                ELSE content[Buffer(e, k)]
            \/ asked[e][k] = Absent /\ Tainted(e, k)

IndInv ==
    /\ TypeOK
    /\ ServerInv
    /\ MapsInv
    /\ ContentInv
    /\ MergeInv
    /\ ImplInv

-----------------------------------------------------------------------------
(***************************************************************************)
(* Identities                                                              *)
(***************************************************************************)

\* Every map has its own name, that says whose it is.
LEMMA MapNames ==
    /\ \A c \in Configs : /\ PluginMap(c) \in MapIds /\ StoredMap(c) \in MapIds
                          /\ PluginMap(c) # NoMap /\ StoredMap(c) # NoMap
                          /\ Owner(StoredMap(c)) = c
    /\ \A e \in Execs : ExecMap(e) \in MapIds /\ ExecMap(e) # NoMap
    /\ \A c, d \in Configs : /\ PluginMap(c) # StoredMap(d)
                             /\ c # d => /\ PluginMap(c) # PluginMap(d)
                                         /\ StoredMap(c) # StoredMap(d)
    /\ \A d, e \in Execs : d # e => ExecMap(d) # ExecMap(e)
    /\ \A c \in Configs, e \in Execs : ExecMap(e) # PluginMap(c) /\ ExecMap(e) # StoredMap(c)
  BY ObjectsAssumption DEF MapIds, PluginMap, StoredMap, ExecMap, Owner

\* Every buffer belongs to one call and one key.
LEMMA BufferNames ==
    /\ \A o \in Owners, k \in Keys : Buffer(o, k) \in Buffers /\ Buffer(o, k) # Absent
    /\ \A o, p \in Owners, j, k \in Keys : Buffer(o, j) = Buffer(p, k) => o = p /\ j = k
    /\ Configs \subseteq Owners /\ Execs \subseteq Owners /\ Configs \cap Execs = {}
    /\ Absent \notin Values
  BY ObjectsAssumption DEF Buffers, Buffer, Owners

\* What a request fills, and the map made of it.
LEMMA RequestBuffers ==
    ASSUME TypeOK, NEW o \in Owners, NEW s \in Settings
    PROVE  /\ Filled(o, s) \in [Buffers -> Values]
           /\ \A p \in Owners, k \in Keys :
                 Filled(o, s)[Buffer(p, k)] =
                     IF p = o /\ s[k] # Absent THEN s[k] ELSE content[Buffer(p, k)]
           /\ EntriesOf(o, s) \in [Keys -> Buffers \cup {Absent}]
           /\ \A k \in Keys :
                 EntriesOf(o, s)[k] = IF s[k] = Absent THEN Absent ELSE Buffer(o, k)
  BY DEF TypeOK, Settings, Filled, EntriesOf, Buffers, Buffer, Owners

-----------------------------------------------------------------------------
\* The initial states.
LEMMA IndInvInit == Init => IndInv
<1> SUFFICES ASSUME Init PROVE IndInv
  OBVIOUS
<1> USE MapNames, BufferNames DEF Init
<1>1. TypeOK
  BY ObjectsAssumption DEF TypeOK, Settings, Nothing
<1>2. ServerInv /\ MapsInv /\ ContentInv
  BY DEF ServerInv, MapsInv, ContentInv, Nothing
<1>3. MergeInv /\ ImplInv
  BY DEF MergeInv, ImplInv, Nothing
<1> QED
  BY <1>1, <1>2, <1>3 DEF IndInv

\* Every step preserves the invariant.
LEMMA IndInvStep == IndInv /\ [Next]_vars => IndInv'
<1> SUFFICES ASSUME IndInv, [Next]_vars PROVE IndInv'
  OBVIOUS
<1> USE MapNames, BufferNames DEF IndInv
<1>1. ASSUME NEW c \in Configs, NEW s \in Settings, StoreSettings(c, s)
      PROVE  IndInv'
  <2>1. /\ maps' \in [MapIds -> [Keys -> Buffers \cup {Absent}]]
        /\ \A k \in Keys : /\ maps'[PluginMap(c)][k] \in {Absent, Buffer(c, k)}
                           /\ maps'[StoredMap(c)][k] =
                                 IF s[k] = Absent THEN Absent ELSE Buffer(c, k)
        /\ \A m \in MapIds \ {PluginMap(c), StoredMap(c)} : maps'[m] = maps[m]
    <3> DEFINE new == EntriesOf(c, s)
    <3>1. maps' = [maps EXCEPT ![PluginMap(c)] = new, ![StoredMap(c)] = new]
      BY <1>1 DEF StoreSettings
    <3>2. /\ maps \in [MapIds -> [Keys -> Buffers \cup {Absent}]]
          /\ new \in [Keys -> Buffers \cup {Absent}]
          /\ \A k \in Keys : new[k] = IF s[k] = Absent THEN Absent ELSE Buffer(c, k)
      BY RequestBuffers DEF TypeOK
    <3> HIDE DEF new
    <3> QED
      BY <3>1, <3>2
  <2>2. /\ content' \in [Buffers -> Values]
        /\ \A o \in Owners, k \in Keys : content'[Buffer(o, k)] =
               IF o = c /\ s[k] # Absent THEN s[k] ELSE content[Buffer(o, k)]
    BY <1>1, RequestBuffers DEF StoreSettings
  <2>3. TypeOK'
    BY <2>1, <2>2, <1>1 DEF StoreSettings, MapToStore, TypeOK, Settings, MapsInv,
       Nothing, Owners
  <2>4. ServerInv'
    BY <2>1, <2>2, <1>1 DEF StoreSettings, MapToStore, TypeOK, ServerInv,
       IsStored
  <2>5. MapsInv'
    BY <2>1, <2>2, <1>1 DEF StoreSettings, MapToStore, TypeOK, MapsInv, MergeInv,
       Owners
  <2>6. ContentInv'
    BY <2>1, <2>2, <1>1 DEF StoreSettings, MapToStore, TypeOK, ContentInv,
       MapsInv, Owners
  <2>7. MergeInv'
    BY <2>1, <2>2, <1>1 DEF StoreSettings, MapToStore, TypeOK, MergeInv, MapsInv,
       ContentInv, ServerInv, IsStored, Taken, Tainted, Owners, Settings
  <2>8. ImplInv'
    BY <2>1, <2>2, <1>1 DEF StoreSettings, MapToStore, TypeOK, ImplInv, MapsInv,
       ServerInv, IsStored, MergeInv, Tainted, Owners, Settings
  <2> QED
    BY <2>3, <2>4, <2>5, <2>6, <2>7, <2>8
<1>2. ASSUME NEW c \in Configs, Deliver(c)
      PROVE  IndInv'
  <2>1. TypeOK'
    BY <1>2 DEF Deliver, TypeOK, Settings, MapsInv, Nothing, Owners
  <2>2. ServerInv'
    BY <1>2 DEF Deliver, TypeOK, ServerInv, IsStored
  <2>3. MapsInv'
    BY <1>2 DEF Deliver, TypeOK, MapsInv, MergeInv, Owners
  <2>4. ContentInv'
    BY <1>2 DEF Deliver, TypeOK, ContentInv, MapsInv, Owners
  <2>5. MergeInv'
    BY <1>2 DEF Deliver, TypeOK, MergeInv, MapsInv, ContentInv, ServerInv,
       IsStored, Taken, Tainted, Owners, Settings
  <2>6. ImplInv'
    BY <1>2 DEF Deliver, TypeOK, ImplInv, MapsInv, ServerInv, IsStored, MergeInv,
       Tainted, Owners, Settings
  <2> QED
    BY <2>1, <2>2, <2>3, <2>4, <2>5, <2>6
<1>3. ASSUME NEW c \in Configs, NEW k \in Keys, EditConfigMap(c, k)
      PROVE  IndInv'
  <2>1. TypeOK'
    BY <1>3 DEF EditConfigMap, TypeOK, Settings, MapsInv, Nothing, Owners
  <2>2. ServerInv'
    BY <1>3 DEF EditConfigMap, TypeOK, ServerInv, IsStored
  <2>3. MapsInv'
    BY <1>3 DEF EditConfigMap, TypeOK, MapsInv, MergeInv, Owners
  <2>4. ContentInv'
    BY <1>3 DEF EditConfigMap, TypeOK, ContentInv, MapsInv, Owners
  <2>5. MergeInv'
    BY <1>3 DEF EditConfigMap, TypeOK, MergeInv, MapsInv, ContentInv, ServerInv,
       IsStored, Taken, Tainted, Owners, Settings
  <2>6. ImplInv'
    BY <1>3 DEF EditConfigMap, TypeOK, ImplInv, MapsInv, ServerInv, IsStored,
       MergeInv, Tainted, Owners, Settings
  <2> QED
    BY <2>1, <2>2, <2>3, <2>4, <2>5, <2>6
<1>4. ASSUME NEW c \in Configs, NEW k \in Keys, NEW v \in Values, WriteConfigBytes(c, k, v)
      PROVE  IndInv'
  <2>1. /\ content' = [content EXCEPT ![Buffer(c, k)] = v]
        /\ written' = written \cup {Buffer(c, k)}
    BY <1>4 DEF WriteConfigBytes, MapsInv
  <2>2. TypeOK'
    BY <2>1, <1>4 DEF WriteConfigBytes, TypeOK, Settings, MapsInv, Nothing,
       Owners
  <2>3. ServerInv'
    BY <2>1, <1>4 DEF WriteConfigBytes, TypeOK, ServerInv, IsStored
  <2>4. MapsInv'
    BY <2>1, <1>4 DEF WriteConfigBytes, TypeOK, MapsInv, MergeInv, Owners
  <2>5. ContentInv'
    BY <2>1, <1>4 DEF WriteConfigBytes, TypeOK, ContentInv, MapsInv, Owners
  <2>6. MergeInv'
    BY <2>1, <1>4 DEF WriteConfigBytes, TypeOK, MergeInv, MapsInv, ContentInv,
       ServerInv, IsStored, Taken, Tainted, Owners, Settings
  <2>7. ImplInv'
    BY <2>1, <1>4 DEF WriteConfigBytes, TypeOK, ImplInv, MapsInv, ServerInv,
       IsStored, MergeInv, Tainted, Owners, Settings
  <2> QED
    BY <2>2, <2>3, <2>4, <2>5, <2>6, <2>7
<1>5. ASSUME NEW e \in Execs, NEW s \in Settings, Execute(e, s)
      PROVE  IndInv'
  <2>1. TypeOK'
    BY <1>5 DEF Execute, TypeOK, Settings, MapsInv, Nothing, Owners
  <2>2. ServerInv'
    BY <1>5 DEF Execute, TypeOK, ServerInv, IsStored
  <2>3. MapsInv'
    BY <1>5 DEF Execute, TypeOK, MapsInv, MergeInv, Owners
  <2>4. ContentInv'
    BY <1>5 DEF Execute, TypeOK, ContentInv, MapsInv, Owners
  <2>5. MergeInv'
    BY <1>5 DEF Execute, TypeOK, MergeInv, MapsInv, ContentInv, ServerInv,
       IsStored, Taken, Tainted, Owners, Settings
  <2>6. ImplInv'
    BY <1>5 DEF Execute, TypeOK, ImplInv, MapsInv, ServerInv, IsStored, MergeInv,
       Tainted, Owners, Settings
  <2> QED
    BY <2>1, <2>2, <2>3, <2>4, <2>5, <2>6
<1>6. ASSUME NEW e \in Execs, TakeSnapshot(e)
      PROVE  IndInv'
  <2>1. \A k \in Keys :
           /\ expected'[e][k] = IF asked[e][k] # Absent THEN asked[e][k] ELSE Taken(e, k)'
           /\ k \in todo'[e] <=> Taken(e, k)' # Absent
    <3>1. CASE configureSettings = NoMap
      BY <1>6, <3>1 DEF TakeSnapshot, Over, SentIn, Taken, Nothing, TypeOK
    <3>2. CASE configureSettings # NoMap
      <4>1. PICK c \in Configs : configPc[c] # "idle" /\ configureSettings = StoredMap(c)
        BY <3>2 DEF ServerInv, IsStored
      <4>2. SentIn(configureSettings) = sent[c]
        BY <3>2, <4>1 DEF SentIn, Owner
      <4>3. \A k \in Keys : Taken(e, k)' = sent[c][k]
        BY <1>6, <3>2, <4>1 DEF TakeSnapshot, Taken, TypeOK
      <4> QED
        BY <1>6, <3>2, <4>1, <4>2, <4>3 DEF TakeSnapshot, Over, MapsInv, TypeOK
    <3> QED
      BY <3>1, <3>2
  <2>2. expected'[e] \in Settings
    <3>1. SentIn(configureSettings) \in Settings
      BY DEF SentIn, TypeOK, Settings, Nothing, ServerInv, IsStored, Owner
    <3> QED
      BY <1>6, <3>1 DEF TakeSnapshot, Over, TypeOK, Settings
  <2>3. TypeOK'
    BY <2>1, <2>2, <1>6 DEF TakeSnapshot, TypeOK, Settings, MapsInv, Nothing,
       Owners
  <2>4. ServerInv'
    BY <2>1, <2>2, <1>6 DEF TakeSnapshot, TypeOK, ServerInv, IsStored
  <2>5. MapsInv'
    BY <2>1, <2>2, <1>6 DEF TakeSnapshot, TypeOK, MapsInv, MergeInv, Owners
  <2>6. ContentInv'
    BY <2>1, <2>2, <1>6 DEF TakeSnapshot, TypeOK, ContentInv, MapsInv, Owners
  <2>7. MergeInv'
    BY <2>1, <2>2, <1>6 DEF TakeSnapshot, TypeOK, MergeInv, MapsInv, ContentInv,
       ServerInv, IsStored, Taken, Tainted, Owners, Settings
  <2>8. ImplInv'
    BY <2>1, <2>2, <1>6 DEF TakeSnapshot, TypeOK, ImplInv, MapsInv, ServerInv,
       IsStored, MergeInv, Tainted, Owners, Settings
  <2> QED
    BY <2>3, <2>4, <2>5, <2>6, <2>7, <2>8
<1>7. ASSUME NEW e \in Execs, NEW k \in Keys, CloneKey(e, k)
      PROVE  IndInv'
  <2>1. PICK c \in Configs : /\ configPc[c] # "idle" /\ snapshot[e] = StoredMap(c)
                             /\ Taken(e, k) = sent[c][k] /\ sent[c][k] # Absent
                             /\ maps[snapshot[e]][k] = Buffer(c, k)
    BY <1>7 DEF CloneKey, MergeInv, Taken, ServerInv, IsStored, MapsInv
  <2>2. /\ content' = [content EXCEPT ![Buffer(e, k)] = content[Buffer(c, k)]]
        /\ maps' = [maps EXCEPT ![ExecMap(e)][k] = Buffer(e, k)]
    BY <1>7, <2>1 DEF CloneKey, CloneOf, Buffer
  <2>3. TypeOK'
    BY <2>1, <2>2, <1>7 DEF CloneKey, TypeOK, Settings, MapsInv, Nothing, Owners
  <2>4. ServerInv'
    BY <2>1, <2>2, <1>7 DEF CloneKey, TypeOK, ServerInv, IsStored
  <2>5. MapsInv'
    BY <2>1, <2>2, <1>7 DEF CloneKey, TypeOK, MapsInv, MergeInv, Owners
  <2>6. ContentInv'
    BY <2>1, <2>2, <1>7 DEF CloneKey, TypeOK, ContentInv, MapsInv, Owners
  <2>7. MergeInv'
    BY <2>1, <2>2, <1>7 DEF CloneKey, TypeOK, MergeInv, MapsInv, ContentInv,
       ServerInv, IsStored, Taken, Tainted, Owners, Settings
  <2>8. ImplInv'
    BY <2>1, <2>2, <1>7 DEF CloneKey, TypeOK, ImplInv, MapsInv, ServerInv,
       IsStored, MergeInv, Tainted, Owners, Settings
  <2> QED
    BY <2>3, <2>4, <2>5, <2>6, <2>7, <2>8
<1>8. ASSUME NEW e \in Execs, OverlayExecute(e)
      PROVE  IndInv'
  <2>1. asked[e] \in Settings
    BY DEF TypeOK
  <2>2. /\ content' \in [Buffers -> Values]
        /\ \A o \in Owners, k \in Keys : content'[Buffer(o, k)] =
               IF o = e /\ asked[e][k] # Absent THEN asked[e][k] ELSE content[Buffer(o, k)]
    BY <1>8, <2>1, RequestBuffers DEF OverlayExecute, OverlayOf
  <2>3. /\ maps' \in [MapIds -> [Keys -> Buffers \cup {Absent}]]
        /\ \A k \in Keys : maps'[ExecMap(e)][k] =
               IF asked[e][k] # Absent THEN Buffer(e, k) ELSE maps[ExecMap(e)][k]
        /\ \A m \in MapIds \ {ExecMap(e)} : maps'[m] = maps[m]
    BY <1>8, <2>1, RequestBuffers DEF OverlayExecute, OverlayOf, Over, TypeOK
  <2>4. TypeOK'
    BY <2>1, <2>2, <2>3, <1>8 DEF OverlayExecute, OverlayOf, TypeOK, Settings,
       MapsInv, Nothing, Owners
  <2>5. ServerInv'
    BY <2>1, <2>2, <2>3, <1>8 DEF OverlayExecute, OverlayOf, TypeOK, ServerInv,
       IsStored
  <2>6. MapsInv'
    BY <2>1, <2>2, <2>3, <1>8 DEF OverlayExecute, OverlayOf, TypeOK, MapsInv,
       MergeInv, Owners
  <2>7. ContentInv'
    BY <2>1, <2>2, <2>3, <1>8 DEF OverlayExecute, OverlayOf, TypeOK, ContentInv,
       MapsInv, Owners
  <2>8. MergeInv'
    BY <2>1, <2>2, <2>3, <1>8 DEF OverlayExecute, OverlayOf, TypeOK, MergeInv,
       MapsInv, ContentInv, ServerInv, IsStored, Taken, Tainted, Owners, Settings
  <2>9. ImplInv'
    BY <2>1, <2>2, <2>3, <1>8 DEF OverlayExecute, OverlayOf, TypeOK, ImplInv,
       MapsInv, ServerInv, IsStored, MergeInv, Tainted, Owners, Settings
  <2> QED
    BY <2>4, <2>5, <2>6, <2>7, <2>8, <2>9
<1>9. ASSUME NEW e \in Execs, NEW k \in Keys, EditExecMap(e, k)
      PROVE  IndInv'
  <2>1. TypeOK'
    BY <1>9 DEF EditExecMap, TypeOK, Settings, MapsInv, Nothing, Owners
  <2>2. ServerInv'
    BY <1>9 DEF EditExecMap, TypeOK, ServerInv, IsStored
  <2>3. MapsInv'
    BY <1>9 DEF EditExecMap, TypeOK, MapsInv, MergeInv, Owners
  <2>4. ContentInv'
    BY <1>9 DEF EditExecMap, TypeOK, ContentInv, MapsInv, Owners
  <2>5. MergeInv'
    BY <1>9 DEF EditExecMap, TypeOK, MergeInv, MapsInv, ContentInv, ServerInv,
       IsStored, Taken, Tainted, Owners, Settings
  <2>6. ImplInv'
    BY <1>9 DEF EditExecMap, TypeOK, ImplInv, MapsInv, ServerInv, IsStored,
       MergeInv, Tainted, Owners, Settings
  <2> QED
    BY <2>1, <2>2, <2>3, <2>4, <2>5, <2>6
<1>10. ASSUME NEW e \in Execs, NEW k \in Keys, NEW v \in Values, WriteExecBytes(e, k, v)
      PROVE  IndInv'
  <2>1. content' = [content EXCEPT ![Buffer(e, k)] = v]
    BY <1>10 DEF WriteExecBytes, MapsInv
  <2>2. TypeOK'
    BY <2>1, <1>10 DEF WriteExecBytes, TypeOK, Settings, MapsInv, Nothing, Owners
  <2>3. ServerInv'
    BY <2>1, <1>10 DEF WriteExecBytes, TypeOK, ServerInv, IsStored
  <2>4. MapsInv'
    BY <2>1, <1>10 DEF WriteExecBytes, TypeOK, MapsInv, MergeInv, Owners
  <2>5. ContentInv'
    BY <2>1, <1>10 DEF WriteExecBytes, TypeOK, ContentInv, MapsInv, Owners
  <2>6. MergeInv'
    BY <2>1, <1>10 DEF WriteExecBytes, TypeOK, MergeInv, MapsInv, ContentInv,
       ServerInv, IsStored, Taken, Tainted, Owners, Settings
  <2>7. ImplInv'
    BY <2>1, <1>10 DEF WriteExecBytes, TypeOK, ImplInv, MapsInv, ServerInv,
       IsStored, MergeInv, Tainted, Owners, Settings
  <2> QED
    BY <2>2, <2>3, <2>4, <2>5, <2>6, <2>7
<1>11. CASE UNCHANGED vars
  BY <1>11 DEF vars, TypeOK, ServerInv, IsStored, MapsInv, ContentInv, MergeInv, Tainted, Taken,
     ImplInv
<1> QED
  BY <1>1, <1>2, <1>3, <1>4, <1>5, <1>6, <1>7, <1>8, <1>9, <1>10, <1>11 DEF Next

LEMMA Invariant == Spec => []IndInv
  BY IndInvInit, IndInvStep, PTL DEF Spec

-----------------------------------------------------------------------------
(***************************************************************************)
(* The properties TLC checks on small instances                            *)
(***************************************************************************)

\* The server reads the stored maps of configurations.
LEMMA ServerMapsStored ==
    ASSUME IndInv, NEW m \in ServerMaps
    PROVE  IsStored(m)
  BY DEF IndInv, ServerInv, ServerMaps

\* Every variable keeps its type.
THEOREM TypeCorrect == Spec => []TypeOK
<1>1. IndInv => TypeOK
  BY DEF IndInv
<1> QED
  BY <1>1, Invariant, PTL

\* A map the plugin holds is never one that withSettings ranges over.
THEOREM NeverRacesMaps == Spec => []NoMapRace
<1>1. IndInv => NoMapRace
  <2> SUFFICES ASSUME IndInv, NEW m \in ServerMaps, m \in PluginMaps PROVE FALSE
    BY DEF NoMapRace
  <2>1. PICK c \in Configs : m = StoredMap(c)
    BY ServerMapsStored DEF IsStored
  <2>2. \/ \E d \in Configs : m = PluginMap(d)
        \/ \E e \in Execs : m = ExecMap(e)
    BY DEF PluginMaps
  <2> QED
    BY <2>1, <2>2, MapNames
<1> QED
  BY <1>1, Invariant, PTL

\* Only what the plugin writes into the bytes of cfg.Settings changes what is
\* stored.
THEOREM StoredBaseKept == Spec => []StoredBaseIntact
<1>1. IndInv => StoredBaseIntact
  <2> SUFFICES ASSUME IndInv, NEW m \in ServerMaps, NEW k \in Keys
               PROVE  maps[m][k] \in written \/ View(m)[k] = sent[m[2]][k]
    BY DEF StoredBaseIntact
  <2>1. PICK c \in Configs : configPc[c] # "idle" /\ m = StoredMap(c)
    BY ServerMapsStored DEF IsStored
  <2>2. m[2] = c /\ View(m)[k] = IF maps[m][k] = Absent THEN Absent ELSE content[maps[m][k]]
    BY <2>1, MapNames DEF Owner, View
  <2> QED
    BY <2>1, <2>2, BufferNames DEF IndInv, MapsInv, ContentInv
<1> QED
  BY <1>1, Invariant, PTL

\* An execution is given its own settings over those of one configuration, and
\* only it changes them afterwards.
THEOREM ExecutionsExact == Spec => []ExecSettingsExact
<1>1. IndInv => ExecSettingsExact
  <2> SUFFICES ASSUME IndInv, NEW e \in Execs, NEW k \in Keys, execPc[e] = "impl"
               PROVE  \/ View(ExecMap(e))[k] = expected[e][k]
                      \/ /\ asked[e][k] = Absent
                         /\ snapshot[e] # NoMap
                         /\ <<snapshot[e][2], k>> \in written
    BY DEF ExecSettingsExact
  <2>1. View(ExecMap(e))[k] = IF maps[ExecMap(e)][k] = Absent THEN Absent
                              ELSE content[Buffer(e, k)]
    BY BufferNames DEF View, IndInv, MapsInv
  <2>2. Tainted(e, k) => snapshot[e] # NoMap /\ <<snapshot[e][2], k>> \in written
    BY DEF Tainted, Buffer, Owner
  <2> QED
    BY <2>1, <2>2 DEF IndInv, ImplInv
<1> QED
  BY <1>1, Invariant, PTL

=============================================================================
