--------------------------- MODULE DescriptorProofs ---------------------------
(***************************************************************************)
(* For descriptors with any names, capabilities, schemas and operations: what *)
(* ValidateDescriptor accepts is what the documentation of the fields asks;  *)
(* the two ways to ask what writes agree; the host gets the answer the       *)
(* plugin gives, and finds a valid descriptor valid; and a schema that is    *)
(* rebuilt from its fields is the one that was sent, or a weaker one.        *)
(*                                                                         *)
(* Most lemmas are about the pure functions, which is where the properties   *)
(* come from. The invariants only say what is in transit: WireInv which      *)
(* operations the wire carries, FormInv that the wire holds one of the two   *)
(* forms of the descriptor and the host what is made of it.                 *)
(***************************************************************************)
EXTENDS DescriptorWire, FiniteSetTheorems, TLAPS

\* What a descriptor that is accepted satisfies, of the errors of ValidateDescriptor.
LEMMA AcceptedFacts ==
    ASSUME NEW d, Accepted(d)
    PROVE  /\ Named(d) = DOMAIN d.ops
           /\ \A i, j \in Named(d) : i < j => d.ops[i].name # d.ops[j].name
           /\ \A i \in Named(d) : d.writeOps # Nil /\ d.ops[i].isWrite
                                      => d.ops[i].name \in Elements(d.writeOps)
<1>1. ValidateOperations(d) = {}
  BY DEF Accepted, ValidateDescriptor
<1>2. UnnamedErrors(d) = {} /\ DuplicateErrors(d) = {} /\ MissingErrors(d) = {}
  BY <1>1 DEF ValidateOperations
<1>3. Named(d) = DOMAIN d.ops
  <2>1. DOMAIN d.ops \ Named(d) = {}
    BY <1>2 DEF UnnamedErrors
  <2> QED
    BY <2>1 DEF Named
<1>4. \A i, j \in Named(d) : i < j => d.ops[i].name # d.ops[j].name
  <2>1. {k \in Named(d) : \E i \in Named(d) : i < k /\ d.ops[i].name = d.ops[k].name} = {}
    BY <1>2 DEF DuplicateErrors
  <2> QED
    BY <2>1
<1>5. \A i \in Named(d) : d.writeOps # Nil /\ d.ops[i].isWrite
                               => d.ops[i].name \in Elements(d.writeOps)
  <2>1. {k \in Named(d) : /\ d.writeOps # Nil
                           /\ d.ops[k].isWrite
                           /\ d.ops[k].name \notin Elements(d.writeOps)} = {}
    BY <1>2 DEF MissingErrors
  <2> QED
    BY <2>1
<1> QED
  BY <1>3, <1>4, <1>5

\* Nil stands for no list and for no set of names.
LEMMA NilIsNothing ==
    ASSUME NEW d, HasOperations(d)
    PROVE  /\ Elements(Listed(d.writeOps)) \subseteq OpNames
           /\ d.writeOps # Nil => Writes(d) = Elements(d.writeOps)
           /\ d.writeOps = Nil => Writes(d) =
                 {d.ops[i].name : i \in {k \in DOMAIN d.ops : d.ops[k].isWrite}}
<1>1. CASE d.writeOps # Nil
  <2>1. Elements(d.writeOps) \in SUBSET OpNames
    BY <1>1 DEF HasOperations, Elements
  <2>2. Elements(d.writeOps) # Nil
    BY <2>1, NilAssumption DEF OpNames
  <2> QED
    BY <1>1, <2>1, <2>2 DEF Listed, Writes, EffectiveWriteOperations
<1>2. CASE d.writeOps = Nil
  <2> DEFINE W == {d.ops[i].name : i \in {k \in DOMAIN d.ops : d.ops[k].isWrite}}
  <2>1. W \in SUBSET OpNames
    BY DEF HasOperations
  <2>2. W # Nil
    BY <2>1, NilAssumption DEF OpNames
  <2>3. Elements(Listed(d.writeOps)) = {}
    BY <1>2 DEF Listed, Elements
  <2>4. CASE d.ops = <<>>
    <3>1. W = {}
      BY <2>4
    <3>2. Writes(d) = {}
      BY <1>2, <2>4 DEF Writes, EffectiveWriteOperations
    <3> QED
      BY <1>2, <2>3, <3>1, <3>2
  <2>5. CASE d.ops # <<>>
    <3>1. Writes(d) = W
      BY <1>2, <2>2, <2>5 DEF Writes, EffectiveWriteOperations
    <3> QED
      BY <1>2, <2>3, <3>1
  <2> QED
    BY <2>4, <2>5
<1> QED
  BY <1>1, <1>2

\* In an accepted descriptor an operation has one descriptor, so the first of a
\* name says the same as any.
LEMMA Agreement ==
    ASSUME NEW d, HasOperations(d), Accepted(d), NEW n \in Names
    PROVE  IsWriteOperation(d, n) <=> n \in Writes(d)
<1>1. CASE d.writeOps # Nil
  BY <1>1, NilIsNothing DEF IsWriteOperation, Listed
<1>2. CASE d.writeOps = Nil
  <2>1. n \notin Elements(Listed(d.writeOps))
    BY <1>2 DEF Listed, Elements
  <2>2. ASSUME IsWriteOperation(d, n) PROVE n \in Writes(d)
    BY <1>2, <2>1, <2>2, NilIsNothing DEF IsWriteOperation
  <2>3. ASSUME n \in Writes(d) PROVE IsWriteOperation(d, n)
    <3>1. PICK i \in DOMAIN d.ops : d.ops[i].isWrite /\ d.ops[i].name = n
      BY <1>2, <2>3, NilIsNothing
    <3>2. i \in Nat /\ 1 .. i \subseteq DOMAIN d.ops
      BY <3>1 DEF HasOperations
    <3>3. \A j \in 1 .. (i - 1) : d.ops[j].name # n
      BY <3>1, <3>2, AcceptedFacts
    <3> QED
      BY <1>2, <3>1, <3>3 DEF IsWriteOperation
  <2> QED
    BY <2>2, <2>3
<1> QED
  BY <1>1, <1>2

-----------------------------------------------------------------------------
(***************************************************************************)
(* What the wire carries                                                   *)
(***************************************************************************)

\* Operations that differ in their schemas at most.
SameOperations(ops, others) ==
    /\ DOMAIN others = DOMAIN ops
    /\ \A i \in DOMAIN ops : /\ others[i].name = ops[i].name
                            /\ others[i].isWrite = ops[i].isWrite
                            /\ others[i].caps = ops[i].caps

\* Operations come through, but for schemas; of the list of writes comes what it
\* has, but not whether there is one.
WireInv ==
    /\ HasOperations(desc)
    /\ wire = Nil => host = Nil
    /\ wire # Nil => /\ wire.writeOps = Listed(desc.writeOps)
                     /\ SameOperations(desc.ops, wire.ops)
    /\ Received => /\ host.writeOps = OffTheWire(Listed(desc.writeOps))
                   /\ SameOperations(desc.ops, host.ops)

\* Names of operations, whether they write and their capabilities come through,
\* whatever becomes of the schemas.
LEMMA OperationsTravel ==
    ASSUME NEW ops
    PROVE  /\ SameOperations(ops, OperationsToProto(ops))
           /\ SameOperations(ops, ProtoToOperations(ops))
  BY DEF SameOperations, OperationsToProto, ProtoToOperations

WithSchemas(ops, raw) ==
    [i \in DOMAIN ops |-> [OperationsToProto(ops)[i] EXCEPT !.schema = raw]]

LEMMA ForeignOperationsTravel ==
    ASSUME NEW ops, NEW raw
    PROVE  SameOperations(ops, WithSchemas(ops, raw))
<1>1. ASSUME NEW i \in DOMAIN ops
      PROVE  /\ WithSchemas(ops, raw)[i].name = ops[i].name
             /\ WithSchemas(ops, raw)[i].isWrite = ops[i].isWrite
             /\ WithSchemas(ops, raw)[i].caps = ops[i].caps
  BY DEF WithSchemas, OperationsToProto
<1>2. DOMAIN WithSchemas(ops, raw) = DOMAIN ops
  BY DEF WithSchemas
<1> QED
  BY <1>1, <1>2 DEF SameOperations

LEMMA SameIsTransitive ==
    ASSUME NEW A, NEW B, NEW C, SameOperations(A, B), SameOperations(B, C)
    PROVE  SameOperations(A, C)
  BY DEF SameOperations

\* The empty list is not Nil.
LEMMA EmptyIsNotNil == Nil # <<>>
<1>1. <<>> \in Seq(Names \union {NoName})
  OBVIOUS
<1> QED
  BY <1>1, NilAssumption

LEMMA HostHasOperations ==
    ASSUME WireInv, Received
    PROVE  HasOperations(host)
<1>1. host.writeOps # Nil => host.writeOps \in Seq(OpNames)
  BY DEF WireInv, HasOperations, OffTheWire, Listed
<1> QED
  BY <1>1 DEF WireInv, SameOperations, HasOperations

LEMMA InitWire == Init => WireInv
  BY WireAssumption DEF Init, WireInv, Received

LEMMA NextWire == WireInv /\ [Next]_vars => WireInv'
<1> SUFFICES ASSUME WireInv, [Next]_vars PROVE WireInv'
  OBVIOUS
<1>1. CASE GetProviderDescriptor
  <2>1. wire'.writeOps = Listed(desc.writeOps) /\ SameOperations(desc.ops, wire'.ops)
    BY <1>1, OperationsTravel DEF GetProviderDescriptor, DescriptorToProto, OnTheWire
  <2>2. wire = Nil /\ host = Nil /\ UNCHANGED <<desc, host>>
    BY <1>1 DEF GetProviderDescriptor, WireInv
  <2> QED
    BY <2>1, <2>2 DEF WireInv, Received
<1>2. CASE GetForeignDescriptor
  <2>1. wire'.writeOps = Listed(desc.writeOps) /\ SameOperations(desc.ops, wire'.ops)
    <3>1. PICK v \in {desc.version, BadVersion}, raw \in {Nil, Garbled} :
             wire' = ForeignForm(desc, v, raw)
      BY <1>2 DEF GetForeignDescriptor
    <3>2. wire'.writeOps = Listed(desc.writeOps)
      BY <3>1 DEF ForeignForm, DescriptorToProto, OnTheWire
    <3>3. wire'.ops = WithSchemas(desc.ops, raw)
      BY <3>1 DEF ForeignForm, DescriptorToProto, WithSchemas
    <3> QED
      BY <3>2, <3>3, ForeignOperationsTravel
  <2>2. wire = Nil /\ host = Nil /\ UNCHANGED <<desc, host>>
    BY <1>2 DEF GetForeignDescriptor, WireInv
  <2> QED
    BY <2>1, <2>2 DEF WireInv, Received
<1>3. CASE ReceiveDescriptor
  <2>1. wire # Nil /\ UNCHANGED <<desc, wire>> /\ host' = ProtoToDescriptor(wire)
    BY <1>3 DEF ReceiveDescriptor
  <2>2. Received' => /\ host'.writeOps = OffTheWire(wire.writeOps)
                     /\ SameOperations(wire.ops, host'.ops)
    BY <2>1, OperationsTravel DEF Received, ProtoToDescriptor
  <2> QED
    BY <2>1, <2>2, SameIsTransitive DEF WireInv
<1>4. CASE UNCHANGED vars
  BY <1>4 DEF vars, WireInv, Received
<1> QED
  BY <1>1, <1>2, <1>3, <1>4 DEF Next

LEMMA WireInvariant == Spec => []WireInv
  BY InitWire, NextWire, PTL DEF Spec

\* IsWriteOperation and EffectiveWriteOperations agree about every accepted
\* descriptor, however many operations it has, in the plugin and in the host.
THEOREM WritesAlwaysAgree == Spec => []WritesAgree
<1>1. WireInv => WritesAgree
  BY HostHasOperations, Agreement DEF WritesAgree, Known, WireInv
<1> QED
  BY <1>1, WireInvariant, PTL

\* What an accepted descriptor says of its operations is what the host hears. An
\* empty list of writes becomes no list; then no operation is marked either, or
\* ValidateDescriptor would have missed it in the list.
LEMMA HostHearsTheSame ==
    ASSUME WireInv, Received, Accepted(desc), NEW n \in Names
    PROVE  /\ IsWriteOperation(host, n) <=> IsWriteOperation(desc, n)
           /\ n \in Writes(host) <=> n \in Writes(desc)
<1> DEFINE marked(d) == {d.ops[i].name : i \in {k \in DOMAIN d.ops : d.ops[k].isWrite}}
<1>1. HasOperations(desc) /\ HasOperations(host)
  BY HostHasOperations DEF WireInv
<1>2. SameOperations(desc.ops, host.ops)
  BY DEF WireInv
<1>3. marked(host) = marked(desc)
  BY <1>2 DEF SameOperations
<1>4. CASE desc.writeOps # Nil /\ desc.writeOps # <<>>
  <2>1. host.writeOps = desc.writeOps
    BY <1>4 DEF WireInv, OffTheWire, Listed
  <2> QED
    BY <1>1, <1>4, <2>1, NilIsNothing DEF IsWriteOperation, Listed
<1>5. CASE desc.writeOps = <<>>
  <2>1. host.writeOps = Nil
    BY <1>5, EmptyIsNotNil DEF WireInv, OffTheWire, Listed
  <2>2. marked(desc) = {}
    BY <1>5, EmptyIsNotNil, AcceptedFacts DEF Elements
  <2>3. Elements(<<>>) = {}
    BY DEF Elements
  <2>4. Writes(host) = {} /\ Writes(desc) = {}
    BY <1>1, <1>3, <1>5, <2>1, <2>2, <2>3, EmptyIsNotNil, NilIsNothing
  <2>5. ~IsWriteOperation(desc, n)
    BY <1>5, <2>3, EmptyIsNotNil DEF IsWriteOperation, Listed
  <2>6. ~IsWriteOperation(host, n)
    BY <1>3, <2>1, <2>2, <2>3 DEF IsWriteOperation, Listed
  <2> QED
    BY <2>4, <2>5, <2>6
<1>6. CASE desc.writeOps = Nil
  <2>1. host.writeOps = Nil
    BY <1>6 DEF WireInv, OffTheWire, Listed
  <2>2. Writes(host) = Writes(desc)
    BY <1>1, <1>3, <1>6, <2>1, NilIsNothing
  <2>3. IsWriteOperation(host, n) <=> IsWriteOperation(desc, n)
    <3>1. Elements(Listed(host.writeOps)) = Elements(Listed(desc.writeOps))
      BY <1>6, <2>1
    <3>2. \A i \in DOMAIN desc.ops : 1 .. (i - 1) \subseteq DOMAIN desc.ops
      BY <1>1 DEF HasOperations
    <3> QED
      BY <1>2, <1>6, <2>1, <3>1, <3>2 DEF IsWriteOperation, SameOperations
  <2> QED
    BY <2>2, <2>3
<1> QED
  BY <1>4, <1>5, <1>6

\* The host classifies the operations of an accepted descriptor as the plugin
\* does, for any names and any number of operations.
THEOREM WritesReachHost == Spec => []WritesKept
<1>1. WireInv => WritesKept
  BY HostHearsTheSame DEF WritesKept
<1> QED
  BY <1>1, WireInvariant, PTL

-----------------------------------------------------------------------------
(***************************************************************************)
(* What ValidateDescriptor accepts                                         *)
(***************************************************************************)

\* The loop over WriteOperations finds every empty name and every repetition.
LEMMA WriteListChecked ==
    ASSUME NEW d, HasOperations(d)
    PROVE  WriteListErrors(d) = {} <=>
              /\ Distinct(Listed(d.writeOps))
              /\ NoName \notin Elements(Listed(d.writeOps))
<1> DEFINE w == Listed(d.writeOps)
           unnamed == {i \in DOMAIN w : w[i] = NoName}
           repeated == {j \in DOMAIN w : /\ \A i \in unnamed : j < i
                                         /\ \E i \in 1 .. (j - 1) : w[i] = w[j]}
<1>1. w \in Seq(OpNames)
  BY DEF HasOperations, Listed
<1>2. WriteListErrors(d) = {} <=> unnamed = {} /\ repeated = {}
  BY DEF WriteListErrors
<1>3. unnamed = {} <=> NoName \notin Elements(w)
  BY DEF Elements
<1>4. ASSUME unnamed = {} PROVE repeated = {} <=> Distinct(w)
  <2>1. ASSUME Distinct(w) PROVE repeated = {}
    <3>1. \A j \in DOMAIN w : \A i \in 1 .. (j - 1) : w[i] # w[j]
      BY <1>1, <2>1 DEF Distinct
    <3> QED
      BY <3>1
  <2>2. ASSUME repeated = {} PROVE Distinct(w)
    <3>1. \A j \in DOMAIN w : \A i \in 1 .. (j - 1) : w[i] # w[j]
      BY <1>4, <2>2
    <3>2. \A i, j \in DOMAIN w : i < j => w[i] # w[j]
      BY <1>1, <3>1
    <3>3. \A i, j \in DOMAIN w : i \in Int /\ j \in Int
      BY <1>1
    <3> QED
      BY <3>2, <3>3 DEF Distinct
  <2> QED
    BY <2>1, <2>2
<1> HIDE DEF w, unnamed, repeated
<1>5. WriteListErrors(d) = {} <=> Distinct(w) /\ NoName \notin Elements(w)
  BY <1>2, <1>3, <1>4
<1> QED
  BY <1>5 DEF w

LEMMA CapabilitiesChecked ==
    ASSUME NEW d
    PROVE  CapabilityErrors(d) = {} <=>
              /\ Elements(d.caps) \subseteq Capability
              /\ \A c \in Elements(d.caps) :
                    /\ c \in DOMAIN d.outputs
                    /\ \A f \in DOMAIN RequiredFields(c) :
                          HasField(d.outputs[c], f, RequiredFields(c)[f])
<1> DEFINE caps == Elements(d.caps)
           known == {c \in caps : IsValid(c)}
           described == known \intersect DOMAIN d.outputs
           lacking == {e \in described : \E f \in DOMAIN RequiredFields(e) :
                          ~HasField(d.outputs[e], f, RequiredFields(e)[f])}
<1>1. CapabilityErrors(d) = {} <=>
          caps \ known = {} /\ known \ described = {} /\ lacking = {}
  BY DEF CapabilityErrors
<1>2. caps \ known = {} <=> caps \subseteq Capability
  BY DEF IsValid
<1>3. ASSUME caps \ known = {}
      PROVE  known \ described = {} <=> caps \subseteq DOMAIN d.outputs
  BY <1>3
<1>4. ASSUME caps \ known = {}, known \ described = {}
      PROVE  lacking = {} <=> \A c \in caps : \A f \in DOMAIN RequiredFields(c) :
                                 HasField(d.outputs[c], f, RequiredFields(c)[f])
  <2>1. described = caps
    BY <1>4
  <2> QED
    BY <2>1
<1> HIDE DEF known, described, lacking
<1> QED
  BY <1>1, <1>2, <1>3, <1>4

\* The loop over Operations finds every operation that is not named, named
\* twice, or marked otherwise than the list of writes says.
LEMMA OperationsChecked ==
    ASSUME NEW d, HasOperations(d), Elements(d.caps) \subseteq Capability
    PROVE  ValidateOperations(d) = {} <=>
              /\ Distinct(NamesOf(d.ops)) /\ NoName \notin Elements(NamesOf(d.ops))
              /\ \A o \in Elements(d.ops) : Elements(o.caps) \subseteq Elements(d.caps)
              /\ d.writeOps # Nil =>
                    \A o \in Elements(d.ops) : o.isWrite <=> o.name \in Elements(d.writeOps)
<1> DEFINE repeated ==
             {k \in Named(d) : \E i \in Named(d) : i < k /\ d.ops[i].name = d.ops[k].name}
           foreign == {k \in Named(d) : \E c \in Elements(d.ops[k].caps) :
                          ~IsValid(c) \/ c \notin Elements(d.caps)}
           missing == {k \in Named(d) : /\ d.writeOps # Nil
                                        /\ d.ops[k].isWrite
                                        /\ d.ops[k].name \notin Elements(d.writeOps)}
           unmarked == {k \in Named(d) :
                          /\ d.ops[k].name \in Elements(Listed(d.writeOps))
                          /\ \A j \in Named(d) : j > k => d.ops[j].name # d.ops[k].name
                          /\ ~d.ops[k].isWrite}
<1>1. ValidateOperations(d) = {} <=>
          /\ DOMAIN d.ops \ Named(d) = {} /\ repeated = {} /\ foreign = {}
          /\ missing = {} /\ unmarked = {}
  <2>1. UnnamedErrors(d) = {} <=> DOMAIN d.ops \ Named(d) = {}
    BY DEF UnnamedErrors
  <2>2. DuplicateErrors(d) = {} <=> repeated = {}
    BY DEF DuplicateErrors
  <2>3. OperationCapabilityErrors(d) = {} <=> foreign = {}
    BY DEF OperationCapabilityErrors
  <2>4. MissingErrors(d) = {} <=> missing = {}
    BY DEF MissingErrors
  <2>5. ContradictionErrors(d) = {} <=> unmarked = {}
    BY DEF ContradictionErrors
  <2> HIDE DEF repeated, foreign, missing, unmarked
  <2> QED
    BY <2>1, <2>2, <2>3, <2>4, <2>5 DEF ValidateOperations
<1>2. DOMAIN d.ops \ Named(d) = {} <=> NoName \notin Elements(NamesOf(d.ops))
  BY DEF Named, NamesOf, Elements
<1>3. ASSUME DOMAIN d.ops \ Named(d) = {} PROVE Named(d) = DOMAIN d.ops
  BY <1>3 DEF Named
<1>4. ASSUME Named(d) = DOMAIN d.ops PROVE repeated = {} <=> Distinct(NamesOf(d.ops))
  <2>1. DOMAIN d.ops \subseteq Nat
    BY DEF HasOperations
  <2>2. repeated = {} <=>
           \A i, k \in DOMAIN d.ops : i < k => d.ops[i].name # d.ops[k].name
    BY <1>4
  <2>3. Distinct(NamesOf(d.ops)) <=>
           \A i, k \in DOMAIN d.ops : d.ops[i].name = d.ops[k].name => i = k
    BY DEF Distinct, NamesOf
  <2> HIDE DEF repeated
  <2> QED
    BY <2>1, <2>2, <2>3
<1>5. ASSUME Named(d) = DOMAIN d.ops
      PROVE  foreign = {} <=>
                \A o \in Elements(d.ops) : Elements(o.caps) \subseteq Elements(d.caps)
  <2>1. foreign = {} <=> \A k \in DOMAIN d.ops : \A c \in Elements(d.ops[k].caps) :
                            IsValid(c) /\ c \in Elements(d.caps)
    BY <1>5
  <2>2. \A c \in Elements(d.caps) : IsValid(c)
    BY DEF IsValid
  <2> HIDE DEF foreign
  <2> QED
    BY <2>1, <2>2 DEF Elements
<1>6. ASSUME Named(d) = DOMAIN d.ops, repeated = {}
      PROVE  missing = {} /\ unmarked = {} <=>
                (d.writeOps # Nil =>
                    \A o \in Elements(d.ops) : o.isWrite <=> o.name \in Elements(d.writeOps))
  <2>1. CASE d.writeOps = Nil
    <3>1. missing = {}
      BY <2>1
    <3>2. Elements(Listed(d.writeOps)) = {}
      BY <2>1 DEF Listed, Elements
    <3>3. unmarked = {}
      BY <3>2
    <3> QED
      BY <2>1, <3>1, <3>3
  <2>2. CASE d.writeOps # Nil
    <3>1. Listed(d.writeOps) = d.writeOps
      BY <2>2 DEF Listed
    <3>2. \A k, j \in DOMAIN d.ops : j > k => d.ops[j].name # d.ops[k].name
      <4>1. \A k, j \in DOMAIN d.ops : j > k <=> k < j
        BY DEF HasOperations
      <4>2. \A k, j \in DOMAIN d.ops : k < j => d.ops[k].name # d.ops[j].name
        BY <1>6
      <4> QED
        BY <4>1, <4>2
    <3>3. unmarked = {k \in DOMAIN d.ops : /\ d.ops[k].name \in Elements(d.writeOps)
                                           /\ ~d.ops[k].isWrite}
      BY <1>6, <3>1, <3>2
    <3>4. missing = {k \in DOMAIN d.ops : /\ d.ops[k].isWrite
                                          /\ d.ops[k].name \notin Elements(d.writeOps)}
      BY <1>6, <2>2
    <3>5. \A k \in DOMAIN d.ops : d.ops[k].isWrite \in BOOLEAN
      BY DEF HasOperations
    <3>6. missing = {} /\ unmarked = {} <=>
             \A k \in DOMAIN d.ops : d.ops[k].isWrite <=> d.ops[k].name \in Elements(d.writeOps)
      BY <3>3, <3>4, <3>5
    <3>7. \A o : o \in Elements(d.ops) <=> \E k \in DOMAIN d.ops : o = d.ops[k]
      BY DEF Elements
    <3> HIDE DEF missing, unmarked
    <3> QED
      BY <2>2, <3>6, <3>7
  <2> QED
    BY <2>1, <2>2
<1> HIDE DEF repeated, foreign, missing, unmarked
<1> QED
  BY <1>1, <1>2, <1>3, <1>4, <1>5, <1>6

\* ValidateDescriptor reports nothing of a descriptor exactly if no rule for it
\* is broken.
LEMMA ValidationIsExact ==
    ASSUME NEW d, HasOperations(d)
    PROVE  Accepted(d) <=> Consistent(d)
<1>1. CASE d.caps = <<>> \/ d.outputs = Nil
  BY <1>1 DEF Accepted, ValidateDescriptor, Consistent
<1>2. CASE d.caps # <<>> /\ d.outputs # Nil
  <2>1. Accepted(d) <=> /\ CapabilityErrors(d) = {} /\ WriteListErrors(d) = {}
                        /\ ValidateOperations(d) = {}
    BY <1>2 DEF Accepted, ValidateDescriptor
  <2> QED
    BY <1>2, <2>1, CapabilitiesChecked, WriteListChecked, OperationsChecked DEF Consistent
<1> QED
  BY <1>1, <1>2

\* For any lists of capabilities and operations, ValidateDescriptor and
\* validateOperations accept a descriptor if and only if it keeps the rules of
\* Consistent; a version and an input schema are not among these.
THEOREM AcceptsExactlyTheConsistent == Spec => []AcceptsTheConsistent
<1>1. WireInv => AcceptsTheConsistent
  BY ValidationIsExact DEF WireInv, AcceptsTheConsistent
<1> QED
  BY <1>1, WireInvariant, PTL

-----------------------------------------------------------------------------
(***************************************************************************)
(* What the host makes of it                                               *)
(***************************************************************************)

\* What is on the wire is one of the two forms of the plugin's descriptor, and
\* what the host has is made of that alone.
FormInv ==
    /\ desc \in Descriptors
    /\ wire = Nil => host = Nil
    /\ wire # Nil => \/ wire = DescriptorToProto(desc)
                     \/ \E v \in {desc.version, BadVersion}, raw \in {Nil, Garbled} :
                           wire = ForeignForm(desc, v, raw)
    /\ Received => wire # Nil /\ host = ProtoToDescriptor(wire)

LEMMA FormInvariant == Spec => []FormInv
<1>1. Init => FormInv
  BY DEF Init, FormInv, Received
<1>2. FormInv /\ [Next]_vars => FormInv'
  <2> SUFFICES ASSUME FormInv, [Next]_vars PROVE FormInv'
    OBVIOUS
  <2>1. CASE GetProviderDescriptor
    <3>1. ~Received'
      BY <2>1 DEF GetProviderDescriptor, FormInv, Received
    <3> QED
      BY <2>1, <3>1 DEF GetProviderDescriptor, FormInv
  <2>2. CASE GetForeignDescriptor
    <3>1. ~Received'
      BY <2>2 DEF GetForeignDescriptor, FormInv, Received
    <3>2. \E v \in {desc.version, BadVersion}, raw \in {Nil, Garbled} :
             wire' = ForeignForm(desc, v, raw)
      BY <2>2 DEF GetForeignDescriptor
    <3> QED
      BY <2>2, <3>1, <3>2 DEF GetForeignDescriptor, FormInv
  <2>3. CASE ReceiveDescriptor
    BY <2>3 DEF ReceiveDescriptor, FormInv, Received
  <2>4. CASE UNCHANGED vars
    BY <2>4 DEF vars, FormInv, Received
  <2> QED
    BY <2>1, <2>2, <2>3, <2>4 DEF Next
<1> QED
  BY <1>1, <1>2, PTL DEF Spec

\* The parts of what the host has.
LEMMA HostIsMadeOfTheWire ==
    ASSUME FormInv, Received
    PROVE  /\ host.caps = wire.caps
           /\ host.writeOps = OffTheWire(wire.writeOps)
           /\ host.schema = UnmarshalSchemaOrFallback(wire.raw, wire.schema)
           /\ host.outputs = UnmarshalOutputSchemas(wire.rawOutputs, wire.outputs)
<1>1. host = ProtoToDescriptor(wire) /\ host # Refused
  BY DEF FormInv, Received
<1> QED
  BY <1>1 DEF ProtoToDescriptor

\* Schemas that are there and can be marshalled come through as JSON.
LEMMA OutputsTravel ==
    ASSUME FormInv, Received, wire = DescriptorToProto(desc),
           desc.outputs # Nil, DOMAIN desc.outputs # {},
           \A c \in DOMAIN desc.outputs : MarshalSchema(desc.outputs[c]) # Nil
    PROVE  host.outputs = desc.outputs
<1> DEFINE raws == [c \in DOMAIN desc.outputs |-> MarshalSchema(desc.outputs[c])]
<1>1. desc.outputs = [c \in DOMAIN desc.outputs |-> desc.outputs[c]]
  BY WireAssumption DEF FormInv, HasCapabilities
<1>2. \A c \in DOMAIN desc.outputs : MarshalSchema(desc.outputs[c]) = desc.outputs[c]
  BY DEF MarshalSchema
<1>3. Present(raws) = raws
  BY DEF Present
<1>4. raws = desc.outputs
  BY <1>1, <1>2
<1>5. MarshalOutputs(desc.outputs) = Present(raws)
  BY DEF MarshalOutputs, Listed
<1>6. wire.rawOutputs = desc.outputs
  BY <1>3, <1>4, <1>5 DEF DescriptorToProto
<1>7. \A c \in DOMAIN desc.outputs : /\ UnmarshalSchema(desc.outputs[c]) = desc.outputs[c]
                                      /\ desc.outputs[c] # Nil
  BY <1>2, WireAssumption DEF FormInv, UnmarshalSchema
<1>8. [c \in DOMAIN desc.outputs |-> UnmarshalSchema(desc.outputs[c])] = desc.outputs
  BY <1>1, <1>7
<1>9. Present(desc.outputs) = desc.outputs
  BY <1>1, <1>7 DEF Present
<1> QED
  BY <1>6, <1>8, <1>9, HostIsMadeOfTheWire DEF UnmarshalOutputSchemas

LEMMA HostIsConsistent ==
    ASSUME WireInv, FormInv, Received, wire = DescriptorToProto(desc), Consistent(desc),
           \A c \in DOMAIN desc.outputs : MarshalSchema(desc.outputs[c]) # Nil
    PROVE  Consistent(host)
<1>1. host.caps = desc.caps
  BY HostIsMadeOfTheWire DEF DescriptorToProto
<1>2. host.outputs = desc.outputs
  <2>1. desc.caps \in Seq(Elements(desc.caps)) /\ desc.caps # <<>>
    BY WireAssumption DEF FormInv, HasCapabilities, Consistent
  <2>2. Elements(desc.caps) # {}
    BY <2>1
  <2>3. DOMAIN desc.outputs # {} /\ desc.outputs # Nil
    BY <2>2 DEF Consistent
  <2> QED
    BY <2>3, OutputsTravel
<1>3. SameOperations(desc.ops, host.ops)
  BY DEF WireInv
<1>4. NamesOf(host.ops) = NamesOf(desc.ops)
  BY <1>3 DEF NamesOf, SameOperations
<1>5. \A i \in DOMAIN desc.ops : host.ops[i].caps = desc.ops[i].caps
  BY <1>3 DEF SameOperations
<1>6. \A o \in Elements(host.ops) : Elements(o.caps) \subseteq Elements(host.caps)
  <2>1. SUFFICES ASSUME NEW i \in DOMAIN host.ops
                 PROVE  Elements(host.ops[i].caps) \subseteq Elements(host.caps)
    BY DEF Elements
  <2>2. i \in DOMAIN desc.ops /\ desc.ops[i] \in Elements(desc.ops)
    BY <1>3 DEF Elements, SameOperations
  <2>3. Elements(desc.ops[i].caps) \subseteq Elements(desc.caps)
    BY <2>2 DEF Consistent
  <2> QED
    BY <1>1, <1>5, <2>2, <2>3
<1>7. Listed(host.writeOps) = Listed(desc.writeOps)
  <2>1. host.writeOps = OffTheWire(Listed(desc.writeOps))
    BY DEF WireInv
  <2> QED
    BY <2>1 DEF OffTheWire, Listed
<1>8. host.writeOps # Nil => \A o \in Elements(host.ops) :
                                o.isWrite <=> o.name \in Elements(host.writeOps)
  <2>1. SUFFICES ASSUME host.writeOps # Nil, NEW i \in DOMAIN host.ops
                 PROVE  host.ops[i].isWrite <=> host.ops[i].name \in Elements(host.writeOps)
    BY DEF Elements
  <2>2. host.writeOps = desc.writeOps /\ desc.writeOps # Nil
    BY <2>1 DEF WireInv, OffTheWire, Listed
  <2>3. i \in DOMAIN desc.ops /\ desc.ops[i] \in Elements(desc.ops)
    BY <1>3, <2>1 DEF Elements, SameOperations
  <2>4. desc.ops[i].isWrite <=> desc.ops[i].name \in Elements(desc.writeOps)
    BY <2>2, <2>3 DEF Consistent
  <2> QED
    BY <1>3, <2>2, <2>3, <2>4 DEF SameOperations
<1> QED
  BY <1>1, <1>2, <1>4, <1>6, <1>7, <1>8 DEF Consistent

\* A descriptor the plugin finds valid is valid for the host: all that
\* ValidateDescriptor looks at comes through. An empty list of writes that the
\* wire loses was checked before it got there.
THEOREM ValidityTravels == Spec => []StaysValid
<1>1. WireInv /\ FormInv => StaysValid
  BY HostHasOperations, HostIsConsistent, ValidationIsExact DEF StaysValid, WireInv
<1> QED
  BY <1>1, WireInvariant, FormInvariant, PTL

-----------------------------------------------------------------------------
(***************************************************************************)
(* A schema that is rebuilt from its fields                                *)
(***************************************************************************)

\* What the conversion to int32 does to the numbers around those it keeps.
LEMMA Int32Bounds ==
    ASSUME NEW n \in Int
    PROVE  /\ ToInt32(n) \in Int
           /\ -Half <= n /\ n < Half => ToInt32(n) = n
           /\ Half <= n /\ n < 2 * Half => ToInt32(n) < 0
           /\ Half <= n => ToInt32(n) < n
           /\ n < -Half => ToInt32(n) > n
<1>1. Half \in Nat /\ Half > 0
  BY WireAssumption
<1>2. ToInt32(n) \in -Half .. (Half - 1)
  BY <1>1 DEF ToInt32
<1>3. -Half <= n /\ n < Half => ToInt32(n) = n
  BY <1>1 DEF ToInt32
<1>4. Half <= n /\ n < 2 * Half => ToInt32(n) < 0
  BY <1>1 DEF ToInt32
<1> QED
  BY <1>1, <1>2, <1>3, <1>4

\* A limit that comes back is the one that was sent or a weaker one.
LEMMA LimitTravels ==
    ASSUME NEW limit \in Int \union {Nil}
    PROVE  LET back == LimitFromProto(LimitToProto(limit))
           IN  /\ back \in Int \union {Nil}
               /\ limit \in {Nil} \union 1 .. (Half - 1) => back = limit
               /\ limit = Nil \/ limit < 2 * Half => AtMost(limit, back)
               /\ limit = Nil \/ limit >= -Half => AtLeast(limit, back)
<1>1. Nil \notin Int
  BY NilAssumption
<1>2. Half \in Nat /\ Half > 0
  BY WireAssumption
<1>3. CASE limit = Nil
  BY <1>1, <1>3 DEF LimitFromProto, LimitToProto, AtMost, AtLeast
<1>4. CASE limit \in Int
  <2> DEFINE n == ToInt32(limit)
  <2>1. LimitToProto(limit) = n /\ limit # Nil
    BY <1>1, <1>4 DEF LimitToProto
  <2>2. /\ n \in Int
        /\ -Half <= limit /\ limit < Half => n = limit
        /\ Half <= limit /\ limit < 2 * Half => n < 0
        /\ Half <= limit => n < limit
    BY <1>4, Int32Bounds
  <2> HIDE DEF n
  <2>3. CASE n > 0
    <3>1. LimitFromProto(LimitToProto(limit)) = n /\ n # Nil
      BY <1>1, <2>1, <2>2, <2>3 DEF LimitFromProto
    <3>2. limit < 2 * Half => limit <= n
      <4>1. CASE limit < -Half
        BY <1>2, <1>4, <2>2, <2>3, <4>1
      <4>2. CASE -Half <= limit
        BY <1>2, <1>4, <2>2, <2>3, <4>2
      <4> QED
        BY <1>2, <1>4, <4>1, <4>2
    <3>3. limit >= -Half => n <= limit
      BY <1>2, <1>4, <2>2
    <3>4. limit \in 1 .. (Half - 1) => n = limit
      BY <1>2, <1>4, <2>2
    <3> QED
      BY <2>1, <2>2, <3>1, <3>2, <3>3, <3>4 DEF AtMost, AtLeast
  <2>4. CASE ~(n > 0)
    <3>1. LimitFromProto(LimitToProto(limit)) = Nil
      BY <2>1, <2>4 DEF LimitFromProto
    <3>2. limit \notin 1 .. (Half - 1)
      BY <1>2, <1>4, <2>2, <2>4
    <3> QED
      BY <2>1, <3>1, <3>2 DEF AtMost, AtLeast
  <2> QED
    BY <2>3, <2>4
<1> QED
  BY <1>3, <1>4

\* Of a list of which every value can be marshalled nothing is left out.
LEMMA ValuesTravel ==
    ASSUME NEW S, NEW list \in Seq(S), \A v \in Elements(list) : Marshals(v)
    PROVE  MarshalledValues(list) = list
<1> DEFINE kept == {i \in DOMAIN list : Marshals(list[i])}
           Nth(n) == CHOOSE i \in kept : Cardinality({j \in kept : j <= i}) = n
<1>1. Len(list) \in Nat /\ DOMAIN list = 1 .. Len(list)
  OBVIOUS
<1>2. kept = 1 .. Len(list)
  BY <1>1 DEF Elements
<1> HIDE DEF kept
<1>3. \A n \in Nat : Cardinality(1 .. n) = n
  <2> TAKE n \in Nat
  <2>1. Cardinality(1 .. n) = IF 1 > n THEN 0 ELSE n - 1 + 1
    BY FS_Interval
  <2> QED
    BY <2>1
<1>4. Cardinality(kept) = Len(list)
  BY <1>1, <1>2, <1>3
<1>5. \A i \in 1 .. Len(list) : Cardinality({j \in kept : j <= i}) = i
  <2> TAKE i \in 1 .. Len(list)
  <2>1. {j \in kept : j <= i} = 1 .. i
    BY <1>1, <1>2
  <2>2. i \in Nat
    BY <1>1
  <2> QED
    BY <1>3, <2>1, <2>2, Zenon
<1>6. \A n \in 1 .. Len(list) : Nth(n) = n
  BY <1>2, <1>5
<1>7. MarshalledValues(list) = [n \in 1 .. Cardinality(kept) |-> list[Nth(n)]]
  BY DEF MarshalledValues, kept
<1> HIDE DEF Nth
<1> QED
  BY <1>1, <1>4, <1>6, <1>7

\* What comes back of a property whose values can be marshalled.
LEMMA PropertyTravels ==
    ASSUME FormInv, desc.schema # Nil, NEW f \in DOMAIN desc.schema.props, NEW required,
           \A v \in Elements(desc.schema.props[f].enum) : Marshals(v)
    PROVE  LET p == desc.schema.props[f]
           IN  /\ {p.maxLength, p.minLength, p.minimum} \subseteq Int \union {Nil}
               /\ ProtoParamToJSON(ParamToProto(p, required)) =
                     [type |-> p.type,
                      maxLength |-> LimitFromProto(LimitToProto(p.maxLength)),
                      minLength |-> LimitFromProto(LimitToProto(p.minLength)),
                      minimum |-> p.minimum,
                      default |-> IF Marshals(p.default) THEN p.default ELSE MarshalError,
                      enum |-> p.enum]
<1> DEFINE p == desc.schema.props[f]
<1>1. /\ {p.maxLength, p.minLength, p.minimum} \subseteq Int \union {Nil}
      /\ p.enum \in Seq(Elements(p.enum))
  BY WireAssumption DEF FormInv, HasSchema
<1>2. MarshalledValues(p.enum) = p.enum
  BY <1>1, ValuesTravel
<1>3. MinimumFromProto(ParamToProto(p, required)) = p.minimum
  BY DEF MinimumFromProto, ParamToProto
<1> QED
  BY <1>1, <1>2, <1>3 DEF ProtoParamToJSON, ParamToProto

\* The host has the schema as JSON, or what is made of its fields, or, if it has
\* no properties, none.
LEMMA SchemaTravels ==
    ASSUME FormInv, Received, desc.schema # Nil
    PROVE  \/ host.schema = desc.schema
           \/ /\ DOMAIN desc.schema.props # {}
              /\ host.schema = ProtoSchemaToJSON(FieldsOf(desc.schema))
           \/ /\ DOMAIN desc.schema.props = {}
              /\ host.schema = Nil
<1>1. host.schema = UnmarshalSchemaOrFallback(wire.raw, wire.schema)
  BY HostIsMadeOfTheWire
<1>2. wire.schema = SchemaToProto(desc.schema) /\ wire.raw \in {desc.schema, Nil, Garbled}
  <2>1. MarshalSchema(desc.schema) \in {desc.schema, Nil}
    BY DEF MarshalSchema
  <2>2. CASE wire = DescriptorToProto(desc)
    BY <2>1, <2>2 DEF DescriptorToProto
  <2>3. CASE \E v \in {desc.version, BadVersion}, raw \in {Nil, Garbled} :
                wire = ForeignForm(desc, v, raw)
    BY <2>3 DEF ForeignForm, DescriptorToProto
  <2> QED
    BY <2>2, <2>3 DEF FormInv, Received
<1>3. FieldsOf(desc.schema) # Nil
  BY FieldsAssumption DEF FormInv
<1>4. UnmarshalSchema(wire.raw) \in {desc.schema, Nil}
  BY <1>2 DEF UnmarshalSchema
<1> QED
  BY <1>1, <1>2, <1>3, <1>4 DEF UnmarshalSchemaOrFallback, SchemaToProto

\* What is made of the fields has the same properties.
LEMMA RebuiltSchema ==
    ASSUME NEW s
    PROVE  LET t == ProtoSchemaToJSON(FieldsOf(s))
           IN  /\ t = [type |-> "object", props |-> t.props, required |-> t.required]
               /\ t.props = [f \in DOMAIN s.props |->
                     ProtoParamToJSON(ParamToProto(s.props[f], f \in s.required))]
               /\ t.required = s.required \intersect DOMAIN s.props
<1> DEFINE ps == FieldsOf(s)
<1>1. DOMAIN ps = DOMAIN s.props
  BY DEF FieldsOf
<1>2. \A f \in DOMAIN s.props : ps[f] = ParamToProto(s.props[f], f \in s.required)
  BY DEF FieldsOf
<1> HIDE DEF ps
<1>3. \A f \in DOMAIN s.props : ps[f].required = (f \in s.required)
  <2> TAKE f \in DOMAIN s.props
  <2>1. \A p, r : ParamToProto(p, r).required = r
    BY DEF ParamToProto
  <2> QED
    BY <1>2, <2>1
<1>4. {f \in DOMAIN ps : ps[f].required} = s.required \intersect DOMAIN s.props
  BY <1>1, <1>3
<1>5. [f \in DOMAIN ps |-> ProtoParamToJSON(ps[f])] =
         [f \in DOMAIN s.props |-> ProtoParamToJSON(ParamToProto(s.props[f], f \in s.required))]
  BY <1>1, <1>2
<1> QED
  BY <1>4, <1>5 DEF ProtoSchemaToJSON, ps

\* A schema that the fields can express is rebuilt as it was, for every int32
\* and whatever its properties.
THEOREM FallbackIsExact == Spec => []FallbackExact
<1>1. ASSUME FormInv, Received, desc.schema # Nil, Expressible(desc.schema)
      PROVE  host.schema = desc.schema
  <2> DEFINE s == desc.schema
             t == ProtoSchemaToJSON(FieldsOf(s))
  <2>1. SUFFICES ASSUME host.schema = t PROVE t = s
    BY <1>1, SchemaTravels DEF Expressible
  <2>2. HasSchema(desc)
    BY <1>1, WireAssumption DEF FormInv
  <2>3. \A f \in DOMAIN s.props :
           ProtoParamToJSON(ParamToProto(s.props[f], f \in s.required)) = s.props[f]
    <3> TAKE f \in DOMAIN s.props
    <3> DEFINE p == s.props[f]
    <3>1. /\ Marshals(p.default)
          /\ \A v \in Elements(p.enum) : Marshals(v)
          /\ {p.maxLength, p.minLength} \subseteq {Nil} \union 1 .. (Half - 1)
      BY <1>1 DEF Expressible, SchemaMarshals
    <3>2. p = [type |-> p.type, maxLength |-> p.maxLength,
               minLength |-> p.minLength, minimum |-> p.minimum,
               default |-> p.default, enum |-> p.enum]
      BY <1>1, <2>2 DEF HasSchema
    <3>3. {p.maxLength, p.minLength} \subseteq Int \union {Nil}
      BY <1>1, <2>2 DEF HasSchema
    <3>4. /\ LimitFromProto(LimitToProto(p.maxLength)) = p.maxLength
          /\ LimitFromProto(LimitToProto(p.minLength)) = p.minLength
      BY <3>1, <3>3, LimitTravels
    <3> QED
      BY <1>1, <3>1, <3>2, <3>4, PropertyTravels
  <2>4. t.props = s.props
    <3>1. s.props = [f \in DOMAIN s.props |-> s.props[f]]
      BY <1>1, <2>2 DEF HasSchema
    <3>2. t.props = [f \in DOMAIN s.props |-> s.props[f]]
      BY <2>3, RebuiltSchema
    <3> QED
      BY <3>1, <3>2
  <2>5. t.required = s.required
    BY <1>1, RebuiltSchema DEF Expressible
  <2>6. s = [type |-> "object", props |-> s.props, required |-> s.required]
    BY <1>1, <2>2 DEF HasSchema, Expressible
  <2>7. t = [type |-> "object", props |-> t.props, required |-> t.required]
    BY RebuiltSchema
  <2> QED
    BY <2>4, <2>5, <2>6, <2>7
<1>2. FormInv => FallbackExact
  BY <1>1 DEF FallbackExact
<1> QED
  BY <1>2, FormInvariant, PTL

\* A schema that is rebuilt from its fields demands nothing the provider's does
\* not, up to the limits that wrap around an int32.
THEOREM FallbackIsNeverStricter == Spec => []FallbackNeverStricter
<1>1. ASSUME FormInv, Received, desc.schema # Nil, host.schema # Nil,
             \A f \in DOMAIN desc.schema.props :
                /\ \/ desc.schema.props[f].maxLength = Nil
                   \/ desc.schema.props[f].maxLength < 2 * Half
                /\ \/ desc.schema.props[f].minLength = Nil
                   \/ desc.schema.props[f].minLength >= -Half
                /\ \A v \in Elements(desc.schema.props[f].enum) : Marshals(v)
      PROVE  NoStricter(host.schema, desc.schema)
  <2> DEFINE s == desc.schema
             t == ProtoSchemaToJSON(FieldsOf(s))
             fields == [f \in DOMAIN s.props |->
                           ProtoParamToJSON(ParamToProto(s.props[f], f \in s.required))]
  <2>1. t.props = fields /\ t.required = s.required \intersect DOMAIN s.props
    BY RebuiltSchema
  <2>2. \A f \in DOMAIN s.props :
           {s.props[f].maxLength, s.props[f].minLength, s.props[f].minimum}
               \subseteq Int \union {Nil}
    BY <1>1, PropertyTravels
  <2>3. CASE host.schema = s
    <3>1. \A n \in Int \union {Nil} : AtMost(n, n) /\ AtLeast(n, n)
      BY DEF AtMost, AtLeast
    <3>2. \A f \in DOMAIN s.props :
             \/ s.props[f].enum = <<>>
             \/ s.props[f].enum # <<>> /\ Elements(s.props[f].enum) \subseteq Elements(s.props[f].enum)
      OBVIOUS
    <3> QED
      BY <2>2, <2>3, <3>1, <3>2 DEF NoStricter
  <2>4. CASE host.schema = t
    <3>1. t.required \subseteq s.required /\ DOMAIN t.props = DOMAIN s.props
      BY <2>1, Zenon
    <3>2. ASSUME NEW f \in DOMAIN s.props
          PROVE  LET p == s.props[f]
                     q == t.props[f]
                 IN  /\ p.type = q.type
                     /\ AtMost(p.maxLength, q.maxLength)
                     /\ AtLeast(p.minLength, q.minLength)
                     /\ AtLeast(p.minimum, q.minimum)
                     /\ \/ q.enum = <<>>
                        \/ p.enum # <<>> /\ Elements(p.enum) \subseteq Elements(q.enum)
      <4> DEFINE p == s.props[f]
                 q == t.props[f]
      <4>1. q = ProtoParamToJSON(ParamToProto(p, f \in s.required))
        BY <2>1
      <4>2. /\ q.type = p.type /\ q.minimum = p.minimum /\ q.enum = p.enum
            /\ q.maxLength = LimitFromProto(LimitToProto(p.maxLength))
            /\ q.minLength = LimitFromProto(LimitToProto(p.minLength))
        <5>1. FormInv /\ desc.schema # Nil /\ \A v \in Elements(p.enum) : Marshals(v)
          BY <1>1
        <5>2. ProtoParamToJSON(ParamToProto(p, f \in s.required)) =
                 [type |-> p.type,
                  maxLength |-> LimitFromProto(LimitToProto(p.maxLength)),
                  minLength |-> LimitFromProto(LimitToProto(p.minLength)),
                  minimum |-> p.minimum,
                  default |-> IF Marshals(p.default) THEN p.default ELSE MarshalError,
                  enum |-> p.enum]
          BY <5>1, PropertyTravels
        <5> HIDE DEF q
        <5> QED
          BY <4>1, <5>2
      <4>3. AtMost(p.maxLength, q.maxLength) /\ AtLeast(p.minLength, q.minLength)
        <5>1. /\ p.maxLength = Nil \/ p.maxLength < 2 * Half
              /\ p.minLength = Nil \/ p.minLength >= -Half
          BY <1>1
        <5>2. p.maxLength \in Int \union {Nil} /\ p.minLength \in Int \union {Nil}
          BY <2>2
        <5> HIDE DEF p
        <5>3. AtMost(p.maxLength, LimitFromProto(LimitToProto(p.maxLength)))
          BY <5>1, <5>2, LimitTravels
        <5>4. AtLeast(p.minLength, LimitFromProto(LimitToProto(p.minLength)))
          BY <5>1, <5>2, LimitTravels
        <5> HIDE DEF q
        <5> QED
          BY <4>2, <5>3, <5>4
      <4>4. AtLeast(p.minimum, q.minimum)
        BY <2>2, <4>2 DEF AtLeast
      <4> HIDE DEF p, q
      <4> QED
        BY <4>2, <4>3, <4>4 DEF p, q
    <3> QED
      BY <2>4, <3>1, <3>2 DEF NoStricter
  <2> QED
    BY <1>1, <2>3, <2>4, SchemaTravels
<1>2. FormInv => FallbackNeverStricter
  BY <1>1 DEF FallbackNeverStricter
<1> QED
  BY <1>2, FormInvariant, PTL

=============================================================================
