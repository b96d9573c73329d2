------------------------------ MODULE Descriptor ------------------------------
(***************************************************************************)
(* What a provider says of itself (provider/provider.go): its capabilities,  *)
(* the schemas of their outputs, and its operations with those that write,  *)
(* which it may list in two ways. ValidateDescriptor is the set of errors    *)
(* it reports; IsWriteOperation and EffectiveWriteOperations are the two     *)
(* ways to ask what writes.                                                 *)
(*                                                                         *)
(* A descriptor is a record: caps, a sequence of capabilities; outputs, Nil  *)
(* or a function from capabilities to schemas; schema, of the inputs, or     *)
(* Nil; writeOps, Nil or a sequence of names; ops, a sequence of operations; *)
(* version. A schema has typed props and the set of required names. Texts,  *)
(* tags and links, which decide nothing, are left out.                      *)
(***************************************************************************)
EXTENDS Integers, Sequences, FiniteSets

CONSTANTS Names,        \* names of operations
          NoName,       \* the empty name
          Nil           \* an absent pointer, map or slice

ASSUME NilAssumption ==
    /\ NoName \notin Names
    /\ Nil \notin Seq(Names \union {NoName})
    /\ Nil \notin Int
    /\ \A S \in SUBSET (Names \union {NoName}) : S # Nil

Elements(list) == {list[i] : i \in DOMAIN list}

OpNames == Names \union {NoName}

\* The types of the two lists of operations.
HasOperations(d) ==
    /\ d.writeOps # Nil => d.writeOps \in Seq(OpNames)
    /\ \A i \in DOMAIN d.ops : i \in Nat /\ 1 .. i \subseteq DOMAIN d.ops
    /\ \A i \in DOMAIN d.ops : d.ops[i].name \in OpNames /\ d.ops[i].isWrite \in BOOLEAN

\* Capabilities are a list, and the schemas of their outputs a map.
HasCapabilities(d) ==
    /\ d.caps \in Seq(Elements(d.caps))
    /\ d.outputs # Nil => d.outputs = [c \in DOMAIN d.outputs |-> d.outputs[c]]

\* The parts of a schema, and of its properties, and the types of the limits.
HasSchema(d) ==
    d.schema # Nil =>
        /\ d.schema = [type |-> d.schema.type, props |-> d.schema.props,
                       required |-> d.schema.required]
        /\ d.schema.props = [f \in DOMAIN d.schema.props |-> d.schema.props[f]]
        /\ \A f \in DOMAIN d.schema.props :
              LET p == d.schema.props[f]
              IN  /\ p = [type |-> p.type, maxLength |-> p.maxLength,
                          minLength |-> p.minLength, minimum |-> p.minimum,
                          default |-> p.default, enum |-> p.enum]
                  /\ {p.maxLength, p.minLength, p.minimum} \subseteq Int \union {Nil}
                  /\ p.enum \in Seq(Elements(p.enum))

Listed(list) == IF list = Nil THEN <<>> ELSE list

-----------------------------------------------------------------------------
(***************************************************************************)
(* Capabilities and the outputs they require                               *)
(***************************************************************************)

Capability ==
    {"from", "transform", "validation", "authentication", "action", "state", "kubeconfig"}

IsValid(c) == c \in Capability

\* The fields an output must have, with their types.
RequiredFields(c) ==
    CASE c = "validation" -> [valid |-> "boolean", errors |-> "array"]
      [] c = "authentication" -> [authenticated |-> "boolean", token |-> "string"]
      [] c \in {"action", "state", "kubeconfig"} -> [success |-> "boolean"]
      [] OTHER -> <<>>

\* A property of which only the type is set.
TypeOnly(type) ==
    [type |-> type, maxLength |-> Nil, minLength |-> Nil, minimum |-> Nil,
     default |-> Nil, enum |-> <<>>]

\* Mutant: the schema of every capability is empty.
EmptySchema(c) == [type |-> "object", props |-> <<>>, required |-> {}]

DefaultSchema(c) ==
    [type |-> "object",
     props |-> [f \in DOMAIN RequiredFields(c) |-> TypeOnly(RequiredFields(c)[f])],
     required |-> {}]

DefaultOutputSchemas(caps) == [c \in caps |-> DefaultSchema(c)]

HasField(schema, f, type) ==
    /\ schema # Nil
    /\ f \in DOMAIN schema.props
    /\ schema.props[f].type = type

\* An unknown capability and one without a schema are not looked at further.
CapabilityErrors(d) ==
    LET caps == Elements(d.caps)
        known == {c \in caps : IsValid(c)}
        described == known \intersect DOMAIN d.outputs
    IN  {<<"unknown capability", c>> : c \in caps \ known}
        \union {<<"no output schema", c>> : c \in known \ described}
        \union {<<"output field", c>> :
                   c \in {e \in described : \E f \in DOMAIN RequiredFields(e) :
                             ~HasField(d.outputs[e], f, RequiredFields(e)[f])}}

-----------------------------------------------------------------------------
(***************************************************************************)
(* Operations                                                              *)
(***************************************************************************)

\* The loop over WriteOperations stops at the first empty name.
WriteListErrors(d) ==
    LET w == Listed(d.writeOps)
        unnamed == {i \in DOMAIN w : w[i] = NoName}
        repeated == {j \in DOMAIN w : /\ \A i \in unnamed : j < i
                                      /\ \E i \in 1 .. (j - 1) : w[i] = w[j]}
    IN  {<<"unnamed write operation">> : i \in unnamed}
        \union {<<"duplicate write operation", w[j]>> : j \in repeated}

\* The operations that have a name; the others are not looked at further.
Named(d) == {i \in DOMAIN d.ops : d.ops[i].name # NoName}

UnnamedErrors(d) == {<<"unnamed operation">> : i \in DOMAIN d.ops \ Named(d)}

\* Mutants: duplicate operations, and contradictions in one direction, pass.
DuplicatesPass(d) == {}
ContradictionsPass(d) == {}

DuplicateErrors(d) ==
    {<<"duplicate operation", d.ops[j].name>> :
        j \in {k \in Named(d) : \E i \in Named(d) : i < k /\ d.ops[i].name = d.ops[k].name}}

OperationCapabilityErrors(d) ==
    {<<"capability of operation", d.ops[i].name>> :
        i \in {k \in Named(d) : \E c \in Elements(d.ops[k].caps) :
                  ~IsValid(c) \/ c \notin Elements(d.caps)}}

\* Operations that are marked as writes and missing from a WriteOperations.
MissingErrors(d) ==
    {<<"missing from WriteOperations", d.ops[i].name>> :
        i \in {k \in Named(d) : /\ d.writeOps # Nil
                                /\ d.ops[k].isWrite
                                /\ d.ops[k].name \notin Elements(d.writeOps)}}

\* Write operations whose descriptor, the last of the name, is not a write.
ContradictionErrors(d) ==
    {<<"not marked IsWrite", d.ops[i].name>> :
        i \in {k \in Named(d) :
                  /\ d.ops[k].name \in Elements(Listed(d.writeOps))
                  /\ \A j \in Named(d) : j > k => d.ops[j].name # d.ops[k].name
                  /\ ~d.ops[k].isWrite}}

ValidateOperations(d) ==
    UnnamedErrors(d) \union DuplicateErrors(d) \union OperationCapabilityErrors(d)
        \union MissingErrors(d) \union ContradictionErrors(d)

\* The errors of a descriptor. Without capabilities, or without output schemas,
\* that is the only one.
ValidateDescriptor(d) ==
    IF d.caps = <<>> THEN {<<"no capability">>}
    ELSE IF d.outputs = Nil THEN {<<"no output schemas">>}
    ELSE CapabilityErrors(d) \union WriteListErrors(d) \union ValidateOperations(d)

Accepted(d) == ValidateDescriptor(d) = {}

\* The first operation of a name decides, and only when WriteOperations is nil.
IsWriteOperation(d, name) ==
    \/ name \in Elements(Listed(d.writeOps))
    \/ /\ d.writeOps = Nil
       /\ \E i \in DOMAIN d.ops :
             /\ d.ops[i].name = name
             /\ d.ops[i].isWrite
             /\ \A j \in 1 .. (i - 1) : d.ops[j].name # name

\* The names, in whatever order; Nil if the provider does not classify.
EffectiveWriteOperations(d) ==
    IF d.writeOps # Nil THEN Elements(d.writeOps)
    ELSE IF d.ops = <<>> THEN Nil
    ELSE {d.ops[i].name : i \in {k \in DOMAIN d.ops : d.ops[k].isWrite}}

Writes(d) == LET w == EffectiveWriteOperations(d) IN IF w = Nil THEN {} ELSE w

-----------------------------------------------------------------------------
(***************************************************************************)
(* The rules for a descriptor                                              *)
(***************************************************************************)

Distinct(list) == \A i, j \in DOMAIN list : list[i] = list[j] => i = j

NamesOf(ops) == [i \in DOMAIN ops |-> ops[i].name]

\* What the comments on OutputSchemas, WriteOperations, Operations,
\* ValidateDescriptor and validateOperations, and the tests of the names, ask of
\* the parts of a descriptor in relation to each other. This is not all that is
\* documented: Version and Schema are tagged required:"true", as a schema that is
\* not nil is for each output, and lists have a maxItems, of which
\* ValidateDescriptor checks nothing.
Consistent(d) ==
    /\ d.caps # <<>>
    /\ Elements(d.caps) \subseteq Capability
    /\ d.outputs # Nil
    /\ \A c \in Elements(d.caps) :
          /\ c \in DOMAIN d.outputs
          /\ \A f \in DOMAIN RequiredFields(c) :
                HasField(d.outputs[c], f, RequiredFields(c)[f])
    /\ Distinct(Listed(d.writeOps)) /\ NoName \notin Elements(Listed(d.writeOps))
    /\ Distinct(NamesOf(d.ops)) /\ NoName \notin Elements(NamesOf(d.ops))
    /\ \A o \in Elements(d.ops) : Elements(o.caps) \subseteq Elements(d.caps)
    /\ d.writeOps # Nil =>
          \A o \in Elements(d.ops) : o.isWrite <=> o.name \in Elements(d.writeOps)

=============================================================================
