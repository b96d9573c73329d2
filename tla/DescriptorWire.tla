---------------------------- MODULE DescriptorWire ----------------------------
(***************************************************************************)
(* A descriptor on its way from the plugin to the host                      *)
(* (plugin/grpc_server.go): GetProviderDescriptor converts it to its        *)
(* protobuf form, the host converts that back with ProtoToDescriptor. A      *)
(* schema travels twice, as JSON (raw) and field by field; the fields are    *)
(* the fallback for JSON that cannot be made, or that the plugin, built      *)
(* before there was any, does not send.                                     *)
(*                                                                         *)
(* Of the limits of a property, maxLength stands for MaxItems and minLength *)
(* for MinItems too, and minimum for the four bounds with a Has flag. The    *)
(* rest of JSON Schema has no field and travels as JSON only.               *)
(***************************************************************************)
EXTENDS Descriptor

CONSTANTS Descriptors,  \* the descriptors of providers that are considered
          Half,         \* 2^31: int32 holds -Half .. Half - 1
          Bad,          \* a value that json.Marshal refuses
          Garbled,      \* bytes that json.Unmarshal makes no schema of
          MarshalError, \* the text "<marshal error>"
          Refused,      \* the error of ProtoToDescriptor
          BadVersion    \* a version that is not semver

ASSUME WireAssumption ==
    /\ Half \in Nat \ {0}
    /\ Refused # Nil
    /\ Garbled # Nil
    /\ \A d \in Descriptors :
          /\ d.version # BadVersion
          /\ HasCapabilities(d) /\ HasOperations(d) /\ HasSchema(d)
          /\ d.schema # Garbled
          /\ d.outputs # Nil => \A c \in DOMAIN d.outputs : d.outputs[c] # Garbled

VARIABLES
    desc,   \* the descriptor of the plugin's provider
    wire,   \* its protobuf form as the host gets it, or Nil
    host    \* what ProtoToDescriptor returns, Nil before, Refused if it fails

vars == <<desc, wire, host>>

Init ==
    /\ desc \in Descriptors
    /\ wire = Nil
    /\ host = Nil

-----------------------------------------------------------------------------
(***************************************************************************)
(* Schemas to the wire                                                     *)
(***************************************************************************)

\* Go's conversion of an int to int32.
ToInt32(n) == ((n + Half) % (2 * Half)) - Half

LimitToProto(limit) == IF limit = Nil THEN 0 ELSE ToInt32(limit)

Marshals(v) == v # Bad

\* The values of a list that json.Marshal takes, in their order (SelectSeq,
\* written out for the provers).
MarshalledValues(list) ==
    LET kept == {i \in DOMAIN list : Marshals(list[i])}
        Nth(n) == CHOOSE i \in kept : Cardinality({j \in kept : j <= i}) = n
    IN  [n \in 1 .. Cardinality(kept) |-> list[Nth(n)]]

ParamToProto(p, required) ==
    [type |-> p.type, required |-> required,
     maxLength |-> LimitToProto(p.maxLength), minLength |-> LimitToProto(p.minLength),
     minimum |-> IF p.minimum = Nil THEN 0 ELSE p.minimum,
     hasMinimum |-> p.minimum # Nil,
     default |-> IF Marshals(p.default) THEN p.default ELSE MarshalError,
     enum |-> MarshalledValues(p.enum)]

FieldsOf(s) == [f \in DOMAIN s.props |-> ParamToProto(s.props[f], f \in s.required)]

ASSUME FieldsAssumption ==
    \A d \in Descriptors : d.schema # Nil => FieldsOf(d.schema) # Nil

\* A schema without properties is not sent, nor are required names that are
\* not properties.
SchemaToProto(s) ==
    IF s = Nil THEN Nil
    ELSE IF DOMAIN s.props = {} THEN Nil
    ELSE FieldsOf(s)

SchemaMarshals(s) ==
    \A f \in DOMAIN s.props :
        Marshals(s.props[f].default) /\ \A v \in Elements(s.props[f].enum) : Marshals(v)

\* json.Marshal of a schema; Nil if there is none or it fails.
MarshalSchema(s) == IF s # Nil /\ SchemaMarshals(s) THEN s ELSE Nil

\* The entries of a map that are there.
Present(map) == [c \in {e \in DOMAIN map : map[e] # Nil} |-> map[c]]

-----------------------------------------------------------------------------
(***************************************************************************)
(* Schemas from the wire                                                   *)
(***************************************************************************)

\* Mutants: the guard on a limit is missing; a minimum of 0 counts as unset.
LimitUnguarded(n) == n
PositiveMinimum(p) == IF p.minimum > 0 THEN p.minimum ELSE Nil

LimitFromProto(n) == IF n > 0 THEN n ELSE Nil

MinimumFromProto(p) == IF p.hasMinimum THEN p.minimum ELSE Nil

ProtoParamToJSON(p) ==
    [type |-> p.type,
     maxLength |-> LimitFromProto(p.maxLength), minLength |-> LimitFromProto(p.minLength),
     minimum |-> MinimumFromProto(p),
     default |-> p.default,
     enum |-> p.enum]

ProtoSchemaToJSON(ps) ==
    [type |-> "object",
     props |-> [f \in DOMAIN ps |-> ProtoParamToJSON(ps[f])],
     required |-> {f \in DOMAIN ps : ps[f].required}]

\* json.Unmarshal of what MarshalSchema, or another plugin, made; Nil if there
\* is nothing or it fails.
UnmarshalSchema(raw) == IF raw = Garbled THEN Nil ELSE raw

UnmarshalSchemaOrFallback(raw, ps) ==
    IF UnmarshalSchema(raw) # Nil THEN UnmarshalSchema(raw)
    ELSE IF ps # Nil THEN ProtoSchemaToJSON(ps)
    ELSE Nil

\* Mutant: the JSON form is used only where there is no other.
FieldsFirst(raws, pss) ==
    IF DOMAIN pss # {} THEN [c \in DOMAIN pss |-> ProtoSchemaToJSON(pss[c])]
    ELSE IF DOMAIN raws # {} THEN raws
    ELSE Nil

\* All schemas in JSON, without those that do not parse, if any is sent; or all
\* field by field.
UnmarshalOutputSchemas(raws, pss) ==
    IF DOMAIN raws # {} THEN Present([c \in DOMAIN raws |-> UnmarshalSchema(raws[c])])
    ELSE IF DOMAIN pss # {} THEN [c \in DOMAIN pss |-> ProtoSchemaToJSON(pss[c])]
    ELSE Nil

-----------------------------------------------------------------------------
(***************************************************************************)
(* Descriptors                                                             *)
(***************************************************************************)

\* Mutant: whether an operation writes is not sent.
WritesNotSent(ops) ==
    [i \in DOMAIN ops |-> [name |-> ops[i].name, isWrite |-> FALSE, caps |-> ops[i].caps,
                           schema |-> MarshalSchema(ops[i].schema)]]

\* Operations keep everything but a schema that cannot be marshalled.
OperationsToProto(ops) ==
    [i \in DOMAIN ops |-> [name |-> ops[i].name, isWrite |-> ops[i].isWrite,
                           caps |-> ops[i].caps,
                           schema |-> MarshalSchema(ops[i].schema)]]

\* Operations lose a schema that does not parse.
ProtoToOperations(ops) ==
    [i \in DOMAIN ops |-> [name |-> ops[i].name, isWrite |-> ops[i].isWrite,
                           caps |-> ops[i].caps,
                           schema |-> UnmarshalSchema(ops[i].schema)]]

OutputsToProto(outputs) ==
    Present([c \in DOMAIN Listed(outputs) |-> SchemaToProto(outputs[c])])

MarshalOutputs(outputs) ==
    Present([c \in DOMAIN Listed(outputs) |-> MarshalSchema(outputs[c])])

\* protobuf sends an empty list and a missing one alike, as nothing, and
\* nothing comes back as nil.
OnTheWire(list) == Listed(list)
OffTheWire(list) == IF list = <<>> THEN Nil ELSE list

DescriptorToProto(d) ==
    [version |-> d.version,
     caps |-> d.caps,
     writeOps |-> OnTheWire(d.writeOps),
     ops |-> OperationsToProto(d.ops),
     schema |-> SchemaToProto(d.schema),
     raw |-> MarshalSchema(d.schema),
     outputs |-> OutputsToProto(d.outputs),
     rawOutputs |-> MarshalOutputs(d.outputs)]

ProtoToDescriptor(pd) ==
    IF pd.version = BadVersion THEN Refused
    ELSE [version |-> pd.version,
          caps |-> pd.caps,
          writeOps |-> OffTheWire(pd.writeOps),
          ops |-> ProtoToOperations(pd.ops),
          schema |-> UnmarshalSchemaOrFallback(pd.raw, pd.schema),
          outputs |-> UnmarshalOutputSchemas(pd.rawOutputs, pd.outputs)]

-----------------------------------------------------------------------------
(***************************************************************************)
(* The two ends                                                            *)
(***************************************************************************)

GetProviderDescriptor ==
    /\ wire = Nil
    /\ wire' = DescriptorToProto(desc)
    /\ UNCHANGED <<desc, host>>

\* What a plugin that is not built with this SDK sends: any version, and for the
\* JSON of its schemas nothing, or bytes that do not parse.
ForeignForm(d, version, raw) ==
    LET pd == DescriptorToProto(d)
    IN  [pd EXCEPT !.version = version,
                   !.raw = raw,
                   !.rawOutputs = Present([c \in DOMAIN pd.rawOutputs |-> raw]),
                   !.ops = [i \in DOMAIN d.ops |-> [pd.ops[i] EXCEPT !.schema = raw]]]

GetForeignDescriptor ==
    /\ wire = Nil
    /\ \E v \in {desc.version, BadVersion}, raw \in {Nil, Garbled} :
          wire' = ForeignForm(desc, v, raw)
    /\ UNCHANGED <<desc, host>>

ReceiveDescriptor ==
    /\ wire # Nil
    /\ host = Nil
    /\ host' = ProtoToDescriptor(wire)
    /\ UNCHANGED <<desc, wire>>

Next == GetProviderDescriptor \/ GetForeignDescriptor \/ ReceiveDescriptor

Spec == Init /\ [][Next]_vars

Received == host # Nil /\ host # Refused

-----------------------------------------------------------------------------
(***************************************************************************)
(* Properties                                                              *)
(***************************************************************************)

\* The descriptors somebody may ask about operations.
Known == {desc} \union (IF Received THEN {host} ELSE {})

\* The loops of ValidateDescriptor and validateOperations, with the entries they
\* pass over, the last of a name that wins in their map and the one that stops
\* early, report an error of exactly the descriptors that break a rule of
\* Consistent: no unnamed, repeated or contradicting entry slips through behind
\* another, and none is reported that is not there.
AcceptsTheConsistent == Accepted(desc) <=> Consistent(desc)

\* For a descriptor that ValidateDescriptor accepts, on either side of the
\* wire, IsWriteOperation and EffectiveWriteOperations agree on every name,
\* whichever of the two lists the provider fills in.
WritesAgree ==
    \A d \in Known : Accepted(d) =>
        \A n \in Names : IsWriteOperation(d, n) <=> n \in Writes(d)

\* The host classifies the operations of an accepted descriptor as the plugin
\* does, although the wire does not tell a nil WriteOperations from an empty
\* one and the host may have to fall back to Operations.
WritesKept ==
    Received /\ Accepted(desc) =>
        \A n \in Names :
            /\ IsWriteOperation(host, n) <=> IsWriteOperation(desc, n)
            /\ n \in Writes(host) <=> n \in Writes(desc)

\* A descriptor that the plugin finds valid is valid for the host too, if every
\* output schema is there and can be marshalled.
StaysValid ==
    /\ Received /\ wire = DescriptorToProto(desc)
    /\ Accepted(desc)
    /\ \A c \in DOMAIN desc.outputs : MarshalSchema(desc.outputs[c]) # Nil
    => Accepted(host)

\* What the fields of the protobuf form can express.
Expressible(s) ==
    /\ s.type = "object" /\ DOMAIN s.props # {} /\ s.required \subseteq DOMAIN s.props
    /\ SchemaMarshals(s)
    /\ \A f \in DOMAIN s.props :
          {s.props[f].maxLength, s.props[f].minLength}
              \subseteq {Nil} \union 1 .. (Half - 1)

\* An input schema that the fields can express is the same at the host even when
\* it is rebuilt from them: limits, bounds, defaults, values and what is
\* required.
FallbackExact ==
    Received /\ desc.schema # Nil =>
        (Expressible(desc.schema) => host.schema = desc.schema)

AtMost(a, b) == b = Nil \/ (a # Nil /\ b # Nil /\ a <= b)
AtLeast(a, b) == b = Nil \/ (a # Nil /\ b # Nil /\ b <= a)

\* Whatever satisfies s satisfies t.
NoStricter(t, s) ==
    /\ t.required \subseteq s.required
    /\ \A f \in DOMAIN t.props :
          LET p == s.props[f]
              q == t.props[f]
          IN  /\ p.type = q.type
              /\ AtMost(p.maxLength, q.maxLength)
              /\ AtLeast(p.minLength, q.minLength)
              /\ AtLeast(p.minimum, q.minimum)
              /\ \/ q.enum = <<>>
                 \/ p.enum # <<>> /\ Elements(p.enum) \subseteq Elements(q.enum)

\* Other schemas lose constraints in the fallback and never gain one, so the
\* host refuses no input the plugin accepts: limits of 0, from 2^31, unknown
\* required names are dropped. Excepted are limits from 2^32 or below -2^31,
\* which wrap to others, and lists of values of which some cannot be marshalled.
FallbackNeverStricter ==
    Received /\ desc.schema # Nil /\ host.schema # Nil =>
        LET s == desc.schema
        IN  (\A f \in DOMAIN s.props :
                /\ s.props[f].maxLength = Nil \/ s.props[f].maxLength < 2 * Half
                /\ s.props[f].minLength = Nil \/ s.props[f].minLength >= -Half
                /\ \A v \in Elements(s.props[f].enum) : Marshals(v))
            => NoStricter(host.schema, s)

\* "Returns nil only when neither field is populated, preserving the documented
\* nil versus empty distinction" (provider/provider.go:218): a provider that
\* says all of its operations read, with an empty WriteOperations, says so to
\* the host as well. The wire cannot carry it.
AllReadsReachesHost ==
    Received /\ EffectiveWriteOperations(desc) # Nil => EffectiveWriteOperations(host) # Nil

=============================================================================
