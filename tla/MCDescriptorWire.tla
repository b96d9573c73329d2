--------------------------- MODULE MCDescriptorWire ---------------------------
(* The descriptors TLC looks at: three families, each varying one part, and one
   without a version. *)
EXTENDS DescriptorWire

CONSTANTS a, b, v1, Semver

MCNames == {a, b}

\* Sequences of at most two elements.
UpToTwo(S) == {<<>>} \union {<<x>> : x \in S} \union {<<x, y>> : x, y \in S}

Object(props, required) == [type |-> "object", props |-> props, required |-> required]

InputProps ==
    [type : {"string"}, maxLength : {Nil, 0, 1, 3, 4, 7, 9}, minLength : {Nil, -5, 0, 2, 4, 9},
     minimum : {Nil, 0, 1}, default : {Nil, v1, Bad},
     enum : {<<>>, <<v1>>, <<v1, Bad>>, <<Bad>>}]

InputSchemas ==
    {Nil, Object(<<>>, {})}
    \union {Object([f |-> p], r) : p \in InputProps, r \in {{}, {"f"}, {"f", "h"}}}

Operations ==
    [name : {a, b, NoName}, isWrite : BOOLEAN, caps : {<<>>, <<"action">>}, schema : {Nil}]

OutputSchemas ==
    {Nil, EmptySchema("from"), DefaultSchema("action"), DefaultSchema("authentication"),
     Object([success |-> TypeOnly("string")], {}),
     Object([success |-> [TypeOnly("boolean") EXCEPT !.default = Bad]], {})}

Plain ==
    [version |-> Semver, caps |-> <<"from">>, outputs |-> DefaultOutputSchemas({"from"}),
     schema |-> Nil, writeOps |-> Nil, ops |-> <<>>]

ByOperations ==
    {[Plain EXCEPT !.writeOps = w, !.ops = o] :
        w \in {Nil} \union UpToTwo({a, b, NoName}), o \in UpToTwo(Operations)}
    \union {[Plain EXCEPT !.ops =
                <<[name |-> a, isWrite |-> w, caps |-> <<"from", c>>, schema |-> s]>>] :
               w \in BOOLEAN, c \in {"from", "unknown"}, s \in OutputSchemas}

BySchema == {[Plain EXCEPT !.schema = s] : s \in InputSchemas}

ByOutputs ==
    {[Plain EXCEPT !.caps = c, !.outputs = o] :
        c \in {<<>>, <<"action">>, <<"from", "action">>, <<"unknown", "from">>,
               <<"authentication", "action">>, <<"validation">>},
        o \in {Nil} \union UNION {[S -> OutputSchemas] :
                 S \in {{}, {"from"}, {"action"}, {"from", "action"},
                        {"authentication", "action"}}}}

Unversioned == {[Plain EXCEPT !.version = Nil, !.schema = Object(<<>>, {})]}

MCDescriptors == ByOperations \union BySchema \union ByOutputs \union Unversioned

=============================================================================
