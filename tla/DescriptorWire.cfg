\* Three families of descriptors; an int32 of three bits.
CONSTANTS
    a = a
    b = b
    v1 = v1
    Semver = Semver
    Names <- MCNames
    NoName = NoName
    Nil = Nil
    Descriptors <- MCDescriptors
    Half = 4
    Bad = Bad
    Garbled = Garbled
    MarshalError = MarshalError
    Refused = Refused
    BadVersion = BadVersion
SPECIFICATION Spec
INVARIANTS
    AcceptsTheConsistent
    WritesAgree
    WritesKept
    StaysValid
    FallbackExact
    FallbackNeverStricter
CHECK_DEADLOCK FALSE
