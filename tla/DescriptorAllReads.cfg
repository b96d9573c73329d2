\* The same descriptors.
CONSTANTS
    a = a
    b = b
    v1 = v1
    Semver = Semver
    Names <- MCNames
    NoName = NoName
    Nil = Nil
    Descriptors <- MCDescriptors
    Half = 4
    Bad = Bad
    Garbled = Garbled
    MarshalError = MarshalError
    Refused = Refused
    BadVersion = BadVersion
SPECIFICATION Spec
INVARIANT AllReadsReachesHost
CHECK_DEADLOCK FALSE
