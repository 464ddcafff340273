CONSTANTS
    Clients = {c1, c2}
    u1 = u1 u2 = u2 u3 = u3 u4 = u4 u5 = u5
    k1 = k1 k2 = k2 k3 = k3 k4 = k4
    Utterances = {u1, u2, u3, u4, u5}
    Keys = {k1, k2, k3, k4}
    KeyOf <- MCKeyOf
    BytesOf <- MCBytesOf
    MaxBytes = 5
    Nothing = Nothing
    MaxLookups = 8
SPECIFICATION Spec
INVARIANTS ListMatchesMap ByteAccounting
PROPERTIES RecencySpec
CHECK_DEADLOCK FALSE
