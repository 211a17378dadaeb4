CONSTANTS
    a1 = a1 a2 = a2 a3 = a3 a4 = a4 a5 = a5 a6 = a6
    t1 = t1 t2 = t2 s1 = s1 s2 = s2
    Anchor = {a1, a2, a3}
    NoAnchor = NoAnchor
    Unserved = Unserved
    Keyless = Keyless
    Task = {t1, t2}
    Session = {s1, s2}
    SessionOf <- TwoSessions
    Text <- MCText
    Key <- MCKey
    Canon <- MCCanon
    InitialText <- BatchInitial
    ExternalText = {}
    Request <- SharedRequest
    Blocked = FALSE
    MaxItems = 1
    MaxLine = 3
    Reversals = FALSE
    Context = 0
    Faults = {}
SPECIFICATION MCSpec
INVARIANT SharedUnique
PROPERTIES SharedEditsLand RoomyBatches
SYMMETRY RoomySymmetry
