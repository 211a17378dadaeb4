CONSTANTS
    a1 = a1 a2 = a2 a3 = a3 a4 = a4 a5 = a5 a6 = a6
    t1 = t1 t2 = t2 s1 = s1 s2 = s2
    Anchor = {a1, a2, a3}
    NoAnchor = NoAnchor
    Unserved = Unserved
    Keyless = Keyless
    Task = {t1}
    Session = {s1}
    SessionOf <- OneSession
    Text <- MCText
    Key <- MCKey
    Canon <- MCCanon
    InitialText <- BatchInitial
    ExternalText = {}
    Request <- BatchRequest
    Blocked = FALSE
    MaxItems = 2
    MaxLine = 4
    Reversals = FALSE
    Context = 0
    Faults = {"crash"}
SPECIFICATION Spec
INVARIANTS BatchKeepsUntouched ReleaseIsComplete
PROPERTIES BatchLandsWhereServed
SYMMETRY AnchorSymmetry
