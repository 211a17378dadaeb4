CONSTANTS
    a1 = a1 a2 = a2 a3 = a3 a4 = a4 a5 = a5 a6 = a6
    t1 = t1 t2 = t2 s1 = s1 s2 = s2
    Anchor = {a1, a2, a3, a4, a5}
    NoAnchor = NoAnchor
    Unserved = Unserved
    Keyless = Keyless
    Task = {t1}
    Session = {s1}
    SessionOf <- OneSession
    Text <- RepeatText
    Key <- RepeatText
    Canon <- RepeatCanon
    InitialText <- RepeatInitial
    ExternalText <- RepeatExternal
    Request <- RepeatRequest
    Blocked = FALSE
    MaxItems = 1
    MaxLine = 5
    Reversals = FALSE
    Context = 0
    Faults = {"external", "crash"}
SPECIFICATION Spec
PROPERTY LandsWhereServed
SYMMETRY AnchorSymmetry
