SPECIFICATION Spec
CHECK_DEADLOCK FALSE
CONSTANTS
    Anchor = {1, 2, 3, 4, 5, 6, 7, 8, 9}
    Texts <- SomeTexts
    Items <- SomeItems
    Context = 1
    MaxSteps = 2
INVARIANT OnlyServedAlways
