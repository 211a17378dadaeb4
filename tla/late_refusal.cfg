SPECIFICATION Spec
CONSTANTS
  Region = {1, 2}
  MaxCalls = 1
  Fail = {"refuse", "late"}
CHECK_DEADLOCK FALSE
INVARIANT NeverTorn
