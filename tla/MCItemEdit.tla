----------------------------- MODULE MCItemEdit -----------------------------
\* A replacement from an anchor to the line with a number, for TLC.
EXTENDS ItemEdit

SomeTexts == {<<1, 0, 2, 0, 1, 0>>}
SomeItems == {[op |-> "replace", lines |-> <<<<2>>>>, claim |-> NoClaim,
               from |-> [anchor |-> a, digit |-> 0, hint |-> 0],
               to |-> [anchor |-> 0, digit |-> d, hint |-> 0]] : a \in {1, 2}, d \in {2, 3}}
=============================================================================
