--------------------------- MODULE MCAnchorStore ---------------------------
(***************************************************************************)
(* Instances of AnchorStore for TLC.  "b" and "B" differ in whitespace     *)
(* only: one content key.                                                  *)
(***************************************************************************)
EXTENDS AnchorStore, TLC

CONSTANTS a1, a2, a3, a4, a5, a6, t1, t2, s1, s2

MCText == {"a", "b", "B", "x"}
MCKey == {"ka", "kb", "kx"}
MCCanon == [a |-> "ka", b |-> "kb", B |-> "kb", x |-> "kx"]
OneSession == [t \in Task |-> s1]
TwoSessions == [t \in Task |-> IF t = t1 THEN s1 ELSE s2]

\* Texts of the one-edit instance: a duplicate line, an insertion above it, a
\* change of whitespace.
MCInitial == {<<"a", "b">>}
MCExternal == {<<"a", "x", "b">>, <<"b">>}
MCRequest ==
    [op : {"replace"}, from : Anchor, to : Anchor, lines : {<<>>, <<"B">>}]
        \cup {[op |-> "ins", from |-> a, to |-> a, lines |-> <<"b">>] : a \in Anchor}

\* Batches: two items of either kind on a file with a repeated line.
BatchInitial == {<<"a", "b">>}
BatchRequest ==
    [op : {"replace"}, from : Anchor, to : Anchor, lines : {<<"b">>}]
        \cup {[op |-> "ins", from |-> a, to |-> a, lines |-> <<"b">>] : a \in Anchor}

\* Two sessions on one file.
SharedRequest ==
    [op : {"replace"}, from : Anchor, to : Anchor, lines : {<<"x">>}]
        \cup {[op |-> "ins", from |-> a, to |-> a, lines |-> <<"b">>] : a \in Anchor}

\* A range given bottom up, below a line that has not been read.
ReversedInitial == {<<"a", "b", "a">>}
ReversedRequest == [op : {"replace"}, from : Anchor, to : Anchor, lines : {<<"x">>}]

\* A file that another program changed in the middle: the rows' third line is its last.
RepeatText == {"a", "b", "u", "c", "w", "x"}
RepeatCanon == [text \in RepeatText |-> text]
RepeatInitial == {<<"a", "b", "w", "c">>}
RepeatExternal == {<<"a", "b", "u", "c", "w">>}
RepeatRequest == [op : {"replace"}, from : Anchor, to : Anchor, lines : {<<"x">>}]

AnchorSymmetry == Permutations(Anchor)
=============================================================================
