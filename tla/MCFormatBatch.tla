--------------------------- MODULE MCFormatBatch ---------------------------
\* A batch of two hunks formatted afterwards, for TLC: the formatter only replaces
\* whole lines, for which the map of its own edits is exact.
EXTENDS TextEdits

\* The character 0 is the newline.
MCDocs == {<<1, 0, 1, 0, 1>>, <<1, 0, 1, 0, 1, 0, 1>>}
MCChanges ==
    {{[from |-> 1, to |-> 1, count |-> m], [from |-> 3, to |-> 3, count |-> n]} : m \in 0..2, n \in 0..2}
MCAnswers == {<<[from |-> <<l, 0>>, to |-> <<l + 1, 0>>, new |-> <<2, 0>>]>> : l \in 1..3}
=============================================================================
