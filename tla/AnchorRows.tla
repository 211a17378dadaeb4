----------------------------- MODULE AnchorRows -----------------------------
(***************************************************************************)
(* The pure layer of the hashline editor: what one call does to the anchor *)
(* rows of one file (domain/session/anchor-state.ts, anchor-entry.ts,      *)
(* hashline/alloc.ts, hashline/align-bounded.ts).  A file is a sequence of *)
(* texts; `anchor_lines' is a partial function from 1-based line numbers   *)
(* to rows; a call maps a store [text, rows] to the set of stores the code *)
(* can leave behind.                                                       *)
(*                                                                         *)
(* Abstractions.  A text is a model value and Canon gives its content key; *)
(* cyrb53 and the truncated sha256 fingerprint are both functions of the   *)
(* canonical line, so one Key stands for the two and collisions are left   *)
(* out.  A checksum plus line count is the text itself; <<>> stands for a  *)
(* file without a meta row.  An anchor is a model value: the allocator may *)
(* hand out any anchor outside its avoid-set, so what holds here holds for *)
(* every hash function and probe order.                                    *)
(***************************************************************************)
EXTENDS Integers, Sequences, FiniteSets, Functions, FiniteSetsExt

CONSTANTS
    Text,      \* the lines a file can hold
    Key,       \* content keys
    Canon,     \* the key of each text (whitespace is folded: not injective)
    Anchor,    \* the anchor alphabet
    NoAnchor,  \* the "" of a line without a row
    Blocked    \* TRUE: a changed middle may exceed the bounded aligner's budget

ASSUME CanonAssumption == Canon \in [Text -> Key]
ASSUME NoAnchorAssumption == NoAnchor \notin Anchor
ASSUME BlockedAssumption == Blocked \in BOOLEAN

Row == [anchor : Anchor, key : Key]
NoRows == [i \in {} |-> CHOOSE r \in Row : TRUE]
Lines(c) == 1 .. Len(c)
KeysOfText(c) == [i \in Lines(c) |-> Canon[c[i]]]
KeysOfRows(rows) == [i \in DOMAIN rows |-> rows[i].key]

Live(rows) == {rows[i].anchor : i \in DOMAIN rows}

\* One anchor names at most one line: the allocator's invariant.
Unique(rows) ==
    \A i, j \in DOMAIN rows : rows[i].anchor = rows[j].anchor => i = j

\* Mutant of Heal: nothing is repaired.
Unhealed(rows) == rows

\* The state-entry gate's repair: of the rows that repeat an anchor, the first
\* by line is kept.
Heal(rows) ==
    Restrict(rows, {i \in DOMAIN rows :
        \A j \in DOMAIN rows : j < i => rows[j].anchor # rows[i].anchor})

-----------------------------------------------------------------------------
(***************************************************************************)
(* alignPreservedBounded: a set of pairs <<new line, old line>>.  `old'    *)
(* and `new' are functions on sets of line numbers (a segment of a file,   *)
(* or the lines that have a row); positions in them are ranks.             *)
(***************************************************************************)
Rank(S, i) == Cardinality({k \in S : k <= i})
RankFromEnd(S, i) == Cardinality({k \in S : k >= i})

Matches(old, new) ==
    {x \in (DOMAIN new) \X (DOMAIN old) : new[x[1]] = old[x[2]]}
SameRank(old, new) ==
    {x \in (DOMAIN new) \X (DOMAIN old) :
        Rank(DOMAIN new, x[1]) = Rank(DOMAIN old, x[2])}
SameRankFromEnd(old, new) ==
    {x \in (DOMAIN new) \X (DOMAIN old) :
        RankFromEnd(DOMAIN new, x[1]) = RankFromEnd(DOMAIN old, x[2])}

\* The common prefix strip.
SharedHead(old, new) ==
    {x \in SameRank(old, new) :
        \A y \in SameRank(old, new) : y[1] <= x[1] => new[y[1]] = old[y[2]]}

\* The common suffix strip, which stops where the prefix ended.
SharedTail(old, new) ==
    LET head == SharedHead(old, new)
    IN  {x \in SameRankFromEnd(old, new) :
            \A y \in SameRankFromEnd(old, new) :
                y[1] >= x[1] => /\ new[y[1]] = old[y[2]]
                                /\ \A z \in head : z[1] # y[1] /\ z[2] # y[2]}

IsPairing(R) == \A x, y \in R : (x[1] = y[1]) <=> (x[2] = y[2])
IsChain(R) == \A x, y \in R : (x[1] < y[1]) <=> (x[2] < y[2])

\* The strips plus a pairing of the middle: a longest common subsequence when
\* the table fits the budget.  Past it (the texts are small here, so any of them may
\* stand for one that is too large) the blocked aligner pairs similar blocks greedily,
\* so blocks may cross, and gives up (no pair at all, the strips included) when it
\* keeps too little.
Alignments(old, new) ==
    LET trim == SharedHead(old, new) \cup SharedTail(old, new)
        middle == {x \in Matches(old, new) : IsPairing(trim \cup {x})} \ trim
        pairings == {R \in {trim \cup mid : mid \in SUBSET middle} : IsPairing(R)}
        chains == {R \in pairings : IsChain(R)}
        trimmedAway == \/ Cardinality(trim) = Cardinality(DOMAIN old)
                       \/ Cardinality(trim) = Cardinality(DOMAIN new)
        exact == {R \in chains : \A Q \in chains : Cardinality(Q) <= Cardinality(R)}
    IN  IF Blocked /\ ~trimmedAway THEN exact \cup (pairings \ {trim}) \cup {{}} ELSE exact

\* The rows a pairing carries to their new lines.
Carry(R, rows) ==
    [i \in {x[1] : x \in {y \in R : y[2] \in DOMAIN rows}} |->
        rows[CHOOSE k \in DOMAIN rows : <<i, k>> \in R]]

-----------------------------------------------------------------------------
\* ensureStateAt: heal repeated anchors, then realign the rows by content key
\* when they were written for another text.
EnsureState(st, c) ==
    LET kept == Heal(st.rows)
    IN  IF st.text = <<>> THEN {[text |-> c, rows |-> NoRows]}
        ELSE IF st.text = c THEN {[text |-> c, rows |-> kept]}
        ELSE {[text |-> c, rows |-> Carry(R, kept)] :
                R \in Alignments(KeysOfRows(kept), KeysOfText(c))}

\* What ensureStateAt has written by the time a later step of the call throws: a
\* file without a meta row stays without one.
Ensured(st, c) == IF st.text = <<>> THEN {st} ELSE EnsureState(st, c)

\* anchorsFor: the rows projected onto a text's lines, whatever text they were
\* written for.
AnchorsFor(rows, c) ==
    [i \in Lines(c) |-> IF i \in DOMAIN rows THEN rows[i].anchor ELSE NoAnchor]

\* Mutant of Mints: the avoid-set is not consulted.
MintsAny(L, avoid) == Injection(L, Anchor)

\* allocateInto: distinct anchors for the lines L, none of them in `avoid'.
Mints(L, avoid) == Injection(L, Anchor \ avoid)

Overlay(rows, mint, c) ==
    [i \in (DOMAIN rows) \cup (DOMAIN mint) |->
        IF i \in DOMAIN mint THEN [anchor |-> mint[i], key |-> Canon[c[i]]]
        ELSE rows[i]]

\* anchorFor: reuse a line's anchor when its row still carries the line's key,
\* mint for the other lines of W against the live rows and the release pool.
AnchorFor(st, c, W, pool) ==
    UNION {LET misses == {i \in W : ~ /\ i \in DOMAIN ens.rows
                                      /\ ens.rows[i].key = Canon[c[i]]}
           IN  {[text |-> c, rows |-> Overlay(ens.rows, mint, c)] :
                    mint \in Mints(misses, Live(ens.rows) \cup pool)} :
           ens \in EnsureState(st, c)}

-----------------------------------------------------------------------------
RowsNaming(rows, a) == {i \in DOMAIN rows : rows[i].anchor = a}

\* byAnchor of probeLines: the last row inserted wins.
NamedLine(rows, a) == Max(RowsNaming(rows, a))

\* Mutants of ProbeLine: the session's record is not consulted; the row's key is
\* not compared with the text.
ProbeText(rows, seen, c, a, claimed) ==
    IF RowsNaming(rows, a) = {} THEN {claimed}
    ELSE {i \in RowsNaming(rows, a) : i = NamedLine(rows, a) /\ rows[i].key # Canon[c[i]]}
ProbeRecord(rows, seen, c, a, claimed) ==
    IF RowsNaming(rows, a) = {} THEN {claimed}
    ELSE {i \in RowsNaming(rows, a) : i = NamedLine(rows, a) /\ seen[a] # rows[i].key}

\* One reference of probeLines: an anchor without a row is bad at the line it
\* was claimed for; an anchor with one is bad at its row's line unless the line
\* still has the row's key and the session was shown that very binding.
ProbeLine(rows, seen, c, a, claimed) ==
    IF RowsNaming(rows, a) = {} THEN {claimed}
    ELSE {i \in RowsNaming(rows, a) :
            /\ i = NamedLine(rows, a)
            /\ ~ (rows[i].key = Canon[c[i]] /\ seen[a] = rows[i].key)}

\* Mutant of ProbeLines: only the range's bounds are probed.
ProbeBounds(rows, seen, c, h, L) ==
    UNION {ProbeLine(rows, seen, c, h[i], i) : i \in {Min(L), Max(L)}}

ProbeLines(rows, seen, c, h, L) ==
    UNION {ProbeLine(rows, seen, c, h[i], i) : i \in L}

\* A named row beyond the end of the text: currentLines[line - 1] is undefined
\* and contentKey throws.
ProbeThrows(rows, c, h, L) ==
    \E i \in L : RowsNaming(rows, h[i]) # {} /\ NamedLine(rows, h[i]) > Len(c)

-----------------------------------------------------------------------------
(***************************************************************************)
(* updateAnchorsAfterEdit.  A hunk replaces the old lines                  *)
(* oldFrom .. oldTo by the new lines newFrom .. newTo (either may be       *)
(* empty).  `oldAnchors' is the caller's projection, which seeds lines     *)
(* that have no row after the realign.                                     *)
(***************************************************************************)
Segment(c, from, to) == [i \in (from .. to) \cap Lines(c) |-> c[i]]

InHunk(hunks, i) == \E k \in hunks : i \in k.oldFrom .. k.oldTo

\* Mutant of NewPosition: rows below a hunk stay where they were.
PositionUnshifted(hunks, i) == i

\* Where an untouched line lands: shifted by the hunks above it.
NewPosition(hunks, i) ==
    LET above == {k \in hunks : k.oldTo < i}
    IN  i + Cardinality(UNION {k.newFrom .. k.newTo : k \in above})
          - Cardinality(UNION {k.oldFrom .. k.oldTo : k \in above})

\* Mutant of Seed: lines without an anchor are seeded too.
SeedAll(rows, old, oldAnchors) ==
    [i \in (DOMAIN rows) \cup Lines(old) |->
        IF i \in DOMAIN rows THEN rows[i]
        ELSE [anchor |-> oldAnchors[i], key |-> Canon[old[i]]]]

Seed(rows, old, oldAnchors) ==
    LET bare == {i \in Lines(old) \ (DOMAIN rows) : oldAnchors[i] # NoAnchor}
    IN  [i \in (DOMAIN rows) \cup bare |->
            IF i \in DOMAIN rows THEN rows[i]
            ELSE [anchor |-> oldAnchors[i], key |-> Canon[old[i]]]]

\* One alignment per hunk, of its texts.
HunkPairings(old, new, hunks) ==
    LET of(k) == Alignments(Segment(old, k.oldFrom, k.oldTo),
                            Segment(new, k.newFrom, k.newTo))
    IN  {UNION {f[k] : k \in hunks} :
            f \in {f \in [hunks -> UNION {of(k) : k \in hunks}] :
                    \A k \in hunks : f[k] \in of(k)}}

\* The transform for one choice of realign and pairing: survivors inside the
\* hunks keep their rows, lines outside shift, the hunks' other new lines mint.
Transformed(ens, old, new, oldAnchors, hunks, used, survivors) ==
    LET seeded == Seed(ens.rows, old, oldAnchors)
        outside == {i \in DOMAIN seeded : ~InHunk(hunks, i)}
        lost == {i \in (DOMAIN seeded) \ outside : \A x \in survivors : x[2] # i}
        carried == Carry(survivors \cup {<<NewPosition(hunks, i), i>> : i \in outside},
                         seeded)
        fresh == {i \in Lines(new) : /\ \E k \in hunks : i \in k.newFrom .. k.newTo
                                     /\ \A x \in survivors : x[1] # i}
    IN  {[store |-> [text |-> new, rows |-> Overlay(carried, mint, new)],
          dropped |-> {seeded[i].anchor : i \in lost}] :
            mint \in Mints(fresh, used \cup Live(carried))}

\* The rows already reflect `new': nothing moves and nothing is dropped.
UpdateAnchorsAfterEdit(st, old, new, oldAnchors, hunks, used) ==
    IF st.text = new THEN {[store |-> st, dropped |-> {}]}
    ELSE UNION {UNION {Transformed(ens, old, new, oldAnchors, hunks, used, survivors) :
                        survivors \in HunkPairings(old, new, hunks)} :
                ens \in EnsureState(st, old)}

-----------------------------------------------------------------------------
\* assemble: lines lo .. hi of c replaced by `lines'.
Splice(c, lo, hi, lines) ==
    LET growth == Len(lines) - (hi - lo + 1)
    IN  [i \in 1 .. (Len(c) + growth) |->
            IF i < lo THEN c[i]
            ELSE IF i < lo + Len(lines) THEN lines[i - lo + 1]
            ELSE c[i - growth]]

\* The lines of `new' the edit response serves: everything from the first to the
\* last differing line, widened by pad.
DiffWindow(old, new, pad) ==
    LET short == Min({Len(old), Len(new)})
        differing == {i \in 1 .. short : old[i] # new[i]}
        first == Min(differing \cup {short + 1})
        common == {k \in 0 .. (short - first) :
                    \A j \in 0 .. k : old[Len(old) - j] = new[Len(new) - j]}
        last == Max({first, Len(new) - Cardinality(common)})
    IN  IF old = new THEN {}
        ELSE {i \in Lines(new) : first - pad <= i /\ i <= last + pad}
=============================================================================
