------------------------- MODULE AnchorStore_proofs -------------------------
(***************************************************************************)
(* Theorems about AnchorStore, for every value of its constants: first the *)
(* lemmas about the operators of AnchorRows, then the theorems of calls    *)
(* with any number of items, then what a batch releases and where its      *)
(* items land.                                                             *)
(***************************************************************************)
EXTENDS AnchorStore, FiniteSetTheorems, WellFoundedInduction, SequenceTheorems, TLAPS

-----------------------------------------------------------------------------
\* The operators of AnchorRows.

\* A finite non-empty set of integers has a least element, and Min denotes it:
\* of the sets {y \in S : y <= x}, one is minimal for inclusion.
LEMMA MinInt ==
    ASSUME NEW S \in SUBSET Int, IsFiniteSet(S), S # {}
    PROVE  Min(S) \in S /\ \A y \in S : Min(S) <= y
<1> DEFINE Down(x) == {y \in S : y <= x}
           T == {Down(x) : x \in S}
<1>1. T \subseteq FiniteSubsetsOf(S) /\ T # {}
      <2>1. \A x \in S : Down(x) \in FiniteSubsetsOf(S)
            <3> TAKE x \in S
            <3>1. Down(x) \in SUBSET S
                  OBVIOUS
            <3> HIDE DEF Down
            <3> QED BY <3>1, FS_Subset DEF FiniteSubsetsOf
      <2> HIDE DEF Down
      <2> QED BY <2>1
<1>2. PICK D \in T : \A E \in T : ~(<<E, D>> \in StrictSubsetOrdering(S))
      <2> HIDE DEF T
      <2> QED BY <1>1, FS_StrictSubsetOrderingWellFounded, WFMin
<1>3. PICK x \in S : D = Down(x)
      OBVIOUS
<1>4. \A y \in S : ~(y < x)
      <2> SUFFICES ASSUME NEW y \in S, y < x
                   PROVE  FALSE
          OBVIOUS
      <2>0. \A z \in S : z \in Int
            OBVIOUS
      <2>1. Down(y) \subseteq Down(x)
            <3> SUFFICES ASSUME NEW z \in Down(y)
                         PROVE  z \in Down(x)
                OBVIOUS
            <3>1. x \in Int /\ y \in Int /\ z \in Int
                  BY <2>0
            <3> QED BY <3>1
      <2>2. x \in Down(x) /\ x \notin Down(y)
            OBVIOUS
      <2>3. Down(y) \in T
            OBVIOUS
      <2>4. Down(x) \subseteq S
            OBVIOUS
      <2> HIDE DEF Down, T
      <2> QED BY <1>2, <1>3, <2>4, <2>1, <2>2, <2>3 DEF StrictSubsetOrdering
<1>5. \A y \in S : x <= y
      BY <1>4
<1> HIDE DEF T
<1> QED BY <1>5 DEF Min

\* The same for Max.
LEMMA MaxInt ==
    ASSUME NEW S \in SUBSET Int, IsFiniteSet(S), S # {}
    PROVE  Max(S) \in S /\ \A y \in S : Max(S) >= y
<1> DEFINE Up(x) == {y \in S : y >= x}
           T == {Up(x) : x \in S}
<1>1. T \subseteq FiniteSubsetsOf(S) /\ T # {}
      <2>1. \A x \in S : Up(x) \in FiniteSubsetsOf(S)
            <3> TAKE x \in S
            <3>1. Up(x) \in SUBSET S
                  OBVIOUS
            <3> HIDE DEF Up
            <3> QED BY <3>1, FS_Subset DEF FiniteSubsetsOf
      <2> HIDE DEF Up
      <2> QED BY <2>1
<1>2. PICK D \in T : \A E \in T : ~(<<E, D>> \in StrictSubsetOrdering(S))
      <2> HIDE DEF T
      <2> QED BY <1>1, FS_StrictSubsetOrderingWellFounded, WFMin
<1>3. PICK x \in S : D = Up(x)
      OBVIOUS
<1>4. \A y \in S : ~(y > x)
      <2> SUFFICES ASSUME NEW y \in S, y > x
                   PROVE  FALSE
          OBVIOUS
      <2>0. \A z \in S : z \in Int
            OBVIOUS
      <2>1. Up(y) \subseteq Up(x)
            <3> SUFFICES ASSUME NEW z \in Up(y)
                         PROVE  z \in Up(x)
                OBVIOUS
            <3>1. x \in Int /\ y \in Int /\ z \in Int
                  BY <2>0
            <3> QED BY <3>1
      <2>2. x \in Up(x) /\ x \notin Up(y)
            OBVIOUS
      <2>3. Up(y) \in T
            OBVIOUS
      <2>4. Up(x) \subseteq S
            OBVIOUS
      <2> HIDE DEF Up, T
      <2> QED BY <1>2, <1>3, <2>4, <2>1, <2>2, <2>3 DEF StrictSubsetOrdering
<1>5. \A y \in S : x >= y
      BY <1>4
<1> HIDE DEF T
<1> QED BY <1>5 DEF Max

\* Healing leaves one row per anchor.
LEMMA HealUnique ==
    ASSUME NEW rows, DOMAIN rows \subseteq Int
    PROVE  Unique(Heal(rows))
BY DEF Unique, Heal, Restrict

\* The rows are on lines of the text and carry the keys of those lines.
Describes(rows, c) ==
    \A i \in DOMAIN rows : i \in Lines(c) /\ rows[i] \in Row /\ rows[i].key = Canon[c[i]]

\* What Carry puts on a line is a row the pairing pairs it with.
LEMMA CarryRow ==
    ASSUME NEW rows, NEW R, \A x \in R : x = <<x[1], x[2]>>,
           NEW i \in DOMAIN Carry(R, rows)
    PROVE  \E k \in DOMAIN rows : <<i, k>> \in R /\ Carry(R, rows)[i] = rows[k]
<1>1. \E k \in DOMAIN rows : <<i, k>> \in R
      BY DEF Carry
<1> DEFINE n == CHOOSE k \in DOMAIN rows : <<i, k>> \in R
<1>2. n \in DOMAIN rows /\ <<i, n>> \in R
      BY <1>1
<1>3. Carry(R, rows)[i] = rows[n]
      BY DEF Carry
<1> HIDE DEF n
<1> QED BY <1>2, <1>3

\* A pairing carries rows without repeating an anchor.
LEMMA CarryUnique ==
    ASSUME NEW rows, NEW R, \A x \in R : x = <<x[1], x[2]>>,
           IsPairing(R), Unique(rows)
    PROVE  Unique(Carry(R, rows))
<1> SUFFICES ASSUME NEW i \in DOMAIN Carry(R, rows), NEW j \in DOMAIN Carry(R, rows),
                    Carry(R, rows)[i].anchor = Carry(R, rows)[j].anchor
             PROVE  i = j
    BY DEF Unique
<1>1. PICK k \in DOMAIN rows : <<i, k>> \in R /\ Carry(R, rows)[i] = rows[k]
      BY CarryRow
<1>2. PICK l \in DOMAIN rows : <<j, l>> \in R /\ Carry(R, rows)[j] = rows[l]
      BY CarryRow
<1>3. k = l
      BY <1>1, <1>2 DEF Unique
<1> QED BY <1>1, <1>2, <1>3 DEF IsPairing

\* Every pairing of the aligner is one to one and pairs equal elements.
LEMMA AlignmentsPair ==
    ASSUME NEW old, NEW new, NEW R \in Alignments(old, new),
           DOMAIN old \subseteq Int, DOMAIN new \subseteq Int
    PROVE  /\ R \in SUBSET ((DOMAIN new) \X (DOMAIN old))
           /\ IsPairing(R)
           /\ \A x \in R : new[x[1]] = old[x[2]]
<1> DEFINE trim == SharedHead(old, new) \cup SharedTail(old, new)
<1>1. \A x \in SharedHead(old, new) : x \in Matches(old, new)
      BY DEF SharedHead, SameRank, Matches
<1>2. \A x \in SharedTail(old, new) : x \in Matches(old, new)
      BY DEF SharedTail, SameRankFromEnd, Matches
<1>3. R \subseteq Matches(old, new) /\ IsPairing(R)
      <2>1. CASE R = {}
            BY <2>1 DEF IsPairing
      <2>2. CASE R # {}
            <3>1. \E mid \in SUBSET Matches(old, new) : R = trim \cup mid /\ IsPairing(R)
                  BY <2>2 DEF Alignments
            <3> QED BY <1>1, <1>2, <3>1
      <2> QED BY <2>1, <2>2
<1> QED BY <1>3 DEF Matches

\* Rows carried to lines with their keys describe the new text.
LEMMA CarryDescribes ==
    ASSUME NEW rows, NEW R, NEW c,
           \A i \in DOMAIN rows : rows[i] \in Row,
           \A x \in R : x = <<x[1], x[2]>>,
           \A x \in R : x[2] \in DOMAIN rows =>
                x[1] \in Lines(c) /\ Canon[c[x[1]]] = rows[x[2]].key
    PROVE  Describes(Carry(R, rows), c)
<1> SUFFICES ASSUME NEW i \in DOMAIN Carry(R, rows)
             PROVE  /\ i \in Lines(c)
                    /\ Carry(R, rows)[i] \in Row
                    /\ Carry(R, rows)[i].key = Canon[c[i]]
    BY DEF Describes
<1>1. PICK k \in DOMAIN rows : <<i, k>> \in R /\ Carry(R, rows)[i] = rows[k]
      BY CarryRow
<1> QED BY <1>1

\* Dropping rows does not make the others lie.
LEMMA HealDescribes ==
    ASSUME NEW rows, NEW c, Describes(rows, c)
    PROVE  Describes(Heal(rows), c)
BY DEF Describes, Heal, Restrict

\* Whatever text the rows were written for, on the way into a call they are
\* made to describe the call's text, one row per anchor.
LEMMA EnsureDescribes ==
    ASSUME NEW st, NEW c, NEW ens \in EnsureState(st, c), Describes(st.rows, st.text)
    PROVE  ens.text = c /\ Describes(ens.rows, c) /\ Unique(ens.rows)
<1> DEFINE kept == Heal(st.rows)
<1>1. Describes(kept, st.text)
      BY HealDescribes
<1>2. Unique(kept)
      BY HealUnique DEF Describes, Lines
<1>3. CASE st.text = <<>>
      BY <1>3 DEF EnsureState, Describes, Unique, NoRows
<1>4. CASE st.text # <<>> /\ st.text = c
      BY <1>1, <1>2, <1>4 DEF EnsureState
<1>5. CASE st.text # <<>> /\ st.text # c
      <2>1. PICK R \in Alignments(KeysOfRows(kept), KeysOfText(c)) :
                ens = [text |-> c, rows |-> Carry(R, kept)]
            BY <1>5 DEF EnsureState
      <2>2. DOMAIN KeysOfRows(kept) = DOMAIN kept /\ DOMAIN KeysOfText(c) = Lines(c)
            BY DEF KeysOfRows, KeysOfText
      <2>3. DOMAIN KeysOfRows(kept) \subseteq Int /\ DOMAIN KeysOfText(c) \subseteq Int
            BY <1>1, <2>2 DEF Describes, Lines
      <2>4. /\ R \in SUBSET (Lines(c) \X (DOMAIN kept))
            /\ IsPairing(R)
            /\ \A x \in R : KeysOfText(c)[x[1]] = KeysOfRows(kept)[x[2]]
            BY <2>2, <2>3, AlignmentsPair
      <2>5. \A x \in R : x = <<x[1], x[2]>>
            BY <2>4
      <2>6. \A x \in R : x[1] \in Lines(c) /\ Canon[c[x[1]]] = kept[x[2]].key
            BY <2>4 DEF KeysOfText, KeysOfRows
      <2> HIDE DEF kept
      <2>7. Describes(Carry(R, kept), c)
            BY <1>1, <2>5, <2>6, CarryDescribes DEF Describes
      <2>8. Unique(Carry(R, kept))
            BY <1>2, <2>4, <2>5, CarryUnique
      <2> QED BY <2>1, <2>7, <2>8
<1> QED BY <1>3, <1>4, <1>5

\* Minting keeps both facts when the mints avoid the live anchors.
LEMMA OverlayDescribes ==
    ASSUME NEW rows, NEW c, NEW L, NEW avoid, NEW mint \in Mints(L, avoid),
           c \in Seq(Text), L \subseteq Lines(c), Describes(rows, c)
    PROVE  Describes(Overlay(rows, mint, c), c)
<1>1. mint \in [L -> Anchor \ avoid]
      BY DEF Mints, Injection
<1>2. \A i \in L : Canon[c[i]] \in Key
      BY CanonAssumption DEF Lines
<1> QED BY <1>1, <1>2 DEF Overlay, Describes, Row

\* And one row per anchor.
LEMMA OverlayUnique ==
    ASSUME NEW rows, NEW c, NEW L, NEW avoid, NEW mint \in Mints(L, avoid),
           Unique(rows), Live(rows) \subseteq avoid
    PROVE  Unique(Overlay(rows, mint, c))
<1>1. mint \in [L -> Anchor \ avoid]
      BY DEF Mints, Injection
<1>2. \A i, j \in L : mint[i] = mint[j] => i = j
      BY <1>1 DEF Mints, Injection, IsInjective
<1>3. \A i \in DOMAIN rows, j \in L : rows[i].anchor # mint[j]
      BY <1>1 DEF Live
<1> DEFINE over == Overlay(rows, mint, c)
<1>4. DOMAIN over = (DOMAIN rows) \cup L
      BY <1>1 DEF Overlay
<1>5. \A i \in DOMAIN over :
        over[i].anchor = IF i \in L THEN mint[i] ELSE rows[i].anchor
      BY <1>1 DEF Overlay
<1> HIDE DEF over
<1>6. Unique(over)
      BY <1>2, <1>3, <1>4, <1>5 DEF Unique
<1> QED BY <1>6 DEF over

\* A mint leaves rows that describe its text, one per anchor.
LEMMA AnchorForDescribes ==
    ASSUME NEW st, NEW c \in Seq(Text), NEW W \in SUBSET Lines(c), NEW released,
           NEW out \in AnchorFor(st, c, W, released), Describes(st.rows, st.text)
    PROVE  out.text = c /\ Describes(out.rows, c) /\ Unique(out.rows)
<1> DEFINE misses(ens) == {i \in W : ~ /\ i \in DOMAIN ens.rows
                                        /\ ens.rows[i].key = Canon[c[i]]}
<1>1. PICK ens \in EnsureState(st, c) :
        \E mint \in Mints(misses(ens), Live(ens.rows) \cup released) :
            out = [text |-> c, rows |-> Overlay(ens.rows, mint, c)]
      BY DEF AnchorFor
<1>2. PICK mint \in Mints(misses(ens), Live(ens.rows) \cup released) :
            out = [text |-> c, rows |-> Overlay(ens.rows, mint, c)]
      BY <1>1
<1>3. Describes(ens.rows, c) /\ Unique(ens.rows)
      BY EnsureDescribes
<1>4. misses(ens) \subseteq Lines(c)
      OBVIOUS
<1> HIDE DEF misses
<1>5. Describes(Overlay(ens.rows, mint, c), c)
      BY <1>3, <1>4, OverlayDescribes
<1>6. Unique(Overlay(ens.rows, mint, c))
      BY <1>3, OverlayUnique
<1> QED BY <1>2, <1>5, <1>6

-----------------------------------------------------------------------------
\* `new' is `old' with the hunk k's old side replaced by its new side.
IsEdit(old, new, k) ==
    /\ k.oldFrom \in Int /\ k.oldTo \in Int /\ k.newFrom \in Int /\ k.newTo \in Int
    /\ 1 <= k.oldFrom /\ k.oldFrom <= k.oldTo + 1 /\ k.oldTo <= Len(old)
    /\ k.newFrom = k.oldFrom /\ k.newFrom <= k.newTo + 1
    /\ Len(new) = Len(old) + (k.newTo - k.oldTo)
    /\ \A i \in Lines(old) : i < k.oldFrom => new[i] = old[i]
    /\ \A i \in Lines(old) : i > k.oldTo => new[i + (k.newTo - k.oldTo)] = old[i]

\* An interval's size, the empty one just below its start included.
LEMMA IntervalSize ==
    ASSUME NEW a \in Int, NEW b \in Int, a <= b + 1
    PROVE  Cardinality(a .. b) = b - a + 1
BY FS_Interval

\* Past one hunk a line moves by what the hunk adds; before it, not at all.
LEMMA NewPositionOfOne ==
    ASSUME NEW old, NEW new, NEW k, NEW i \in Int, IsEdit(old, new, k)
    PROVE  NewPosition({k}, i) = IF k.oldTo < i THEN i + (k.newTo - k.oldTo) ELSE i
<1> DEFINE above == {l \in {k} : l.oldTo < i}
           new_ == UNION {l.newFrom .. l.newTo : l \in above}
           old_ == UNION {l.oldFrom .. l.oldTo : l \in above}
<1>0. /\ k.oldFrom \in Int /\ k.oldTo \in Int /\ k.newFrom \in Int /\ k.newTo \in Int
      /\ k.newFrom = k.oldFrom /\ k.oldFrom <= k.oldTo + 1 /\ k.newFrom <= k.newTo + 1
      BY DEF IsEdit
<1>1. CASE k.oldTo < i
      <2>1. new_ = k.newFrom .. k.newTo /\ old_ = k.oldFrom .. k.oldTo
            BY <1>1
      <2>4. NewPosition({k}, i) = i + Cardinality(new_) - Cardinality(old_)
            BY DEF NewPosition
      <2> HIDE DEF new_, old_, above
      <2>2. Cardinality(new_) = k.newTo - k.newFrom + 1
            <3>1. Cardinality(k.newFrom .. k.newTo) = k.newTo - k.newFrom + 1
                  BY <1>0, IntervalSize
            <3> QED BY <2>1, <3>1
      <2>3. Cardinality(old_) = k.oldTo - k.oldFrom + 1
            <3>1. Cardinality(k.oldFrom .. k.oldTo) = k.oldTo - k.oldFrom + 1
                  BY <1>0, IntervalSize
            <3> QED BY <2>1, <3>1
      <2> QED BY <1>0, <1>1, <2>2, <2>3, <2>4
<1>2. CASE ~(k.oldTo < i)
      <2>1. new_ = {} /\ old_ = {}
            BY <1>2
      <2>2. NewPosition({k}, i) = i + Cardinality(new_) - Cardinality(old_)
            BY DEF NewPosition
      <2> HIDE DEF new_, old_
      <2>3. Cardinality(new_) = 0 /\ Cardinality(old_) = 0
            BY <2>1, FS_EmptySet
      <2> QED BY <1>2, <2>2, <2>3
<1> QED BY <1>1, <1>2

\* The rows an edit leaves alone describe the same lines where they now are.
LEMMA OutsideLands ==
    ASSUME NEW old \in Seq(Text), NEW new \in Seq(Text), NEW k, IsEdit(old, new, k),
           NEW i \in Lines(old), ~InHunk({k}, i)
    PROVE  NewPosition({k}, i) \in Lines(new) /\ new[NewPosition({k}, i)] = old[i]
<1>1. i < k.oldFrom \/ i > k.oldTo
      BY DEF InHunk, IsEdit, Lines
<1>2. Len(old) \in Nat /\ Len(new) \in Nat /\ i \in 1 .. Len(old)
      BY DEF Lines
<1>3. NewPosition({k}, i) = IF k.oldTo < i THEN i + (k.newTo - k.oldTo) ELSE i
      BY <1>2, NewPositionOfOne
<1>4. CASE i > k.oldTo
      <2>1. NewPosition({k}, i) = i + (k.newTo - k.oldTo)
            BY <1>2, <1>3, <1>4 DEF IsEdit
      <2>2. i + (k.newTo - k.oldTo) \in 1 .. Len(new)
            BY <1>2, <1>4, SMTT(30) DEF IsEdit
      <2>3. new[i + (k.newTo - k.oldTo)] = old[i]
            BY <1>2, <1>4 DEF IsEdit, Lines
      <2> QED BY <2>1, <2>2, <2>3 DEF Lines
<1>5. CASE ~(i > k.oldTo)
      <2>1. NewPosition({k}, i) = i
            BY <1>2, <1>3, <1>5 DEF IsEdit
      <2>2. i \in 1 .. Len(new)
            BY <1>1, <1>2, <1>5 DEF IsEdit
      <2>3. new[i] = old[i]
            BY <1>1, <1>2, <1>5 DEF IsEdit, Lines
      <2> QED BY <2>1, <2>2, <2>3 DEF Lines
<1> QED BY <1>4, <1>5

\* A seeded line gets the key of the text it is seeded for.
LEMMA SeedDescribes ==
    ASSUME NEW rows, NEW c \in Seq(Text), NEW h, Describes(rows, c),
           \A i \in Lines(c) : h[i] \in Anchor \cup {NoAnchor}
    PROVE  Describes(Seed(rows, c, h), c)
<1>1. \A i \in Lines(c) : Canon[c[i]] \in Key
      BY CanonAssumption DEF Lines
<1> QED BY <1>1 DEF Seed, Describes, Row

\* The survivors inside one hunk.
LEMMA OnePairing ==
    ASSUME NEW old, NEW new, NEW k, NEW R \in HunkPairings(old, new, {k})
    PROVE  R \in Alignments(Segment(old, k.oldFrom, k.oldTo), Segment(new, k.newFrom, k.newTo))
BY DEF HunkPairings

\* What a transform leaves: rows that describe the result, and the anchors it dropped.
LeavesDescribing(out, new) ==
    /\ out.store.text = new
    /\ Describes(out.store.rows, new)
    /\ out.dropped \subseteq Anchor

\* The row transform of one hunk leaves rows that describe the result.
LEMMA TransformDescribes ==
    ASSUME NEW old \in Seq(Text), NEW new \in Seq(Text), NEW k, IsEdit(old, new, k),
           NEW h, \A i \in Lines(old) : h[i] \in Anchor \cup {NoAnchor},
           NEW ens, Describes(ens.rows, old), NEW used,
           NEW R \in HunkPairings(old, new, {k}),
           NEW out \in Transformed(ens, old, new, h, {k}, used, R)
    PROVE  LeavesDescribing(out, new)
<1> DEFINE seeded == Seed(ens.rows, old, h)
           outside == {i \in DOMAIN seeded : ~InHunk({k}, i)}
           lost == {i \in (DOMAIN seeded) \ outside : \A x \in R : x[2] # i}
           moves == {<<NewPosition({k}, i), i>> : i \in outside}
           carried == Carry(R \cup moves, seeded)
           fresh == {i \in Lines(new) : /\ \E l \in {k} : i \in l.newFrom .. l.newTo
                                        /\ \A x \in R : x[1] # i}
<1>1. Describes(seeded, old)
      BY SeedDescribes
<1>2. PICK mint \in Mints(fresh, used \cup Live(carried)) :
        out = [store |-> [text |-> new, rows |-> Overlay(carried, mint, new)],
               dropped |-> {seeded[i].anchor : i \in lost}]
      BY DEF Transformed
<1>3. \A x \in R : /\ x = <<x[1], x[2]>>
                   /\ x[1] \in Lines(new)
                   /\ x[2] \in Lines(old)
                   /\ new[x[1]] = old[x[2]]
      <2> DEFINE o == Segment(old, k.oldFrom, k.oldTo)
                 n == Segment(new, k.newFrom, k.newTo)
      <2>1. R \in Alignments(o, n)
            BY OnePairing
      <2>2. DOMAIN o = (k.oldFrom .. k.oldTo) \cap Lines(old)
            BY DEF Segment
      <2>3. DOMAIN n = (k.newFrom .. k.newTo) \cap Lines(new)
            BY DEF Segment
      <2>4. DOMAIN o \subseteq Int /\ DOMAIN n \subseteq Int
            BY <2>2, <2>3 DEF Lines
      <2>5. (\A i \in DOMAIN o : o[i] = old[i]) /\ (\A i \in DOMAIN n : n[i] = new[i])
            BY DEF Segment
      <2> HIDE DEF o, n
      <2>6. /\ R \in SUBSET ((DOMAIN n) \X (DOMAIN o))
            /\ \A x \in R : n[x[1]] = o[x[2]]
            BY <2>1, <2>4, AlignmentsPair
      <2> QED BY <2>2, <2>3, <2>5, <2>6
<1>4. \A i \in outside : NewPosition({k}, i) \in Lines(new) /\ new[NewPosition({k}, i)] = old[i]
      BY <1>1, OutsideLands DEF Describes
<1>5. Describes(carried, new)
      <2>1. \A i \in DOMAIN seeded : seeded[i] \in Row /\ seeded[i].key = Canon[old[i]]
            BY <1>1 DEF Describes
      <2>2. \A x \in R \cup moves : /\ x = <<x[1], x[2]>>
                                   /\ x[1] \in Lines(new)
                                   /\ new[x[1]] = old[x[2]]
            <3>1. ASSUME NEW x \in moves
                  PROVE  /\ x = <<x[1], x[2]>>
                         /\ x[1] \in Lines(new)
                         /\ new[x[1]] = old[x[2]]
                  <4>1. PICK i \in outside : x = <<NewPosition({k}, i), i>>
                        OBVIOUS
                  <4> HIDE DEF outside, moves
                  <4> QED BY <1>4, <4>1
            <3> HIDE DEF moves
            <3> QED BY <1>3, <3>1
      <2> HIDE DEF seeded, moves
      <2> QED BY <2>1, <2>2, CarryDescribes
<1>6. fresh \subseteq Lines(new)
      OBVIOUS
<1>7. \A i \in lost : seeded[i].anchor \in Anchor
      BY <1>1 DEF Describes, Row
<1> HIDE DEF seeded, carried, fresh, lost
<1>8. Describes(Overlay(carried, mint, new), new)
      BY <1>5, <1>6, OverlayDescribes
<1> QED BY <1>2, <1>7, <1>8 DEF LeavesDescribing

\* The whole transform of one hunk, its early return included.
LEMMA UpdateDescribes ==
    ASSUME NEW old \in Seq(Text), NEW new \in Seq(Text), NEW k, IsEdit(old, new, k),
           NEW h, \A i \in Lines(old) : h[i] \in Anchor \cup {NoAnchor},
           NEW st, Describes(st.rows, st.text), NEW used,
           NEW out \in UpdateAnchorsAfterEdit(st, old, new, h, {k}, used)
    PROVE  LeavesDescribing(out, new)
<1>1. CASE st.text = new
      BY <1>1 DEF UpdateAnchorsAfterEdit, LeavesDescribing
<1>2. CASE st.text # new
      <2>1. PICK ens \in EnsureState(st, old) :
                \E R \in HunkPairings(old, new, {k}) :
                    out \in Transformed(ens, old, new, h, {k}, used, R)
            <3> DEFINE by(ens) == UNION {Transformed(ens, old, new, h, {k}, used, R) :
                                            R \in HunkPairings(old, new, {k})}
            <3>1. UpdateAnchorsAfterEdit(st, old, new, h, {k}, used)
                    = UNION {by(ens) : ens \in EnsureState(st, old)}
                  BY <1>2 DEF UpdateAnchorsAfterEdit
            <3>2. PICK ens \in EnsureState(st, old) : out \in by(ens)
                  <4> HIDE DEF by
                  <4> QED BY <3>1
            <3> QED BY <3>2
      <2>2. Describes(ens.rows, old)
            BY EnsureDescribes
      <2> QED BY <2>1, <2>2, TransformDescribes
<1> QED BY <1>1, <1>2

-----------------------------------------------------------------------------
(***************************************************************************)
(* Types alone, for any projection and any hunk.                           *)
(***************************************************************************)
RowsTyped(rows) == \A i \in DOMAIN rows : i \in Int /\ rows[i] \in Row

IsHunk(k) ==
    k.oldFrom \in Int /\ k.oldTo \in Int /\ k.newFrom \in Int /\ k.newTo \in Int

\* A pairing pairs a line of one side with a line of the other.
LEMMA AlignmentsRange ==
    ASSUME NEW old, NEW new, NEW R \in Alignments(old, new)
    PROVE  R \in SUBSET ((DOMAIN new) \X (DOMAIN old))
<1>1. SharedHead(old, new) \in SUBSET ((DOMAIN new) \X (DOMAIN old))
      BY DEF SharedHead, SameRank
<1>2. SharedTail(old, new) \in SUBSET ((DOMAIN new) \X (DOMAIN old))
      BY DEF SharedTail, SameRankFromEnd
<1>3. CASE R = {}
      BY <1>3
<1>4. CASE R # {}
      <2>1. \E mid \in SUBSET Matches(old, new) :
                R = (SharedHead(old, new) \cup SharedTail(old, new)) \cup mid
            BY <1>4 DEF Alignments
      <2> QED BY <1>1, <1>2, <2>1 DEF Matches
<1> QED BY <1>3, <1>4

\* Carried rows are rows.
LEMMA CarryTyped ==
    ASSUME NEW rows, NEW R, RowsTyped(rows),
           \A x \in R : x = <<x[1], x[2]>> /\ x[1] \in Int
    PROVE  RowsTyped(Carry(R, rows))
<1> SUFFICES ASSUME NEW i \in DOMAIN Carry(R, rows)
             PROVE  i \in Int /\ Carry(R, rows)[i] \in Row
    BY DEF RowsTyped
<1>1. \A x \in R : x = <<x[1], x[2]>>
      OBVIOUS
<1>2. PICK k \in DOMAIN rows : <<i, k>> \in R /\ Carry(R, rows)[i] = rows[k]
      BY <1>1, CarryRow
<1> QED BY <1>2 DEF RowsTyped

\* So are the rows on the way into a call.
LEMMA EnsureTyped ==
    ASSUME NEW st, NEW c, NEW ens \in EnsureState(st, c), RowsTyped(st.rows)
    PROVE  ens.text = c /\ RowsTyped(ens.rows)
<1> DEFINE kept == Heal(st.rows)
<1>1. RowsTyped(kept)
      BY DEF RowsTyped, Heal, Restrict
<1>2. CASE st.text = <<>>
      BY <1>2 DEF EnsureState, RowsTyped, NoRows
<1>3. CASE st.text # <<>> /\ st.text = c
      BY <1>1, <1>3 DEF EnsureState
<1>4. CASE st.text # <<>> /\ st.text # c
      <2>1. PICK R \in Alignments(KeysOfRows(kept), KeysOfText(c)) :
                ens = [text |-> c, rows |-> Carry(R, kept)]
            BY <1>4 DEF EnsureState
      <2>2. \A x \in R : x = <<x[1], x[2]>> /\ x[1] \in Int
            BY AlignmentsRange DEF KeysOfText, Lines
      <2> HIDE DEF kept
      <2>3. RowsTyped(Carry(R, kept))
            BY <1>1, <2>2, CarryTyped
      <2> QED BY <2>1, <2>3
<1> QED BY <1>2, <1>3, <1>4

\* And what is left of them when the call throws.
LEMMA EnsuredTyped ==
    ASSUME NEW st, NEW c, NEW ens \in Ensured(st, c), RowsTyped(st.rows)
    PROVE  ens.text \in {st.text, c} /\ RowsTyped(ens.rows)
BY EnsureTyped DEF Ensured

\* A mint adds rows.
LEMMA OverlayTyped ==
    ASSUME NEW rows, NEW c \in Seq(Text), NEW L, NEW avoid, NEW mint \in Mints(L, avoid),
           L \subseteq Lines(c), RowsTyped(rows)
    PROVE  RowsTyped(Overlay(rows, mint, c))
<1>1. mint \in [L -> Anchor \ avoid]
      BY DEF Mints, Injection
<1>2. \A i \in L : Canon[c[i]] \in Key /\ i \in Int
      BY CanonAssumption DEF Lines
<1> QED BY <1>1, <1>2 DEF Overlay, RowsTyped, Row

\* So does a mint with its realign.
LEMMA AnchorForTyped ==
    ASSUME NEW st, NEW c \in Seq(Text), NEW W \in SUBSET Lines(c), NEW released,
           NEW out \in AnchorFor(st, c, W, released), RowsTyped(st.rows)
    PROVE  out.text = c /\ RowsTyped(out.rows)
<1> DEFINE misses(ens) == {i \in W : ~ /\ i \in DOMAIN ens.rows
                                        /\ ens.rows[i].key = Canon[c[i]]}
<1>1. PICK ens \in EnsureState(st, c) :
        \E mint \in Mints(misses(ens), Live(ens.rows) \cup released) :
            out = [text |-> c, rows |-> Overlay(ens.rows, mint, c)]
      BY DEF AnchorFor
<1>2. PICK mint \in Mints(misses(ens), Live(ens.rows) \cup released) :
            out = [text |-> c, rows |-> Overlay(ens.rows, mint, c)]
      BY <1>1
<1>3. RowsTyped(ens.rows)
      BY EnsureTyped
<1>4. misses(ens) \subseteq Lines(c)
      OBVIOUS
<1> HIDE DEF misses
<1>5. RowsTyped(Overlay(ens.rows, mint, c))
      BY <1>3, <1>4, OverlayTyped
<1> QED BY <1>2, <1>5

\* A line moves to a line number.
LEMMA NewPositionInt ==
    ASSUME NEW k, NEW i \in Int, IsHunk(k)
    PROVE  NewPosition({k}, i) \in Int
<1> DEFINE above == {l \in {k} : l.oldTo < i}
           new_ == UNION {l.newFrom .. l.newTo : l \in above}
           old_ == UNION {l.oldFrom .. l.oldTo : l \in above}
<1>1. /\ new_ = {} \/ new_ = k.newFrom .. k.newTo
      /\ old_ = {} \/ old_ = k.oldFrom .. k.oldTo
      BY DEF IsHunk
<1>2. NewPosition({k}, i) = i + Cardinality(new_) - Cardinality(old_)
      BY DEF NewPosition
<1> HIDE DEF new_, old_, above
<1>3. \A a, b \in Int : Cardinality(a .. b) \in Int
      <2> TAKE a, b \in Int
      <2>1. Cardinality(a .. b) = IF a > b THEN 0 ELSE b - a + 1
            BY FS_Interval
      <2> QED BY <2>1
<1>4. Cardinality({}) \in Int
      BY FS_EmptySet
<1>5. Cardinality(k.newFrom .. k.newTo) \in Int /\ Cardinality(k.oldFrom .. k.oldTo) \in Int
      BY <1>3 DEF IsHunk
<1>6. Cardinality(new_) \in Int
      BY <1>1, <1>4, <1>5, Zenon
<1>7. Cardinality(old_) \in Int
      BY <1>1, <1>4, <1>5, Zenon
<1> QED BY <1>2, <1>6, <1>7

\* What a transform leaves: rows of the right type, and the anchors it dropped.
LeavesTyped(out, new) ==
    /\ out.store.text = new
    /\ RowsTyped(out.store.rows)
    /\ out.dropped \subseteq Anchor

\* The transform of any one hunk leaves rows.
LEMMA TransformTyped ==
    ASSUME NEW old \in Seq(Text), NEW new \in Seq(Text), NEW k, IsHunk(k),
           NEW h, \A i \in Lines(old) : h[i] \in Anchor \cup {NoAnchor},
           NEW ens, RowsTyped(ens.rows), NEW used,
           NEW R \in HunkPairings(old, new, {k}),
           NEW out \in Transformed(ens, old, new, h, {k}, used, R)
    PROVE  LeavesTyped(out, new)
<1> DEFINE seeded == Seed(ens.rows, old, h)
           outside == {i \in DOMAIN seeded : ~InHunk({k}, i)}
           lost == {i \in (DOMAIN seeded) \ outside : \A x \in R : x[2] # i}
           moves == {<<NewPosition({k}, i), i>> : i \in outside}
           carried == Carry(R \cup moves, seeded)
           fresh == {i \in Lines(new) : /\ \E l \in {k} : i \in l.newFrom .. l.newTo
                                        /\ \A x \in R : x[1] # i}
<1>1. RowsTyped(seeded)
      <2>1. \A i \in Lines(old) : Canon[old[i]] \in Key /\ i \in Int
            BY CanonAssumption DEF Lines
      <2> QED BY <2>1 DEF Seed, RowsTyped, Row
<1>2. PICK mint \in Mints(fresh, used \cup Live(carried)) :
        out = [store |-> [text |-> new, rows |-> Overlay(carried, mint, new)],
               dropped |-> {seeded[i].anchor : i \in lost}]
      BY DEF Transformed
<1>3. \A x \in R : x = <<x[1], x[2]>> /\ x[1] \in Int
      <2> DEFINE o == Segment(old, k.oldFrom, k.oldTo)
                 n == Segment(new, k.newFrom, k.newTo)
      <2>1. R \in Alignments(o, n)
            BY OnePairing
      <2>2. DOMAIN n \subseteq Int
            BY DEF Segment, Lines
      <2> HIDE DEF o, n
      <2>3. R \in SUBSET ((DOMAIN n) \X (DOMAIN o))
            BY <2>1, AlignmentsRange
      <2> QED BY <2>2, <2>3
<1>4. ASSUME NEW x \in moves
      PROVE  x = <<x[1], x[2]>> /\ x[1] \in Int
      <2>1. PICK i \in outside : x = <<NewPosition({k}, i), i>>
            OBVIOUS
      <2>2. i \in Int
            BY <1>1 DEF RowsTyped
      <2> QED BY <2>1, <2>2, NewPositionInt
<1>5. RowsTyped(carried)
      <2> HIDE DEF seeded, moves
      <2> QED BY <1>1, <1>3, <1>4, CarryTyped
<1>6. fresh \subseteq Lines(new)
      OBVIOUS
<1>7. \A i \in lost : seeded[i].anchor \in Anchor
      BY <1>1 DEF RowsTyped, Row
<1> HIDE DEF seeded, carried, fresh, lost
<1>8. RowsTyped(Overlay(carried, mint, new))
      BY <1>5, <1>6, OverlayTyped
<1> QED BY <1>2, <1>7, <1>8 DEF LeavesTyped

\* So does the call around it.
LEMMA UpdateTyped ==
    ASSUME NEW old \in Seq(Text), NEW new \in Seq(Text), NEW k, IsHunk(k),
           NEW h, \A i \in Lines(old) : h[i] \in Anchor \cup {NoAnchor},
           NEW st, RowsTyped(st.rows), NEW used,
           NEW out \in UpdateAnchorsAfterEdit(st, old, new, h, {k}, used)
    PROVE  LeavesTyped(out, new)
<1>1. CASE st.text = new
      BY <1>1 DEF UpdateAnchorsAfterEdit, LeavesTyped
<1>2. CASE st.text # new
      <2>1. PICK ens \in EnsureState(st, old) :
                \E R \in HunkPairings(old, new, {k}) :
                    out \in Transformed(ens, old, new, h, {k}, used, R)
            <3> DEFINE by(ens) == UNION {Transformed(ens, old, new, h, {k}, used, R) :
                                            R \in HunkPairings(old, new, {k})}
            <3>1. UpdateAnchorsAfterEdit(st, old, new, h, {k}, used)
                    = UNION {by(ens) : ens \in EnsureState(st, old)}
                  BY <1>2 DEF UpdateAnchorsAfterEdit
            <3>2. PICK ens \in EnsureState(st, old) : out \in by(ens)
                  <4> HIDE DEF by
                  <4> QED BY <3>1
            <3> QED BY <3>2
      <2>2. RowsTyped(ens.rows)
            BY EnsureTyped
      <2> QED BY <2>1, <2>2, TransformTyped
<1> QED BY <1>1, <1>2

-----------------------------------------------------------------------------
(***************************************************************************)
(* Which anchors a call can leave live.                                    *)
(***************************************************************************)

\* Carried anchors were live.
LEMMA CarryLive ==
    ASSUME NEW rows, NEW R, \A x \in R : x = <<x[1], x[2]>>
    PROVE  Live(Carry(R, rows)) \subseteq Live(rows)
<1> SUFFICES ASSUME NEW i \in DOMAIN Carry(R, rows)
             PROVE  Carry(R, rows)[i].anchor \in Live(rows)
    BY DEF Live
<1>1. PICK k \in DOMAIN rows : <<i, k>> \in R /\ Carry(R, rows)[i] = rows[k]
      BY CarryRow
<1> QED BY <1>1 DEF Live

\* The way into a call brings no anchor to life.
LEMMA EnsureLive ==
    ASSUME NEW st, NEW c, NEW ens \in EnsureState(st, c)
    PROVE  ens.text = c /\ Live(ens.rows) \subseteq Live(st.rows)
<1> DEFINE kept == Heal(st.rows)
<1>1. Live(kept) \subseteq Live(st.rows)
      BY DEF Live, Heal, Restrict
<1>2. CASE st.text = <<>>
      BY <1>2 DEF EnsureState, Live, NoRows
<1>3. CASE st.text # <<>> /\ st.text = c
      BY <1>1, <1>3 DEF EnsureState
<1>4. CASE st.text # <<>> /\ st.text # c
      <2>1. PICK R \in Alignments(KeysOfRows(kept), KeysOfText(c)) :
                ens = [text |-> c, rows |-> Carry(R, kept)]
            BY <1>4 DEF EnsureState
      <2>2. \A x \in R : x = <<x[1], x[2]>>
            BY AlignmentsRange
      <2> HIDE DEF kept
      <2>3. Live(Carry(R, kept)) \subseteq Live(kept)
            BY <2>2, CarryLive
      <2> QED BY <1>1, <2>1, <2>3
<1> QED BY <1>2, <1>3, <1>4

\* Whatever rows a call finds, on its way in they get one line per anchor.
LEMMA EnsureUnique ==
    ASSUME NEW st, NEW c, NEW ens \in EnsureState(st, c), DOMAIN st.rows \subseteq Int
    PROVE  Unique(ens.rows)
<1> DEFINE kept == Heal(st.rows)
<1>1. Unique(kept) /\ DOMAIN kept \subseteq Int
      BY HealUnique DEF Heal, Restrict
<1>2. CASE st.text = <<>>
      BY <1>2 DEF EnsureState, Unique, NoRows
<1>3. CASE st.text # <<>> /\ st.text = c
      BY <1>1, <1>3 DEF EnsureState
<1>4. CASE st.text # <<>> /\ st.text # c
      <2>1. PICK R \in Alignments(KeysOfRows(kept), KeysOfText(c)) :
                ens = [text |-> c, rows |-> Carry(R, kept)]
            BY <1>4 DEF EnsureState
      <2>2. DOMAIN KeysOfRows(kept) \subseteq Int /\ DOMAIN KeysOfText(c) \subseteq Int
            BY <1>1 DEF KeysOfRows, KeysOfText, Lines
      <2>3. IsPairing(R) /\ \A x \in R : x = <<x[1], x[2]>>
            BY <2>2, AlignmentsPair
      <2> HIDE DEF kept
      <2> QED BY <1>1, <2>1, <2>3, CarryUnique
<1> QED BY <1>2, <1>3, <1>4

\* Nor does the way into a call that then throws.
LEMMA EnsuredLive ==
    ASSUME NEW st, NEW c, NEW ens \in Ensured(st, c)
    PROVE  Live(ens.rows) \subseteq Live(st.rows)
BY EnsureLive DEF Ensured

\* A mint adds only anchors outside its avoid-set.
LEMMA OverlayLive ==
    ASSUME NEW rows, NEW c, NEW L, NEW avoid, NEW mint \in Mints(L, avoid)
    PROVE  Live(Overlay(rows, mint, c)) \subseteq Live(rows) \cup (Anchor \ avoid)
<1>1. mint \in [L -> Anchor \ avoid]
      BY DEF Mints, Injection
<1> QED BY <1>1 DEF Overlay, Live

\* So does a mint with its realign.
LEMMA AnchorForLive ==
    ASSUME NEW st, NEW c, NEW W, NEW released, NEW out \in AnchorFor(st, c, W, released)
    PROVE  out.text = c /\ Live(out.rows) \subseteq Live(st.rows) \cup (Anchor \ released)
<1> DEFINE misses(ens) == {i \in W : ~ /\ i \in DOMAIN ens.rows
                                        /\ ens.rows[i].key = Canon[c[i]]}
<1>1. PICK ens \in EnsureState(st, c) :
        \E mint \in Mints(misses(ens), Live(ens.rows) \cup released) :
            out = [text |-> c, rows |-> Overlay(ens.rows, mint, c)]
      BY DEF AnchorFor
<1>2. PICK mint \in Mints(misses(ens), Live(ens.rows) \cup released) :
            out = [text |-> c, rows |-> Overlay(ens.rows, mint, c)]
      BY <1>1
<1>3. Live(ens.rows) \subseteq Live(st.rows)
      BY EnsureLive
<1> HIDE DEF misses
<1>4. Live(Overlay(ens.rows, mint, c)) \subseteq Live(ens.rows) \cup (Anchor \ (Live(ens.rows) \cup released))
      BY OverlayLive
<1> QED BY <1>2, <1>3, <1>4

\* Rows without a repeated anchor need no repair.
LEMMA HealKeeps ==
    ASSUME NEW rows, DOMAIN rows \subseteq Int, Unique(rows)
    PROVE  /\ DOMAIN Heal(rows) = DOMAIN rows
           /\ \A i \in DOMAIN rows : Heal(rows)[i] = rows[i]
<1>1. {i \in DOMAIN rows : \A j \in DOMAIN rows : j < i => rows[j].anchor # rows[i].anchor}
        = DOMAIN rows
      <2> SUFFICES ASSUME NEW i \in DOMAIN rows, NEW j \in DOMAIN rows, j < i,
                          rows[j].anchor = rows[i].anchor
                   PROVE  FALSE
          OBVIOUS
      <2>1. j = i
            BY DEF Unique
      <2>2. i \in Int
            OBVIOUS
      <2> QED BY <2>1, <2>2
<1> QED BY <1>1 DEF Heal, Restrict

\* The rows of a call whose text they were written for, one per anchor.
LEMMA EnsureKeeps ==
    ASSUME NEW st, NEW c, c # <<>>, st.text = c, NEW ens \in EnsureState(st, c),
           DOMAIN st.rows \subseteq Int, Unique(st.rows)
    PROVE  /\ DOMAIN ens.rows = DOMAIN st.rows
           /\ \A i \in DOMAIN st.rows : ens.rows[i] = st.rows[i]
           /\ Unique(ens.rows)
<1>1. ens.rows = Heal(st.rows)
      BY DEF EnsureState
<1> QED BY <1>1, HealKeeps, HealUnique

\* A mint leaves such rows where they are, and still one per anchor.
LEMMA AnchorForKeeps ==
    ASSUME NEW st, NEW c, c # <<>>, st.text = c, NEW W, NEW released,
           NEW out \in AnchorFor(st, c, W, released), DOMAIN st.rows \subseteq Int, Unique(st.rows)
    PROVE  DOMAIN st.rows \subseteq DOMAIN out.rows /\ Unique(out.rows)
<1> DEFINE misses(ens) == {i \in W : ~ /\ i \in DOMAIN ens.rows
                                        /\ ens.rows[i].key = Canon[c[i]]}
<1>1. PICK ens \in EnsureState(st, c) :
        \E mint \in Mints(misses(ens), Live(ens.rows) \cup released) :
            out = [text |-> c, rows |-> Overlay(ens.rows, mint, c)]
      BY ZenonT(60) DEF AnchorFor
<1>2. PICK mint \in Mints(misses(ens), Live(ens.rows) \cup released) :
            out = [text |-> c, rows |-> Overlay(ens.rows, mint, c)]
      BY <1>1
<1>3. DOMAIN ens.rows = DOMAIN st.rows /\ Unique(ens.rows)
      BY EnsureKeeps
<1> HIDE DEF misses
<1>4. Unique(Overlay(ens.rows, mint, c))
      BY <1>3, OverlayUnique
<1>5. DOMAIN ens.rows \subseteq DOMAIN Overlay(ens.rows, mint, c)
      BY DEF Overlay
<1> QED BY <1>2, <1>3, <1>4, <1>5

\* Whatever rows it starts from, a mint names each line of its window, once and by the
\* line's key.
LEMMA AnchorForNames ==
    ASSUME NEW st, NEW c, NEW W, NEW released,
           NEW out \in AnchorFor(st, c, W, released), DOMAIN st.rows \subseteq Int
    PROVE  /\ Unique(out.rows)
           /\ \A i \in W : i \in DOMAIN out.rows /\ out.rows[i].key = Canon[c[i]]
<1> DEFINE misses(ens) == {i \in W : ~ /\ i \in DOMAIN ens.rows
                                        /\ ens.rows[i].key = Canon[c[i]]}
<1>1. PICK ens \in EnsureState(st, c) :
        \E mint \in Mints(misses(ens), Live(ens.rows) \cup released) :
            out = [text |-> c, rows |-> Overlay(ens.rows, mint, c)]
      BY DEF AnchorFor
<1>2. PICK mint \in Mints(misses(ens), Live(ens.rows) \cup released) :
            out = [text |-> c, rows |-> Overlay(ens.rows, mint, c)]
      BY <1>1
<1>3. DOMAIN mint = misses(ens)
      BY DEF Mints, Injection
<1>4. ASSUME NEW i \in W
      PROVE  i \in DOMAIN out.rows /\ out.rows[i].key = Canon[c[i]]
      BY <1>2, <1>3 DEF Overlay
<1>5. Unique(ens.rows)
      BY EnsureUnique
<1> HIDE DEF misses
<1>6. Unique(Overlay(ens.rows, mint, c))
      BY <1>5, OverlayUnique
<1> QED BY <1>2, <1>4, <1>6

-----------------------------------------------------------------------------
\* A hunk that starts where it started and whose old side is not negative.
InPlace(k) == IsHunk(k) /\ k.newFrom = k.oldFrom /\ k.oldFrom <= k.oldTo + 1

\* Lines below the hunk land below its new side; lines above it stay.
LEMMA NewPositionInPlace ==
    ASSUME NEW k, InPlace(k), NEW i \in Int
    PROVE  /\ NewPosition({k}, i) \in Int
           /\ i <= k.oldTo => NewPosition({k}, i) = i
           /\ i > k.oldTo =>
                \/ /\ k.newFrom <= k.newTo
                   /\ NewPosition({k}, i) = i + (k.newTo - k.oldTo)
                \/ /\ k.newFrom > k.newTo
                   /\ NewPosition({k}, i) = i + (k.oldFrom - 1 - k.oldTo)
<1> DEFINE above == {l \in {k} : l.oldTo < i}
           new_ == UNION {l.newFrom .. l.newTo : l \in above}
           old_ == UNION {l.oldFrom .. l.oldTo : l \in above}
<1>0. /\ k.oldFrom \in Int /\ k.oldTo \in Int /\ k.newFrom \in Int /\ k.newTo \in Int
      /\ k.newFrom = k.oldFrom /\ k.oldFrom <= k.oldTo + 1
      BY DEF InPlace, IsHunk
<1>3. NewPosition({k}, i) = i + Cardinality(new_) - Cardinality(old_)
      BY DEF NewPosition
<1>1. CASE k.oldTo < i
      <2>1. new_ = k.newFrom .. k.newTo /\ old_ = k.oldFrom .. k.oldTo
            BY <1>1
      <2> HIDE DEF new_, old_, above
      <2>2. Cardinality(k.newFrom .. k.newTo) = IF k.newFrom > k.newTo THEN 0 ELSE k.newTo - k.newFrom + 1
            BY <1>0, FS_Interval
      <2>3. Cardinality(k.oldFrom .. k.oldTo) = k.oldTo - k.oldFrom + 1
            BY <1>0, IntervalSize
      <2>4. /\ Cardinality(new_) = IF k.newFrom > k.newTo THEN 0 ELSE k.newTo - k.newFrom + 1
            /\ Cardinality(old_) = k.oldTo - k.oldFrom + 1
            BY <2>1, <2>2, <2>3, Zenon
      <2> QED BY <1>0, <1>1, <1>3, <2>4
<1>2. CASE ~(k.oldTo < i)
      <2>1. new_ = {} /\ old_ = {}
            BY <1>2
      <2> HIDE DEF new_, old_
      <2>3. Cardinality(new_) = 0 /\ Cardinality(old_) = 0
            BY <2>1, FS_EmptySet
      <2> QED BY <1>0, <1>2, <1>3, <2>3
<1> QED BY <1>1, <1>2

\* Lines outside the hunk keep apart, and stay clear of its new side.
LEMMA OutsideApart ==
    ASSUME NEW k, InPlace(k), NEW i \in Int, ~InHunk({k}, i)
    PROVE  /\ NewPosition({k}, i) \notin k.newFrom .. k.newTo
           /\ \A j \in Int : ~InHunk({k}, j) /\ NewPosition({k}, i) = NewPosition({k}, j) => i = j
<1>1. /\ k.oldFrom \in Int /\ k.oldTo \in Int /\ k.newFrom \in Int /\ k.newTo \in Int
      /\ k.newFrom = k.oldFrom /\ k.oldFrom <= k.oldTo + 1
      BY DEF InPlace, IsHunk
<1>2. ASSUME NEW j \in Int, ~InHunk({k}, j)
      PROVE  /\ NewPosition({k}, j) \in Int
             /\ \/ j < k.oldFrom /\ NewPosition({k}, j) = j
                \/ /\ j > k.oldTo /\ k.newFrom <= k.newTo
                   /\ NewPosition({k}, j) = j + (k.newTo - k.oldTo)
                \/ /\ j > k.oldTo /\ k.newFrom > k.newTo
                   /\ NewPosition({k}, j) = j + (k.oldFrom - 1 - k.oldTo)
      <2>1. j < k.oldFrom \/ j > k.oldTo
            BY <1>1, <1>2 DEF InHunk
      <2>2. CASE j > k.oldTo
            BY <2>2, NewPositionInPlace
      <2>3. CASE j < k.oldFrom
            <3>1. j <= k.oldTo
                  BY <1>1, <2>3
            <3> QED BY <2>3, <3>1, NewPositionInPlace
      <2> QED BY <2>1, <2>2, <2>3
<1>3. NewPosition({k}, i) \notin k.newFrom .. k.newTo
      BY <1>1, <1>2
<1>4. ASSUME NEW j \in Int, ~InHunk({k}, j), NewPosition({k}, i) = NewPosition({k}, j)
      PROVE  i = j
      BY <1>1, <1>2, <1>4
<1> QED BY <1>3, <1>4

\* A pairing inside the hunk and the moves outside it make one pairing.
LEMMA MovesPair ==
    ASSUME NEW k, InPlace(k), NEW R, NEW S, S \subseteq Int,
           \A i \in S : ~InHunk({k}, i),
           \A x \in R : x[1] \in k.newFrom .. k.newTo /\ x[2] \in k.oldFrom .. k.oldTo,
           IsPairing(R)
    PROVE  IsPairing(R \cup {<<NewPosition({k}, i), i>> : i \in S})
<1> DEFINE moves == {<<NewPosition({k}, i), i>> : i \in S}
<1>1. \A x \in moves : /\ x[2] \in S /\ x[1] = NewPosition({k}, x[2])
      OBVIOUS
<1> HIDE DEF moves
<1>2. ASSUME NEW x \in R, NEW y \in moves
      PROVE  x[1] # y[1] /\ x[2] # y[2]
      <2>1. y[2] \in Int /\ ~InHunk({k}, y[2])
            BY <1>1
      <2>2. y[1] \notin k.newFrom .. k.newTo
            BY <1>1, <2>1, OutsideApart
      <2>3. y[2] \notin k.oldFrom .. k.oldTo
            BY <2>1 DEF InHunk
      <2> QED BY <2>2, <2>3
<1>3. ASSUME NEW x \in moves, NEW y \in moves
      PROVE  (x[1] = y[1]) <=> (x[2] = y[2])
      <2>1. x[2] \in Int /\ ~InHunk({k}, x[2]) /\ y[2] \in Int /\ ~InHunk({k}, y[2])
            BY <1>1
      <2>2. ASSUME x[1] = y[1]
            PROVE  x[2] = y[2]
            <3>1. NewPosition({k}, x[2]) = NewPosition({k}, y[2])
                  BY <1>1, <2>2
            <3> QED BY <2>1, <3>1, OutsideApart
      <2>3. ASSUME x[2] = y[2]
            PROVE  x[1] = y[1]
            BY <1>1, <2>3
      <2> QED BY <2>2, <2>3
<1>4. IsPairing(R \cup moves)
      BY <1>2, <1>3 DEF IsPairing
<1> QED BY <1>4 DEF moves

\* The early return aside, a transform of one hunk comes from one realign and one
\* pairing.
LEMMA UpdateSplits ==
    ASSUME NEW st, NEW old, NEW new, NEW h, NEW hunks, NEW used, st.text # new,
           NEW out \in UpdateAnchorsAfterEdit(st, old, new, h, hunks, used)
    PROVE  \E ens \in EnsureState(st, old) : \E R \in HunkPairings(old, new, hunks) :
                out \in Transformed(ens, old, new, h, hunks, used, R)
<1> DEFINE by(ens) == UNION {Transformed(ens, old, new, h, hunks, used, R) :
                                R \in HunkPairings(old, new, hunks)}
<1>1. UpdateAnchorsAfterEdit(st, old, new, h, hunks, used)
        = UNION {by(ens) : ens \in EnsureState(st, old)}
      BY DEF UpdateAnchorsAfterEdit
<1>2. PICK ens \in EnsureState(st, old) : out \in by(ens)
      <2> HIDE DEF by
      <2> QED BY <1>1
<1> QED BY <1>2

\* The survivors of a hunk pair its new lines with its old ones.
LEMMA SurvivorsInside ==
    ASSUME NEW old, NEW new, NEW k, NEW R \in HunkPairings(old, new, {k})
    PROVE  /\ IsPairing(R)
           /\ \A x \in R : /\ x = <<x[1], x[2]>>
                           /\ x[1] \in k.newFrom .. k.newTo
                           /\ x[2] \in k.oldFrom .. k.oldTo
<1> DEFINE o == Segment(old, k.oldFrom, k.oldTo)
           n == Segment(new, k.newFrom, k.newTo)
<1>1. R \in Alignments(o, n)
      BY OnePairing
<1>2. DOMAIN o = (k.oldFrom .. k.oldTo) \cap Lines(old) /\ DOMAIN n = (k.newFrom .. k.newTo) \cap Lines(new)
      BY DEF Segment
<1>3. DOMAIN o \subseteq Int /\ DOMAIN n \subseteq Int
      BY <1>2 DEF Lines
<1> HIDE DEF o, n
<1>4. R \in SUBSET ((DOMAIN n) \X (DOMAIN o)) /\ IsPairing(R)
      BY <1>1, <1>3, AlignmentsPair
<1> QED BY <1>2, <1>4

\* Seeding adds anchors of the projection.
LEMMA SeedLive ==
    ASSUME NEW rows, NEW c, NEW h
    PROVE  \A a \in Live(Seed(rows, c, h)) : a \in Live(rows) \/ \E i \in Lines(c) : a = h[i]
BY DEF Seed, Live

\* What a transform may bring to life: anchors of the projection and free ones.
Enlivens(rows, st, old, h, used) ==
    \A a \in Live(rows) :
        a \in Live(st.rows) \/ (\E i \in Lines(old) : a = h[i]) \/ a \in Anchor \ used

\* It brings no others.
LEMMA UpdateLive ==
    ASSUME NEW st, NEW old, NEW new, NEW h, NEW k, NEW used,
           NEW out \in UpdateAnchorsAfterEdit(st, old, new, h, {k}, used)
    PROVE  Enlivens(out.store.rows, st, old, h, used)
<1>1. CASE st.text = new
      BY <1>1 DEF UpdateAnchorsAfterEdit, Enlivens
<1>2. CASE st.text # new
      <2>1. PICK ens \in EnsureState(st, old), R \in HunkPairings(old, new, {k}) :
                out \in Transformed(ens, old, new, h, {k}, used, R)
            BY <1>2, UpdateSplits
      <2> DEFINE seeded == Seed(ens.rows, old, h)
                 outside == {i \in DOMAIN seeded : ~InHunk({k}, i)}
                 moves == {<<NewPosition({k}, i), i>> : i \in outside}
                 carried == Carry(R \cup moves, seeded)
                 fresh == {i \in Lines(new) : /\ \E l \in {k} : i \in l.newFrom .. l.newTo
                                              /\ \A x \in R : x[1] # i}
                 lost == {i \in (DOMAIN seeded) \ outside : \A x \in R : x[2] # i}
      <2>2. PICK mint \in Mints(fresh, used \cup Live(carried)) :
                out = [store |-> [text |-> new, rows |-> Overlay(carried, mint, new)],
                       dropped |-> {seeded[i].anchor : i \in lost}]
            BY <2>1 DEF Transformed
      <2>3. Live(ens.rows) \subseteq Live(st.rows)
            BY EnsureLive
      <2>4. \A a \in Live(seeded) : a \in Live(ens.rows) \/ \E i \in Lines(old) : a = h[i]
            BY SeedLive
      <2>5. \A x \in R \cup moves : x = <<x[1], x[2]>>
            BY SurvivorsInside
      <2> HIDE DEF seeded, moves, fresh, lost
      <2>6. Live(carried) \subseteq Live(seeded)
            BY <2>5, CarryLive
      <2> HIDE DEF carried
      <2>7. Live(Overlay(carried, mint, new))
                \subseteq Live(carried) \cup (Anchor \ (used \cup Live(carried)))
            BY OverlayLive
      <2> QED BY <2>2, <2>3, <2>4, <2>6, <2>7 DEF Enlivens
<1> QED BY <1>1, <1>2

\* Where no line is seeded the rows are as they were.
LEMMA SeedKeeps ==
    ASSUME NEW rows, NEW c, NEW h,
           \A i \in Lines(c) : h[i] # NoAnchor => i \in DOMAIN rows
    PROVE  /\ DOMAIN Seed(rows, c, h) = DOMAIN rows
           /\ \A i \in DOMAIN rows : Seed(rows, c, h)[i] = rows[i]
BY DEF Seed

\* What a release promises of the rows: the result has one row per anchor, no dropped
\* anchor among them, and none of those used before except what was live.
DropsForGood(out, st, used) ==
    /\ Unique(out.store.rows)
    /\ out.dropped \cap Live(out.store.rows) = {}
    /\ Live(out.store.rows) \cap used \subseteq Live(st.rows)

\* A transform of rows that were written for the text, one per anchor and with nothing
\* left to seed, keeps them so and drops for good.
LEMMA UpdateDrops ==
    ASSUME NEW st, NEW old, NEW new, NEW h, NEW k, NEW used, InPlace(k),
           old # <<>>, old # new, st.text = old,
           DOMAIN st.rows \subseteq Int, Unique(st.rows), Live(st.rows) \subseteq used,
           \A i \in Lines(old) : h[i] # NoAnchor => i \in DOMAIN st.rows,
           NEW out \in UpdateAnchorsAfterEdit(st, old, new, h, {k}, used)
    PROVE  out.store.text = new /\ DropsForGood(out, st, used)
<1>1. PICK ens \in EnsureState(st, old), R \in HunkPairings(old, new, {k}) :
        out \in Transformed(ens, old, new, h, {k}, used, R)
      BY UpdateSplits
<1> DEFINE seeded == Seed(ens.rows, old, h)
           outside == {i \in DOMAIN seeded : ~InHunk({k}, i)}
           lost == {i \in (DOMAIN seeded) \ outside : \A x \in R : x[2] # i}
           moves == {<<NewPosition({k}, i), i>> : i \in outside}
           carried == Carry(R \cup moves, seeded)
           fresh == {i \in Lines(new) : /\ \E l \in {k} : i \in l.newFrom .. l.newTo
                                        /\ \A x \in R : x[1] # i}
<1>2. PICK mint \in Mints(fresh, used \cup Live(carried)) :
        out = [store |-> [text |-> new, rows |-> Overlay(carried, mint, new)],
               dropped |-> {seeded[i].anchor : i \in lost}]
      BY <1>1 DEF Transformed
<1>3. /\ DOMAIN ens.rows = DOMAIN st.rows
      /\ \A i \in DOMAIN st.rows : ens.rows[i] = st.rows[i]
      /\ Unique(ens.rows)
      BY EnsureKeeps
<1>4. /\ DOMAIN seeded = DOMAIN st.rows
      /\ \A i \in DOMAIN seeded : seeded[i] = st.rows[i]
      BY <1>3, SeedKeeps
<1>5. Unique(seeded) /\ DOMAIN seeded \subseteq Int
      <2> HIDE DEF seeded
      <2> QED BY <1>4 DEF Unique
<1>6. Live(seeded) \subseteq Live(st.rows) /\ Live(seeded) \subseteq used
      <2> HIDE DEF seeded
      <2> QED BY <1>4 DEF Live
<1>7. /\ IsPairing(R)
      /\ \A x \in R : /\ x = <<x[1], x[2]>>
                      /\ x[1] \in k.newFrom .. k.newTo
                      /\ x[2] \in k.oldFrom .. k.oldTo
      BY SurvivorsInside
<1>8. IsPairing(R \cup moves)
      <2>1. outside \subseteq Int /\ \A i \in outside : ~InHunk({k}, i)
            BY <1>5
      <2> HIDE DEF outside
      <2> QED BY <1>7, <2>1, MovesPair, ZenonT(60)
<1>9. \A x \in R \cup moves : x = <<x[1], x[2]>>
      BY <1>7
<1>10. \A x \in moves : x[2] \in outside
      <2> HIDE DEF outside
      <2> QED OBVIOUS
<1> HIDE DEF seeded, moves
<1>11. Unique(carried)
      BY <1>5, <1>8, <1>9, CarryUnique
<1>12. ASSUME NEW i \in lost, NEW j \in DOMAIN carried,
              carried[j].anchor = seeded[i].anchor
       PROVE  FALSE
      <2>1. PICK n \in DOMAIN seeded : <<j, n>> \in R \cup moves /\ carried[j] = seeded[n]
            BY <1>9, CarryRow
      <2>2. n = i
            BY <1>5, <1>12, <2>1 DEF Unique
      <2>3. <<j, n>>[2] = i
            BY <2>2
      <2>4. <<j, n>> \notin R
            BY <2>3
      <2>5. <<j, n>> \notin moves
            BY <1>10, <2>3
      <2> QED BY <2>1, <2>4, <2>5
<1>13. \A i \in lost : seeded[i].anchor \notin Live(carried) /\ seeded[i].anchor \in used
      <2>1. \A i \in lost : seeded[i].anchor \in Live(seeded)
            BY DEF Live
      <2> HIDE DEF lost, carried
      <2> QED BY <1>6, <1>12, <2>1 DEF Live
<1>14. Live(carried) \subseteq Live(st.rows)
      <2>1. Live(carried) \subseteq Live(seeded)
            BY <1>9, CarryLive
      <2> HIDE DEF carried
      <2> QED BY <1>6, <2>1
<1> HIDE DEF carried, fresh, lost
<1>15. Unique(Overlay(carried, mint, new))
      BY <1>11, OverlayUnique
<1>16. Live(Overlay(carried, mint, new))
            \subseteq Live(carried) \cup (Anchor \ (used \cup Live(carried)))
      BY OverlayLive
<1> QED BY <1>2, <1>13, <1>14, <1>15, <1>16 DEF DropsForGood

-----------------------------------------------------------------------------
\* The calls of AnchorStore: types, rows, served views and responses.

\* Line numbers up to a bound.
LEMMA FirstLines ==
    ASSUME NEW n \in Int
    PROVE  IsFiniteSet(1 .. n)
BY FS_Interval

\* A projection is a sequence over the text's lines.
LEMMA AnchorsForType ==
    ASSUME NEW c \in Seq(Text), NEW rows, RowsTyped(rows)
    PROVE  /\ AnchorsFor(rows, c) \in Seq(Anchor \cup {NoAnchor})
           /\ Len(AnchorsFor(rows, c)) = Len(c)
           /\ DOMAIN AnchorsFor(rows, c) = Lines(c)
<1>1. \A i \in DOMAIN rows : rows[i].anchor \in Anchor
      BY DEF RowsTyped, Row
<1>2. AnchorsFor(rows, c) \in [1 .. Len(c) -> Anchor \cup {NoAnchor}]
      BY <1>1 DEF AnchorsFor, Lines
<1>3. Len(c) \in Nat
      OBVIOUS
<1>4. AnchorsFor(rows, c) \in Seq(Anchor \cup {NoAnchor})
      BY <1>2, <1>3, SeqDef
<1>5. DOMAIN AnchorsFor(rows, c) = 1 .. Len(c)
      BY <1>2
<1>6. Len(AnchorsFor(rows, c)) = Len(c)
      BY <1>3, <1>4, <1>5
<1> QED BY <1>4, <1>5, <1>6 DEF Lines

\* Two line numbers: Min and Max of the pair.
LEMMA MinOfTwo ==
    ASSUME NEW a \in Int, NEW b \in Int
    PROVE  /\ Min({a, b}) \in {a, b} /\ Min({a, b}) <= a /\ Min({a, b}) <= b
           /\ Max({a, b}) \in {a, b} /\ Max({a, b}) >= a /\ Max({a, b}) >= b
<1>1. IsFiniteSet({a}) /\ {a, b} = {a} \cup {b}
      BY FS_Singleton
<1>2. IsFiniteSet({a, b})
      BY <1>1, FS_AddElement
<1>3. {a, b} \in SUBSET Int /\ {a, b} # {} /\ a \in {a, b} /\ b \in {a, b}
      OBVIOUS
<1>4. Min({a, b}) \in {a, b} /\ \A y \in {a, b} : Min({a, b}) <= y
      BY <1>2, <1>3, MinInt
<1>5. Max({a, b}) \in {a, b} /\ \A y \in {a, b} : Max({a, b}) >= y
      BY <1>2, <1>3, MaxInt
<1> QED BY <1>4, <1>5

\* An anchor that resolves does so at a line of the projection.
LEMMA FirstIsLine ==
    ASSUME NEW n \in Nat, NEW h, DOMAIN h = 1 .. n, NEW a, Resolves(h, a)
    PROVE  First(h, a) \in 1 .. n /\ h[First(h, a)] = a
<1>1. Found(h, a) \in SUBSET (1 .. n) /\ Found(h, a) # {}
      BY DEF Found, Resolves
<1>2. IsFiniteSet(Found(h, a))
      BY <1>1, FS_Interval, FS_Subset
<1>3. Found(h, a) \in SUBSET Int
      BY <1>1
<1>4. First(h, a) \in Found(h, a)
      BY <1>1, <1>2, <1>3, MinInt DEF First
<1> QED BY <1>4 DEF Found

\* The bounds of a resolved item are lines, in order.
LEMMA BoundsAreLines ==
    ASSUME NEW n \in Nat, NEW h, DOMAIN h = 1 .. n, NEW item, Resolved(h, item)
    PROVE  /\ Lo(h, item) \in 1 .. n /\ Hi(h, item) \in 1 .. n
           /\ Lo(h, item) <= Hi(h, item)
<1> DEFINE from == First(h, item.from)
           to == First(h, item.to)
<1>1. from \in 1 .. n /\ to \in 1 .. n
      BY FirstIsLine DEF Resolved
<1>2. Lo(h, item) = Min({from, to}) /\ Hi(h, item) = Max({from, to})
      BY DEF Lo, Hi
<1> HIDE DEF from, to
<1>3. from \in Int /\ to \in Int
      BY <1>1
<1>4. /\ Min({from, to}) \in {from, to} /\ Min({from, to}) <= from
      /\ Max({from, to}) \in {from, to} /\ Max({from, to}) >= from
      BY <1>3, MinOfTwo
<1> QED BY <1>1, <1>2, <1>4

\* Splicing lines into a text gives a text.
LEMMA SpliceType ==
    ASSUME NEW c \in Seq(Text), NEW lo \in Lines(c), NEW hi \in Lines(c), lo <= hi,
           NEW lines \in Seq(Text)
    PROVE  /\ Splice(c, lo, hi, lines) \in Seq(Text)
           /\ Len(Splice(c, lo, hi, lines)) = Len(c) + Len(lines) - (hi - lo + 1)
<1> DEFINE n == Len(c) + (Len(lines) - (hi - lo + 1))
           new == Splice(c, lo, hi, lines)
<1>1. Len(c) \in Nat /\ Len(lines) \in Nat /\ lo \in 1 .. Len(c) /\ hi \in 1 .. Len(c)
      BY DEF Lines
<1>2. n \in Nat
      BY <1>1
<1>3. /\ \A i \in 1 .. Len(c) : c[i] \in Text
      /\ \A i \in 1 .. Len(lines) : lines[i] \in Text
      BY DEF Lines
<1>4. new = [i \in 1 .. n |->
                IF i < lo THEN c[i]
                ELSE IF i < lo + Len(lines) THEN lines[i - lo + 1]
                ELSE c[i - (Len(lines) - (hi - lo + 1))]]
      BY DEF Splice
<1>5. \A i \in 1 .. n : new[i] \in Text
      <2> TAKE i \in 1 .. n
      <2>1. CASE i < lo
            BY <1>1, <1>3, <1>4, <2>1
      <2>2. CASE ~(i < lo) /\ i < lo + Len(lines)
            BY <1>1, <1>3, <1>4, <2>2
      <2>3. CASE ~(i < lo) /\ ~(i < lo + Len(lines))
            <3>1. i - (Len(lines) - (hi - lo + 1)) \in 1 .. Len(c)
                  BY <1>1, <2>3
            <3> QED BY <1>3, <1>4, <2>3, <3>1
      <2> QED BY <2>1, <2>2, <2>3
<1>6. new \in [1 .. n -> Text]
      BY <1>4, <1>5
<1> HIDE DEF new
<1>7. new \in Seq(Text)
      BY <1>2, <1>6, SeqDef
<1>8. Len(new) = n
      BY <1>2, <1>6, <1>7
<1> QED BY <1>1, <1>7, <1>8 DEF new

\* Every anchor a line of a text resolves to is a line of it, whatever the rows.
LEMMA ProbeLinesType ==
    ASSUME NEW rows, RowsTyped(rows), NEW seen, NEW c, NEW h, NEW L \in SUBSET Int
    PROVE  ProbeLines(rows, seen, c, h, L) \in SUBSET Int
<1>1. \A i \in L : ProbeLine(rows, seen, c, h[i], i) \in SUBSET Int
      BY DEF ProbeLine, RowsNaming, RowsTyped
<1> QED BY <1>1 DEF ProbeLines

\* The served record keeps its type when lines of a text are served.
LEMMA ServeType ==
    ASSUME NEW record \in [Anchor -> Key \cup {Unserved, Keyless}],
           NEW anchors, NEW c \in Seq(Text), NEW L \in SUBSET Lines(c)
    PROVE  Serve(record, anchors, L, c) \in [Anchor -> Key \cup {Unserved, Keyless}]
<1> DEFINE under(a) == {i \in L : anchors[i] = a}
<1>1. ASSUME NEW a \in Anchor, under(a) # {}
      PROVE  Canon[c[Max(under(a))]] \in Key
      <2>1. Len(c) \in Nat /\ L \in SUBSET (1 .. Len(c))
            BY DEF Lines
      <2>2. under(a) \in SUBSET (1 .. Len(c))
            BY <2>1
      <2> HIDE DEF under
      <2>5. IsFiniteSet(1 .. Len(c))
            BY <2>1, FS_Interval
      <2>3. IsFiniteSet(under(a)) /\ under(a) \in SUBSET Int
            BY <2>2, <2>5, FS_Subset
      <2>4. Max(under(a)) \in 1 .. Len(c)
            BY <1>1, <2>2, <2>3, MaxInt
      <2> QED BY <2>4, CanonAssumption
<1>2. Serve(record, anchors, L, c)
        = [a \in Anchor |-> IF under(a) = {} THEN record[a] ELSE Canon[c[Max(under(a))]]]
      BY DEF Serve
<1> HIDE DEF under
<1> QED BY <1>1, <1>2

\* An expanded insertion is still an item.
LEMMA ExpandType ==
    ASSUME NEW c \in Seq(Text), NEW h, DOMAIN h = Lines(c), NEW item \in EditItem
    PROVE  Expand(c, h, item) \in EditItem
<1>1. CASE item.op = "ins" /\ Resolves(h, item.from)
      <2>1. First(h, item.from) \in 1 .. Len(c)
            BY <1>1, FirstIsLine DEF Lines
      <2>2. c[First(h, item.from)] \in Text
            BY <2>1
      <2> DEFINE x == c[First(h, item.from)]
      <2>3. <<x>> \o item.lines \in Seq(Text)
            BY <2>2 DEF EditItem
      <2>4. Expand(c, h, item) = [item EXCEPT !.lines = <<x>> \o @]
            BY <1>1 DEF Expand
      <2> HIDE DEF x
      <2> QED BY <2>3, <2>4 DEF EditItem
<1>2. CASE ~(item.op = "ins" /\ Resolves(h, item.from))
      BY <1>2 DEF Expand
<1> QED BY <1>1, <1>2

-----------------------------------------------------------------------------
(* type correctness *)

Served == [Anchor -> Key \cup {Unserved, Keyless}]

\* What the types rest on: a call in progress has a text, and one that is at an
\* item projects the rows onto that text and has an item to be at.
CallOK(v) ==
    /\ v.pc # "idle" => v.cur # <<>>
    /\ v.pc \in {"probe", "mint", "verify"} =>
            DOMAIN v.h = Lines(v.cur) /\ v.items # <<>>
    /\ v.pc = "open" => v.spans = {}

TypeInv == TypeOK /\ \A t \in Task : CallOK(call[t])

\* A task between calls.
LEMMA IdleType == Idle \in CallType /\ CallOK(Idle)
BY DEF Idle, CallType, CallOK, Chain

\* One task moves to a well-typed record.
LEMMA CallMoves ==
    ASSUME TypeInv, NEW t \in Task, NEW v \in CallType, CallOK(v),
           call' = [call EXCEPT ![t] = v]
    PROVE  call' \in [Task -> CallType] /\ \A u \in Task : CallOK(call'[u])
BY DEF TypeInv, TypeOK

\* A call ends.
LEMMA CallEnds ==
    ASSUME TypeInv, NEW t \in Task, Finish(t)
    PROVE  call' \in [Task -> CallType] /\ \A u \in Task : CallOK(call'[u])
BY IdleType, CallMoves DEF Finish

\* An item under way resolves to a splice of the call's text.
LEMMA ResultType ==
    ASSUME TypeInv, NEW t \in Task, Accepted(t)
    PROVE  /\ call[t].cur \in Seq(Text)
           /\ Item(t) \in EditItem
           /\ Lo(call[t].h, Item(t)) \in Lines(call[t].cur)
           /\ Hi(call[t].h, Item(t)) \in Lines(call[t].cur)
           /\ Lo(call[t].h, Item(t)) <= Hi(call[t].h, Item(t))
           /\ Result(t) \in Seq(Text)
           /\ IsHunk(Hunk(t))
<1>1. /\ call[t].cur \in Seq(Text)
      /\ DOMAIN call[t].h = Lines(call[t].cur)
      /\ call[t].items \in Seq(EditItem) /\ call[t].items # <<>>
      BY DEF Accepted, TypeInv, TypeOK, CallOK, CallType
<1>2. Item(t) \in EditItem
      BY <1>1, HeadTailProperties DEF Item
<1>3. /\ Lo(call[t].h, Item(t)) \in Lines(call[t].cur)
      /\ Hi(call[t].h, Item(t)) \in Lines(call[t].cur)
      /\ Lo(call[t].h, Item(t)) <= Hi(call[t].h, Item(t))
      <2>1. Len(call[t].cur) \in Nat /\ DOMAIN call[t].h = 1 .. Len(call[t].cur)
            BY <1>1 DEF Lines
      <2>2. Resolved(call[t].h, Item(t))
            BY DEF Accepted, Stale
      <2> QED BY <2>1, <2>2, BoundsAreLines DEF Lines
<1>4. Item(t).lines \in Seq(Text)
      BY <1>2 DEF EditItem
<1>5. Result(t) \in Seq(Text)
      BY <1>1, <1>3, <1>4, SpliceType DEF Result
<1>6. IsHunk(Hunk(t))
      BY <1>1, <1>3, <1>4 DEF IsHunk, Hunk, Lines
<1> QED BY <1>1, <1>2, <1>3, <1>5, <1>6

\* The initial state.
LEMMA TypeInit == Init => TypeInv
<1> SUFFICES ASSUME Init
             PROVE  TypeInv
    OBVIOUS
<1>1. call \in [Task -> CallType] /\ \A t \in Task : CallOK(call[t])
      BY IdleType DEF Init
<1>2. disk \in Seq(Text) \ {<<>>}
      BY TextAssumption DEF Init
<1>3. store.text \in Seq(Text) /\ \A i \in DOMAIN store.rows : i \in Int /\ store.rows[i] \in Row
      BY DEF Init, NoRows
<1>4. served \in [Session -> [Anchor -> Key \cup {Unserved, Keyless}]] /\ pool \in SUBSET Anchor
      BY DEF Init
<1> QED BY <1>1, <1>2, <1>3, <1>4 DEF TypeInv, TypeOK

-----------------------------------------------------------------------------
\* A call begins.
LEMMA OpenType ==
    ASSUME TypeInv, NEW t \in Task, OpenRead(t) \/ OpenEdit(t)
    PROVE  TypeInv'
<1> DEFINE v(pc) == [Idle EXCEPT !.pc = pc, !.cur = disk]
<1>1. disk \in Seq(Text) /\ disk # <<>>
      BY DEF TypeInv, TypeOK
<1>2. \A pc \in {"read", "open"} : v(pc) \in CallType /\ CallOK(v(pc))
      BY <1>1, IdleType DEF CallType, CallOK, Idle
<1>3. PICK pc \in {"read", "open"} : call' = [call EXCEPT ![t] = v(pc)]
      BY DEF OpenRead, OpenEdit
<1> HIDE DEF v
<1>4. call' \in [Task -> CallType] /\ \A u \in Task : CallOK(call'[u])
      BY <1>2, <1>3, CallMoves
<1> QED BY <1>4 DEF OpenRead, OpenEdit, TypeInv, TypeOK

\* A call ends and touches nothing else.
LEMMA EndType ==
    ASSUME TypeInv, NEW t \in Task, Finish(t), UNCHANGED <<disk, store, served, pool>>
    PROVE  TypeInv'
BY CallEnds DEF TypeInv, TypeOK

\* Rows and record after a window is minted and served.
LEMMA MintedType ==
    ASSUME TypeInv, NEW t \in Task, NEW c \in Seq(Text), NEW W \in SUBSET Lines(c),
           NEW out \in AnchorFor(store, c, W, pool), NEW anchors
    PROVE  /\ out.text = c
           /\ \A i \in DOMAIN out.rows : i \in Int /\ out.rows[i] \in Row
           /\ [served EXCEPT ![SessionOf[t]] = Serve(@, anchors, W, c)]
                \in [Session -> [Anchor -> Key \cup {Unserved, Keyless}]]
<1>1. RowsTyped(store.rows)
      BY DEF TypeInv, TypeOK, RowsTyped
<1>2. out.text = c /\ RowsTyped(out.rows)
      BY <1>1, AnchorForTyped
<1>3. SessionOf[t] \in Session
      BY SessionAssumption
<1>4. served \in [Session -> [Anchor -> Key \cup {Unserved, Keyless}]]
      BY DEF TypeInv, TypeOK
<1>5. served[SessionOf[t]] \in [Anchor -> Key \cup {Unserved, Keyless}]
      BY <1>3, <1>4
<1>6. Serve(served[SessionOf[t]], anchors, W, c) \in [Anchor -> Key \cup {Unserved, Keyless}]
      BY <1>5, ServeType
<1> QED BY <1>2, <1>3, <1>4, <1>6 DEF RowsTyped

\* A read mints and serves.
LEMMA ReadType ==
    ASSUME TypeInv, NEW t \in Task, NEW lo \in 1 .. MaxLine, NEW hi \in 1 .. MaxLine,
           ServeRead(t, lo, hi)
    PROVE  TypeInv'
<1>1. call[t].cur \in Seq(Text)
      BY DEF TypeInv, TypeOK, CallType
<1>2. lo .. hi \in SUBSET Lines(call[t].cur)
      BY <1>1, BoundAssumption DEF ServeRead, Lines
<1>3. store' \in AnchorFor(store, call[t].cur, lo .. hi, pool)
      BY DEF ServeRead
<1>4. /\ store'.text \in Seq(Text)
      /\ \A i \in DOMAIN store'.rows : i \in Int /\ store'.rows[i] \in Row
      /\ served' \in [Session -> [Anchor -> Key \cup {Unserved, Keyless}]]
      BY <1>1, <1>2, <1>3, MintedType DEF ServeRead
<1>5. call' \in [Task -> CallType] /\ \A u \in Task : CallOK(call'[u])
      BY CallEnds DEF ServeRead
<1> QED BY <1>4, <1>5 DEF ServeRead, TypeInv, TypeOK

\* A batch is planned.
LEMMA PlanType ==
    ASSUME TypeInv, NEW t \in Task, NEW n \in 1 .. MaxItems,
           NEW items \in [1 .. n -> Request], Plan(t, items)
    PROVE  TypeInv'
<1> DEFINE c == call[t].cur
           h == AnchorsFor(store.rows, c)
           expanded == [k \in DOMAIN items |-> Expand(c, h, items[k])]
           v == [call[t] EXCEPT !.pc = "probe", !.inStep = InStep(c),
                    !.placed = \A k \in DOMAIN items : Resolved(h, items[k]),
                    !.base = c, !.h0 = h, !.h = h,
                    !.seen = served[SessionOf[t]], !.items = expanded]
<1>1. /\ call[t] \in CallType /\ c \in Seq(Text) /\ c # <<>>
      /\ served[SessionOf[t]] \in [Anchor -> Key \cup {Unserved, Keyless}]
      BY SessionAssumption DEF Plan, TypeInv, TypeOK, CallType, CallOK
<1>2. RowsTyped(store.rows)
      BY DEF TypeInv, TypeOK, RowsTyped
<1>3. h \in Seq(Anchor \cup {NoAnchor}) /\ DOMAIN h = Lines(c)
      BY <1>1, <1>2, AnchorsForType
<1>4. expanded \in Seq(EditItem) /\ expanded # <<>>
      <2> HIDE DEF c, h
      <2>1. \A k \in 1 .. n : Expand(c, h, items[k]) \in EditItem
            BY <1>1, <1>3, ExpandType, RequestAssumption
      <2>2. n \in Nat /\ n >= 1
            BY BoundAssumption
      <2>3. expanded \in [1 .. n -> EditItem]
            BY <2>1
      <2> HIDE DEF expanded
      <2>4. expanded \in Seq(EditItem)
            BY <2>2, <2>3, SeqDef
      <2>5. Len(expanded) = n
            BY <2>2, <2>3, <2>4
      <2> QED BY <2>2, <2>4, <2>5
<1>5. v \in CallType /\ CallOK(v)
      <2>1. InStep(c) \in BOOLEAN
            BY DEF InStep
      <2> HIDE DEF h, expanded
      <2> QED BY <1>1, <1>3, <1>4, <2>1 DEF CallType, CallOK, Chain
<1>6. Finish(t) \/ call' = [call EXCEPT ![t] = v]
      BY DEF Plan, Finish
<1> HIDE DEF v
<1>7. call' \in [Task -> CallType] /\ \A u \in Task : CallOK(call'[u])
      BY <1>5, <1>6, CallEnds, CallMoves
<1> QED BY <1>7 DEF Plan, TypeInv, TypeOK

\* An item is probed.
LEMMA ProbeType ==
    ASSUME TypeInv, NEW t \in Task, Probe(t)
    PROVE  TypeInv'
<1> DEFINE c == call[t].cur
           h == call[t].h
           asked == Resolves(h, Item(t).from) /\ Asked(t) # {}
           bad == IF asked
                  THEN ProbeLines(store.rows, served[SessionOf[t]], c, h, Asked(t)) ELSE {}
           pc == IF Resolves(h, Item(t).from) /\ (asked => bad # {})
                 THEN "mint" ELSE "verify"
           v == [call[t] EXCEPT !.asked = asked, !.bad = bad, !.pc = pc]
<1>1. call[t] \in CallType /\ call[t].pc = "probe" /\ CallOK(call[t])
      BY DEF Probe, TypeInv, TypeOK
<1>2. RowsTyped(store.rows)
      BY DEF TypeInv, TypeOK, RowsTyped
<1>3. bad \in SUBSET Int
      <2>1. Asked(t) \in SUBSET Int
            BY DEF Asked
      <2> QED BY <1>2, <2>1, ProbeLinesType
<1>4. v \in CallType /\ CallOK(v)
      <2>1. asked \in BOOLEAN /\ pc \in {"mint", "verify"}
            OBVIOUS
      <2> HIDE DEF asked, bad, pc
      <2> QED BY <1>1, <1>3, <2>1 DEF CallType, CallOK, Chain
<1>5. call' = [call EXCEPT ![t] = v]
      <2>1. call' = [call EXCEPT ![t].asked = asked, ![t].bad = bad, ![t].pc = pc]
            BY DEF Probe
      <2>2. call \in [Task -> CallType]
            BY DEF TypeInv, TypeOK
      <2> HIDE DEF asked, bad, pc
      <2> QED BY <2>1, <2>2
<1> HIDE DEF v
<1>6. call' \in [Task -> CallType] /\ \A u \in Task : CallOK(call'[u])
      BY <1>4, <1>5, CallMoves
<1> QED BY <1>6 DEF Probe, TypeInv, TypeOK

\* The program counter alone moves.
LEMMA PcMoves ==
    ASSUME TypeInv, NEW t \in Task, NEW pc, call' = [call EXCEPT ![t].pc = pc],
           \/ call[t].pc = "mint" /\ pc = "verify"
           \/ call[t].pc = "commit" /\ pc = "serve"
           \/ call[t].pc = "write" /\ pc = "record"
    PROVE  call' \in [Task -> CallType] /\ \A u \in Task : CallOK(call'[u])
<1> DEFINE v == [call[t] EXCEPT !.pc = pc]
<1>1. call \in [Task -> CallType] /\ CallOK(call[t]) /\ call[t] \in CallType
      BY DEF TypeInv, TypeOK
<1>2. v \in CallType
      BY <1>1 DEF CallType, Chain
<1>3. v.pc = pc /\ v.cur = call[t].cur /\ v.h = call[t].h /\ v.items = call[t].items
      BY <1>1 DEF CallType
<1>4. call' = [call EXCEPT ![t] = v]
      BY <1>1
<1> HIDE DEF v
<1>5. CallOK(v)
      BY <1>1, <1>3 DEF CallOK
<1> QED BY <1>2, <1>4, <1>5, CallMoves

\* A window is minted for a refusal.
LEMMA MintEchoType ==
    ASSUME TypeInv, NEW t \in Task, MintEcho(t)
    PROVE  TypeInv'
<1>1. call[t].cur \in Seq(Text) /\ EchoWindow(t) \in SUBSET Lines(call[t].cur)
      BY DEF TypeInv, TypeOK, CallType, EchoWindow
<1>2. store' \in AnchorFor(store, call[t].cur, EchoWindow(t), pool)
      BY DEF MintEcho
<1>3. /\ store'.text \in Seq(Text)
      /\ \A i \in DOMAIN store'.rows : i \in Int /\ store'.rows[i] \in Row
      /\ served' \in [Session -> [Anchor -> Key \cup {Unserved, Keyless}]]
      BY <1>1, <1>2, MintedType DEF MintEcho
<1>4. call' \in [Task -> CallType] /\ \A u \in Task : CallOK(call'[u])
      BY PcMoves DEF MintEcho
<1> QED BY <1>3, <1>4 DEF MintEcho, TypeInv, TypeOK

\* The refusal serves it.
LEMMA RejectType ==
    ASSUME TypeInv, NEW t \in Task, Reject(t)
    PROVE  TypeInv'
<1>1. call[t].cur \in Seq(Text) /\ EchoLines(t) \in SUBSET Lines(call[t].cur)
      BY DEF TypeInv, TypeOK, CallType, EchoLines
<1>2. /\ SessionOf[t] \in Session
      /\ served \in [Session -> [Anchor -> Key \cup {Unserved, Keyless}]]
      BY SessionAssumption DEF TypeInv, TypeOK
<1>3. Serve(served[SessionOf[t]], EchoAnchors(t), EchoLines(t), call[t].cur)
        \in [Anchor -> Key \cup {Unserved, Keyless}]
      BY <1>1, <1>2, ServeType
<1>4. served' \in [Session -> [Anchor -> Key \cup {Unserved, Keyless}]]
      BY <1>2, <1>3 DEF Reject
<1>5. call' \in [Task -> CallType] /\ \A u \in Task : CallOK(call'[u])
      BY CallEnds DEF Reject
<1> QED BY <1>4, <1>5 DEF Reject, TypeInv, TypeOK

\* An item changes nothing.
LEMMA NoopType ==
    ASSUME TypeInv, NEW t \in Task, Noop(t)
    PROVE  TypeInv'
<1> DEFINE rest == Tail(call[t].items)
           pc == NextPc(rest, call[t].spans)
           v == IF pc = "idle" THEN Idle
                ELSE [call[t] EXCEPT !.pc = pc, !.items = rest, !.asked = FALSE, !.bad = {}]
<1>1. /\ call[t] \in CallType /\ call[t].pc = "verify" /\ CallOK(call[t])
      /\ call[t].items \in Seq(EditItem) /\ call[t].items # <<>>
      BY DEF Noop, Accepted, TypeInv, TypeOK, CallOK, CallType
<1>2. rest \in Seq(EditItem)
      BY <1>1, HeadTailProperties
<1>3. /\ pc \in {"probe", "commit", "idle"}
      /\ pc = "probe" => rest # <<>>
      BY DEF NextPc
<1>4. v \in CallType /\ CallOK(v)
      <2> HIDE DEF rest, pc
      <2>1. CASE pc = "idle"
            BY <2>1, IdleType
      <2>2. CASE pc # "idle"
            BY <1>1, <1>2, <1>3, <2>2 DEF CallType, CallOK, Chain
      <2> QED BY <2>1, <2>2
<1>5. call' = [call EXCEPT ![t] = v]
      BY DEF Noop
<1> HIDE DEF v
<1>6. call' \in [Task -> CallType] /\ \A u \in Task : CallOK(call'[u])
      BY <1>4, <1>5, CallMoves
<1> QED BY <1>6 DEF Noop, TypeInv, TypeOK

\* An item is applied.
LEMMA ApplyType ==
    ASSUME TypeInv, NEW t \in Task, Apply(t)
    PROVE  TypeInv'
<1> DEFINE old == call[t].cur
           new == Result(t)
           rest == Tail(call[t].items)
           spans == call[t].spans \cup {Hunk(t)}
           used == Live(store.rows) \cup pool
           v(out) == [call[t] EXCEPT
                        !.pc = NextPc(rest, spans), !.items = rest, !.spans = spans,
                        !.cur = new, !.h = AnchorsFor(out.store.rows, new),
                        !.asked = FALSE, !.bad = {},
                        !.dropped = call[t].dropped \cup out.dropped,
                        !.seen = Forget(call[t].seen, out.dropped)]
<1>1. PICK out \in UpdateAnchorsAfterEdit(store, old, new, call[t].h, {Hunk(t)}, used) :
        /\ store' = out.store
        /\ pool' = Sealed(pool, out.dropped)
        /\ call' = [call EXCEPT ![t] = v(out)]
      BY DEF Apply
<1>2. /\ call[t] \in CallType /\ CallOK(call[t]) /\ call[t].pc = "verify"
      /\ call[t].items \in Seq(EditItem) /\ call[t].items # <<>>
      /\ call[t].h \in Seq(Anchor \cup {NoAnchor})
      BY DEF Apply, Accepted, TypeInv, TypeOK, CallOK, CallType
<1>3. old \in Seq(Text) /\ new \in Seq(Text) /\ IsHunk(Hunk(t)) /\ new # <<>>
      BY ResultType DEF Apply
<1>4. \A i \in Lines(old) : call[t].h[i] \in Anchor \cup {NoAnchor}
      BY <1>2 DEF CallOK
<1>5. RowsTyped(store.rows)
      BY DEF TypeInv, TypeOK, RowsTyped
<1> HIDE DEF old, new, used
<1>6. out.store.text = new /\ RowsTyped(out.store.rows) /\ out.dropped \subseteq Anchor
      <2> DEFINE h == call[t].h
                 k == Hunk(t)
      <2>1. out \in UpdateAnchorsAfterEdit(store, old, new, h, {k}, used)
            OBVIOUS
      <2>2. \A i \in Lines(old) : h[i] \in Anchor \cup {NoAnchor}
            BY <1>4
      <2>3. IsHunk(k)
            BY <1>3
      <2> HIDE DEF h, k
      <2>4. LeavesTyped(out, new)
            BY <1>3, <1>5, <2>1, <2>2, <2>3, UpdateTyped
      <2> QED BY <2>4 DEF LeavesTyped
<1>7. /\ AnchorsFor(out.store.rows, new) \in Seq(Anchor \cup {NoAnchor})
      /\ DOMAIN AnchorsFor(out.store.rows, new) = Lines(new)
      BY <1>3, <1>6, AnchorsForType
<1>8. rest \in Seq(EditItem)
      BY <1>2, HeadTailProperties
<1>9. spans \in SUBSET [oldFrom : Int, oldTo : Int, newFrom : Int, newTo : Int]
      <2>1. Hunk(t) \in [oldFrom : Int, oldTo : Int, newFrom : Int, newTo : Int]
            BY <1>3 DEF IsHunk, Hunk
      <2> QED BY <1>2, <2>1 DEF CallType
<1>10. NextPc(rest, spans) \in {"probe", "commit"} /\ (NextPc(rest, spans) = "probe" => rest # <<>>)
      BY DEF NextPc
<1>11. v(out) \in CallType /\ CallOK(v(out))
      <2> DEFINE pc == NextPc(rest, spans)
                 h == AnchorsFor(out.store.rows, new)
      <2> HIDE DEF rest, spans, pc, h
      <2>1. pc \in {"probe", "commit"} /\ (pc = "probe" => rest # <<>>)
            BY <1>10 DEF pc
      <2>2. h \in Seq(Anchor \cup {NoAnchor}) /\ DOMAIN h = Lines(new)
            BY <1>7 DEF h
      <2>3. v(out) = [call[t] EXCEPT
                        !.pc = pc, !.items = rest, !.spans = spans,
                        !.cur = new, !.h = h, !.asked = FALSE, !.bad = {},
                        !.dropped = call[t].dropped \cup out.dropped,
                        !.seen = Forget(call[t].seen, out.dropped)]
            BY DEF pc, h
      <2>4. /\ Forget(call[t].seen, out.dropped) \in [Anchor -> Key \cup {Unserved, Keyless}]
            /\ call[t].dropped \cup out.dropped \in SUBSET Anchor
            BY <1>2, <1>6 DEF Forget, CallType
      <2> HIDE DEF v
      <2>5. v(out) \in CallType
            BY <1>2, <1>3, <1>8, <1>9, <2>1, <2>2, <2>3, <2>4, ZenonT(60) DEF CallType, Chain
      <2>6. v(out).pc = pc /\ v(out).cur = new /\ v(out).h = h /\ v(out).items = rest
            BY <1>2, <2>3 DEF CallType
      <2> QED BY <1>3, <2>1, <2>2, <2>5, <2>6 DEF CallOK
<1> HIDE DEF v
<1>12. call' \in [Task -> CallType] /\ \A u \in Task : CallOK(call'[u])
      BY <1>1, <1>11, CallMoves
<1>13. pool' \in SUBSET Anchor
      BY <1>1, <1>6 DEF Sealed, TypeInv, TypeOK
<1> QED BY <1>1, <1>3, <1>6, <1>12, <1>13 DEF Apply, TypeInv, TypeOK, RowsTyped

\* The batch's transaction.
LEMMA CommitType ==
    ASSUME TypeInv, NEW t \in Task, CommitBatch(t)
    PROVE  TypeInv'
<1>1. /\ SessionOf[t] \in Session
      /\ served \in [Session -> [Anchor -> Key \cup {Unserved, Keyless}]]
      /\ call[t].dropped \in SUBSET Anchor /\ pool \in SUBSET Anchor
      BY SessionAssumption DEF TypeInv, TypeOK, CallType
<1>2. Forget(served[SessionOf[t]], call[t].dropped) \in [Anchor -> Key \cup {Unserved, Keyless}]
      BY <1>1 DEF Forget
<1>3. served' \in [Session -> [Anchor -> Key \cup {Unserved, Keyless}]]
      BY <1>1, <1>2 DEF CommitBatch
<1>4. pool' \in SUBSET Anchor
      BY <1>1 DEF CommitBatch
<1>5. call' \in [Task -> CallType] /\ \A u \in Task : CallOK(call'[u])
      BY PcMoves DEF CommitBatch
<1> QED BY <1>3, <1>4, <1>5 DEF CommitBatch, TypeInv, TypeOK

\* The response's window is minted and served.
LEMMA WindowType ==
    ASSUME TypeInv, NEW t \in Task, ServeWindow(t)
    PROVE  TypeInv'
<1> DEFINE c == call[t].cur
           window == DiffWindow(call[t].base, c, Pad)
           v == [Idle EXCEPT !.pc = "write", !.cur = c, !.shown = window,
                    !.h = AnchorsFor(store'.rows, c),
                    !.dropped = call[t].dropped, !.inStep = call[t].inStep]
<1>1. /\ c \in Seq(Text) /\ c # <<>>
      /\ call[t].dropped \in SUBSET Anchor /\ call[t].inStep \in BOOLEAN
      BY DEF ServeWindow, TypeInv, TypeOK, CallType, CallOK
<1>2. window \in SUBSET Lines(c)
      BY DEF DiffWindow
<1> HIDE DEF window
<1>3. /\ store'.text \in Seq(Text)
      /\ \A i \in DOMAIN store'.rows : i \in Int /\ store'.rows[i] \in Row
      /\ served' \in [Session -> [Anchor -> Key \cup {Unserved, Keyless}]]
      <2>1. CASE window = {}
            BY <2>1 DEF ServeWindow, TypeInv, TypeOK, window
      <2>2. CASE window # {}
            <3>1. store' \in AnchorFor(store, c, window, pool)
                  BY <2>2 DEF ServeWindow, window
            <3>2. served' = [served EXCEPT ![SessionOf[t]] =
                                Serve(@, AnchorsFor(store'.rows, c), window, c)]
                  BY <2>2 DEF ServeWindow, window
            <3> HIDE DEF c
            <3> QED BY <1>1, <1>2, <3>1, <3>2, MintedType
      <2> QED BY <2>1, <2>2
<1>4. AnchorsFor(store'.rows, c) \in Seq(Anchor \cup {NoAnchor})
      BY <1>1, <1>3, AnchorsForType DEF RowsTyped
<1>5. v \in CallType /\ CallOK(v)
      <2> DEFINE h == AnchorsFor(store'.rows, c)
      <2>1. h \in Seq(Anchor \cup {NoAnchor}) /\ window \in SUBSET Int
            BY <1>2, <1>4 DEF Lines
      <2> HIDE DEF h, c
      <2>2. v = [Idle EXCEPT !.pc = "write", !.cur = c, !.shown = window, !.h = h,
                    !.dropped = call[t].dropped, !.inStep = call[t].inStep]
            BY DEF h
      <2> HIDE DEF v
      <2> QED BY <1>1, <2>1, <2>2, IdleType DEF Idle, CallType, CallOK, Chain
<1>6. call' = [call EXCEPT ![t] = v]
      BY DEF ServeWindow, window
<1> HIDE DEF v
<1>7. call' \in [Task -> CallType] /\ \A u \in Task : CallOK(call'[u])
      BY <1>5, <1>6, CallMoves
<1> QED BY <1>3, <1>7 DEF ServeWindow, TypeInv, TypeOK

\* The file is written.
LEMMA WriteType ==
    ASSUME TypeInv, NEW t \in Task, Write(t)
    PROVE  TypeInv'
<1>1. disk' \in Seq(Text) \ {<<>>}
      BY DEF Write, TypeInv, TypeOK, CallOK, CallType
<1>2. call' \in [Task -> CallType] /\ \A u \in Task : CallOK(call'[u])
      BY PcMoves DEF Write
<1> QED BY <1>1, <1>2 DEF Write, TypeInv, TypeOK

\* The call ends with its records.
LEMMA RecordType ==
    ASSUME TypeInv, NEW t \in Task, Record(t)
    PROVE  TypeInv'
<1> DEFINE s == SessionOf[t]
           c == call[t].cur
           member == [a \in Anchor |->
                IF served[s][a] = Unserved /\ \E i \in call[t].shown : call[t].h[i] = a
                THEN Keyless ELSE served[s][a]]
           live == {AnchorsFor(store.rows, c)[i] : i \in Lines(c)}
           gone == NotLive(member, live)
<1>1. /\ s \in Session
      /\ served \in [Session -> [Anchor -> Key \cup {Unserved, Keyless}]]
      /\ pool \in SUBSET Anchor
      BY SessionAssumption DEF TypeInv, TypeOK
<1>2. member \in [Anchor -> Key \cup {Unserved, Keyless}]
      BY <1>1
<1>3. gone \in SUBSET Anchor
      BY DEF NotLive
<1>4. \/ UNCHANGED <<served, pool>>
      \/ served' = [served EXCEPT ![s] = Forget(member, gone)] /\ pool' = pool \cup gone
      BY DEF Record
<1> HIDE DEF s, member, gone
<1>5. Forget(member, gone) \in [Anchor -> Key \cup {Unserved, Keyless}]
      BY <1>2 DEF Forget
<1>6. /\ served' \in [Session -> [Anchor -> Key \cup {Unserved, Keyless}]]
      /\ pool' \in SUBSET Anchor
      BY <1>1, <1>3, <1>4, <1>5
<1>7. call' \in [Task -> CallType] /\ \A u \in Task : CallOK(call'[u])
      BY CallEnds DEF Record
<1> QED BY <1>6, <1>7 DEF Record, TypeInv, TypeOK

\* The call ends for want of an anchor.
LEMMA ExhaustedType ==
    ASSUME TypeInv, NEW t \in Task, Exhausted(t)
    PROVE  TypeInv'
<1>1. store' \in Ensured(store, call[t].cur)
      BY DEF Exhausted
<1>2. RowsTyped(store.rows) /\ call[t].cur \in Seq(Text) /\ store.text \in Seq(Text)
      BY DEF TypeInv, TypeOK, CallType, RowsTyped
<1>3. store'.text \in {store.text, call[t].cur} /\ RowsTyped(store'.rows)
      BY <1>1, <1>2, EnsuredTyped
<1>4. call' \in [Task -> CallType] /\ \A u \in Task : CallOK(call'[u])
      BY CallEnds DEF Exhausted
<1> QED BY <1>2, <1>3, <1>4 DEF Exhausted, TypeInv, TypeOK, RowsTyped

\* Every step preserves the types.
LEMMA TypeStep == TypeInv /\ [Next]_vars => TypeInv'
<1> SUFFICES ASSUME TypeInv, [Next]_vars
             PROVE  TypeInv'
    OBVIOUS
<1>1. ASSUME NEW t \in Task, OpenRead(t) \/ OpenEdit(t)
      PROVE  TypeInv'
      BY <1>1, OpenType
<1>2. ASSUME NEW t \in Task, NEW lo \in 1 .. MaxLine, NEW hi \in 1 .. MaxLine,
             ServeRead(t, lo, hi)
      PROVE  TypeInv'
      BY <1>2, ReadType
<1>3. ASSUME NEW t \in Task, NEW n \in 1 .. MaxItems,
             NEW items \in [1 .. n -> Request], Plan(t, items)
      PROVE  TypeInv'
      BY <1>3, PlanType
<1>4. ASSUME NEW t \in Task,
             Abort(t) \/ WriteFails(t) \/ ProbeFails(t)
      PROVE  TypeInv'
      BY <1>4, EndType DEF Abort, WriteFails, ProbeFails
<1>5. ASSUME NEW t \in Task,
             \/ Probe(t) \/ MintEcho(t) \/ Reject(t) \/ Noop(t) \/ Apply(t)
             \/ CommitBatch(t) \/ ServeWindow(t) \/ Write(t) \/ Record(t) \/ Exhausted(t)
      PROVE  TypeInv'
      BY <1>5, ProbeType, MintEchoType, RejectType, NoopType, ApplyType,
         CommitType, WindowType, WriteType, RecordType, ExhaustedType
<1>6. CASE External
      BY <1>6, TextAssumption DEF External, TypeInv, TypeOK
<1>7. CASE Crash
      BY <1>7, IdleType DEF Crash, TypeInv, TypeOK
<1>8. CASE UNCHANGED vars
      BY <1>8 DEF vars, TypeInv, TypeOK
<1> QED BY <1>1, <1>2, <1>3, <1>4, <1>5, <1>6, <1>7, <1>8 DEF Next

\* Every variable keeps its type, whatever the texts, the alphabet, the sessions,
\* the requests and the faults.
THEOREM TypeCorrect == Spec => []TypeOK
<1>1. TypeInv => TypeOK
      BY DEF TypeInv
<1> QED BY <1>1, TypeInit, TypeStep, PTL DEF Spec

-----------------------------------------------------------------------------
(***************************************************************************)
(* One item per call, and a process that does not die: the rows describe   *)
(* the text, are unambiguous, and an accepted edit lands where it should.  *)
(***************************************************************************)

\* A task at its item: the item is a request expanded against the projection,
\* and nothing has been applied.
AtItem(t) ==
    call[t].pc \in {"probe", "mint", "verify"} =>
        /\ \E r \in Request : call[t].items = <<Expand(call[t].cur, call[t].h, r)>>
        /\ call[t].spans = {}
        /\ call[t].base = call[t].cur

\* A task whose item has been applied: the rows are at the call's text.
AtEnd(t) ==
    call[t].pc \in {"commit", "serve"} =>
        /\ call[t].spans # {}
        /\ call[t].base # call[t].cur
        /\ store.text = call[t].cur

\* What the probe reads is what the plan read.
AtProbe(t) ==
    call[t].pc = "probe" =>
        /\ call[t].h = AnchorsFor(store.rows, call[t].cur)
        /\ call[t].seen = served[SessionOf[t]]

\* A positive verdict vouches for every line asked about.
AtVerdict(t) ==
    call[t].pc \in {"mint", "verify"} /\ call[t].asked =>
        /\ Resolves(call[t].h, Item(t).from)
        /\ Asked(t) # {}
        /\ call[t].bad = {} => \A i \in Asked(t) : Vouched(call[t].seen, t, i)

Steady(t) == AtItem(t) /\ AtEnd(t) /\ AtProbe(t) /\ AtVerdict(t)

\* One edit at a time is between its read and its write.
Exclusive ==
    \A t, u \in Task : call[t].pc \in Chain /\ call[u].pc \in Chain => t = u

Repeats(t) == call[t].pc \in {"commit", "serve"}

\* Only a transform that has not been followed by the response's mint may leave
\* an anchor on two lines.
Repaired == Unique(store.rows) \/ \E t \in Task : Repeats(t)

OneItemInv ==
    /\ TypeInv
    /\ Describes(store.rows, store.text)
    /\ \A t \in Task : Steady(t)
    /\ Exclusive
    /\ Repaired

\* A task in the chain is alone there.
LEMMA ChainAlone ==
    ASSUME OneItemInv, NEW u \in Task, call[u].pc \in Chain
    PROVE  RunsAlone(u)
BY DEF OneItemInv, Exclusive, RunsAlone

\* Where no edit is past its transform the rows are unambiguous.
LEMMA RepairedUnless ==
    ASSUME OneItemInv, NEW u \in Task, RunsAlone(u), ~Repeats(u)
    PROVE  Unique(store.rows)
BY DEF OneItemInv, Repaired, Repeats, RunsAlone, Chain

\* A task outside the chain is steady whatever it does, and so is every task that
\* does not move while the rows and the records stay.
LEMMA SteadyOutside ==
    ASSUME NEW t \in Task, call[t].pc \notin Chain
    PROVE  Steady(t)
BY DEF Steady, AtItem, AtEnd, AtProbe, AtVerdict, Chain

\* So are the tasks that do not move.
LEMMA SteadyOthers ==
    ASSUME OneItemInv, NEW u \in Task, NEW t \in Task, t # u, call'[t] = call[t],
           RunsAlone(u) \/ UNCHANGED <<store, served>>
    PROVE  Steady(t)'
<1>1. CASE RunsAlone(u)
      <2>1. call'[t].pc \notin Chain
            BY <1>1 DEF RunsAlone
      <2> QED BY <2>1 DEF Steady, AtItem, AtEnd, AtProbe, AtVerdict, Chain
<1>2. CASE UNCHANGED <<store, served>>
      BY <1>2 DEF OneItemInv, Steady, AtItem, AtEnd, AtProbe, AtVerdict, Asked, Item, Vouched
<1> QED BY <1>1, <1>2

\* One task leaves the chain, or stays out of it.
LEMMA LeavesChain ==
    ASSUME OneItemInv, TypeInv', NEW u \in Task,
           \A t \in Task \ {u} : call'[t] = call[t],
           call'[u].pc \notin Chain,
           RunsAlone(u) \/ UNCHANGED <<store, served>>,
           Describes(store'.rows, store'.text),
           Unique(store'.rows) \/ (store' = store /\ ~Repeats(u))
    PROVE  OneItemInv'
<1>1. \A t \in Task : Steady(t)'
      <2>1. Steady(u)'
            BY DEF Steady, AtItem, AtEnd, AtProbe, AtVerdict, Chain
      <2> QED BY <2>1, SteadyOthers
<1>2. Exclusive'
      BY DEF OneItemInv, Exclusive
<1>3. Repaired'
      BY DEF OneItemInv, Repaired, Repeats
<1> QED BY <1>1, <1>2, <1>3 DEF OneItemInv

\* One task moves within the chain, or enters it.
LEMMA StaysInChain ==
    ASSUME OneItemInv, TypeInv', NEW u \in Task,
           \A t \in Task \ {u} : call'[t] = call[t],
           RunsAlone(u), Steady(u)',
           Describes(store'.rows, store'.text),
           Unique(store'.rows) \/ Repeats(u)'
    PROVE  OneItemInv'
<1>1. \A t \in Task : Steady(t)'
      BY SteadyOthers
<1>2. Exclusive'
      BY DEF OneItemInv, Exclusive, RunsAlone
<1>3. Repaired'
      BY DEF Repaired
<1> QED BY <1>1, <1>2, <1>3 DEF OneItemInv

-----------------------------------------------------------------------------
\* What Splice puts where.
LEMMA SpliceLines ==
    ASSUME NEW c \in Seq(Text), NEW lo \in Lines(c), NEW hi \in Lines(c), lo <= hi,
           NEW lines \in Seq(Text)
    PROVE  /\ \A i \in Lines(c) : i < lo => Splice(c, lo, hi, lines)[i] = c[i]
           /\ \A i \in Lines(c) : i > hi =>
                Splice(c, lo, hi, lines)[i + (Len(lines) - (hi - lo + 1))] = c[i]
           /\ lines # <<>> => Splice(c, lo, hi, lines)[lo] = lines[1]
<1> DEFINE g == Len(lines) - (hi - lo + 1)
           new == Splice(c, lo, hi, lines)
<1>1. Len(c) \in Nat /\ Len(lines) \in Nat /\ lo \in 1 .. Len(c) /\ hi \in 1 .. Len(c)
      BY DEF Lines
<1>2. g \in Int /\ g >= - (hi - lo + 1) /\ g = Len(lines) - (hi - lo + 1)
      BY <1>1
<1>3. new = [i \in 1 .. (Len(c) + g) |->
                IF i < lo THEN c[i]
                ELSE IF i < lo + Len(lines) THEN lines[i - lo + 1]
                ELSE c[i - g]]
      BY DEF Splice
<1> HIDE DEF g, new
<1>4. ASSUME NEW i \in Lines(c), i < lo
      PROVE  new[i] = c[i]
      <2>1. i \in 1 .. (Len(c) + g)
            BY <1>1, <1>2, <1>4 DEF Lines
      <2> QED BY <1>3, <1>4, <2>1
<1>5. ASSUME NEW i \in Lines(c), i > hi
      PROVE  new[i + g] = c[i]
      <2>1. i + g \in 1 .. (Len(c) + g) /\ ~(i + g < lo) /\ ~(i + g < lo + Len(lines))
            BY <1>1, <1>2, <1>5 DEF Lines
      <2>2. (i + g) - g = i
            BY <1>1, <1>2 DEF Lines
      <2> QED BY <1>3, <2>1, <2>2
<1>6. ASSUME lines # <<>>
      PROVE  new[lo] = lines[1]
      <2>1. Len(lines) >= 1
            BY <1>1, <1>6
      <2>2. lo \in 1 .. (Len(c) + g) /\ ~(lo < lo) /\ lo < lo + Len(lines) /\ lo - lo + 1 = 1
            BY <1>1, <1>2, <2>1
      <2> QED BY <1>3, <2>2
<1> QED BY <1>4, <1>5, <1>6 DEF g, new

\* The hunk of an accepted item is the edit its splice makes.
LEMMA HunkIsEdit ==
    ASSUME OneItemInv, NEW t \in Task, Accepted(t)
    PROVE  IsEdit(call[t].cur, Result(t), Hunk(t))
<1> DEFINE c == call[t].cur
           h == call[t].h
           item == Item(t)
           lo == Lo(h, item)
           hi == Hi(h, item)
           lines == item.lines
<1>1. /\ c \in Seq(Text) /\ item \in EditItem
      /\ lo \in Lines(c) /\ hi \in Lines(c) /\ lo <= hi
      BY ResultType DEF OneItemInv
<1>2. lines \in Seq(Text)
      BY <1>1 DEF EditItem
<1>3. PICK r \in Request : item = Expand(c, h, r)
      <2>1. \E r \in Request : call[t].items = <<Expand(c, h, r)>>
            BY DEF Accepted, OneItemInv, Steady, AtItem
      <2> QED BY <2>1 DEF Item
<1>4. /\ Len(Result(t)) = Len(c) + Len(lines) - (hi - lo + 1)
      /\ \A i \in Lines(c) : i < lo => Result(t)[i] = c[i]
      /\ \A i \in Lines(c) : i > hi => Result(t)[i + (Len(lines) - (hi - lo + 1))] = c[i]
      /\ lines # <<>> => Result(t)[lo] = lines[1]
      <2> HIDE DEF c, lo, hi, item
      <2>1. Result(t) = Splice(c, lo, hi, lines)
            BY DEF Result, c, lo, hi, item
      <2> QED BY <1>1, <1>2, <2>1, SpliceType, SpliceLines
<1>5. Resolved(h, item)
      BY DEF Accepted, Stale
<1>6. Len(c) \in Nat /\ Len(lines) \in Nat /\ lo \in 1 .. Len(c) /\ hi \in 1 .. Len(c)
      BY <1>1, <1>2 DEF Lines
<1>7. CASE item.op = "ins"
      <2>1. r.op = "ins" /\ r.from = item.from /\ r.to = item.to /\ r \in EditItem
            BY <1>3, <1>7, RequestAssumption DEF Expand, EditItem
      <2>2. Resolves(h, r.from) /\ item.from = item.to
            BY <1>5, <2>1, RequestAssumption DEF Resolved
      <2>3. lines = <<c[First(h, item.from)]>> \o r.lines
            BY <1>3, <2>1, <2>2 DEF Expand, EditItem
      <2>4. lo = hi /\ lo = First(h, item.from)
            <3> DEFINE f == First(h, item.from)
            <3>1. f \in Int
                  BY <1>1, <1>5, FirstIsLine DEF Resolved, Lines, OneItemInv, TypeInv,
                     TypeOK, CallType, CallOK, Accepted
            <3>2. lo = Min({f, f}) /\ hi = Max({f, f})
                  BY <2>2 DEF Lo, Hi
            <3> HIDE DEF f, lo, hi
            <3>3. Min({f, f}) = f /\ Max({f, f}) = f
                  BY <3>1, MinOfTwo
            <3> QED BY <3>2, <3>3 DEF f
      <2>5. Len(lines) >= 1 /\ lines[1] = c[lo] /\ lines # <<>>
            <3>1. r.lines \in Seq(Text) /\ c[lo] \in Text
                  BY <1>1, <2>1 DEF EditItem, Lines
            <3>2. lines = <<c[lo]>> \o r.lines
                  BY <2>3, <2>4
            <3> HIDE DEF lines, c, lo
            <3> QED BY <3>1, <3>2
      <2>6. Hunk(t) = [oldFrom |-> lo + 1, oldTo |-> hi,
                       newFrom |-> lo + 1, newTo |-> lo + Len(lines) - 1]
            BY <1>7 DEF Hunk
      <2>7. \A i \in Lines(c) : i < lo + 1 => Result(t)[i] = c[i]
            <3> TAKE i \in Lines(c)
            <3>1. i \in Int
                  BY DEF Lines
            <3>2. i < lo => Result(t)[i] = c[i]
                  BY <1>4
            <3>3. Result(t)[lo] = c[lo]
                  BY <1>4, <2>5
            <3>4. lo \in Int
                  BY <1>6
            <3> HIDE DEF c, lo, hi, lines
            <3> QED BY <3>1, <3>2, <3>3, <3>4
      <2> DEFINE k == Hunk(t)
                 new == Result(t)
                 n == Len(lines)
      <2>8. /\ k.oldFrom = lo + 1 /\ k.oldTo = hi
            /\ k.newFrom = lo + 1 /\ k.newTo = lo + n - 1
            BY <2>6
      <2>9. n \in Int /\ lo \in Int /\ hi \in Int
            BY <1>6
      <2> HIDE DEF c, lo, hi, lines, item, k, new, n
      <2>10. k.newTo - k.oldTo = n - (hi - lo + 1)
            BY <2>8, <2>9
      <2>11. /\ Len(new) = Len(c) + (k.newTo - k.oldTo)
             /\ \A i \in Lines(c) : i < k.oldFrom => new[i] = c[i]
             /\ \A i \in Lines(c) : i > k.oldTo => new[i + (k.newTo - k.oldTo)] = c[i]
            BY <1>4, <1>6, <2>7, <2>8, <2>9, <2>10 DEF new, n
      <2>12. /\ 1 <= k.oldFrom /\ k.oldFrom <= k.oldTo + 1 /\ k.oldTo <= Len(c)
             /\ k.newFrom = k.oldFrom /\ k.newFrom <= k.newTo + 1
             /\ k.oldFrom \in Int /\ k.oldTo \in Int /\ k.newFrom \in Int /\ k.newTo \in Int
            <3>1. n >= 1 /\ lo = hi
                  BY <2>4, <2>5 DEF n
            <3> QED BY <1>6, <2>8, <2>9, <3>1
      <2>13. IsEdit(c, new, k)
            BY <2>11, <2>12 DEF IsEdit
      <2> QED BY <2>13 DEF c, new, k
<1>8. CASE item.op # "ins"
      <2>1. Hunk(t) = [oldFrom |-> lo + 0, oldTo |-> hi,
                       newFrom |-> lo + 0, newTo |-> lo + Len(lines) - 1]
            BY <1>8 DEF Hunk
      <2> DEFINE k == Hunk(t)
                 new == Result(t)
                 n == Len(lines)
      <2>2. /\ k.oldFrom = lo /\ k.oldTo = hi
            /\ k.newFrom = lo /\ k.newTo = lo + n - 1
            BY <1>6, <2>1
      <2>3. n \in Int /\ n >= 0 /\ lo \in Int /\ hi \in Int
            BY <1>6
      <2> HIDE DEF c, lo, hi, lines, item, k, new, n
      <2>4. k.newTo - k.oldTo = n - (hi - lo + 1)
            BY <2>2, <2>3
      <2>5. /\ Len(new) = Len(c) + (k.newTo - k.oldTo)
            /\ \A i \in Lines(c) : i < k.oldFrom => new[i] = c[i]
            /\ \A i \in Lines(c) : i > k.oldTo => new[i + (k.newTo - k.oldTo)] = c[i]
            BY <1>4, <1>6, <2>2, <2>3, <2>4 DEF new, n
      <2>6. /\ 1 <= k.oldFrom /\ k.oldFrom <= k.oldTo + 1 /\ k.oldTo <= Len(c)
            /\ k.newFrom = k.oldFrom /\ k.newFrom <= k.newTo + 1
            /\ k.oldFrom \in Int /\ k.oldTo \in Int /\ k.newFrom \in Int /\ k.newTo \in Int
            BY <1>1, <1>6, <2>2, <2>3
      <2>7. IsEdit(c, new, k)
            BY <2>5, <2>6 DEF IsEdit
      <2> QED BY <2>7 DEF c, new, k
<1> QED BY <1>7, <1>8

\* A response to an edit that changed something shows something.
LEMMA WindowShows ==
    ASSUME NEW old \in Seq(Text), NEW new \in Seq(Text), old # new, new # <<>>
    PROVE  DiffWindow(old, new, Pad) # {}
<1> DEFINE short == Min({Len(old), Len(new)})
           differing == {i \in 1 .. short : old[i] # new[i]}
           first == Min(differing \cup {short + 1})
           common == {k \in 0 .. (short - first) :
                        \A j \in 0 .. k : old[Len(old) - j] = new[Len(new) - j]}
           bottom == Len(new) - Cardinality(common)
           last == Max({first, bottom})
<1>1. Len(old) \in Nat /\ Len(new) \in Nat /\ Len(new) >= 1
      BY EmptySeq
<1>2. short \in Int /\ short >= 0 /\ short <= Len(new)
      <2>1. Len(old) \in Int /\ Len(new) \in Int
            BY <1>1
      <2>2. /\ Min({Len(old), Len(new)}) \in {Len(old), Len(new)}
            /\ Min({Len(old), Len(new)}) <= Len(new)
            BY <2>1, MinOfTwo
      <2> QED BY <1>1, <2>2
<1>3. first \in Int /\ 1 <= first /\ first <= short + 1
      <2> HIDE DEF short
      <2>1. IsFiniteSet(1 .. short)
            BY <1>2, FS_Interval
      <2>2. differing \in SUBSET (1 .. short) /\ IsFiniteSet(differing)
            BY <2>1, FS_Subset
      <2> HIDE DEF differing
      <2>3. IsFiniteSet(differing \cup {short + 1})
            BY <2>2, FS_AddElement
      <2>4. /\ differing \cup {short + 1} \in SUBSET Int /\ differing \cup {short + 1} # {}
            /\ \A i \in differing \cup {short + 1} : i \in Int /\ 1 <= i /\ i <= short + 1
            BY <1>2, <2>2
      <2>5. first \in differing \cup {short + 1}
            BY <2>3, <2>4, MinInt
      <2> HIDE DEF first
      <2> QED BY <2>4, <2>5
<1>4. bottom \in Int
      <2> HIDE DEF short, first
      <2>1. IsFiniteSet(0 .. (short - first))
            BY <1>2, <1>3, FS_Interval
      <2>2. IsFiniteSet(common)
            BY <2>1, FS_Subset
      <2> HIDE DEF common
      <2>3. Cardinality(common) \in Nat
            BY <2>2, FS_CardinalityType
      <2> QED BY <1>1, <2>3
<1>5. last \in Int /\ last >= first
      <2> HIDE DEF first, bottom
      <2>1. Max({first, bottom}) \in {first, bottom} /\ Max({first, bottom}) >= first
            BY <1>3, <1>4, MinOfTwo
      <2> QED BY <1>3, <1>4, <2>1
<1>6. Pad \in Int /\ Pad >= 2
      <2>1. 2 \in Int /\ Context \in Int
            BY BoundAssumption
      <2>2. Max({2, Context}) \in {2, Context} /\ Max({2, Context}) >= 2
            BY <2>1, MinOfTwo
      <2> QED BY <2>1, <2>2 DEF Pad
<1>7. DiffWindow(old, new, Pad)
        = {i \in Lines(new) : first - Pad <= i /\ i <= last + Pad}
      BY DEF DiffWindow
<1> HIDE DEF short, differing, first, common, bottom, last
<1>8. CASE first <= Len(new)
      <2>1. first \in Lines(new) /\ first - Pad <= first /\ first <= last + Pad
            BY <1>1, <1>3, <1>5, <1>6, <1>8 DEF Lines
      <2> QED BY <1>7, <2>1
<1>9. CASE ~(first <= Len(new))
      <2>1. Len(new) \in Lines(new) /\ first - Pad <= Len(new) /\ Len(new) <= last + Pad
            BY <1>1, <1>2, <1>3, <1>5, <1>6, <1>9 DEF Lines
      <2> QED BY <1>7, <2>1
<1> QED BY <1>8, <1>9

-----------------------------------------------------------------------------
\* The steps of calls that carry one item, in a process that does not die.
LEMMA OutsideChain ==
    ASSUME OneItemInv, TypeInv', NEW u \in Task,
           OpenRead(u) \/ OpenEdit(u) \/ Abort(u) \/ Write(u) \/ WriteFails(u) \/ ProbeFails(u)
    PROVE  OneItemInv'
<1>1. call \in [Task -> CallType]
      BY DEF OneItemInv, TypeInv, TypeOK
<1>2. \A t \in Task \ {u} : call'[t] = call[t]
      BY <1>1 DEF OpenRead, OpenEdit, Abort, Write, WriteFails, ProbeFails, Finish
<1>3. call'[u].pc \in {"idle", "read", "open", "record"}
      <2>1. CASE Finish(u)
            BY <1>1, <2>1 DEF Finish, Idle
      <2>2. CASE OpenRead(u) \/ OpenEdit(u)
            BY <1>1, <2>2 DEF OpenRead, OpenEdit, Idle
      <2>3. CASE Write(u)
            BY <1>1, <2>3 DEF Write, CallType
      <2> QED BY <2>1, <2>2, <2>3 DEF Abort, WriteFails, ProbeFails
<1>4. UNCHANGED <<store, served>> /\ ~Repeats(u)
      BY DEF OpenRead, OpenEdit, Abort, Write, WriteFails, ProbeFails, Accepted, Repeats
<1>5. Describes(store'.rows, store'.text)
      BY <1>4 DEF OneItemInv
<1> QED BY <1>2, <1>3, <1>4, <1>5, LeavesChain DEF Chain

\* A mint leaves rows that describe its text, one anchor per line.
LEMMA MintedDescribes ==
    ASSUME OneItemInv, NEW c \in Seq(Text), NEW W \in SUBSET Lines(c),
           NEW out \in AnchorFor(store, c, W, pool)
    PROVE  out.text = c /\ Describes(out.rows, out.text) /\ Unique(out.rows)
<1>1. Describes(store.rows, store.text)
      BY DEF OneItemInv
<1>2. out.text = c /\ Describes(out.rows, c) /\ Unique(out.rows)
      BY <1>1, AnchorForDescribes
<1> QED BY <1>2

\* A read mints.
LEMMA ReadStep ==
    ASSUME OneItemInv, TypeInv', NEW u \in Task,
           NEW lo \in 1 .. MaxLine, NEW hi \in 1 .. MaxLine, ServeRead(u, lo, hi)
    PROVE  OneItemInv'
<1>1. call \in [Task -> CallType] /\ call[u].cur \in Seq(Text)
      BY DEF OneItemInv, TypeInv, TypeOK, CallType
<1>2. (\A t \in Task \ {u} : call'[t] = call[t]) /\ call'[u].pc \notin Chain
      BY <1>1 DEF ServeRead, Finish, Idle, Chain
<1>3. lo .. hi \in SUBSET Lines(call[u].cur) /\ store' \in AnchorFor(store, call[u].cur, lo .. hi, pool)
      BY <1>1, BoundAssumption DEF ServeRead, Lines
<1>5. Describes(store'.rows, store'.text) /\ Unique(store'.rows)
      BY <1>1, <1>3, MintedDescribes
<1>6. RunsAlone(u)
      BY DEF ServeRead
<1> QED BY <1>2, <1>5, <1>6, LeavesChain

\* The plan of one item.
LEMMA PlanStep ==
    ASSUME OneItemInv, TypeInv', NEW u \in Task, MaxItems = 1,
           NEW n \in 1 .. MaxItems, NEW items \in [1 .. n -> Request], Plan(u, items)
    PROVE  OneItemInv'
<1> DEFINE c == call[u].cur
           h == AnchorsFor(store.rows, c)
           expanded == [k \in DOMAIN items |-> Expand(c, h, items[k])]
           v == [call[u] EXCEPT !.pc = "probe", !.inStep = InStep(c),
                    !.placed = \A k \in DOMAIN items : Resolved(h, items[k]),
                    !.base = c, !.h0 = h, !.h = h,
                    !.seen = served[SessionOf[u]], !.items = expanded]
<1>1. call \in [Task -> CallType] /\ call[u] \in CallType
      BY DEF OneItemInv, TypeInv, TypeOK
<1>2. RunsAlone(u) /\ UNCHANGED <<store, served>> /\ ~Repeats(u) /\ call[u].pc = "open"
      BY DEF Plan, Repeats
<1>3. Describes(store.rows, store.text) /\ Unique(store.rows)
      BY <1>2, RepairedUnless DEF OneItemInv
<1>4. \A t \in Task \ {u} : call'[t] = call[t]
      BY <1>1 DEF Plan
<1>5. CASE call' = [call EXCEPT ![u] = Idle]
      <2>1. call'[u].pc \notin Chain
            BY <1>1, <1>5 DEF Idle, Chain
      <2> QED BY <1>2, <1>3, <1>4, <2>1, LeavesChain
<1>6. CASE call' = [call EXCEPT ![u] = v]
      <2>1. Steady(u)'
            <3>1. /\ v.pc = "probe" /\ v.h = h /\ v.cur = c /\ v.base = c
                  /\ v.seen = served[SessionOf[u]] /\ v.items = expanded
                  /\ v.spans = call[u].spans
                  BY <1>1 DEF CallType
            <3>2. n = 1
                  OBVIOUS
            <3>3. expanded = <<Expand(c, h, items[1])>> /\ items[1] \in Request
                  BY <3>2
            <3>4. call'[u] = v
                  BY <1>1, <1>6
            <3> HIDE DEF v, h, expanded
            <3>5. call[u].spans = {}
                  BY <1>2 DEF OneItemInv, TypeInv, CallOK
            <3> QED BY <1>2, <3>1, <3>3, <3>4, <3>5 DEF Steady, AtItem, AtEnd, AtProbe, AtVerdict, h
      <2> QED BY <1>2, <1>3, <1>4, <2>1, StaysInChain
<1> QED BY <1>5, <1>6 DEF Plan

\* The probe's silence about a line means the session was shown that line: the
\* row it looks up is the line's own, because no anchor is on two lines.
LEMMA SilenceVouches ==
    ASSUME OneItemInv, NEW u \in Task, call[u].pc = "probe",
           NEW i \in Lines(call[u].cur),
           ProbeLine(store.rows, served[SessionOf[u]], call[u].cur, call[u].h[i], i) = {}
    PROVE  Vouched(call[u].seen, u, i)
<1> DEFINE rows == store.rows
           c == call[u].cur
           a == call[u].h[i]
           n == NamedLine(rows, a)
<1>1. Unique(rows) /\ Describes(rows, store.text) /\ store.text \in Seq(Text)
      <2>1. RunsAlone(u) /\ ~Repeats(u)
            BY ChainAlone DEF Chain, Repeats
      <2> QED BY <2>1, RepairedUnless DEF OneItemInv, TypeInv, TypeOK
<1>2. call[u].h = AnchorsFor(rows, c) /\ call[u].seen = served[SessionOf[u]]
      BY DEF OneItemInv, Steady, AtProbe
<1>3. RowsNaming(rows, a) # {}
      BY DEF ProbeLine
<1>4. n \in RowsNaming(rows, a)
      <2>0. Len(store.text) \in Int
            BY <1>1
      <2>1. RowsNaming(rows, a) \in SUBSET (1 .. Len(store.text))
            BY <1>1 DEF RowsNaming, Describes, Lines
      <2>2. IsFiniteSet(1 .. Len(store.text))
            BY <2>0, FirstLines
      <2>3. IsFiniteSet(RowsNaming(rows, a)) /\ RowsNaming(rows, a) \in SUBSET Int
            BY <2>1, <2>2, FS_Subset
      <2> HIDE DEF rows, a
      <2> QED BY <1>3, <2>3, MaxInt DEF NamedLine, n
<1>5. n \in DOMAIN rows /\ rows[n].anchor = a /\ rows[n] \in Row
      BY <1>1, <1>4 DEF RowsNaming, Describes
<1>6. rows[n].key = Canon[c[n]] /\ served[SessionOf[u]][a] = rows[n].key
      <2>1. ProbeLine(rows, served[SessionOf[u]], c, a, i) = {}
            OBVIOUS
      <2> HIDE DEF rows, c, a
      <2> QED BY <1>3, <1>4, <2>1 DEF ProbeLine, n
<1>7. a \in Anchor
      BY <1>5 DEF Row
<1>8. i \in DOMAIN rows /\ rows[i].anchor = a
      BY <1>2, <1>7, NoAnchorAssumption DEF AnchorsFor
<1>9. i = n
      <2> HIDE DEF n
      <2> QED BY <1>1, <1>5, <1>8 DEF Unique
<1> QED BY <1>2, <1>6, <1>7, <1>9 DEF Vouched

\* A verdict: a negative one leads to a mint, a positive one vouches.
LEMMA ProbeStep ==
    ASSUME OneItemInv, TypeInv', NEW u \in Task, Probe(u)
    PROVE  OneItemInv'
<1> DEFINE c == call[u].cur
           h == call[u].h
           asked == Resolves(h, Item(u).from) /\ Asked(u) # {}
           bad == IF asked
                  THEN ProbeLines(store.rows, served[SessionOf[u]], c, h, Asked(u)) ELSE {}
           pc == IF Resolves(h, Item(u).from) /\ (asked => bad # {})
                 THEN "mint" ELSE "verify"
           v == [call[u] EXCEPT !.asked = asked, !.bad = bad, !.pc = pc]
<1>1. /\ call \in [Task -> CallType] /\ call[u] \in CallType /\ c \in Seq(Text)
      /\ call[u].pc = "probe" /\ DOMAIN h = Lines(c)
      BY DEF Probe, OneItemInv, TypeInv, TypeOK, CallOK, CallType
<1>2. UNCHANGED <<store, served>>
      BY DEF Probe
<1>3. RunsAlone(u) /\ ~Repeats(u)
      BY <1>1, ChainAlone DEF Chain, Repeats
<1>4. Describes(store.rows, store.text) /\ Unique(store.rows)
      BY <1>3, RepairedUnless DEF OneItemInv
<1>5. call' = [call EXCEPT ![u] = v]
      <2>1. call' = [call EXCEPT ![u].asked = asked, ![u].bad = bad, ![u].pc = pc]
            BY DEF Probe
      <2> HIDE DEF asked, bad, pc
      <2> QED BY <1>1, <2>1
<1>6. (\A t \in Task \ {u} : call'[t] = call[t]) /\ call'[u] = v
      <2> HIDE DEF v
      <2> QED BY <1>1, <1>5
<1>7. /\ v.pc = pc /\ v.h = h /\ v.cur = c /\ v.base = call[u].base /\ v.seen = call[u].seen
      /\ v.items = call[u].items /\ v.spans = call[u].spans /\ v.asked = asked /\ v.bad = bad
      BY <1>1 DEF CallType
<1>8. ASSUME asked, bad = {}, NEW i \in Asked(u)
      PROVE  Vouched(call[u].seen, u, i)
      <2>1. i \in Lines(c)
            <3>1. Len(c) \in Nat /\ DOMAIN h = 1 .. Len(c)
                  BY <1>1 DEF Lines
            <3>2. First(h, Item(u).from) \in 1 .. Len(c)
                  BY <1>8, <3>1, FirstIsLine
            <3>3. Resolves(h, Item(u).to) => First(h, Item(u).to) \in 1 .. Len(c)
                  BY <3>1, FirstIsLine
            <3>4. i \in First(h, Item(u).from) ..
                    IF Resolves(h, Item(u).to) THEN First(h, Item(u).to)
                    ELSE First(h, Item(u).from)
                  BY DEF Asked
            <3> HIDE DEF c, h
            <3> QED BY <3>1, <3>2, <3>3, <3>4 DEF Lines
      <2>2. ProbeLine(store.rows, served[SessionOf[u]], c, h[i], i) = {}
            BY <1>8 DEF ProbeLines
      <2> QED BY <1>1, <2>1, <2>2, SilenceVouches
<1>9. Steady(u)'
      <2>1. pc \in {"mint", "verify"}
            OBVIOUS
      <2>2. AtItem(u)
            BY DEF OneItemInv, Steady
      <2> HIDE DEF v, asked, bad, pc
      <2>3. AtItem(u)'
            BY <1>1, <1>6, <1>7, <2>1, <2>2 DEF AtItem
      <2>4. AtVerdict(u)'
            <3>1. Asked(u)' = Asked(u) /\ Item(u)' = Item(u)
                  BY <1>6, <1>7 DEF Asked, Item
            <3>2. \A i : Vouched(call[u].seen, u, i) => Vouched(call[u].seen, u, i)'
                  BY <1>6, <1>7 DEF Vouched
            <3>3. asked => Resolves(h, Item(u).from) /\ Asked(u) # {}
                  BY DEF asked
            <3> QED BY <1>6, <1>7, <1>8, <3>1, <3>2, <3>3 DEF AtVerdict
      <2> QED BY <1>6, <1>7, <2>1, <2>3, <2>4 DEF Steady, AtEnd, AtProbe
<1>10. call'[u].pc \in Chain
      BY <1>6, <1>7 DEF Chain
<1>11. Describes(store'.rows, store'.text) /\ Unique(store'.rows)
      BY <1>2, <1>4
<1> HIDE DEF v, asked, bad, pc
<1> QED BY <1>3, <1>6, <1>9, <1>11, StaysInChain

\* The mint for a refusal, on rows that are still unambiguous.
LEMMA MintEchoStep ==
    ASSUME OneItemInv, TypeInv', NEW u \in Task, MintEcho(u)
    PROVE  OneItemInv'
<1>1. /\ call \in [Task -> CallType] /\ call[u] \in CallType /\ call[u].pc = "mint"
      /\ call[u].cur \in Seq(Text) /\ EchoWindow(u) \in SUBSET Lines(call[u].cur)
      BY DEF MintEcho, OneItemInv, TypeInv, TypeOK, CallType, EchoWindow
<1>2. Describes(store'.rows, store'.text) /\ Unique(store'.rows)
      BY <1>1, MintedDescribes DEF MintEcho
<1>3. (\A t \in Task \ {u} : call'[t] = call[t]) /\ call'[u] = [call[u] EXCEPT !.pc = "verify"]
      BY <1>1 DEF MintEcho
<1>4. /\ call'[u].pc = "verify" /\ call'[u].h = call[u].h /\ call'[u].cur = call[u].cur
      /\ call'[u].base = call[u].base /\ call'[u].seen = call[u].seen
      /\ call'[u].items = call[u].items /\ call'[u].spans = call[u].spans
      /\ call'[u].asked = call[u].asked /\ call'[u].bad = call[u].bad
      BY <1>1, <1>3 DEF CallType
<1>5. Steady(u)'
      <2>1. AtItem(u) /\ AtVerdict(u)
            BY DEF OneItemInv, Steady
      <2>2. AtItem(u)'
            BY <1>1, <1>4, <2>1 DEF AtItem
      <2>3. AtVerdict(u)'
            BY <1>1, <1>4, <2>1 DEF AtVerdict, Asked, Item, Vouched
      <2> QED BY <1>4, <2>2, <2>3 DEF Steady, AtEnd, AtProbe
<1>6. RunsAlone(u)
      BY <1>1, ChainAlone DEF Chain
<1> QED BY <1>2, <1>3, <1>5, <1>6, StaysInChain

\* A refusal leaves the rows alone.
LEMMA RejectStep ==
    ASSUME OneItemInv, TypeInv', NEW u \in Task, Reject(u)
    PROVE  OneItemInv'
<1>1. call \in [Task -> CallType] /\ call[u].pc = "verify"
      BY DEF Reject, OneItemInv, TypeInv, TypeOK
<1>2. RunsAlone(u) /\ ~Repeats(u) /\ store' = store
      BY <1>1, ChainAlone DEF Chain, Repeats, Reject
<1>3. (\A t \in Task \ {u} : call'[t] = call[t]) /\ call'[u].pc \notin Chain
      BY <1>1 DEF Reject, Finish, Idle, Chain
<1>4. Describes(store'.rows, store'.text)
      BY <1>2 DEF OneItemInv
<1> QED BY <1>2, <1>3, <1>4, LeavesChain

\* The only item of a call is the last one.
LEMMA LastItem ==
    ASSUME OneItemInv, NEW u \in Task, call[u].pc = "verify"
    PROVE  Tail(call[u].items) = <<>> /\ call[u].spans = {} /\ call[u].base = call[u].cur
<1>1. \E r \in Request : call[u].items = <<Expand(call[u].cur, call[u].h, r)>>
      BY DEF OneItemInv, Steady, AtItem
<1>2. Tail(call[u].items) = <<>>
      BY <1>1
<1>3. call[u].spans = {} /\ call[u].base = call[u].cur
      BY DEF OneItemInv, Steady, AtItem
<1> QED BY <1>2, <1>3

\* An item without effect ends its call.
LEMMA NoopStep ==
    ASSUME OneItemInv, TypeInv', NEW u \in Task, Noop(u)
    PROVE  OneItemInv'
<1>1. call \in [Task -> CallType] /\ call[u].pc = "verify"
      BY DEF Noop, Accepted, OneItemInv, TypeInv, TypeOK
<1>2. RunsAlone(u) /\ ~Repeats(u) /\ store' = store
      BY <1>1, ChainAlone DEF Chain, Repeats, Noop
<1>3. NextPc(Tail(call[u].items), call[u].spans) = "idle"
      BY <1>1, LastItem DEF NextPc
<1>4. call' = [call EXCEPT ![u] = Idle]
      BY <1>3 DEF Noop
<1>5. (\A t \in Task \ {u} : call'[t] = call[t]) /\ call'[u].pc \notin Chain
      BY <1>1, <1>4 DEF Idle, Chain
<1>6. Describes(store'.rows, store'.text)
      BY <1>2 DEF OneItemInv
<1> QED BY <1>2, <1>5, <1>6, LeavesChain

\* The transform moves the rows to the result.
LEMMA ApplyStep ==
    ASSUME OneItemInv, TypeInv', NEW u \in Task, Apply(u)
    PROVE  OneItemInv'
<1> DEFINE old == call[u].cur
           new == Result(u)
           h == call[u].h
           k == Hunk(u)
           used == Live(store.rows) \cup pool
           rest == Tail(call[u].items)
           spans == call[u].spans \cup {k}
           v(out) == [call[u] EXCEPT
                        !.pc = NextPc(rest, spans), !.items = rest, !.spans = spans,
                        !.cur = new, !.h = AnchorsFor(out.store.rows, new),
                        !.asked = FALSE, !.bad = {},
                        !.dropped = call[u].dropped \cup out.dropped,
                        !.seen = Forget(call[u].seen, out.dropped)]
<1>1. PICK out \in UpdateAnchorsAfterEdit(store, old, new, h, {k}, used) :
        /\ store' = out.store
        /\ call' = [call EXCEPT ![u] = v(out)]
      BY DEF Apply
<1>2. /\ call \in [Task -> CallType] /\ call[u] \in CallType
      /\ call[u].pc = "verify" /\ old \in Seq(Text) /\ new \in Seq(Text)
      /\ h \in Seq(Anchor \cup {NoAnchor}) /\ DOMAIN h = Lines(old)
      BY ResultType DEF Apply, Accepted, OneItemInv, TypeInv, TypeOK, CallOK, CallType
<1>3. rest = <<>> /\ call[u].spans = {} /\ call[u].base = old /\ new # old
      BY <1>2, LastItem DEF Apply
<1>4. IsEdit(old, new, k)
      BY HunkIsEdit DEF Apply
<1>5. Describes(store.rows, store.text)
      BY DEF OneItemInv
<1>6. \A i \in Lines(old) : h[i] \in Anchor \cup {NoAnchor}
      BY <1>2
<1>7. out.store.text = new /\ Describes(out.store.rows, new)
      <2>1. out \in UpdateAnchorsAfterEdit(store, old, new, h, {k}, used)
            OBVIOUS
      <2>2. old \in Seq(Text) /\ new \in Seq(Text)
            BY <1>2
      <2> HIDE DEF old, new, h, k, used
      <2>3. LeavesDescribing(out, new)
            BY <1>4, <1>5, <1>6, <2>1, <2>2, UpdateDescribes
      <2> QED BY <2>3 DEF LeavesDescribing
<1>8. NextPc(rest, spans) = "commit"
      BY <1>3 DEF NextPc
<1>9. /\ v(out).pc = "commit" /\ v(out).spans # {} /\ v(out).base = call[u].base
      /\ v(out).cur = new
      <2> DEFINE anchors == AnchorsFor(out.store.rows, new)
                 seen == Forget(call[u].seen, out.dropped)
                 dropped == call[u].dropped \cup out.dropped
      <2>1. spans # {}
            OBVIOUS
      <2> HIDE DEF rest, spans, new, k
      <2>2. v(out) = [call[u] EXCEPT
                        !.pc = "commit", !.items = rest, !.spans = spans,
                        !.cur = new, !.h = anchors, !.asked = FALSE, !.bad = {},
                        !.dropped = dropped, !.seen = seen]
            BY <1>8
      <2> HIDE DEF anchors, seen, dropped, v
      <2> QED BY <1>2, <2>1, <2>2 DEF CallType
<1> HIDE DEF v
<1>10. (\A t \in Task \ {u} : call'[t] = call[t]) /\ call'[u] = v(out)
      BY <1>1, <1>2
<1>11. Steady(u)' /\ Repeats(u)'
      BY <1>1, <1>3, <1>7, <1>9, <1>10
         DEF Steady, AtItem, AtEnd, AtProbe, AtVerdict, Repeats
<1>12. RunsAlone(u)
      BY <1>2, ChainAlone DEF Chain
<1>13. Describes(store'.rows, store'.text)
      BY <1>1, <1>7
<1> QED BY <1>10, <1>11, <1>12, <1>13, StaysInChain

\* The batch's transaction touches no row.
LEMMA CommitStep ==
    ASSUME OneItemInv, TypeInv', NEW u \in Task, CommitBatch(u)
    PROVE  OneItemInv'
<1>1. call \in [Task -> CallType] /\ call[u] \in CallType /\ call[u].pc = "commit"
      BY DEF CommitBatch, OneItemInv, TypeInv, TypeOK
<1>2. (\A t \in Task \ {u} : call'[t] = call[t]) /\ call'[u] = [call[u] EXCEPT !.pc = "serve"]
      BY <1>1 DEF CommitBatch
<1>3. /\ call'[u].pc = "serve" /\ call'[u].cur = call[u].cur
      /\ call'[u].base = call[u].base /\ call'[u].spans = call[u].spans
      BY <1>1, <1>2 DEF CallType
<1>4. store' = store
      BY DEF CommitBatch
<1>5. AtEnd(u) /\ Describes(store.rows, store.text)
      BY DEF OneItemInv, Steady
<1>6. Steady(u)' /\ Repeats(u)'
      BY <1>1, <1>3, <1>4, <1>5 DEF Steady, AtItem, AtEnd, AtProbe, AtVerdict, Repeats
<1>7. RunsAlone(u)
      BY <1>1, ChainAlone DEF Chain
<1>8. Describes(store'.rows, store'.text)
      BY <1>4, <1>5
<1> QED BY <1>2, <1>6, <1>7, <1>8, StaysInChain

\* The mint of the response repairs what the transform repeated.
LEMMA WindowStep ==
    ASSUME OneItemInv, TypeInv', NEW u \in Task, ServeWindow(u)
    PROVE  OneItemInv'
<1> DEFINE c == call[u].cur
           window == DiffWindow(call[u].base, c, Pad)
<1>1. /\ call \in [Task -> CallType] /\ call[u].pc = "serve"
      /\ c \in Seq(Text) /\ c # <<>> /\ call[u].base \in Seq(Text)
      BY DEF ServeWindow, OneItemInv, TypeInv, TypeOK, CallOK, CallType
<1>2. call[u].base # c
      BY <1>1 DEF OneItemInv, Steady, AtEnd
<1>3. window # {} /\ window \in SUBSET Lines(c)
      <2>1. window # {}
            BY <1>1, <1>2, WindowShows
      <2> QED BY <2>1 DEF DiffWindow
<1>4. store' \in AnchorFor(store, c, window, pool)
      BY <1>3 DEF ServeWindow
<1> HIDE DEF window
<1>5. Describes(store'.rows, store'.text) /\ Unique(store'.rows)
      BY <1>1, <1>3, <1>4, MintedDescribes
<1>6. (\A t \in Task \ {u} : call'[t] = call[t]) /\ call'[u].pc \notin Chain
      BY <1>1 DEF ServeWindow, Idle, Chain
<1>7. RunsAlone(u)
      BY <1>1, ChainAlone DEF Chain
<1> QED BY <1>5, <1>6, <1>7, LeavesChain

\* The end of a call touches no row.
LEMMA RecordStep ==
    ASSUME OneItemInv, TypeInv', NEW u \in Task, Record(u)
    PROVE  OneItemInv'
<1>1. call \in [Task -> CallType] /\ call[u].pc = "record"
      BY DEF Record, OneItemInv, TypeInv, TypeOK
<1>2. RunsAlone(u) /\ ~Repeats(u) /\ store' = store
      BY <1>1 DEF Record, Repeats
<1>3. (\A t \in Task \ {u} : call'[t] = call[t]) /\ call'[u].pc \notin Chain
      BY <1>1 DEF Record, Finish, Idle, Chain
<1>4. Describes(store'.rows, store'.text)
      BY <1>2 DEF OneItemInv
<1> QED BY <1>2, <1>3, <1>4, LeavesChain

\* A call that runs out of anchors leaves the realigned rows, which are repaired
\* wherever they may have been repeated.
LEMMA ExhaustedStep ==
    ASSUME OneItemInv, TypeInv', NEW u \in Task, Exhausted(u)
    PROVE  OneItemInv'
<1> DEFINE c == call[u].cur
<1>1. /\ call \in [Task -> CallType] /\ CallOK(call[u])
      /\ call[u].pc \in {"read", "mint", "serve", "verify"}
      BY DEF Exhausted, Accepted, OneItemInv, TypeInv, TypeOK
<1>2. RunsAlone(u)
      BY <1>1, ChainAlone DEF Exhausted, Accepted, Chain
<1>3. store' \in Ensured(store, c)
      BY DEF Exhausted
<1>4. Describes(store.rows, store.text)
      BY DEF OneItemInv
<1>5. Describes(store'.rows, store'.text) /\ Unique(store'.rows)
      <2>1. CASE store.text = <<>>
            <3>1. store' = store
                  BY <1>3, <2>1 DEF Ensured
            <3>2. call[u].pc # "serve"
                  BY <1>1, <2>1 DEF OneItemInv, Steady, AtEnd, CallOK
            <3>3. ~Repeats(u)
                  BY <1>1, <3>2 DEF Repeats
            <3> QED BY <1>2, <1>4, <3>1, <3>3, RepairedUnless
      <2>2. CASE store.text # <<>>
            <3>1. store' \in EnsureState(store, c)
                  BY <1>3, <2>2 DEF Ensured
            <3>2. store'.text = c /\ Describes(store'.rows, c) /\ Unique(store'.rows)
                  BY <1>4, <3>1, EnsureDescribes
            <3> QED BY <3>2
      <2> QED BY <2>1, <2>2
<1>6. (\A t \in Task \ {u} : call'[t] = call[t]) /\ call'[u].pc \notin Chain
      BY <1>1 DEF Exhausted, Finish, Idle, Chain
<1> QED BY <1>2, <1>5, <1>6, LeavesChain

\* At the start nothing is known and nobody is at work.
LEMMA OneItemInit == Init => OneItemInv
<1> SUFFICES ASSUME Init
             PROVE  OneItemInv
    OBVIOUS
<1>1. \A t \in Task : call[t].pc = "idle"
      BY DEF Init, Idle
<1>2. Describes(store.rows, store.text) /\ Unique(store.rows)
      BY DEF Init, NoRows, Describes, Unique
<1>3. (\A t \in Task : Steady(t)) /\ Exclusive
      BY <1>1, SteadyOutside DEF Exclusive, Chain
<1> QED BY <1>2, <1>3, TypeInit DEF OneItemInv, Repaired

\* Every step of such a process preserves the invariant.
LEMMA OneItemStep ==
    ASSUME MaxItems = 1, "crash" \notin Faults
    PROVE  OneItemInv /\ [Next]_vars => OneItemInv'
<1> SUFFICES ASSUME OneItemInv, [Next]_vars
             PROVE  OneItemInv'
    OBVIOUS
<1>1. TypeInv'
      BY TypeStep DEF OneItemInv
<1>2. ASSUME NEW u \in Task, NEW lo \in 1 .. MaxLine, NEW hi \in 1 .. MaxLine,
             ServeRead(u, lo, hi)
      PROVE  OneItemInv'
      BY <1>1, <1>2, ReadStep
<1>3. ASSUME NEW u \in Task, NEW n \in 1 .. MaxItems,
             NEW items \in [1 .. n -> Request], Plan(u, items)
      PROVE  OneItemInv'
      BY <1>1, <1>3, PlanStep
<1>4. ASSUME NEW u \in Task,
             \/ OpenRead(u) \/ OpenEdit(u) \/ Abort(u) \/ Write(u)
             \/ WriteFails(u) \/ ProbeFails(u)
      PROVE  OneItemInv'
      BY <1>1, <1>4, OutsideChain
<1>5. ASSUME NEW u \in Task,
             \/ Probe(u) \/ MintEcho(u) \/ Reject(u) \/ Noop(u) \/ Apply(u)
             \/ CommitBatch(u) \/ ServeWindow(u) \/ Record(u) \/ Exhausted(u)
      PROVE  OneItemInv'
      BY <1>1, <1>5, ProbeStep, MintEchoStep, RejectStep, NoopStep, ApplyStep,
         CommitStep, WindowStep, RecordStep, ExhaustedStep
<1>6. CASE UNCHANGED <<store, served, call>>
      <2>1. \A t \in Task : Steady(t) => Steady(t)'
            BY <1>6 DEF Steady, AtItem, AtEnd, AtProbe, AtVerdict, Asked, Item, Vouched
      <2> QED BY <1>1, <1>6, <2>1 DEF OneItemInv, Exclusive, Repaired, Repeats
<1>7. External => UNCHANGED <<store, served, call>>
      BY DEF External
<1>8. UNCHANGED vars => UNCHANGED <<store, served, call>>
      BY DEF vars
<1>9. ~Crash
      BY DEF Crash
<1> QED BY <1>2, <1>3, <1>4, <1>5, <1>6, <1>7, <1>8, <1>9 DEF Next

\* The rows never lie: whatever else writes the file, whatever the calls of other
\* sessions do in between, a call of one item leaves every row on the line whose
\* content it was minted for.
THEOREM RowsTruthful ==
    ASSUME MaxItems = 1, "crash" \notin Faults
    PROVE  Spec => []RowsDescribeText
<1>1. OneItemInv => RowsDescribeText
      BY DEF OneItemInv, Describes, RowsDescribeText
<1> QED BY <1>1, OneItemInit, OneItemStep, PTL DEF Spec

\* No anchor names two lines whenever no call is past its transform.
THEOREM AnchorsUnambiguous ==
    ASSUME MaxItems = 1, "crash" \notin Faults
    PROVE  Spec => []UniqueAtRest
<1>1. OneItemInv => UniqueAtRest
      <2> SUFFICES ASSUME OneItemInv,
                          \A t \in Task : call[t].spans = {} \/ call[t].pc \notin Chain
                   PROVE  Unique(store.rows)
          BY DEF UniqueAtRest
      <2>1. \A t \in Task : ~Repeats(t)
            BY DEF OneItemInv, Steady, AtEnd, Repeats, Chain
      <2> QED BY <2>1 DEF OneItemInv, Repaired
<1> QED BY <1>1, OneItemInit, OneItemStep, PTL DEF Spec

\* Only Apply applies an item.
LEMMA AppliedByApply ==
    ASSUME TypeInv, [Next]_vars, NEW t \in Task, Applied(t)
    PROVE  Apply(t)
<1>1. call \in [Task -> CallType] /\ call[t].pc = "verify"
      BY DEF Applied, TypeInv, TypeOK
<1>2. call'[t].spans # call[t].spans /\ call'[t].pc # "idle" /\ call'[t] # call[t]
      BY DEF Applied
<1>3. ASSUME NEW u \in Task,
             \/ OpenRead(u) \/ OpenEdit(u) \/ Probe(u) \/ MintEcho(u) \/ CommitBatch(u)
             \/ ServeWindow(u) \/ Write(u) \/ WriteFails(u) \/ Record(u) \/ ProbeFails(u)
      PROVE  FALSE
      <2>1. call[u].pc # "verify"
            BY <1>3 DEF OpenRead, OpenEdit, Probe, MintEcho, CommitBatch, ServeWindow, Write,
               WriteFails, Record, ProbeFails
      <2>2. \A w \in Task \ {u} : call'[w] = call[w]
            BY <1>1, <1>3 DEF OpenRead, OpenEdit, Probe, MintEcho, CommitBatch, ServeWindow,
               Write, WriteFails, Record, ProbeFails, Finish
      <2> QED BY <1>1, <1>2, <2>1, <2>2
<1>4. ASSUME NEW u \in Task, NEW lo \in 1 .. MaxLine, NEW hi \in 1 .. MaxLine,
             ServeRead(u, lo, hi)
      PROVE  FALSE
      BY <1>1, <1>2, <1>4 DEF ServeRead, Finish, Idle
<1>5. ASSUME NEW u \in Task, NEW n \in 1 .. MaxItems,
             NEW items \in [1 .. n -> Request], Plan(u, items)
      PROVE  FALSE
      <2>1. call[u].pc = "open" /\ \A w \in Task \ {u} : call'[w] = call[w]
            BY <1>1, <1>5 DEF Plan
      <2> QED BY <1>1, <1>2, <2>1
<1>6. ASSUME NEW u \in Task, Reject(u) \/ Abort(u) \/ Exhausted(u)
      PROVE  FALSE
      <2>1. Finish(u)
            BY <1>6 DEF Reject, Abort, Exhausted
      <2>2. call'[u].pc = "idle" /\ \A w \in Task \ {u} : call'[w] = call[w]
            BY <1>1, <2>1 DEF Finish, Idle
      <2> QED BY <1>2, <2>2
<1>7. ASSUME NEW u \in Task, Noop(u)
      PROVE  FALSE
      <2> DEFINE rest == Tail(call[u].items)
                 pc == NextPc(rest, call[u].spans)
                 v == [call[u] EXCEPT !.pc = pc, !.items = rest, !.asked = FALSE, !.bad = {}]
      <2>1. call' = [call EXCEPT ![u] = IF pc = "idle" THEN Idle ELSE v]
            BY <1>7 DEF Noop
      <2>2. v.spans = call[u].spans
            BY <1>1 DEF CallType
      <2> HIDE DEF pc, v
      <2>3. /\ \A w \in Task \ {u} : call'[w] = call[w]
            /\ call'[u] = Idle \/ call'[u] = v
            BY <1>1, <2>1
      <2> QED BY <1>2, <2>2, <2>3 DEF Idle
<1>8. ASSUME NEW u \in Task, Apply(u)
      PROVE  u = t
      <2>1. \A w \in Task \ {u} : call'[w] = call[w]
            BY <1>1, <1>8 DEF Apply
      <2> QED BY <1>2, <2>1
<1>9. ~External /\ ~Crash /\ ~UNCHANGED vars
      BY <1>2 DEF External, Crash, Idle, vars
<1> QED BY <1>3, <1>4, <1>5, <1>6, <1>7, <1>8, <1>9 DEF Next

\* An accepted item's lines are vouched for by the probe, if it was asked, or by the record.
LEMMA AcceptedVouched ==
    ASSUME TypeInv, NEW t \in Task, Accepted(t),
           call[t].asked =>
                /\ Asked(t) # {}
                /\ call[t].bad = {} => \A i \in Asked(t) : Vouched(call[t].seen, t, i),
           NEW i \in Target(t)
    PROVE  Vouched(call[t].seen, t, i)
<1> DEFINE h == call[t].h
           from == First(h, Item(t).from)
           to == First(h, Item(t).to)
<1>1. /\ call[t].pc = "verify" /\ Unverified(t) = {}
      /\ Resolves(h, Item(t).from) /\ Resolves(h, Item(t).to)
      BY DEF Accepted, Stale, Resolved
<1>2. /\ call[t].cur \in Seq(Text) /\ h \in Seq(Anchor \cup {NoAnchor})
      /\ DOMAIN h = Lines(call[t].cur)
      BY <1>1 DEF TypeInv, TypeOK, CallOK, CallType
<1>3. from \in Int /\ to \in Int
      <2>1. DOMAIN h = 1 .. Len(call[t].cur) /\ Len(call[t].cur) \in Nat
            BY <1>2 DEF Lines
      <2>2. from \in 1 .. Len(call[t].cur)
            BY <1>1, <2>1, FirstIsLine
      <2>3. to \in 1 .. Len(call[t].cur)
            BY <1>1, <2>1, FirstIsLine
      <2> HIDE DEF from, to
      <2> QED BY <2>2, <2>3
<1>4. CASE call[t].asked
      <2>1. Asked(t) = from .. to /\ Asked(t) # {}
            BY <1>1, <1>4 DEF Asked
      <2>2. Target(t) = Min({from, to}) .. Max({from, to})
            BY DEF Target, Lo, Hi
      <2>3. call[t].bad = {}
            BY <1>1, <1>4 DEF Unverified
      <2>4. \A j \in Asked(t) : Vouched(call[t].seen, t, j)
            BY <1>4, <2>3
      <2> HIDE DEF from, to
      <2>5. from <= to
            BY <1>3, <2>1
      <2>6. /\ Min({from, to}) \in {from, to} /\ Min({from, to}) <= from
            /\ Max({from, to}) \in {from, to} /\ Max({from, to}) >= to
            BY <1>3, MinOfTwo
      <2>7. i \in Asked(t)
            BY <1>3, <2>1, <2>2, <2>5, <2>6
      <2> QED BY <2>4, <2>7
<1>5. CASE ~call[t].asked
      <2>1. h[i] # NoAnchor /\ call[t].seen[h[i]] = Canon[call[t].cur[i]]
            BY <1>1, <1>5 DEF Unverified
      <2>2. i \in DOMAIN h
            <3>1. /\ Lo(h, Item(t)) \in Lines(call[t].cur)
                  /\ Hi(h, Item(t)) \in Lines(call[t].cur)
                  BY ResultType
            <3>2. i \in Lo(h, Item(t)) .. Hi(h, Item(t))
                  BY DEF Target
            <3> HIDE DEF h
            <3> QED BY <1>2, <3>1, <3>2 DEF Lines
      <2>3. h[i] \in Anchor
            BY <1>2, <2>1, <2>2
      <2> QED BY <2>1, <2>3 DEF Vouched
<1> QED BY <1>4, <1>5

\* An edit of one item replaces only lines whose present content its session had
\* been served before the call: however many sessions, whatever writes the file
\* meanwhile and whichever anchors the allocator and the aligner choose.
THEOREM EditsLand ==
    ASSUME MaxItems = 1, "crash" \notin Faults
    PROVE  Spec => LandsWhereServed
<1>1. OneItemInv /\ [Next]_vars => [LandsStep]_vars
      <2> SUFFICES ASSUME OneItemInv, [Next]_vars, NEW t \in Task, Applied(t),
                          NEW i \in Target(t)
                   PROVE  Vouched(call[t].seen, t, i)
          BY DEF LandsStep
      <2>1. Accepted(t)
            BY AppliedByApply DEF Apply, OneItemInv
      <2>2. /\ TypeInv
            /\ call[t].asked =>
                /\ Asked(t) # {}
                /\ call[t].bad = {} => \A j \in Asked(t) : Vouched(call[t].seen, t, j)
            BY <2>1 DEF Accepted, OneItemInv, Steady, AtVerdict
      <2> QED BY <2>1, <2>2, AcceptedVouched
<1> QED BY <1>1, OneItemInit, OneItemStep, PTL DEF Spec, LandsWhereServed

-----------------------------------------------------------------------------
(***************************************************************************)
(* What a response shows can be used: a call alone on its file, of any     *)
(* number of items, whatever fails.                                        *)
(***************************************************************************)

\* The record of a session holds a line's key under the anchor shown for it, and the rows
\* name that line by it alone.
ShownIsServed(t) ==
    call[t].pc \in {"write", "record"} =>
        \A i \in call[t].shown :
            /\ RowsNaming(store.rows, call[t].h[i]) = {i}
            /\ store.rows[i].key = Canon[call[t].cur[i]]
            /\ call[t].h[i] \in Anchor
            /\ served[SessionOf[t]][call[t].h[i]] = Canon[call[t].cur[i]]
            /\ i \in Lines(call[t].cur)

ShownInv == TypeInv /\ \A t \in Task : ShownIsServed(t)

\* The probe has nothing against such a line.
LEMMA ShownIsUsable ==
    ASSUME NEW rows, NEW record, NEW c, NEW a, NEW i \in Int,
           RowsNaming(rows, a) = {i}, rows[i].key = Canon[c[i]], record[a] = Canon[c[i]]
    PROVE  ProbeLine(rows, record, c, a, i) = {}
BY DEF ProbeLine

\* Serving a window makes it so.
LEMMA WindowShown ==
    ASSUME ShownInv, NEW t \in Task, ServeWindow(t)
    PROVE  ShownIsServed(t)'
<1> DEFINE c == call[t].cur
           s == SessionOf[t]
           window == DiffWindow(call[t].base, c, Pad)
           anchors == AnchorsFor(store'.rows, c)
<1>1. /\ call \in [Task -> CallType] /\ s \in Session /\ c \in Seq(Text)
      /\ served \in [Session -> [Anchor -> Key \cup {Unserved, Keyless}]]
      BY SessionAssumption DEF ShownInv, TypeInv, TypeOK, CallType
<1>2. window \in SUBSET Lines(c)
      BY DEF DiffWindow
<1>3. call'[t].shown = window /\ call'[t].cur = c /\ call'[t].h = anchors
      BY <1>1 DEF ServeWindow, Idle
<1>4. CASE window = {}
      BY <1>3, <1>4 DEF ShownIsServed
<1>5. CASE window # {}
  <2>1. /\ store' \in AnchorFor(store, c, window, pool)
        /\ served' = [served EXCEPT ![s] = Serve(@, anchors, window, c)]
        BY <1>5 DEF ServeWindow
  <2>2. RowsTyped(store.rows) /\ DOMAIN store.rows \subseteq Int
        BY DEF ShownInv, TypeInv, TypeOK, RowsTyped
  <2> HIDE DEF c, s, window
  <2>3. /\ Unique(store'.rows)
        /\ \A i \in window : i \in DOMAIN store'.rows /\ store'.rows[i].key = Canon[c[i]]
        BY <2>1, <2>2, AnchorForNames
  <2>4. RowsTyped(store'.rows)
        BY <1>1, <1>2, <2>1, <2>2, AnchorForTyped
  <2> SUFFICES ASSUME NEW i \in window
               PROVE  /\ RowsNaming(store'.rows, anchors[i]) = {i}
                      /\ store'.rows[i].key = Canon[c[i]]
                      /\ anchors[i] \in Anchor
                      /\ served'[s][anchors[i]] = Canon[c[i]]
                      /\ i \in Lines(c)
      BY <1>3 DEF ShownIsServed, s
  <2>5. i \in Lines(c) /\ i \in Int
        BY <1>2 DEF Lines
  <2>6. anchors[i] = store'.rows[i].anchor /\ anchors[i] \in Anchor
        BY <2>3, <2>4, <2>5 DEF AnchorsFor, RowsTyped, Row
  <2>7. RowsNaming(store'.rows, anchors[i]) = {i}
        BY <2>3, <2>6 DEF RowsNaming, Unique
  <2>8. {j \in window : anchors[j] = anchors[i]} = {i}
    <3>1. \A j \in window : anchors[j] = store'.rows[j].anchor
          BY <1>2, <2>3 DEF AnchorsFor
    <3> HIDE DEF anchors
    <3> QED BY <2>3, <3>1 DEF Unique
  <2> HIDE DEF anchors
  <2>9. Max({i}) = i
    <3>1. IsFiniteSet({i}) /\ {i} \in SUBSET Int /\ {i} # {}
          BY <2>5, FS_Singleton
    <3>2. Max({i}) \in {i}
          BY <3>1, MaxInt
    <3> QED BY <3>2
  <2>10. Serve(served[s], anchors, window, c)[anchors[i]] = Canon[c[i]]
        BY <2>6, <2>8, <2>9 DEF Serve
  <2>11. served'[s] = Serve(served[s], anchors, window, c)
        BY <1>1, <2>1
  <2> QED BY <2>3, <2>5, <2>6, <2>7, <2>10, <2>11
<1> QED BY <1>4, <1>5

\* Until the call has recorded it, nobody else touches rows or record.
LEMMA ShownStep ==
    ASSUME \A t, u \in Task : t = u
    PROVE  ShownInv /\ [Next]_vars => ShownInv'
<1> SUFFICES ASSUME ShownInv, [Next]_vars
             PROVE  ShownInv'
    OBVIOUS
<1>1. TypeInv'
      BY TypeStep DEF ShownInv
<1> SUFFICES ASSUME NEW t \in Task
             PROVE  ShownIsServed(t)'
    BY <1>1 DEF ShownInv
<1>2. call \in [Task -> CallType] /\ ShownIsServed(t)
      BY DEF ShownInv, TypeInv, TypeOK
<1>3. CASE ServeWindow(t)
      BY <1>3, WindowShown
<1>4. CASE Write(t)
  <2>1. /\ call[t].pc = "write" /\ UNCHANGED <<store, served>>
        /\ call'[t].cur = call[t].cur /\ call'[t].h = call[t].h /\ call'[t].shown = call[t].shown
        BY <1>2, <1>4 DEF Write, CallType
  <2> QED BY <1>2, <2>1 DEF ShownIsServed
<1>5. CASE UNCHANGED <<store, served, call>>
      BY <1>2, <1>5 DEF ShownIsServed
<1>6. CASE Crash
      BY <1>6 DEF Crash, Idle, ShownIsServed
<1>7. ASSUME NEW u \in Task,
             \/ OpenRead(u) \/ OpenEdit(u) \/ Probe(u) \/ MintEcho(u) \/ Reject(u) \/ Abort(u)
             \/ Noop(u) \/ Apply(u) \/ CommitBatch(u) \/ WriteFails(u) \/ Record(u)
             \/ Exhausted(u) \/ ProbeFails(u)
             \/ \E lo, hi \in 1 .. MaxLine : ServeRead(u, lo, hi)
             \/ \E n \in 1 .. MaxItems : \E items \in [1 .. n -> Request] : Plan(u, items)
      PROVE  call'[t].pc \notin {"write", "record"}
  <2>1. u = t
        OBVIOUS
  <2>2. CASE Finish(t)
        BY <1>2, <2>2 DEF Finish, Idle
  <2>3. CASE OpenRead(t) \/ OpenEdit(t)
        BY <1>2, <2>3, ZenonT(60) DEF OpenRead, OpenEdit, Idle
  <2>4. CASE MintEcho(t) \/ CommitBatch(t)
        BY <1>2, <2>4 DEF MintEcho, CommitBatch, CallType
  <2>9. CASE Probe(t)
    <3>1. PICK asked, bad, pc : /\ call' = [call EXCEPT ![t].asked = asked, ![t].bad = bad, ![t].pc = pc]
                                /\ pc \in {"mint", "verify"}
          BY <2>9 DEF Probe
    <3> QED BY <1>2, <3>1 DEF CallType
  <2>5. CASE Reject(t)
        BY <1>2, <2>5 DEF Reject, Finish, Idle
  <2>6. CASE Noop(t)
        BY <1>2, <2>6 DEF Noop, NextPc, Idle, CallType
  <2>7. CASE Apply(t)
        BY <1>2, <2>7 DEF Apply, NextPc, CallType
  <2>8. ASSUME NEW n \in 1 .. MaxItems, NEW items \in [1 .. n -> Request], Plan(t, items)
        PROVE  call'[t].pc \in {"idle", "probe"}
    <3> DEFINE c == call[t].cur
               h == AnchorsFor(store.rows, c)
               v == [call[t] EXCEPT !.pc = "probe", !.inStep = InStep(c),
                        !.placed = \A k \in DOMAIN items : Resolved(h, items[k]),
                        !.base = c, !.h0 = h, !.h = h, !.seen = served[SessionOf[t]],
                        !.items = [k \in DOMAIN items |-> Expand(c, h, items[k])]]
    <3>1. call' = [call EXCEPT ![t] = Idle] \/ call' = [call EXCEPT ![t] = v]
          BY <2>8 DEF Plan
    <3>2. v.pc = "probe" /\ Idle.pc = "idle"
      <4>1. call[t] \in CallType
            BY <1>2
      <4> QED BY <4>1 DEF CallType, Idle
    <3> HIDE DEF v
    <3> QED BY <1>2, <3>1, <3>2
  <2> QED BY <1>7, <2>1, <2>2, <2>3, <2>4, <2>5, <2>6, <2>7, <2>8, <2>9
          DEF ServeRead, Abort, WriteFails, Record, Exhausted, ProbeFails
<1>8. External => UNCHANGED <<store, served, call>>
      BY DEF External
<1>9. UNCHANGED vars => UNCHANGED <<store, served, call>>
      BY DEF vars
<1>10. \A u \in Task : u = t
      OBVIOUS
<1> QED BY <1>3, <1>4, <1>5, <1>6, <1>7, <1>8, <1>9, <1>10 DEF Next, ShownIsServed

\* The end of a call whose response was recorded leaves it so.
LEMMA RecordKeepsShown ==
    ASSUME ShownInv, NEW t \in Task, Record(t), NEW i \in call[t].shown
    PROVE  served'[SessionOf[t]][call[t].h[i]] = Canon[call[t].cur[i]]
<1> DEFINE s == SessionOf[t]
           c == call[t].cur
           a == call[t].h[i]
           member == [b \in Anchor |->
                IF served[s][b] = Unserved /\ \E k \in call[t].shown : call[t].h[k] = b
                THEN Keyless ELSE served[s][b]]
           live == {AnchorsFor(store.rows, c)[k] : k \in Lines(c)}
           gone == NotLive(member, live)
<1>1. /\ s \in Session /\ served \in [Session -> [Anchor -> Key \cup {Unserved, Keyless}]]
      /\ c \in Seq(Text)
      BY SessionAssumption DEF ShownInv, TypeInv, TypeOK, CallType
<1>2. /\ RowsNaming(store.rows, a) = {i} /\ a \in Anchor /\ served[s][a] = Canon[c[i]]
      /\ i \in Lines(c)
      BY DEF ShownInv, ShownIsServed, Record
<1>3. Canon[c[i]] \in Key
      BY <1>1, <1>2, CanonAssumption DEF Lines
<1>4. member[a] = Canon[c[i]]
      BY <1>2, <1>3, ServedAssumption
<1>5. a \in live
      BY <1>2 DEF RowsNaming, AnchorsFor
<1>6. served' = [served EXCEPT ![s] = Forget(member, gone)]
      BY DEF Record
<1>7. Forget(member, gone)[a] = member[a]
      BY <1>2, <1>5 DEF Forget, NotLive
<1> HIDE DEF s, member, gone
<1>8. served'[s] = Forget(member, gone)
      BY <1>1, <1>6
<1> QED BY <1>4, <1>7, <1>8 DEF s

\* When a call that is alone on its file ends, the probe has nothing against a line its
\* response shows: the mint, the entries served and the pruning of the record agree, for
\* batches of any size, over any rows, when other programs write and when the process dies.
THEOREM ResponsesUsable ==
    ASSUME \A t, u \in Task : t = u
    PROVE  Spec => ResponseIsUsable
<1>1. Init => ShownInv
      <2> SUFFICES ASSUME Init
                   PROVE  ShownInv
          OBVIOUS
      <2>1. \A t \in Task : call[t].pc = "idle"
            BY DEF Init, Idle
      <2> QED BY <2>1, TypeInit DEF ShownInv, ShownIsServed
<1>2. ShownInv /\ [Next]_vars =>
        [\A t \in Task : call[t].pc = "record" /\ call'[t].pc = "idle" =>
            \A i \in call[t].shown :
                ProbeLine(store'.rows, served'[SessionOf[t]], call[t].cur,
                          call[t].h[i], i) = {}]_vars
      <2> SUFFICES ASSUME ShownInv, [Next]_vars, NEW t \in Task, call[t].pc = "record",
                          call'[t].pc = "idle", NEW i \in call[t].shown
                   PROVE  ProbeLine(store'.rows, served'[SessionOf[t]], call[t].cur,
                                    call[t].h[i], i) = {}
          OBVIOUS
      <2>1. /\ RowsNaming(store.rows, call[t].h[i]) = {i}
            /\ store.rows[i].key = Canon[call[t].cur[i]]
            /\ served[SessionOf[t]][call[t].h[i]] = Canon[call[t].cur[i]]
            /\ i \in Int
            <3>1. i \in Lines(call[t].cur) /\ call[t].cur \in Seq(Text)
                  BY DEF ShownInv, ShownIsServed, TypeInv, TypeOK, CallType
            <3>2. i \in Int
                  BY <3>1 DEF Lines
            <3> QED BY <3>2 DEF ShownInv, ShownIsServed
      <2>2. call'[t] # call[t] /\ \A u \in Task : u = t
            OBVIOUS
      <2>3. Record(t) \/ Crash
            <3>1. ~OpenRead(t) /\ ~OpenEdit(t) /\ \A lo, hi : ~ServeRead(t, lo, hi)
                  BY DEF OpenRead, OpenEdit, ServeRead
            <3>2. \A items : ~Plan(t, items)
                  BY DEF Plan
            <3>3. ~Probe(t) /\ ~MintEcho(t) /\ ~CommitBatch(t) /\ ~ServeWindow(t) /\ ~Write(t)
                  BY DEF Probe, MintEcho, CommitBatch, ServeWindow, Write
            <3>4. ~Reject(t) /\ ~Abort(t) /\ ~Noop(t) /\ ~Apply(t)
                  BY DEF Reject, Abort, Noop, Apply, Accepted
            <3>5. ~WriteFails(t) /\ ~ProbeFails(t) /\ ~Exhausted(t)
                  BY DEF WriteFails, ProbeFails, Exhausted, Accepted
            <3>6. ~External /\ ~UNCHANGED vars
                  BY <2>2 DEF External, vars
            <3> QED BY <2>2, <3>1, <3>2, <3>3, <3>4, <3>5, <3>6 DEF Next
      <2>4. store' = store
            BY <2>3 DEF Record, Crash
      <2>5. served'[SessionOf[t]][call[t].h[i]] = Canon[call[t].cur[i]]
            BY <2>1, <2>3, RecordKeepsShown DEF Crash
      <2> QED BY <2>1, <2>4, <2>5, ShownIsUsable
<1> QED BY <1>1, <1>2, ShownStep, PTL DEF Spec, ResponseIsUsable

-----------------------------------------------------------------------------
\* What a batch of any number of items releases stays released, and the items of a
\* call land where its session was served, whatever the calls of other sessions do,
\* through crashes, failed writes and writes of other programs.

\* The steps of a call at one of its items, and those after its transaction.
ItemPc == {"probe", "mint", "verify"}
FilePc == {"write", "record"}

\* A call in step works on rows that are for its text, one per anchor; its
\* projection has an anchor only where there is a row, so nothing is seeded.
RowsAtWork(t) ==
    call[t].inStep /\ call[t].pc \in ItemPc =>
        /\ store.text = call[t].cur
        /\ Unique(store.rows)
        /\ \A i \in Lines(call[t].cur) : call[t].h[i] # NoAnchor => i \in DOMAIN store.rows

\* What it has dropped is not live and cannot be minted.
Gone(D) == D \cap Live(store.rows) = {} /\ D \subseteq pool
DroppedGone(t) ==
    call[t].inStep /\ call[t].pc \in Chain \cup FilePc => Gone(call[t].dropped)

\* After its transaction the session has no record of it.
NoRecord(D, s) == \A a \in D : served[s][a] = Unserved
DroppedUnserved(t) ==
    call[t].inStep /\ call[t].pc \in {"serve"} \cup FilePc =>
        NoRecord(call[t].dropped, SessionOf[t])

\* A call about to read the rows has dropped nothing.
NothingYet(t) == call[t].pc = "open" => call[t].dropped = {}

\* A call at an item holds no anchor of the set in its projection, which it may seed
\* rows from and serve an echo by.
HoldsNone(u, D) ==
    call[u].pc \in ItemPc => \A i \in Lines(call[u].cur) : call[u].h[i] \notin D

\* So it is with what a call that has only its file to write has dropped.
HeldByNone(t) ==
    call[t].inStep /\ call[t].pc \in FilePc =>
        \A u \in Task \ {t} : HoldsNone(u, call[t].dropped)

Releasing(t) ==
    /\ RowsAtWork(t) /\ DroppedGone(t) /\ DroppedUnserved(t)
    /\ NothingYet(t) /\ HeldByNone(t)

ReleaseInv == TypeInv /\ Exclusive /\ \A t \in Task : Releasing(t)

\* A set of anchors a step of u can bring back neither as rows nor as records.
Away(u, D) == D \in SUBSET Anchor /\ Gone(D) /\ HoldsNone(u, D)

-----------------------------------------------------------------------------
(* what each step does to a set of anchors that is away *)

\* The projection of rows holds only live anchors.
LEMMA ProjectionLive ==
    ASSUME NEW rows, NEW c, NEW i \in Lines(c)
    PROVE  AnchorsFor(rows, c)[i] \in Live(rows) \cup {NoAnchor}
BY DEF AnchorsFor, Live

\* Serving lines under other anchors leaves a record as it was.
LEMMA ServeSpares ==
    ASSUME NEW record, NEW anchors, NEW L, NEW c, NEW a \in Anchor,
           \A i \in L : anchors[i] # a
    PROVE  Serve(record, anchors, L, c)[a] = record[a]
<1>1. {i \in L : anchors[i] = a} = {}
      OBVIOUS
<1> QED BY <1>1 DEF Serve

\* So does serving them to one session, in every session's record.
LEMMA ServedSpares ==
    ASSUME TypeInv, NEW t \in Task, NEW anchors, NEW c, NEW L, NEW D \in SUBSET Anchor,
           served' = [served EXCEPT ![SessionOf[t]] = Serve(@, anchors, L, c)],
           \A i \in L : anchors[i] \notin D
    PROVE  \A s \in Session : NoRecord(D, s) => NoRecord(D, s)'
<1>1. SessionOf[t] \in Session /\ served \in [Session -> Served]
      BY SessionAssumption DEF TypeInv, TypeOK, Served
<1> DEFINE r == Serve(served[SessionOf[t]], anchors, L, c)
<1>2. \A a \in D : r[a] = served[SessionOf[t]][a]
      BY ServeSpares
<1> HIDE DEF r
<1>3. served' = [served EXCEPT ![SessionOf[t]] = r]
      BY DEF r
<1> QED BY <1>1, <1>2, <1>3 DEF NoRecord

\* A window that is minted and served: the mint avoids the pool and serves live anchors.
LEMMA MintKeepsGone ==
    ASSUME TypeInv, NEW t \in Task, NEW c, NEW W, W \subseteq Lines(c),
           store' \in AnchorFor(store, c, W, pool), pool' = pool,
           served' = [served EXCEPT ![SessionOf[t]] =
                        Serve(@, AnchorsFor(store'.rows, c), W, c)],
           NEW D \in SUBSET Anchor, Gone(D)
    PROVE  Gone(D)' /\ \A s \in Session : NoRecord(D, s) => NoRecord(D, s)'
<1>1. Live(store'.rows) \subseteq Live(store.rows) \cup (Anchor \ pool)
      BY AnchorForLive
<1>2. D \cap Live(store'.rows) = {}
      BY <1>1 DEF Gone
<1>3. \A i \in W : AnchorsFor(store'.rows, c)[i] \notin D
      BY <1>2, ProjectionLive, NoAnchorAssumption
<1>4. \A s \in Session : NoRecord(D, s) => NoRecord(D, s)'
      <2> DEFINE anchors == AnchorsFor(store'.rows, c)
      <2>1. served' = [served EXCEPT ![SessionOf[t]] = Serve(@, anchors, W, c)]
            OBVIOUS
      <2>2. \A i \in W : anchors[i] \notin D
            BY <1>3
      <2> HIDE DEF anchors
      <2> QED BY <2>1, <2>2, ServedSpares
<1> QED BY <1>2, <1>4 DEF Gone

\* One task moves: what it holds afterwards.
LEMMA HoldsNoneOutside ==
    ASSUME NEW u \in Task, NEW D, call'[u].pc \notin ItemPc
    PROVE  HoldsNone(u, D)'
BY DEF HoldsNone

\* A call that ends is not at an item.
LEMMA FinishMoves ==
    ASSUME TypeInv, NEW u \in Task, Finish(u)
    PROVE  (\A t \in Task \ {u} : call'[t] = call[t]) /\ call'[u] = Idle
BY DEF Finish, TypeInv, TypeOK

\* What stays away in a step of u.
StaysAway(u, D) ==
    /\ Away(u, D)'
    /\ \A s \in Session : NoRecord(D, s) => NoRecord(D, s)'

\* A read.
LEMMA ReadAway ==
    ASSUME TypeInv, NEW u \in Task, NEW lo \in 1 .. MaxLine, NEW hi \in 1 .. MaxLine,
           ServeRead(u, lo, hi), NEW D, Away(u, D)
    PROVE  StaysAway(u, D)
<1> DEFINE c == call[u].cur
<1>1. lo .. hi \subseteq Lines(c)
      <2>1. c \in Seq(Text)
            BY DEF TypeInv, TypeOK, CallType
      <2> QED BY <2>1, BoundAssumption DEF ServeRead, Lines
<1>2. /\ store' \in AnchorFor(store, c, lo .. hi, pool) /\ pool' = pool
      /\ served' = [served EXCEPT ![SessionOf[u]] =
                        Serve(@, AnchorsFor(store'.rows, c), lo .. hi, c)]
      BY DEF ServeRead
<1>3. D \in SUBSET Anchor /\ Gone(D)
      BY DEF Away
<1> HIDE DEF c
<1>4. Gone(D)' /\ \A s \in Session : NoRecord(D, s) => NoRecord(D, s)'
      BY <1>1, <1>2, <1>3, MintKeepsGone
<1>5. call'[u].pc \notin ItemPc
      BY FinishMoves DEF ServeRead, Idle, ItemPc
<1> QED BY <1>3, <1>4, <1>5, HoldsNoneOutside DEF StaysAway, Away

\* A plan: the projection is of live rows.
LEMMA PlanAway ==
    ASSUME TypeInv, NEW u \in Task, NEW items, Plan(u, items), NEW D, Away(u, D)
    PROVE  StaysAway(u, D)
<1> DEFINE c == call[u].cur
           h == AnchorsFor(store.rows, c)
           expanded == [k \in DOMAIN items |-> Expand(c, h, items[k])]
           v == [call[u] EXCEPT !.pc = "probe", !.inStep = InStep(c),
                    !.placed = \A k \in DOMAIN items : Resolved(h, items[k]),
                    !.base = c, !.h0 = h, !.h = h,
                    !.seen = served[SessionOf[u]], !.items = expanded]
<1>1. UNCHANGED <<disk, store, served, pool>> /\ (call' = [call EXCEPT ![u] = Idle] \/ call' = [call EXCEPT ![u] = v])
      BY DEF Plan
<1>2. call \in [Task -> CallType] /\ call[u] \in CallType
      BY DEF TypeInv, TypeOK
<1>3. D \in SUBSET Anchor /\ D \cap Live(store.rows) = {}
      BY DEF Away, Gone
<1>4. \A i \in Lines(c) : h[i] \notin D
      BY <1>3, ProjectionLive, NoAnchorAssumption
<1>5. v.cur = c /\ v.h = h
      <2> HIDE DEF h, expanded, c
      <2> QED BY <1>2 DEF CallType, c
<1> HIDE DEF v, h, c
<1>6. HoldsNone(u, D)'
      <2>1. CASE call' = [call EXCEPT ![u] = Idle]
            BY <1>2, <2>1 DEF HoldsNone, Idle, ItemPc
      <2>2. CASE call' = [call EXCEPT ![u] = v]
            BY <1>2, <1>4, <1>5, <2>2 DEF HoldsNone
      <2> QED BY <1>1, <2>1, <2>2
<1> QED BY <1>1, <1>3, <1>6 DEF StaysAway, Away, Gone, NoRecord

\* The steps of an item that move nothing but the call.
LEMMA QuietAway ==
    ASSUME TypeInv, NEW u \in Task, UNCHANGED <<store, served, pool>>, NEW D, Away(u, D),
           \/ call'[u].pc \notin ItemPc
           \/ call'[u].cur = call[u].cur /\ call'[u].h = call[u].h /\ call[u].pc \in ItemPc
    PROVE  StaysAway(u, D)
BY DEF StaysAway, Away, Gone, NoRecord, HoldsNone

\* The mint for a refusal.
LEMMA MintEchoAway ==
    ASSUME TypeInv, NEW u \in Task, MintEcho(u), NEW D, Away(u, D)
    PROVE  StaysAway(u, D)
<1> DEFINE c == call[u].cur
           W == EchoWindow(u)
<1>1. W \subseteq Lines(c)
      BY DEF EchoWindow
<1>2. /\ store' \in AnchorFor(store, c, W, pool) /\ pool' = pool
      /\ served' = [served EXCEPT ![SessionOf[u]] =
                        Serve(@, AnchorsFor(store'.rows, c), W, c)]
      BY DEF MintEcho
<1>3. D \in SUBSET Anchor /\ Gone(D)
      BY DEF Away
<1> HIDE DEF c, W
<1>4. Gone(D)' /\ \A s \in Session : NoRecord(D, s) => NoRecord(D, s)'
      BY <1>1, <1>2, <1>3, MintKeepsGone
<1>5. call \in [Task -> CallType] /\ call[u] \in CallType /\ call[u].pc = "mint"
      BY DEF MintEcho, TypeInv, TypeOK
<1>6. call'[u].cur = call[u].cur /\ call'[u].h = call[u].h
      BY <1>5 DEF MintEcho, CallType
<1>7. HoldsNone(u, D)'
      BY <1>5, <1>6 DEF Away, HoldsNone, ItemPc
<1> QED BY <1>3, <1>4, <1>7 DEF StaysAway, Away

\* A refusal serves rows of the projection or live ones.
LEMMA RejectAway ==
    ASSUME TypeInv, NEW u \in Task, Reject(u), NEW D, Away(u, D)
    PROVE  StaysAway(u, D)
<1>1. call[u].pc = "verify" /\ UNCHANGED <<store, pool>>
      BY DEF Reject
<1>2. D \in SUBSET Anchor /\ Gone(D) /\ \A i \in Lines(call[u].cur) : call[u].h[i] \notin D
      BY <1>1 DEF Away, HoldsNone, ItemPc
<1>3. \A i \in Lines(call[u].cur) : EchoAnchors(u)[i] \notin D
      <2> TAKE i \in Lines(call[u].cur)
      <2> DEFINE fresh == AnchorsFor(store.rows, call[u].cur)
      <2>1. EchoAnchors(u)[i] \in {call[u].h[i], fresh[i]}
            BY DEF EchoAnchors
      <2>2. fresh[i] \in Live(store.rows) \cup {NoAnchor}
            BY ProjectionLive
      <2> HIDE DEF fresh
      <2> QED BY <1>2, <2>1, <2>2, NoAnchorAssumption DEF Gone
<1>4. EchoLines(u) \subseteq Lines(call[u].cur)
      BY DEF EchoLines
<1>5. \A s \in Session : NoRecord(D, s) => NoRecord(D, s)'
      <2> DEFINE anchors == EchoAnchors(u)
                 L == EchoLines(u)
                 c == call[u].cur
      <2>1. served' = [served EXCEPT ![SessionOf[u]] = Serve(@, anchors, L, c)]
            BY DEF Reject
      <2>2. \A i \in L : anchors[i] \notin D
            BY <1>3, <1>4
      <2>3. D \in SUBSET Anchor
            BY <1>2
      <2> HIDE DEF anchors, L, c
      <2> QED BY <2>1, <2>2, <2>3, ServedSpares
<1>6. call'[u].pc \notin ItemPc
      BY FinishMoves DEF Reject, Idle, ItemPc
<1> QED BY <1>1, <1>2, <1>5, <1>6, HoldsNoneOutside DEF StaysAway, Away, Gone

\* What Apply does, in one place: the transform's outcome and the moved call.
LEMMA AppliedItem ==
    ASSUME TypeInv, NEW u \in Task, Apply(u)
    PROVE  \E out \in UpdateAnchorsAfterEdit(store, call[u].cur, Result(u), call[u].h,
                            {Hunk(u)}, Live(store.rows) \cup pool) :
            /\ store' = out.store /\ pool' = pool \cup out.dropped
            /\ served' = served
            /\ \A t \in Task \ {u} : call'[t] = call[t]
            /\ call'[u].pc \in {"probe", "commit"}
            /\ call'[u].inStep = call[u].inStep
            /\ call'[u].cur = Result(u)
            /\ call'[u].h = AnchorsFor(out.store.rows, Result(u))
            /\ call'[u].dropped = call[u].dropped \cup out.dropped
            /\ call'[u].items = Tail(call[u].items)
            /\ call'[u].pc = "probe" => Tail(call[u].items) # <<>>
            /\ call'[u].seen = Forget(call[u].seen, out.dropped)
<1> DEFINE rest == Tail(call[u].items)
           new == Result(u)
           spans == call[u].spans \cup {Hunk(u)}
           pc == NextPc(rest, spans)
           h(out) == AnchorsFor(out.store.rows, new)
           dropped(out) == call[u].dropped \cup out.dropped
           seen(out) == Forget(call[u].seen, out.dropped)
           v(out) == [call[u] EXCEPT
                        !.pc = pc, !.items = rest, !.spans = spans,
                        !.cur = new, !.h = h(out), !.asked = FALSE, !.bad = {},
                        !.dropped = dropped(out), !.seen = seen(out)]
<1>1. PICK out \in UpdateAnchorsAfterEdit(store, call[u].cur, new, call[u].h,
                        {Hunk(u)}, Live(store.rows) \cup pool) :
        /\ store' = out.store
        /\ pool' = Sealed(pool, out.dropped)
        /\ call' = [call EXCEPT ![u] = v(out)]
      BY DEF Apply
<1>2. call \in [Task -> CallType] /\ call[u] \in CallType
      BY DEF TypeInv, TypeOK
<1>3. pc \in {"probe", "commit"} /\ (pc = "probe" => rest # <<>>)
      BY DEF NextPc
<1>4. /\ v(out).pc = pc /\ v(out).inStep = call[u].inStep /\ v(out).cur = new
      /\ v(out).h = h(out) /\ v(out).dropped = dropped(out)
      /\ v(out).items = rest /\ v(out).seen = seen(out)
      <2> HIDE DEF pc, rest, spans, new, h, dropped, seen
      <2> QED BY <1>2 DEF CallType
<1>5. pool' = pool \cup out.dropped /\ served' = served
      BY <1>1 DEF Apply, Sealed
<1> HIDE DEF pc, v
<1>6. (\A t \in Task \ {u} : call'[t] = call[t]) /\ call'[u] = v(out)
      BY <1>1, <1>2
<1> QED BY <1>1, <1>3, <1>4, <1>5, <1>6

\* An item applied: what it brings to life was live, in its projection or free.
LEMMA ApplyAway ==
    ASSUME TypeInv, NEW u \in Task, Apply(u), NEW D, Away(u, D)
    PROVE  StaysAway(u, D)
<1> DEFINE old == call[u].cur
           new == Result(u)
           h == call[u].h
           k == Hunk(u)
           used == Live(store.rows) \cup pool
<1>1. PICK out \in UpdateAnchorsAfterEdit(store, old, new, h, {k}, used) :
        /\ store' = out.store /\ pool' = pool \cup out.dropped /\ served' = served
        /\ call'[u].cur = new /\ call'[u].h = AnchorsFor(out.store.rows, new)
      BY AppliedItem
<1>2. D \in SUBSET Anchor /\ Gone(D) /\ \A i \in Lines(old) : h[i] \notin D
      BY DEF Away, HoldsNone, Apply, Accepted, ItemPc
<1> HIDE DEF old, new, h, k
<1>3. \A a \in Live(out.store.rows) :
        a \in Live(store.rows) \/ (\E i \in Lines(old) : a = h[i]) \/ a \in Anchor \ used
      <2>1. out \in UpdateAnchorsAfterEdit(store, old, new, h, {k}, used)
            OBVIOUS
      <2> HIDE DEF used
      <2>2. Enlivens(out.store.rows, store, old, h, used)
            BY <2>1, UpdateLive
      <2> QED BY <2>2 DEF Enlivens
<1>4. D \cap Live(store'.rows) = {}
      BY <1>1, <1>2, <1>3 DEF Gone
<1>5. \A i \in Lines(new) : AnchorsFor(out.store.rows, new)[i] \notin D
      BY <1>1, <1>2, <1>4, ProjectionLive, NoAnchorAssumption
<1>6. HoldsNone(u, D)'
      BY <1>1, <1>5 DEF HoldsNone
<1> QED BY <1>1, <1>2, <1>4, <1>6 DEF StaysAway, Away, Gone, NoRecord

\* The batch's transaction forgets and seals.
LEMMA CommitAway ==
    ASSUME TypeInv, NEW u \in Task, CommitBatch(u), NEW D, Away(u, D)
    PROVE  StaysAway(u, D)
<1>1. /\ served \in [Session -> Served] /\ SessionOf[u] \in Session
      /\ call \in [Task -> CallType] /\ call[u] \in CallType
      BY SessionAssumption DEF TypeInv, TypeOK, Served
<1>2. call'[u].pc = "serve" /\ store' = store /\ pool \subseteq pool'
      BY <1>1 DEF CommitBatch, CallType
<1>3. \A s \in Session, a \in Anchor : served[s][a] = Unserved => served'[s][a] = Unserved
      BY <1>1 DEF CommitBatch, Forget, Served
<1>4. HoldsNone(u, D)'
      BY <1>2 DEF HoldsNone, ItemPc
<1> QED BY <1>2, <1>3, <1>4 DEF StaysAway, Away, Gone, NoRecord

\* The response's window: the part that is common to its own call and the others'.
LEMMA WindowKeepsGone ==
    ASSUME TypeInv, NEW u \in Task, ServeWindow(u), NEW D \in SUBSET Anchor, Gone(D)
    PROVE  Gone(D)' /\ \A s \in Session : NoRecord(D, s) => NoRecord(D, s)'
<1> DEFINE c == call[u].cur
           window == DiffWindow(call[u].base, c, Pad)
<1>1. window \subseteq Lines(c)
      BY DEF DiffWindow
<1>2. CASE window = {}
      BY <1>2 DEF ServeWindow, Gone, NoRecord
<1>3. CASE window # {}
      <2>1. /\ store' \in AnchorFor(store, c, window, pool) /\ pool' = pool
            /\ served' = [served EXCEPT ![SessionOf[u]] =
                            Serve(@, AnchorsFor(store'.rows, c), window, c)]
            BY <1>3 DEF ServeWindow
      <2> HIDE DEF c, window
      <2> QED BY <1>1, <2>1, MintKeepsGone
<1> QED BY <1>2, <1>3

\* Where the call goes next, and what it takes with it.
LEMMA WindowMoves ==
    ASSUME TypeInv, NEW u \in Task, ServeWindow(u)
    PROVE  /\ \A t \in Task \ {u} : call'[t] = call[t]
           /\ call'[u].pc = "write"
           /\ call'[u].dropped = call[u].dropped /\ call'[u].inStep = call[u].inStep
<1> DEFINE c == call[u].cur
           window == DiffWindow(call[u].base, c, Pad)
           h == AnchorsFor(store'.rows, c)
           v == [Idle EXCEPT !.pc = "write", !.cur = c, !.shown = window, !.h = h,
                    !.dropped = call[u].dropped, !.inStep = call[u].inStep]
<1>1. call \in [Task -> CallType]
      BY DEF TypeInv, TypeOK
<1>2. call' = [call EXCEPT ![u] = v]
      BY DEF ServeWindow
<1>3. v.pc = "write" /\ v.dropped = call[u].dropped /\ v.inStep = call[u].inStep
      <2> HIDE DEF c, window, h
      <2> QED BY DEF Idle
<1> HIDE DEF v
<1> QED BY <1>1, <1>2, <1>3

LEMMA WindowAway ==
    ASSUME TypeInv, NEW u \in Task, ServeWindow(u), NEW D, Away(u, D)
    PROVE  StaysAway(u, D)
<1>1. D \in SUBSET Anchor /\ Gone(D)
      BY DEF Away
<1>2. Gone(D)' /\ \A s \in Session : NoRecord(D, s) => NoRecord(D, s)'
      BY <1>1, WindowKeepsGone
<1>3. call'[u].pc \notin ItemPc
      BY WindowMoves DEF ItemPc
<1> QED BY <1>1, <1>2, <1>3, HoldsNoneOutside DEF StaysAway, Away

\* The end of a call: an entry it adds for an anchor that is not live it drops again.
LEMMA RecordAway ==
    ASSUME TypeInv, NEW u \in Task, Record(u), NEW D, Away(u, D)
    PROVE  StaysAway(u, D)
<1> DEFINE s == SessionOf[u]
           c == call[u].cur
           member == [a \in Anchor |->
                IF served[s][a] = Unserved /\ \E i \in call[u].shown : call[u].h[i] = a
                THEN Keyless ELSE served[s][a]]
           live == {AnchorsFor(store.rows, c)[i] : i \in Lines(c)}
           gone == NotLive(member, live)
<1>1. s \in Session /\ served \in [Session -> Served]
      BY SessionAssumption DEF TypeInv, TypeOK, Served
<1>2. D \in SUBSET Anchor /\ Gone(D)
      BY DEF Away
<1>3. D \cap live = {}
      BY <1>2, ProjectionLive, NoAnchorAssumption DEF Gone
<1>4. \/ UNCHANGED <<served, pool>>
      \/ served' = [served EXCEPT ![s] = Forget(member, gone)] /\ pool' = pool \cup gone
      BY DEF Record
<1>5. store' = store /\ call'[u].pc \notin ItemPc
      BY FinishMoves DEF Record, Idle, ItemPc
<1> HIDE DEF s, member, live
<1>6. \A a \in D : Forget(member, gone)[a] = Unserved
      BY <1>2, <1>3 DEF Forget, NotLive
<1> HIDE DEF gone
<1>7. \A x \in Session : NoRecord(D, x) => NoRecord(D, x)'
      BY <1>1, <1>2, <1>4, <1>6 DEF NoRecord
<1>8. Gone(D)'
      BY <1>2, <1>4, <1>5 DEF Gone
<1> QED BY <1>2, <1>5, <1>7, <1>8, HoldsNoneOutside DEF StaysAway, Away

\* A call that runs out of anchors has at most realigned.
LEMMA ExhaustedAway ==
    ASSUME TypeInv, NEW u \in Task, Exhausted(u), NEW D, Away(u, D)
    PROVE  StaysAway(u, D)
<1>1. store' \in Ensured(store, call[u].cur) /\ UNCHANGED <<served, pool>> /\ Finish(u)
      BY DEF Exhausted
<1>2. Live(store'.rows) \subseteq Live(store.rows)
      BY <1>1, EnsuredLive
<1>3. call'[u].pc \notin ItemPc
      BY <1>1, FinishMoves DEF Idle, ItemPc
<1> QED BY <1>1, <1>2, <1>3, HoldsNoneOutside DEF StaysAway, Away, Gone, NoRecord

-----------------------------------------------------------------------------
(* the step of one task, seen from the others and from itself *)

\* A task in the chain is alone there.
LEMMA AloneInChain ==
    ASSUME ReleaseInv, NEW u \in Task, call[u].pc \in Chain
    PROVE  RunsAlone(u)
BY DEF ReleaseInv, Exclusive, RunsAlone

\* What the others have released is away for every step of u.
LEMMA OthersAway ==
    ASSUME ReleaseInv, NEW u \in Task, NEW t \in Task \ {u}, call[t].inStep,
           call[t].pc \in FilePc
    PROVE  Away(u, call[t].dropped) /\ NoRecord(call[t].dropped, SessionOf[t])
<1>1. call[t].dropped \in SUBSET Anchor
      BY DEF ReleaseInv, TypeInv, TypeOK, CallType
<1>2. Gone(call[t].dropped) /\ NoRecord(call[t].dropped, SessionOf[t])
      BY DEF ReleaseInv, Releasing, DroppedGone, DroppedUnserved
<1>3. HoldsNone(u, call[t].dropped)
      BY DEF ReleaseInv, Releasing, HeldByNone
<1> QED BY <1>1, <1>2, <1>3 DEF Away

\* A step of u that keeps them away leaves the other calls as they should be.
LEMMA OthersReleasing ==
    ASSUME ReleaseInv, NEW u \in Task, NEW t \in Task \ {u},
           \A w \in Task \ {u} : call'[w] = call[w],
           RunsAlone(u) \/ UNCHANGED <<store, served, pool>>,
           \A D : Away(u, D) => StaysAway(u, D)
    PROVE  Releasing(t)'
<1>1. Releasing(t) /\ call'[t] = call[t] /\ SessionOf[t] \in Session
      BY SessionAssumption DEF ReleaseInv
<1>2. NothingYet(t)'
      BY <1>1 DEF Releasing, NothingYet
<1>3. CASE call[t].inStep /\ call[t].pc \in FilePc
      <2>0. PICK D \in SUBSET Anchor : D = call[t].dropped
            BY DEF ReleaseInv, TypeInv, TypeOK, CallType
      <2>1. Away(u, D) /\ NoRecord(D, SessionOf[t])
            BY <1>3, <2>0, OthersAway
      <2>2. StaysAway(u, D)
            BY <2>1
      <2>3. Gone(D)' /\ NoRecord(D, SessionOf[t])' /\ HoldsNone(u, D)'
            BY <1>1, <2>1, <2>2 DEF StaysAway, Away
      <2>4. \A w \in Task \ {t} : HoldsNone(w, D)'
            <3> TAKE w \in Task \ {t}
            <3>1. CASE w = u
                  BY <2>3, <3>1
            <3>2. CASE w # u
                  <4>1. HoldsNone(w, D)
                        BY <1>1, <1>3, <2>0 DEF Releasing, HeldByNone
                  <4>2. call'[w] = call[w]
                        BY <3>2
                  <4> QED BY <1>1, <4>1, <4>2 DEF HoldsNone
            <3> QED BY <3>1, <3>2
      <2>5. RowsAtWork(t)'
            BY <1>1, <1>3 DEF RowsAtWork, FilePc, ItemPc
      <2>6. call'[t].dropped = D
            BY <1>1, <2>0
      <2> QED BY <1>2, <2>3, <2>4, <2>5, <2>6
              DEF Releasing, DroppedGone, DroppedUnserved, HeldByNone, Gone, NoRecord, HoldsNone
<1>4. CASE ~(call[t].inStep /\ call[t].pc \in FilePc) /\ RunsAlone(u)
      <2>1. call[t].pc \notin Chain
            BY <1>4 DEF RunsAlone
      <2> QED BY <1>1, <1>2, <1>4, <2>1 DEF Releasing, RowsAtWork, DroppedGone, DroppedUnserved,
                 HeldByNone, Chain, ItemPc, FilePc
<1>5. CASE ~(call[t].inStep /\ call[t].pc \in FilePc) /\ UNCHANGED <<store, served, pool>>
      BY <1>1, <1>2, <1>5 DEF Releasing, RowsAtWork, DroppedGone, DroppedUnserved, HeldByNone,
         Gone, NoRecord
<1> QED BY <1>3, <1>4, <1>5

\* One task moves.
LEMMA TaskMoves ==
    ASSUME ReleaseInv, TypeInv', NEW u \in Task,
           \A w \in Task \ {u} : call'[w] = call[w],
           RunsAlone(u) \/ UNCHANGED <<store, served, pool>>,
           RunsAlone(u) \/ call'[u].pc \notin Chain,
           \A D : Away(u, D) => StaysAway(u, D),
           Releasing(u)'
    PROVE  ReleaseInv'
<1>1. \A t \in Task : Releasing(t)'
      BY OthersReleasing
<1>2. Exclusive'
      BY DEF ReleaseInv, Exclusive, RunsAlone
<1> QED BY <1>1, <1>2 DEF ReleaseInv

\* A task between calls, or one that only begins, has nothing to keep.
LEMMA OutsideReleasing ==
    ASSUME NEW u \in Task, call'[u].pc \in {"idle", "read", "open"}, call'[u].dropped = {}
    PROVE  Releasing(u)'
BY DEF Releasing, RowsAtWork, DroppedGone, DroppedUnserved, NothingYet, HeldByNone,
   ItemPc, FilePc, Chain

\* A call that ends, whatever it wrote on the way out.
LEMMA EndStep ==
    ASSUME ReleaseInv, TypeInv', NEW u \in Task, Finish(u),
           RunsAlone(u) \/ UNCHANGED <<store, served, pool>>,
           \A D : Away(u, D) => StaysAway(u, D)
    PROVE  ReleaseInv'
<1>1. (\A w \in Task \ {u} : call'[w] = call[w]) /\ call'[u] = Idle
      BY FinishMoves DEF ReleaseInv
<1>2. call'[u].pc = "idle" /\ call'[u].dropped = {}
      BY <1>1 DEF Idle
<1>3. Releasing(u)'
      BY <1>2, OutsideReleasing
<1> QED BY <1>1, <1>2, <1>3, TaskMoves DEF Chain

\* A step that moves only the call, and not to an item.
LEMMA QuietOutside ==
    ASSUME ReleaseInv, NEW u \in Task, UNCHANGED <<store, served, pool>>,
           call'[u].pc \notin ItemPc
    PROVE  \A D : Away(u, D) => StaysAway(u, D)
<1> SUFFICES ASSUME NEW D, Away(u, D)
             PROVE  StaysAway(u, D)
    OBVIOUS
<1> QED BY QuietAway DEF ReleaseInv

\* The ends of a call that leave the rows alone.
LEMMA QuietEndStep ==
    ASSUME ReleaseInv, TypeInv', NEW u \in Task, Abort(u) \/ WriteFails(u) \/ ProbeFails(u)
    PROVE  ReleaseInv'
<1>1. Finish(u) /\ UNCHANGED <<store, served, pool>>
      BY DEF Abort, WriteFails, ProbeFails
<1>2. call'[u].pc \notin ItemPc
      BY <1>1, FinishMoves DEF ReleaseInv, Idle, ItemPc
<1>3. \A D : Away(u, D) => StaysAway(u, D)
      BY <1>1, <1>2, QuietOutside
<1> QED BY <1>1, <1>3, EndStep

\* A call begins.
LEMMA BeginStep ==
    ASSUME ReleaseInv, TypeInv', NEW u \in Task, OpenRead(u) \/ OpenEdit(u)
    PROVE  ReleaseInv'
<1> DEFINE v(pc) == [Idle EXCEPT !.pc = pc, !.cur = disk]
<1>1. PICK pc \in {"read", "open"} : call' = [call EXCEPT ![u] = v(pc)]
      BY DEF OpenRead, OpenEdit
<1>2. v(pc).pc = pc /\ v(pc).dropped = {}
      BY DEF Idle
<1>3. call \in [Task -> CallType]
      BY DEF ReleaseInv, TypeInv, TypeOK
<1> HIDE DEF v
<1>4. (\A w \in Task \ {u} : call'[w] = call[w]) /\ call'[u] = v(pc)
      BY <1>1, <1>3
<1>5. Releasing(u)'
      BY <1>2, <1>4, OutsideReleasing
<1>6. UNCHANGED <<store, served, pool>>
      BY DEF OpenRead, OpenEdit
<1>7. \A D : Away(u, D) => StaysAway(u, D)
      BY <1>2, <1>4, <1>6, QuietOutside DEF ItemPc
<1> QED BY <1>2, <1>4, <1>5, <1>6, <1>7, TaskMoves DEF Chain

\* A read, the end of an edit, a refusal and an exhausted alphabet end the call too.
LEMMA ServedEndStep ==
    ASSUME ReleaseInv, TypeInv', NEW u \in Task,
           \/ \E lo, hi \in 1 .. MaxLine : ServeRead(u, lo, hi)
           \/ Reject(u) \/ Record(u) \/ Exhausted(u)
    PROVE  ReleaseInv'
<1>1. Finish(u)
      BY DEF ServeRead, Reject, Record, Exhausted
<1>2. RunsAlone(u)
      <2>1. CASE call[u].pc \in Chain
            BY <2>1, AloneInChain
      <2>2. CASE call[u].pc \notin Chain
            BY <2>2 DEF ServeRead, Reject, Record, Exhausted, Accepted, Chain
      <2> QED BY <2>1, <2>2
<1>3. \A D : Away(u, D) => StaysAway(u, D)
      BY ReadAway, RejectAway, RecordAway, ExhaustedAway DEF ReleaseInv
<1> QED BY <1>1, <1>2, <1>3, EndStep

-----------------------------------------------------------------------------
(* the steps within an edit *)

\* What a plan reads is what the rows are; it has dropped nothing yet.
LEMMA PlanRelease ==
    ASSUME ReleaseInv, TypeInv', NEW u \in Task, NEW items, Plan(u, items)
    PROVE  ReleaseInv'
<1> DEFINE c == call[u].cur
           h == AnchorsFor(store.rows, c)
           expanded == [k \in DOMAIN items |-> Expand(c, h, items[k])]
           v == [call[u] EXCEPT !.pc = "probe", !.inStep = InStep(c),
                    !.placed = \A k \in DOMAIN items : Resolved(h, items[k]),
                    !.base = c, !.h0 = h, !.h = h,
                    !.seen = served[SessionOf[u]], !.items = expanded]
<1>1. /\ UNCHANGED <<disk, store, served, pool>> /\ RunsAlone(u) /\ call[u].pc = "open"
      /\ Finish(u) \/ call' = [call EXCEPT ![u] = v]
      BY DEF Plan, Finish
<1>2. call \in [Task -> CallType] /\ call[u] \in CallType
      BY DEF ReleaseInv, TypeInv, TypeOK
<1>3. \A D : Away(u, D) => StaysAway(u, D)
      BY PlanAway DEF ReleaseInv
<1>4. CASE Finish(u)
      BY <1>1, <1>3, <1>4, EndStep
<1>5. CASE call' = [call EXCEPT ![u] = v]
      <2>1. /\ v.pc = "probe" /\ v.inStep = InStep(c) /\ v.cur = c /\ v.h = h
            /\ v.dropped = call[u].dropped
            <3> HIDE DEF h, expanded, c
            <3> QED BY <1>2 DEF CallType, c
      <2> HIDE DEF v
      <2>2. (\A w \in Task \ {u} : call'[w] = call[w]) /\ call'[u] = v
            BY <1>2, <1>5
      <2>3. call'[u].dropped = {}
            BY <1>1, <2>1, <2>2 DEF ReleaseInv, Releasing, NothingYet
      <2>4. RowsAtWork(u)'
            <3> SUFFICES ASSUME call'[u].inStep
                         PROVE  /\ store'.text = call'[u].cur
                                /\ Unique(store'.rows)
                                /\ \A i \in Lines(call'[u].cur) :
                                      call'[u].h[i] # NoAnchor => i \in DOMAIN store'.rows
                BY DEF RowsAtWork
            <3>1. store.text = c /\ Unique(store.rows)
                  BY <2>1, <2>2 DEF InStep
            <3>2. \A i \in Lines(c) : h[i] # NoAnchor => i \in DOMAIN store.rows
                  BY DEF AnchorsFor
            <3> HIDE DEF c, h
            <3> QED BY <1>1, <2>1, <2>2, <3>1, <3>2
      <2>5. Releasing(u)'
            BY <2>1, <2>2, <2>3, <2>4 DEF Releasing, DroppedGone, DroppedUnserved, NothingYet,
               HeldByNone, Gone, FilePc
      <2> QED BY <1>1, <1>3, <2>2, <2>5, TaskMoves
<1> QED BY <1>1, <1>4, <1>5

\* The call goes on at an item, or from its items to its transaction, over the same rows.
LEMMA GoesOnStep ==
    ASSUME ReleaseInv, TypeInv', NEW u \in Task, call[u].pc \in ItemPc,
           call'[u].pc \in ItemPc \cup {"commit"},
           \A w \in Task \ {u} : call'[w] = call[w],
           call'[u].inStep = call[u].inStep, call'[u].cur = call[u].cur,
           call'[u].h = call[u].h, call'[u].dropped = call[u].dropped,
           UNCHANGED <<store, served, pool>>
    PROVE  ReleaseInv'
<1>1. \A D : Away(u, D) => StaysAway(u, D)
      <2> SUFFICES ASSUME NEW D, Away(u, D)
                   PROVE  StaysAway(u, D)
          OBVIOUS
      <2> QED BY QuietAway DEF ReleaseInv
<1>2. Releasing(u) /\ RunsAlone(u)
      BY AloneInChain DEF ReleaseInv, ItemPc, Chain
<1>3. Releasing(u)'
      BY <1>2 DEF Releasing, RowsAtWork, DroppedGone, DroppedUnserved, NothingYet,
         HeldByNone, Gone, FilePc, ItemPc, Chain
<1> QED BY <1>1, <1>2, <1>3, TaskMoves

\* The probe's verdict.
LEMMA ProbeRelease ==
    ASSUME ReleaseInv, TypeInv', NEW u \in Task, Probe(u)
    PROVE  ReleaseInv'
<1> DEFINE asked == Resolves(call[u].h, Item(u).from) /\ Asked(u) # {}
           bad == IF asked
                  THEN ProbeLines(store.rows, served[SessionOf[u]], call[u].cur, call[u].h, Asked(u))
                  ELSE {}
           pc == IF Resolves(call[u].h, Item(u).from) /\ (asked => bad # {})
                 THEN "mint" ELSE "verify"
<1>1. /\ call' = [call EXCEPT ![u].asked = asked, ![u].bad = bad, ![u].pc = pc]
      /\ call[u].pc = "probe" /\ UNCHANGED <<store, served, pool>>
      BY DEF Probe
<1>2. call \in [Task -> CallType] /\ call[u] \in CallType
      BY DEF ReleaseInv, TypeInv, TypeOK
<1>3. pc \in {"mint", "verify"}
      OBVIOUS
<1> HIDE DEF asked, bad, pc
<1>4. /\ \A w \in Task \ {u} : call'[w] = call[w]
      /\ call'[u].pc = pc /\ call'[u].inStep = call[u].inStep /\ call'[u].cur = call[u].cur
      /\ call'[u].h = call[u].h /\ call'[u].dropped = call[u].dropped
      BY <1>1, <1>2 DEF CallType
<1> QED BY <1>1, <1>3, <1>4, GoesOnStep DEF ItemPc

\* An item that changes nothing.
LEMMA NoopRelease ==
    ASSUME ReleaseInv, TypeInv', NEW u \in Task, Noop(u)
    PROVE  ReleaseInv'
<1> DEFINE rest == Tail(call[u].items)
           pc == NextPc(rest, call[u].spans)
           v == [call[u] EXCEPT !.pc = pc, !.items = rest, !.asked = FALSE, !.bad = {}]
<1>1. /\ call' = [call EXCEPT ![u] = IF pc = "idle" THEN Idle ELSE v]
      /\ call[u].pc = "verify" /\ UNCHANGED <<store, served, pool>>
      BY DEF Noop, Accepted
<1>2. call \in [Task -> CallType] /\ call[u] \in CallType
      BY DEF ReleaseInv, TypeInv, TypeOK
<1>3. pc \in {"probe", "commit", "idle"}
      BY DEF NextPc
<1> HIDE DEF rest, pc
<1>4. /\ v.pc = pc /\ v.inStep = call[u].inStep /\ v.cur = call[u].cur
      /\ v.h = call[u].h /\ v.dropped = call[u].dropped
      BY <1>2 DEF CallType
<1> HIDE DEF v
<1>5. CASE pc = "idle"
      <2>1. Finish(u)
            BY <1>1, <1>5 DEF Finish
      <2>2. call'[u].pc \notin ItemPc
            BY <2>1, FinishMoves DEF ReleaseInv, Idle, ItemPc
      <2>3. \A D : Away(u, D) => StaysAway(u, D)
            BY <1>1, <2>2, QuietOutside
      <2> QED BY <1>1, <2>1, <2>3, EndStep
<1>6. CASE pc # "idle"
      <2>1. (\A w \in Task \ {u} : call'[w] = call[w]) /\ call'[u] = v
            BY <1>1, <1>2, <1>6
      <2> QED BY <1>1, <1>3, <1>4, <1>6, <2>1, GoesOnStep DEF ItemPc
<1> QED BY <1>5, <1>6

\* A mint for a refusal adds rows under anchors that are not sealed, and no anchor twice.
LEMMA MintEchoRelease ==
    ASSUME ReleaseInv, TypeInv', NEW u \in Task, MintEcho(u)
    PROVE  ReleaseInv'
<1> DEFINE c == call[u].cur
           W == EchoWindow(u)
<1>1. /\ call \in [Task -> CallType] /\ call[u] \in CallType /\ CallOK(call[u])
      /\ call[u].pc = "mint" /\ call' = [call EXCEPT ![u].pc = "verify"]
      /\ DOMAIN store.rows \subseteq Int
      BY DEF MintEcho, ReleaseInv, TypeInv, TypeOK
<1>2. /\ \A w \in Task \ {u} : call'[w] = call[w]
      /\ call'[u].pc = "verify" /\ call'[u].inStep = call[u].inStep /\ call'[u].cur = call[u].cur
      /\ call'[u].h = call[u].h /\ call'[u].dropped = call[u].dropped
      BY <1>1 DEF CallType
<1>3. /\ store' \in AnchorFor(store, c, W, pool) /\ pool' = pool
      /\ served' = [served EXCEPT ![SessionOf[u]] =
                        Serve(@, AnchorsFor(store'.rows, c), W, c)]
      BY DEF MintEcho
<1>4. W \subseteq Lines(c) /\ c # <<>>
      BY <1>1 DEF EchoWindow, CallOK
<1>5. Releasing(u) /\ RunsAlone(u)
      BY <1>1, AloneInChain DEF ReleaseInv, Chain
<1>6. \A D : Away(u, D) => StaysAway(u, D)
      BY MintEchoAway DEF ReleaseInv
<1> HIDE DEF c, W
<1>7. RowsAtWork(u)'
      <2> SUFFICES ASSUME call[u].inStep
                   PROVE  /\ store'.text = c
                          /\ Unique(store'.rows)
                          /\ \A i \in Lines(c) : call[u].h[i] # NoAnchor => i \in DOMAIN store'.rows
          BY <1>2 DEF RowsAtWork, c
      <2>1. /\ store.text = c /\ Unique(store.rows)
            /\ \A i \in Lines(c) : call[u].h[i] # NoAnchor => i \in DOMAIN store.rows
            BY <1>1, <1>5 DEF Releasing, RowsAtWork, ItemPc, c
      <2>2. DOMAIN store.rows \subseteq DOMAIN store'.rows /\ Unique(store'.rows)
            BY <1>1, <1>3, <1>4, <2>1, AnchorForKeeps
      <2>3. store'.text = c
            BY <1>3, AnchorForLive
      <2> QED BY <2>1, <2>2, <2>3
<1>8. DroppedGone(u)'
      <2> SUFFICES ASSUME call[u].inStep
                   PROVE  Gone(call[u].dropped)'
          BY <1>2 DEF DroppedGone, Gone
      <2>1. PICK D \in SUBSET Anchor : D = call[u].dropped
            BY <1>1 DEF CallType
      <2>2. Gone(D)
            BY <1>1, <1>5, <2>1 DEF Releasing, DroppedGone, Chain
      <2>3. Gone(D)'
            BY <1>3, <1>4, <2>2, MintKeepsGone DEF ReleaseInv
      <2> QED BY <1>2, <2>1, <2>3 DEF Gone
<1>9. Releasing(u)'
      BY <1>2, <1>7, <1>8 DEF Releasing, DroppedUnserved, NothingYet, HeldByNone, FilePc
<1> QED BY <1>2, <1>5, <1>6, <1>9, TaskMoves

\* The hunk of an accepted item is in place.
LEMMA HunkInPlace ==
    ASSUME TypeInv, NEW t \in Task, Accepted(t)
    PROVE  InPlace(Hunk(t))
<1> DEFINE lo == Lo(call[t].h, Item(t))
           hi == Hi(call[t].h, Item(t))
           keep == IF Item(t).op = "ins" THEN 1 ELSE 0
<1>1. /\ lo \in Lines(call[t].cur) /\ hi \in Lines(call[t].cur) /\ lo <= hi
      /\ IsHunk(Hunk(t))
      BY ResultType
<1>2. lo \in Int /\ hi \in Int /\ keep \in {0, 1}
      BY <1>1 DEF Lines
<1>3. /\ Hunk(t).oldFrom = lo + keep /\ Hunk(t).oldTo = hi
      /\ Hunk(t).newFrom = lo + keep
      BY DEF Hunk
<1> HIDE DEF lo, hi, keep
<1> QED BY <1>1, <1>2, <1>3 DEF InPlace

\* A transform drops for good what it drops, seals it before the next item can mint,
\* and leaves the rows in step with the call's new text.
LEMMA ApplyRelease ==
    ASSUME ReleaseInv, TypeInv', NEW u \in Task, Apply(u)
    PROVE  ReleaseInv'
<1> DEFINE old == call[u].cur
           new == Result(u)
           h == call[u].h
           k == Hunk(u)
           used == Live(store.rows) \cup pool
<1>1. PICK out \in UpdateAnchorsAfterEdit(store, old, new, h, {k}, used) :
        /\ store' = out.store /\ pool' = pool \cup out.dropped /\ served' = served
        /\ \A t \in Task \ {u} : call'[t] = call[t]
        /\ call'[u].pc \in {"probe", "commit"} /\ call'[u].inStep = call[u].inStep
        /\ call'[u].cur = new /\ call'[u].h = AnchorsFor(out.store.rows, new)
        /\ call'[u].dropped = call[u].dropped \cup out.dropped
      BY AppliedItem DEF ReleaseInv
<1>2. /\ call[u] \in CallType /\ call[u].pc = "verify" /\ old # <<>> /\ old # new
      /\ DOMAIN store.rows \subseteq Int
      BY DEF Apply, Accepted, ReleaseInv, TypeInv, TypeOK, CallOK
<1>3. InPlace(k)
      BY HunkInPlace DEF Apply, ReleaseInv
<1>4. Releasing(u) /\ RunsAlone(u)
      BY <1>2, AloneInChain DEF ReleaseInv, Chain
<1>5. \A D : Away(u, D) => StaysAway(u, D)
      BY ApplyAway DEF ReleaseInv
<1>6. ASSUME call[u].inStep
      PROVE  /\ store.text = old /\ Unique(store.rows)
             /\ \A i \in Lines(old) : h[i] # NoAnchor => i \in DOMAIN store.rows
             /\ Gone(call[u].dropped)
      BY <1>2, <1>4, <1>6 DEF Releasing, RowsAtWork, DroppedGone, ItemPc, Chain
<1>7. out \in UpdateAnchorsAfterEdit(store, old, new, h, {k}, used)
      OBVIOUS
<1>8. Live(store.rows) \subseteq used /\ pool \subseteq used
      OBVIOUS
<1> HIDE DEF old, new, h, k, used
<1>9. call[u].inStep => out.store.text = new /\ DropsForGood(out, store, used)
      <2> SUFFICES ASSUME call[u].inStep
                   PROVE  out.store.text = new /\ DropsForGood(out, store, used)
          OBVIOUS
      <2>1. /\ store.text = old /\ Unique(store.rows)
            /\ \A i \in Lines(old) : h[i] # NoAnchor => i \in DOMAIN store.rows
            BY <1>6
      <2> QED BY <1>2, <1>3, <1>7, <1>8, <2>1, UpdateDrops
<1>10. RowsAtWork(u)'
      <2> SUFFICES ASSUME call'[u].inStep
                   PROVE  /\ store'.text = call'[u].cur
                          /\ Unique(store'.rows)
                          /\ \A i \in Lines(call'[u].cur) :
                                call'[u].h[i] # NoAnchor => i \in DOMAIN store'.rows
          BY DEF RowsAtWork
      <2>1. \A i \in Lines(new) :
                AnchorsFor(out.store.rows, new)[i] # NoAnchor => i \in DOMAIN out.store.rows
            BY DEF AnchorsFor
      <2> QED BY <1>1, <1>9, <2>1 DEF DropsForGood
<1>11. DroppedGone(u)'
      <2> SUFFICES ASSUME call[u].inStep
                   PROVE  /\ (call[u].dropped \cup out.dropped) \cap Live(store'.rows) = {}
                          /\ call[u].dropped \cup out.dropped \subseteq pool'
          BY <1>1 DEF DroppedGone, Gone
      <2>1. call[u].dropped \cap Live(store.rows) = {} /\ call[u].dropped \subseteq pool
            BY <1>6 DEF Gone
      <2> QED BY <1>1, <1>8, <1>9, <2>1 DEF DropsForGood
<1>12. Releasing(u)'
      BY <1>1, <1>10, <1>11 DEF Releasing, DroppedUnserved, NothingYet, HeldByNone, FilePc
<1> QED BY <1>1, <1>4, <1>5, <1>12, TaskMoves

\* The transaction makes the release complete.
LEMMA CommitRelease ==
    ASSUME ReleaseInv, TypeInv', NEW u \in Task, CommitBatch(u)
    PROVE  ReleaseInv'
<1>1. /\ call \in [Task -> CallType] /\ call[u] \in CallType /\ call[u].pc = "commit"
      /\ served \in [Session -> Served] /\ SessionOf[u] \in Session
      BY SessionAssumption DEF CommitBatch, ReleaseInv, TypeInv, TypeOK, Served
<1>2. /\ \A w \in Task \ {u} : call'[w] = call[w]
      /\ call'[u].pc = "serve" /\ call'[u].inStep = call[u].inStep
      /\ call'[u].dropped = call[u].dropped
      BY <1>1 DEF CommitBatch, CallType
<1>3. Releasing(u) /\ RunsAlone(u)
      BY <1>1, AloneInChain DEF ReleaseInv, Chain
<1>4. \A D : Away(u, D) => StaysAway(u, D)
      BY CommitAway DEF ReleaseInv
<1>5. store' = store /\ pool \subseteq pool'
      BY DEF CommitBatch
<1>6. \A a \in call[u].dropped : served'[SessionOf[u]][a] = Unserved
      BY <1>1 DEF CommitBatch, Forget, CallType
<1>7. DroppedGone(u)'
      BY <1>1, <1>2, <1>3, <1>5 DEF Releasing, DroppedGone, Gone, Chain
<1>8. Releasing(u)'
      BY <1>2, <1>6, <1>7 DEF Releasing, RowsAtWork, DroppedUnserved, NoRecord, NothingYet,
         HeldByNone, ItemPc, FilePc
<1> QED BY <1>2, <1>3, <1>4, <1>8, TaskMoves

\* The response's mint keeps it so, and no other call is at an item.
LEMMA WindowRelease ==
    ASSUME ReleaseInv, TypeInv', NEW u \in Task, ServeWindow(u)
    PROVE  ReleaseInv'
<1>1. call[u].pc = "serve" /\ call[u].dropped \in SUBSET Anchor /\ SessionOf[u] \in Session
      BY SessionAssumption DEF ServeWindow, ReleaseInv, TypeInv, TypeOK, CallType
<1>2. /\ \A w \in Task \ {u} : call'[w] = call[w]
      /\ call'[u].pc = "write" /\ call'[u].inStep = call[u].inStep
      /\ call'[u].dropped = call[u].dropped
      BY WindowMoves DEF ReleaseInv
<1>3. Releasing(u) /\ RunsAlone(u)
      BY <1>1, AloneInChain DEF ReleaseInv, Chain
<1>4. \A D : Away(u, D) => StaysAway(u, D)
      BY WindowAway DEF ReleaseInv
<1>5. DroppedGone(u)' /\ DroppedUnserved(u)'
      <2> SUFFICES ASSUME call[u].inStep
                   PROVE  DroppedGone(u)' /\ DroppedUnserved(u)'
          BY <1>2 DEF DroppedGone, DroppedUnserved
      <2>1. PICK D \in SUBSET Anchor : D = call[u].dropped
            BY <1>1
      <2>2. Gone(D) /\ NoRecord(D, SessionOf[u])
            BY <1>1, <1>3, <2>1 DEF Releasing, DroppedGone, DroppedUnserved, Chain
      <2>3. Gone(D)' /\ NoRecord(D, SessionOf[u])'
            BY <1>1, <2>2, WindowKeepsGone DEF ReleaseInv
      <2> QED BY <1>2, <2>1, <2>3 DEF DroppedGone, DroppedUnserved, Gone, NoRecord
<1>6. \A w \in Task \ {u} : call'[w].pc \notin ItemPc
      BY <1>2, <1>3 DEF RunsAlone, Chain, ItemPc
<1>7. HeldByNone(u)'
      BY <1>6 DEF HeldByNone, HoldsNone
<1>8. Releasing(u)'
      BY <1>2, <1>5, <1>7 DEF Releasing, RowsAtWork, NothingYet, ItemPc
<1> QED BY <1>2, <1>3, <1>4, <1>8, TaskMoves

\* The file is written.
LEMMA WriteRelease ==
    ASSUME ReleaseInv, TypeInv', NEW u \in Task, Write(u)
    PROVE  ReleaseInv'
<1>1. /\ call \in [Task -> CallType] /\ call[u] \in CallType /\ call[u].pc = "write"
      /\ UNCHANGED <<store, served, pool>>
      BY DEF Write, ReleaseInv, TypeInv, TypeOK
<1>2. /\ \A w \in Task \ {u} : call'[w] = call[w]
      /\ call'[u].pc = "record" /\ call'[u].inStep = call[u].inStep
      /\ call'[u].dropped = call[u].dropped
      BY <1>1 DEF Write, CallType
<1>3. Releasing(u)
      BY DEF ReleaseInv
<1>4. \A D : Away(u, D) => StaysAway(u, D)
      BY <1>1, <1>2, QuietOutside DEF ItemPc
<1>5. Releasing(u)'
      BY <1>1, <1>2, <1>3 DEF Releasing, RowsAtWork, DroppedGone, DroppedUnserved, NothingYet,
         HeldByNone, HoldsNone, Gone, NoRecord, ItemPc, FilePc
<1> QED BY <1>1, <1>2, <1>4, <1>5, TaskMoves DEF Chain

-----------------------------------------------------------------------------
\* At the start nobody is at work; after a crash nobody is again, whatever the rows are.
LEMMA AllIdle ==
    ASSUME TypeInv, call = [t \in Task |-> Idle]
    PROVE  ReleaseInv
<1>1. \A t \in Task : call[t].pc = "idle"
      BY DEF Idle
<1> QED BY <1>1 DEF ReleaseInv, Exclusive, Releasing, RowsAtWork, DroppedGone, DroppedUnserved,
           NothingYet, HeldByNone, ItemPc, FilePc, Chain

\* Every step preserves the invariant.
LEMMA ReleaseStep == ReleaseInv /\ [Next]_vars => ReleaseInv'
<1> SUFFICES ASSUME ReleaseInv, [Next]_vars
             PROVE  ReleaseInv'
    OBVIOUS
<1>1. TypeInv'
      BY TypeStep DEF ReleaseInv
<1>2. ASSUME NEW u \in Task, NEW n \in 1 .. MaxItems,
             NEW items \in [1 .. n -> Request], Plan(u, items)
      PROVE  ReleaseInv'
      BY <1>1, <1>2, PlanRelease
<1>3. ASSUME NEW u \in Task,
             \/ \E lo, hi \in 1 .. MaxLine : ServeRead(u, lo, hi)
             \/ Reject(u) \/ Record(u) \/ Exhausted(u)
      PROVE  ReleaseInv'
      BY <1>1, <1>3, ServedEndStep
<1>4. ASSUME NEW u \in Task,
             OpenRead(u) \/ OpenEdit(u) \/ Abort(u) \/ WriteFails(u) \/ ProbeFails(u)
      PROVE  ReleaseInv'
      BY <1>1, <1>4, BeginStep, QuietEndStep
<1>5. ASSUME NEW u \in Task,
             \/ Probe(u) \/ MintEcho(u) \/ Noop(u) \/ Apply(u)
             \/ CommitBatch(u) \/ ServeWindow(u) \/ Write(u)
      PROVE  ReleaseInv'
      BY <1>1, <1>5, ProbeRelease, MintEchoRelease, NoopRelease, ApplyRelease, CommitRelease,
         WindowRelease, WriteRelease
<1>6. CASE Crash
      <2>1. call' = [t \in Task |-> Idle]
            BY <1>6 DEF Crash
      <2>2. \A t \in Task : call'[t].pc = "idle"
            BY <2>1 DEF Idle
      <2> QED BY <1>1, <2>2 DEF ReleaseInv, Exclusive, Releasing, RowsAtWork, DroppedGone,
                 DroppedUnserved, NothingYet, HeldByNone, ItemPc, FilePc, Chain
<1>7. CASE UNCHANGED <<store, served, pool, call>>
      BY <1>1, <1>7 DEF ReleaseInv, Exclusive, Releasing, RowsAtWork, DroppedGone,
         DroppedUnserved, NothingYet, HeldByNone, HoldsNone, Gone, NoRecord
<1>8. External => UNCHANGED <<store, served, pool, call>>
      BY DEF External
<1>9. UNCHANGED vars => UNCHANGED <<store, served, pool, call>>
      BY DEF vars
<1> QED BY <1>2, <1>3, <1>4, <1>5, <1>6, <1>7, <1>8, <1>9 DEF Next

\* A release is three things or none, for batches of any number of items over rows in
\* step with their text: from the batch's transaction to the end of its call what it
\* dropped is not live, not in the session's record and in the pool - whatever other
\* calls mint, serve, refuse, record and release meanwhile, and whatever fails.
THEOREM ReleasesComplete == Spec => []ReleaseIsComplete
<1>1. Init => ReleaseInv
      BY TypeInit, AllIdle DEF Init
<1>2. ReleaseInv => ReleaseIsComplete
      BY DEF ReleaseInv, Releasing, DroppedGone, DroppedUnserved, Gone, NoRecord,
         ReleaseIsComplete, Released, FilePc, Chain
<1> QED BY <1>1, <1>2, ReleaseStep, PTL DEF Spec

-----------------------------------------------------------------------------
(***************************************************************************)
(* Where the items of a batch land.                                        *)
(***************************************************************************)

\* The projection is of the rows and the call's copy of the record is the record, but
\* for what the call has dropped.
SeenAsServed(t) ==
    /\ call[t].h = AnchorsFor(store.rows, call[t].cur)
    /\ \A a \in Anchor : call[t].seen[a] =
            IF a \in call[t].dropped THEN Unserved ELSE served[SessionOf[t]][a]

\* The probe was asked about every line from the first bound to the second; a positive
\* verdict vouches for them.
Verdict(t) ==
    call[t].asked =>
        /\ Resolves(call[t].h, Item(t).from)
        /\ Asked(t) # {}
        /\ call[t].bad = {} => \A i \in Asked(t) : Vouched(call[t].seen, t, i)
Refused(t) == call[t].asked /\ call[t].bad # {}

Forward(t) ==
    Resolved(call[t].h, Item(t)) =>
        First(call[t].h, Item(t).from) <= First(call[t].h, Item(t).to)

\* With another item to come, only a refusal mints: else its window would be served
\* before the next probe.
MoreToCome(t) ==
    Len(call[t].items) = 2 =>
        /\ Forward(t)
        /\ call[t].pc = "mint" => Refused(t)
        /\ call[t].pc = "verify" => Refused(t) \/ SeenAsServed(t)

Landing(t) ==
    call[t].inStep /\ call[t].pc \in ItemPc =>
        /\ Len(call[t].items) \in {1, 2}
        /\ call[t].pc = "probe" => SeenAsServed(t)
        /\ call[t].pc # "probe" => Verdict(t)
        /\ MoreToCome(t)

LandInv == ReleaseInv /\ \A t \in Task : Landing(t)

\* A silent probe: the row under a line's anchor is that line's only one, and what the
\* record holds for it the call saw when it began.
LEMMA BatchSilenceVouches ==
    ASSUME LandInv, NEW u \in Task, call[u].inStep, call[u].pc = "probe",
           NEW i \in Lines(call[u].cur),
           ProbeLine(store.rows, served[SessionOf[u]], call[u].cur, call[u].h[i], i) = {}
    PROVE  Vouched(call[u].seen, u, i)
<1> DEFINE rows == store.rows
           c == call[u].cur
           a == call[u].h[i]
<1>1. Unique(rows) /\ Gone(call[u].dropped) /\ SeenAsServed(u)
      BY DEF LandInv, Landing, ReleaseInv, Releasing, RowsAtWork, DroppedGone, ItemPc, Chain
<1>2. \A k \in DOMAIN rows : rows[k].anchor \in Anchor
      BY DEF LandInv, ReleaseInv, TypeInv, TypeOK, Row
<1>3. RowsNaming(rows, a) # {}
      BY DEF ProbeLine
<1>4. a \in Anchor
      BY <1>2, <1>3 DEF RowsNaming
<1>5. i \in DOMAIN rows /\ rows[i].anchor = a
      BY <1>1, <1>4, NoAnchorAssumption DEF SeenAsServed, AnchorsFor
<1>6. RowsNaming(rows, a) = {i}
      BY <1>1, <1>5 DEF RowsNaming, Unique
<1>7. i \in Int
      BY DEF Lines
<1>8. NamedLine(rows, a) = i
      <2>1. IsFiniteSet({i}) /\ {i} \in SUBSET Int
            BY <1>7, FS_Singleton
      <2>2. Max({i}) \in {i}
            BY <2>1, MaxInt
      <2> HIDE DEF rows, a
      <2> QED BY <1>6, <2>2 DEF NamedLine
<1>9. rows[i].key = Canon[c[i]] /\ served[SessionOf[u]][a] = rows[i].key
      <2>1. ProbeLine(rows, served[SessionOf[u]], c, a, i) = {}
            OBVIOUS
      <2> HIDE DEF rows, c, a
      <2> QED BY <1>3, <1>6, <1>8, <2>1 DEF ProbeLine
<1>10. a \notin call[u].dropped
      BY <1>1, <1>5 DEF Gone, Live
<1> QED BY <1>1, <1>4, <1>9, <1>10 DEF Vouched, SeenAsServed

\* One task moves; the others' items see nothing of it.
LEMMA LandMoves ==
    ASSUME LandInv, ReleaseInv', NEW u \in Task,
           \A w \in Task \ {u} : call'[w] = call[w],
           RunsAlone(u) \/ UNCHANGED <<store, served>>,
           Landing(u)'
    PROVE  LandInv'
<1> SUFFICES ASSUME NEW t \in Task \ {u}
             PROVE  Landing(t)'
    BY DEF LandInv
<1>1. CASE call[t].pc \in ItemPc
      <2>1. UNCHANGED <<store, served>> /\ call'[t] = call[t]
            BY <1>1 DEF RunsAlone, ItemPc, Chain
      <2> QED BY <2>1 DEF LandInv, Landing, SeenAsServed, Verdict, MoreToCome, Forward, Refused,
                 Asked, Item, Vouched
<1>2. CASE call[t].pc \notin ItemPc
      BY <1>2 DEF Landing
<1> QED BY <1>1, <1>2

\* Steps that do not leave their call at an item.
LEMMA LandEnds ==
    ASSUME LandInv, ReleaseInv', NEW u \in Task, Finish(u),
           RunsAlone(u) \/ UNCHANGED <<store, served>>
    PROVE  LandInv'
<1>1. (\A w \in Task \ {u} : call'[w] = call[w]) /\ call'[u].pc = "idle"
      BY FinishMoves DEF LandInv, ReleaseInv, Idle
<1>2. Landing(u)'
      BY <1>1 DEF Landing, ItemPc
<1> QED BY <1>1, <1>2, LandMoves

\* The steps of a task away from its items.
LEMMA LandAway ==
    ASSUME LandInv, ReleaseInv', NEW u \in Task,
           \/ OpenRead(u) \/ OpenEdit(u) \/ CommitBatch(u) \/ ServeWindow(u) \/ Write(u)
           \/ \E lo, hi \in 1 .. MaxLine : ServeRead(u, lo, hi)
           \/ Reject(u) \/ Abort(u) \/ WriteFails(u) \/ Record(u) \/ Exhausted(u) \/ ProbeFails(u)
    PROVE  LandInv'
<1>1. ReleaseInv /\ call \in [Task -> CallType]
      BY DEF LandInv, ReleaseInv, TypeInv, TypeOK
<1>2. ASSUME call[u].pc \in Chain
      PROVE  RunsAlone(u)
      BY <1>1, <1>2, AloneInChain
<1>3. CASE \/ \E lo, hi \in 1 .. MaxLine : ServeRead(u, lo, hi)
           \/ Reject(u) \/ Abort(u) \/ WriteFails(u) \/ Record(u) \/ Exhausted(u) \/ ProbeFails(u)
      <2>1. Finish(u)
            BY <1>3 DEF ServeRead, Reject, Abort, WriteFails, Record, Exhausted, ProbeFails
      <2>2. RunsAlone(u) \/ UNCHANGED <<store, served>>
            BY <1>2, <1>3 DEF ServeRead, Reject, Abort, WriteFails, Record, Exhausted, ProbeFails,
               Accepted, Chain
      <2> QED BY <2>1, <2>2, LandEnds
<1>4. CASE OpenRead(u) \/ OpenEdit(u) \/ CommitBatch(u) \/ Write(u)
      <2>1. /\ \A w \in Task \ {u} : call'[w] = call[w]
            /\ call'[u].pc \notin ItemPc
            BY <1>1, <1>4, ZenonT(60) DEF OpenRead, OpenEdit, CommitBatch, Write, Idle, ItemPc, CallType
      <2>2. RunsAlone(u) \/ UNCHANGED <<store, served>>
            BY <1>2, <1>4 DEF OpenRead, OpenEdit, CommitBatch, Write, Chain
      <2>3. Landing(u)'
            BY <2>1 DEF Landing
      <2> QED BY <2>1, <2>2, <2>3, LandMoves
<1>5. CASE ServeWindow(u)
      <2>1. /\ \A w \in Task \ {u} : call'[w] = call[w]
            /\ call'[u].pc = "write"
            BY <1>1, <1>5, WindowMoves DEF ReleaseInv
      <2>2. RunsAlone(u)
            BY <1>2, <1>5 DEF ServeWindow, Chain
      <2>3. Landing(u)'
            BY <2>1 DEF Landing, ItemPc
      <2> QED BY <2>1, <2>2, <2>3, LandMoves
<1> QED BY <1>3, <1>4, <1>5

\* The plan reads projection and record at one time and orders no item bottom up.
LEMMA PlanLands ==
    ASSUME LandInv, ReleaseInv', MaxItems \in {1, 2}, MaxItems = 2 => ~Reversals,
           NEW u \in Task, NEW n \in 1 .. MaxItems, NEW items \in [1 .. n -> Request],
           Plan(u, items)
    PROVE  LandInv'
<1> DEFINE c == call[u].cur
           h == AnchorsFor(store.rows, c)
           expanded == [k \in DOMAIN items |-> Expand(c, h, items[k])]
           v == [call[u] EXCEPT !.pc = "probe", !.inStep = InStep(c),
                    !.placed = \A k \in DOMAIN items : Resolved(h, items[k]),
                    !.base = c, !.h0 = h, !.h = h,
                    !.seen = served[SessionOf[u]], !.items = expanded]
<1>1. /\ UNCHANGED <<disk, store, served, pool>> /\ RunsAlone(u) /\ call[u].pc = "open"
      /\ Finish(u) \/ call' = [call EXCEPT ![u] = v]
      BY DEF Plan, Finish
<1>2. call \in [Task -> CallType] /\ call[u] \in CallType
      BY DEF LandInv, ReleaseInv, TypeInv, TypeOK
<1>3. CASE Finish(u)
      BY <1>1, <1>3, LandEnds
<1>4. CASE call' = [call EXCEPT ![u] = v]
      <2>1. /\ v.pc = "probe" /\ v.cur = c /\ v.h = h /\ v.items = expanded
            /\ v.dropped = call[u].dropped /\ v.seen = served[SessionOf[u]]
            <3> HIDE DEF h, expanded, c
            <3> QED BY <1>2 DEF CallType, c
      <2> HIDE DEF v
      <2>2. (\A w \in Task \ {u} : call'[w] = call[w]) /\ call'[u] = v
            BY <1>2, <1>4
      <2>3. call'[u].dropped = {}
            BY <1>1, <2>1, <2>2 DEF LandInv, ReleaseInv, Releasing, NothingYet
      <2>4. SeenAsServed(u)'
            <3> HIDE DEF c
            <3>1. call'[u].h = AnchorsFor(store.rows, call'[u].cur)
                  BY <2>1, <2>2
            <3>2. \A a \in Anchor : call'[u].seen[a] = served[SessionOf[u]][a]
                  BY <2>1, <2>2
            <3> QED BY <1>1, <2>3, <3>1, <3>2 DEF SeenAsServed
      <2>5. Len(call'[u].items) = n /\ expanded[1] = Expand(c, h, items[1])
            <3>1. call'[u].items \in Seq(EditItem)
                  BY <2>2, <1>2 DEF ReleaseInv, TypeInv, TypeOK, CallType
            <3>2. n \in Nat /\ DOMAIN expanded = 1 .. n /\ 1 \in 1 .. n
                  OBVIOUS
            <3>3. expanded[1] = Expand(c, h, items[1])
                  BY <3>2
            <3> HIDE DEF expanded, c, h
            <3>4. expanded \in Seq(EditItem)
                  BY <2>1, <2>2, <3>1
            <3>5. Len(expanded) = n
                  BY <3>2, <3>4
            <3> QED BY <2>1, <2>2, <3>3, <3>5
      <2>6. ASSUME n = 2
            PROVE  Forward(u)'
            <3>1. ~ (Resolved(h, items[1]) /\ First(h, items[1].from) > First(h, items[1].to))
                  <4>1. 1 \in DOMAIN items
                        OBVIOUS
                  <4>2. (\E k \in DOMAIN items : /\ Resolved(h, items[k])
                                                 /\ First(h, items[k].from) > First(h, items[k].to))
                            => Reversals
                        BY DEF Plan
                  <4> HIDE DEF h
                  <4> QED BY <2>6, <4>1, <4>2
            <3>2. Item(u)' = Expand(c, h, items[1])
                  <4>1. Item(u)' = Head(expanded)
                        BY <2>1, <2>2 DEF Item
                  <4> HIDE DEF c, h
                  <4> QED BY <2>5, <4>1
            <3>3. Item(u)'.from = items[1].from /\ Item(u)'.to = items[1].to
                  BY <3>2, RequestAssumption DEF Expand, EditItem
            <3>4. Resolved(h, items[1]) =>
                    First(h, items[1].from) \in Int /\ First(h, items[1].to) \in Int
                  <4>1. DOMAIN h = 1 .. Len(c) /\ Len(c) \in Nat
                        BY <1>2 DEF AnchorsFor, Lines, CallType
                  <4> HIDE DEF h, c
                  <4> QED BY <4>1, FirstIsLine DEF Resolved
            <3>5. call'[u].h = h
                  BY <2>1, <2>2
            <3> HIDE DEF h, c
            <3>6. Resolved(h, items[1]) => First(h, items[1].from) <= First(h, items[1].to)
                  BY <3>1, <3>4
            <3> QED BY <3>3, <3>5, <3>6 DEF Forward, Resolved
      <2>7. Landing(u)'
            <3>1. call'[u].pc = "probe"
                  BY <2>1, <2>2
            <3>2. Len(call'[u].items) \in {1, 2}
                  BY <2>5
            <3>3. Len(call'[u].items) = 2 => Forward(u)'
                  BY <2>5, <2>6
            <3> QED BY <2>4, <3>1, <3>2, <3>3 DEF Landing, MoreToCome
      <2> QED BY <1>1, <2>2, <2>7, LandMoves
<1> QED BY <1>1, <1>3, <1>4

\* A verdict: with two items left, a mint follows only a refusal.
LEMMA ProbeLands ==
    ASSUME LandInv, ReleaseInv', NEW u \in Task, Probe(u)
    PROVE  LandInv'
<1> DEFINE c == call[u].cur
           h == call[u].h
           asked == Resolves(h, Item(u).from) /\ Asked(u) # {}
           bad == IF asked
                  THEN ProbeLines(store.rows, served[SessionOf[u]], c, h, Asked(u)) ELSE {}
           pc == IF Resolves(h, Item(u).from) /\ (asked => bad # {})
                 THEN "mint" ELSE "verify"
<1>1. /\ call' = [call EXCEPT ![u].asked = asked, ![u].bad = bad, ![u].pc = pc]
      /\ call[u].pc = "probe" /\ UNCHANGED <<store, served>>
      BY DEF Probe
<1>2. /\ call \in [Task -> CallType] /\ call[u] \in CallType /\ DOMAIN h = Lines(c)
      /\ c \in Seq(Text)
      BY <1>1 DEF LandInv, ReleaseInv, TypeInv, TypeOK, CallOK, CallType
<1>3. RunsAlone(u)
      BY <1>1, AloneInChain DEF LandInv, Chain
<1>4. ASSUME Resolves(h, Item(u).from)
      PROVE  First(h, Item(u).from) \in Lines(c)
      <2>1. DOMAIN h = 1 .. Len(c) /\ Len(c) \in Nat
            BY <1>2 DEF Lines
      <2> HIDE DEF h, c
      <2> QED BY <1>4, <2>1, FirstIsLine DEF Lines
<1>5. ASSUME Resolves(h, Item(u).to)
      PROVE  First(h, Item(u).to) \in Lines(c)
      <2>1. DOMAIN h = 1 .. Len(c) /\ Len(c) \in Nat
            BY <1>2 DEF Lines
      <2> HIDE DEF h, c
      <2> QED BY <1>5, <2>1, FirstIsLine DEF Lines
<1>6. Len(c) \in Nat /\ Lines(c) = 1 .. Len(c)
      BY <1>2 DEF Lines
<1>7. ASSUME Resolves(h, Item(u).from)
      PROVE  Asked(u) \subseteq Lines(c)
      <2>1. Asked(u) = First(h, Item(u).from) .. IF Resolves(h, Item(u).to)
                        THEN First(h, Item(u).to) ELSE First(h, Item(u).from)
            BY DEF Asked
      <2> HIDE DEF h, c
      <2> QED BY <1>4, <1>5, <1>6, <1>7, <2>1
<1>8. ASSUME call[u].inStep, asked, bad = {}, NEW i \in Asked(u)
      PROVE  Vouched(call[u].seen, u, i)
      <2>1. i \in Lines(c)
            BY <1>7, <1>8
      <2>2. ProbeLine(store.rows, served[SessionOf[u]], c, h[i], i) = {}
            BY <1>8 DEF ProbeLines
      <2> QED BY <1>1, <1>8, <2>1, <2>2, BatchSilenceVouches
<1>9. ASSUME Len(call[u].items) = 2, call[u].inStep, Resolves(h, Item(u).from)
      PROVE  asked
      <2>1. Forward(u)
            BY <1>1, <1>9 DEF LandInv, Landing, MoreToCome, ItemPc
      <2>2. First(h, Item(u).from) \in Asked(u)
            <3>1. Resolves(h, Item(u).to) => First(h, Item(u).from) <= First(h, Item(u).to)
                  BY <1>9, <2>1 DEF Forward, Resolved
            <3>2. Asked(u) = First(h, Item(u).from) .. IF Resolves(h, Item(u).to)
                              THEN First(h, Item(u).to) ELSE First(h, Item(u).from)
                  BY DEF Asked
            <3> HIDE DEF h, c
            <3> QED BY <1>4, <1>5, <1>6, <1>9, <3>1, <3>2
      <2> QED BY <1>9, <2>2
<1>10. /\ asked => Resolves(h, Item(u).from) /\ Asked(u) # {}
       /\ pc \in {"mint", "verify"}
       /\ pc = "mint" => Resolves(h, Item(u).from) /\ (asked => bad # {})
       OBVIOUS
<1> HIDE DEF asked, bad, pc
<1>11. /\ \A w \in Task \ {u} : call'[w] = call[w]
       /\ call'[u].pc = pc /\ call'[u].asked = asked /\ call'[u].bad = bad
       /\ call'[u].inStep = call[u].inStep /\ call'[u].cur = c /\ call'[u].h = h
       /\ call'[u].dropped = call[u].dropped /\ call'[u].seen = call[u].seen
       /\ call'[u].items = call[u].items
      BY <1>1, <1>2 DEF CallType
<1>12. Landing(u)'
      <2> SUFFICES ASSUME call[u].inStep
                   PROVE  Landing(u)'
          BY <1>11 DEF Landing
      <2>1. Len(call[u].items) \in {1, 2} /\ SeenAsServed(u) /\ MoreToCome(u)
            BY <1>1 DEF LandInv, Landing, ItemPc
      <2>2. Item(u)' = Item(u) /\ Asked(u)' = Asked(u)
            BY <1>11 DEF Item, Asked
      <2>3. Verdict(u)'
            <3>1. \A i : Vouched(call[u].seen, u, i) => Vouched(call[u].seen, u, i)'
                  BY <1>11 DEF Vouched
            <3> QED BY <1>8, <1>10, <1>11, <2>2, <3>1 DEF Verdict
      <2>4. SeenAsServed(u)'
            BY <1>1, <1>11, <2>1 DEF SeenAsServed
      <2>5. MoreToCome(u)'
            <3> SUFFICES ASSUME Len(call[u].items) = 2
                         PROVE  Forward(u)' /\ (pc = "mint" => Refused(u)')
                BY <1>11, <2>4 DEF MoreToCome
            <3>1. Forward(u)'
                  BY <1>11, <2>1, <2>2 DEF MoreToCome, Forward
            <3>2. pc = "mint" => asked /\ bad # {}
                  BY <1>9, <1>10
            <3> QED BY <1>11, <3>1, <3>2 DEF Refused
      <2> QED BY <1>10, <1>11, <2>1, <2>3, <2>5 DEF Landing
<1> QED BY <1>1, <1>3, <1>11, <1>12, LandMoves

\* The window of a refusal: the item stays refused.
LEMMA MintEchoLands ==
    ASSUME LandInv, ReleaseInv', NEW u \in Task, MintEcho(u)
    PROVE  LandInv'
<1>1. /\ call \in [Task -> CallType] /\ call[u] \in CallType
      /\ call[u].pc = "mint" /\ call' = [call EXCEPT ![u].pc = "verify"]
      BY DEF MintEcho, LandInv, ReleaseInv, TypeInv, TypeOK
<1>2. /\ \A w \in Task \ {u} : call'[w] = call[w]
      /\ call'[u].pc = "verify" /\ call'[u].inStep = call[u].inStep /\ call'[u].cur = call[u].cur
      /\ call'[u].h = call[u].h /\ call'[u].asked = call[u].asked /\ call'[u].bad = call[u].bad
      /\ call'[u].seen = call[u].seen /\ call'[u].items = call[u].items
      BY <1>1 DEF CallType
<1>3. RunsAlone(u)
      BY <1>1, AloneInChain DEF LandInv, Chain
<1>4. Landing(u)'
      <2> SUFFICES ASSUME call[u].inStep
                   PROVE  Landing(u)'
          BY <1>2 DEF Landing
      <2>1. Len(call[u].items) \in {1, 2} /\ Verdict(u) /\ MoreToCome(u)
            BY <1>1 DEF LandInv, Landing, ItemPc
      <2>2. Item(u)' = Item(u) /\ Asked(u)' = Asked(u)
            BY <1>2 DEF Item, Asked
      <2>3. Verdict(u)'
            BY <1>2, <2>1, <2>2 DEF Verdict, Vouched
      <2>4. MoreToCome(u)'
            BY <1>1, <1>2, <2>1, <2>2 DEF MoreToCome, Forward, Refused
      <2> QED BY <1>2, <2>1, <2>3, <2>4 DEF Landing
<1> QED BY <1>2, <1>3, <1>4, LandMoves

\* Of two items at most one is left after one.
LEMMA OneLeft ==
    ASSUME NEW items \in Seq(EditItem), Len(items) \in {1, 2}, Tail(items) # <<>>
    PROVE  Len(items) = 2 /\ Len(Tail(items)) = 1
<1>1. items # <<>>
      BY EmptySeq
<1>2. Tail(items) \in Seq(EditItem) /\ Len(Tail(items)) = Len(items) - 1
      BY <1>1, HeadTailProperties
<1>3. Len(Tail(items)) # 0
      BY <1>2, EmptySeq
<1> QED BY <1>2, <1>3

\* An item that changes nothing leaves the next one what it had.
LEMMA NoopLands ==
    ASSUME LandInv, ReleaseInv', NEW u \in Task, Noop(u)
    PROVE  LandInv'
<1> DEFINE rest == Tail(call[u].items)
           pc == NextPc(rest, call[u].spans)
           v == [call[u] EXCEPT !.pc = pc, !.items = rest, !.asked = FALSE, !.bad = {}]
<1>1. /\ call' = [call EXCEPT ![u] = IF pc = "idle" THEN Idle ELSE v]
      /\ call[u].pc = "verify" /\ Unverified(u) = {} /\ UNCHANGED <<store, served, pool>>
      BY DEF Noop, Accepted
<1>2. /\ call \in [Task -> CallType] /\ call[u] \in CallType
      /\ call[u].items \in Seq(EditItem)
      BY DEF LandInv, ReleaseInv, TypeInv, TypeOK, CallType
<1>3. pc \in {"probe", "commit", "idle"} /\ (pc = "probe" => rest # <<>>)
      BY DEF NextPc
<1>4. Len(call[u].items) \in {1, 2} /\ rest # <<>> => Len(call[u].items) = 2 /\ Len(rest) = 1
      BY <1>2, OneLeft
<1> HIDE DEF rest, pc
<1>5. /\ v.pc = pc /\ v.inStep = call[u].inStep /\ v.cur = call[u].cur
      /\ v.h = call[u].h /\ v.dropped = call[u].dropped /\ v.seen = call[u].seen
      /\ v.items = rest
      BY <1>2 DEF CallType
<1> HIDE DEF v
<1>6. CASE pc = "idle"
      <2>1. Finish(u)
            BY <1>1, <1>6 DEF Finish
      <2> QED BY <1>1, <2>1, LandEnds
<1>7. CASE pc # "idle"
      <2>1. (\A w \in Task \ {u} : call'[w] = call[w]) /\ call'[u] = v
            BY <1>1, <1>2, <1>7
      <2>2. Landing(u)'
            <3> SUFFICES ASSUME call[u].inStep, pc = "probe"
                         PROVE  Landing(u)'
                BY <1>3, <1>5, <1>7, <2>1 DEF Landing, ItemPc
            <3>1. Len(call[u].items) \in {1, 2} /\ MoreToCome(u)
                  BY <1>1 DEF LandInv, Landing, ItemPc
            <3>2. Len(call[u].items) = 2 /\ Len(rest) = 1
                  BY <1>3, <1>4, <3>1
            <3>3. SeenAsServed(u)
                  BY <1>1, <3>1, <3>2 DEF MoreToCome, Refused, Unverified
            <3>4. SeenAsServed(u)'
                  BY <1>1, <1>5, <2>1, <3>3 DEF SeenAsServed
            <3> QED BY <1>5, <2>1, <3>2, <3>4 DEF Landing, MoreToCome
      <2> QED BY <1>1, <2>1, <2>2, LandMoves
<1> QED BY <1>6, <1>7

\* An applied item leaves the next one a projection of the new rows, and takes what it
\* dropped out of the copy of the record.
LEMMA ApplyLands ==
    ASSUME LandInv, ReleaseInv', NEW u \in Task, Apply(u)
    PROVE  LandInv'
<1>1. PICK out \in UpdateAnchorsAfterEdit(store, call[u].cur, Result(u), call[u].h,
                        {Hunk(u)}, Live(store.rows) \cup pool) :
        /\ store' = out.store /\ served' = served
        /\ \A t \in Task \ {u} : call'[t] = call[t]
        /\ call'[u].pc \in {"probe", "commit"} /\ call'[u].inStep = call[u].inStep
        /\ call'[u].cur = Result(u) /\ call'[u].h = AnchorsFor(out.store.rows, Result(u))
        /\ call'[u].dropped = call[u].dropped \cup out.dropped
        /\ call'[u].items = Tail(call[u].items)
        /\ call'[u].pc = "probe" => Tail(call[u].items) # <<>>
        /\ call'[u].seen = Forget(call[u].seen, out.dropped)
      BY AppliedItem DEF LandInv, ReleaseInv
<1>2. call[u].pc = "verify" /\ Unverified(u) = {}
      BY DEF Apply, Accepted
<1>3. RunsAlone(u)
      BY <1>2, AloneInChain DEF LandInv, Chain
<1>4. Landing(u)'
      <2> SUFFICES ASSUME call[u].inStep, call'[u].pc = "probe"
                   PROVE  Landing(u)'
          BY <1>1 DEF Landing, ItemPc
      <2>1. Len(call[u].items) \in {1, 2} /\ MoreToCome(u)
            BY <1>2 DEF LandInv, Landing, ItemPc
      <2>2. Len(call[u].items) = 2 /\ Len(Tail(call[u].items)) = 1
            <3>1. call[u].items \in Seq(EditItem)
                  BY DEF LandInv, ReleaseInv, TypeInv, TypeOK, CallType
            <3>2. Tail(call[u].items) # <<>>
                  BY <1>1
            <3> QED BY <2>1, <3>1, <3>2, OneLeft
      <2>3. SeenAsServed(u)
            BY <1>2, <2>1, <2>2 DEF MoreToCome, Refused, Unverified
      <2>4. \A a \in Anchor : call'[u].seen[a] =
                IF a \in call'[u].dropped THEN Unserved ELSE served'[SessionOf[u]][a]
            BY <1>1, <2>3 DEF SeenAsServed, Forget
      <2>5. SeenAsServed(u)'
            BY <1>1, <2>4 DEF SeenAsServed
      <2>6. call'[u].items = Tail(call[u].items)
            BY <1>1
      <2>7. Len(call'[u].items) = 1
            BY <2>2, <2>6
      <2> QED BY <2>5, <2>7 DEF Landing, MoreToCome
<1>5. \A w \in Task \ {u} : call'[w] = call[w]
      BY <1>1
<1> QED BY <1>3, <1>4, <1>5, LandMoves

-----------------------------------------------------------------------------
\* Every step preserves it.
LEMMA LandStep ==
    ASSUME MaxItems \in {1, 2}, MaxItems = 2 => ~Reversals
    PROVE  LandInv /\ [Next]_vars => LandInv'
<1> SUFFICES ASSUME LandInv, [Next]_vars
             PROVE  LandInv'
    OBVIOUS
<1>1. ReleaseInv'
      BY ReleaseStep DEF LandInv
<1>2. ASSUME NEW u \in Task, NEW n \in 1 .. MaxItems,
             NEW items \in [1 .. n -> Request], Plan(u, items)
      PROVE  LandInv'
      BY <1>1, <1>2, PlanLands
<1>3. ASSUME NEW u \in Task, Probe(u) \/ MintEcho(u) \/ Noop(u) \/ Apply(u)
      PROVE  LandInv'
      BY <1>1, <1>3, ProbeLands, MintEchoLands, NoopLands, ApplyLands
<1>4. ASSUME NEW u \in Task,
             \/ OpenRead(u) \/ OpenEdit(u) \/ CommitBatch(u) \/ ServeWindow(u) \/ Write(u)
             \/ \E lo, hi \in 1 .. MaxLine : ServeRead(u, lo, hi)
             \/ Reject(u) \/ Abort(u) \/ WriteFails(u) \/ Record(u) \/ Exhausted(u)
             \/ ProbeFails(u)
      PROVE  LandInv'
      BY <1>1, <1>4, LandAway
<1>5. CASE Crash
      <2>1. \A t \in Task : call'[t].pc = "idle"
            BY <1>5 DEF Crash, Idle
      <2> QED BY <1>1, <2>1 DEF LandInv, Landing, ItemPc
<1>6. CASE UNCHANGED <<store, served, call>>
      BY <1>1, <1>6 DEF LandInv, Landing, SeenAsServed, Verdict, MoreToCome, Forward, Refused,
         Asked, Item, Vouched, ItemPc
<1>7. External => UNCHANGED <<store, served, call>>
      BY DEF External
<1>8. UNCHANGED vars => UNCHANGED <<store, served, call>>
      BY DEF vars
<1> QED BY <1>2, <1>3, <1>4, <1>5, <1>6, <1>7, <1>8 DEF Next

\* A call of one item, or of two in ranges top down, whose plan read rows in step with its
\* text replaces only lines whose present content its session had been served before the
\* call: however many calls and sessions, through refusals, failures, crashes and writes
\* of other programs.
THEOREM BatchesLand ==
    ASSUME MaxItems \in {1, 2}, MaxItems = 2 => ~Reversals
    PROVE  Spec => BatchLandsWhereServed
<1>1. Init => LandInv
      <2> SUFFICES ASSUME Init
                   PROVE  LandInv
          OBVIOUS
      <2>1. ReleaseInv
            BY TypeInit, AllIdle DEF Init
      <2>2. \A t \in Task : call[t].pc = "idle"
            BY DEF Init, Idle
      <2> QED BY <2>1, <2>2 DEF LandInv, Landing, ItemPc
<1>2. LandInv /\ [Next]_vars => [BatchLandsStep]_vars
      <2> SUFFICES ASSUME LandInv, [Next]_vars, NEW t \in Task, Applied(t), call[t].inStep,
                          NEW i \in Target(t)
                   PROVE  Vouched(call[t].seen, t, i)
          BY DEF BatchLandsStep
      <2>1. TypeInv
            BY DEF LandInv, ReleaseInv
      <2>2. Accepted(t)
            BY <2>1, AppliedByApply DEF Apply
      <2>3. Verdict(t)
            BY <2>2 DEF LandInv, Landing, Accepted, ItemPc
      <2> QED BY <2>1, <2>2, <2>3, AcceptedVouched DEF Verdict
<1> QED BY <1>1, <1>2, LandStep, PTL DEF Spec, BatchLandsWhereServed
=============================================================================
