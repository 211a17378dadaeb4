------------------------------ MODULE ItemEdit ------------------------------
\* One item of an edit on its way through the anchor pipeline, with every spelling of a
\* reference: the pure layer hashline/anchor-pipeline.ts and what edit-engine.ts puts in
\* front of it (resolveIns, pinBounds, mintEchoWindow).  A text is its characters, so a
\* splice is the code's slice.  How rows move is AnchorRows' matter: here the projection
\* is true to the text and names no anchor twice.
EXTENDS Integers, Sequences, FiniteSets, SequencesExt, FiniteSetsExt, Functions

CONSTANTS Anchor,    \* numbers; the allocator takes the least one that is free
          Texts,     \* the file at first; 0 is the newline, 1 and 2 are letters,
                     \* 10 + a the marker of a pasted row of anchor a, 20 + a of a diff's row
          Items,     \* [op, from, to, lines, claim]
          Context,   \* context_lines
          MaxSteps   \* reads and other programs' writes in front of the edit

VARIABLES text,      \* the file
          doc,       \* its lines
          at,        \* per line its anchor, or None
          served,    \* anchor -> the line it was served with
          pool,      \* anchors dropped by edits
          call,      \* the last edit and what came of it
          steps

vars == <<text, doc, at, served, pool, call, steps>>

None == 0
Newline == 0
Blank == <<>>
NoClaim == <<-1>>
-----------------------------------------------------------------------------
\* Texts and lines.

Split(s) ==
    FoldLeft(LAMBDA ls, c : IF c = Newline THEN Append(ls, Blank)
                            ELSE Append(Front(ls), Append(Last(ls), c)), <<Blank>>, s)
Open(s) == s # <<>> /\ Last(s) # Newline
\* splitLines: an empty text has one empty line.
LinesOf(s) == IF s = <<>> \/ Open(s) THEN Split(s) ELSE Front(Split(s))
Joined(ls) == IF ls = <<>> THEN <<>>
              ELSE FoldLeft(LAMBDA s, l : s \o <<Newline>> \o l, Head(ls), Tail(ls))

\* Lines on their way to a string and back: a string of newlines alone stands for that
\* many blank lines, the empty one for none.
EncodeText(ls) ==
    LET all == FlattenSeq([n \in DOMAIN ls |-> Split(ls[n])])
    IN IF ToSet(all) = {Blank} THEN [n \in DOMAIN all |-> Newline] ELSE Joined(all)
ParseText(s) ==
    IF s = <<>> THEN <<>> ELSE IF ToSet(s) = {Newline} THEN [n \in DOMAIN s |-> Blank] ELSE Split(s)

\* How many characters stand in front of a line.
LineStart(ls, n) == FoldLeft(LAMBDA k, l : k + Len(l) + 1, 0, SubSeq(ls, 1, n - 1))
LineEnd(ls, n) == LineStart(ls, n) + Len(ls[n])
-----------------------------------------------------------------------------
\* What an item says.  Every spelling of a bound comes down to an anchor with the line said
\* beside it, or a bare number.
Reference == [anchor : Anchor \cup {None}, digit : Nat, hint : Nat]
Item == [op : {"replace", "ins", "del", "sed"}, from : Reference, to : Reference,
         lines : Seq(Seq(Nat)), claim : Seq(Int)]

LineOf(a) == IF a = None THEN 0 ELSE SelectInSeq(at, LAMBDA b : b = a)
Pinned(ref) == [ref EXCEPT !.hint = IF LineOf(ref.anchor) > 0 THEN LineOf(ref.anchor) ELSE @]

Vouched(l) == at[l] \in DOMAIN served /\ served[at[l]] = doc[l]
Around(lo, hi, c) == Max({1, lo - c})..Min({Len(at), hi + c})

\* The verdict and the window of mintEchoWindow: a number is asked nothing about.
Verdict(from, to) ==
    LET asked == LineOf(from.anchor)..(IF LineOf(to.anchor) > 0 THEN LineOf(to.anchor) ELSE LineOf(from.anchor))
    IN IF LineOf(from.anchor) = 0 \/ asked = {} THEN [given |-> FALSE, bad |-> {}]
       ELSE [given |-> TRUE, bad |-> {l \in asked : ~Vouched(l)}]
Window(from, to) ==
    LET line(ref) == IF LineOf(ref.anchor) > 0 THEN LineOf(ref.anchor) ELSE ref.digit
        a == line(from)
        b == IF line(to) > 0 THEN line(to) ELSE a
    IN IF a = 0 THEN {} ELSE Around(Min({a, b}), Max({a, b}), Max({2, Context}))
EchoMint(from, to) ==
    LET v == Verdict(from, to) IN IF v.given /\ v.bad = {} THEN {} ELSE Window(from, to)

\* allocateInto: anchors for the lines that have none.
Minted(rows, ls) ==
    FoldLeft(LAMBDA r, l : IF r[l] # None THEN r
                           ELSE [r EXCEPT ![l] = Min(Anchor \ (ToSet(r) \cup pool))],
             rows, SetToSortSeq(ls, <))

Reversed(a, b) == a.hint > 0 /\ b.hint > 0 /\ a.hint > b.hint

\* A pasted row's marker goes when its anchor is one of the range's; with a bound that is
\* not on a line, when it is one of the file's.
RangeAnchors(from, to) ==
    LET a == LineOf(from.anchor)
        b == LineOf(to.anchor)
    IN IF a > 0 /\ b > 0 THEN {at[l] : l \in Min({a, b})..Max({a, b})} ELSE ToSet(at)
IsMarker(c) == c > 9
MarkerOf(c) == IF c > 19 THEN c - 20 ELSE c - 10
Stripped(line, anchors) ==
    IF line # Blank /\ IsMarker(line[1]) /\ MarkerOf(line[1]) \in anchors THEN Tail(line) ELSE line

\* resolveLineReferences: a number becomes the anchor of its line if that was served.
Numbered(ref) ==
    IF DOMAIN served # {} /\ ref.digit \in DOMAIN at /\ at[ref.digit] \in DOMAIN served
    THEN [ref EXCEPT !.anchor = at[ref.digit], !.hint = ref.digit] ELSE ref

\* The lines a mismatch is echoed around: the number given, the other bound's line, a hint.
Centers(from, to) ==
    LET lost == {r \in {from, to} : LineOf(r.anchor) = 0}
        kept == {LineOf(r.anchor) : r \in {from, to} \ lost}
        center(r) == IF r.digit \in DOMAIN at THEN {r.digit}
                     ELSE IF kept # {} THEN kept
                     ELSE {r.hint} \cap DOMAIN at
    IN UNION {center(r) : r \in lost}
\* Only lines near a number or a hint get the anchors that were just minted.
Refreshed(from, to) ==
    UNION {Around(l, l, Context) : l \in UNION {{r.digit, r.hint} : r \in {from, to}} \cap DOMAIN at}

\* Mutant of Unserved: the verdict given, else nothing.
VerdictOnly(v, a, b) == v.bad

\* verifyServedRange: the verdict given, else the record; the bounds' anchors are on their
\* lines by now.
Unserved(v, a, b) == IF v.given THEN v.bad ELSE {l \in a..b : ~Vouched(l)}

\* resToSpan and assemble.
Spliced(a, b, ls) ==
    LET n == Len(doc)
        start == LineStart(doc, a)
        cut(from, to, new) == SubSeq(text, 1, from) \o new \o SubSeq(text, to + 1, Len(text))
    IN CASE ls # <<>> -> cut(start, LineEnd(doc, b), Joined(ls))
         [] ls = <<>> /\ a = 1 /\ b = n -> <<>>
         [] ls = <<>> /\ b < n -> cut(start, LineStart(doc, b + 1), <<>>)
         [] ls = <<>> /\ b = n /\ a > 1 /\ ~Open(text) -> cut(start, Len(text), <<>>)
         [] OTHER -> cut(start - (IF doc[a - 1] = Blank THEN 0 ELSE 1), Len(text), <<>>)

\* changedRange: the first line that differs, and the last one of the new text.
ChangedRange(x, y) ==
    LET m == Min({Len(x), Len(y)})
        head == Max({k \in 0..m : \A i \in 1..k : x[i] = y[i]})
        tail == Max({k \in 0..(m - head) : \A i \in 0..(k - 1) : x[Len(x) - i] = y[Len(y) - i]})
    IN [first |-> head + 1, last |-> Max({head, Len(y) - tail - 1}) + 1]

\* The substitution of a sed item: the letter 1 becomes 2.
Substituted(ls) == [n \in DOMAIN ls |-> [i \in DOMAIN ls[n] |-> IF ls[n][i] = 1 THEN 2 ELSE ls[n][i]]]

Nothing == [kind |-> "none", why |-> "", from |-> 0, to |-> 0, lines |-> <<>>, given |-> <<>>,
            result |-> <<>>, delta |-> 0, stamps |-> {}, echo |-> {}, offers |-> {}, minted |-> {}, known |-> {}]
Refused(why, echo, fresh, centers, minted) ==
    [Nothing EXCEPT !.kind = "refused", !.why = why, !.echo = echo, !.minted = minted,
                    !.offers = {fresh[c] : c \in centers} \ {None}]

\* resolveIns: the line itself, then the new ones, if the reference is an anchor here.
Expanded(item, given) ==
    LET l == LineOf(item.from.anchor)
    IN IF item.op = "ins" /\ l > 0 THEN ParseText(EncodeText(<<doc[l]>> \o given)) ELSE given

\* The bounds as applyEdit has them: pinned, in order, numbers resolved.
Bounds(item) ==
    LET pin(ref) == IF item.op = "sed" THEN ref ELSE Pinned(ref)
        swap == Reversed(pin(item.from), pin(item.to))
        first == IF swap THEN pin(item.to) ELSE pin(item.from)
        second == IF swap THEN pin(item.from) ELSE pin(item.to)
    IN [from |-> Numbered(first), to |-> Numbered(second), anchors |-> RangeAnchors(first, second)]

\* valEdit: a line is claimed that the file does not have, or the bounds are the wrong way.
Beyond(ref) == LineOf(ref.anchor) = 0 /\ ref.hint > Len(at)
OutOfRange(from, to) ==
    \/ Beyond(from) \/ Beyond(to)
    \/ LineOf(from.anchor) > LineOf(to.anchor) /\ LineOf(to.anchor) > 0
Resolve(from, to) == LineOf(from.anchor) > 0 /\ LineOf(to.anchor) > 0

\* The echo of a refusal is drawn with the rows before the window's mint, but around a
\* number or a hint.
Mismatch(from, to, minted) ==
    LET fresh == Minted(at, minted)
        rows == [l \in DOMAIN at |-> IF l \in Refreshed(from, to) THEN fresh[l] ELSE at[l]]
        centers == Centers(from, to)
    IN Refused("mismatch", UNION {Around(c, c, Context) : c \in centers}, rows, centers, minted)
NeverShown(bad, minted) ==
    Refused("unserved", Around(Min(bad), Min(bad), Context), Minted(at, minted), {Min(bad)}, minted)

\* A range whose gates are all passed.
Applied(item, given, bounds, a, b, minted) ==
    LET old == SubSeq(doc, a, b)
        lines == IF item.op = "sed" THEN Substituted(old)
                 ELSE [n \in DOMAIN given |-> Stripped(given[n], bounds.anchors)]
        result == Spliced(a, b, lines)
        done == [Nothing EXCEPT !.from = a, !.to = b, !.lines = lines, !.given = given,
                                !.result = result, !.delta = Len(lines) - (b - a + 1),
                                !.stamps = {at[l] : l \in a..b}, !.minted = minted,
                                !.known = {l \in a..b : Vouched(l)}]
    IN IF lines = old THEN [done EXCEPT !.kind = "noop"]
       ELSE IF text # <<>> /\ result = <<>> THEN Refused("empties", {}, at, {}, minted)
       ELSE [done EXCEPT !.kind = "edited"]

\* applyOne down to applyEdit.
Outcome(item) ==
    LET given == IF item.op = "del" THEN <<>> ELSE ParseText(EncodeText(item.lines))
        bounds == Bounds(item)
        a == LineOf(bounds.from.anchor)
        b == LineOf(bounds.to.anchor)
        minted == EchoMint(item.from, item.to)
        bad == Unserved(Verdict(item.from, item.to), a, b)
    IN IF OutOfRange(bounds.from, bounds.to) THEN Refused("range", {}, at, {}, minted)
       ELSE IF ~Resolve(bounds.from, bounds.to) THEN Mismatch(bounds.from, bounds.to, minted)
       ELSE IF bad # {} THEN NeverShown(bad, minted)
       ELSE IF item.claim # NoClaim /\ item.claim # doc[a] THEN Refused("declared", {}, at, {}, minted)
       ELSE Applied(item, Expanded(item, given), bounds, a, b, minted)
-----------------------------------------------------------------------------
\* What the session keeps.

NoItem == [op |-> "none"]
Init ==
    /\ text \in Texts /\ doc = LinesOf(text) /\ at = [l \in DOMAIN doc |-> None]
    /\ served = <<>> /\ pool = {} /\ steps = 0
    /\ call = [item |-> NoItem, before |-> text] @@ Nothing

Rows(rows, lines, ls) == [a \in {rows[l] : l \in ls} \ {None} |-> lines[CHOOSE l \in ls : rows[l] = a]]
Enough(rows, ls) == Cardinality(Anchor \ (ToSet(rows) \cup pool)) >= Cardinality(ls)

Read ==
    \E from \in DOMAIN at : \E to \in from..Len(at) :
      LET rows == Minted(at, from..to) IN
      /\ steps < MaxSteps /\ call.kind = "none" /\ Enough(at, from..to)
      /\ at' = rows
      /\ served' = Rows(rows, doc, from..to) @@ served
      /\ steps' = steps + 1
      /\ UNCHANGED <<text, doc, pool, call>>

\* Another program puts a line in front of one, or drops one; the rows follow.
Outside ==
    \E l \in DOMAIN at, add \in BOOLEAN :
      LET new == IF add THEN InsertAt(doc, l, <<2>>) ELSE RemoveAt(doc, l)
      IN /\ steps < MaxSteps /\ call.kind = "none" /\ new # <<>>
         /\ text' = Joined(new) \o (IF Open(text) THEN <<>> ELSE <<Newline>>)
         /\ doc' = new /\ LinesOf(text') = new
         /\ at' = IF add THEN InsertAt(at, l, None) ELSE RemoveAt(at, l)
         /\ steps' = steps + 1
         /\ UNCHANGED <<served, pool, call>>

\* The rows after an edit: a line of the range that is still there at either end keeps its
\* anchor, the rest are dropped; the response shows the new lines and their context.
Kept(o) ==
    LET old == SubSeq(doc, o.from, o.to)
        after == LinesOf(o.result)
        new == SubSeq(after, o.from, Len(after) - (Len(at) - o.to))
        m == Min({Len(old), Len(new)})
        head == Max({k \in 0..m : \A i \in 1..k : old[i] = new[i]})
        tail == Max({k \in 0..(m - head) : \A i \in 0..(k - 1) : old[Len(old) - i] = new[Len(new) - i]})
    IN SubSeq(at, 1, o.from - 1 + head) \o [i \in 1..(Len(new) - head - tail) |-> None]
         \o SubSeq(at, o.to - tail + 1, Len(at))
ShownAfter(after) ==
    LET changed == ChangedRange(doc, after)
    IN Max({1, changed.first - Context})..Min({Len(after), changed.last + Context})
Submit ==
    call.kind = "none" /\ \E item \in Items : \E o \in {Outcome(item)} :
      LET edited == o.kind = "edited" IN
      \E rows \in {IF edited THEN Kept(o) ELSE Minted(at, o.minted)},
         after \in {IF edited THEN LinesOf(o.result) ELSE doc} :
      \E window \in {IF edited THEN ShownAfter(after) ELSE o.echo},
         dropped \in {ToSet(at) \ (ToSet(rows) \cup {None})} :
      \E final \in {IF edited THEN Minted(rows, window) ELSE rows} :
         /\ Enough(at, o.minted) /\ (edited => Enough(rows, window))
         /\ text' = IF edited THEN o.result ELSE text
         /\ doc' = after
         /\ at' = final
         /\ pool' = IF edited THEN pool \cup dropped ELSE pool
         /\ served' = Rows(final, after, window \cup (IF edited THEN {} ELSE o.minted))
                         @@ [a \in DOMAIN served \ dropped |-> served[a]]
         /\ call' = [item |-> item, before |-> text] @@ o
         /\ UNCHANGED steps

Next == Read \/ Outside \/ Submit
Spec == Init /\ [][Next]_vars
-----------------------------------------------------------------------------
TypeOK ==
    /\ doc = LinesOf(text) /\ Len(at) = Len(doc) /\ ToSet(at) \subseteq Anchor \cup {None}
    /\ DOMAIN served \subseteq Anchor /\ pool \subseteq Anchor
    /\ call.kind # "none" => call.item \in Item
    /\ \A l, m \in DOMAIN at : at[l] = at[m] /\ at[l] # None => l = m

Edited == call.kind = "edited"
Before == LinesOf(call.before)
Anchored == call.item.from.digit = 0 /\ call.item.to.digit = 0

\* Only lines that were served as they are get replaced.  A number beside an anchor is
\* left out: the verdict then covers the anchor's line alone.
OnlyServed ==
    Edited /\ (Anchored \/ (call.item.from.digit > 0 /\ call.item.to.digit > 0)) =>
       call.known = call.from..call.to
OnlyServedAlways == Edited => call.known = call.from..call.to

\* The lines outside the range stay as they are and where the delta says, the range becomes
\* what was written.  At the end of a text without a final newline a blank last line
\* becomes that newline.
SpliceExact ==
    Edited =>
      LET after == LinesOf(call.result)
          want == SubSeq(Before, 1, call.from - 1) \o call.lines \o SubSeq(Before, call.to + 1, Len(Before))
          lost == /\ Open(call.before) /\ call.to = Len(Before)
                  /\ call.lines # <<>> /\ Last(call.lines) = Blank
          changed == ChangedRange(Before, after)
      IN /\ IF lost /\ Len(want) > 1 THEN after = Front(want) ELSE after = want
         /\ ~lost => \A l \in (call.to + 1)..Len(Before) : after[l + call.delta] = Before[l]
         /\ call.to < Len(Before) => Open(call.result) = Open(call.before)
         /\ \A l \in DOMAIN after : l < changed.first => after[l] = Before[l]
         /\ \A k \in 0..(Len(after) - changed.last - 1) : after[Len(after) - k] = Before[Len(Before) - k]

\* An insertion keeps the line it is put after.  A number is left out: it is not an anchor
\* when the lines are expanded, and one when they are applied.
InsertKeepsItsLine ==
    Edited /\ call.item.op = "ins" /\ Anchored => LinesOf(call.result)[call.from] = Before[call.from]

\* A line is written as it was given, or without the marker of a row of the range: one
\* that names any other row of the file stays (#83).
LiteralsKept ==
    Edited /\ call.item.op \in {"replace", "ins"} /\ Anchored =>
       \A n \in DOMAIN call.given :
          call.lines[n] = call.given[n] \/
             /\ call.lines[n] = Tail(call.given[n]) /\ IsMarker(call.given[n][1])
             /\ MarkerOf(call.given[n][1]) \in call.stamps
             /\ Len(call.lines) = Len(call.given)

\* The marker a refusal offers is one the next edit is accepted with.
OffersHold ==
    call.kind = "refused" /\ call.before = text =>
       \A a \in call.offers :
          LET ref == [anchor |-> a, digit |-> 0, hint |-> 0]
              retry == [op |-> "replace", from |-> ref, to |-> ref, lines |-> <<<<1>>, <<2>>>>, claim |-> NoClaim]
          IN a \in ToSet(at) => Outcome(retry).kind = "edited"

\* What is sent as lines arrives as lines: an element that holds newlines is several, none
\* is lost and none appears.
LinesArrive ==
    call.kind = "none" /\ steps = 0 => \A item \in Items :
       ParseText(EncodeText(item.lines)) = FlattenSeq([n \in DOMAIN item.lines |-> Split(item.lines[n])])
=============================================================================
