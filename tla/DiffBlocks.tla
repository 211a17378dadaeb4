----------------------------- MODULE DiffBlocks -----------------------------
\* The diff every answer about a change is drawn from: the bounded line diff
\* (render/line-diff.ts), the blocks with their headers and line numbers (genDiff of
\* render/edit-diff.ts) and the card's hunks (render/edit-card.ts).  A line is a
\* number, two lines are alike when they are equal; hashes do not collide.
EXTENDS Integers, Sequences, FiniteSets, SequencesExt, FiniteSetsExt

CONSTANTS Texts,     \* [lines, open]: an open text does not end with a newline
          Edits,     \* sequences of hunks [from, to, new, ins], ascending
          Contexts,  \* context_lines
          MaxD,      \* DEFAULT_MAX_D: the distance a search may reach
          MaxSplit   \* MAX_SPLIT_DEPTH

VARIABLES old, new,  \* the text before the call and after it
          ranges,    \* the lines of `old` its hunks replaced; {} for a whole text
          context,
          diff       \* what is shown of it

vars == <<old, new, ranges, context, diff>>

Equal == "equal"
Removed == "removed"
Added == "added"

\* splitUnits: a line with its terminator.
Units(t) == [i \in DOMAIN t.lines |-> <<t.lines[i], t.open /\ i = Len(t.lines)>>]
-----------------------------------------------------------------------------
\* The search of Myers on two sequences of units.

\* The longest n for which n units after x and y are alike.
Snake(a, b, x, y) ==
    Max({n \in 0..Len(a) : \A i \in 1..n : /\ x + i \in DOMAIN a /\ y + i \in DOMAIN b
                                           /\ a[x + i] = b[y + i]})

Diagonals(d) == {k \in -d..d : (k + d) % 2 = 0}
Down(v, d, k) == k = -d \/ (k # d /\ v[k - 1] < v[k + 1])
Reach(a, b, v, d, k) ==
    LET x == IF Down(v, d, k) THEN v[k + 1] ELSE v[k - 1] + 1
    IN x + Snake(a, b, x, x - k)

\* trace[d + 1]: how far each diagonal reaches before round d.
Trace(a, b) ==
    LET start == [k \in -MaxD..MaxD |-> 0]
        round(trace, d) ==
          LET v == Last(trace) IN
          Append(trace, [k \in DOMAIN v |-> IF k \in Diagonals(d) THEN Reach(a, b, v, d, k) ELSE v[k]])
    IN FoldLeft(round, <<start>>, [d \in 1..MaxD |-> d - 1])

\* The rounds that arrive at the end of both.
Arrives(a, b, trace) ==
    {d \in 0..MaxD : \E k \in Diagonals(d) :
        LET x == Reach(a, b, trace[d + 1], d, k) IN x >= Len(a) /\ x - k >= Len(b)}

Keep(x, y, n) == [i \in 1..n |-> [kind |-> Equal, old |-> x + i, new |-> y + i]]
Drop(x, n) == [i \in 1..n |-> [kind |-> Removed, old |-> x + i, new |-> 0]]
Put(y, n) == [i \in 1..n |-> [kind |-> Added, old |-> 0, new |-> y + i]]

\* backtrack: the snake first, then the step that joined this diagonal.
Backtrack(a, b, trace, distance) ==
    LET back(s, d) ==
          LET v == trace[d + 1]
              k == s.x - s.y
              down == Down(v, d, k)
              prevX == v[IF down THEN k + 1 ELSE k - 1]
              prevY == prevX - (IF down THEN k + 1 ELSE k - 1)
              n == Max({0, Min({s.x - prevX, s.y - prevY})})
              x == s.x - n
              y == s.y - n
          IN [x |-> IF down THEN x ELSE x - 1, y |-> IF down THEN y - 1 ELSE y,
              steps |-> (IF down THEN Put(y - 1, 1) ELSE Drop(x - 1, 1)) \o Keep(x, y, n) \o s.steps]
        s == FoldLeft(back, [x |-> Len(a), y |-> Len(b), steps |-> <<>>],
                      [i \in 1..distance |-> distance - i + 1])
        n == Min({s.x, s.y})
    IN Keep(s.x - n, s.y - n, n) \o s.steps

Shifted(steps, i, j) ==
    [n \in DOMAIN steps |-> [steps[n] EXCEPT !.old = IF @ = 0 THEN 0 ELSE @ + i,
                                             !.new = IF @ = 0 THEN 0 ELSE @ + j]]

\* walk: what the two share at both ends, then a search, then halves of what is too
\* wide, then a block of its own.
RECURSIVE Walk(_, _, _, _, _)
Walk(a, b, i, j, depth) ==
    LET p == Snake(a, b, 0, 0)
        tailA == Reverse(SubSeq(a, p + 1, Len(a)))
        tailB == Reverse(SubSeq(b, p + 1, Len(b)))
        s == Snake(tailA, tailB, 0, 0)
        midA == SubSeq(a, p + 1, Len(a) - s)
        midB == SubSeq(b, p + 1, Len(b) - s)
        trace == Trace(midA, midB)
        found == Arrives(midA, midB, trace)
        halfA == Len(midA) \div 2
        halfB == Len(midB) \div 2
        first == Walk(SubSeq(midA, 1, halfA), SubSeq(midB, 1, halfB), i + p, j + p, depth - 1)
        second == Walk(SubSeq(midA, halfA + 1, Len(midA)), SubSeq(midB, halfB + 1, Len(midB)),
                       i + p + halfA, j + p + halfB, depth - 1)
        middle ==
          CASE midA = <<>> -> [steps |-> Put(j + p, Len(midB)), coarse |-> FALSE, split |-> FALSE]
            [] midA # <<>> /\ midB = <<>> ->
                 [steps |-> Drop(i + p, Len(midA)), coarse |-> FALSE, split |-> FALSE]
            [] midA # <<>> /\ midB # <<>> /\ found # {} ->
                 [steps |-> Shifted(Backtrack(midA, midB, trace, Min(found)), i + p, j + p),
                  coarse |-> FALSE, split |-> FALSE]
            [] midA # <<>> /\ midB # <<>> /\ found = {} /\ depth > 0 ->
                 [steps |-> first.steps \o second.steps,
                  coarse |-> first.coarse \/ second.coarse, split |-> TRUE]
            [] OTHER -> [steps |-> Drop(i + p, Len(midA)) \o Put(j + p, Len(midB)),
                         coarse |-> TRUE, split |-> TRUE]
    IN [middle EXCEPT !.steps = Keep(i, j, p) \o @ \o Keep(i + Len(a) - s, j + Len(b) - s, s)]

\* partsFromRuns: within a change the removed lines come first.
Grown(parts, kind, units) ==
    IF units = <<>> THEN parts
    ELSE IF parts # <<>> /\ Last(parts).kind = kind
    THEN Front(parts) \o <<[Last(parts) EXCEPT !.units = @ \o units]>>
    ELSE Append(parts, [kind |-> kind, units |-> units])
Flushed(p) ==
    [parts |-> Grown(Grown(p.parts, Removed, p.del), Added, p.ins), del |-> <<>>, ins |-> <<>>]
Parts(a, b, steps) ==
    LET take(p, s) ==
          CASE s.kind = Equal -> LET q == Flushed(p) IN
                                 [q EXCEPT !.parts = Grown(@, Equal, <<a[s.old]>>)]
            [] s.kind = Removed -> LET q == IF p.ins # <<>> THEN Flushed(p) ELSE p IN
                                   [q EXCEPT !.del = Append(@, a[s.old])]
            [] OTHER -> [p EXCEPT !.ins = Append(@, b[s.new])]
    IN Flushed(FoldLeft(take, [parts |-> <<>>, del |-> <<>>, ins |-> <<>>], steps)).parts

\* diffLinesBoundedResult.
LineDiff(t, u) ==
    LET w == Walk(Units(t), Units(u), 0, 0, MaxSplit)
    IN [parts |-> Parts(Units(t), Units(u), w.steps), coarse |-> w.coarse, split |-> w.split]
-----------------------------------------------------------------------------
\* genDiff.

\* The line counters in front of part n.
Before(parts, n, kinds) ==
    1 + FoldLeft(LAMBDA c, m : IF parts[m].kind \in kinds THEN c + Len(parts[m].units) ELSE c,
                 0, [m \in 1..(n - 1) |-> m])
OldBase(parts, n) == Before(parts, n, {Equal, Removed})
NewBase(parts, n) == Before(parts, n, {Equal, Added})

\* Mutant of Attributed: a line is taken by more than one row.
FirstOfContent(t, replaced, parts) ==
    [w \in DOMAIN t.lines |->
        LET pool == {l \in replaced \cap DOMAIN t.lines : t.lines[l] = t.lines[w]}
        IN IF pool = {} THEN w ELSE Min(pool)]

\* attributedRemovedLine: the line a removed row stands for is the first line the hunks
\* replaced that has its content and that no row before it has taken.
Attributed(t, replaced, parts) ==
    LET walked(n) == [i \in DOMAIN parts[n].units |-> OldBase(parts, n) + i - 1]
        all == FlattenSeq([n \in DOMAIN parts |-> IF parts[n].kind = Removed THEN walked(n) ELSE <<>>])
        claim(m, w) ==
          LET pool == {l \in replaced \cap DOMAIN t.lines :
                         l \notin m.claimed /\ t.lines[l] = t.lines[w]}
          IN IF pool = {} THEN [m EXCEPT !.line = Append(@, w)]
             ELSE [line |-> Append(m.line, Min(pool)), claimed |-> m.claimed \cup {Min(pool)}]
        taken == FoldLeft(claim, [line |-> <<>>, claimed |-> {}], all)
    IN [w \in ToSet(all) |-> taken.line[CHOOSE n \in DOMAIN all : all[n] = w]]

Row(mark, line, o, n) == [mark |-> mark, line |-> line, old |-> o, new |-> n]
ContextRows(parts, n, from, to) ==
    [k \in 1..(to - from) |-> Row(Equal, parts[n].units[from + k][1],
                                  OldBase(parts, n) + from + k - 1, NewBase(parts, n) + from + k - 1)]
ChangeRows(parts, n, number) ==
    [k \in DOMAIN parts[n].units |->
        IF parts[n].kind = Added
        THEN Row(Added, parts[n].units[k][1], 0, NewBase(parts, n) + k - 1)
        ELSE Row(Removed, parts[n].units[k][1], number[OldBase(parts, n) + k - 1], 0)]

\* How much of a run of unchanged lines closes a block and how much opens the next: all
\* of a gap of at most twice the context, else the context on both sides of it.
Closing(length, c) == Min({c, length})
Opening(length, c) == Max({0, length - c})

\* The blocks: one is under construction, or `head` waits for the next change.
Blocks(parts, number, c) ==
    LET change(n) == n \in DOMAIN parts /\ parts[n].kind # Equal
        grow(s, n) ==
          IF s.open THEN [s EXCEPT !.rows = @ \o ChangeRows(parts, n, number)]
          ELSE [s EXCEPT !.open = TRUE, !.rows = s.head \o ChangeRows(parts, n, number), !.head = <<>>,
                         !.base = <<OldBase(parts, n), NewBase(parts, n)>>]
        between(s, n) ==
          LET length == Len(parts[n].units)
              left == change(n - 1)
              right == change(n + 1)
              whole == left /\ right /\ length <= 2 * c
              head == IF whole THEN length ELSE IF left THEN Closing(length, c) ELSE 0
              from == IF right /\ ~whole THEN Opening(length, c) ELSE length
              closed == [s EXCEPT !.rows = IF s.open THEN @ \o ContextRows(parts, n, 0, head) ELSE @]
          IN IF from = length THEN closed
             ELSE [closed EXCEPT
                     !.done = IF left THEN Append(@, [rows |-> closed.rows, base |-> s.base]) ELSE @,
                     !.open = IF left THEN FALSE ELSE @,
                     !.head = ContextRows(parts, n, from, length)]
        s == FoldLeft(LAMBDA t, n : IF change(n) THEN grow(t, n) ELSE between(t, n),
                      [open |-> FALSE, rows |-> <<>>, head |-> <<>>, base |-> <<1, 1>>, done |-> <<>>],
                      [n \in DOMAIN parts |-> n])
    IN IF s.open THEN Append(s.done, [rows |-> s.rows, base |-> s.base]) ELSE s.done

\* A block's header: where its rows of either side start, and how many there are.
OldSide(rows) == SelectSeq(rows, LAMBDA r : r.mark # Added)
NewSide(rows) == SelectSeq(rows, LAMBDA r : r.mark # Removed)
Header(b) ==
    LET o == OldSide(b.rows)
        n == NewSide(b.rows)
    IN [rows |-> b.rows,
        oldStart |-> IF o = <<>> THEN Max({0, b.base[1] - 1}) ELSE o[1].old, oldCount |-> Len(o),
        newStart |-> IF n = <<>> THEN Max({0, b.base[2] - 1}) ELSE n[1].new, newCount |-> Len(n)]

\* computeHunkDiffs: the card groups the same rows once more.
FlatRows(parts) ==
    FlattenSeq([n \in DOMAIN parts |-> [k \in DOMAIN parts[n].units |->
                                          [mark |-> parts[n].kind, line |-> parts[n].units[k][1]]]])
RECURSIVE CardHunks(_, _, _)
CardHunks(rows, at, c) ==
    LET changed == {i \in at..Len(rows) : rows[i].mark # Equal}
        i == Min(changed)
        start == Min({s \in Max({1, i - c})..i : \A m \in s..(i - 1) : rows[m].mark = Equal})
        \* the first change of those that follow closely, one after the other
        follows(m) == \E n \in m..Len(rows) : /\ rows[n].mark # Equal /\ n - m <= 2 * c
                                              /\ \A h \in m..(n - 1) : rows[h].mark = Equal
        end == Min({e \in (i + 1)..(Len(rows) + 1) :
                      (e \in DOMAIN rows => rows[e].mark = Equal /\ ~follows(e))})
        last == Max({e \in end..Min({end + c, Len(rows) + 1}) : \A m \in end..(e - 1) : rows[m].mark = Equal})
        slice == SubSeq(rows, start, last - 1)
        side(mark) == LET s == SelectSeq(slice, LAMBDA r : r.mark # mark)
                      IN [n \in DOMAIN s |-> s[n].line]
    IN IF changed = {} THEN <<>>
       ELSE <<[old |-> side(Added), new |-> side(Removed)]>> \o CardHunks(rows, last, c)

GenDiff(t, u, replaced, c) ==
    \E d \in {LineDiff(t, u)} :
    \E number \in {Attributed(t, replaced, d.parts)} :
    \E blocks \in {Blocks(d.parts, number, c)} :
       diff' = [parts |-> d.parts, coarse |-> d.coarse, split |-> d.split,
                blocks |-> [n \in DOMAIN blocks |-> Header(blocks[n])],
                card |-> CardHunks(FlatRows(d.parts), 1, c)]
-----------------------------------------------------------------------------
NoDiff == [parts |-> <<>>, coarse |-> FALSE, split |-> FALSE, blocks |-> <<>>, card |-> <<>>]

Init ==
    /\ old \in Texts /\ new = old /\ ranges = {} /\ context \in Contexts
    /\ diff = NoDiff

\* An insertion keeps the line it stands after; replacedOriginalRanges leaves it out.
Spliced(lines, hs) ==
    FoldRight(LAMBDA h, ls : SubSeq(ls, 1, IF h.ins THEN h.from ELSE h.from - 1) \o h.new
                               \o SubSeq(ls, h.to + 1, Len(ls)), hs, lines)
Replaced(hs) == UNION {h.from..h.to : h \in {g \in ToSet(hs) : ~g.ins}}

Edit ==
    \E hs \in Edits :
      /\ diff = NoDiff
      /\ Last(hs).to <= Len(old.lines)
      /\ new' = [old EXCEPT !.lines = Spliced(@, hs)]
      /\ ranges' = Replaced(hs)

\* write and undo: the whole text, no hunks.
Overwrite ==
    \E t \in Texts :
      /\ diff = NoDiff
      /\ new' = t
      /\ UNCHANGED ranges

\* Either way the answer shows the diff of the two texts.
Next ==
    /\ Edit \/ Overwrite
    /\ GenDiff(old, new', ranges', context)
    /\ UNCHANGED <<old, context>>
Spec == Init /\ [][Next]_vars
-----------------------------------------------------------------------------
Shown == diff # NoDiff
Kept(kinds) == FlattenSeq([n \in DOMAIN diff.parts |->
                   IF diff.parts[n].kind \in kinds THEN diff.parts[n].units ELSE <<>>])
AllRows == FlattenSeq([n \in DOMAIN diff.blocks |-> diff.blocks[n].rows])
LinesOf(rows) == [k \in DOMAIN rows |-> rows[k].line]

\* The reference: the length of the longest common subsequence.
RECURSIVE Common(_, _)
Common(a, b) ==
    IF a = <<>> \/ b = <<>> THEN 0
    ELSE IF a[1] = b[1] THEN 1 + Common(Tail(a), Tail(b))
    ELSE Max({Common(Tail(a), b), Common(a, Tail(b))})

\* The line diff leads from one text to the other, however it was found; when one search
\* was enough it keeps as many lines as can be kept and lists removals before additions.
DiffLeadsOver ==
    Shown =>
      /\ Kept({Equal, Removed}) = Units(old)
      /\ Kept({Equal, Added}) = Units(new)
      /\ diff.coarse => diff.split
      /\ ~diff.split =>
           /\ Len(Kept({Equal})) = Common(Units(old), Units(new))
           /\ \A n \in 1..(Len(diff.parts) - 1) :
                <<diff.parts[n].kind, diff.parts[n + 1].kind>> \notin
                   {<<Added, Removed>>, <<Added, Added>>, <<Removed, Removed>>, <<Equal, Equal>>}

\* A row's number is that of a line of its side with its content; every changed line has a
\* row, and unless the search was split no line has two, twins that the hunks name included.
RowsAreLines ==
    Shown =>
      LET of(mark) == SelectSeq(AllRows, LAMBDA r : r.mark = mark)
          numbers(mark) == LET s == of(mark)
                           IN [n \in DOMAIN s |-> IF mark = Removed THEN s[n].old ELSE s[n].new]
      IN /\ \A r \in ToSet(AllRows) : /\ r.mark # Removed => new.lines[r.new] = r.line
                                      /\ r.mark # Added => old.lines[r.old] = r.line
         /\ Len(of(Added)) = Len(Kept({Added})) /\ Len(of(Removed)) = Len(Kept({Removed}))
         /\ IsInjective(numbers(Added)) /\ IsInjective(numbers(Equal))
         /\ ~diff.split => IsInjective(numbers(Removed))

\* A header's ranges are those of its rows, on both sides: "a wrong range sends the
\* model's next edit to the wrong place" (edit-diff.ts:114).
HeadersTrue ==
    \A n \in DOMAIN diff.blocks :
       LET b == diff.blocks[n]
           covers(lines, start, rows) ==
              /\ start + Len(rows) - 1 <= Len(lines)
              /\ LinesOf(rows) = SubSeq(lines, start, start + Len(rows) - 1)
       IN /\ covers(old.lines, b.oldStart, OldSide(b.rows)) /\ b.oldCount = Len(OldSide(b.rows))
          /\ covers(new.lines, b.newStart, NewSide(b.rows)) /\ b.newCount = Len(NewSide(b.rows))

\* With some context, blocks do not touch, their headers are true where no removed row is
\* named after a hunk's line in front of the text's first context, and the card, which
\* groups the rows a second time, shows the same hunks.
BlocksAgree ==
    Shown /\ context > 0 =>
      /\ ranges = {} \/ ~old.open => HeadersTrue
      /\ \A n \in 1..(Len(diff.blocks) - 1) :
            diff.blocks[n].newStart + diff.blocks[n].newCount < diff.blocks[n + 1].newStart
      /\ diff.card = [n \in DOMAIN diff.blocks |-> [old |-> LinesOf(OldSide(diff.blocks[n].rows)),
                                                    new |-> LinesOf(NewSide(diff.blocks[n].rows))]]
=============================================================================
