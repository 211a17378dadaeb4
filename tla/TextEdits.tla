----------------------------- MODULE TextEdits -----------------------------
\* The text between an edit and its formatter: the ranges the formatter is asked for
\* (domain/format/auto-format.ts), its edits applied (lsp/format/text-edits.ts), and the
\* lines the result is said to come from, to have changed and to be known to the model
\* (provenance.ts, format-section.ts, eligibility.ts).  A text is a sequence of
\* characters, Newline one of them; lines are counted from 1, characters from 0.
EXTENDS Integers, Sequences, FiniteSets, SequencesExt, FiniteSetsExt

CONSTANTS Newline,
          Docs,      \* texts an edit has left
          Changes,   \* sets of hunks [from, to, count]: an edit's lines, and how many it put there
          Answers    \* the edits a server may answer with, as sequences

VARIABLES doc, hunks,   \* the edit's text, and its hunks, of the text it was made to
          served,       \* the lines of that text the session was shown
          asked,        \* the ranges the formatter is asked for
          edits,        \* its answer
          formatted     \* what became of it

vars == <<doc, hunks, served, asked, edits, formatted>>

\* Where each line starts; a text that ends with a newline has one empty line more
\* for the server than it has for a reader.
Starts(t) == <<0>> \o SelectSeq([i \in DOMAIN t |-> i], LAMBDA i : t[i] = Newline)
LengthOf(t, l) == (IF l = Len(Starts(t)) THEN Len(t) ELSE Starts(t)[l + 1] - 1) - Starts(t)[l]
LineCount(t) == IF t # <<>> /\ Last(t) = Newline THEN Len(Starts(t)) - 1 ELSE Len(Starts(t))

\* resolveOffset: a character past the end of its line is its end.
Offset(t, p) == Starts(t)[p[1]] + Min({p[2], LengthOf(t, p[1])})
From(t, e) == Offset(t, e.from)
To(t, e) == Offset(t, e.to)

\* Array.prototype.sort is stable: equal keys keep the answer's order.
InOrder(es, before(_, _)) ==
    LET lt(i, j) == before(es[i], es[j]) \/ (~before(es[j], es[i]) /\ i < j)
        order == SortSeq([i \in DOMAIN es |-> i], lt)
    IN [n \in DOMAIN es |-> es[order[n]]]
ByOffset(t, es) ==
    InOrder(es, LAMBDA d, e : From(t, d) < From(t, e) \/ (From(t, d) = From(t, e) /\ To(t, d) < To(t, e)))
ByPosition(es) ==
    InOrder(es, LAMBDA d, e : d.from[1] < e.from[1] \/ (d.from[1] = e.from[1] /\ d.from[2] < e.from[2]))

\* A malformed answer: a line outside the text, an edit that ends before it starts,
\* edits that overlap.
Refused(t, es) ==
    \/ \E e \in ToSet(es) : {e.from[1], e.to[1]} \cap DOMAIN Starts(t) # {e.from[1], e.to[1]}
    \/ \E e \in ToSet(es) : To(t, e) < From(t, e)
    \/ LET s == ByOffset(t, es) IN
         \E i \in 2..Len(s) : From(t, s[i]) < To(t, s[i - 1])

\* applyTextEdits, back to front.
Replace(r, t, e) == SubSeq(r, 1, From(t, e)) \o e.new \o SubSeq(r, To(t, e) + 1, Len(r))
Applied(t, es) == FoldRight(LAMBDA e, r : Replace(r, t, e), ByOffset(t, es), t)

\* Mutant of NextLine: an edit that ends at a line's start is taken to have consumed it.
LineBelow(e) == e.to[1] + 1

NextLine(e) == IF e.to[2] > 0 THEN e.to[1] + 1 ELSE e.to[1]

\* lineMapFromTextEdits: for each line of the result the lines it is taken to come from.
Produced(new) == IF new = <<>> THEN 0 ELSE LineCount(new)
Same(from, to) == [n \in 1..(IF to < from THEN 0 ELSE to - from + 1) |-> {from + n - 1}]
Times(n, set) == [i \in 1..n |-> set]
LineMap(lines, es) ==
    LET step(m, e) ==
          [map |-> m.map \o Same(m.next, e.from[1] - 1)
                         \o Times(Produced(e.new), e.from[1]..e.to[1]),
           next |-> NextLine(e)]
        walk == FoldLeft(step, [map |-> <<>>, next |-> 1], ByPosition(es))
    IN walk.map \o Same(walk.next, lines)

\* composeProvenance; a line without an ancestor has none in the end.
Compose(finalToModel, modelToPre) ==
    [n \in DOMAIN finalToModel |->
        UNION {modelToPre[m] : m \in finalToModel[n] \cap DOMAIN modelToPre}]

\* finalPositions: where a hunk's lines are in the edit's text.
Growth(hs) == FoldSet(LAMBDA h, n : n + h.count - (h.to - h.from + 1), 0, hs)
At(hs, h) == h.from + Growth({g \in hs : g.from < h.from})
Rows(hs, h) == At(hs, h)..(At(hs, h) + h.count - 1)
ModelRows(hs) == UNION {Rows(hs, h) : h \in hs}

\* The batch is applied from the bottom up, and its hunks are listed as they were applied.
AsApplied(hs) == SetToSortSeq(hs, LAMBDA g, h : g.from > h.from)

\* lineMapFromHunks, over the hunks in the order they are listed in.
HunkMap(lines, hs) ==
    LET step(m, h) ==
          [map |-> [n \in Rows(hs, h) |-> h.from..h.to]
                   @@ [n \in {l + m.shift : l \in m.next..(h.from - 1)} |-> {n - m.shift}]
                   @@ m.map,
           next |-> h.to + 1,
           shift |-> m.shift + Growth({h})]
        walk == FoldLeft(step, [map |-> <<>>, next |-> 1, shift |-> 0], AsApplied(hs))
    IN [n \in {l + walk.shift : l \in walk.next..lines} |-> {n - walk.shift}] @@ walk.map

\* formatterChangedLines.
LineOf(t, l) == SubSeq(t, Starts(t)[l] + 1, Starts(t)[l] + LengthOf(t, l))
ChangedLines(t, result, map) ==
    {l \in 1..LineCount(result) :
        \/ l \notin DOMAIN map \/ Cardinality(map[l]) # 1
        \/ LET m == CHOOSE m \in map[l] : TRUE IN
             m > LineCount(t) \/ LineOf(t, m) # LineOf(result, l)}

\* mergeFormatRanges: clamped into the text, and joined where they meet.
Clamp(l, lines) == Min({Max({1, l}), lines})
Merged(ranges, lines) ==
    LET clamped == [n \in DOMAIN ranges |-> [from |-> Clamp(ranges[n].from, lines),
                                             to |-> Clamp(ranges[n].to, lines)]]
        kept == InOrder(SelectSeq(clamped, LAMBDA r : r.from <= r.to),
                        LAMBDA r, s : r.from < s.from)
        join(m, r) == IF m # <<>> /\ r.from <= Last(m).to + 1
                      THEN Front(m) \o <<[Last(m) EXCEPT !.to = Max({@, r.to})]>>
                      ELSE Append(m, r)
    IN FoldLeft(join, <<>>, kept)

\* computeRowEligibility: a line may show its anchor when the model wrote it, or was
\* shown a line it comes from.
Eligible(finalToModel, finalToPre, hs, known) ==
    {n \in DOMAIN finalToModel : \/ finalToModel[n] \cap ModelRows(hs) # {}
                               \/ finalToPre[n] \cap known # {}}
-----------------------------------------------------------------------------
Unasked == [status |-> "unasked", text |-> <<>>, map |-> <<>>, origin |-> <<>>,
            changed |-> {}, anchored |-> {}]
PreLines(t, hs) == LineCount(t) - Growth(hs)

Init ==
    /\ doc \in Docs
    /\ hunks \in {hs \in Changes : /\ ModelRows(hs) \subseteq 1..LineCount(doc)
                                   /\ \A h \in hs : h.to <= PreLines(doc, hs)}
    /\ served \in {{}, {1}}
    /\ asked = <<>> /\ edits = <<>> /\ formatted = Unasked

\* A hunk that only deletes has no line to ask about.
HunkRange(h) == [from |-> At(hunks, h), to |-> At(hunks, h) + h.count - 1]
Asking == SelectSeq([n \in 1..Cardinality(hunks) |-> HunkRange(AsApplied(hunks)[n])],
                    LAMBDA r : r.from <= r.to)
Ask ==
    /\ formatted = Unasked
    /\ asked' = Merged(Asking, LineCount(doc))
    /\ formatted' = [Unasked EXCEPT !.status = "asked"]
    /\ UNCHANGED <<doc, hunks, served, edits>>

\* The answer is applied, or refused as a whole.  A line the formatter did not change
\* keeps its place in the window; one it changed has to be eligible.
Answer(es) ==
    /\ formatted.status = "asked"
    /\ edits' = es
    /\ formatted' =
         IF Refused(doc, es) THEN [Unasked EXCEPT !.status = "skipped"]
         ELSE LET result == Applied(doc, es)
                  map == LineMap(LineCount(doc), es)
                  origin == Compose(map, HunkMap(PreLines(doc, hunks), hunks))
                  changed == ChangedLines(doc, result, map)
              IN [status |-> IF result = doc THEN "noop" ELSE "formatted", text |-> result,
                  map |-> map, origin |-> origin, changed |-> changed,
                  anchored |-> {n \in 1..LineCount(result) :
                                  n \in changed => n \in Eligible(map, origin, hunks, served)}]
    /\ UNCHANGED <<doc, hunks, served, asked>>

Next == Ask \/ \E es \in Answers : Answer(es)
Spec == Init /\ [][Next]_vars
-----------------------------------------------------------------------------
\* What stands between the edits, and the edits' own texts, in order.
Between(s, i) ==
    SubSeq(doc, (IF i = 1 THEN 0 ELSE To(doc, s[i - 1])) + 1,
                IF i > Len(s) THEN Len(doc) ELSE From(doc, s[i]))
InPlace(s) ==
    FoldLeft(LAMBDA r, i : r \o s[i].new \o Between(s, i + 1), Between(s, 1), [i \in DOMAIN s |-> i])

\* An applied answer keeps every character outside its edits and puts each edit's text
\* in its place, two insertions at one place in the order they were given.
EditsInPlace ==
    formatted.status \in {"formatted", "noop"} => formatted.text = InPlace(ByOffset(doc, edits))

\* A line no edit reaches, and where the result has it.
Untouched(l) ==
    \A e \in ToSet(edits) :
        \/ To(doc, e) < Starts(doc)[l]
        \/ From(doc, e) > Starts(doc)[l] + LengthOf(doc, l)
Moved(l) ==
    LET above == SelectSeq(edits, LAMBDA e : To(doc, e) < Starts(doc)[l])
        shift == FoldLeft(LAMBDA n, e : n + Len(e.new) - (To(doc, e) - From(doc, e)), 0, above)
    IN CHOOSE n \in DOMAIN Starts(formatted.text) :
         Starts(formatted.text)[n] = Starts(doc)[l] + shift

\* "A final line no edit touched keeps its identity": the map gives such a line the line
\* it was, and so it does not count as changed.
MapIsExact ==
    formatted.status = "formatted" =>
        \A l \in 1..LineCount(doc) :
            Untouched(l) => /\ Moved(l) \in DOMAIN formatted.map
                            /\ formatted.map[Moved(l)] = {l}
                            /\ Moved(l) \notin formatted.changed

\* And over both steps: what the call did not touch comes from the line it was before the
\* call, and a line of the edit from the lines the edit replaced.
Before(l) ==
    IF \E h \in hunks : l \in Rows(hunks, h)
    THEN LET h == CHOOSE h \in hunks : l \in Rows(hunks, h) IN h.from..h.to
    ELSE {l - Growth({h \in hunks : At(hunks, h) <= l})}
OriginIsExact ==
    formatted.status = "formatted" =>
        \A l \in 1..LineCount(doc) :
            Untouched(l) => Moved(l) \in DOMAIN formatted.origin /\ formatted.origin[Moved(l)] = Before(l)

\* Where the formatter touched only lines the session was neither shown nor wrote, no line
\* it changed shows an anchor.
UnseenHasNoAnchor ==
    /\ formatted.status = "formatted"
    /\ \A l \in 1..LineCount(doc) :
         Untouched(l) \/ (l \notin ModelRows(hunks) /\ Before(l) \cap served = {})
    => formatted.anchored \cap formatted.changed = {}

\* The ranges asked for are the edit's lines, each once, and no two of them meet.
RangesAreTheEdit ==
    formatted.status # "unasked" =>
        /\ UNION {asked[n].from..asked[n].to : n \in DOMAIN asked} = ModelRows(hunks)
        /\ \A n \in 2..Len(asked) : asked[n].from > asked[n - 1].to + 1
=============================================================================
