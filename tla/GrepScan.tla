------------------------------ MODULE GrepScan ------------------------------
\* The grep tool (tools/tool-grep.ts over grep-rg.ts and grep-search.ts): ripgrep's
\* rows become one section per file, each file is identified and its rows anchored,
\* the response budget admits sections or the head of one, and the rest is spilled
\* with the files' versions for the continuation.  A file changes by moving on to its
\* next text; an anchor stands for the fingerprint it was served with.
EXTENDS Integers, Sequences, FiniteSets, SequencesExt, FiniteSetsExt

CONSTANTS File,
          Texts,        \* the texts a file goes through, as sequences of lines
          Hit,          \* the lines the pattern matches
          Preview,      \* the lines ripgrep cuts
          Garbled,      \* those it cannot decode
          Ignored,      \* the files an ignore file above the path hides
          Chars,        \* a line's length
          PointerChars, \* that of the pointer a line over the budget is replaced by
          Context, Limit, Budget,
          Allowance,    \* ROW_MARKER_ALLOWANCE
          Known,        \* the files the anchor store may hold rows of at the start
          Races,        \* whether files change while a call runs
          Steps         \* what may go wrong: "vanish", "fail"

VARIABLES at,       \* which of its texts a file has; 0 when it is gone
          rowsOf,   \* the text the store's anchor rows of a file were written for, or 0
          seen,     \* the version a call observed of a file, or 0
          scan,     \* the call: its sections and its place in them
          answer,   \* the rows the call has shown so far
          earlier,  \* those the calls before it have shown
          more      \* the spill its token leads to

vars == <<at, rowsOf, seen, scan, answer, earlier, more>>

Text(f) == IF at[f] = 0 THEN <<>> ELSE Texts[f][at[f]]
Idle == [pc |-> "idle", sections |-> <<>>, used |-> 0, spilling |-> FALSE,
         id |-> 0, marks |-> [l \in {} |-> 0], spill |-> <<>>, stamps |-> [f \in {} |-> 0]]
NoMore == [rows |-> <<>>, stamps |-> [f \in {} |-> 0]]

Init ==
    /\ at = [f \in File |-> 1]
    /\ rowsOf \in [File -> {0, 1}] /\ \A f \in File \ Known : rowsOf[f] = 0
    /\ seen = [f \in File |-> 0]
    /\ scan = Idle /\ answer = <<>> /\ earlier = <<>> /\ more = NoMore
-----------------------------------------------------------------------------
\* sectionsFromRows: what is shown of a text, hits past the cap as context.  A line that
\* was cut or could not be decoded, and one too large for the budget, is shown as another
\* text: a preview of it, or a pointer to it.
InPlaceOf(l) == -l
Near(t, hits) == {i \in DOMAIN t : \E j \in hits : i - j \in -Context..Context}
Row(f, t, i, last) ==
    LET big == Chars[t[i]] + Allowance > Budget
        plain == big \/ t[i] \in Preview \cup Garbled IN
    [file |-> f, line |-> i, text |-> (IF plain THEN InPlaceOf(t[i]) ELSE t[i]),
     hit |-> t[i] \in Hit /\ i <= last,
     size |-> (IF big THEN PointerChars ELSE Chars[t[i]]), plain |-> plain, mark |-> 0]

Section(f, t) ==
    LET hits == {i \in DOMAIN t : t[i] \in Hit}
        cut == Cardinality(hits) > Limit
        last == IF cut THEN CHOOSE i \in hits : Cardinality({j \in hits : j <= i}) = Limit
                ELSE Max(hits)
        show == {i \in Near(t, hits) : cut => i <= last + Context}
    IN [n \in 1..Cardinality(show) |-> Row(f, t, SetToSortSeq(show, <)[n], last)]

HasHit(f) == \E i \in DOMAIN Text(f) : Text(f)[i] \in Hit
Found(fs) == {f \in fs : HasHit(f)}

\* The search honours the ignore files, and is made once more without those above the
\* path when it found nothing.
Walked == IF Found(File \ Ignored) # {} THEN Found(File \ Ignored) ELSE Found(File)

Cost(r) == r.size + Allowance
Sum(rs) == FoldLeft(LAMBDA a, r : a + Cost(r), 0, rs)

\* takeRowsStrictlyWithinBudget, and takeRowsWithinBudget, which takes a first row
\* whatever it costs.
Strictly(rs, room) == Max({n \in 0..Len(rs) : Sum(SubSeq(rs, 1, n)) <= room})
AtLeastOne(rs, room) == IF rs = <<>> THEN 0 ELSE Max({1, Strictly(rs, room)})

\* What a section costs whole: its lines joined by newlines, and an allowance each and
\* one for its header.
SectionCost(rs) == Sum(rs) + Len(rs) - 1 + Allowance

\* Mutant of Split: the row that did not fit is lost.
SplitLosing(rs, room) ==
    LET n == Strictly(rs, room) IN [in |-> SubSeq(rs, 1, n), over |-> SubSeq(rs, n + 2, Len(rs))]

\* The head of a section that does not fit whole; from its first hit on when the head
\* would show context only.
Split(rs, room) ==
    LET n == Strictly(rs, room)
        hits == {i \in DOMAIN rs : rs[i].hit}
        first == Min(hits)
        fromHit == SubSeq(rs, first, Len(rs))
        m == Strictly(fromHit, room)
    IN IF n > 0 /\ first > n /\ m > 0
       THEN [in |-> SubSeq(fromHit, 1, m),
             over |-> SubSeq(rs, 1, first - 1) \o SubSeq(fromHit, m + 1, Len(fromHit))]
       ELSE [in |-> SubSeq(rs, 1, n), over |-> SubSeq(rs, n + 1, Len(rs))]
-----------------------------------------------------------------------------
\* A call of the search: ripgrep runs, or does not.
Search ==
    /\ scan.pc = "idle" /\ more = NoMore /\ answer = <<>>
    /\ \E order \in SetToSeqs(Walked) :
         scan' = [Idle EXCEPT !.pc = IF order = <<>> THEN "ended" ELSE "identify",
                              !.sections = [n \in DOMAIN order |-> Section(order[n], Text(order[n]))]]
    /\ UNCHANGED <<at, rowsOf, seen, answer, earlier, more>>

SearchFails ==
    /\ "fail" \in Steps /\ scan.pc = "idle" /\ more = NoMore /\ answer = <<>>
    /\ scan' = [Idle EXCEPT !.pc = "ended"]
    /\ UNCHANGED <<at, rowsOf, seen, answer, earlier, more>>

Rows == Head(scan.sections)
Now == Rows[1].file
Anchorable == {r \in ToSet(Rows) : ~r.plain}
Leave == [scan EXCEPT !.sections = Tail(@), !.id = 0, !.marks = [l \in {} |-> 0],
                      !.pc = IF Len(scan.sections) = 1 THEN "close" ELSE "identify"]

\* readFileIdentity; a file that cannot be read is skipped.
Identify ==
    /\ scan.pc = "identify"
    /\ scan' = IF at[Now] = 0 THEN Leave
               ELSE [scan EXCEPT !.id = at[Now], !.pc = IF Anchorable = {} THEN "stat" ELSE "anchor"]
    /\ UNCHANGED <<at, rowsOf, seen, answer, earlier, more>>

\* anchorForRowsInWorkspace: an anchor is recorded with the text of the row, unless the
\* store's rows are of another text than the identity's.
Anchor ==
    /\ scan.pc = "anchor"
    /\ IF rowsOf[Now] \in {0, scan.id}
       THEN /\ rowsOf' = [rowsOf EXCEPT ![Now] = scan.id]
            /\ scan' = [scan EXCEPT !.pc = "stat",
                          !.marks = [l \in {r.line : r \in {x \in Anchorable : x.line <= Len(Texts[Now][scan.id])}}
                                       |-> (CHOOSE r \in Anchorable : r.line = l).text]]
       ELSE scan' = [scan EXCEPT !.pc = "realign"] /\ UNCHANGED rowsOf
    /\ UNCHANGED <<at, seen, answer, earlier, more>>

\* [E_ANCHOR_REALIGN]: the file is read, and the same line numbers are anchored in the
\* text it has then.  A file that is gone by now fails the call.
Realign ==
    /\ scan.pc = "realign"
    /\ IF at[Now] = 0
       THEN scan' = [Idle EXCEPT !.pc = "ended"] /\ UNCHANGED rowsOf
       ELSE /\ rowsOf' = [rowsOf EXCEPT ![Now] = at[Now]]
            /\ scan' = [scan EXCEPT !.pc = "stat",
                          !.marks = [l \in {r.line : r \in Anchorable} \cap DOMAIN Text(Now)
                                       |-> Text(Now)[l]]]
    /\ answer' = IF at[Now] = 0 THEN <<>> ELSE answer
    /\ UNCHANGED <<at, seen, earlier, more>>

Marked(rs) ==
    [n \in DOMAIN rs |-> IF ~rs[n].plain /\ rs[n].line \in DOMAIN scan.marks
                         THEN [rs[n] EXCEPT !.mark = scan.marks[rs[n].line]] ELSE rs[n]]
Observed(rs) ==
    IF \E r \in ToSet(rs) : r.mark # 0 THEN [seen EXCEPT ![rs[1].file] = at[rs[1].file]] ELSE seen

\* The section is admitted whole, or what fits of it; the rest is spilled with the
\* version the file has at this moment.
WholeFits == ~scan.spilling /\ scan.used + SectionCost(Rows) <= Budget
Parts ==
    IF scan.spilling THEN [in |-> <<>>, over |-> Rows]
    ELSE Split(Rows, Max({0, Budget - scan.used}))
Stamped(f) ==
    IF f \in DOMAIN scan.stamps THEN scan.stamps
    ELSE [g \in DOMAIN scan.stamps \cup {f} |-> IF g = f THEN at[f] ELSE scan.stamps[g]]

Admit ==
    /\ scan.pc = "stat"
    /\ IF WholeFits
       THEN /\ answer' = answer \o Marked(Rows)
            /\ seen' = Observed(Marked(Rows))
            /\ scan' = [Leave EXCEPT !.used = @ + SectionCost(Rows)]
       ELSE /\ answer' = answer \o Marked(Parts.in)
            /\ seen' = Observed(Marked(Parts.in))
            /\ scan' = [Leave EXCEPT !.used = @ + Sum(Parts.in), !.spilling = TRUE,
                                     !.spill = @ \o Parts.over, !.stamps = Stamped(Now)]
    /\ UNCHANGED <<at, rowsOf, earlier, more>>

\* createResume, and the answer goes out.
Close ==
    /\ scan.pc = "close"
    /\ more' = [rows |-> scan.spill, stamps |-> scan.stamps]
    /\ scan' = [Idle EXCEPT !.pc = "ended", !.used = scan.used]
    /\ UNCHANGED <<at, rowsOf, seen, answer, earlier>>
-----------------------------------------------------------------------------
\* A call with the token: the head of the spill, one group of rows per file.
Grouped(rs) ==
    FoldLeft(LAMBDA gs, r : IF gs # <<>> /\ Last(gs)[1].file = r.file
                            THEN Front(gs) \o <<Append(Last(gs), r)>>
                            ELSE Append(gs, <<r>>), <<>>, rs)

Resume ==
    /\ scan.pc = "ended" /\ more.rows # <<>>
    /\ LET n == AtLeastOne(more.rows, Budget)
           take == SubSeq(more.rows, 1, n) IN
         scan' = [Idle EXCEPT !.pc = "stamp", !.sections = Grouped(take),
                              !.spill = SubSeq(more.rows, n + 1, Len(more.rows)),
                              !.stamps = more.stamps, !.used = Sum(take)]
    /\ earlier' = earlier \o answer
    /\ answer' = <<>>
    /\ more' = NoMore
    /\ UNCHANGED <<at, rowsOf, seen>>

\* Mutant of Unchanged: the stamp is not looked at.
NotLookedAt(f) == TRUE

\* The file's version against its stamp; a file of which there is none passes.
Unchanged(f) == at[f] \in {0, scan.stamps[f]}
Stamp ==
    /\ scan.pc = "stamp"
    /\ scan' = [scan EXCEPT !.pc = IF Unchanged(Now) THEN "reread" ELSE "shown",
                            !.id = 0]
    /\ UNCHANGED <<at, rowsOf, seen, answer, earlier, more>>

\* The text is read; what cannot be read counts as changed, and one that cannot be
\* decoded gets no anchors.
Lossy(t) == ToSet(t) \cap Garbled # {}
Reread ==
    /\ scan.pc = "reread"
    /\ scan' = [scan EXCEPT !.pc = IF at[Now] = 0 \/ Lossy(Text(Now)) THEN "shown" ELSE "mint",
                            !.id = at[Now]]
    /\ UNCHANGED <<at, rowsOf, seen, answer, earlier, more>>

\* The rows' lines are anchored in the text just read, those of previews and pointers
\* too, and the rows are shown as they were spilled.
Mint ==
    /\ scan.pc = "mint"
    /\ rowsOf' = [rowsOf EXCEPT ![Now] = scan.id]
    /\ scan' = [scan EXCEPT !.pc = "shown",
                  !.marks = [l \in {r.line : r \in ToSet(Rows)} \cap DOMAIN Texts[Now][scan.id]
                               |-> Texts[Now][scan.id][l]]]
    /\ UNCHANGED <<at, seen, answer, earlier, more>>

Resumed(rs) ==
    [n \in DOMAIN rs |-> IF rs[n].line \in DOMAIN scan.marks
                         THEN [rs[n] EXCEPT !.mark = scan.marks[rs[n].line]] ELSE rs[n]]
Show ==
    /\ scan.pc = "shown"
    /\ answer' = answer \o Resumed(Rows)
    /\ seen' = IF scan.id # 0 /\ Lossy(Texts[Now][scan.id])
               THEN [seen EXCEPT ![Now] = at[Now]] ELSE Observed(Resumed(Rows))
    /\ scan' = [Leave EXCEPT !.pc = IF Len(scan.sections) = 1 THEN "close" ELSE "stamp"]
    /\ UNCHANGED <<at, rowsOf, earlier, more>>

\* Another search, by which time the answers of the first are history.
Again ==
    /\ scan.pc = "ended" /\ more.rows = <<>> /\ earlier \o answer # <<>>
    /\ scan' = Idle /\ answer' = <<>> /\ earlier' = <<>> /\ more' = NoMore
    /\ UNCHANGED <<at, rowsOf, seen>>

Quiet == scan.pc \in {"idle", "ended"}
Change(f) ==
    /\ Races \/ Quiet
    /\ at[f] # 0 /\ at[f] < Len(Texts[f])
    /\ at' = [at EXCEPT ![f] = @ + 1]
    /\ UNCHANGED <<rowsOf, seen, scan, answer, earlier, more>>
Vanish(f) ==
    /\ "vanish" \in Steps /\ at[f] # 0
    /\ at' = [at EXCEPT ![f] = 0]
    /\ UNCHANGED <<rowsOf, seen, scan, answer, earlier, more>>

Work == Identify \/ Anchor \/ Realign \/ Admit \/ Close \/ Stamp \/ Reread \/ Mint \/ Show
Next ==
    \/ Search \/ SearchFails \/ Resume \/ Again \/ Work
    \/ \E f \in File : Change(f) \/ Vanish(f)

Spec == Init /\ [][Next]_vars /\ WF_vars(Work) /\ WF_vars(Resume)
-----------------------------------------------------------------------------
TypeOK ==
    /\ at \in [File -> Nat] /\ rowsOf \in [File -> Nat] /\ seen \in [File -> Nat]
    /\ scan.pc \in {"idle", "identify", "anchor", "realign", "stat", "close", "stamp", "reread",
                    "mint", "shown", "ended"}
    /\ \A r \in ToSet(answer \o earlier \o more.rows) : r.file \in File /\ r.line \in Nat \ {0}

Places(rs) == {<<r.file, r.line>> : r \in ToSet(rs)}
AllRows == earlier \o answer \o scan.spill \o more.rows \o FlattenSeq(scan.sections)

\* A row is in one place: shown, spilled or still to come.
RowsOnce == Cardinality(Places(AllRows)) = Len(AllRows)

\* No hit is dropped on the way: a file with a row in the answers has its hits, those up
\* to the cap, shown or waiting.
HitsKeptStep ==
    \A r \in ToSet(AllRows) :
       \/ r.hit => <<r.file, r.line>> \in Places(AllRows')
       \/ scan'.pc \in {"idle", "ended"} /\ AllRows' = <<>>
       \/ at[r.file] = 0 /\ scan.pc = "identify"

\* The first answer keeps to the budget, and so does a continuation of more than one row.
WithinBudget == scan.used <= Budget \/ (scan.pc # "stat" /\ Len(answer \o FlattenSeq(scan.sections)) = 1)

\* Of a section that is cut, the answer shows a hit or nothing, unless the budget left
\* holds no hit.
HitBeforeContext ==
    scan.pc = "stat" /\ ~WholeFits /\ Parts.in # <<>> /\ (\A r \in ToSet(Parts.in) : ~r.hit)
       => \A r \in ToSet(Rows) : r.hit => Cost(r) > Budget - scan.used

\* The served record holds the text the model was shown: a line's anchor is recorded with
\* the text it is shown with.
ServedAsShown == \A r \in ToSet(answer) : ~r.plain => r.mark \in {0, r.text}

\* "A row whose text was cut or undecodable is shown but marked NOT anchorable": nothing
\* is recorded for a row that shows something else in place of its line.  A continuation
\* has lost the mark and gives such a row the line's anchor; this is about first answers.
PreviewsNotAnchored == earlier = <<>> => \A r \in ToSet(answer) : r.plain => r.mark = 0
=============================================================================
