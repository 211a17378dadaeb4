----------------------------- MODULE ReadPages -----------------------------
\* A file read page by page (tools/tool-read.ts over file-view.ts), and the report
\* of another tool whose tail waits in a spill (infra/response-stream.ts).  A page is
\* cut by the response budget, by the caller's limit or by the end of the file, and
\* its closing sentence says how to go on: with a resume token, from an anchor, or
\* from a line.  A text is a sequence of distinct lines, so a line stands for its own
\* anchor; which anchor a line has is AnchorRows' matter.
EXTENDS Integers, Sequences, FiniteSets, SequencesExt, FiniteSetsExt

CONSTANTS Line, Chars,      \* the lines there are, and their lengths
          TextSet,          \* the texts the file may have
          Limits,           \* limits a reader may give; 0 is none
          Budget,           \* the response budget, in characters
          RowMax,           \* MAX_READ_LINE_BYTES: a longer row is shown as a pointer
          Segment,          \* RESUME_WINDOW_LINES: rows of a report one read returns
          Report,           \* lengths of reports, in rows
          Reader,           \* reads of a report that may overlap
          Event,            \* what may go on: "change", "lossy", "expire", "preview"
          MaxChanges, MaxTokens

Token == 1..MaxTokens
None == 0

VARIABLES text, lossy,  \* the file, and whether its bytes do not decode
          changes,
          token,        \* resume tokens: a file window's next line, or a report's cursor
          walk,         \* the pages a reader has followed, and what the last one said
          reader,       \* a read of a report between its awaits
          given         \* rows of each report that were returned

vars == <<text, lossy, changes, token, walk, reader, given>>

Unused == [kind |-> "none", next |-> None, total |-> 0, cursor |-> 0, old |-> FALSE]
Closed == [open |-> FALSE, stable |-> TRUE, from |-> None, end |-> None,
           shown |-> {}, again |-> {}, by |-> "none", tok |-> None, at |-> None]
AtRest == [pc |-> "none", token |-> None, from |-> 0, upto |-> 0, done |-> FALSE]

Init ==
    /\ text \in TextSet
    /\ lossy \in IF "lossy" \in Event THEN BOOLEAN ELSE {FALSE}
    /\ changes = 0
    /\ token = [k \in Token |-> Unused]
    /\ walk = Closed
    /\ reader = [r \in Reader |-> AtRest]
    /\ given = [k \in Token |-> {}]
-----------------------------------------------------------------------------
\* The pages.

\* What a row costs: its characters, and the allowance for its marker.
Cost(l) == Chars[l] + 1
Huge(l) == Chars[l] > RowMax

\* Whole lines while the budget lasts, the first one always.
Fit(ls) ==
    Max({0} \cup {n \in 1..Len(ls) :
            n = 1 \/ FoldLeft(LAMBDA a, l : a + Cost(l), 0, SubSeq(ls, 1, n)) <= Budget})

\* Mutant of After: a line is passed over.
AfterNext(last) == last + 2

\* Mutant of After: the last line is shown again.
Repeated(last) == last

After(last) == last + 1

\* fmtReadPreview and renderUnserved: the lines from `off`, cut by limit and budget.
\* Huge lines are shown as pointers and not served; of a lossy file nothing is.
Window(t, off, limit) ==
    LET to == IF limit = 0 THEN Len(t) ELSE Min({off - 1 + limit, Len(t)})
        n == Fit(SubSeq(t, off, to))
        last == off + n - 1
        served == IF lossy THEN {} ELSE {i \in off..last : ~Huge(t[i])}
    IN [start |-> off, last |-> last, served |-> served,
        next |-> IF n < to - off + 1 THEN After(last) ELSE None,
        shownEnd |-> IF lossy THEN last ELSE Max({None} \cup served)]

\* assembleServedRead: the one closing sentence.  A page with nothing served has no
\* window to speak of, and so no sentence, though its token is made all the same.
Sentence(t, w) ==
    IF w.shownEnd = None THEN "silent"
    ELSE IF w.next # None THEN "token"
    ELSE IF w.shownEnd >= Len(t) THEN "end"
    ELSE IF lossy THEN "line" ELSE "anchor"

\* The write tool's own tail of its preview, which has the token in every case but
\* that of a lossy file.
PreviewSentence(t, w) ==
    IF w.next = None THEN "end" ELSE IF lossy THEN "silent" ELSE "token"

\* The names left for new tokens: those never given, and those of pages nobody is at.
Free == {k \in Token : token[k].kind = "none" \/ (token[k].kind = "window" /\ k # walk.tok)}

\* sweepLazy, at the head of createResume: tokens out of their lifetime go.
Swept(tk) == [k \in Token |-> IF tk[k].old THEN [tk[k] EXCEPT !.kind = "gone"] ELSE tk[k]]
Created(tk, k, record) == [Swept(tk) EXCEPT ![k] = record]

\* The page's token, made before its sentence is put together.
Makes(w) ==
    IF w.next = None THEN token' = token
    ELSE token' = Created(token, Min(Free), [Unused EXCEPT !.kind = "window", !.next = w.next])

\* A page is answered: what the walk has seen so far, and where it is told to go on.
Answer(w, by, begun) ==
    walk' = [open |-> by \in {"token", "anchor", "line"},
             stable |-> begun \/ walk.stable,
             from |-> IF begun THEN w.start ELSE walk.from,
             end |-> w.last,
             shown |-> {text[i] : i \in w.start..w.last} \cup IF begun THEN {} ELSE walk.shown,
             again |-> IF begun \/ walk.by # "token" THEN {}
                       ELSE {text[i] : i \in w.start..w.last} \cap walk.shown,
             by |-> by,
             tok |-> IF by = "token" THEN Min(Free) ELSE None,
             at |-> CASE by = "anchor" -> text[w.shownEnd]
                      [] by = "line" -> w.shownEnd
                      [] OTHER -> None]

\* A page that shows nothing: an empty file, or a start beyond the end.
AnswerNone(begun) ==
    /\ walk' = [(IF begun THEN Closed ELSE walk) EXCEPT !.open = FALSE, !.by = "none", !.again = {}]
    /\ token' = token

Page(off, limit, begun) ==
    IF text = <<>> \/ off > Len(text) THEN AnswerNone(begun)
    ELSE LET w == Window(text, off, limit) IN
         /\ w.next # None => Free # {}
         /\ Makes(w)
         /\ Answer(w, Sentence(text, w), begun)

\* read with cursors of its own, which begins a walk.
Read(off, limit) ==
    /\ Page(off, limit, TRUE)
    /\ UNCHANGED <<text, lossy, changes, reader, given>>

\* The write tool shows the file it has written the same way.
Preview ==
    /\ "preview" \in Event /\ text # <<>>
    /\ LET w == Window(text, 1, 0) IN
         /\ w.next # None => Free # {}
         /\ IF PreviewSentence(text, w) = "token" THEN Makes(w) ELSE token' = token
         /\ Answer(w, PreviewSentence(text, w), TRUE)
    /\ UNCHANGED <<text, lossy, changes, reader, given>>

\* The reader does as it was told.  loadResume refuses a token that is gone; an anchor
\* is looked up among the lines of today (resolveReadCursors).
GoOn ==
    /\ walk.open
    /\ CASE walk.by = "token" ->
              IF token[walk.tok].kind = "window" THEN Page(token[walk.tok].next, 0, FALSE) ELSE AnswerNone(FALSE)
         [] walk.by = "anchor" ->
              IF \E i \in DOMAIN text : text[i] = walk.at
              THEN Page(CHOOSE i \in DOMAIN text : text[i] = walk.at, 0, FALSE)
              ELSE AnswerNone(FALSE)
         [] walk.by = "line" -> Page(walk.at, 0, FALSE)
    /\ UNCHANGED <<text, lossy, changes, reader, given>>

Change(t) ==
    /\ "change" \in Event /\ changes < MaxChanges /\ t # text
    /\ text' = t
    /\ changes' = changes + 1
    /\ walk' = [walk EXCEPT !.stable = FALSE]
    /\ UNCHANGED <<lossy, token, reader, given>>
-----------------------------------------------------------------------------
\* The reports.

\* spillModelTextOverflow: the rows that did not fit its response.
Spill(n) ==
    /\ Free # {}
    /\ token' = Created(token, Min(Free), [Unused EXCEPT !.kind = "report", !.total = n])
    /\ UNCHANGED <<text, lossy, changes, walk, reader, given>>

\* takeTextContinuation, in its three awaits: the sidecar is loaded,
Load(r, k) ==
    /\ reader[r].pc = "none" /\ token[k].kind = "report"
    /\ reader' = [reader EXCEPT ![r] = [AtRest EXCEPT !.pc = "loaded", !.token = k,
                                                      !.from = token[k].cursor]]
    /\ UNCHANGED <<text, lossy, changes, token, walk, given>>

\* the rows are read from its cursor on,
ReadRows(r) ==
    /\ reader[r].pc = "loaded"
    /\ LET k == reader[r].token IN
         reader' = [reader EXCEPT ![r] =
            IF token[k].kind = "gone" THEN AtRest
            ELSE [@ EXCEPT !.pc = "read", !.upto = Min({reader[r].from + Segment, token[k].total})]]
    /\ UNCHANGED <<text, lossy, changes, token, walk, given>>

\* Mutant of NewCursor: it goes on past the end.
WholeSegment(r) == reader[r].from + Segment

\* and the cursor is put behind them.
NewCursor(r) == reader[r].upto
Advance(r) ==
    /\ reader[r].pc = "read"
    /\ LET k == reader[r].token IN
         IF token[k].kind = "gone"
         THEN /\ reader' = [reader EXCEPT ![r] = AtRest]
              /\ UNCHANGED <<token, given>>
         ELSE /\ token' = [token EXCEPT ![k].cursor = NewCursor(r), ![k].old = FALSE]
              /\ given' = [given EXCEPT ![k] = @ \cup (reader[r].from + 1)..reader[r].upto]
              /\ reader' = [reader EXCEPT ![r] =
                              [AtRest EXCEPT !.token = k, !.done = reader[r].upto >= token[k].total]]
    /\ UNCHANGED <<text, lossy, changes, walk>>

\* The lifetime of a token runs out; the next sweep takes it.
Expire(k) ==
    /\ "expire" \in Event /\ token[k].kind \in {"window", "report"} /\ ~token[k].old
    /\ token' = [token EXCEPT ![k].old = TRUE]
    /\ UNCHANGED <<text, lossy, changes, walk, reader, given>>

Next ==
    \/ \E off \in 1..(Max({Len(t) : t \in TextSet}) + 1), l \in Limits : ~walk.open /\ Read(off, l)
    \/ ~walk.open /\ Preview
    \/ GoOn
    \/ \E t \in TextSet : Change(t)
    \/ \E n \in Report : Spill(n)
    \/ \E r \in Reader, k \in Token : Load(r, k)
    \/ \E r \in Reader : ReadRows(r) \/ Advance(r)
    \/ \E k \in Token : Expire(k)

Spec == Init /\ [][Next]_vars /\ WF_vars(GoOn)
-----------------------------------------------------------------------------
TypeOK ==
    /\ text \in TextSet /\ lossy \in BOOLEAN /\ changes \in 0..MaxChanges
    /\ token \in [Token -> [kind : {"none", "window", "report", "gone"}, next : Nat,
                            total : Nat, cursor : Nat, old : BOOLEAN]]
    /\ \A k \in Token : token[k].cursor <= token[k].total
    /\ walk.by \in {"none", "token", "anchor", "line", "end", "silent"}
    /\ walk.shown \subseteq Line
    /\ \A r \in Reader : reader[r].pc \in {"none", "loaded", "read"}
    /\ given \in [Token -> SUBSET Nat]

\* "End of file" is said only when the walk, over a file that stayed as it was, has
\* shown every line from its first one on.
EndIsTrue ==
    walk.by = "end" /\ walk.stable => {text[i] : i \in walk.from..Len(text)} \subseteq walk.shown

\* A page that a token leads to shows nothing its walk has shown before.
TokensGoForward == walk.stable => walk.again = {}

\* A walk over a file that stays as it is stops short of its end only at a page that
\* shows one huge line, which is answered without a sentence.
StopsShortAtHuge ==
    walk.stable /\ walk.by = "silent" => lossy \/ Huge(text[walk.end])

\* No row of a report is passed over: what lies before the cursor has been returned.
NothingPassedOver == \A k \in Token : 1..token[k].cursor \subseteq given[k]

\* "End of continued report" is said only when all of it has been returned.
DoneIsTrue ==
    \A r \in Reader : reader[r].done => given[reader[r].token] = 1..token[reader[r].token].total

\* With one reader no row of a report is returned a second time.
GivenOnce == \A r \in Reader : reader[r].pc = "read" => (reader[r].from + 1)..reader[r].upto \cap given[reader[r].token] = {}
=============================================================================
