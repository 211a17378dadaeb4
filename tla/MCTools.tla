------------------------------ MODULE MCTools ------------------------------
\* The tools that answer with pages, rows and formatted texts, for TLC: the format pass and,
\* beside it, the others.  They share no
\* state, so one run explores them side by side: `part` says which of them runs, the
\* others stay as they start.
EXTENDS FormatPass

VARIABLES part,
          text, lossy, changes, token, walk, reader, given,     \* ReadPages
          version, rowsOf, seen, scan, answer, earlier, more,   \* GrepScan
          edited, hunks, served, ranges, edits, formatted,      \* TextEdits
          onDisk, lspServer, lspSeen, lspCall, lspCalls,        \* LspAnswers
          profile, notices, updates, inForce, guidance, written, boots, agents,  \* Surfaces
          original, changed, replaced, context, diff,           \* DiffBlocks
          file, lines, rows, recorded, pool, item, before       \* ItemEdit

\* Lines 1 to 3 are short; four of them, or two with line 4, do not fit a page, and
\* line 5 is huge.  Then the report of another tool, read by two calls, and by one.
LineLength == [l \in 1..5 |-> CASE l = 5 -> 20 [] l = 4 -> 6 [] OTHER -> 2]
PageTexts == {<<1, 2, 3>>, <<1, 5, 2>>, <<2, 4, 3, 1>>, <<>>}
Pages == INSTANCE ReadPages WITH
    Line <- 1..5, Chars <- LineLength, TextSet <- PageTexts,
    Limits <- 0..2, Budget <- 7, RowMax <- 9, Segment <- 2, Report <- {}, Reader <- {},
    Event <- {"change", "lossy", "preview"}, MaxChanges <- 1, MaxTokens <- 3
Reports == INSTANCE ReadPages WITH
    Line <- 1..5, Chars <- LineLength, TextSet <- {<<>>},
    Limits <- {0}, Budget <- 7, RowMax <- 9, Segment <- 2, Report <- {3}, Reader <- {"r1", "r2"},
    Event <- {"expire"}, MaxChanges <- 0, MaxTokens <- 2
Solo == INSTANCE ReadPages WITH
    Line <- 1..5, Chars <- LineLength, TextSet <- {<<>>},
    Limits <- {0}, Budget <- 7, RowMax <- 9, Segment <- 2, Report <- {3, 5}, Reader <- {"r1"},
    Event <- {"expire"}, MaxChanges <- 0, MaxTokens <- 2

\* Line 4 is one ripgrep cuts, line 5 does not fit the budget, line 6 cannot be decoded;
\* file b is ignored.
RowLength == <<2, 2, 4, 3, 20, 2>>
FileTexts == [f \in {"a", "b"} |-> IF f = "a" THEN <<<<1, 2, 1, 3>>, <<2, 3, 1, 2>>>>
                                              ELSE <<<<1, 1, 4, 5>>, <<5, 2, 6>>>>]
Grep == INSTANCE GrepScan WITH
    File <- {"a", "b"}, Chars <- RowLength, Texts <- FileTexts,
    Hit <- {2, 3, 4, 5, 6}, Preview <- {4}, Garbled <- {6}, Ignored <- {"b"}, PointerChars <- 6,
    Context <- 1, Limit <- 2, Budget <- 12, Allowance <- 1, Known <- {"a"}, Races <- FALSE,
    Steps <- {"vanish", "fail"}, at <- version

\* The character 0 is the newline.  Edits of whole lines, two of them, after an edit of
\* one hunk or none; and any one edit, or two within a line, after edits of two hunks.
Places == (1..4) \X {0, 1, 9}
OneEdit == [from : Places, to : Places, new : {<<>>, <<2>>, <<2, 0>>, <<0, 2>>}]
WholeLines == {e \in OneEdit : /\ e.from[2] = 0 /\ e.to[2] = 0 /\ e.to[1] - e.from[1] \in {0, 1}
                               /\ e.new \in {<<>>, <<2, 0>>}}
Inserts == {e \in OneEdit : e.from = e.to /\ e.new \in {<<2>>, <<0, 2>>}}
Hunk == [from : {1, 2}, to : {2, 3}, count : {0, 2}]
TwoWholeLines == {p \in WholeLines \X WholeLines : p[1].from # p[2].from}
NoHunkOrOne == {{}} \cup {{h} : h \in Hunk}
Lines == INSTANCE TextEdits WITH
    Newline <- 0, Docs <- {<<1, 0, 1, 0, 1>>, <<1, 0, 0, 1, 0>>},
    Changes <- NoHunkOrOne, Answers <- TwoWholeLines,
    doc <- edited, asked <- ranges
TwoHunks == {{[from |-> 1, to |-> 1, count |-> n], [from |-> 3, to |-> 3, count |-> 2 - n]} : n \in 0..2}
AnyEdits == {<<e>> : e \in OneEdit} \cup {<<d, e>> : d \in Inserts, e \in Inserts}
Chars == INSTANCE TextEdits WITH
    Newline <- 0, Docs <- {<<>>, <<1, 1, 0, 1>>, <<1, 0, 0, 1, 0>>},
    Changes <- TwoHunks, Answers <- AnyEdits,
    doc <- edited, asked <- ranges

\* The file asked about imports the symbol 1 and names it twice, or defines it; the one
\* that defines it loses a line.  A definition in o has no local path.
Says(kind, name) == [kind |-> kind, name |-> name]
SourceTexts == [f \in {"q", "d", "o"} |->
    CASE f = "q" -> <<<<Says("import", 1), Says("twice", 1), Says("def", 2)>>,
                      <<Says("def", 2), Says("import", 1)>>>>
      [] f = "d" -> <<<<Says("none", 0), Says("def", 1)>>, <<Says("def", 1)>>>>
      [] OTHER   -> <<<<Says("def", 1), Says("use", 2)>>>>]
Lsp == INSTANCE LspAnswers WITH
    File <- {"q", "d", "o"}, Queried <- "q", Opaque <- {"o"}, Texts <- SourceTexts,
    Capable <- {"goToDefinition", "findReferences"}, MaxShown <- 3, MaxAnchored <- 1, Retries <- 1,
    Event <- {"sync", "restart", "vanish", "garbled"}, MaxCalls <- 1,
    disk <- onDisk, server <- lspServer, seen <- lspSeen, call <- lspCall, calls <- lspCalls

\* An agent whose settings change twice; one whose file is seeded while it starts and they
\* change; and one that starts while two processes seed the file.
Flips == INSTANCE Surfaces WITH
    Agent <- {"a"}, Preset <- {"a"}, Boot <- {}, This <- "this", Line <- {"on", "unset"},
    Patch <- {"off", "unset"}, FirstFile <- {"user"}, Event <- {"unreadable", "dispose"},
    MaxUpdates <- 2, setting <- inForce, file <- guidance, boot <- boots, agent <- agents
Guided == INSTANCE Surfaces WITH
    Agent <- {"a"}, Preset <- {"a"}, Boot <- {"this"}, This <- "this", Line <- {"on", "unset"},
    Patch <- {"unset"}, FirstFile <- {"absent", "blank", "broken"}, Event <- {"save"},
    MaxUpdates <- 1, setting <- inForce, file <- guidance, boot <- boots, agent <- agents
Boots == INSTANCE Surfaces WITH
    Agent <- {"a"}, Preset <- {"a"}, Boot <- {"this", "other"}, This <- "this", Line <- {"unset"},
    Patch <- {"unset"}, FirstFile <- {"absent", "blank", "broken", "user"}, Event <- {"save"},
    MaxUpdates <- 0, setting <- inForce, file <- guidance, boot <- boots, agent <- agents

\* Texts of up to four lines, the last one open or not; one hunk or two, or a whole new
\* text; a search may reach two changes far and is split once.
DiffTexts == {[lines |-> l, open |-> FALSE] : l \in UNION {[1..n -> 1..2] : n \in 0..4}}
        \cup {[lines |-> l, open |-> TRUE] : l \in UNION {[1..n -> 1..2] : n \in 1..2}}
DiffHunk == {h \in [from : 1..4, to : 1..4, new : {<<>>, <<3>>, <<1, 2>>}, ins : BOOLEAN] :
                h.from <= h.to /\ (h.ins => h.from = h.to /\ h.new # <<>>)}
ShortHunk == {h \in DiffHunk : h.from = h.to /\ h.new # <<3>>}
DiffEdits == {<<h>> : h \in DiffHunk} \cup {p \in ShortHunk \X ShortHunk : p[1].to < p[2].from}
Diffs == INSTANCE DiffBlocks WITH
    Texts <- DiffTexts, Contexts <- {0, 1}, MaxD <- 2, MaxSplit <- 1,
    Edits <- DiffEdits,
    old <- original, new <- changed, ranges <- replaced

\* References by anchor, with a hint that is right, wrong or out of the text, by number, and
\* an anchor beside a number.  Contents: a line, none, a blank last one, pasted rows, an
\* element of two lines, blanks alone.
Ref(a, d, h) == [anchor |-> a, digit |-> d, hint |-> h]
Bare == {Ref(a, 0, 0) : a \in {1, 2, 4}}
Hinted == {Ref(a, 0, h) : a \in {2, 4}, h \in {1, 9}}
Digits == {Ref(0, d, 0) : d \in {2, 3}}
Alike == Bare \X Bare \cup Digits \X Digits \cup {<<r, r>> : r \in Hinted}
Contents == {<<<<2>>>>, <<<<>>>>, <<<<1>>, <<>>>>, <<<<11, 1>>, <<23, 2>>>>, <<<<1, 0, 2>>>>, <<<<>>, <<>>>>}
ItemOf(op, p, ls) == [op |-> op, from |-> p[1], to |-> p[2], lines |-> ls, claim |-> <<-1>>]
EditItems ==
    {ItemOf("replace", p, ls) : p \in Alike, ls \in Contents}
    \cup {ItemOf(op, p, <<>>) : op \in {"del", "sed"}, p \in Alike}
    \cup {ItemOf("ins", <<r, r>>, ls) : r \in Bare \cup Hinted \cup Digits, ls \in Contents}
    \cup {ItemOf("sed", p, <<>>) : p \in Hinted \X Hinted}
    \cup {[ItemOf("replace", <<r, r>>, <<<<2>>>>) EXCEPT !.claim = c] : r \in Bare, c \in {<<1>>, <<>>}}
    \cup {ItemOf("replace", p, <<<<2>>>>) : p \in Bare \X Digits}
ItemTexts == {<<1, 0, 2, 0>>, <<1, 0, 0, 2>>}
Items == INSTANCE ItemEdit WITH
    Anchor <- 1..9, Texts <- ItemTexts, Items <- EditItems,
    Context <- 1, MaxSteps <- 2,
    text <- file, doc <- lines, at <- rows, served <- recorded, call <- item, steps <- before

pageVars == <<text, lossy, changes, token, walk, reader, given>>
grepVars == <<version, rowsOf, seen, scan, answer, earlier, more>>
editVars == <<edited, hunks, served, ranges, edits, formatted>>
lspVars == <<onDisk, lspServer, lspSeen, lspCall, lspCalls>>
surfaceVars == <<profile, notices, updates, inForce, guidance, written, boots, agents>>
diffVars == <<original, changed, replaced, context, diff>>
itemVars == <<file, lines, rows, recorded, pool, item, before>>
allVars == <<part, pageVars, grepVars, editVars, vars, lspVars, surfaceVars, diffVars, itemVars>>

Tools == {"diffs", "items", "pages", "reports", "solo", "grep", "lines", "chars", "format", "lsp", "flips", "guided", "boots"}

MCInit ==
    /\ part \in Tools
    /\ CASE part = "pages" -> Pages!Init
         [] part = "solo" -> Solo!Init
         [] OTHER -> Reports!Init
    /\ IF part = "grep" THEN Grep!Init ELSE Grep!Init /\ rowsOf["a"] = 0
    /\ CASE part = "lines" -> Lines!Init
         [] part = "chars" -> Chars!Init
         [] OTHER -> /\ edited = <<>> /\ hunks = {} /\ served = {}
                     /\ ranges = <<>> /\ edits = <<>> /\ formatted = Lines!Unasked
    /\ IF part = "format" THEN Init
       ELSE /\ Init /\ setting = [mode |-> "off", fallback |-> FALSE]
            /\ server = [up |-> "none", full |-> FALSE, range |-> FALSE]
    /\ Lsp!Init
    /\ CASE part = "flips" -> Flips!Init
         [] part = "guided" -> Guided!Init
         [] part = "boots" -> Boots!Init
         [] OTHER -> /\ Boots!Init /\ guidance = "user"
    /\ IF part = "diffs" THEN Diffs!Init
       ELSE /\ original = [lines |-> <<>>, open |-> FALSE] /\ changed = original /\ replaced = {}
            /\ context = 0 /\ diff = Diffs!NoDiff
    /\ IF part = "items" THEN Items!Init ELSE Items!Init /\ file = <<1, 0, 0, 2>>

Shown == <<diffVars, itemVars>>
Rest == <<part, vars, lspVars, surfaceVars, Shown>>
PagesRun(p) == part = p /\ UNCHANGED <<Rest, grepVars, editVars>>
EditsRun(p) == part = p /\ UNCHANGED <<Rest, grepVars, pageVars>>
GrepRuns == part = "grep" /\ UNCHANGED <<Rest, pageVars, editVars>>
Calls == <<part, pageVars, grepVars, editVars>>
FormatRuns == part = "format" /\ UNCHANGED <<Calls, lspVars, surfaceVars, Shown>>
LspRuns == part = "lsp" /\ UNCHANGED <<Calls, vars, surfaceVars, Shown>>
SurfacesRun(p) == part = p /\ UNCHANGED <<Calls, vars, lspVars, Shown>>
DiffsRun == part = "diffs" /\ UNCHANGED <<Calls, vars, lspVars, surfaceVars, itemVars>>
ItemsRun == part = "items" /\ UNCHANGED <<Calls, vars, lspVars, surfaceVars, diffVars>>

MCNext ==
    \/ PagesRun("pages") /\ Pages!Next
    \/ PagesRun("reports") /\ Reports!Next
    \/ PagesRun("solo") /\ Solo!Next
    \/ GrepRuns /\ Grep!Next
    \/ EditsRun("lines") /\ Lines!Next
    \/ EditsRun("chars") /\ Chars!Next
    \/ FormatRuns /\ Next
    \/ LspRuns /\ Lsp!Next
    \/ SurfacesRun("flips") /\ Flips!Next
    \/ SurfacesRun("guided") /\ Guided!Next
    \/ SurfacesRun("boots") /\ Boots!Next
    \/ DiffsRun /\ Diffs!Next
    \/ ItemsRun /\ Items!Next

\* A part goes on by itself; the parts exclude each other, so one condition serves all.
GoesOn ==
    \/ PagesRun("pages") /\ Pages!GoOn
    \/ GrepRuns /\ Grep!Work
    \/ FormatRuns /\ Runs
    \/ LspRuns /\ Lsp!Runs
    \/ SurfacesRun("flips") /\ Flips!Progress("a")
MCFairness == WF_allVars(GoesOn) /\ WF_allVars(GrepRuns /\ Grep!Resume)

MCSpec == MCInit /\ [][MCNext]_allVars /\ MCFairness
-----------------------------------------------------------------------------
\* The parts' type invariants.
PartsTypeOK ==
    /\ part = "pages" => Pages!TypeOK
    /\ part = "reports" => Reports!TypeOK
    /\ part = "solo" => Solo!TypeOK
    /\ Grep!TypeOK /\ TypeOK /\ Lsp!TypeOK /\ Flips!TypeOK
    /\ part = "items" => Items!TypeOK

\* Read: "end of file" is said when all of it was shown and no page repeats another; of a
\* report no row is passed over, whoever reads it, and none is given to one reader twice.
ReadsTellTheTruth ==
    /\ part = "pages" => Pages!EndIsTrue /\ Pages!TokensGoForward /\ Pages!StopsShortAtHuge
    /\ part = "reports" => Reports!NothingPassedOver /\ Reports!DoneIsTrue
    /\ part = "solo" => Solo!NothingPassedOver /\ Solo!DoneIsTrue /\ Solo!GivenOnce

\* Search: a row is shown once or waits, within the budget, hits before their context, and
\* with no file changed during the call the anchor of a line that is shown as it is is
\* recorded with that text; in a first answer a row that shows a preview or a pointer has
\* no anchor.
\* lsp: an anchor shown is one recorded, whatever happened to the files meanwhile, no
\* location is dropped or misplaced, what is said of a line stands beside that line, and an
\* import clause is no definition while there is time to ask again.  A diff: it leads from
\* one text to the other with as few changes as one search finds, its rows are lines of
\* their side, one each, twins that the hunks name included, its headers cover its rows,
\* and the card groups them alike.
AnswersShowWhatTheyServe ==
    /\ part = "grep" => /\ Grep!RowsOnce /\ Grep!WithinBudget /\ Grep!HitBeforeContext
                        /\ Grep!ServedAsShown /\ Grep!PreviewsNotAnchored
    /\ part = "lsp" => /\ Lsp!RowsAreServed /\ Lsp!LocationsKept /\ Lsp!ToldOfItsText
                       /\ Lsp!DefinitionsAreReal
    /\ part = "diffs" => /\ Diffs!DiffLeadsOver /\ Diffs!RowsAreLines /\ Diffs!BlocksAgree

\* An item: only lines served as they are get replaced, by exactly what was written for
\* them, whatever the spelling of the references and the end of the file; an insertion
\* keeps its line, literal content stays, and what a refusal offers the next edit takes.
ItemsLandAsAsked ==
    part = "items" => /\ Items!OnlyServed /\ Items!SpliceExact /\ Items!InsertKeepsItsLine
                      /\ Items!LiteralsKept /\ Items!OffersHold /\ Items!LinesArrive

\* Formatter's answer: it is asked about the edit's lines and nothing else, its edits go
\* where they were meant, and with edits of whole lines every line that was not touched
\* is known for what it was before the call, and no unseen line gets an anchor.
EditsKeepOrigins ==
    /\ part \in {"lines", "chars"} => Lines!EditsInPlace /\ Lines!RangesAreTheEdit
    /\ part = "lines" => Lines!MapIsExact /\ Lines!OriginIsExact /\ Lines!UnseenHasNoAnchor

\* Settings: an agent always has one edit tool, and when nothing is under way its tools
\* and their sections are those of the profile, once each.
SurfacesFollow ==
    /\ part = "flips" => /\ Flips!OneEditTool /\ Flips!ToolsFollowProfile
                         /\ Flips!SectionsFollowProfile
    /\ part = "guided" => /\ Guided!OneEditTool /\ Guided!ToolsFollowProfile
                          /\ Guided!SectionsFollowProfile

\* Search: no hit is dropped between ripgrep and the answers.  Guidance: no seeding
\* replaces a text of the user's that was there when it looked.
NothingLost ==
    [][/\ part = "grep" => Grep!HitsKeptStep
       /\ part = "guided" => Guided!UserTextKeptStep
       /\ part = "boots" => Boots!UserTextKeptStep]_allVars

\* A reader who follows the closing sentences, or the tokens of a search, comes to the end,
\* and a call that formats or asks a server ends, whatever the server answers.  An agent's
\* start is answered and its rebuilds end, disposed or not.
ToolsEnd ==
    (\/ part = "pages" /\ walk.open
     \/ part = "grep" /\ more.rows # <<>>
     \/ part = "format" /\ call.pc # "idle"
     \/ part = "lsp" /\ lspCall.pc = "read"
     \/ part = "flips" /\ (agents["a"].held \/ agents["a"].queue > 0))
    ~> (\/ part = "pages" /\ ~walk.open
        \/ part = "grep" /\ (scan.pc = "idle" \/ (scan.pc = "ended" /\ more.rows = <<>>))
        \/ part = "format" /\ call.pc = "ended"
        \/ part = "lsp" /\ lspCall.pc = "ended"
        \/ part = "flips" /\ ~agents["a"].held /\ agents["a"].queue = 0)
=============================================================================
