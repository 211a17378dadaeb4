----------------------------- MODULE LspAnswers -----------------------------
\* The lsp tool (tools/tool-lsp.ts): symbols, diagnostics and navigation.  A call waits for
\* a session, reads and syncs its file and asks; a navigation answer is arranged by file
\* (render/lsp-locations.ts), and each file is read again and anchored.  Files, the
\* server's copy and index and other calls' syncs change at every await.
EXTENDS Naturals, FiniteSets, Sequences, SequencesExt, FiniteSetsExt

CONSTANTS File, Queried,     \* the files, and the one asked about
          Opaque,            \* targets whose URI names no local path
          Texts,             \* per file its versions, each a sequence of [kind, name]
          Capable,           \* the operations the server advertises
          MaxShown,          \* DEFAULT_MAX_LOCATIONS
          MaxAnchored,       \* MAX_ANCHORED_FILES
          Retries,           \* COLD_RETRY_BUDGET_MS by SHALLOW_RETRY_DELAY_MS
          Event,             \* which of "sync", "restart", "vanish", "garbled"
          MaxCalls           \* bound

VARIABLES disk,      \* per file its version, 0 for one that is gone
          server,    \* the session of the slot: its number, its copy, its index, loading or not
          seen,      \* the served record: [file, line, text]
          call,
          calls      \* calls made

vars == <<disk, server, seen, call, calls>>

Nothing == [kind |-> "none", name |-> 0]
Idle == [pc |-> "idle", op |-> "none", name |-> 0, sid |-> 0, text |-> 0, copy |-> 0, of |-> 0,
         left |-> 0, locs |-> <<>>, groups |-> <<>>, content |-> 0, anchored |-> 0, rows |-> <<>>,
         total |-> 0, told |-> "none"]
Fresh(n) == [id |-> n, copy |-> 0, index |-> [f \in File |-> IF f = Queried THEN 0 ELSE 1], loading |-> TRUE]

Init ==
    /\ disk = [f \in File |-> 1]
    /\ server = Fresh(1)
    /\ seen = {} /\ call = Idle /\ calls = 0

At(pc) == call.pc = pc
TextOf(f, v) == IF v = 0 THEN <<>> ELSE Texts[f][v]
LineAt(t, l) == IF l \in DOMAIN t THEN t[l] ELSE Nothing
Goes(pc) == call' = [call EXCEPT !.pc = pc]
Ends(told) == call' = [call EXCEPT !.pc = "ended", !.told = told]

\* The session the call waited for; a method nobody advertised is not asked.
Navigates(op) == op \in {"goToDefinition", "findReferences"}
Ask(op, name) ==
    /\ call.pc \in {"idle", "ended"} /\ calls < MaxCalls
    /\ calls' = calls + 1
    /\ call' = [Idle EXCEPT !.pc = "read", !.op = op, !.name = name, !.sid = server.id, !.left = Retries]
    /\ UNCHANGED <<disk, server, seen>>

\* readText, and in one step the sync, to whatever session the slot holds now, and what
\* needs no further wait: the request of `symbols`.  Both go down one pipe.
\* Mutant of Synced: a document the server has is not changed.
OpenedOnce(s) == [s EXCEPT !.copy = IF @ = 0 THEN disk[Queried] ELSE @]
Synced(s) == [s EXCEPT !.copy = disk[Queried], !.index[Queried] = disk[Queried]]
AfterRead ==
    CASE Navigates(call.op) /\ call.op \notin Capable -> "unsupported"
      [] Navigates(call.op) /\ call.op \in Capable -> IF server.loading THEN "load" ELSE "post"
      [] call.op = "symbols" -> "asked"
      [] OTHER -> "verify"
Read ==
    /\ At("read")
    /\ IF disk[Queried] = 0 THEN Ends("failed") /\ UNCHANGED server
       ELSE /\ server' = Synced(server)
            /\ call' = [call EXCEPT !.text = disk[Queried], !.copy = server'.copy, !.pc = AfterRead]
    /\ UNCHANGED <<disk, seen, calls>>

Unsupported == At("unsupported") /\ Ends("unsupported") /\ UNCHANGED <<disk, server, seen, calls>>

\* waitForProjectLoad: till the index is there, or the wait's budget is over.
Loaded == At("load") /\ Goes("post") /\ UNCHANGED <<disk, server, seen, calls>>

\* The position is of the text the call read; the server answers from its copy.
Post ==
    /\ At("post")
    /\ call' = [call EXCEPT !.pc = "asked", !.copy = server.copy]
    /\ UNCHANGED <<disk, server, seen, calls>>

\* A request to a session that is over is rejected; so is one that times out.
Rejected == At("asked") /\ Ends("failed") /\ UNCHANGED <<disk, server, seen, calls>>
-----------------------------------------------------------------------------
\* The server's part: the lines of a file that answer a question, a line that names
\* its symbol twice twice.
Answers(op, name, n) ==
    \/ op = "goToDefinition" /\ n.kind = "def" /\ n.name = name
    \/ op = "findReferences" /\ n.kind # "none" /\ n.name = name
    \/ op = "symbols" /\ n.kind = "def"
InText(f, t, op, name) ==
    LET hits == SelectSeq([l \in DOMAIN t |-> l], LAMBDA l : Answers(op, name, t[l])) IN
    FlattenSeq([k \in DOMAIN hits |->
        LET loc == [file |-> f, line |-> hits[k]] IN
        IF t[hits[k]].kind = "twice" THEN <<loc, loc>> ELSE <<loc>>])
Files == SetToSeq(File)
Whole(op, name, copy) ==
    FlattenSeq([n \in DOMAIN Files |->
        InText(Files[n], TextOf(Files[n], IF Files[n] = Queried THEN copy ELSE server.index[Files[n]]),
               op, name)])
\* While it loads, an imported name resolves to the import that names it.
Imports(name, copy) ==
    LET t == TextOf(Queried, copy)
        hits == {l \in DOMAIN t : t[l].kind = "import" /\ t[l].name = name} IN
    IF hits = {} THEN <<>> ELSE <<[file |-> Queried, line |-> Min(hits)]>>
Served(op, name, copy) ==
    CASE op = "symbols" -> InText(Queried, TextOf(Queried, copy), op, name)
      [] op = "goToDefinition" /\ server.loading -> Imports(name, copy)
      [] OTHER -> Whole(op, name, copy)

\* A location without a usable start, line 0 here, is left out.
Resolved(locs) == SelectSeq(locs, LAMBDA l : l.line > 0)

\* Every target is an import clause of the queried file that names the symbol, by the
\* text the call read.
ImportBinding(locs) ==
    /\ call.op = "goToDefinition" /\ locs # <<>>
    /\ \A n \in DOMAIN locs :
          /\ locs[n].file = Queried
          /\ LineAt(TextOf(Queried, call.text), locs[n].line) = [kind |-> "import", name |-> call.name]

Grouped(locs) ==
    FoldLeft(LAMBDA gs, l :
        IF \E g \in DOMAIN gs : gs[g][1].file = l.file
        THEN [g \in DOMAIN gs |-> IF gs[g][1].file = l.file THEN Append(gs[g], l) ELSE gs[g]]
        ELSE Append(gs, <<l>>), <<>>, locs)
Head100(locs) == SubSeq(locs, 1, IF Len(locs) < MaxShown THEN Len(locs) ELSE MaxShown)

\* The answer: asked again while it is an import clause and the budget lasts; then
\* counted, capped and arranged.
\* Mutant of AskAgain: the first answer counts.
NeverAgain(locs) == FALSE
AskAgain(locs) == ImportBinding(locs) /\ call.left > 0
Reply ==
    /\ At("asked") /\ call.sid = server.id
    /\ \E garbled \in IF "garbled" \in Event /\ Navigates(call.op) THEN BOOLEAN ELSE {FALSE} :
       LET raw == Served(call.op, call.name, call.copy)
           locs == IF garbled THEN <<[file |-> Queried, line |-> 0]>> \o raw ELSE raw IN
       call' = IF ~garbled /\ AskAgain(locs)
               THEN [call EXCEPT !.pc = "post", !.left = @ - 1]
               ELSE [call EXCEPT !.locs = locs, !.total = Len(Resolved(locs)), !.of = call.copy,
                        !.pc = IF Navigates(call.op) THEN "group" ELSE "mint",
                        !.groups = IF Navigates(call.op) THEN Grouped(Head100(Resolved(locs)))
                                   ELSE Grouped(Resolved(locs))]
    /\ UNCHANGED <<disk, server, seen, calls>>

\* verifiedReport, whose waits AutoDiag has: the items of the text it names, the one read
\* here or a newer write's, or no report within the budget.
Verified ==
    /\ At("verify")
    /\ \/ Ends("no answer yet")
       \/ \E v \in {call.text, disk[Queried]} \ {0} :
             LET locs == InText(Queried, TextOf(Queried, v), "findReferences", call.name) IN
             call' = [call EXCEPT !.pc = "mint", !.text = v, !.copy = v, !.of = v, !.locs = locs,
                                  !.total = Len(locs), !.groups = Grouped(locs)]
    /\ UNCHANGED <<disk, server, seen, calls>>
-----------------------------------------------------------------------------
Group == Head(call.groups)
LinesOf(g) == SetToSortSeq({g[n].line : n \in DOMAIN g}, <)
Row(f, l, text, anchored) == [file |-> f, line |-> l, text |-> text, anchored |-> anchored]
NextGroup(rows) == [call EXCEPT !.rows = @ \o rows, !.groups = Tail(@)]

\* One row for each location of a file that is not read, and no anchor.
Bare(g) == [n \in DOMAIN g |-> Row(g[n].file, g[n].line, Nothing, FALSE)]

\* A file past the budget, or with no path, or one that cannot be read.
Skip ==
    /\ At("group") /\ call.groups # <<>>
    /\ Group[1].file \in Opaque \/ call.anchored >= MaxAnchored
    /\ call' = NextGroup(Bare(Group))
    /\ UNCHANGED <<disk, server, seen, calls>>

ReadGroup ==
    /\ At("group") /\ call.groups # <<>>
    /\ Group[1].file \notin Opaque /\ call.anchored < MaxAnchored
    /\ call' = IF disk[Group[1].file] = 0
               THEN [NextGroup(Bare(Group)) EXCEPT !.anchored = @ + 1]
               ELSE [call EXCEPT !.pc = "anchor", !.content = disk[Group[1].file], !.anchored = @ + 1]
    /\ UNCHANGED <<disk, server, seen, calls>>

\* Mint and serve in one transaction, by the text that was read: a line it does not have
\* gets a row and no anchor.  One row for each line.
ShownFrom(g, t) ==
    [n \in DOMAIN LinesOf(g) |-> Row(g[1].file, LinesOf(g)[n], LineAt(t, LinesOf(g)[n]),
                                     LinesOf(g)[n] \in DOMAIN t)]
Minted(rows) == {[file |-> r.file, line |-> r.line, text |-> r.text] : r \in {x \in ToSet(rows) : x.anchored}}
Mint(t) ==
    LET rows == ShownFrom(Group, t) IN
    seen' = {s \in seen : ~\E r \in Minted(rows) : r.file = s.file /\ r.line = s.line} \cup Minted(rows)

Anchor ==
    /\ At("anchor")
    /\ LET t == TextOf(Group[1].file, call.content) IN
       Mint(t) /\ call' = [NextGroup(ShownFrom(Group, t)) EXCEPT !.pc = "group"]
    /\ UNCHANGED <<disk, server, calls>>

\* Rows of symbols and diagnostics: those of the text the call, or the report, has.
MintOwn ==
    /\ At("mint") /\ call.groups # <<>>
    /\ LET t == TextOf(Queried, call.text) IN Mint(t) /\ call' = NextGroup(ShownFrom(Group, t))
    /\ UNCHANGED <<disk, server, calls>>

Finish ==
    /\ At("group") \/ At("mint")
    /\ call.groups = <<>> /\ Ends("ok")
    /\ UNCHANGED <<disk, server, seen, calls>>
-----------------------------------------------------------------------------
\* Other programs and calls.  Whether a target with no local path is there, nobody looks.
Change(f) ==
    /\ disk[f] # 0
    /\ \/ disk[f] < Len(Texts[f]) /\ disk' = [disk EXCEPT ![f] = @ + 1]
       \/ "vanish" \in Event /\ f \notin {Queried} \cup Opaque /\ disk' = [disk EXCEPT ![f] = 0]
    /\ UNCHANGED <<server, seen, call, calls>>
Index ==
    /\ \E f \in File \ {Queried} : server.index[f] # disk[f] /\ server' = [server EXCEPT !.index[f] = disk[f]]
    /\ UNCHANGED <<disk, seen, call, calls>>
Warms == server.loading /\ server' = [server EXCEPT !.loading = FALSE] /\ UNCHANGED <<disk, seen, call, calls>>
OtherSync ==
    /\ "sync" \in Event /\ disk[Queried] # 0 /\ server.copy # disk[Queried]
    /\ server' = [server EXCEPT !.copy = disk[Queried], !.index[Queried] = disk[Queried]]
    /\ UNCHANGED <<disk, seen, call, calls>>
Restart ==
    /\ "restart" \in Event /\ server.id = 1
    /\ server' = Fresh(2)
    /\ UNCHANGED <<disk, seen, call, calls>>

Runs == \/ Read \/ Unsupported \/ Loaded \/ Post \/ Rejected \/ Reply \/ Verified
        \/ Skip \/ ReadGroup \/ Anchor \/ MintOwn \/ Finish
Next ==
    \/ \E op \in {"symbols", "diagnostics", "goToDefinition", "findReferences"}, name \in {1, 2} : Ask(op, name)
    \/ Runs \/ Index \/ Warms \/ OtherSync \/ Restart
    \/ \E f \in File : Change(f)

\* Waits have budgets, requests have timeouts, local files are read.
Spec == Init /\ [][Next]_vars /\ WF_vars(Runs)
-----------------------------------------------------------------------------
TypeOK ==
    /\ disk \in [File -> Nat] /\ server.id \in 1..2 /\ server.copy \in Nat
    /\ call.pc \in {"idle", "read", "unsupported", "load", "post", "asked", "verify", "group", "anchor",
                    "mint", "ended"}
    /\ call.told \in {"none", "ok", "failed", "unsupported", "no answer yet"}

Done == At("ended") /\ call.told = "ok"

\* "Every line it names is served as an editable row": a row with an anchor was recorded
\* with the text it shows, and the rows of one file show one text.
RowsAreServed ==
    Done =>
        /\ Minted(call.rows) \subseteq seen
        /\ \A f \in {r.file : r \in ToSet(call.rows)} : \E v \in DOMAIN Texts[f] :
              \A r \in ToSet(call.rows) : r.file = f /\ r.anchored => LineAt(Texts[f][v], r.line) = r.text

\* No location is dropped and none is drawn in a wrong place: those up to the cap have
\* their row, the others are counted, and no line is given two anchors.
LocationsKept ==
    Done =>
        /\ call.total = Cardinality({n \in DOMAIN call.locs : call.locs[n].line > 0})
        /\ LET shown == IF Navigates(call.op) THEN Head100(Resolved(call.locs)) ELSE call.locs IN
              {<<r.file, r.line>> : r \in ToSet(call.rows)} = {<<l.file, l.line>> : l \in ToSet(shown)}
        /\ \A m, n \in DOMAIN call.rows :
              m # n /\ call.rows[m].anchored /\ call.rows[n].anchored =>
                  <<call.rows[m].file, call.rows[m].line>> # <<call.rows[n].file, call.rows[n].line>>

\* A symbol the server found on a line of the queried file is shown with that very line,
\* though other calls sync the document too: only navigation waits in between.
ToldOfItsText == Done /\ call.op = "symbols" => call.of = call.text

\* "That is never a definition": an import clause is answered only when the budget is
\* gone; and with the text the server worked on being the one the call read.
DefinitionsAreReal ==
    Done /\ ImportBinding(call.locs) => call.left = 0

\* A call ends, whatever server and files do.
AnswerEnds == At("read") ~> At("ended")
=============================================================================
