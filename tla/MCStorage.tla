----------------------------- MODULE MCStorage -----------------------------
\* What the plugin keeps and writes, for TLC: the transactions of the store, its
\* rows and sweeps, its openings, the calls that change files and their undo histories,
\* and such calls at the same time.  They share no state, so one run explores them side
\* by side: `part` says which of them runs, the others stay as they start.
EXTENDS StoreTxn, Sequences

CONSTANTS p1, p2, a1, a2, b1, u1, s1

Mine == [c \in Any |-> IF c = b1 THEN p2 ELSE p1]

VARIABLES part,
          db, limits, held, counter, job, up, now,          \* StoreRows
          files, current, opened, open, proc, rebuilt,      \* StoreOpen
          disk, stack, seen, fileCall, left, texts, dirty,  \* FileCalls
          shared, entries, noted, tool, work, allowed,      \* SharedFiles
          grip, nested, batch, kept, caller, reply         \* StoreTxn, overlapping

\* The same calls when they overlap at their awaits.
Joined == INSTANCE StoreTxn WITH
    Overlap <- TRUE, Crashes <- FALSE,
    lock <- grip, depth <- nested, pending <- batch, durable <- kept, call <- caller, answer <- reply

Roomy == [bytes |-> 9, paths |-> 3, rows |-> 4]
Tight == [bytes |-> 3, paths |-> 1, rows |-> 1]

\* Every family and its counts; a store over its budget; another process and a
\* death in the middle of a write; a death in the middle of a sweep.
Counted == INSTANCE StoreRows WITH
    Path <- {"p", "q"}, Session <- {s1}, Line <- {1}, LimitSet <- {Roomy}, UndoDepth <- 2,
    UndoMax <- 1, SweepWrites <- 3, EvictRatio <- 2, ServedTTL <- 0, AnchorTTL <- 0,
    Event <- {"served", "undo", "move", "corrupt"}, MaxNow <- 2, MaxWrites <- 3, MaxDepth <- 3
Swept == INSTANCE StoreRows WITH
    Path <- {"p", "q"}, Session <- {s1}, Line <- {1}, LimitSet <- {Tight}, UndoDepth <- 2,
    UndoMax <- 0, SweepWrites <- 3, EvictRatio <- 2, ServedTTL <- 1, AnchorTTL <- 2,
    Event <- {"served", "undo", "corrupt"}, MaxNow <- 2, MaxWrites <- 3, MaxDepth <- 3
Dying == INSTANCE StoreRows WITH
    Path <- {"p", "q"}, Session <- {s1}, Line <- {1}, LimitSet <- {Roomy, Tight}, UndoDepth <- 2,
    UndoMax <- 1, SweepWrites <- 2, EvictRatio <- 2, ServedTTL <- 0, AnchorTTL <- 0,
    Event <- {"foreign", "crash", "publish"}, MaxNow <- 2, MaxWrites <- 3, MaxDepth <- 2

\* One process opens, dies and rebuilds; two processes share the path.
OneOpens == INSTANCE StoreOpen WITH
    Process <- {"x"}, Event <- {"crash", "exit", "grow", "busy"}, MaxOpens <- 4, MaxFiles <- 4,
    made <- opened
TwoOpen == INSTANCE StoreOpen WITH
    Process <- {"x", "y"}, Event <- {"crash", "exit", "shutdown", "grow", "busy"}, MaxOpens <- 2,
    MaxFiles <- 3, made <- opened

One(op, p, q, hunks) == [op |-> op, at |-> p, to |-> q, hunks |-> hunks]
UpA == One("update", "a", "a", TRUE)
UpB == One("update", "b", "b", TRUE)
Calls == [kind : {"edit"}, ops : {<<UpA>>, <<UpA, UpB>>}]
    \cup [kind : {"undo"}, ops : {<<One("undo", "a", "a", FALSE)>>}]
Patches ==
    [kind : {"patch"},
     ops : {<<One("move", "a", "b", TRUE)>>, <<UpA, One("remove", "b", "b", FALSE)>>,
            <<UpA, One("add", "b", "b", FALSE)>>}]
Others == [kind : {"files"}, ops : {<<One("move", "b", "a", FALSE)>>, <<One("remove", "a", "a", FALSE)>>}]
    \cup [kind : {"write"}, ops : {<<One("write", "b", "b", FALSE)>>}]

Plain == INSTANCE FileCalls WITH
    Path <- {"a", "b"}, Plan <- Calls \cup Patches \cup Others, UndoDepth <- 2, Guarded <- FALSE,
    Event <- {"foreign", "fail", "crash"}, MaxCalls <- 3, MaxFails <- 1, MaxForeign <- 1,
    call <- fileCall, made <- texts
Policed == INSTANCE FileCalls WITH
    Path <- {"a", "b"}, Plan <- Calls, UndoDepth <- 2, Guarded <- TRUE,
    Event <- {"foreign", "fail", "torn"}, MaxCalls <- 2, MaxFails <- 1, MaxForeign <- 1,
    call <- fileCall, made <- texts

Away == {One("move", p, q, FALSE) : p \in {"a", "b", "c"}, q \in {"a", "b", "c"}}
Chains == [kind : {"files"}, ops : {<<m, n>> : m \in Away, n \in Away}]
OneEdits == [kind : {"edit"}, ops : {<<UpA>>, <<UpB>>}]
Moves == INSTANCE FileCalls WITH
    Path <- {"a", "b", "c"}, Plan <- {c \in Chains : \A n \in 1..2 : c.ops[n].at # c.ops[n].to} \cup OneEdits,
    UndoDepth <- 2, Guarded <- FALSE, Event <- {"foreign"},
    MaxCalls <- 2, MaxFails <- 0, MaxForeign <- 1, call <- fileCall, made <- texts
ASSUME PlansAssumption == Plain!PlansFit /\ Policed!PlansFit /\ Moves!PlansFit
ASSUME StoresAssumption ==
    /\ Counted!RowsFit /\ Swept!RowsFit /\ Dying!RowsFit
    /\ OneOpens!OpensFit /\ TwoOpen!OpensFit

\* One call on several files; the calls of two sessions on one file.
Groups == INSTANCE SharedFiles WITH
    Session <- {"s"}, Spelling <- {"a", "b"}, FileOf <- [g \in {"a", "b"} |-> g], Guarded <- FALSE,
    Kind <- {"edit", "ast", "undo"}, MaxCalls <- 3, MaxFails <- 2, MaxForeign <- 0,
    disk <- shared, stack <- entries, seen <- noted, call <- tool, job <- work, left <- allowed
Sessions == INSTANCE SharedFiles WITH
    Session <- {"s", "t"}, Spelling <- {"a"}, FileOf <- [g \in {"a"} |-> g], Guarded <- TRUE,
    Kind <- {"edit", "ast", "undo"}, MaxCalls <- 2, MaxFails <- 1, MaxForeign <- 1,
    disk <- shared, stack <- entries, seen <- noted, call <- tool, job <- work, left <- allowed

Areas == {"alone", "joined", "counted", "swept", "dying", "one", "two", "plain", "policed", "moves",
          "groups", "sessions"}

rowsVars == <<db, limits, held, counter, job, up, now>>
openVars == <<files, current, opened, open, proc, rebuilt>>
fileVars == <<disk, stack, seen, fileCall, left, texts, dirty>>
sharedVars == <<shared, entries, noted, tool, work, allowed>>
joinedVars == <<grip, nested, batch, kept, caller, reply>>
allVars == <<part, vars, rowsVars, openVars, fileVars, sharedVars, joinedVars>>

MCInit ==
    /\ part \in Areas
    /\ Init /\ Joined!Init
    /\ CASE part = "swept" -> Swept!Init
         [] part = "dying" -> Dying!Init
         [] OTHER -> Counted!Init
    /\ IF part = "two" THEN TwoOpen!Init ELSE OneOpens!Init
    /\ CASE part = "plain" -> Plain!Init
         [] part = "policed" -> Policed!Init
         [] part = "moves" -> Moves!Init
         [] OTHER -> Plain!Init /\ disk = [p \in {"a", "b"} |-> 1]
    /\ IF part = "sessions" THEN Sessions!Init ELSE Groups!Init

TxnsRun == part = "alone" /\ UNCHANGED <<part, rowsVars, openVars, fileVars, sharedVars, joinedVars>>
JoinedRun == part = "joined" /\ UNCHANGED <<part, vars, rowsVars, openVars, fileVars, sharedVars>>
RowsRun(p) == part = p /\ UNCHANGED <<part, vars, openVars, fileVars, sharedVars, joinedVars>>
OpenRuns(p) == part = p /\ UNCHANGED <<part, vars, rowsVars, fileVars, sharedVars, joinedVars>>
FilesRun(p) == part = p /\ UNCHANGED <<part, vars, rowsVars, openVars, sharedVars, joinedVars>>
SharedRun(p) == part = p /\ UNCHANGED <<part, vars, rowsVars, openVars, fileVars, joinedVars>>

MCNext ==
    \/ TxnsRun /\ Next
    \/ JoinedRun /\ Joined!Next
    \/ RowsRun("counted") /\ Counted!Next
    \/ RowsRun("swept") /\ Swept!Next
    \/ RowsRun("dying") /\ Dying!Next
    \/ OpenRuns("one") /\ OneOpens!Next
    \/ OpenRuns("two") /\ TwoOpen!Next
    \/ FilesRun("plain") /\ Plain!Next
    \/ FilesRun("policed") /\ Policed!Next
    \/ FilesRun("moves") /\ Moves!Next
    \/ SharedRun("groups") /\ Groups!Next
    \/ SharedRun("sessions") /\ Sessions!Next

\* Each part's own fairness; where instances share variables, that of the one
\* whose liveness is checked.
TxnFairness == \A c \in Any : WF_joinedVars(part = "joined" /\ Joined!Progress(c))
JobFairness ==
    WF_rowsVars(part = "dying" /\ (Dying!PurgeStep \/ Dying!SweepNext \/ Dying!PruneStep))
OpenFairness == \A o \in {1, 2} : WF_openVars(part = "two" /\ TwoOpen!OpenNext(o))
FileFairness == WF_fileVars(part = "plain" /\ Plain!Runs)

MCSpec == MCInit /\ [][MCNext]_allVars /\ TxnFairness /\ JobFairness /\ OpenFairness /\ FileFairness
-----------------------------------------------------------------------------
\* The parts' type invariants.
PartsTypeOK ==
    /\ TypeOK
    /\ part = "counted" => Counted!TypeOK
    /\ part = "one" => OneOpens!TypeOK
    /\ part \in {"plain", "policed"} => Plain!TypeOK
    /\ part = "moves" => Moves!TypeOK
    /\ part = "groups" => Groups!TypeOK
    /\ part = "sessions" => Sessions!TypeOK

\* Rows: the triggers' counts are what counting the tables would give, a path has no
\* more undo layers than the stack holds, and line rows without their meta row exist
\* only inside a sweep, a prune or a heal.
RowsConsistent ==
    /\ part = "counted" => Counted!CountsExact /\ Counted!UndoBounded
    /\ part = "dying" => Dying!CountsExact
    /\ part = "swept" => Swept!OrphansOnlyMidway

\* Openings: a process has one connection to a store at most, and a store is rebuilt
\* once a day at most.  Of calls that overlap, an open transaction has one owner, and an
\* outermost call that failed left nothing behind.
OpenedOnce ==
    /\ part = "one" => OneOpens!OneOpenPerPath /\ OneOpens!RebuildsApart
    /\ part = "joined" => Joined!OneOwner /\ Joined!FailedOwnerLeavesNothing

\* Undo: a history that nothing but the calls touched ends at the file's text, also when
\* a call works on several files at once and some of them fail.
HistoriesHold ==
    /\ part \in {"plain", "policed"} => Plain!HistoryHolds
    /\ part = "groups" => Groups!HistoriesLead

\* The store's steps: as "nesting is honoured", an undo entry is refused because of
\* another process only; a sweep ends with every metric in range or with nothing left
\* to evict, it evicts a path only when no path it keeps is older, and it leaves each
\* stack's newest layer; an opening takes no file into use that a death had damaged.
StoreSteps ==
    [][/\ part = "alone" => UndoNotClashing
       /\ part = "swept" => Swept!SweepWithin /\ Swept!EvictsOldest /\ Swept!NewestUndoStays
       /\ part = "one" => OneOpens!DamagedNotServed]_allVars

\* The calls on files: an edit that fails leaves texts and histories as they were, what
\* a patch reports of an operation is so, and with the write guard a call writes over
\* nothing it has not read.  A revert puts back the text before the newest edit and uses
\* up its entry alone, and a history is cleared only after the file changed outside of it.
\* Files that a call moves about are all still there, each with its history.
\* An edit leaves a file only by the undo that reverts it, though groups of one call work on
\* several files at once, or sessions on one that a policy guards.
FilesSteps ==
    [][/\ part = "plain" => /\ Plain!FailedEditUndone /\ Plain!ReportIsTrue
                            /\ Plain!UndoReverts /\ Plain!ClearedWhenTouched
       /\ part = "policed" => Policed!FailedEditUndone /\ Policed!OverwritesItsRead
       /\ part = "moves" => Moves!MovesKeepFiles
       /\ part = "groups" => Groups!NothingLostStep
       /\ part = "sessions" => Sessions!NothingLostStep]_allVars

\* Whatever is begun ends: a transaction's caller is answered; a sweep, a prune and a
\* heal end, and so does what a death left of them; an opening; a call on files.
WorkEnds ==
    /\ \A c \in Any : part = "joined" ~> reply[c] # "none"
    /\ (part = "dying" /\ job.pc # "none") ~> job.pc = "none"
    /\ \A o \in {1, 2} : (part = "two" /\ TwoOpen!Busy(o)) ~> ~TwoOpen!Busy(o)
    /\ (part = "plain" /\ fileCall.pc \notin {"idle", "ended"}) ~> fileCall.pc \in {"idle", "ended"}
=============================================================================
