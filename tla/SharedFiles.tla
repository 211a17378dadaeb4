---------------------------- MODULE SharedFiles ----------------------------
\* Calls that change files at the same time: the groups of one multi-file edit
\* (tools/tool-edit.ts), the calls of other sessions, ast_edit (tools/tool-ast-edit.ts)
\* and undo_last_edit (tools/tool-undo.ts), over the disk and the undo stacks.  An edit
\* is grouped by the spelling of its paths, and every group reads, pushes its undo entry
\* and writes on its own.  A text is the set of edits that are in it; what the anchors
\* refuse is AnchorStore's matter, and may happen here to any edit.
EXTENDS Naturals, Sequences, SequencesExt, FiniteSets

CONSTANTS Session,
          Spelling, FileOf,   \* how files are named in calls, and the file each name is
          Guarded,            \* a policy answers fs/write-intent with the version seen last
          Kind,               \* which of "edit", "ast", "undo" are called
          MaxCalls, MaxFails, MaxForeign   \* bounds

VARIABLES disk,     \* per file: its version and the edits in its text
          stack,    \* per file: the undo entries, the newest last
          seen,     \* per session and file: the version its policy saw last
          call,     \* per session: the call under way
          job,      \* per session and spelling: how far the call is with that file
          left      \* what may still happen: calls, failures, foreign writes

vars == <<disk, stack, seen, call, job, left>>

File == {FileOf[g] : g \in Spelling}
NoCall == [kind |-> "none", groups |-> {}, no |-> 0, told |-> "none"]
Resting == [pc |-> "rest", text |-> {}, before |-> {}, result |-> {}]
Ended == {"applied", "noop", "failed", "empty", "stale"}

Init ==
    /\ disk = [f \in File |-> [ver |-> 1, items |-> {}]]
    /\ stack = [f \in File |-> <<>>]
    /\ seen \in [Session -> [File -> {0, 1}]] /\ (~Guarded => seen = [s \in Session |-> [f \in File |-> 0]])
    /\ call = [s \in Session |-> NoCall]
    /\ job = [s \in Session |-> [g \in Spelling |-> Resting]]
    /\ left = [calls |-> MaxCalls, fails |-> MaxFails, foreign |-> MaxForeign]

At(s, g, pc) == job[s][g].pc = pc
Set(s, g, j) == job' = [job EXCEPT ![s][g] = j]
Goes(s, g, pc) == job' = [job EXCEPT ![s][g].pc = pc]
Item(s, g) == <<call[s].no, g>>

Sees(s, f, v) == IF Guarded THEN [seen EXCEPT ![s][f] = v] ELSE seen
Accepted(s, f) == Guarded => seen[s][f] = disk[f].ver
Failing == left.fails > 0
Spend == left' = [left EXCEPT !.fails = @ - 1]

\* A session's calls come one after the other; those of different sessions overlap.
Opens(s, kind, groups, pc) ==
    /\ kind \in Kind /\ call[s].kind = "none" /\ left.calls > 0
    /\ left' = [left EXCEPT !.calls = @ - 1]
    /\ call' = [call EXCEPT ![s] = [kind |-> kind, groups |-> groups, no |-> left.calls, told |-> "none"]]
    /\ job' = [job EXCEPT ![s] = [g \in Spelling |-> IF g \in groups THEN [Resting EXCEPT !.pc = pc] ELSE Resting]]
    /\ UNCHANGED <<disk, stack, seen>>

\* One group per spelling.
Groups == SUBSET Spelling \ {{}}
OpenEdit(s) == \E G \in Groups : Opens(s, "edit", G, "read")
OpenAst(s) == \E g \in Spelling : Opens(s, "ast", {g}, "match")
OpenUndo(s) == \E g \in Spelling : Opens(s, "undo", {g}, "load")

\* ast_edit reads and asks the worker for matches; what matched is served and observed,
\* at whatever version the file has by then.
Match(s, g) ==
    /\ At(s, g, "match")
    /\ \/ Goes(s, g, "noop") /\ UNCHANGED seen
       \/ Goes(s, g, "read") /\ seen' = Sees(s, FileOf[g], disk[FileOf[g]].ver)
    /\ UNCHANGED <<disk, stack, call, left>>

\* runFileEdits reads the file, whoever matched it before.
Read(s, g) ==
    /\ At(s, g, "read")
    /\ Set(s, g, [job[s][g] EXCEPT !.pc = IF call[s].kind = "ast" THEN "gate" ELSE "plan",
                                   !.text = disk[FileOf[g]].items])
    /\ UNCHANGED <<disk, stack, seen, call, left>>

\* A refusal's echo is observed too.
Refuse(s, g) ==
    /\ job[s][g].pc \in {"plan", "gate"}
    /\ Goes(s, g, "failed")
    /\ seen' \in {seen, Sees(s, FileOf[g], disk[FileOf[g]].ver)}
    /\ UNCHANGED <<disk, stack, call, left>>

Noop(s, g) ==
    /\ job[s][g].pc \in {"plan", "gate"}
    /\ Goes(s, g, "noop")
    /\ UNCHANGED <<disk, stack, seen, call, left>>

\* The syntax gate has asked the worker; saveUndo follows, and then the write is awaited.
Push(s, g) ==
    /\ job[s][g].pc \in {"plan", "gate"}
    /\ LET new == job[s][g].text \cup {Item(s, g)} IN
        /\ Set(s, g, [job[s][g] EXCEPT !.pc = "write", !.result = new])
        /\ stack' = [stack EXCEPT ![FileOf[g]] = Append(@, [before |-> job[s][g].text, result |-> new])]
    /\ UNCHANGED <<disk, seen, call, left>>

Lands(s, f, items) ==
    /\ Accepted(s, f)
    /\ disk' = [disk EXCEPT ![f] = [ver |-> @.ver + 1, items |-> items]]
    /\ seen' = Sees(s, f, disk[f].ver + 1)

NotWritten(s, f) ==
    /\ \/ ~Accepted(s, f) /\ UNCHANGED left
       \/ Accepted(s, f) /\ Failing /\ Spend
    /\ UNCHANGED <<disk, seen>>

Write(s, g) ==
    /\ At(s, g, "write")
    /\ \/ Lands(s, FileOf[g], job[s][g].result) /\ Goes(s, g, "applied") /\ UNCHANGED left
       \/ NotWritten(s, FileOf[g]) /\ Goes(s, g, "pop")
    /\ UNCHANGED <<stack, call>>

\* restore pops the newest entry of the file, whoever pushed it.
Popped(st) == IF st = <<>> THEN st ELSE Front(st)

Pop(s, g) ==
    /\ At(s, g, "pop")
    /\ stack' = [stack EXCEPT ![FileOf[g]] = Popped(@)]
    /\ Goes(s, g, "failed")
    /\ UNCHANGED <<disk, seen, call, left>>
-----------------------------------------------------------------------------
Load(s, g) ==
    /\ At(s, g, "load")
    /\ LET st == stack[FileOf[g]] IN
        Set(s, g, IF st = <<>> THEN [job[s][g] EXCEPT !.pc = "empty"]
                  ELSE [pc |-> "check", text |-> {}, before |-> Last(st).before, result |-> Last(st).result])
    /\ UNCHANGED <<disk, stack, seen, call, left>>

\* A text that is not what the edit left clears the history.
Stale(s, g) == disk[FileOf[g]].items # job[s][g].result
Check(s, g) ==
    /\ At(s, g, "check")
    /\ IF Stale(s, g)
       THEN Goes(s, g, "stale") /\ stack' = [stack EXCEPT ![FileOf[g]] = <<>>]
       ELSE Goes(s, g, "revert") /\ UNCHANGED stack
    /\ UNCHANGED <<disk, seen, call, left>>

Revert(s, g) ==
    /\ At(s, g, "revert")
    /\ \/ Lands(s, FileOf[g], job[s][g].before) /\ Goes(s, g, "consume") /\ UNCHANGED left
       \/ NotWritten(s, FileOf[g]) /\ Goes(s, g, "failed")
    /\ UNCHANGED <<stack, call>>

\* After the restored anchors and the wait for diagnostics, the entry is popped.
Consume(s, g) ==
    /\ At(s, g, "consume")
    /\ stack' = [stack EXCEPT ![FileOf[g]] = Popped(@)]
    /\ Goes(s, g, "applied")
    /\ UNCHANGED <<disk, seen, call, left>>
-----------------------------------------------------------------------------
\* Promise.all: the call's answer, a failure when every file failed.
Answer(s) ==
    /\ call[s].kind # "none" /\ \A g \in call[s].groups : job[s][g].pc \in Ended
    /\ call' = [call EXCEPT ![s] = [NoCall EXCEPT !.told =
           IF \A g \in call[s].groups : At(s, g, "failed") THEN "error" ELSE "ok"]]
    /\ job' = [job EXCEPT ![s] = [g \in Spelling |-> Resting]]
    /\ UNCHANGED <<disk, stack, seen, left>>

\* The read tool between two calls.
Observe(s, f) ==
    /\ Guarded /\ call[s].kind = "none" /\ seen[s][f] # disk[f].ver
    /\ seen' = Sees(s, f, disk[f].ver)
    /\ UNCHANGED <<disk, stack, call, job, left>>

Foreign(f) ==
    /\ left.foreign > 0
    /\ left' = [left EXCEPT !.foreign = @ - 1]
    /\ disk' = [disk EXCEPT ![f] = [ver |-> @.ver + 1, items |-> @.items \cup {<<0, f>>}]]
    /\ UNCHANGED <<stack, seen, call, job>>

Step(s, g) ==
    \/ Match(s, g) \/ Read(s, g) \/ Refuse(s, g) \/ Noop(s, g) \/ Push(s, g) \/ Write(s, g) \/ Pop(s, g)
    \/ Load(s, g) \/ Check(s, g) \/ Revert(s, g) \/ Consume(s, g)

Next ==
    \/ \E s \in Session : OpenEdit(s) \/ OpenAst(s) \/ OpenUndo(s) \/ Answer(s)
    \/ \E s \in Session, g \in Spelling : Step(s, g)
    \/ \E s \in Session, f \in File : Observe(s, f)
    \/ \E f \in File : Foreign(f)

Spec == Init /\ [][Next]_vars
-----------------------------------------------------------------------------
Texts(f) == SUBSET ((1..MaxCalls) \X Spelling \cup {<<0, f>>})
TypeOK ==
    /\ \A f \in File : disk[f].ver \in Nat /\ disk[f].items \in Texts(f)
    /\ \A f \in File : \A n \in DOMAIN stack[f] : stack[f][n].before \subseteq stack[f][n].result
    /\ \A s \in Session : call[s].kind \in Kind \cup {"none"} /\ call[s].groups \subseteq Spelling
    /\ \A s \in Session, g \in Spelling :
           job[s][g].pc \in Ended \cup {"rest", "match", "read", "plan", "gate", "write", "pop",
                                        "load", "check", "revert", "consume"}

\* An edit that is in a file leaves it only by the undo that reverts it, which takes that one
\* edit and nothing else; no undo is told it reverted an edit another had reverted before.
\* This is about groups, sessions and undos whose writes overlap: each writes the text it read,
\* and what came in between would be gone.  With a policy it holds for one session a file,
\* without one for calls on different files.
Lost(f) == disk[f].items \ disk'[f].items
Reverts(s, g) == At(s, g, "revert") /\ job'[s][g].pc = "consume"
NothingLostStep ==
    /\ \A f \in File : Lost(f) # {} => \E s \in Session, g \in Spelling : Reverts(s, g) /\ FileOf[g] = f
    /\ \A s \in Session, g \in Spelling :
           Reverts(s, g) => Lost(FileOf[g]) = job[s][g].result \ job[s][g].before /\ Lost(FileOf[g]) # {}

\* When nobody is at work on a file that no foreign program touched, its newest undo entry
\* leads back from the text it holds, whichever of a call's files failed.
Quiet(f) == \A s \in Session, g \in Spelling : FileOf[g] = f => job[s][g].pc \in Ended \cup {"rest"}
HistoriesLead ==
    \A f \in File :
        (Quiet(f) /\ <<0, f>> \notin disk[f].items /\ stack[f] # <<>>) =>
            Last(stack[f]).result = disk[f].items
=============================================================================
