----------------------------- MODULE FileCalls -----------------------------
\* The calls that change files, over the disk and the undo stacks: edit's commit
\* (edit-engine.ts persistUndoAndWrite), undo_last_edit, write, delete, rename and
\* apply_patch (patch/preflight.ts, patch/commit.ts).  One call runs at a time; a
\* foreign program, a refused write and a death come between any two of its awaits.
EXTENDS Naturals, FiniteSets, Sequences, SequencesExt

CONSTANTS Path,
          Plan,         \* the calls a model makes: [kind, ops], ops of [op, at, to]
          UndoDepth,    \* UNDO_STACK_DEPTH
          Guarded,      \* a policy answers fs/write-intent with the version seen last
          Event,        \* which of "foreign", "fail", "torn", "crash"
          MaxCalls, MaxFails, MaxForeign   \* bounds

VARIABLES disk,     \* per path: the text there, 0 for none
          stack,    \* per path: the undo entries, the newest last
          seen,     \* per path: the text this session observed last
          call,     \* the call under way
          left,     \* what may still happen: calls, failures, foreign writes
          made,     \* texts there have been
          dirty     \* per path: its text changed outside of its undo history

vars == <<disk, stack, seen, call, left, made, dirty>>

\* What the tools call with.
Ops == [op : {"add", "update", "remove", "move", "write", "undo"}, at : Path, to : Path, hunks : BOOLEAN]
Uses == {<<"edit", "update">>, <<"undo", "undo">>, <<"write", "write">>,
         <<"files", "move">>, <<"files", "remove">>,
         <<"patch", "add">>, <<"patch", "update">>, <<"patch", "remove">>, <<"patch", "move">>}
PlansFit ==
    /\ UndoDepth \in Nat \ {0}
    /\ \A plan \in Plan :
         /\ plan \in [kind : {"edit", "undo", "patch", "files", "write"}, ops : Seq(Ops)]
         /\ plan.kind = "undo" => Len(plan.ops) = 1
         /\ \A n \in DOMAIN plan.ops : <<plan.kind, plan.ops[n].op>> \in Uses

Absent == 0
NoCall == [pc |-> "idle", kind |-> "none", ops |-> <<>>, i |-> 0, k |-> 0, lo |-> 1, hi |-> 0,
           text |-> <<>>, result |-> <<>>, status |-> <<>>, told |-> "none", alone |-> TRUE,
           disk |-> <<>>, stack |-> <<>>]

Init ==
    /\ disk \in [Path -> {Absent, 1}] /\ \E p \in Path : disk[p] # Absent
    /\ stack = [p \in Path |-> <<>>]
    /\ seen = IF Guarded THEN disk ELSE [p \in Path |-> Absent]
    /\ call = NoCall
    /\ left = [calls |-> MaxCalls, fails |-> MaxFails, foreign |-> MaxForeign]
    /\ made = 1
    /\ dirty = [p \in Path |-> FALSE]

At(pc) == call.pc = pc
Op == call.ops[call.i]
\* Where item k of a commit is written: a moved file's hunks land at its destination.
Where(k) == IF call.ops[k].op = "move" THEN call.ops[k].to ELSE call.ops[k].at
Names(ops) == {ops[n].at : n \in DOMAIN ops} \cup {ops[n].to : n \in DOMAIN ops}

Goes(pc) == call' = [call EXCEPT !.pc = pc]
Ends(told) == call' = [call EXCEPT !.pc = "ended", !.told = told]

\* preflight: each path once, and each operation finds what it needs.
Distinct(ops) ==
    \A m, n \in DOMAIN ops : m # n => {ops[m].at, ops[m].to} \cap {ops[n].at, ops[n].to} = {}
Ready(o) ==
    /\ (o.op = "add") = (disk[o.at] = Absent)
    /\ o.op = "move" => disk[o.to] = Absent

\* rename names no source and no destination twice.  What its preflight finds absent, or
\* in the way, an earlier pair may still put there or take away.
Pairs(ops) == \A m, n \in DOMAIN ops : m # n => ops[m].at # ops[n].at /\ ops[m].to # ops[n].to
Refused(plan) ==
    \/ plan.kind \in {"edit", "patch"} /\ ~(Distinct(plan.ops) /\ \A n \in DOMAIN plan.ops : Ready(plan.ops[n]))
    \/ plan.kind = "files" /\ ~Pairs(plan.ops)

Opened(plan, ops) ==
    [NoCall EXCEPT !.pc = "op", !.kind = plan.kind, !.ops = ops, !.i = 1,
                   !.text = [n \in DOMAIN ops |-> disk[ops[n].at]],
                   !.result = [n \in DOMAIN ops |-> made + n],
                   !.disk = disk, !.stack = stack]

\* A call reads its files and plans its work.
Open(plan) ==
    /\ At("idle") /\ left.calls > 0 /\ plan.kind # "undo"
    /\ left' = [left EXCEPT !.calls = @ - 1]
    /\ call' = IF Refused(plan) THEN [NoCall EXCEPT !.pc = "ended", !.told = "failed"]
               ELSE Opened(plan, plan.ops)
    /\ made' = made + Len(plan.ops)
    /\ dirty' = [p \in Path |-> dirty[p] /\ stack[p] # <<>>]
    /\ UNCHANGED <<disk, stack, seen>>

\* A read observes the file.
Observe(p) ==
    /\ Guarded /\ At("idle") /\ seen[p] # disk[p]
    /\ seen' = [seen EXCEPT ![p] = disk[p]]
    /\ UNCHANGED <<disk, stack, call, left, made, dirty>>

\* The operation's end: the next one, or for a patch that failed none.
Settled(status) ==
    LET here == [call EXCEPT !.status = Append(@, status), !.i = @ + 1, !.pc = "op"] IN
    IF status # "completed" /\ call.kind \in {"patch", "edit"}
    THEN [here EXCEPT !.pc = "ended", !.told = "failed"]
    ELSE here

Finish ==
    /\ At("op") /\ call.i > Len(call.ops)
    /\ Ends("ok")
    /\ UNCHANGED <<disk, stack, seen, left, made, dirty>>

Accepted(p) == Guarded => disk[p] \in {seen[p], Absent}

\* What a policy records; without one nothing does.
Sees(s) == seen' = IF Guarded THEN s ELSE seen
Lands(p, t) == disk' = [disk EXCEPT ![p] = t] /\ Sees([seen EXCEPT ![p] = t])
Failing == "fail" \in Event /\ left.fails > 0
Spend == left' = [left EXCEPT !.fails = @ - 1]
-----------------------------------------------------------------------------
\* commit: the whole of an edit, one operation of a patch.
Begin(lo, hi) == call' = [call EXCEPT !.pc = "push", !.k = lo, !.lo = lo, !.hi = hi]

StartCommit ==
    /\ At("op") /\ call.i <= Len(call.ops)
    /\ \/ call.kind = "edit" /\ Begin(1, Len(call.ops))
       \/ call.kind = "patch" /\ Op.op = "update" /\ Begin(call.i, call.i)
    /\ UNCHANGED <<disk, stack, seen, left, made, dirty>>

Entry(k) == [before |-> call.text[k], result |-> call.result[k]]
Pruned(s) == IF Len(s) > UndoDepth THEN Tail(s) ELSE s
Popped(s) == IF s = <<>> THEN s ELSE Front(s)

\* saveUndo, for every file before any is written.
Push ==
    /\ At("push")
    /\ \/ /\ stack' = [stack EXCEPT ![Where(call.k)] = Pruned(Append(@, Entry(call.k)))]
          /\ call' = IF call.k < call.hi THEN [call EXCEPT !.k = @ + 1]
                     ELSE [call EXCEPT !.pc = "write", !.k = call.lo]
          /\ UNCHANGED left
       \/ /\ Failing /\ Spend
          /\ call' = [call EXCEPT !.pc = "pop", !.hi = call.k - 1, !.k = call.lo]
          /\ UNCHANGED stack
    /\ UNCHANGED <<disk, seen, made, dirty>>

\* A commit's end is that of its operations.
Committed ==
    IF call.kind = "edit" THEN [call EXCEPT !.pc = "ended", !.told = "ok"]
    ELSE Settled("completed")

Write ==
    /\ At("write")
    /\ LET p == Where(call.k)
           lost == [call EXCEPT !.pc = IF call.k > call.lo THEN "put" ELSE "pop", !.i = call.k,
                                !.k = call.lo] IN
        \/ /\ Accepted(p) /\ Lands(p, call.result[call.k])
           /\ call' = IF call.k < call.hi THEN [call EXCEPT !.k = @ + 1] ELSE Committed
           /\ UNCHANGED <<left, dirty>>
        \/ /\ ~Accepted(p) \/ Failing
           /\ IF Accepted(p) THEN Spend ELSE UNCHANGED left
           /\ call' = lost
           /\ UNCHANGED <<disk, seen, dirty>>
        \/ /\ Accepted(p) /\ Failing /\ "torn" \in Event
           /\ Spend /\ Lands(p, call.result[call.k])
           /\ call' = [lost EXCEPT !.alone = FALSE]
           /\ dirty' = [dirty EXCEPT ![p] = TRUE]
    /\ UNCHANGED <<stack, made>>

\* The written ones are put back, each with its undo entry.
PutBack ==
    /\ At("put")
    /\ LET p == Where(call.k) IN
        \/ Accepted(p) /\ Lands(p, call.text[call.k]) /\ Goes("unput") /\ UNCHANGED <<left, dirty>>
        \/ /\ ~Accepted(p) \/ Failing
           /\ IF Accepted(p) THEN Spend ELSE UNCHANGED left
           /\ call' = [call EXCEPT !.pc = "unput", !.alone = FALSE]
           /\ dirty' = [dirty EXCEPT ![p] = TRUE]
           /\ UNCHANGED <<disk, seen>>
    /\ UNCHANGED <<stack, made>>

NextOne(k) == k + 1

Unput ==
    /\ At("unput")
    /\ stack' = [stack EXCEPT ![Where(call.k)] = Popped(@)]
    /\ call' = [call EXCEPT !.k = NextOne(@), !.pc = IF NextOne(call.k) < call.i THEN "put" ELSE "pop"]
    /\ UNCHANGED <<disk, seen, left, made, dirty>>

UnwrittenStay(k) == FALSE
Unwritten(k) == k <= call.hi

\* Then the entries of those never written.
Pop ==
    /\ At("pop")
    /\ \/ /\ Unwritten(call.k)
          /\ stack' = [stack EXCEPT ![Where(call.k)] = Popped(@)]
          /\ call' = [call EXCEPT !.k = @ + 1]
       \/ /\ ~Unwritten(call.k)
          /\ call' = Settled(IF call.alone THEN "failed" ELSE "unknown")
          /\ UNCHANGED stack
    /\ UNCHANGED <<disk, seen, left, made, dirty>>
-----------------------------------------------------------------------------
InOp(op) == At("op") /\ call.i <= Len(call.ops) /\ Op.op = op /\ call.kind # "edit"

\* createFile, in a patch with what a removed file had left; write keeps that.
Add ==
    /\ InOp("add") \/ InOp("write")
    /\ LET p == Op.at IN
        \/ /\ Accepted(p) /\ Lands(p, call.result[call.i])
           /\ dirty' = [dirty EXCEPT ![p] = TRUE]
           /\ call' = IF Op.op = "add" THEN [call EXCEPT !.pc = "purge"] ELSE Settled("completed")
           /\ UNCHANGED left
        \/ /\ ~Accepted(p) \/ Failing
           /\ IF Accepted(p) THEN Spend ELSE UNCHANGED left
           /\ call' = Settled("failed")
           /\ UNCHANGED <<disk, seen, dirty>>
    /\ UNCHANGED <<stack, made>>

\* deleteFile: the last probe, then the unlink.
Fenced(n) == disk[call.ops[n].at] = call.text[n]
Delete ==
    /\ InOp("remove")
    /\ \/ Fenced(call.i) /\ disk[Op.at] # Absent /\ Goes("unlink")
       \/ disk[Op.at] = Absent /\ Goes("purge")
       \/ disk[Op.at] # Absent /\ ~Fenced(call.i) /\ call' = Settled("failed")
    /\ UNCHANGED <<disk, stack, seen, left, made, dirty>>

Unlink ==
    /\ At("unlink")
    /\ disk' = [disk EXCEPT ![Op.at] = Absent]
    /\ Goes("purge")
    /\ UNCHANGED <<stack, seen, left, made, dirty>>

\* purgePath
NoHistory(p) == [stack EXCEPT ![p] = <<>>]
Purge ==
    /\ At("purge")
    /\ stack' = NoHistory(Op.at)
    /\ dirty' = [dirty EXCEPT ![Op.at] = FALSE]
    /\ Sees([seen EXCEPT ![Op.at] = IF disk[Op.at] = Absent THEN Absent ELSE @])
    /\ call' = Settled("completed")
    /\ UNCHANGED <<disk, left, made>>

\* A source that was absent at the preflight is probed when its turn comes.
ProbeLate ==
    /\ InOp("move") /\ call.text[call.i] = Absent /\ disk[Op.at] # Absent
    /\ call' = [call EXCEPT !.text[call.i] = disk[Op.at]]
    /\ UNCHANGED <<disk, stack, seen, left, made, dirty>>

\* renameFile: both probes, then the rename, which replaces what came meanwhile.
Move ==
    /\ InOp("move") /\ (call.text[call.i] # Absent \/ disk[Op.at] = Absent)
    /\ IF disk[Op.at] # Absent /\ Fenced(call.i) /\ disk[Op.to] = Absent
       THEN Goes("rename") ELSE call' = Settled("failed")
    /\ UNCHANGED <<disk, stack, seen, left, made, dirty>>

Rename ==
    /\ At("rename")
    /\ IF disk[Op.at] = Absent THEN call' = Settled("failed") /\ UNCHANGED <<disk, dirty>>
       ELSE /\ disk' = [disk EXCEPT ![Op.to] = disk[Op.at], ![Op.at] = Absent]
            /\ dirty' = [dirty EXCEPT ![Op.to] = dirty[Op.at]]
            /\ Goes("migrate")
    /\ UNCHANGED <<stack, seen, left, made>>

\* renamePath: the destination's rows go, the source's move.
StaysPut(s, from, to) == s
Migrated(s, from, to) == [s EXCEPT ![to] = s[from], ![from] = <<>>]
Migrate ==
    /\ At("migrate")
    /\ stack' = Migrated(stack, Op.at, Op.to)
    /\ Sees([seen EXCEPT ![Op.at] = IF disk[Op.at] = Absent THEN Absent ELSE @, ![Op.to] = disk[Op.to]])
    /\ IF call.kind = "patch" /\ Op.hunks THEN Begin(call.i, call.i) ELSE call' = Settled("completed")
    /\ UNCHANGED <<disk, left, made, dirty>>
-----------------------------------------------------------------------------
\* undo_last_edit: the newest entry, against what the file holds now.
UndoLast(plan) ==
    LET p == plan.ops[1].at
        top == Last(stack[p])
        here == [Opened(plan, plan.ops) EXCEPT !.text = <<disk[p]>>] IN
    /\ At("idle") /\ left.calls > 0 /\ plan.kind = "undo"
    /\ left' = [left EXCEPT !.calls = @ - 1]
    /\ \/ stack[p] = <<>> /\ call' = [here EXCEPT !.pc = "ended", !.told = "empty"] /\ UNCHANGED <<stack, dirty>>
       \/ /\ stack[p] # <<>> /\ disk[p] # top.result
          /\ call' = [here EXCEPT !.pc = "ended", !.told = "stale"]
          /\ stack' = NoHistory(p) /\ dirty' = [dirty EXCEPT ![p] = FALSE]
       \/ /\ stack[p] # <<>> /\ disk[p] = top.result
          /\ call' = [here EXCEPT !.pc = "revert", !.result = <<top.before>>]
          /\ UNCHANGED <<stack, dirty>>
    /\ UNCHANGED <<disk, seen, made>>

Revert ==
    /\ At("revert")
    /\ \/ Accepted(Op.at) /\ Lands(Op.at, call.result[1]) /\ Goes("consume") /\ UNCHANGED left
       \/ /\ ~Accepted(Op.at) \/ Failing
          /\ IF Accepted(Op.at) THEN Spend ELSE UNCHANGED left
          /\ Ends("failed") /\ UNCHANGED <<disk, seen>>
    /\ UNCHANGED <<stack, made, dirty>>

Consume ==
    /\ At("consume")
    /\ stack' = [stack EXCEPT ![Op.at] = Popped(@)]
    /\ Ends("ok")
    /\ UNCHANGED <<disk, seen, left, made, dirty>>
-----------------------------------------------------------------------------
Answered == At("ended") /\ call' = NoCall /\ UNCHANGED <<disk, stack, seen, left, made, dirty>>

\* Another program writes or removes the file.
Foreign(p) ==
    /\ "foreign" \in Event /\ left.foreign > 0
    /\ left' = [left EXCEPT !.foreign = @ - 1]
    /\ \E t \in {Absent, made + 1} : t # disk[p] /\ disk' = [disk EXCEPT ![p] = t]
    /\ made' = made + 1
    /\ dirty' = [dirty EXCEPT ![p] = TRUE]
    /\ call' = [call EXCEPT !.alone = FALSE]
    /\ UNCHANGED <<stack, seen>>

\* The process dies; the store and the disk remain.
Crash ==
    /\ "crash" \in Event /\ ~At("idle") /\ left.fails > 0 /\ Spend
    /\ dirty' = [p \in Path |-> dirty[p] \/ p \in Names(call.ops)]
    /\ call' = NoCall
    /\ Sees([p \in Path |-> Absent])
    /\ UNCHANGED <<disk, stack, made>>

Runs == \/ StartCommit \/ Push \/ Write \/ PutBack \/ Unput \/ Pop \/ Add \/ Delete \/ Unlink \/ Purge
        \/ ProbeLate \/ Move \/ Rename \/ Migrate \/ Revert \/ Consume \/ Finish

Next ==
    \/ \E plan \in Plan : Open(plan) \/ UndoLast(plan)
    \/ Runs \/ Answered \/ Crash
    \/ \E p \in Path : Observe(p) \/ Foreign(p)

\* A call's awaits return.
Spec == Init /\ [][Next]_vars /\ WF_vars(Runs)
-----------------------------------------------------------------------------
TypeOK ==
    /\ disk \in [Path -> 0..made] /\ seen \in [Path -> 0..made] /\ dirty \in [Path -> BOOLEAN]
    /\ \A p \in Path : \A n \in DOMAIN stack[p] : stack[p][n] \in [before : 1..made, result : 1..made]
    /\ call.pc \in {"idle", "op", "push", "write", "put", "unput", "pop", "unlink", "purge", "rename",
                    "migrate", "revert", "consume", "ended"}
    /\ call.told \in {"none", "ok", "failed", "empty", "stale"}

\* The stack as it was, short of the oldest entry when a push made room.
SameHistory(now, was) == now = was \/ (Len(was) = UndoDepth /\ now = Tail(was))

JustEnded(kind) == ~At("ended") /\ call'.pc = "ended" /\ call.kind = kind /\ call'.alone

\* "If a write fails, already-written files are restored": an edit that fails with
\* nobody else at its files leaves their texts and their histories.
FailedEditUndone ==
    JustEnded("edit") /\ call'.told = "failed" =>
        /\ disk' = call.disk
        /\ \A p \in Path : SameHistory(stack'[p], call.stack[p])

\* A revert puts back the text before the newest edit and uses up its entry alone.
UndoReverts ==
    JustEnded("undo") /\ call'.told = "ok" =>
        LET p == Op.at IN
        /\ disk'[p] = Last(call.stack[p]).before
        /\ stack'[p] = Front(call.stack[p])

\* A history that nothing else touched ends at the file's text, each entry at the next.
HistoryHolds ==
    At("idle") => \A p \in Path : ~dirty[p] /\ stack[p] # <<>> =>
        /\ Last(stack[p]).result = disk[p]
        /\ \A n \in 1..Len(stack[p]) - 1 : stack[p][n].result = stack[p][n + 1].before

\* "An external write clears the chain": nothing else does.
ClearedWhenTouched == \A p \in Path : call'.told = "stale" /\ At("idle") /\ stack'[p] # stack[p] => dirty[p]

\* With the write guard, what a call writes over is what it read, what it wrote
\* itself, or nothing; but for the edit of a file the same patch has moved, which the
\* guard has just seen where it came to be.
Known == {Absent} \cup ToSet(call.text) \cup ToSet(call.result)
OverwritesItsRead ==
    \A p \in Path : disk'[p] # disk[p] /\ seen'[p] # seen[p] /\ ~(call.kind = "patch" /\ Op.op = "move") =>
        disk[p] \in Known

\* What a patch reports of an operation is so: completed, its text is there; else
\* its file's text is where it was, or moved with its history.
Effect(n, d) ==
    LET o == call.ops[n] IN
    CASE o.op \in {"add", "update"} -> d[o.at] = call.result[n]
      [] o.op = "remove" -> d[o.at] = Absent
      [] o.op = "move" -> d[o.at] = Absent /\ d[o.to] = (IF o.hunks THEN call.result[n] ELSE call.text[n])
NoEffect(n, d, s) ==
    LET o == call.ops[n] IN
    \/ d[o.at] = call.text[n] /\ SameHistory(s[o.at], call.stack[o.at])
    \/ /\ o.op = "move" /\ d[o.at] = Absent
       /\ d[o.to] = call.text[n] /\ SameHistory(s[o.to], call.stack[o.at])
ReportIsTrue ==
    JustEnded("patch") =>
        \A n \in DOMAIN call.ops :
            IF n \in DOMAIN call'.status /\ call'.status[n] = "completed" THEN Effect(n, disk')
            ELSE NoEffect(n, disk', stack')

\* rename moves files and makes none: each is still there, with its history, whatever order
\* the pairs came in and whichever of them failed.
Files(d, s) == {<<d[p], s[p]>> : p \in {q \in Path : d[q] # Absent}}
MovesKeepFiles ==
    JustEnded("files") /\ (\A n \in DOMAIN call.ops : call.ops[n].op = "move") =>
        /\ Files(disk', stack') = Files(call.disk, call.stack)
        /\ Cardinality({p \in Path : disk'[p] # Absent}) = Cardinality({p \in Path : call.disk[p] # Absent})

\* A call ends, whatever fails in it.
CallEnds == ~At("idle") /\ ~At("ended") ~> At("idle") \/ At("ended")
=============================================================================
