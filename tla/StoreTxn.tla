------------------------------ MODULE StoreTxn ------------------------------
\* The transactions of src/src/domain/session/hash-store.ts: withStore,
\* withStoreAsync, withTransaction and their busy retries, over one SQLite file
\* that several processes open.  A call's body awaits between its writes; when
\* the calls of one process overlap, a call that finds a transaction open joins it.
EXTENDS Naturals

CONSTANTS Process,
          Call,             \* calls of withStoreAsync
          Undo,             \* calls of undoPush and undoPop: one write each
          ProcessOf,        \* where a call runs
          Parts,            \* a body's writes are 1..Parts
          Overlap,          \* calls of one process overlap at their awaits
          Fails,            \* a body may throw
          Crashes,          \* a process may die
          BusyRetries       \* BUSY_RETRIES

Any == Call \cup Undo
Part == 1..Parts
Nobody == "nobody"

ASSUME TxnAssumption ==
    /\ ProcessOf \in [Any -> Process] /\ Nobody \notin Process
    /\ Call \cap Undo = {}
    /\ Parts \in Nat \ {0} /\ BusyRetries \in Nat
    /\ Overlap \in BOOLEAN /\ Fails \in BOOLEAN /\ Crashes \in BOOLEAN

VARIABLES lock,         \* the process whose BEGIN IMMEDIATE is open, or Nobody
          depth,        \* txnDepth, per process
          pending,      \* the writes of the open transaction
          durable,      \* the committed writes
          call,         \* per call: where it stands
          answer        \* per call: what its caller was told

vars == <<lock, depth, pending, durable, call, answer>>

Idle == [pc |-> "idle", role |-> "none", saved |-> 0, done |-> 0, tries |-> 0]

Init ==
    /\ lock = Nobody
    /\ depth = [p \in Process |-> 0]
    /\ pending = {}
    /\ durable = {}
    /\ call = [c \in Any |-> Idle]
    /\ answer = [c \in Any |-> "none"]

Running(p) == {c \in Any : ProcessOf[c] = p /\ call[c].pc = "run"}
MayRun(c) == Overlap \/ Running(ProcessOf[c]) = {}

Told(c, what) == answer' = [answer EXCEPT ![c] = what]
Ended(c) == [call EXCEPT ![c] = [@ EXCEPT !.pc = "done"]]

\* An open transaction is joined: no BEGIN, no COMMIT of one's own.
Join(c) ==
    LET p == ProcessOf[c] IN
    /\ c \in Call /\ call[c].pc = "idle" /\ MayRun(c)
    /\ depth[p] > 0
    /\ depth' = [depth EXCEPT ![p] = @ + 1]
    /\ call' = [call EXCEPT ![c] = [Idle EXCEPT !.pc = "run", !.role = "joined",
                                                !.saved = depth[p]]]
    /\ UNCHANGED <<lock, pending, durable, answer>>

\* The outermost call begins.
Owner == [pc |-> "run", role |-> "own", saved |-> 0, done |-> 0, tries |-> 0]
MayBegin(c) == depth[ProcessOf[c]] = 0 /\ lock = Nobody
Begin(c) ==
    LET p == ProcessOf[c] IN
    /\ c \in Call /\ call[c].pc = "idle" /\ MayRun(c)
    /\ MayBegin(c)
    /\ lock' = p
    /\ depth' = [depth EXCEPT ![p] = 1]
    /\ pending' = {}
    /\ call' = [call EXCEPT ![c] = Owner]
    /\ UNCHANGED <<durable, answer>>

OneTryMore(c) == call[c].tries <= BusyRetries
TriesLeft(c) == call[c].tries < BusyRetries

\* BEGIN is refused: another process holds the write lock, and the body is run
\* again after a pause, BusyRetries times.
Busy(c) ==
    LET p == ProcessOf[c] IN
    /\ call[c].pc = "idle" /\ MayRun(c)
    /\ c \in Call => depth[p] = 0
    /\ lock \notin {Nobody, p}
    /\ \/ /\ TriesLeft(c)
          /\ call' = [call EXCEPT ![c] = [@ EXCEPT !.tries = call[c].tries + 1]]
          /\ UNCHANGED answer
       \/ /\ ~TriesLeft(c)
          /\ call' = Ended(c) /\ Told(c, "failed")
    /\ UNCHANGED <<lock, depth, pending, durable>>

\* One write of the body, itself a withStore: inside the open transaction; with no
\* transaction open, committed by itself.
Write(c) ==
    LET p == ProcessOf[c]
        w == <<c, call[c].done + 1>> IN
    /\ call[c].pc = "run" /\ call[c].done < Parts
    /\ call' = [call EXCEPT ![c] = [@ EXCEPT !.done = call[c].done + 1]]
    /\ \/ lock = p /\ pending' = pending \cup {w} /\ UNCHANGED durable
       \/ lock = Nobody /\ durable' = durable \cup {w} /\ UNCHANGED pending
    /\ UNCHANGED <<lock, depth, answer>>

\* Mutant of DepthAfter: the end of a call leaves the nesting as it is.
DepthLeft(c) == depth

\* What the end of a call does to the nesting: the owner clears it, the others put
\* back what they found.
DepthAfter(c) == [depth EXCEPT ![ProcessOf[c]] = IF call[c].role = "own" THEN 0 ELSE call[c].saved]

CommittedAtEnd == durable \cup pending

LockKept(c) == lock
LockAfter(c) == IF call[c].role = "own" THEN Nobody ELSE lock

End(c) ==
    /\ call[c].pc = "run" /\ call[c].done = Parts
    /\ IF call[c].role = "own"
       THEN durable' = CommittedAtEnd /\ pending' = {}
       ELSE UNCHANGED <<durable, pending>>
    /\ lock' = LockAfter(c)
    /\ depth' = DepthAfter(c)
    /\ call' = Ended(c)
    /\ Told(c, "ok")

\* The body throws, or a write of its own finds another process's lock: the owner
\* rolls back, the others only tell their callers.
Throws(c) == Fails \/ lock \notin {Nobody, ProcessOf[c]}
CommittedAfterFail == durable \cup pending
KeptAfterFail == durable

Fail(c) ==
    /\ call[c].pc = "run" /\ Throws(c)
    /\ IF call[c].role = "own"
       THEN pending' = {} /\ lock' = Nobody /\ durable' = KeptAfterFail
       ELSE UNCHANGED <<durable, pending, lock>>
    /\ depth' = DepthAfter(c)
    /\ call' = Ended(c)
    /\ Told(c, "failed")

\* undoPush counts its nesting under the file's path, so it always begins a
\* transaction of its own; inside an open one SQLite refuses that.
UndoWrite(u) ==
    LET p == ProcessOf[u] IN
    /\ u \in Undo /\ call[u].pc = "idle" /\ MayRun(u)
    /\ lock \in {Nobody, p}
    /\ call' = Ended(u)
    /\ IF lock = Nobody THEN durable' = durable \cup ({u} \X Part) /\ Told(u, "ok")
                        ELSE UNCHANGED durable /\ Told(u, "failed")
    /\ UNCHANGED <<lock, depth, pending>>

\* A process dies: SQLite rolls its transaction back.
Crash(p) ==
    /\ Crashes
    /\ LET dead == {c \in Any : ProcessOf[c] = p /\ answer[c] = "none"} IN
        /\ call' = [c \in Any |-> IF c \in dead THEN [call[c] EXCEPT !.pc = "done"] ELSE call[c]]
        /\ answer' = [c \in Any |-> IF c \in dead THEN "lost" ELSE answer[c]]
    /\ depth' = [depth EXCEPT ![p] = 0]
    /\ IF lock = p THEN lock' = Nobody /\ pending' = {} ELSE UNCHANGED <<lock, pending>>
    /\ UNCHANGED durable

Next ==
    \/ \E c \in Any :
        Join(c) \/ Begin(c) \/ Busy(c) \/ Write(c) \/ End(c) \/ Fail(c) \/ UndoWrite(c)
    \/ \E p \in Process : Crash(p)

\* Bodies run on, retries are counted.
Progress(c) == Join(c) \/ Begin(c) \/ Busy(c) \/ Write(c) \/ End(c) \/ UndoWrite(c)
Fairness == \A c \in Any : WF_vars(Progress(c))

Spec == Init /\ [][Next]_vars /\ Fairness
-----------------------------------------------------------------------------
TypeOK ==
    /\ lock \in Process \cup {Nobody}
    /\ depth \in [Process -> Nat]
    /\ pending \subseteq Any \X Part
    /\ durable \subseteq Any \X Part
    /\ call \in [Any -> [pc : {"idle", "run", "done"}, role : {"none", "own", "joined"},
                         saved : Nat, done : 0..Parts, tries : 0..BusyRetries]]
    /\ answer \in [Any -> {"none", "ok", "failed", "lost"}]

\* "The counter can never outlive the BEGIN it belongs to": a process that counts
\* an open transaction has one.
DepthHasBegin == \A p \in Process : depth[p] > 0 => lock = p

\* "They commit together or not at all": what is committed of a call is all of it
\* or nothing.
AllOrNothing == \A c \in Call : (\E i \in Part : <<c, i>> \in durable) => {c} \X Part \subseteq durable

\* A caller that was told its call succeeded finds its writes in the store.
OkIsDurable == \A c \in Any : answer[c] = "ok" => {c} \X Part \subseteq durable

\* "Nesting is honoured": an undo entry is refused because of another process at
\* most, never because of this one's own transaction.
UndoNotClashing ==
    \A u \in Undo : answer'[u] = "failed" /\ answer[u] = "none" => lock # ProcessOf[u]

\* An outermost call that was told it failed left nothing behind, whoever had
\* joined it.
FailedOwnerLeavesNothing ==
    \A c \in Call : call[c].role = "own" /\ answer[c] = "failed" => durable \cap ({c} \X Part) = {}

\* An open transaction has one owner, and only the owner's process writes to it.
OneOwner ==
    lock # Nobody =>
        \E c \in Running(lock) : /\ call[c].role = "own"
                               /\ \A d \in Any : call[d].pc = "run" /\ call[d].role = "own" => d = c

\* With one call of a process at a time, "the counter can never outlive the BEGIN it
\* belongs to", the writes of a call "commit together or not at all", and a caller that
\* was told its call succeeded finds its writes in the store.
TxnsHold == DepthHasBegin /\ AllOrNothing /\ OkIsDurable

\* Transactions that do not overlap implement the atomic store: whatever process dies or
\* finds the store busy, a call's writes appear at once, with its answer.
Atomic == INSTANCE AtomicStore WITH Call <- Any, store <- durable
TxnsAtomic == Atomic!Spec

\* Every call is answered.
CallsEnd == \A c \in Any : <>(answer[c] # "none")
=============================================================================
