----------------------------- MODULE AstClient -----------------------------
\* The life of the parse worker: src/src/ast/client.ts and the request loop of
\* src/src/ast/worker.ts.  Calls of the tools share one client; the client owns
\* one worker thread at a time, posts requests to it and matches the answers by
\* id.  The plugin's thread runs one action at a time; what a promise resumes
\* runs before the next timer or message, which is what Settled says.
EXTENDS Naturals, Sequences, FiniteSets

CONSTANTS Task,         \* callers, each with one call at a time
          File,         \* sources they ask about, one size each
          Op,           \* which of "parse", "grep" and "query" they ask
          Trigger,      \* what may stop a worker: "idle", "recycle", "dispose"
          MaxCalls,     \* bound: calls in a behaviour
          Recycler      \* who asks for the arena after a parse

MaxWorkers == 2 * MaxCalls      \* a call spawns at most one and its retry one
Worker == 1..MaxWorkers
None == 0
Source == Task \cup {Recycler}

\* There are finitely many callers, and the recycler is none of them.
CallersFit == MaxCalls \in Nat /\ IsFiniteSet(Task) /\ Recycler \notin Task

VARIABLES worker,       \* the client's #worker, or None
          thread,       \* per worker: its state and the messages in both directions
          pending,      \* #pending: requests that were sent and not settled
          call,         \* per task, the call in progress
          aborted,      \* #aborted: files that killed two workers
          idleArmed,    \* the idle timer is armed
          disposed,
          nextId,
          calls         \* calls made, for MaxCalls

vars == <<worker, thread, pending, call, aborted, idleArmed, disposed, nextId, calls>>

Unborn == [state |-> "unborn", poisoned |-> FALSE, inbox |-> <<>>, outbox |-> <<>>]
NewId == nextId + 1
Done == [pc |-> "idle", op |-> "none", file |-> "none", attempt |-> 0, on |-> None,
         killed |-> {}]

Init ==
    /\ worker = None
    /\ thread = [w \in Worker |-> Unborn]
    /\ pending = {}
    /\ call = [t \in Task |-> Done]
    /\ aborted = {}
    /\ idleArmed = FALSE
    /\ disposed = FALSE
    /\ nextId = 1
    /\ calls = 0

\* No promise of the plugin's thread is waiting to be resumed.
Settled ==
    \A t \in Task :
        /\ call[t].pc # "send"
        /\ call[t].pc = "stop" => call[t].on # None /\ thread[call[t].on].state # "dead"

Fresh == CHOOSE w \in Worker :
            thread[w].state = "unborn" /\ \A v \in 1..(w - 1) : thread[v].state # "unborn"

\* #ensureWorker: the factory runs synchronously, so two callers cannot spawn two.
EnsureWorker ==
    IF worker # None
    THEN UNCHANGED <<worker, thread>>
    ELSE /\ worker' = Fresh
         /\ thread' = [thread EXCEPT ![Fresh].state = "up"]

\* What the client's terminate() leaves of a thread.
Terminating(th, w) == IF w = None THEN th ELSE [th EXCEPT ![w].state = "dying"]

\* A tool's call, up to its first wait: refuse when disposed or when the file is
\* marked, else make sure there is a worker.
Call(t) ==
    /\ call[t].pc = "idle" /\ calls < MaxCalls
    /\ ~disposed
    /\ \E op \in Op, f \in File :
        /\ op = "parse" => f \notin aborted
        /\ call' = [call EXCEPT ![t] = [Done EXCEPT !.pc = "send", !.op = op,
                                                    !.file = f, !.attempt = 1]]
    /\ EnsureWorker
    /\ calls' = calls + 1
    /\ UNCHANGED <<pending, aborted, idleArmed, disposed, nextId>>

\* #send after the await of #ensureWorker: the worker may be gone again.
Send(t) ==
    /\ call[t].pc = "send"
    /\ IF worker = None
       THEN /\ call' = [call EXCEPT ![t] = Done]
            /\ UNCHANGED <<thread, pending, nextId>>
       ELSE /\ pending' = pending \cup {[id |-> nextId, by |-> t]}
            /\ thread' = [thread EXCEPT ![worker].inbox =
                            Append(@, [id |-> nextId, op |-> call[t].op])]
            /\ nextId' = NewId
            /\ call' = [call EXCEPT ![t].pc = "wait", ![t].on = worker]
    /\ UNCHANGED <<worker, aborted, idleArmed, disposed, calls>>

\* handleRequest.  An over-budget parse aborts the wasm instance; from then on
\* the same parser answers every parse with an ERROR-rooted tree.
Outcome(w, op) ==
    IF op = "arena" \/ thread[w].poisoned THEN {"ok"} ELSE {"ok", "fail", "abort"}

Answer(w) ==
    /\ thread[w].state = "up" /\ thread[w].inbox # <<>>
    /\ LET r == Head(thread[w].inbox) IN
        \E out \in Outcome(w, r.op) :
            thread' = [thread EXCEPT
                ![w].inbox = Tail(@),
                ![w].poisoned = @ \/ out = "abort",
                ![w].outbox = Append(@, [id |-> r.id, out |-> out,
                    bad |-> thread[w].poisoned /\ r.op # "arena"])]
    /\ UNCHANGED <<worker, pending, call, aborted, idleArmed, disposed, nextId, calls>>

\* After an abort parseSymbols and grepPattern terminate the current worker and
\* wait for it; the other requests only throw.
Stops(op) == op \in {"parse", "grep"}

\* What the caller does with its answer, up to its next wait: an abort,
Aborts(t, w) ==
    IF ~Stops(call[t].op)
    THEN /\ call' = [call EXCEPT ![t] = Done]
         /\ thread' = [thread EXCEPT ![w].outbox = Tail(@)]
         /\ UNCHANGED worker
    ELSE /\ call' = [call EXCEPT ![t].pc = "stop", ![t].on = worker,
                        ![t].killed = @ \cup {call[t].on}]
         /\ thread' = Terminating([thread EXCEPT ![w].outbox = Tail(@)], worker)
         /\ worker' = None

\* a success.  #touchIdle re-arms the timer, and parseSymbols asks for the arena
\* at once (#maybeRecycle).
Succeeds(t, w) ==
    /\ call' = [call EXCEPT ![t] = Done]
    /\ idleArmed' = (~disposed /\ "idle" \in Trigger)
    /\ LET heard == [thread EXCEPT ![w].outbox = Tail(@)]
           asks == call[t].op = "parse" /\ worker # None /\ "recycle" \in Trigger IN
        IF asks
        THEN /\ thread' = [heard EXCEPT ![worker].inbox =
                              Append(@, [id |-> nextId, op |-> "arena"])]
             /\ nextId' = nextId + 1
        ELSE thread' = heard /\ UNCHANGED nextId
    /\ UNCHANGED worker

\* #settle: the answer to a request nobody waits for is dropped.  The recycler's
\* own continuation terminates a worker whose arena is large and cache small.
Deliver(w) ==
    /\ Settled
    /\ thread[w].state \in {"up", "dying"} /\ thread[w].outbox # <<>>
    /\ LET m == Head(thread[w].outbox)
           heard == [thread EXCEPT ![w].outbox = Tail(@)]
           mine == {p \in pending : p.id = m.id} IN
        \/ /\ mine = {}
           /\ thread' = heard
           /\ UNCHANGED <<worker, pending, call, idleArmed, nextId>>
        \/ \E p \in mine :
            /\ p.by = Recycler
            /\ pending' = pending \ mine
            /\ \/ /\ thread' = heard /\ UNCHANGED worker
               \/ /\ thread' = Terminating(heard, worker) /\ worker' = None
            /\ UNCHANGED <<call, idleArmed, nextId>>
        \/ \E p \in mine :
            /\ p.by \in Task
            /\ \/ /\ m.out = "ok"
                  /\ Succeeds(p.by, w)
                  /\ pending' = (pending \ mine) \cup
                        {[id |-> i, by |-> Recycler] : i \in nextId..(nextId' - 1)}
               \/ /\ m.out = "fail"
                  /\ pending' = pending \ mine
                  /\ call' = [call EXCEPT ![p.by] = Done]
                  /\ thread' = heard
                  /\ UNCHANGED <<worker, idleArmed, nextId>>
               \/ /\ m.out = "abort"
                  /\ pending' = pending \ mine
                  /\ Aborts(p.by, w)
                  /\ UNCHANGED <<idleArmed, nextId>>
    /\ UNCHANGED <<aborted, disposed, calls>>

\* One retry on a fresh worker.
Retry(t) == call[t].op = "parse" /\ call[t].attempt = 1

\* The await of #terminate is over: retry a first abort on a new worker, mark the
\* file after a second one.
Resume(t) ==
    /\ call[t].pc = "stop"
    /\ call[t].on # None => thread[call[t].on].state = "dead"
    /\ IF Retry(t)
       THEN /\ call' = [call EXCEPT ![t].pc = "send", ![t].attempt = 2]
            /\ EnsureWorker
            /\ UNCHANGED aborted
       ELSE /\ call' = [call EXCEPT ![t] = Done]
            /\ aborted' = IF call[t].op = "parse" THEN aborted \cup {call[t].file} ELSE aborted
            /\ UNCHANGED <<worker, thread>>
    /\ UNCHANGED <<pending, idleArmed, disposed, nextId, calls>>

\* A terminated thread exits.  #onExit of a worker that is no longer the client's
\* does nothing.
Exit(w) ==
    /\ Settled
    /\ thread[w].state = "dying"
    /\ thread' = [thread EXCEPT ![w] = [Unborn EXCEPT !.state = "dead"]]
    /\ UNCHANGED <<worker, pending, call, aborted, idleArmed, disposed, nextId, calls>>

\* The callers #onExit fails.
NobodyFailed == {}
Outstanding == {t \in Task : \E p \in pending : p.by = t}

\* The thread dies by itself: #onExit of the client's worker fails everything
\* outstanding.
Dies(w) ==
    /\ Settled
    /\ thread[w].state = "up"
    /\ thread' = [thread EXCEPT ![w] = [Unborn EXCEPT !.state = "dead"]]
    /\ IF worker = w
       THEN /\ worker' = None
            /\ pending' = {}
            /\ call' = [t \in Task |-> IF t \in Outstanding THEN Done ELSE call[t]]
       ELSE UNCHANGED <<worker, pending, call>>
    /\ UNCHANGED <<aborted, idleArmed, disposed, nextId, calls>>

IdleFires ==
    /\ Settled /\ idleArmed
    /\ idleArmed' = FALSE
    /\ thread' = Terminating(thread, worker)
    /\ worker' = None
    /\ UNCHANGED <<pending, call, aborted, disposed, nextId, calls>>

\* The settings switch the feature off.
Dispose ==
    /\ Settled /\ ~disposed /\ "dispose" \in Trigger
    /\ disposed' = TRUE
    /\ idleArmed' = FALSE
    /\ thread' = Terminating(thread, worker)
    /\ worker' = None
    /\ UNCHANGED <<pending, call, aborted, nextId, calls>>

Next ==
    \/ \E t \in Task : Call(t) \/ Send(t) \/ Resume(t)
    \/ \E w \in Worker : Answer(w) \/ Deliver(w) \/ Exit(w) \/ Dies(w)
    \/ IdleFires
    \/ Dispose

\* Promises resume, a live thread answers, messages arrive, a terminated thread
\* exits.  No thread has to die and no tool has to call.
Fairness ==
    /\ \A t \in Task : WF_vars(Send(t)) /\ WF_vars(Resume(t))
    /\ \A w \in Worker : WF_vars(Answer(w)) /\ WF_vars(Deliver(w)) /\ WF_vars(Exit(w))

Spec == Init /\ [][Next]_vars /\ Fairness
-----------------------------------------------------------------------------
TypeOK ==
    /\ worker \in Worker \cup {None}
    /\ \A w \in Worker : thread[w].state \in {"unborn", "up", "dying", "dead"}
    /\ pending \subseteq [id : 1..(nextId - 1), by : Source]
    /\ \A t \in Task : call[t].pc \in {"idle", "send", "wait", "stop"}
    /\ aborted \subseteq File

\* Whatever stops workers and whenever it does, no thread is left running that
\* the client has forgotten: the arena it holds could never be reclaimed.
NoStrayThread == \A w \in Worker : thread[w].state = "up" => w = worker

\* "If the fresh worker aborts on the same file too, it is the file": a file is
\* given up only after it aborted on two different threads.
MarkedStep ==
    \A t \in Task : aborted' # aborted /\ call[t].pc = "stop" /\ call'[t].pc = "idle" =>
        Cardinality(call[t].killed) = 2

\* An aborted instance "silently returns an ERROR-rooted tree": no call is
\* answered by one, "the next call must not inherit a broken worker".
DeliveredSound ==
    \A w \in Worker : thread[w].outbox # <<>> /\ thread'[w].outbox = Tail(thread[w].outbox) =>
        LET m == Head(thread[w].outbox) IN
            m.bad => \A t \in Task : [id |-> m.id, by |-> t] \notin pending

\* "Fail everything outstanding when the worker goes away underneath us": a call that
\* waits for a worker ends, whoever stopped it.
CallsEnd == \A t \in Task : call[t].pc = "wait" ~> call[t].pc # "wait"
=============================================================================
