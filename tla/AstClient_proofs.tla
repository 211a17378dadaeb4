--------------------------- MODULE AstClient_proofs ---------------------------
(***************************************************************************)
(* Theorems about AstClient, for every set of callers and of files, every  *)
(* number of calls and everything that may stop a worker: the client       *)
(* forgets no running thread, gives a file up only after two threads       *)
(* aborted on it, and, with one caller, takes no answer from a parser that *)
(* has aborted.                                                            *)
(***************************************************************************)
EXTENDS AstClient, FiniteSetTheorems, TLAPS

\* The sets the variables range over.
Requests == [id : Nat, op : Op \cup {"arena"}]
Answers == [id : Nat, out : {"ok", "fail", "abort"}, bad : BOOLEAN]
Threads == [state : {"unborn", "up", "dying", "dead"}, poisoned : BOOLEAN,
            inbox : Seq(Requests), outbox : Seq(Answers)]
Calls == [pc : {"idle", "send", "wait", "stop"}, op : Op \cup {"none"}, file : File \cup {"none"},
          attempt : 0..2, on : Worker \cup {None}, killed : SUBSET Worker]

Typed ==
    /\ worker \in Worker \cup {None} /\ thread \in [Worker -> Threads]
    /\ nextId \in Nat \ {0} /\ pending \subseteq [id : 1..(nextId - 1), by : Source]
    /\ call \in [Task -> Calls] /\ calls \in 0..MaxCalls /\ aborted \subseteq File

\* Workers are born in order, one for each call and one for each retry: a call that has its
\* retry before it has one left.
Firsts(c) == {t \in Task : c[t].pc # "idle" /\ c[t].attempt = 1}
Born(th, n) == \A w \in Worker : th[w].state = "unborn" <=> w > n
SpawnsHold == \E n \in 0..MaxWorkers : Born(thread, n) /\ n + Cardinality(Firsts(call)) <= 2 * calls

\* The client's worker runs, and no other.
OneRuns == \A w \in Worker : thread[w].state = "up" <=> w = worker

\* A call has killed one worker per attempt that is behind it, and waits for none of them.
Gone(w) == thread[w].state \in {"dying", "dead"}
Behind(c) == IF c.pc = "stop" THEN c.attempt ELSE c.attempt - 1
CallHolds(t) ==
    LET c == call[t] IN
    IF c.pc = "idle" THEN c = Done
    ELSE /\ c.op \in Op /\ c.file \in File /\ c.attempt \in {1, 2} /\ (c.attempt = 2 => c.op = "parse")
         /\ IsFiniteSet(c.killed) /\ Cardinality(c.killed) = Behind(c) /\ \A w \in c.killed : Gone(w)
         /\ c.pc = "wait" => c.on \in Worker /\ c.on \notin c.killed /\ thread[c.on].state # "unborn"
CallsHold == \A t \in Task : CallHolds(t)

\* Who waits has one request, and no two requests have one id.
PendingHolds ==
    /\ \A p \in pending : p.by \in Task => call[p.by].pc = "wait"
    /\ \A p, q \in pending : p.id = q.id \/ (p.by = q.by /\ p.by \in Task) => p = q

ClientInv == Typed /\ SpawnsHold /\ OneRuns /\ CallsHold /\ PendingHolds

-----------------------------------------------------------------------------
LEMMA WorkersAre == ASSUME CallersFit PROVE MaxWorkers \in Nat /\ None \notin Worker
BY DEF CallersFit, MaxWorkers, Worker, None

\* Fewer first attempts leave no fewer workers to come.
LEMMA FirstsCounted ==
    ASSUME CallersFit, NEW c, NEW d, Firsts(d) \subseteq Firsts(c)
    PROVE  /\ IsFiniteSet(Firsts(c)) /\ IsFiniteSet(Firsts(d))
           /\ Cardinality(Firsts(c)) \in Nat /\ Cardinality(Firsts(d)) \in Nat
           /\ Cardinality(Firsts(d)) <= Cardinality(Firsts(c))
<1>1. Firsts(c) \subseteq Task /\ Firsts(d) \subseteq Task
      BY DEF Firsts
<1>2. IsFiniteSet(Firsts(c)) /\ IsFiniteSet(Firsts(d))
      BY <1>1, FS_Subset DEF CallersFit
<1> QED BY <1>2, FS_Subset, FS_CardinalityType

LEMMA NoneSpawned ==
    ASSUME CallersFit, Typed, SpawnsHold, calls' = calls, Firsts(call') \subseteq Firsts(call),
           \A w \in Worker : thread'[w].state = "unborn" <=> thread[w].state = "unborn"
    PROVE  SpawnsHold'
<1>1. PICK n \in 0..MaxWorkers : Born(thread, n) /\ n + Cardinality(Firsts(call)) <= 2 * calls
      BY DEF SpawnsHold
<1>2. Born(thread', n)
      BY <1>1 DEF Born
<1>3. /\ Cardinality(Firsts(call)) \in Nat /\ Cardinality(Firsts(call')) \in Nat
      /\ Cardinality(Firsts(call')) <= Cardinality(Firsts(call))
      BY FirstsCounted
<1>4. n \in Nat /\ calls \in Nat
      BY WorkersAre DEF Typed, CallersFit
<1>5. n + Cardinality(Firsts(call')) <= 2 * calls'
      BY ONLY <1>1, <1>3, <1>4, calls' = calls
<1> QED BY <1>2, <1>5 DEF SpawnsHold

\* #ensureWorker: what it leaves when there is room for one more worker.
LEMMA WorkerEnsured ==
    ASSUME CallersFit, Typed, OneRuns, EnsureWorker,
           NEW n \in 0..MaxWorkers, n < MaxWorkers, Born(thread, n)
    PROVE  /\ worker' \in Worker /\ thread' \in [Worker -> Threads] /\ OneRuns'
           /\ \E k \in 0..MaxWorkers : k <= n + 1 /\ Born(thread', k)
           /\ \A w \in Worker : thread'[w] = thread[w] \/ (thread[w].state = "unborn" /\ w = worker')
<1>1. CASE worker # None
  <2>1. worker' = worker /\ thread' = thread
        BY <1>1 DEF EnsureWorker
  <2>2. n <= n + 1
        BY WorkersAre
  <2> QED BY <1>1, <2>1, <2>2 DEF Typed, OneRuns
<1>2. CASE worker = None
  <2>1. n + 1 \in Worker /\ n + 1 \in 0..MaxWorkers /\ n \in Nat
        BY WorkersAre DEF Worker
  <2>2. /\ thread[n + 1].state = "unborn"
        /\ \A v \in 1..((n + 1) - 1) : thread[v].state # "unborn"
        BY <2>1, WorkersAre DEF Born, Worker
  <2>3. \A w \in Worker : thread[w].state = "unborn" /\ (\A v \in 1..(w - 1) : thread[v].state # "unborn")
                          => w = n + 1
        BY <2>1, <2>2, WorkersAre DEF Born, Worker
  <2>4. Fresh = n + 1
        BY <2>1, <2>2, <2>3 DEF Fresh
  <2>5. worker' = n + 1 /\ thread' = [thread EXCEPT ![n + 1].state = "up"]
        BY <1>2, <2>4 DEF EnsureWorker
  <2>6. thread' \in [Worker -> Threads]
        BY <2>1, <2>5 DEF Typed, Threads
  <2>7. \A w \in Worker : IF w = n + 1 THEN thread'[w].state = "up" ELSE thread'[w] = thread[w]
        BY <2>1, <2>5 DEF Typed, Threads
  <2>8. Born(thread', n + 1)
        BY <2>1, <2>2, <2>7, WorkersAre DEF Born, Worker
  <2>9. OneRuns'
        BY <1>2, <2>5, <2>7, WorkersAre DEF OneRuns
  <2> QED BY <2>1, <2>2, <2>5, <2>6, <2>7, <2>8, <2>9
<1> QED BY <1>1, <1>2

\* A thread's first answer is taken out of its box.
Hear(th, w) == [th EXCEPT ![w].outbox = Tail(@)]
LEMMA Hearing ==
    ASSUME NEW th \in [Worker -> Threads], NEW w \in Worker, th[w].outbox # <<>>
    PROVE  /\ Hear(th, w) \in [Worker -> Threads]
           /\ \A v \in Worker : /\ Hear(th, w)[v].state = th[v].state
                                /\ Hear(th, w)[v].inbox = th[v].inbox
                                /\ Hear(th, w)[v].poisoned = th[v].poisoned
                                /\ Hear(th, w)[v].outbox = IF v = w THEN Tail(th[v].outbox) ELSE th[v].outbox
<1>1. th[w] \in Threads /\ th[w].outbox \in Seq(Answers) /\ Tail(th[w].outbox) \in Seq(Answers)
      BY DEF Threads
<1> QED BY <1>1 DEF Hear, Threads

\* A request is put into a thread's box.
Post(th, w, r) == [th EXCEPT ![w].inbox = Append(@, r)]
LEMMA Posting ==
    ASSUME NEW th \in [Worker -> Threads], NEW w \in Worker, NEW r \in Requests
    PROVE  /\ Post(th, w, r) \in [Worker -> Threads]
           /\ \A v \in Worker : /\ Post(th, w, r)[v].state = th[v].state
                                /\ Post(th, w, r)[v].outbox = th[v].outbox
                                /\ Post(th, w, r)[v].poisoned = th[v].poisoned
                                /\ Post(th, w, r)[v].inbox = IF v = w THEN Append(th[v].inbox, r) ELSE th[v].inbox
<1>1. th[w] \in Threads /\ th[w].inbox \in Seq(Requests) /\ Append(th[w].inbox, r) \in Seq(Requests)
      BY DEF Threads
<1> QED BY <1>1 DEF Post, Threads

\* The client terminates its worker: no thread runs.
LEMMA Stopping ==
    ASSUME CallersFit, NEW th \in [Worker -> Threads], NEW u \in Worker \cup {None},
           \A v \in Worker : th[v].state = "up" <=> v = u
    PROVE  /\ Terminating(th, u) \in [Worker -> Threads]
           /\ \A v \in Worker : /\ Terminating(th, u)[v].state = IF v = u THEN "dying" ELSE th[v].state
                                /\ Terminating(th, u)[v].state # "up"
                                /\ Terminating(th, u)[v].inbox = th[v].inbox
                                /\ Terminating(th, u)[v].outbox = th[v].outbox
                                /\ Terminating(th, u)[v].poisoned = th[v].poisoned
<1>1. CASE u = None
      BY <1>1, WorkersAre DEF Terminating
<1>2. CASE u \in Worker
  <2>1. th[u] \in Threads
        BY <1>2
  <2>2. Terminating(th, u) = [th EXCEPT ![u].state = "dying"]
        BY <1>2, WorkersAre DEF Terminating
  <2>3. /\ Terminating(th, u)[u] = [th[u] EXCEPT !.state = "dying"]
        /\ \A v \in Worker : v # u => Terminating(th, u)[v] = th[v]
        BY <1>2, <2>2
  <2>4. [th[u] EXCEPT !.state = "dying"] \in Threads
        BY <2>1 DEF Threads
  <2>5. Terminating(th, u) \in [Worker -> Threads]
        BY <1>2, <2>2, <2>4
  <2>6. /\ Terminating(th, u)[u].state = "dying" /\ Terminating(th, u)[u].inbox = th[u].inbox
        /\ Terminating(th, u)[u].outbox = th[u].outbox /\ Terminating(th, u)[u].poisoned = th[u].poisoned
        BY <2>1, <2>3 DEF Threads
  <2> HIDE DEF Terminating
  <2> QED BY <1>2, <2>3, <2>5, <2>6
<1> QED BY <1>1, <1>2
-----------------------------------------------------------------------------
\* What no step does to a thread: bring one back.
Onward == \A w \in Worker : /\ Gone(w) => Gone(w)'
                            /\ thread[w].state # "unborn" => thread'[w].state # "unborn"

LEMMA CallStays ==
    ASSUME Typed, Onward, NEW t \in Task, CallHolds(t), call'[t] = call[t]
    PROVE  CallHolds(t)'
<1>1. call[t].killed \subseteq Worker
      BY DEF Typed, Calls
<1>2. CASE call[t].pc = "idle"
      BY <1>2 DEF CallHolds
<1>3. CASE call[t].pc # "idle"
  <2>1. \A w \in call'[t].killed : Gone(w)'
        BY <1>1, <1>3 DEF CallHolds, Onward
  <2>2. call'[t].pc = "wait" => call'[t].on \in Worker /\ thread'[call'[t].on].state # "unborn"
        BY <1>3 DEF CallHolds, Onward
  <2> QED BY <1>3, <2>1, <2>2 DEF CallHolds
<1> QED BY <1>2, <1>3

\* A tool's call begins.
LEMMA CallKeeps ==
    ASSUME CallersFit, ClientInv, NEW t \in Task, Call(t)
    PROVE  ClientInv'
<1>1. PICK op \in Op, f \in File :
          call' = [call EXCEPT ![t] = [Done EXCEPT !.pc = "send", !.op = op, !.file = f, !.attempt = 1]]
      BY DEF Call
<1> DEFINE new == [Done EXCEPT !.pc = "send", !.op = op, !.file = f, !.attempt = 1]
<1>2. /\ call[t].pc = "idle" /\ calls' = calls + 1 /\ calls < MaxCalls /\ EnsureWorker
      /\ UNCHANGED <<pending, aborted, nextId>>
      BY DEF Call
<1>3. /\ new \in Calls /\ new.pc = "send" /\ new.op = op /\ new.file = f /\ new.attempt = 1
      /\ new.killed = {}
  <2> DEFINE Begun(pc, o, g, n) == [pc |-> pc, op |-> o, file |-> g, attempt |-> n, on |-> None, killed |-> {}]
  <2>1. new = Begun("send", op, f, 1)
    <3>1. [Begun("idle", "none", "none", 0) EXCEPT !.pc = "send"] = Begun("send", "none", "none", 0)
          OBVIOUS
    <3>2. [Begun("send", "none", "none", 0) EXCEPT !.op = op] = Begun("send", op, "none", 0)
          OBVIOUS
    <3>3. [Begun("send", op, "none", 0) EXCEPT !.file = f] = Begun("send", op, f, 0)
          OBVIOUS
    <3>4. [Begun("send", op, f, 0) EXCEPT !.attempt = 1] = Begun("send", op, f, 1)
          OBVIOUS
    <3>5. Done = Begun("idle", "none", "none", 0)
          BY DEF Done
    <3> HIDE DEF Begun
    <3> QED BY <3>1, <3>2, <3>3, <3>4, <3>5
  <2>2. op \in Op \cup {"none"} /\ f \in File \cup {"none"} /\ 1 \in 0..2
        BY <1>1
  <2> HIDE DEF new
  <2> QED BY <2>1, <2>2 DEF Calls
<1>4. call'[t] = new /\ \A u \in Task : u # t => call'[u] = call[u]
      BY <1>1 DEF ClientInv, Typed
<1> HIDE DEF new
<1>5. PICK n \in 0..MaxWorkers : Born(thread, n) /\ n + Cardinality(Firsts(call)) <= 2 * calls
      BY DEF ClientInv, SpawnsHold
<1>6. /\ n \in Nat /\ calls \in Nat /\ calls' \in 0..MaxCalls /\ MaxCalls \in Nat
      BY <1>2, WorkersAre DEF ClientInv, Typed, CallersFit
<1>7. Cardinality(Firsts(call)) \in Nat /\ IsFiniteSet(Firsts(call))
      BY FirstsCounted
<1>8. n < MaxWorkers
      BY <1>2, <1>5, <1>6, <1>7 DEF MaxWorkers
<1>9. /\ worker' \in Worker /\ thread' \in [Worker -> Threads] /\ OneRuns'
      /\ \E k \in 0..MaxWorkers : k <= n + 1 /\ Born(thread', k)
      /\ \A w \in Worker : thread'[w] = thread[w] \/ (thread[w].state = "unborn" /\ w = worker')
      BY <1>2, <1>5, <1>8, WorkerEnsured DEF ClientInv
<1>10. Typed'
      BY <1>1, <1>2, <1>3, <1>6, <1>9 DEF ClientInv, Typed, new
<1>11. SpawnsHold'
  <2>1. Firsts(call') \subseteq Firsts(call) \cup {t}
        BY <1>4 DEF Firsts
  <2>2. /\ Cardinality(Firsts(call) \cup {t}) <= Cardinality(Firsts(call)) + 1
        /\ IsFiniteSet(Firsts(call) \cup {t}) /\ Cardinality(Firsts(call) \cup {t}) \in Nat
    <3>1. /\ IsFiniteSet(Firsts(call) \cup {t})
          /\ Cardinality(Firsts(call) \cup {t}) =
                 IF t \in Firsts(call) THEN Cardinality(Firsts(call)) ELSE Cardinality(Firsts(call)) + 1
          BY <1>7, FS_AddElement
    <3> QED BY <1>7, <3>1
  <2>3. Cardinality(Firsts(call')) <= Cardinality(Firsts(call)) + 1 /\ Cardinality(Firsts(call')) \in Nat
    <3>1. IsFiniteSet(Firsts(call')) /\ Cardinality(Firsts(call')) <= Cardinality(Firsts(call) \cup {t})
          BY <2>1, <2>2, FS_Subset
    <3>2. Cardinality(Firsts(call')) \in Nat
          BY <3>1, FS_CardinalityType
    <3> QED BY <1>7, <2>2, <3>1, <3>2
  <2>4. PICK k \in 0..MaxWorkers : k <= n + 1 /\ Born(thread', k)
        BY <1>9
  <2>5. k \in Nat
        BY WorkersAre
  <2>6. k + Cardinality(Firsts(call')) <= 2 * calls'
        BY <1>2, <1>5, <1>6, <1>7, <2>3, <2>4, <2>5
  <2> QED BY <2>4, <2>6 DEF SpawnsHold
<1>12. CallsHold'
  <2> SUFFICES ASSUME NEW u \in Task PROVE CallHolds(u)'
        BY DEF CallsHold
  <2>1. CASE u = t
    <3>1. IsFiniteSet({}) /\ Cardinality({}) = 0
          BY FS_EmptySet
    <3> QED BY <1>3, <1>4, <2>1, <3>1 DEF CallHolds, Behind
  <2>2. CASE u # t
    <3>1. Onward
          BY <1>9 DEF Onward, Gone, ClientInv, OneRuns
    <3> QED BY <1>4, <2>2, <3>1, CallStays DEF ClientInv, CallsHold
  <2> QED BY <2>1, <2>2
<1>13. PendingHolds'
      BY <1>2, <1>4 DEF ClientInv, PendingHolds
<1> QED BY <1>9, <1>10, <1>11, <1>12, <1>13 DEF ClientInv

\* Its request is sent.
LEMMA SendKeeps ==
    ASSUME CallersFit, ClientInv, NEW t \in Task, Send(t)
    PROVE  ClientInv'
<1>1. /\ call[t].pc = "send" /\ worker' = worker /\ aborted' = aborted /\ calls' = calls
      BY DEF Send
<1>2. CallHolds(t) /\ call[t] \in Calls
      BY DEF ClientInv, CallsHold, Typed
<1>3. CASE worker = None
  <2>1. /\ call' = [call EXCEPT ![t] = Done] /\ UNCHANGED <<thread, pending, nextId>>
        BY <1>3 DEF Send
  <2>2. Done \in Calls /\ Done.pc = "idle"
        BY WorkersAre DEF Done, Calls, None
  <2>3. call'[t] = Done /\ \A u \in Task : u # t => call'[u] = call[u]
        BY <2>1 DEF ClientInv, Typed
  <2>4. Typed'
        BY <1>1, <2>1, <2>2 DEF ClientInv, Typed
  <2>5. SpawnsHold'
    <3>1. Firsts(call') \subseteq Firsts(call)
          BY <2>2, <2>3 DEF Firsts
    <3> QED BY <1>1, <2>1, <3>1, NoneSpawned DEF ClientInv
  <2>6. CallsHold'
    <3>1. Onward
          BY <2>1 DEF Onward, Gone
    <3>2. CallHolds(t)'
          BY <2>2, <2>3 DEF CallHolds
    <3> QED BY <2>3, <3>1, <3>2, CallStays DEF ClientInv, CallsHold
  <2>7. PendingHolds'
        BY <1>1, <2>1, <2>3 DEF ClientInv, PendingHolds
  <2>8. OneRuns'
        BY <1>1, <2>1 DEF ClientInv, OneRuns
  <2> QED BY <2>4, <2>5, <2>6, <2>7, <2>8 DEF ClientInv
<1>4. CASE worker # None
  <2> DEFINE r == [id |-> nextId, op |-> call[t].op]
             p == [id |-> nextId, by |-> t]
  <2>1. /\ pending' = pending \cup {p} /\ nextId' = nextId + 1
        /\ thread' = Post(thread, worker, r)
        /\ call' = [call EXCEPT ![t].pc = "wait", ![t].on = worker]
        BY <1>4 DEF Send, NewId, Post
  <2>2. worker \in Worker /\ r \in Requests /\ nextId \in Nat \ {0}
        BY <1>1, <1>2, <1>4 DEF ClientInv, Typed, Requests, CallHolds
  <2>3. /\ thread' \in [Worker -> Threads]
        /\ \A v \in Worker : thread'[v].state = thread[v].state
        BY <2>1, <2>2, Posting DEF ClientInv, Typed
  <2>4. /\ call'[t] = [call[t] EXCEPT !.pc = "wait", !.on = worker]
        /\ \A u \in Task : u # t => call'[u] = call[u]
        BY <2>1 DEF ClientInv, Typed
  <2>5. /\ call'[t] \in Calls /\ call'[t].pc = "wait" /\ call'[t].on = worker
        /\ call'[t].op = call[t].op /\ call'[t].file = call[t].file /\ call'[t].attempt = call[t].attempt
        /\ call'[t].killed = call[t].killed
        BY <1>2, <2>2, <2>4 DEF Calls
  <2>6. Typed'
    <3>1. call' \in [Task -> Calls]
          BY <2>1, <2>4, <2>5 DEF ClientInv, Typed
    <3>2. pending' \subseteq [id : 1..(nextId' - 1), by : Source] /\ nextId' \in Nat \ {0}
          BY <2>1, <2>2 DEF ClientInv, Typed, Source
    <3> QED BY <1>1, <2>3, <3>1, <3>2 DEF ClientInv, Typed
  <2>7. SpawnsHold'
    <3>1. Firsts(call') \subseteq Firsts(call)
          BY <1>1, <2>4, <2>5 DEF Firsts
    <3> QED BY <1>1, <2>3, <3>1, NoneSpawned DEF ClientInv
  <2>8. CallsHold'
    <3>1. Onward
          BY <2>3 DEF Onward, Gone
    <3>2. CallHolds(t)'
      <4>1. thread[worker].state = "up"
            BY <2>2 DEF ClientInv, OneRuns
      <4>2. worker \notin call[t].killed
            BY <1>1, <1>2, <4>1 DEF CallHolds, Gone
      <4>3. \A w \in call'[t].killed : Gone(w)'
            BY <1>1, <1>2, <2>3, <2>5 DEF CallHolds, Gone, Calls
      <4> QED BY <1>1, <1>2, <2>2, <2>3, <2>5, <4>1, <4>2, <4>3 DEF CallHolds, Behind
    <3> QED BY <2>4, <3>1, <3>2, CallStays DEF ClientInv, CallsHold
  <2>9. PendingHolds'
    <3>1. \A q \in pending : q.id \in 1..(nextId - 1) /\ q.id # nextId /\ q.by # t
          BY <1>1, <2>2 DEF ClientInv, Typed, PendingHolds
    <3>2. p.id = nextId /\ p.by = t
          OBVIOUS
    <3> HIDE DEF p
    <3>3. \A q \in pending' : q.by \in Task => call'[q.by].pc = "wait"
          BY <2>1, <2>4, <2>5, <3>1, <3>2, ZenonT(60) DEF ClientInv, PendingHolds
    <3> QED BY <2>1, <3>1, <3>2, <3>3 DEF ClientInv, PendingHolds
  <2>10. OneRuns'
        BY <1>1, <2>3 DEF ClientInv, OneRuns
  <2> QED BY <2>6, <2>7, <2>8, <2>9, <2>10 DEF ClientInv
<1> QED BY <1>3, <1>4
\* A step that spawns no worker, and leaves each call as it is, ended, or further.
LEMMA StepKeeps ==
    ASSUME CallersFit, ClientInv, Typed', OneRuns', Onward, PendingHolds', calls' = calls,
           \A w \in Worker : thread'[w].state = "unborn" <=> thread[w].state = "unborn",
           \A u \in Task : \/ call'[u] = call[u]
                           \/ call'[u] = Done
                           \/ CallHolds(u)' /\ call'[u].attempt = call[u].attempt /\ call[u].pc # "idle"
    PROVE  ClientInv'
<1>1. Done.pc = "idle"
      BY DEF Done
<1>2. Firsts(call') \subseteq Firsts(call)
      BY <1>1 DEF Firsts
<1>3. SpawnsHold'
      BY <1>2, NoneSpawned DEF ClientInv
<1>4. CallsHold'
  <2> SUFFICES ASSUME NEW u \in Task PROVE CallHolds(u)'
      BY DEF CallsHold
  <2>1. CASE call'[u] = call[u]
        BY <2>1, CallStays DEF ClientInv, CallsHold
  <2>2. CASE call'[u] = Done
        BY <1>1, <2>2 DEF CallHolds
  <2> QED BY <2>1, <2>2
<1> QED BY <1>3, <1>4 DEF ClientInv

LEMMA PendingShrinks ==
    ASSUME PendingHolds, pending' \subseteq pending,
           \A p \in pending' : p.by \in Task => call'[p.by].pc = "wait"
    PROVE  PendingHolds'
BY DEF PendingHolds

\* A step of the threads alone.
LEMMA ThreadsMove ==
    ASSUME CallersFit, ClientInv, thread' \in [Worker -> Threads], worker' \in Worker \cup {None},
           OneRuns', Onward, UNCHANGED <<call, aborted, nextId, calls>>, pending' \subseteq pending,
           \A w \in Worker : thread'[w].state = "unborn" <=> thread[w].state = "unborn"
    PROVE  ClientInv'
<1>1. Typed'
      BY DEF ClientInv, Typed
<1>2. PendingHolds'
      BY PendingShrinks DEF ClientInv, PendingHolds
<1> QED BY <1>1, <1>2, StepKeeps

\* The thread answers its first request.
Answered(w, out) ==
    thread' = [thread EXCEPT
        ![w].inbox = Tail(@),
        ![w].poisoned = @ \/ out = "abort",
        ![w].outbox = Append(@, [id |-> Head(thread[w].inbox).id, out |-> out,
            bad |-> thread[w].poisoned /\ Head(thread[w].inbox).op # "arena"])]
LEMMA Answering ==
    ASSUME Typed, NEW w \in Worker, thread[w].inbox # <<>>, NEW out \in {"ok", "fail", "abort"}, Answered(w, out)
    PROVE  LET r == Head(thread[w].inbox)
               m == [id |-> r.id, out |-> out, bad |-> thread[w].poisoned /\ r.op # "arena"] IN
           /\ r \in Requests /\ m \in Answers
           /\ thread' \in [Worker -> Threads]
           /\ \A v \in Worker : v # w => thread'[v] = thread[v]
           /\ thread'[w].state = thread[w].state
           /\ thread'[w].inbox = Tail(thread[w].inbox)
           /\ thread'[w].poisoned = (thread[w].poisoned \/ out = "abort")
           /\ thread'[w].outbox = Append(thread[w].outbox, m)
<1> DEFINE r == Head(thread[w].inbox)
           m == [id |-> r.id, out |-> out, bad |-> thread[w].poisoned /\ r.op # "arena"]
           x == thread[w]
           new == [state |-> x.state, poisoned |-> (x.poisoned \/ out = "abort"),
                   inbox |-> Tail(x.inbox), outbox |-> Append(x.outbox, m)]
<1>1. /\ x \in Threads /\ x.inbox \in Seq(Requests) /\ x.outbox \in Seq(Answers)
      /\ x.state \in {"unborn", "up", "dying", "dead"} /\ x.poisoned \in BOOLEAN
  <2>1. x \in Threads
        BY DEF Typed
  <2> QED BY <2>1 DEF Threads
<1>2. r \in Requests
      BY <1>1
<1>3. m \in Answers
      BY <1>1, <1>2 DEF Answers, Requests
<1>4. x = [state |-> x.state, poisoned |-> x.poisoned, inbox |-> x.inbox, outbox |-> x.outbox]
      BY <1>1 DEF Threads
<1>5. thread' = [thread EXCEPT ![w] = new]
  <2>1. thread' = [[[thread EXCEPT ![w].inbox = Tail(@)] EXCEPT ![w].poisoned = (@ \/ out = "abort")]
                            EXCEPT ![w].outbox = Append(@, m)]
        BY DEF Answered
  <2> DEFINE y == [[[x EXCEPT !.inbox = Tail(@)] EXCEPT !.poisoned = (@ \/ out = "abort")]
                            EXCEPT !.outbox = Append(@, m)]
  <2>2. y = new
    <3> DEFINE s == x.state
               p == x.poisoned
               i == x.inbox
               o == x.outbox
               t == Tail(i)
               q == (p \/ out = "abort")
               z == [state |-> s, poisoned |-> p, inbox |-> i, outbox |-> o]
    <3>1. x = z
          BY <1>4
    <3>2. [z EXCEPT !.inbox = Tail(@)] = [state |-> s, poisoned |-> p, inbox |-> t, outbox |-> o]
          OBVIOUS
    <3>3. [[state |-> s, poisoned |-> p, inbox |-> t, outbox |-> o] EXCEPT !.poisoned = (@ \/ out = "abort")]
          = [state |-> s, poisoned |-> q, inbox |-> t, outbox |-> o]
      <4> HIDE DEF s, p, t, o
      <4> QED OBVIOUS
    <3>4. [[state |-> s, poisoned |-> q, inbox |-> t, outbox |-> o] EXCEPT !.outbox = Append(@, m)]
          = [state |-> s, poisoned |-> q, inbox |-> t, outbox |-> Append(o, m)]
      <4> HIDE DEF s, q, t, o, m
      <4> QED OBVIOUS
    <3> HIDE DEF z, m
    <3> QED BY <3>1, <3>2, <3>3, <3>4
  <2> HIDE DEF m, new
  <2> QED BY <2>1, <2>2 DEF Typed
<1>6. new \in Threads
  <2>1. Tail(x.inbox) \in Seq(Requests) /\ Append(x.outbox, m) \in Seq(Answers)
        BY <1>1, <1>3
  <2> HIDE DEF m, x
  <2> QED BY <1>1, <2>1 DEF Threads
<1> HIDE DEF new
<1>7. /\ thread' \in [Worker -> Threads] /\ thread'[w] = new
      /\ \A v \in Worker : v # w => thread'[v] = thread[v]
      BY <1>5, <1>6 DEF Typed
<1> QED BY <1>2, <1>3, <1>7 DEF new

LEMMA AnswerIs ==
    ASSUME NEW w \in Worker, Answer(w)
    PROVE  /\ thread[w].state = "up" /\ thread[w].inbox # <<>>
           /\ UNCHANGED <<worker, pending, call, aborted, nextId, calls>>
           /\ \E out \in Outcome(w, Head(thread[w].inbox).op) : out \in {"ok", "fail", "abort"} /\ Answered(w, out)
BY DEF Answer, Outcome, Answered

LEMMA AnswerKeeps ==
    ASSUME CallersFit, ClientInv, NEW w \in Worker, Answer(w)
    PROVE  ClientInv'
<1>1. PICK out \in {"ok", "fail", "abort"} : Answered(w, out)
      BY AnswerIs
<1>2. thread[w].inbox # <<>> /\ UNCHANGED <<worker, pending, call, aborted, nextId, calls>>
      BY AnswerIs
<1>3. thread' \in [Worker -> Threads] /\ \A v \in Worker : thread'[v].state = thread[v].state
      BY <1>1, <1>2, Answering DEF ClientInv
<1>4. OneRuns' /\ Onward
      BY <1>2, <1>3 DEF ClientInv, OneRuns, Onward, Gone
<1> QED BY <1>2, <1>3, <1>4, ThreadsMove DEF ClientInv, Typed

LEMMA Ending ==
    ASSUME Typed, NEW w \in Worker, thread' = [thread EXCEPT ![w] = [Unborn EXCEPT !.state = "dead"]]
    PROVE  /\ thread' \in [Worker -> Threads]
           /\ \A v \in Worker : v # w => thread'[v] = thread[v]
           /\ thread'[w].state = "dead" /\ thread'[w].outbox = <<>> /\ thread'[w].inbox = <<>>
<1>1. [Unborn EXCEPT !.state = "dead"] = [state |-> "dead", poisoned |-> FALSE, inbox |-> <<>>, outbox |-> <<>>]
  <2> DEFINE e == <<>>
             f == FALSE
  <2>1. Unborn = [state |-> "unborn", poisoned |-> f, inbox |-> e, outbox |-> e]
        BY DEF Unborn
  <2> HIDE DEF e, f
  <2>2. [[state |-> "unborn", poisoned |-> f, inbox |-> e, outbox |-> e] EXCEPT !.state = "dead"]
        = [state |-> "dead", poisoned |-> f, inbox |-> e, outbox |-> e]
        OBVIOUS
  <2> QED BY <2>1, <2>2 DEF e, f
<1>2. [state |-> "dead", poisoned |-> FALSE, inbox |-> <<>>, outbox |-> <<>>] \in Threads
      BY DEF Threads
<1> QED BY <1>1, <1>2 DEF Typed

LEMMA ExitKeeps ==
    ASSUME CallersFit, ClientInv, NEW w \in Worker, Exit(w)
    PROVE  ClientInv'
<1>1. /\ thread[w].state = "dying" /\ thread' = [thread EXCEPT ![w] = [Unborn EXCEPT !.state = "dead"]]
      /\ UNCHANGED <<worker, pending, call, aborted, nextId, calls>>
      BY DEF Exit
<1>2. /\ thread' \in [Worker -> Threads] /\ thread'[w].state = "dead"
      /\ \A v \in Worker : v # w => thread'[v] = thread[v]
      BY <1>1, Ending DEF ClientInv
<1>3. OneRuns' /\ Onward
      BY <1>1, <1>2 DEF ClientInv, OneRuns, Onward, Gone
<1> QED BY <1>1, <1>2, <1>3, ThreadsMove DEF ClientInv, Typed

LEMMA DiesKeeps ==
    ASSUME CallersFit, ClientInv, NEW w \in Worker, Dies(w)
    PROVE  ClientInv'
<1>1. /\ thread[w].state = "up" /\ thread' = [thread EXCEPT ![w] = [Unborn EXCEPT !.state = "dead"]]
      /\ UNCHANGED <<aborted, nextId, calls>>
      BY DEF Dies
<1>2. /\ thread' \in [Worker -> Threads] /\ thread'[w].state = "dead"
      /\ \A v \in Worker : v # w => thread'[v] = thread[v]
      BY <1>1, Ending DEF ClientInv
<1>3. worker = w
      BY <1>1 DEF ClientInv, OneRuns
<1>4. /\ worker' = None /\ pending' = {}
      /\ call' = [t \in Task |-> IF t \in Outstanding THEN Done ELSE call[t]]
      BY <1>3 DEF Dies
<1>5. OneRuns' /\ Onward
      BY <1>1, <1>2, <1>3, <1>4, WorkersAre DEF ClientInv, OneRuns, Onward, Gone
<1>6. Done \in Calls
      BY WorkersAre DEF Done, Calls, None
<1>7. Typed' /\ PendingHolds'
      BY <1>1, <1>2, <1>4, <1>6 DEF ClientInv, Typed, PendingHolds
<1> QED BY <1>1, <1>2, <1>4, <1>5, <1>7, StepKeeps

\* The worker is stopped from outside.
LEMMA StopKeeps ==
    ASSUME CallersFit, ClientInv, thread' = Terminating(thread, worker), worker' = None,
           UNCHANGED <<pending, call, aborted, nextId, calls>>
    PROVE  ClientInv'
<1>1. /\ thread' \in [Worker -> Threads]
      /\ \A v \in Worker : /\ thread'[v].state = IF v = worker THEN "dying" ELSE thread[v].state
                           /\ thread'[v].state # "up"
      BY Stopping DEF ClientInv, Typed, OneRuns
<1>2. OneRuns'
      BY <1>1, WorkersAre DEF OneRuns
<1>3. Onward /\ \A w \in Worker : thread'[w].state = "unborn" <=> thread[w].state = "unborn"
      BY <1>1 DEF ClientInv, OneRuns, Onward, Gone
<1> QED BY <1>1, <1>2, <1>3, ThreadsMove

LEMMA OutsideKeeps ==
    ASSUME CallersFit, ClientInv, IdleFires \/ Dispose
    PROVE  ClientInv'
BY StopKeeps DEF IdleFires, Dispose
\* The worker that aborted is gone: the call is tried on another, or is over.
LEMMA ResumeKeeps ==
    ASSUME CallersFit, ClientInv, NEW t \in Task, Resume(t)
    PROVE  ClientInv'
<1>1. /\ call[t].pc = "stop" /\ UNCHANGED <<pending, nextId, calls>>
      BY DEF Resume
<1>2. CallHolds(t) /\ call[t] \in Calls
      BY DEF ClientInv, CallsHold, Typed
<1>3. CASE Retry(t)
  <2>1. /\ call' = [call EXCEPT ![t].pc = "send", ![t].attempt = 2] /\ EnsureWorker /\ aborted' = aborted
        /\ call[t].op = "parse" /\ call[t].attempt = 1
        BY <1>3 DEF Resume, Retry
  <2>2. /\ call'[t] = [call[t] EXCEPT !.pc = "send", !.attempt = 2]
        /\ \A u \in Task : u # t => call'[u] = call[u]
        BY <2>1 DEF ClientInv, Typed
  <2>3. /\ call'[t] \in Calls /\ call'[t].pc = "send" /\ call'[t].attempt = 2
        /\ call'[t].op = call[t].op /\ call'[t].file = call[t].file /\ call'[t].killed = call[t].killed
    <3> DEFINE c == call[t]
               d == call'[t]
    <3>1. c \in Calls /\ d = [c EXCEPT !.pc = "send", !.attempt = 2]
          BY <1>2, <2>2
    <3> HIDE DEF c, d
    <3>2. d \in Calls
      <4>1. d = [pc |-> "send", op |-> c.op, file |-> c.file, attempt |-> 2, on |-> c.on, killed |-> c.killed]
            BY <3>1 DEF Calls
      <4>2. /\ c.op \in Op \cup {"none"} /\ c.file \in File \cup {"none"} /\ c.on \in Worker \cup {None}
            /\ c.killed \in SUBSET Worker
            BY <3>1 DEF Calls
      <4>3. 2 \in 0..2
            OBVIOUS
      <4> QED BY <4>1, <4>2, <4>3 DEF Calls
    <3>3. /\ d.pc = "send" /\ d.attempt = 2
          /\ d.op = c.op /\ d.file = c.file /\ d.killed = c.killed
          BY <3>1 DEF Calls
    <3> QED BY <3>2, <3>3 DEF c, d
  <2>4. PICK n \in 0..MaxWorkers : Born(thread, n) /\ n + Cardinality(Firsts(call)) <= 2 * calls
        BY DEF ClientInv, SpawnsHold
  <2>5. n \in Nat /\ calls \in Nat /\ calls <= MaxCalls /\ MaxCalls \in Nat
        BY <2>4, WorkersAre DEF ClientInv, Typed, CallersFit
  <2>6. IsFiniteSet(Firsts(call)) /\ Cardinality(Firsts(call)) \in Nat
        BY FirstsCounted
  <2>7. t \in Firsts(call)
        BY <1>1, <2>1 DEF Firsts
  <2>8. Cardinality(Firsts(call) \ {t}) = Cardinality(Firsts(call)) - 1 /\ IsFiniteSet(Firsts(call) \ {t})
        BY <2>6, <2>7, FS_RemoveElement
  <2>9. Firsts(call') \subseteq Firsts(call) \ {t}
    <3> SUFFICES ASSUME NEW u \in Task, call'[u].pc # "idle", call'[u].attempt = 1
                 PROVE  u # t /\ call[u].pc # "idle" /\ call[u].attempt = 1
        BY DEF Firsts
    <3>1. u # t
          BY <2>3
    <3> QED BY <2>2, <3>1
  <2>10. /\ Cardinality(Firsts(call')) \in Nat
         /\ Cardinality(Firsts(call')) <= Cardinality(Firsts(call)) - 1
    <3>1. IsFiniteSet(Firsts(call')) /\ Cardinality(Firsts(call')) <= Cardinality(Firsts(call) \ {t})
          BY <2>8, <2>9, FS_Subset
    <3> QED BY <2>8, <3>1, FS_CardinalityType
  <2>11. n < MaxWorkers
    <3>1. Cardinality(Firsts(call)) >= 1
          BY <2>6, <2>10
    <3> QED BY <2>4, <2>5, <2>6, <3>1 DEF MaxWorkers
  <2>12. /\ worker' \in Worker /\ thread' \in [Worker -> Threads] /\ OneRuns'
         /\ \E k \in 0..MaxWorkers : k <= n + 1 /\ Born(thread', k)
         /\ \A w \in Worker : thread'[w] = thread[w] \/ (thread[w].state = "unborn" /\ w = worker')
         BY <2>1, <2>4, <2>11, WorkerEnsured DEF ClientInv
  <2>13. Typed'
    <3>1. call' \in [Task -> Calls]
          BY <2>1, <2>2, <2>3 DEF ClientInv, Typed
    <3> QED BY <1>1, <2>1, <2>12, <3>1 DEF ClientInv, Typed
  <2>14. SpawnsHold'
    <3>1. PICK k \in 0..MaxWorkers : k <= n + 1 /\ Born(thread', k)
          BY <2>12
    <3>2. k \in Nat
          BY <3>1, WorkersAre
    <3>3. k + Cardinality(Firsts(call')) <= 2 * calls'
          BY <1>1, <2>4, <2>5, <2>6, <2>10, <3>1, <3>2
    <3> QED BY <3>1, <3>3 DEF SpawnsHold
  <2>15. CallsHold'
    <3>1. Onward
          BY <2>12 DEF Onward, Gone, ClientInv, OneRuns
    <3>2. CallHolds(t)'
      <4>1. \A w \in call'[t].killed : Gone(w)'
            BY <1>1, <1>2, <2>3, <3>1 DEF CallHolds, Onward, Calls
      <4>2. IsFiniteSet(call[t].killed) /\ Cardinality(call[t].killed) = 1
            BY <1>1, <1>2, <2>1 DEF CallHolds, Behind
      <4>3. Behind(call'[t]) = 1
            BY <2>3 DEF Behind
      <4>4. call[t].op \in Op /\ call[t].file \in File
            BY <1>1, <1>2 DEF CallHolds
      <4> QED BY <2>1, <2>3, <4>1, <4>2, <4>3, <4>4 DEF CallHolds
    <3> QED BY <2>2, <3>1, <3>2, CallStays DEF ClientInv, CallsHold
  <2>16. PendingHolds'
        BY <1>1, <2>2 DEF ClientInv, PendingHolds
  <2> QED BY <2>12, <2>13, <2>14, <2>15, <2>16 DEF ClientInv
<1>4. CASE ~Retry(t)
  <2>1. /\ call' = [call EXCEPT ![t] = Done] /\ UNCHANGED <<worker, thread>>
        /\ aborted' = aborted \/ aborted' = aborted \cup {call[t].file}
        BY <1>4 DEF Resume
  <2>2. Done \in Calls
        BY WorkersAre DEF Done, Calls, None
  <2>3. call'[t] = Done /\ \A u \in Task : u # t => call'[u] = call[u]
        BY <2>1 DEF ClientInv, Typed
  <2>4. call[t].file \in File
        BY <1>1, <1>2 DEF CallHolds
  <2>5. Typed'
        BY <1>1, <2>1, <2>2, <2>4 DEF ClientInv, Typed
  <2>6. Onward /\ OneRuns'
        BY <2>1 DEF Onward, Gone, ClientInv, OneRuns
  <2>7. PendingHolds'
        BY <1>1, <2>3 DEF ClientInv, PendingHolds
  <2> QED BY <1>1, <2>1, <2>3, <2>5, <2>6, <2>7, StepKeeps
<1> QED BY <1>3, <1>4

\* What a message that is delivered does: it is heard, and then, unless nobody waits for it,
\* its request is settled.
Mine(w) == {p \in pending : p.id = Head(thread[w].outbox).id}
Settles(w) ==
    \/ /\ Mine(w) = {} /\ thread' = Hear(thread, w) /\ UNCHANGED <<worker, pending, call, nextId>>
    \/ /\ pending' = pending \ Mine(w) /\ UNCHANGED <<call, nextId>>
       /\ \E p \in Mine(w) : p.by = Recycler
       /\ \/ thread' = Hear(thread, w) /\ UNCHANGED worker
          \/ thread' = Terminating(Hear(thread, w), worker) /\ worker' = None
TaskSettles(w, t) ==
    \/ /\ Head(thread[w].outbox).out = "ok" /\ Succeeds(t, w)
       /\ pending' = (pending \ Mine(w)) \cup {[id |-> i, by |-> Recycler] : i \in nextId..(nextId' - 1)}
    \/ /\ Head(thread[w].outbox).out = "fail" /\ pending' = pending \ Mine(w)
       /\ call' = [call EXCEPT ![t] = Done] /\ thread' = Hear(thread, w) /\ UNCHANGED <<worker, nextId>>
    \/ /\ Head(thread[w].outbox).out = "abort" /\ pending' = pending \ Mine(w)
       /\ Aborts(t, w) /\ UNCHANGED nextId

LEMMA DeliverIs ==
    ASSUME NEW w \in Worker, Deliver(w)
    PROVE  /\ thread[w].outbox # <<>> /\ thread[w].state \in {"up", "dying"}
           /\ UNCHANGED <<aborted, disposed, calls>>
           /\ Settles(w) \/ \E p \in Mine(w) : p.by \in Task /\ TaskSettles(w, p.by)
<1> DEFINE m == Head(thread[w].outbox)
           heard == [thread EXCEPT ![w].outbox = Tail(@)]
           mine == {p \in pending : p.id = m.id}
<1>1. heard = Hear(thread, w) /\ mine = Mine(w)
      BY DEF Hear, Mine
<1>2. \/ /\ mine = {} /\ thread' = heard /\ UNCHANGED <<worker, pending, call, idleArmed, nextId>>
      \/ \E p \in mine :
            /\ p.by = Recycler
            /\ pending' = pending \ mine
            /\ \/ /\ thread' = heard /\ UNCHANGED worker
               \/ /\ thread' = Terminating(heard, worker) /\ worker' = None
            /\ UNCHANGED <<call, idleArmed, nextId>>
      \/ \E p \in mine : /\ p.by \in Task
            /\ \/ /\ m.out = "ok"
                  /\ Succeeds(p.by, w)
                  /\ pending' = (pending \ mine) \cup
                        {[id |-> i, by |-> Recycler] : i \in nextId..(nextId' - 1)}
               \/ /\ m.out = "fail"
                  /\ pending' = pending \ mine
                  /\ call' = [call EXCEPT ![p.by] = Done]
                  /\ thread' = heard
                  /\ UNCHANGED <<worker, idleArmed, nextId>>
               \/ /\ m.out = "abort"
                  /\ pending' = pending \ mine
                  /\ Aborts(p.by, w)
                  /\ UNCHANGED <<idleArmed, nextId>>
      BY DEF Deliver
<1> HIDE DEF heard, mine
<1>3. \/ Settles(w)
      \/ \E p \in Mine(w) : p.by \in Task /\ TaskSettles(w, p.by)
      BY <1>1, <1>2 DEF Settles, TaskSettles
<1> QED BY <1>3 DEF Deliver
LEMMA SettlesKeeps ==
    ASSUME CallersFit, ClientInv, NEW w \in Worker, thread[w].outbox # <<>>, Settles(w),
           UNCHANGED <<aborted, calls>>
    PROVE  ClientInv'
<1> DEFINE heard == Hear(thread, w)
<1>1. /\ heard \in [Worker -> Threads]
      /\ \A v \in Worker : heard[v].state = thread[v].state
      BY Hearing DEF ClientInv, Typed
<1>2. pending' \subseteq pending /\ UNCHANGED <<call, nextId>>
      BY DEF Settles
<1>3. CASE thread' = heard /\ worker' = worker
  <2>1. OneRuns' /\ Onward
        BY <1>1, <1>3 DEF ClientInv, OneRuns, Onward, Gone
  <2> QED BY <1>1, <1>2, <1>3, <2>1, ThreadsMove DEF ClientInv, Typed
<1>4. CASE thread' = Terminating(heard, worker) /\ worker' = None
  <2> HIDE DEF heard
  <2>1. /\ thread' \in [Worker -> Threads]
        /\ \A v \in Worker : /\ thread'[v].state = IF v = worker THEN "dying" ELSE heard[v].state
                             /\ thread'[v].state # "up"
    <3>1. worker \in Worker \cup {None} /\ \A v \in Worker : heard[v].state = "up" <=> v = worker
          BY <1>1 DEF ClientInv, Typed, OneRuns
    <3> QED BY <1>1, <1>4, <3>1, Stopping
  <2>2. OneRuns' /\ Onward
        BY <1>1, <1>4, <2>1, WorkersAre DEF ClientInv, OneRuns, Onward, Gone
  <2>3. \A v \in Worker : thread'[v].state = "unborn" <=> thread[v].state = "unborn"
        BY <1>1, <2>1 DEF ClientInv, OneRuns
  <2> QED BY <1>2, <1>4, <2>1, <2>2, <2>3, ThreadsMove
<1> QED BY <1>3, <1>4 DEF Settles

\* A request that is settled was its caller's only one.
LEMMA Settled1 ==
    ASSUME ClientInv, NEW w \in Worker, NEW p \in Mine(w), p.by \in Task
    PROVE  /\ p \in pending /\ call[p.by].pc = "wait" /\ p.id = Head(thread[w].outbox).id
           /\ Mine(w) = {p}
           /\ \A q \in pending \ Mine(w) : q.by # p.by /\ q.id # p.id
BY DEF ClientInv, PendingHolds, Mine

\* The caller is done with its worker's answer.
LEMMA CallerDone ==
    ASSUME CallersFit, ClientInv, NEW w \in Worker, NEW p \in Mine(w), p.by \in Task,
           thread' \in [Worker -> Threads], OneRuns', worker' = worker, UNCHANGED <<aborted, calls>>,
           \A v \in Worker : thread'[v].state = thread[v].state,
           call' = [call EXCEPT ![p.by] = Done],
           \/ nextId' = nextId /\ pending' = pending \ Mine(w)
           \/ nextId' = nextId + 1 /\ pending' = (pending \ Mine(w)) \cup {[id |-> nextId, by |-> Recycler]}
    PROVE  ClientInv'
<1> DEFINE t == p.by
           r == [id |-> nextId, by |-> Recycler]
<1>1. Done \in Calls
      BY WorkersAre DEF Done, Calls, None
<1>2. call'[t] = Done /\ \A u \in Task : u # t => call'[u] = call[u]
      BY DEF ClientInv, Typed
<1>3. nextId \in Nat \ {0} /\ r.id = nextId /\ r.by = Recycler /\ r \in [id : 1..nextId, by : Source]
      BY DEF ClientInv, Typed, Source
<1>4. \A q \in pending : q \in [id : 1..(nextId - 1), by : Source] /\ q.id # nextId /\ q \in [id : 1..nextId, by : Source]
      BY <1>3 DEF ClientInv, Typed
<1> HIDE DEF r
<1>5. nextId' \in Nat \ {0} /\ pending' \subseteq [id : 1..(nextId' - 1), by : Source]
  <2>1. CASE nextId' = nextId /\ pending' = pending \ Mine(w)
        BY <1>3, <1>4, <2>1
  <2>2. CASE nextId' = nextId + 1 /\ pending' = (pending \ Mine(w)) \cup {r}
    <3>1. nextId' - 1 = nextId /\ nextId' \in Nat \ {0}
          BY <1>3, <2>2
    <3> QED BY <1>3, <1>4, <2>2, <3>1
  <2> QED BY <2>1, <2>2 DEF r
<1>6. Typed'
      BY <1>1, <1>5 DEF ClientInv, Typed
<1>7. PendingHolds'
  <2>1. pending' \subseteq (pending \ Mine(w)) \cup {r}
        BY DEF r
  <2>2. \A q \in pending' : q.by \in Task => call'[q.by].pc = "wait"
        BY <1>2, <1>3, <2>1, Settled1 DEF ClientInv, PendingHolds, CallersFit
  <2>3. \A q, s \in pending' : q.id = s.id \/ (q.by = s.by /\ q.by \in Task) => q = s
        BY <1>3, <1>4, <2>1 DEF ClientInv, PendingHolds, CallersFit
  <2> QED BY <2>2, <2>3 DEF PendingHolds
<1>8. Onward
      BY DEF Onward, Gone
<1> QED BY <1>2, <1>6, <1>7, <1>8, StepKeeps

\* A success, and the question for the arena after it.
LEMMA SucceedsIs ==
    ASSUME CallersFit, ClientInv, NEW w \in Worker, thread[w].outbox # <<>>, NEW t \in Task, Succeeds(t, w)
    PROVE  /\ worker' = worker /\ call' = [call EXCEPT ![t] = Done]
           /\ thread' \in [Worker -> Threads]
           /\ \A v \in Worker :
                 /\ thread'[v].state = thread[v].state /\ thread'[v].poisoned = thread[v].poisoned
                 /\ thread'[v].outbox = IF v = w THEN Tail(thread[v].outbox) ELSE thread[v].outbox
           /\ \/ nextId' = nextId /\ \A v \in Worker : thread'[v].inbox = thread[v].inbox
              \/ /\ nextId' = nextId + 1 /\ worker \in Worker
                 /\ \A v \in Worker : thread'[v].inbox = IF v = worker
                                         THEN Append(thread[v].inbox, [id |-> nextId, op |-> "arena"])
                                         ELSE thread[v].inbox
<1> DEFINE heard == Hear(thread, w)
           r == [id |-> nextId, op |-> "arena"]
<1>1. /\ heard \in [Worker -> Threads]
      /\ \A v \in Worker :
            /\ heard[v].state = thread[v].state /\ heard[v].poisoned = thread[v].poisoned
            /\ heard[v].outbox = IF v = w THEN Tail(thread[v].outbox) ELSE thread[v].outbox
            /\ heard[v].inbox = thread[v].inbox
      BY Hearing DEF ClientInv, Typed
<1>2. /\ worker' = worker /\ call' = [call EXCEPT ![t] = Done]
      /\ \/ thread' = heard /\ nextId' = nextId
         \/ worker # None /\ thread' = Post(heard, worker, r) /\ nextId' = nextId + 1
      BY DEF Succeeds, Hear, Post
<1>3. r \in Requests /\ (worker # None => worker \in Worker)
      BY DEF ClientInv, Typed, Requests
<1> HIDE DEF heard, r
<1>4. CASE thread' = heard /\ nextId' = nextId
      BY <1>1, <1>2, <1>4
<1>5. CASE worker # None /\ thread' = Post(heard, worker, r) /\ nextId' = nextId + 1
  <2>1. /\ thread' \in [Worker -> Threads]
        /\ \A v \in Worker : /\ thread'[v].state = heard[v].state
                             /\ thread'[v].outbox = heard[v].outbox
                             /\ thread'[v].poisoned = heard[v].poisoned
                             /\ thread'[v].inbox = IF v = worker THEN Append(heard[v].inbox, r) ELSE heard[v].inbox
        BY <1>1, <1>3, <1>5, Posting
  <2> QED BY <1>1, <1>2, <1>3, <1>5, <2>1 DEF r
<1> QED BY <1>2, <1>4, <1>5

\* An abort that stops the worker.
LEMMA AbortKeeps ==
    ASSUME CallersFit, ClientInv, NEW w \in Worker, thread[w].outbox # <<>>,
           NEW p \in Mine(w), p.by \in Task, Stops(call[p.by].op), Aborts(p.by, w),
           pending' = pending \ Mine(w), UNCHANGED <<nextId, aborted, calls>>
    PROVE  ClientInv'
<1> DEFINE t == p.by
           heard == Hear(thread, w)
           c == call[t]
           d == call'[t]
<1>1. /\ heard \in [Worker -> Threads]
      /\ \A v \in Worker : heard[v].state = thread[v].state
      BY Hearing DEF ClientInv, Typed
<1>2. /\ call' = [call EXCEPT ![t].pc = "stop", ![t].on = worker, ![t].killed = @ \cup {c.on}]
      /\ thread' = Terminating(heard, worker) /\ worker' = None
      BY DEF Aborts, Hear
<1>3. /\ thread' \in [Worker -> Threads]
      /\ \A v \in Worker : /\ thread'[v].state = IF v = worker THEN "dying" ELSE thread[v].state
                           /\ thread'[v].state # "up"
  <2> HIDE DEF heard
  <2>1. worker \in Worker \cup {None} /\ \A v \in Worker : heard[v].state = "up" <=> v = worker
        BY <1>1 DEF ClientInv, Typed, OneRuns
  <2>2. \A v \in Worker : /\ thread'[v].state = IF v = worker THEN "dying" ELSE heard[v].state
                          /\ thread'[v].state # "up"
        BY <1>1, <1>2, <2>1, Stopping
  <2>3. thread' \in [Worker -> Threads]
        BY <1>1, <1>2, <2>1, Stopping
  <2> QED BY <1>1, <2>2, <2>3
<1>4. OneRuns' /\ Onward
      BY <1>2, <1>3, WorkersAre DEF ClientInv, OneRuns, Onward, Gone
<1>5. \A v \in Worker : thread'[v].state = "unborn" <=> thread[v].state = "unborn"
      BY <1>3 DEF ClientInv, OneRuns
<1>6. c \in Calls /\ c.pc = "wait" /\ CallHolds(t) /\ c.on \in Worker /\ worker \in Worker \cup {None}
  <2>1. c \in Calls /\ c.pc = "wait" /\ CallHolds(t) /\ worker \in Worker \cup {None}
        BY Settled1 DEF ClientInv, Typed, CallsHold
  <2> QED BY <2>1 DEF CallHolds
<1>7. /\ d = [pc |-> "stop", op |-> c.op, file |-> c.file, attempt |-> c.attempt,
              on |-> worker, killed |-> c.killed \cup {c.on}]
      /\ \A u \in Task : u # t => call'[u] = call[u]
  <2>1. \A u \in Task : u # t => call'[u] = call[u]
        BY <1>2 DEF ClientInv, Typed
  <2>2. d = [[[c EXCEPT !.pc = "stop"] EXCEPT !.on = worker] EXCEPT !.killed = @ \cup {c.on}]
        BY <1>2 DEF ClientInv, Typed
  <2> HIDE DEF c, d
  <2>3. c = [pc |-> c.pc, op |-> c.op, file |-> c.file, attempt |-> c.attempt, on |-> c.on, killed |-> c.killed]
        BY <1>6 DEF Calls
  <2> DEFINE o == c.op
             f == c.file
             a == c.attempt
             n == c.on
             k == c.killed
  <2>4. [[pc |-> c.pc, op |-> o, file |-> f, attempt |-> a, on |-> n, killed |-> k] EXCEPT !.pc = "stop"]
        = [pc |-> "stop", op |-> o, file |-> f, attempt |-> a, on |-> n, killed |-> k]
        OBVIOUS
  <2>5. [[pc |-> "stop", op |-> o, file |-> f, attempt |-> a, on |-> n, killed |-> k] EXCEPT !.on = worker]
        = [pc |-> "stop", op |-> o, file |-> f, attempt |-> a, on |-> worker, killed |-> k]
    <3> HIDE DEF o, f, a, n, k
    <3> QED OBVIOUS
  <2>6. [[pc |-> "stop", op |-> o, file |-> f, attempt |-> a, on |-> worker, killed |-> k] EXCEPT !.killed = @ \cup {n}]
        = [pc |-> "stop", op |-> o, file |-> f, attempt |-> a, on |-> worker, killed |-> k \cup {n}]
    <3> DEFINE x == [pc |-> "stop", op |-> o, file |-> f, attempt |-> a, on |-> worker, killed |-> k]
               z == k \cup {n}
    <3>1. [x EXCEPT !.killed = @ \cup {n}] = [x EXCEPT !.killed = z]
          OBVIOUS
    <3> HIDE DEF o, f, a, n, k, z
    <3>2. [x EXCEPT !.killed = z]
          = [pc |-> "stop", op |-> o, file |-> f, attempt |-> a, on |-> worker, killed |-> z]
          OBVIOUS
    <3> QED BY <3>1, <3>2 DEF z
  <2> QED BY <2>1, <2>2, <2>3, <2>4, <2>5, <2>6
<1>8. d \in Calls /\ d.pc = "stop" /\ d.op = c.op /\ d.file = c.file /\ d.attempt = c.attempt
      /\ d.killed = c.killed \cup {c.on}
  <2>1. /\ c.op \in Op \cup {"none"} /\ c.file \in File \cup {"none"} /\ c.attempt \in 0..2
        /\ c.killed \cup {c.on} \in SUBSET Worker
        BY <1>6 DEF Calls
  <2> HIDE DEF c, d
  <2> QED BY <1>6, <1>7, <2>1 DEF Calls
<1>9. Typed'
  <2>1. call' \in [Task -> Calls]
        BY <1>2, <1>7, <1>8 DEF ClientInv, Typed
  <2> QED BY <1>2, <1>3, <2>1 DEF ClientInv, Typed
<1>10. CallHolds(t)'
  <2>1. /\ c.op \in Op /\ c.file \in File /\ c.attempt \in {1, 2} /\ (c.attempt = 2 => c.op = "parse")
        /\ IsFiniteSet(c.killed) /\ Cardinality(c.killed) = c.attempt - 1 /\ \A v \in c.killed : Gone(v)
        /\ c.on \notin c.killed /\ thread[c.on].state # "unborn"
        BY <1>6 DEF CallHolds, Behind
  <2>2. IsFiniteSet(d.killed) /\ Cardinality(d.killed) = c.attempt
    <3>1. /\ IsFiniteSet(c.killed \cup {c.on})
          /\ Cardinality(c.killed \cup {c.on}) = Cardinality(c.killed) + 1
          BY <2>1, FS_AddElement
    <3>2. Cardinality(c.killed) + 1 = c.attempt
          BY <2>1
    <3> QED BY <1>8, <3>1, <3>2
  <2>3. thread'[c.on].state \in {"dying", "dead"}
    <3>1. thread'[c.on].state \in {"unborn", "up", "dying", "dead"}
          BY <1>3, <1>6 DEF Threads
    <3> QED BY <1>3, <1>5, <1>6, <2>1, <3>1
  <2>4. \A v \in d.killed : Gone(v)'
        BY <1>4, <1>6, <1>8, <2>1, <2>3 DEF Onward, Gone, Calls
  <2>5. Behind(d) = c.attempt
        BY <1>8 DEF Behind
  <2> HIDE DEF c
  <2> QED BY <1>8, <2>1, <2>2, <2>4, <2>5 DEF CallHolds
<1>11. PendingHolds'
  <2>1. \A q \in pending' : q.by \in Task => call'[q.by].pc = "wait"
        BY <1>7, Settled1 DEF ClientInv, PendingHolds
  <2> QED BY <2>1, PendingShrinks DEF ClientInv
<1> QED BY <1>4, <1>5, <1>6, <1>7, <1>8, <1>9, <1>10, <1>11, StepKeeps

LEMMA DeliverKeeps ==
    ASSUME CallersFit, ClientInv, NEW w \in Worker, Deliver(w)
    PROVE  ClientInv'
<1>1. thread[w].outbox # <<>> /\ UNCHANGED <<aborted, calls>>
      BY DeliverIs
<1>2. CASE Settles(w)
      BY <1>1, <1>2, SettlesKeeps
<1>3. ASSUME NEW p \in Mine(w), p.by \in Task, TaskSettles(w, p.by) PROVE ClientInv'
  <2> DEFINE t == p.by
             heard == Hear(thread, w)
  <2>1. /\ heard \in [Worker -> Threads]
        /\ \A v \in Worker : heard[v].state = thread[v].state
        BY <1>1, Hearing DEF ClientInv, Typed
  <2>2. CASE /\ Succeeds(t, w)
             /\ pending' = (pending \ Mine(w)) \cup {[id |-> i, by |-> Recycler] : i \in nextId..(nextId' - 1)}
    <3>1. /\ worker' = worker /\ call' = [call EXCEPT ![t] = Done] /\ thread' \in [Worker -> Threads]
          /\ \A v \in Worker : thread'[v].state = thread[v].state
          /\ nextId' = nextId \/ nextId' = nextId + 1
          BY <1>1, <1>3, <2>2, SucceedsIs
    <3>2. nextId \in Nat
          BY DEF ClientInv, Typed
    <3>3. CASE nextId' = nextId
      <4>1. nextId..(nextId' - 1) = {}
            BY <3>2, <3>3
      <4>2. pending' = pending \ Mine(w)
            BY <2>2, <4>1
      <4>3. OneRuns'
            BY <3>1 DEF ClientInv, OneRuns
      <4> QED BY <1>1, <1>3, <3>1, <3>3, <4>2, <4>3, CallerDone
    <3>4. CASE nextId' = nextId + 1
      <4>1. nextId..(nextId' - 1) = {nextId}
            BY <3>2, <3>4
      <4>2. pending' = (pending \ Mine(w)) \cup {[id |-> nextId, by |-> Recycler]}
            BY <2>2, <4>1
      <4>3. OneRuns'
            BY <3>1 DEF ClientInv, OneRuns
      <4> QED BY <1>1, <1>3, <3>1, <3>4, <4>2, <4>3, CallerDone
    <3> QED BY <3>1, <3>3, <3>4
  <2>3. CASE /\ pending' = pending \ Mine(w) /\ call' = [call EXCEPT ![t] = Done]
             /\ thread' = heard /\ UNCHANGED <<worker, nextId>>
    <3>1. OneRuns'
          BY <2>1, <2>3 DEF ClientInv, OneRuns
    <3> QED BY <1>1, <1>3, <2>1, <2>3, <3>1, CallerDone
  <2>4. CASE pending' = pending \ Mine(w) /\ Aborts(t, w) /\ UNCHANGED nextId
    <3>1. CASE Stops(call[t].op)
          BY <1>1, <1>3, <2>4, <3>1, AbortKeeps
    <3>2. CASE ~Stops(call[t].op)
      <4>1. call' = [call EXCEPT ![t] = Done] /\ thread' = heard /\ worker' = worker
            BY <2>4, <3>2 DEF Aborts, Hear
      <4> QED BY <2>3, <2>4, <4>1
    <3> QED BY <3>1, <3>2
  <2> QED BY <1>3, <2>2, <2>3, <2>4 DEF TaskSettles
<1> QED BY <1>2, <1>3, DeliverIs

-----------------------------------------------------------------------------
LEMMA ClientStarts == CallersFit /\ Init => ClientInv
<1> SUFFICES ASSUME CallersFit, Init PROVE ClientInv
    OBVIOUS
<1>1. Done \in Calls /\ Done.pc = "idle"
      BY WorkersAre DEF Done, Calls, None
<1>2. Unborn \in Threads /\ Unborn.state = "unborn"
      BY DEF Unborn, Threads
<1>3. Typed
      BY <1>1, <1>2 DEF Init, Typed, CallersFit
<1>4. SpawnsHold
  <2>1. Firsts(call) = {}
        BY <1>1 DEF Init, Firsts
  <2>2. Cardinality(Firsts(call)) = 0
        BY <2>1, FS_EmptySet
  <2>3. 0 \in 0..MaxWorkers /\ Born(thread, 0)
        BY <1>2, WorkersAre DEF Init, Born, Worker
  <2>4. 0 + Cardinality(Firsts(call)) <= 2 * calls
        BY <2>2 DEF Init
  <2> QED BY <2>3, <2>4 DEF SpawnsHold
<1>5. OneRuns
      BY <1>2, WorkersAre DEF Init, OneRuns
<1>6. CallsHold /\ PendingHolds
      BY <1>1 DEF Init, CallsHold, CallHolds, PendingHolds
<1> QED BY <1>3, <1>4, <1>5, <1>6 DEF ClientInv

LEMMA ClientSteps ==
    ASSUME CallersFit, ClientInv, [Next]_vars
    PROVE  ClientInv'
<1>1. ASSUME NEW t \in Task, Call(t) PROVE ClientInv'
      BY <1>1, CallKeeps
<1>2. ASSUME NEW t \in Task, Send(t) PROVE ClientInv'
      BY <1>2, SendKeeps
<1>3. ASSUME NEW t \in Task, Resume(t) PROVE ClientInv'
      BY <1>3, ResumeKeeps
<1>4. ASSUME NEW w \in Worker, Answer(w) PROVE ClientInv'
      BY <1>4, AnswerKeeps
<1>5. ASSUME NEW w \in Worker, Deliver(w) PROVE ClientInv'
      BY <1>5, DeliverKeeps
<1>6. ASSUME NEW w \in Worker, Exit(w) PROVE ClientInv'
      BY <1>6, ExitKeeps
<1>7. ASSUME NEW w \in Worker, Dies(w) PROVE ClientInv'
      BY <1>7, DiesKeeps
<1>8. CASE IdleFires \/ Dispose
      BY <1>8, OutsideKeeps
<1>9. CASE UNCHANGED vars
  <2>1. Onward /\ UNCHANGED <<worker, thread, pending, call, aborted, nextId, calls>>
        BY <1>9 DEF vars, Onward, Gone
  <2>2. Typed' /\ SpawnsHold' /\ OneRuns' /\ PendingHolds'
        BY <2>1 DEF ClientInv, Typed, SpawnsHold, OneRuns, PendingHolds
  <2>3. CallsHold'
        BY <2>1, CallStays DEF ClientInv, CallsHold
  <2> QED BY <2>2, <2>3 DEF ClientInv
<1> QED BY <1>1, <1>2, <1>3, <1>4, <1>5, <1>6, <1>7, <1>8, <1>9 DEF Next

\* Every variable of the client keeps its type.
THEOREM ClientTyped ==
    ASSUME CallersFit
    PROVE  Spec => []TypeOK
<1>1. Init => ClientInv
      BY ClientStarts
<1>2. ClientInv /\ [Next]_vars => ClientInv'
      BY ClientSteps
<1>3. ClientInv => TypeOK
      BY DEF ClientInv, Typed, TypeOK, Threads, Calls
<1> QED BY <1>1, <1>2, <1>3, PTL DEF Spec

\* Whatever stops workers and whenever it does - an abort, the idle timer, the recycler, a
\* dispose, the thread's own death - no thread is left running that the client has
\* forgotten: its arena could never be reclaimed.
THEOREM NoneForgotten ==
    ASSUME CallersFit
    PROVE  Spec => []NoStrayThread
<1>1. Init => ClientInv
      BY ClientStarts
<1>2. ClientInv /\ [Next]_vars => ClientInv'
      BY ClientSteps
<1>3. ClientInv => NoStrayThread
      BY DEF ClientInv, OneRuns, NoStrayThread
<1> QED BY <1>1, <1>2, <1>3, PTL DEF Spec

\* A file is given up only after it aborted on two different threads, also when others stop
\* and start workers between the two.
THEOREM GivenUpAfterTwo ==
    ASSUME CallersFit
    PROVE  Spec => [][MarkedStep]_vars
<1>1. Init => ClientInv
      BY ClientStarts
<1>2. ClientInv /\ [Next]_vars => ClientInv'
      BY ClientSteps
<1>3. ClientInv /\ [Next]_vars => [MarkedStep]_vars
  <2> SUFFICES ASSUME ClientInv, Next, NEW t \in Task, aborted' # aborted,
                      call[t].pc = "stop", call'[t].pc = "idle"
               PROVE  Cardinality(call[t].killed) = 2
      BY DEF MarkedStep
  <2>1. PICK u \in Task : Resume(u)
        BY DEF Next, Call, Send, Answer, Deliver, Exit, Dies, IdleFires, Dispose
  <2>2. u = t
    <3>1. u # t => call'[t] = call[t]
          BY <2>1 DEF Resume, ClientInv, Typed
    <3> QED BY <3>1
  <2>3. call[t].op = "parse" /\ call[t].attempt # 1
        BY <2>1, <2>2 DEF Resume, Retry
  <2>4. CallHolds(t)
        BY DEF ClientInv, CallsHold
  <2> QED BY <2>3, <2>4 DEF CallHolds, Behind
<1> QED BY <1>1, <1>2, <1>3, PTL DEF Spec
-----------------------------------------------------------------------------
\* One caller, whose calls stop the worker after an abort.  The other operation, the
\* queries, keeps it.
OneCaller == (\A t, u \in Task : t = u) /\ \A op \in Op : Stops(op)

\* The messages to a thread and from it.  Those to the thread that runs have ids of their
\* own, and those of the caller are waited for; if its parser has aborted, the caller waits for
\* that answer, and nothing but questions for the arena comes after.
Msgs(s) == {s[n] : n \in DOMAIN s}
Distinct(s) == \A n, k \in DOMAIN s : s[n].id = s[k].id => n = k
Asked(v) == Msgs(thread[v].inbox)
Heard(v) == Msgs(thread[v].outbox)
Runs(v) == thread[v].state = "up"

IdsHold == \A v \in Worker : \A x \in Asked(v) \cup Heard(v) : x.id < nextId
Empty(v) == thread[v].inbox = <<>> /\ thread[v].outbox = <<>> /\ ~thread[v].poisoned
BirthsHold == \A v \in Worker : thread[v].state = "unborn" => Empty(v)
InboxesHold ==
    \A v \in Worker : Runs(v) =>
        /\ Distinct(thread[v].inbox)
        /\ \A x \in Asked(v) : /\ \A u \in Worker : \A m \in Heard(u) : m.id # x.id
                               /\ x.op # "arena" => \E p \in pending : p.id = x.id /\ p.by \in Task
AbortsHold ==
    \A v \in Worker : Runs(v) /\ thread[v].poisoned =>
        \E p \in pending : /\ p.by \in Task
                           /\ \A x \in Asked(v) : x.op = "arena" /\ x.id # p.id
                           /\ \A u \in Worker : \A m \in Heard(u) : m.id = p.id => m.out = "abort"
Clean == \A v \in Worker : \A m \in Heard(v) : m.bad => \A p \in pending : p.id = m.id => p.by \notin Task
SoundInv == IdsHold /\ BirthsHold /\ InboxesHold /\ AbortsHold /\ Clean

LEMMA HeadOut ==
    ASSUME NEW R, NEW s \in Seq(R), s # <<>>
    PROVE  /\ Head(s) \in Msgs(s) /\ Head(s) \in R /\ Msgs(Tail(s)) \subseteq Msgs(s)
           /\ Distinct(s) => Distinct(Tail(s)) /\ \A x \in Msgs(Tail(s)) : x.id # Head(s).id
<1>1. /\ Len(s) \in Nat \ {0} /\ DOMAIN s = 1..Len(s) /\ Head(s) = s[1]
      /\ DOMAIN Tail(s) = 1..(Len(s) - 1)
      /\ \A n \in 1..(Len(s) - 1) : Tail(s)[n] = s[n + 1] /\ n + 1 \in 1..Len(s) /\ n + 1 # 1
      OBVIOUS
<1> DEFINE T == Tail(s)
<1>2. Head(s) \in Msgs(s) /\ Head(s) \in R
      BY <1>1 DEF Msgs
<1>3. Msgs(T) \subseteq Msgs(s)
  <2> HIDE DEF T
  <2> QED BY <1>1 DEF Msgs, T
<1>4. ASSUME Distinct(s) PROVE Distinct(T)
  <2> SUFFICES ASSUME NEW n \in DOMAIN T, NEW k \in DOMAIN T, T[n].id = T[k].id PROVE n = k
      BY DEF Distinct
  <2>1. n \in 1..(Len(s) - 1) /\ k \in 1..(Len(s) - 1) /\ n \in Nat /\ k \in Nat
        BY <1>1
  <2>2. n + 1 = k + 1
        BY <1>1, <1>4, <2>1 DEF Distinct
  <2> QED BY <2>1, <2>2
<1>5. ASSUME Distinct(s), NEW x \in Msgs(T) PROVE x.id # Head(s).id
  <2>1. PICK n \in DOMAIN T : x = T[n]
        BY DEF Msgs
  <2>2. x = s[n + 1] /\ n + 1 \in DOMAIN s /\ 1 \in DOMAIN s /\ n + 1 # 1
        BY <1>1, <2>1
  <2> QED BY <1>1, <1>5, <2>2 DEF Distinct
<1> QED BY <1>2, <1>3, <1>4, <1>5

LEMMA PutIn ==
    ASSUME NEW R, NEW s \in Seq(R), NEW e
    PROVE  /\ Msgs(Append(s, e)) = Msgs(s) \cup {e}
           /\ Distinct(s) /\ (\A x \in Msgs(s) : x.id # e.id) => Distinct(Append(s, e))
<1> DEFINE A == Append(s, e)
<1>1. /\ Len(s) \in Nat /\ DOMAIN s = 1..Len(s) /\ DOMAIN A = 1..(Len(s) + 1)
      /\ A[Len(s) + 1] = e /\ \A n \in 1..Len(s) : A[n] = s[n]
      OBVIOUS
<1>2. \A n \in DOMAIN A : n = Len(s) + 1 \/ n \in DOMAIN s
      BY <1>1
<1> HIDE DEF A
<1>3. Msgs(A) = Msgs(s) \cup {e}
      BY <1>1, <1>2 DEF Msgs
<1>4. Distinct(s) /\ (\A x \in Msgs(s) : x.id # e.id) => Distinct(A)
      BY <1>1, <1>2 DEF Msgs, Distinct
<1> QED BY <1>3, <1>4 DEF A

LEMMA NoMsgs == Msgs(<<>>) = {} /\ Distinct(<<>>)
BY DEF Msgs, Distinct

LEMMA Boxes ==
    ASSUME Typed, NEW v \in Worker
    PROVE  /\ thread[v].inbox \in Seq(Requests) /\ thread[v].outbox \in Seq(Answers)
           /\ Asked(v) \subseteq Requests /\ Heard(v) \subseteq Answers
<1>1. thread[v] \in Threads
      BY DEF Typed
<1>2. thread[v].inbox \in Seq(Requests) /\ thread[v].outbox \in Seq(Answers)
      BY <1>1 DEF Threads
<1> QED BY <1>2 DEF Asked, Heard, Msgs

LEMMA SoundStays ==
    ASSUME SoundInv, UNCHANGED <<thread, pending, nextId>>
    PROVE  SoundInv'
BY DEF SoundInv, IdsHold, BirthsHold, InboxesHold, AbortsHold, Clean, Asked, Heard, Runs, Empty

\* After a step that leaves no thread running nothing else is to be shown.
LEMMA NoneRuns ==
    ASSUME SoundInv, Typed, nextId' = nextId, pending' \subseteq pending,
           \A v \in Worker : /\ thread'[v].state # "up"
                             /\ Asked(v)' \subseteq Asked(v) /\ Heard(v)' \subseteq Heard(v)
                             /\ thread'[v].state = "unborn" => thread[v].state = "unborn"
                             /\ Empty(v) => thread'[v].state = "dead" \/ Empty(v)'
    PROVE  SoundInv'
<1>1. IdsHold'
      BY DEF SoundInv, IdsHold
<1>2. BirthsHold'
      BY DEF SoundInv, BirthsHold, Empty
<1>3. Clean'
      BY DEF SoundInv, Clean
<1>4. InboxesHold' /\ AbortsHold'
      BY DEF InboxesHold, AbortsHold, Runs
<1> QED BY <1>1, <1>2, <1>3, <1>4 DEF SoundInv

\* #ensureWorker: a new thread has empty boxes.
LEMMA EnsuredSound ==
    ASSUME CallersFit, SoundInv, Typed, EnsureWorker, thread' \in [Worker -> Threads],
           UNCHANGED <<pending, nextId>>,
           \A w \in Worker : thread'[w] = thread[w] \/ (thread[w].state = "unborn" /\ w = worker')
    PROVE  SoundInv'
<1>1. CASE worker # None
  <2>1. UNCHANGED <<thread, pending, nextId>>
        BY <1>1 DEF EnsureWorker
  <2> QED BY <2>1, SoundStays
<1>2. CASE worker = None
  <2> DEFINE f == Fresh
  <2>1. worker' = f /\ thread' = [thread EXCEPT ![f].state = "up"]
        BY <1>2 DEF EnsureWorker
  <2> HIDE DEF f
  <2>2. ASSUME NEW v \in Worker
        PROVE  \/ thread'[v] = thread[v]
               \/ /\ thread'[v].state = "up" /\ thread'[v].inbox = <<>> /\ thread'[v].outbox = <<>>
                  /\ thread'[v].poisoned = FALSE
    <3>1. CASE thread'[v] # thread[v]
      <4>1. v = f /\ Empty(v) /\ thread[v] \in Threads
            BY <2>1, <3>1 DEF SoundInv, BirthsHold, Typed
      <4>2. thread'[v] = [thread[v] EXCEPT !.state = "up"]
            BY <2>1, <4>1 DEF Typed
      <4> QED BY <4>1, <4>2 DEF Threads, Empty
    <3> QED BY <3>1
  <2>3. \A v \in Worker : /\ Asked(v)' \subseteq Asked(v) /\ Heard(v)' \subseteq Heard(v)
                          /\ \/ thread'[v] = thread[v]
                             \/ /\ thread'[v].state = "up" /\ thread'[v].inbox = <<>>
                                /\ thread'[v].poisoned = FALSE /\ Asked(v)' = {}
    <3> SUFFICES ASSUME NEW v \in Worker
                 PROVE  /\ Asked(v)' \subseteq Asked(v) /\ Heard(v)' \subseteq Heard(v)
                        /\ \/ thread'[v] = thread[v]
                           \/ /\ thread'[v].state = "up" /\ thread'[v].inbox = <<>>
                              /\ thread'[v].poisoned = FALSE /\ Asked(v)' = {}
        OBVIOUS
    <3> QED BY <2>2, NoMsgs DEF Asked, Heard
  <2>4. IdsHold' /\ Clean'
        BY <2>3 DEF SoundInv, IdsHold, Clean
  <2>5. BirthsHold'
        BY <2>3 DEF SoundInv, BirthsHold, Empty
  <2>6. InboxesHold'
    <3> SUFFICES ASSUME NEW v \in Worker, Runs(v)'
                 PROVE  /\ Distinct(thread'[v].inbox)
                        /\ \A x \in Asked(v)' :
                              /\ \A u \in Worker : \A m \in Heard(u)' : m.id # x.id
                              /\ x.op # "arena" => \E p \in pending' : p.id = x.id /\ p.by \in Task
        BY DEF InboxesHold
    <3>1. CASE thread'[v] = thread[v]
          BY <2>3, <3>1 DEF SoundInv, InboxesHold, Runs, Asked
    <3>2. CASE thread'[v].inbox = <<>> /\ Asked(v)' = {}
          BY <3>2, NoMsgs
    <3> QED BY <2>3, <3>1, <3>2
  <2>7. AbortsHold'
    <3> SUFFICES ASSUME NEW v \in Worker, Runs(v)', thread'[v].poisoned
                 PROVE  \E p \in pending' :
                           /\ p.by \in Task
                           /\ \A x \in Asked(v)' : x.op = "arena" /\ x.id # p.id
                           /\ \A u \in Worker : \A m \in Heard(u)' : m.id = p.id => m.out = "abort"
        BY DEF AbortsHold
    <3>1. thread'[v] = thread[v]
          BY <2>3
    <3>2. Runs(v) /\ thread[v].poisoned
          BY <3>1 DEF Runs
    <3>3. PICK p \in pending :
              /\ p.by \in Task
              /\ \A x \in Asked(v) : x.op = "arena" /\ x.id # p.id
              /\ \A u \in Worker : \A m \in Heard(u) : m.id = p.id => m.out = "abort"
          BY <3>2 DEF SoundInv, AbortsHold
    <3> QED BY <2>3, <3>3
  <2> QED BY <2>4, <2>5, <2>6, <2>7 DEF SoundInv
<1> QED BY <1>1, <1>2
\* The request a caller sends has an id of its own; no parser has aborted, or the caller
\* would be waiting.
LEMMA SendSound ==
    ASSUME CallersFit, OneCaller, ClientInv, SoundInv, NEW t \in Task, Send(t)
    PROVE  SoundInv'
<1>1. CASE worker = None
  <2>1. UNCHANGED <<thread, pending, nextId>>
        BY <1>1 DEF Send
  <2> QED BY <2>1, SoundStays
<1>2. CASE worker # None
  <2> DEFINE r == [id |-> nextId, op |-> call[t].op]
             p == [id |-> nextId, by |-> t]
  <2>1. /\ pending' = pending \cup {p} /\ nextId' = nextId + 1
        /\ thread' = Post(thread, worker, r) /\ call[t].pc = "send" /\ worker' = worker
        BY <1>2 DEF Send, NewId, Post
  <2>2. worker \in Worker /\ r \in Requests /\ nextId \in Nat /\ r.id = nextId /\ p.id = nextId /\ p.by = t
    <3>1. call[t] \in Calls
          BY DEF ClientInv, Typed
    <3>2. CallHolds(t)
          BY DEF ClientInv, CallsHold
    <3> QED BY <1>2, <2>1, <3>1, <3>2 DEF ClientInv, Typed, Requests, CallHolds
  <2> HIDE DEF r, p
  <2>3. \A v \in Worker : /\ thread'[v].state = thread[v].state
                          /\ thread'[v].outbox = thread[v].outbox
                          /\ thread'[v].poisoned = thread[v].poisoned
                          /\ thread'[v].inbox = IF v = worker THEN Append(thread[v].inbox, r) ELSE thread[v].inbox
        BY <2>1, <2>2, Posting DEF ClientInv, Typed
  <2>4. Runs(worker) /\ \A v \in Worker : Runs(v) => v = worker
        BY <2>2 DEF ClientInv, OneRuns, Runs
  <2>5. ~thread[worker].poisoned
    <3> SUFFICES ASSUME thread[worker].poisoned PROVE FALSE
        OBVIOUS
    <3>1. PICK q \in pending : q.by \in Task
          BY <2>2, <2>4 DEF SoundInv, AbortsHold
    <3>2. call[t].pc = "wait"
          BY <3>1 DEF ClientInv, PendingHolds, OneCaller
    <3> QED BY <2>1, <3>2
  <2>6. /\ \A v \in Worker : Heard(v)' = Heard(v) /\ (v # worker => Asked(v)' = Asked(v))
        /\ Asked(worker)' = Asked(worker) \cup {r}
        /\ \A x \in Asked(worker) \cup UNION {Heard(v) : v \in Worker} : x.id # r.id
    <3>1. \A v \in Worker : Heard(v)' = Heard(v) /\ (v # worker => Asked(v)' = Asked(v))
          BY <2>3 DEF Heard, Asked
    <3>2. thread[worker].inbox \in Seq(Requests)
          BY <2>2, Boxes DEF ClientInv
    <3>3. Asked(worker)' = Asked(worker) \cup {r}
      <4>1. thread'[worker].inbox = Append(thread[worker].inbox, r)
            BY <2>2, <2>3
      <4>2. Msgs(Append(thread[worker].inbox, r)) = Msgs(thread[worker].inbox) \cup {r}
            BY <3>2, PutIn
      <4> QED BY <2>1, <4>1, <4>2 DEF Asked
    <3>4. \A x \in Asked(worker) \cup UNION {Heard(v) : v \in Worker} : x.id < nextId
          BY <2>2 DEF SoundInv, IdsHold
    <3>5. \A x \in Asked(worker) \cup UNION {Heard(v) : v \in Worker} : x.id \in Nat
          BY <2>2, Boxes DEF ClientInv, Requests, Answers
    <3> QED BY <2>2, <3>1, <3>3, <3>4, <3>5
  <2>7. IdsHold'
    <3>1. \A v \in Worker : \A x \in Asked(v) \cup Heard(v) : x.id < nextId /\ x.id \in Nat
          BY Boxes DEF ClientInv, Requests, Answers, SoundInv, IdsHold
    <3>2. \A v \in Worker : \A x \in Asked(v)' \cup Heard(v)' : x = r \/ x \in Asked(v) \cup Heard(v)
      <4> SUFFICES ASSUME NEW v \in Worker, NEW x \in Asked(v)' \cup Heard(v)'
                   PROVE  x = r \/ x \in Asked(v) \cup Heard(v)
          OBVIOUS
      <4>1. CASE v = worker
            BY <2>1, <2>6, <4>1
      <4>2. CASE v # worker
            BY <2>6, <4>2
      <4> QED BY <4>1, <4>2
    <3>3. r.id < nextId' /\ \A n \in Nat : n < nextId => n < nextId'
          BY <2>1, <2>2
    <3> QED BY <3>1, <3>2, <3>3 DEF IdsHold
  <2>8. BirthsHold'
    <3>1. \A v \in Worker : thread[v].state = "unborn" => v # worker
          BY <2>4 DEF Runs
    <3> QED BY <2>3, <3>1 DEF SoundInv, BirthsHold, Empty
  <2>9. InboxesHold'
    <3>1. Distinct(thread'[worker].inbox)
      <4>1. thread[worker].inbox \in Seq(Requests)
            BY <2>2, Boxes DEF ClientInv
      <4>2. Distinct(thread[worker].inbox)
            BY <2>2, <2>4 DEF SoundInv, InboxesHold
      <4>3. \A x \in Msgs(thread[worker].inbox) : x.id # r.id
            BY <2>6 DEF Asked
      <4> QED BY <2>2, <2>3, <4>1, <4>2, <4>3, PutIn
    <3>2. ASSUME NEW x \in Asked(worker)'
          PROVE  /\ \A u \in Worker : \A m \in Heard(u)' : m.id # x.id
                 /\ x.op # "arena" => \E q \in pending' : q.id = x.id /\ q.by \in Task
      <4>1. CASE x \in Asked(worker)
        <5>1. /\ \A u \in Worker : \A m \in Heard(u) : m.id # x.id
              /\ x.op # "arena" => \E q \in pending : q.id = x.id /\ q.by \in Task
              BY <2>2, <2>4, <4>1 DEF SoundInv, InboxesHold
        <5> QED BY <2>1, <2>6, <5>1
      <4>2. CASE x = r
            BY <2>1, <2>2, <2>6, <4>2
      <4> QED BY <2>6, <3>2, <4>1, <4>2
    <3>3. \A v \in Worker : Runs(v)' => v = worker
          BY <2>3, <2>4 DEF Runs
    <3> QED BY <2>1, <3>1, <3>2, <3>3 DEF InboxesHold
  <2>10. AbortsHold'
        BY <2>3, <2>4, <2>5 DEF AbortsHold, Runs
  <2>11. Clean'
    <3> SUFFICES ASSUME NEW v \in Worker, NEW m \in Heard(v)', m.bad, NEW q \in pending', q.id = m.id
                 PROVE  q.by \notin Task
        BY DEF Clean
    <3>1. m \in Heard(v) /\ m.id # r.id
          BY <2>6
    <3>2. q \in pending
          BY <2>1, <2>2, <3>1
    <3> QED BY <3>1, <3>2 DEF SoundInv, Clean
  <2> QED BY <2>7, <2>8, <2>9, <2>10, <2>11 DEF SoundInv
<1> QED BY <1>1, <1>2

\* The thread's answer: none is bad, and after an abort only questions for the arena are left.
LEMMA AnswerSound ==
    ASSUME CallersFit, OneCaller, ClientInv, SoundInv, NEW w \in Worker, Answer(w)
    PROVE  SoundInv'
<1>1. /\ Runs(w) /\ thread[w].inbox # <<>> /\ UNCHANGED <<pending, nextId>>
      BY AnswerIs DEF Runs
<1> DEFINE r == Head(thread[w].inbox)
<1>2. PICK out \in Outcome(w, r.op) : out \in {"ok", "fail", "abort"} /\ Answered(w, out)
      BY AnswerIs
<1> DEFINE m == [id |-> r.id, out |-> out, bad |-> thread[w].poisoned /\ r.op # "arena"]
<1>3. /\ r \in Requests /\ m \in Answers
      /\ \A v \in Worker : v # w => thread'[v] = thread[v]
      /\ thread'[w].state = thread[w].state
      /\ thread'[w].inbox = Tail(thread[w].inbox)
      /\ thread'[w].poisoned = (thread[w].poisoned \/ out = "abort")
      /\ thread'[w].outbox = Append(thread[w].outbox, m)
      BY <1>1, <1>2, Answering DEF ClientInv
<1>4. \A v \in Worker : Runs(v) => v = w
      BY <1>1 DEF ClientInv, OneRuns, Runs
<1>5. /\ r \in Asked(w) /\ Distinct(thread[w].inbox)
      /\ Asked(w)' \subseteq Asked(w) /\ Distinct(thread'[w].inbox)
      /\ \A x \in Asked(w)' : x.id # r.id
  <2>1. thread[w].inbox \in Seq(Requests)
        BY Boxes DEF ClientInv
  <2>2. Distinct(thread[w].inbox)
        BY <1>1 DEF SoundInv, InboxesHold
  <2> QED BY <1>1, <1>3, <2>1, <2>2, HeadOut DEF Asked
<1>6. /\ m.id = r.id /\ m.out = out /\ m.bad = (thread[w].poisoned /\ r.op # "arena")
      OBVIOUS
<1>7. /\ \A v \in Worker : v # w => Heard(v)' = Heard(v) /\ Asked(v)' = Asked(v)
      /\ Heard(w)' = Heard(w) \cup {m}
  <2>1. thread[w].outbox \in Seq(Answers)
        BY Boxes DEF ClientInv
  <2> QED BY <1>3, <2>1, PutIn DEF Heard, Asked
<1> HIDE DEF m, r
<1>8. thread[w].poisoned => r.op = "arena"
      BY <1>1, <1>5 DEF SoundInv, AbortsHold
<1>9. ~m.bad
      BY <1>6, <1>8
<1>10. /\ \A u \in Worker : \A a \in Heard(u) : a.id # r.id
       /\ r.op # "arena" => \E p \in pending : p.id = r.id /\ p.by \in Task
      BY <1>1, <1>5 DEF SoundInv, InboxesHold
<1>11. IdsHold'
  <2>1. r.id < nextId
        BY <1>5 DEF SoundInv, IdsHold
  <2>2. \A v \in Worker : \A x \in Asked(v)' \cup Heard(v)' : x = m \/ x \in Asked(v) \cup Heard(v)
        BY <1>5, <1>7
  <2> QED BY <1>1, <1>6, <2>1, <2>2 DEF SoundInv, IdsHold
<1>12. BirthsHold'
      BY <1>1, <1>3 DEF SoundInv, BirthsHold, Runs, Empty
<1>13. InboxesHold'
  <2>1. ASSUME NEW x \in Asked(w)'
        PROVE  /\ \A u \in Worker : \A a \in Heard(u)' : a.id # x.id
               /\ x.op # "arena" => \E p \in pending' : p.id = x.id /\ p.by \in Task
    <3>1. /\ \A u \in Worker : \A a \in Heard(u) : a.id # x.id
          /\ x.op # "arena" => \E p \in pending : p.id = x.id /\ p.by \in Task
          BY <1>1, <1>5, <2>1 DEF SoundInv, InboxesHold
    <3>2. x.id # r.id
          BY <1>5, <2>1
    <3>3. \A u \in Worker : \A a \in Heard(u)' : a = m \/ a \in Heard(u)
          BY <1>7
    <3> QED BY <1>1, <1>6, <3>1, <3>2, <3>3
  <2>2. \A v \in Worker : Runs(v)' => v = w
        BY <1>3, <1>4 DEF Runs
  <2> QED BY <1>5, <2>1, <2>2 DEF InboxesHold
<1>14. AbortsHold'
  <2> SUFFICES ASSUME thread'[w].poisoned
               PROVE  \E p \in pending' :
                         /\ p.by \in Task
                         /\ \A x \in Asked(w)' : x.op = "arena" /\ x.id # p.id
                         /\ \A u \in Worker : \A a \in Heard(u)' : a.id = p.id => a.out = "abort"
    <3>1. \A v \in Worker : Runs(v)' => v = w
          BY <1>3, <1>4 DEF Runs
    <3> QED BY <3>1 DEF AbortsHold
  <2>1. CASE thread[w].poisoned
    <3>1. PICK p \in pending :
              /\ p.by \in Task
              /\ \A x \in Asked(w) : x.op = "arena" /\ x.id # p.id
              /\ \A u \in Worker : \A a \in Heard(u) : a.id = p.id => a.out = "abort"
          BY <1>1, <2>1 DEF SoundInv, AbortsHold
    <3>2. m.id # p.id
          BY <1>5, <1>6, <3>1
    <3>3. \A u \in Worker : \A a \in Heard(u)' : a = m \/ a \in Heard(u)
          BY <1>7
    <3> QED BY <1>1, <1>5, <3>1, <3>2, <3>3
  <2>2. CASE ~thread[w].poisoned
    <3>1. out = "abort" /\ r.op # "arena"
      <4>1. out = "abort"
            BY <1>3, <2>2
      <4> QED BY <1>2, <4>1 DEF Outcome
    <3>2. PICK p \in pending : p.id = r.id /\ p.by \in Task
          BY <1>10, <3>1
    <3>3. ASSUME NEW x \in Asked(w)' PROVE x.op = "arena" /\ x.id # p.id
      <4>1. x.id # r.id
            BY <1>5, <3>3
      <4>2. ASSUME x.op # "arena" PROVE FALSE
        <5>1. PICK q \in pending : q.id = x.id /\ q.by \in Task
              BY <1>1, <1>5, <3>3, <4>2 DEF SoundInv, InboxesHold
        <5>2. q = p
              BY <3>2, <5>1 DEF OneCaller, ClientInv, PendingHolds
        <5> QED BY <3>2, <4>1, <5>1, <5>2
      <4> QED BY <3>2, <4>1, <4>2
    <3>4. \A u \in Worker : \A a \in Heard(u)' : a = m \/ (a \in Heard(u) /\ a.id # p.id)
          BY <1>7, <1>10, <3>2
    <3> QED BY <1>1, <1>6, <3>1, <3>2, <3>3, <3>4
  <2> QED BY <2>1, <2>2
<1>15. Clean'
  <2>1. \A u \in Worker : \A a \in Heard(u)' : a.bad => a \in Heard(u)
        BY <1>7, <1>9
  <2> QED BY <1>1, <2>1 DEF SoundInv, Clean
<1> QED BY <1>11, <1>12, <1>13, <1>14, <1>15 DEF SoundInv
\* What takes messages from the boxes and no request of a caller from those pending, and
\* brings no thread up.
LEMMA BoxesShrink ==
    ASSUME SoundInv, nextId' = nextId, pending' \subseteq pending,
           \A q \in pending : q.by \in Task => q \in pending',
           \A v \in Worker : /\ Asked(v)' \subseteq Asked(v) /\ Heard(v)' \subseteq Heard(v)
                             /\ thread'[v].state = "unborn" => thread[v].state = "unborn"
                             /\ Empty(v) => thread'[v].state = "dead" \/ Empty(v)'
                             /\ Runs(v)' => /\ Runs(v) /\ thread'[v].inbox = thread[v].inbox
                                            /\ thread'[v].poisoned = thread[v].poisoned
    PROVE  SoundInv'
<1>1. IdsHold'
      BY DEF SoundInv, IdsHold
<1>2. BirthsHold'
      BY DEF SoundInv, BirthsHold
<1>3. Clean'
      BY DEF SoundInv, Clean
<1>4. InboxesHold'
  <2> SUFFICES ASSUME NEW v \in Worker, Runs(v)'
               PROVE  /\ Distinct(thread'[v].inbox)
                      /\ \A x \in Asked(v)' :
                            /\ \A u \in Worker : \A m \in Heard(u)' : m.id # x.id
                            /\ x.op # "arena" => \E p \in pending' : p.id = x.id /\ p.by \in Task
      BY DEF InboxesHold
  <2>1. Runs(v) /\ thread'[v].inbox = thread[v].inbox
        OBVIOUS
  <2> QED BY <2>1 DEF SoundInv, InboxesHold
<1>5. AbortsHold'
  <2> SUFFICES ASSUME NEW v \in Worker, Runs(v)', thread'[v].poisoned
               PROVE  \E p \in pending' :
                         /\ p.by \in Task
                         /\ \A x \in Asked(v)' : x.op = "arena" /\ x.id # p.id
                         /\ \A u \in Worker : \A m \in Heard(u)' : m.id = p.id => m.out = "abort"
      BY DEF AbortsHold
  <2>1. PICK p \in pending :
            /\ p.by \in Task
            /\ \A x \in Asked(v) : x.op = "arena" /\ x.id # p.id
            /\ \A u \in Worker : \A m \in Heard(u) : m.id = p.id => m.out = "abort"
        BY DEF SoundInv, AbortsHold
  <2> QED BY <2>1
<1> QED BY <1>1, <1>2, <1>3, <1>4, <1>5 DEF SoundInv

\* Hearing takes a message from one box.
LEMMA HearShrinks ==
    ASSUME Typed, NEW w \in Worker, thread[w].outbox # <<>>
    PROVE  \A v \in Worker : /\ Msgs(Hear(thread, w)[v].outbox) \subseteq Heard(v)
                             /\ Empty(v) => Hear(thread, w)[v].outbox = <<>>
<1> SUFFICES ASSUME NEW v \in Worker
             PROVE  /\ Msgs(Hear(thread, w)[v].outbox) \subseteq Heard(v)
                    /\ Empty(v) => Hear(thread, w)[v].outbox = <<>>
    OBVIOUS
<1>1. Hear(thread, w)[v].outbox = IF v = w THEN Tail(thread[v].outbox) ELSE thread[v].outbox
      BY Hearing DEF Typed
<1>2. CASE v = w
  <2>1. thread[w].outbox \in Seq(Answers)
        BY Boxes
  <2>2. Msgs(Tail(thread[w].outbox)) \subseteq Msgs(thread[w].outbox)
        BY <2>1, HeadOut
  <2> QED BY <1>1, <1>2, <2>2 DEF Heard, Empty
<1>3. CASE v # w
      BY <1>1, <1>3 DEF Heard, Empty
<1> QED BY <1>2, <1>3
\* A message that nobody waits for, or that answers the recycler.
LEMMA SettlesSound ==
    ASSUME CallersFit, OneCaller, ClientInv, SoundInv, NEW w \in Worker, thread[w].outbox # <<>>, Settles(w)
    PROVE  SoundInv'
<1> DEFINE heard == Hear(thread, w)
<1>1. /\ heard \in [Worker -> Threads]
      /\ \A v \in Worker : /\ heard[v].state = thread[v].state /\ heard[v].inbox = thread[v].inbox
                           /\ heard[v].poisoned = thread[v].poisoned
                           /\ Msgs(heard[v].outbox) \subseteq Heard(v)
                           /\ Empty(v) => heard[v].outbox = <<>>
      BY Hearing, HearShrinks DEF ClientInv, Typed
<1>2. pending' \subseteq pending /\ nextId' = nextId /\ \A q \in pending : q.by \in Task => q \in pending'
      BY DEF Settles, Mine, ClientInv, PendingHolds, CallersFit
<1> HIDE DEF heard
<1>3. ASSUME NEW v \in Worker
      PROVE  /\ thread'[v].state = heard[v].state \/ (thread'[v].state = "dying" /\ heard[v].state = "up")
             /\ thread'[v].inbox = heard[v].inbox /\ thread'[v].outbox = heard[v].outbox
             /\ thread'[v].poisoned = heard[v].poisoned
  <2>1. CASE thread' = heard
        BY <2>1
  <2>2. CASE thread' = Terminating(heard, worker)
    <3>1. worker \in Worker \cup {None} /\ \A u \in Worker : heard[u].state = "up" <=> u = worker
          BY <1>1 DEF ClientInv, Typed, OneRuns
    <3>2. /\ thread'[v].state = IF v = worker THEN "dying" ELSE heard[v].state
          /\ thread'[v].inbox = heard[v].inbox /\ thread'[v].outbox = heard[v].outbox
          /\ thread'[v].poisoned = heard[v].poisoned
          BY <1>1, <2>2, <3>1, Stopping
    <3> QED BY <3>1, <3>2
  <2> QED BY <2>1, <2>2 DEF Settles, heard
<1>4. \A v \in Worker : /\ Asked(v)' \subseteq Asked(v) /\ Heard(v)' \subseteq Heard(v)
                        /\ thread'[v].state = "unborn" => thread[v].state = "unborn"
                        /\ Empty(v) => thread'[v].state = "dead" \/ Empty(v)'
                        /\ Runs(v)' => /\ Runs(v) /\ thread'[v].inbox = thread[v].inbox
                                       /\ thread'[v].poisoned = thread[v].poisoned
      BY <1>1, <1>3 DEF Asked, Heard, Empty, Runs
<1> QED BY <1>2, <1>4, BoxesShrink

\* The caller's answer is heard, and it was not an abort: no parser has aborted, and only
\* questions for the arena are before the thread that runs.
LEMMA CallerAnswered ==
    ASSUME CallersFit, OneCaller, ClientInv, SoundInv, NEW w \in Worker, thread[w].outbox # <<>>,
           NEW p \in Mine(w), p.by \in Task, Head(thread[w].outbox).out # "abort",
           NEW v \in Worker, Runs(v)
    PROVE  ~thread[v].poisoned /\ \A x \in Asked(v) : x.op = "arena"
<1> DEFINE m == Head(thread[w].outbox)
<1>1. m \in Heard(w) /\ m.id = p.id /\ p \in pending
  <2>1. thread[w].outbox \in Seq(Answers)
        BY Boxes DEF ClientInv
  <2>2. m \in Heard(w)
        BY <2>1, HeadOut DEF Heard
  <2> QED BY <2>2, Settled1
<1>2. \A q \in pending : q.by \in Task => q = p
      BY <1>1 DEF OneCaller, ClientInv, PendingHolds
<1>3. ~thread[v].poisoned
      BY <1>1, <1>2 DEF SoundInv, AbortsHold
<1>4. ASSUME NEW x \in Asked(v), x.op # "arena" PROVE FALSE
  <2>1. PICK q \in pending : q.id = x.id /\ q.by \in Task
        BY <1>4 DEF SoundInv, InboxesHold
  <2>2. m.id # x.id
        BY <1>1, <1>4 DEF SoundInv, InboxesHold
  <2> QED BY <1>1, <1>2, <2>1, <2>2
<1> QED BY <1>3, <1>4
\* So nothing but another question for the arena can be added.
LEMMA DoneSound ==
    ASSUME CallersFit, OneCaller, ClientInv, SoundInv, NEW w \in Worker, thread[w].outbox # <<>>,
           NEW p \in Mine(w), p.by \in Task, Head(thread[w].outbox).out # "abort", worker' = worker,
           \A v \in Worker :
              /\ thread'[v].state = thread[v].state /\ thread'[v].poisoned = thread[v].poisoned
              /\ thread'[v].outbox = Hear(thread, w)[v].outbox,
           \/ /\ nextId' = nextId /\ pending' = pending \ Mine(w)
              /\ \A v \in Worker : thread'[v].inbox = thread[v].inbox
           \/ /\ nextId' = nextId + 1 /\ worker \in Worker
              /\ pending' = (pending \ Mine(w)) \cup {[id |-> nextId, by |-> Recycler]}
              /\ \A v \in Worker : thread'[v].inbox = IF v = worker
                                      THEN Append(thread[v].inbox, [id |-> nextId, op |-> "arena"])
                                      ELSE thread[v].inbox
    PROVE  SoundInv'
<1> DEFINE r == [id |-> nextId, op |-> "arena"]
           a == [id |-> nextId, by |-> Recycler]
<1>1. r.id = nextId /\ r.op = "arena" /\ a.id = nextId /\ a.by = Recycler /\ nextId \in Nat
      BY DEF ClientInv, Typed
<1> HIDE DEF r, a
<1>2. /\ \A v \in Worker : Heard(v)' \subseteq Heard(v) /\ (Empty(v) => thread'[v].outbox = <<>>)
      /\ \A v \in Worker : Runs(v)' => Runs(v) /\ v = worker
      /\ nextId' \in Nat /\ nextId <= nextId'
  <2>1. \A v \in Worker : Heard(v)' \subseteq Heard(v) /\ (Empty(v) => thread'[v].outbox = <<>>)
        BY HearShrinks DEF ClientInv, Heard
  <2>2. \A v \in Worker : Runs(v)' => Runs(v) /\ v = worker
        BY DEF Runs, ClientInv, OneRuns
  <2> QED BY <1>1, <2>1, <2>2
<1>3. \A v \in Worker : Runs(v) => ~thread[v].poisoned /\ \A x \in Asked(v) : x.op = "arena"
      BY CallerAnswered
<1>4. \A v \in Worker : \A x \in Asked(v) \cup Heard(v) : x.id < nextId /\ x.id \in Nat
  <2>1. \A v \in Worker : \A x \in Asked(v) \cup Heard(v) : x.id < nextId
        BY DEF SoundInv, IdsHold
  <2>2. \A v \in Worker : \A x \in Asked(v) : x.id \in Nat
        BY Boxes DEF ClientInv, Requests
  <2>3. \A v \in Worker : \A x \in Heard(v) : x.id \in Nat
        BY Boxes DEF ClientInv, Answers
  <2> QED BY <2>1, <2>2, <2>3
<1>5. ASSUME NEW v \in Worker
      PROVE  /\ \A x \in Asked(v)' : x \in Asked(v) \/ (x = r /\ nextId' = nextId + 1)
             /\ Runs(v) => Distinct(thread'[v].inbox)
             /\ thread[v].state = "unborn" => thread'[v].inbox = thread[v].inbox
  <2>1. Runs(v) => Distinct(thread[v].inbox)
        BY DEF SoundInv, InboxesHold
  <2>2. CASE thread'[v].inbox = thread[v].inbox
        BY <2>1, <2>2 DEF Asked
  <2>3. CASE nextId' = nextId + 1 /\ v = worker /\ thread'[v].inbox = Append(thread[v].inbox, r)
    <3>1. thread[v].inbox \in Seq(Requests)
          BY Boxes DEF ClientInv
    <3>2. \A x \in Msgs(thread[v].inbox) : x.id # r.id
          BY <1>1, <1>4 DEF Asked
    <3>3. /\ Msgs(Append(thread[v].inbox, r)) = Msgs(thread[v].inbox) \cup {r}
          /\ Distinct(thread[v].inbox) => Distinct(Append(thread[v].inbox, r))
          BY <3>1, <3>2, PutIn
    <3>4. thread[v].state = "up"
          BY <2>3 DEF ClientInv, OneRuns
    <3> QED BY <2>1, <2>3, <3>3, <3>4 DEF Asked
  <2> QED BY <2>2, <2>3 DEF r
<1>6. IdsHold'
  <2> SUFFICES ASSUME NEW v \in Worker, NEW x \in Asked(v)' \cup Heard(v)' PROVE x.id < nextId'
      BY DEF IdsHold
  <2>1. CASE x \in Asked(v) \cup Heard(v)
        BY <1>1, <1>2, <1>4, <2>1
  <2>2. CASE x = r /\ nextId' = nextId + 1
        BY <1>1, <2>2
  <2> QED BY <1>2, <1>5, <2>1, <2>2
<1>7. BirthsHold'
  <2> SUFFICES ASSUME NEW v \in Worker, thread'[v].state = "unborn" PROVE Empty(v)'
      BY DEF BirthsHold
  <2>1. thread[v].state = "unborn" /\ Empty(v)
        BY DEF SoundInv, BirthsHold
  <2> QED BY <1>2, <1>5, <2>1 DEF Empty
<1>8. InboxesHold'
  <2> SUFFICES ASSUME NEW v \in Worker, Runs(v)'
               PROVE  /\ Distinct(thread'[v].inbox)
                      /\ \A x \in Asked(v)' :
                            /\ \A u \in Worker : \A m \in Heard(u)' : m.id # x.id
                            /\ x.op # "arena" => \E q \in pending' : q.id = x.id /\ q.by \in Task
      BY DEF InboxesHold
  <2>1. Runs(v)
        BY <1>2
  <2>2. ASSUME NEW x \in Asked(v)'
        PROVE  x.op = "arena" /\ \A u \in Worker : \A m \in Heard(u)' : m.id # x.id
    <3>1. CASE x \in Asked(v)
      <4>1. \A u \in Worker : \A m \in Heard(u) : m.id # x.id
            BY <2>1, <3>1 DEF SoundInv, InboxesHold
      <4> QED BY <1>2, <1>3, <2>1, <3>1, <4>1
    <3>2. CASE x = r
      <4>1. \A u \in Worker : \A m \in Heard(u) : m.id < nextId /\ m.id \in Nat
            BY <1>4
      <4> QED BY <1>1, <1>2, <3>2, <4>1
    <3> QED BY <1>5, <2>2, <3>1, <3>2
  <2> QED BY <1>5, <2>1, <2>2
<1>9. AbortsHold'
  <2>1. \A v \in Worker : Runs(v)' => ~thread'[v].poisoned
        BY <1>2, <1>3
  <2> QED BY <2>1 DEF AbortsHold
<1>10. Clean'
  <2> SUFFICES ASSUME NEW v \in Worker, NEW m \in Heard(v)', m.bad, NEW q \in pending', q.id = m.id
               PROVE  q.by \notin Task
      BY DEF Clean
  <2>1. m \in Heard(v)
        BY <1>2
  <2>2. CASE q \in pending
        BY <2>1, <2>2 DEF SoundInv, Clean
  <2>3. CASE q = a
        BY <1>1, <2>3 DEF CallersFit
  <2> QED BY <2>2, <2>3 DEF a
<1> QED BY <1>6, <1>7, <1>8, <1>9, <1>10 DEF SoundInv

LEMMA DeliverSound ==
    ASSUME CallersFit, OneCaller, ClientInv, SoundInv, NEW w \in Worker, Deliver(w)
    PROVE  SoundInv'
<1>1. thread[w].outbox # <<>>
      BY DeliverIs
<1>2. CASE Settles(w)
      BY <1>1, <1>2, SettlesSound
<1>3. ASSUME NEW p \in Mine(w), p.by \in Task, TaskSettles(w, p.by) PROVE SoundInv'
  <2> DEFINE t == p.by
             heard == Hear(thread, w)
  <2>1. /\ heard \in [Worker -> Threads]
        /\ \A v \in Worker : /\ heard[v].state = thread[v].state /\ heard[v].inbox = thread[v].inbox
                             /\ heard[v].poisoned = thread[v].poisoned
                             /\ heard[v].outbox = IF v = w THEN Tail(thread[v].outbox) ELSE thread[v].outbox
                             /\ Msgs(heard[v].outbox) \subseteq Heard(v)
                             /\ Empty(v) => heard[v].outbox = <<>>
        BY <1>1, Hearing, HearShrinks DEF ClientInv, Typed
  <2>2. CASE /\ Head(thread[w].outbox).out = "ok" /\ Succeeds(t, w)
             /\ pending' = (pending \ Mine(w)) \cup {[id |-> i, by |-> Recycler] : i \in nextId..(nextId' - 1)}
    <3>1. /\ worker' = worker
          /\ \A v \in Worker :
                /\ thread'[v].state = thread[v].state /\ thread'[v].poisoned = thread[v].poisoned
                /\ thread'[v].outbox = IF v = w THEN Tail(thread[v].outbox) ELSE thread[v].outbox
          /\ \/ nextId' = nextId /\ \A v \in Worker : thread'[v].inbox = thread[v].inbox
             \/ /\ nextId' = nextId + 1 /\ worker \in Worker
                /\ \A v \in Worker : thread'[v].inbox = IF v = worker
                                        THEN Append(thread[v].inbox, [id |-> nextId, op |-> "arena"])
                                        ELSE thread[v].inbox
          BY <1>1, <1>3, <2>2, SucceedsIs
    <3>2. \A v \in Worker : thread'[v].outbox = heard[v].outbox
          BY <2>1, <3>1
    <3>3. nextId \in Nat
          BY DEF ClientInv, Typed
    <3>4. CASE nextId' = nextId /\ \A v \in Worker : thread'[v].inbox = thread[v].inbox
      <4>1. nextId..(nextId' - 1) = {}
            BY <3>3, <3>4
      <4>2. pending' = pending \ Mine(w)
            BY <2>2, <4>1
      <4> QED BY <1>1, <1>3, <2>2, <3>1, <3>2, <3>4, <4>2, DoneSound
    <3>5. CASE /\ nextId' = nextId + 1 /\ worker \in Worker
               /\ \A v \in Worker : thread'[v].inbox = IF v = worker
                                       THEN Append(thread[v].inbox, [id |-> nextId, op |-> "arena"])
                                       ELSE thread[v].inbox
      <4>1. nextId..(nextId' - 1) = {nextId}
            BY <3>3, <3>5
      <4>2. pending' = (pending \ Mine(w)) \cup {[id |-> nextId, by |-> Recycler]}
            BY <2>2, <4>1
      <4> QED BY <1>1, <1>3, <2>2, <3>1, <3>2, <3>5, <4>2, DoneSound
    <3> QED BY <3>1, <3>4, <3>5
  <2>3. CASE /\ Head(thread[w].outbox).out = "fail" /\ pending' = pending \ Mine(w)
             /\ thread' = heard /\ UNCHANGED <<worker, nextId>>
        BY <1>1, <1>3, <2>1, <2>3, DoneSound
  <2>4. CASE pending' = pending \ Mine(w) /\ Aborts(t, w) /\ UNCHANGED nextId
    <3>1. Stops(call[t].op)
      <4>1. call[t].pc = "wait" /\ CallHolds(t)
            BY <1>3, Settled1 DEF ClientInv, CallsHold
      <4> QED BY <4>1 DEF CallHolds, OneCaller
    <3>2. thread' = Terminating(heard, worker)
          BY <2>4, <3>1 DEF Aborts, Hear
    <3> HIDE DEF heard
    <3>3. worker \in Worker \cup {None} /\ \A v \in Worker : heard[v].state = "up" <=> v = worker
          BY <2>1 DEF ClientInv, Typed, OneRuns
    <3>4. \A v \in Worker : /\ thread'[v].state = IF v = worker THEN "dying" ELSE heard[v].state
                            /\ thread'[v].state # "up" /\ thread'[v].inbox = heard[v].inbox
                            /\ thread'[v].outbox = heard[v].outbox /\ thread'[v].poisoned = heard[v].poisoned
          BY <2>1, <3>2, <3>3, Stopping
    <3>5. \A v \in Worker : /\ thread'[v].state # "up"
                            /\ Asked(v)' \subseteq Asked(v) /\ Heard(v)' \subseteq Heard(v)
                            /\ thread'[v].state = "unborn" => thread[v].state = "unborn"
                            /\ Empty(v) => thread'[v].state = "dead" \/ Empty(v)'
          BY <2>1, <3>4 DEF Asked, Heard, Empty
    <3> QED BY <2>4, <3>5, NoneRuns DEF ClientInv
  <2> QED BY <1>3, <2>2, <2>3, <2>4 DEF TaskSettles
<1> QED BY <1>2, <1>3, DeliverIs
\* A worker is left for a call that begins, and for one that is tried again.
LEMMA RoomLeft ==
    ASSUME CallersFit, ClientInv, NEW t \in Task, Call(t) \/ (Resume(t) /\ Retry(t))
    PROVE  \E n \in 0..MaxWorkers : n < MaxWorkers /\ Born(thread, n)
<1>1. PICK n \in 0..MaxWorkers : Born(thread, n) /\ n + Cardinality(Firsts(call)) <= 2 * calls
      BY DEF ClientInv, SpawnsHold
<1>2. n \in Nat /\ calls \in Nat /\ calls <= MaxCalls /\ MaxCalls \in Nat
      BY <1>1, WorkersAre DEF ClientInv, Typed, CallersFit
<1>3. IsFiniteSet(Firsts(call)) /\ Cardinality(Firsts(call)) \in Nat
      BY FirstsCounted
<1>4. CASE Call(t)
  <2>1. calls < MaxCalls
        BY <1>4 DEF Call
  <2>2. n < MaxWorkers
        BY <1>1, <1>2, <1>3, <2>1 DEF MaxWorkers
  <2> QED BY <1>1, <2>2
<1>5. CASE Resume(t) /\ Retry(t)
  <2>1. t \in Firsts(call)
        BY <1>5 DEF Resume, Retry, Firsts
  <2>2. Cardinality(Firsts(call)) # 0
        BY <1>3, <2>1, FS_EmptySet
  <2>3. n < MaxWorkers
        BY <1>1, <1>2, <1>3, <2>2 DEF MaxWorkers
  <2> QED BY <1>1, <2>3
<1> QED BY <1>4, <1>5

\* A call begins, or is tried again: at most a new thread.
LEMMA BeginSound ==
    ASSUME CallersFit, ClientInv, SoundInv, NEW t \in Task, Call(t) \/ Resume(t)
    PROVE  SoundInv'
<1>1. pending' = pending /\ nextId' = nextId
      BY DEF Call, Resume
<1>2. (EnsureWorker /\ (Call(t) \/ (Resume(t) /\ Retry(t)))) \/ thread' = thread
      BY DEF Call, Resume
<1>3. CASE thread' = thread
      BY <1>1, <1>3, SoundStays
<1>4. CASE EnsureWorker /\ (Call(t) \/ (Resume(t) /\ Retry(t)))
  <2>1. PICK n \in 0..MaxWorkers : n < MaxWorkers /\ Born(thread, n)
        BY <1>4, RoomLeft
  <2>2. /\ thread' \in [Worker -> Threads]
        /\ \A w \in Worker : thread'[w] = thread[w] \/ (thread[w].state = "unborn" /\ w = worker')
        BY <1>4, <2>1, WorkerEnsured DEF ClientInv
  <2> QED BY <1>1, <1>4, <2>2, EnsuredSound DEF ClientInv
<1> QED BY <1>2, <1>3, <1>4

\* A thread ends: its boxes go with it.
LEMMA EndSound ==
    ASSUME CallersFit, ClientInv, SoundInv, NEW w \in Worker, Exit(w) \/ Dies(w)
    PROVE  SoundInv'
<1>1. /\ thread' = [thread EXCEPT ![w] = [Unborn EXCEPT !.state = "dead"]] /\ nextId' = nextId
      /\ pending' = pending \/ (Dies(w) /\ worker = w /\ pending' = {})
      BY DEF Exit, Dies
<1>2. /\ \A v \in Worker : v # w => thread'[v] = thread[v]
      /\ thread'[w].state = "dead" /\ thread'[w].outbox = <<>> /\ thread'[w].inbox = <<>>
      BY <1>1, Ending DEF ClientInv
<1>3. \A v \in Worker : /\ Asked(v)' \subseteq Asked(v) /\ Heard(v)' \subseteq Heard(v)
                        /\ thread'[v].state = "unborn" => thread[v].state = "unborn"
                        /\ Empty(v) => thread'[v].state = "dead" \/ Empty(v)'
                        /\ Runs(v)' => /\ Runs(v) /\ thread'[v].inbox = thread[v].inbox
                                       /\ thread'[v].poisoned = thread[v].poisoned
  <2> SUFFICES ASSUME NEW v \in Worker
               PROVE  /\ Asked(v)' \subseteq Asked(v) /\ Heard(v)' \subseteq Heard(v)
                      /\ thread'[v].state = "unborn" => thread[v].state = "unborn"
                      /\ Empty(v) => thread'[v].state = "dead" \/ Empty(v)'
                      /\ Runs(v)' => /\ Runs(v) /\ thread'[v].inbox = thread[v].inbox
                                     /\ thread'[v].poisoned = thread[v].poisoned
      OBVIOUS
  <2>1. CASE v = w
        BY <1>2, <2>1, NoMsgs DEF Asked, Heard, Runs
  <2>2. CASE v # w
        BY <1>2, <2>2 DEF Asked, Heard, Runs, Empty
  <2> QED BY <2>1, <2>2
<1>4. CASE pending' = pending
      BY <1>1, <1>3, <1>4, BoxesShrink
<1>5. CASE worker = w /\ pending' = {}
  <2>1. \A v \in Worker : thread'[v].state # "up"
        BY <1>2, <1>5 DEF ClientInv, OneRuns
  <2> QED BY <1>1, <1>3, <1>5, <2>1, NoneRuns DEF ClientInv
<1> QED BY <1>1, <1>4, <1>5

\* The worker is stopped from outside.
LEMMA StopSound ==
    ASSUME CallersFit, ClientInv, SoundInv, IdleFires \/ Dispose
    PROVE  SoundInv'
<1>1. thread' = Terminating(thread, worker) /\ UNCHANGED <<pending, nextId>>
      BY DEF IdleFires, Dispose
<1>2. \A v \in Worker : /\ thread'[v].state = IF v = worker THEN "dying" ELSE thread[v].state
                        /\ thread'[v].state # "up"
                        /\ thread'[v].inbox = thread[v].inbox
                        /\ thread'[v].outbox = thread[v].outbox
                        /\ thread'[v].poisoned = thread[v].poisoned
      BY <1>1, Stopping DEF ClientInv, Typed, OneRuns
<1>3. \A v \in Worker : /\ thread'[v].state # "up"
                        /\ Asked(v)' \subseteq Asked(v) /\ Heard(v)' \subseteq Heard(v)
                        /\ thread'[v].state = "unborn" => thread[v].state = "unborn"
                        /\ Empty(v) => thread'[v].state = "dead" \/ Empty(v)'
      BY <1>2 DEF Asked, Heard, Empty
<1> QED BY <1>1, <1>3, NoneRuns DEF ClientInv

LEMMA SoundSteps ==
    ASSUME CallersFit, OneCaller, ClientInv, SoundInv, [Next]_vars
    PROVE  SoundInv'
<1>1. ASSUME NEW t \in Task, Call(t) \/ Resume(t) PROVE SoundInv'
      BY <1>1, BeginSound
<1>2. ASSUME NEW t \in Task, Send(t) PROVE SoundInv'
      BY <1>2, SendSound
<1>3. ASSUME NEW w \in Worker, Answer(w) PROVE SoundInv'
      BY <1>3, AnswerSound
<1>4. ASSUME NEW w \in Worker, Deliver(w) PROVE SoundInv'
      BY <1>4, DeliverSound
<1>5. ASSUME NEW w \in Worker, Exit(w) \/ Dies(w) PROVE SoundInv'
      BY <1>5, EndSound
<1>6. CASE IdleFires \/ Dispose
      BY <1>6, StopSound
<1>7. CASE UNCHANGED vars
      BY <1>7, SoundStays DEF vars
<1> QED BY <1>1, <1>2, <1>3, <1>4, <1>5, <1>6, <1>7 DEF Next

LEMMA SoundStarts == Init => SoundInv
<1> SUFFICES ASSUME Init PROVE SoundInv
    OBVIOUS
<1>1. \A v \in Worker : /\ thread[v].state = "unborn" /\ Empty(v)
                        /\ Asked(v) = {} /\ Heard(v) = {}
      BY NoMsgs DEF Init, Unborn, Empty, Asked, Heard
<1> QED BY <1>1 DEF SoundInv, IdsHold, BirthsHold, InboxesHold, AbortsHold, Clean, Runs

\* An aborted instance answers everything with an ERROR-rooted tree.  A single caller whose
\* calls stop the worker after an abort takes none of those answers, whatever else stops
\* workers meanwhile; with the queries, or with a second caller, that is not so.
THEOREM NoBrokenAnswers ==
    ASSUME CallersFit, OneCaller
    PROVE  Spec => [][DeliveredSound]_vars
<1>1. Init => ClientInv /\ SoundInv
      BY ClientStarts, SoundStarts
<1>2. ClientInv /\ SoundInv /\ [Next]_vars => (ClientInv /\ SoundInv)'
      BY ClientSteps, SoundSteps
<1>3. ClientInv /\ SoundInv => DeliveredSound
  <2> SUFFICES ASSUME ClientInv, SoundInv, NEW w \in Worker, thread[w].outbox # <<>>,
                      Head(thread[w].outbox).bad, NEW t \in Task,
                      [id |-> Head(thread[w].outbox).id, by |-> t] \in pending
               PROVE  FALSE
      BY DEF DeliveredSound
  <2> DEFINE m == Head(thread[w].outbox)
             p == [id |-> m.id, by |-> t]
  <2>1. thread[w].outbox \in Seq(Answers)
        BY Boxes DEF ClientInv
  <2>2. m \in Heard(w) /\ m.bad
        BY <2>1, HeadOut DEF Heard
  <2>3. p.id = m.id /\ p.by = t /\ p \in pending
        OBVIOUS
  <2> QED BY <2>2, <2>3 DEF SoundInv, Clean
<1> QED BY <1>1, <1>2, <1>3, PTL DEF Spec
=============================================================================
