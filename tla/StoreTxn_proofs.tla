-------------------------- MODULE StoreTxn_proofs --------------------------
(***************************************************************************)
(* Theorems about StoreTxn, for every value of its constants: with one     *)
(* call of a process at a time, its transactions implement AtomicStore.    *)
(***************************************************************************)
EXTENDS StoreTxn, TLAPS

\* The writes a running call has made.
Made(c) == {c} \X (1 .. call[c].done)

\* Where a call stands.
Standing == [pc : {"idle", "run", "done"}, role : {"none", "own", "joined"},
             saved : Nat, done : 0..Parts, tries : 0..BusyRetries]

\* What is in the store of a call follows from its answer.
Settled(c) == durable \cap ({c} \X Part) = IF answer[c] = "ok" THEN {c} \X Part ELSE {}

\* A running call owns the one open transaction, which holds what it has written; nothing
\* is nested, and a call that was answered runs no more.
OwnerRuns ==
    \A c \in Any : call[c].pc = "run" =>
        /\ call[c].role = "own" /\ c \in Call
        /\ lock = ProcessOf[c] /\ pending = Made(c)
OneRuns == \A c, d \in Any : call[c].pc = "run" /\ call[d].pc = "run" => c = d
LockIsOwned == lock # Nobody => Running(lock) # {}
NotNested == \A p \in Process : depth[p] = IF lock = p THEN 1 ELSE 0
AnsweredIsOver == \A c \in Any : answer[c] = "none" <=> call[c].pc # "done"

TxnInv ==
    /\ TypeOK /\ OwnerRuns /\ OneRuns /\ LockIsOwned /\ NotNested /\ AnsweredIsOver
    /\ \A c \in Any : Settled(c)

LEMMA InitTxn == Init => TxnInv
<1> SUFFICES ASSUME Init PROVE TxnInv
    OBVIOUS
<1> USE TxnAssumption
<1>1. TypeOK
      BY DEF Init, TypeOK, Idle, Any, Part
<1>2. OwnerRuns /\ OneRuns /\ LockIsOwned /\ NotNested /\ AnsweredIsOver
      BY DEF Init, OwnerRuns, OneRuns, LockIsOwned, NotNested, AnsweredIsOver, Idle
<1>3. \A c \in Any : Settled(c)
      BY DEF Init, Settled
<1> QED BY <1>1, <1>2, <1>3 DEF TxnInv

\* With calls one at a time no call joins another's transaction.
LEMMA NobodyJoins ==
    ASSUME ~Overlap, TxnInv, NEW c \in Any
    PROVE  ~Join(c)
<1> SUFFICES ASSUME Join(c) PROVE FALSE
    OBVIOUS
<1> USE TxnAssumption
<1>1. ProcessOf[c] \in Process /\ depth[ProcessOf[c]] > 0
      BY DEF Join
<1>2. lock = ProcessOf[c]
      BY <1>1 DEF TxnInv, NotNested
<1>3. Running(ProcessOf[c]) # {}
      BY <1>1, <1>2 DEF TxnInv, LockIsOwned
<1> QED BY <1>3 DEF Join, MayRun

\* A call that ends keeps its type.
LEMMA EndedTyped ==
    ASSUME TypeOK, NEW c \in Any, NEW what \in {"ok", "failed"},
           call' = [call EXCEPT ![c] = [@ EXCEPT !.pc = "done"]], answer' = [answer EXCEPT ![c] = what]
    PROVE  /\ call' \in [Any -> Standing]
           /\ answer' \in [Any -> {"none", "ok", "failed", "lost"}]
           /\ call'[c].pc = "done" /\ answer'[c] = what
           /\ \A d \in Any : d # c => call'[d] = call[d] /\ answer'[d] = answer[d]
<1>1. call \in [Any -> Standing] /\ answer \in [Any -> {"none", "ok", "failed", "lost"}]
      BY DEF TypeOK, Standing
<1>2. [call[c] EXCEPT !.pc = "done"]
          = [pc |-> "done", role |-> call[c].role, saved |-> call[c].saved,
             done |-> call[c].done, tries |-> call[c].tries]
      BY <1>1 DEF Standing
<1>3. call' \in [Any -> Standing]
      BY <1>1, <1>2 DEF Standing
<1> QED BY <1>1, <1>2, <1>3

LEMMA BeginTxn ==
    ASSUME TxnInv, NEW c \in Any, Begin(c)
    PROVE  TxnInv'
<1> USE TxnAssumption
<1>1. /\ c \in Call /\ call[c].pc = "idle" /\ lock = Nobody /\ ProcessOf[c] \in Process
      /\ lock' = ProcessOf[c] /\ pending' = {} /\ durable' = durable /\ answer' = answer
      /\ depth' = [depth EXCEPT ![ProcessOf[c]] = 1]
      /\ call' = [call EXCEPT ![c] = Owner]
      BY DEF Begin, MayBegin
<1>2. TypeOK /\ call \in [Any -> Standing]
      BY DEF TxnInv, TypeOK, Standing
<1>3. TypeOK'
  <2>1. Owner \in Standing
        BY DEF Standing, Owner
  <2>2. call' \in [Any -> Standing]
        BY <1>1, <1>2, <2>1
  <2> QED BY <1>1, <1>2, <2>2 DEF TypeOK, Standing
<1>4. \A d \in Any : call[d].pc # "run"
      BY <1>1 DEF TxnInv, OwnerRuns
<1>5. /\ call'[c].pc = "run" /\ call'[c].role = "own" /\ call'[c].done = 0
      /\ \A d \in Any : d # c => call'[d] = call[d]
      BY <1>1, <1>2 DEF Owner
<1>6. OwnerRuns'
      BY <1>1, <1>4, <1>5 DEF OwnerRuns, Made
<1>7. OneRuns'
      BY <1>4, <1>5 DEF OneRuns
<1>8. LockIsOwned'
      BY <1>1, <1>5 DEF LockIsOwned, Running
<1>9. NotNested'
      BY <1>1, <1>2 DEF TxnInv, NotNested, TypeOK
<1>10. AnsweredIsOver'
      BY <1>1, <1>5 DEF TxnInv, AnsweredIsOver
<1>11. \A d \in Any : Settled(d)'
      BY <1>1 DEF TxnInv, Settled
<1> QED BY <1>3, <1>6, <1>7, <1>8, <1>9, <1>10, <1>11 DEF TxnInv

LEMMA BusyTxn ==
    ASSUME TxnInv, NEW c \in Any, Busy(c)
    PROVE  TxnInv'
<1> USE TxnAssumption
<1>1. /\ call[c].pc = "idle" /\ lock' = lock /\ depth' = depth /\ pending' = pending /\ durable' = durable
      /\ \/ /\ TriesLeft(c) /\ call' = [call EXCEPT ![c] = [call[c] EXCEPT !.tries = call[c].tries + 1]] /\ answer' = answer
         \/ call' = [call EXCEPT ![c] = [@ EXCEPT !.pc = "done"]] /\ answer' = [answer EXCEPT ![c] = "failed"]
      BY DEF Busy, Ended, Told
<1>2. TypeOK /\ call \in [Any -> Standing]
      /\ answer \in [Any -> {"none", "ok", "failed", "lost"}]
      BY DEF TxnInv, TypeOK, Standing
<1>3. TypeOK'
  <2>1. /\ [call[c] EXCEPT !.pc = "done"]
              = [pc |-> "done", role |-> call[c].role, saved |-> call[c].saved,
                 done |-> call[c].done, tries |-> call[c].tries]
        /\ [call[c] EXCEPT !.tries = call[c].tries + 1]
              = [pc |-> call[c].pc, role |-> call[c].role, saved |-> call[c].saved,
                 done |-> call[c].done, tries |-> call[c].tries + 1]
        BY <1>2 DEF Standing
  <2>2. TriesLeft(c) => call[c].tries + 1 \in 0..BusyRetries
        BY <1>2 DEF Standing, TriesLeft
  <2>3. /\ [call[c] EXCEPT !.pc = "done"] \in Standing
        /\ TriesLeft(c) => [call[c] EXCEPT !.tries = call[c].tries + 1] \in Standing
        BY <1>2, <2>1, <2>2 DEF Standing
  <2>4. call' \in [Any -> Standing]
    <3>1. CASE TriesLeft(c) /\ call' = [call EXCEPT ![c] = [call[c] EXCEPT !.tries = call[c].tries + 1]]
          BY <1>2, <2>3, <3>1
    <3>2. CASE call' = [call EXCEPT ![c] = [@ EXCEPT !.pc = "done"]]
          BY <1>2, <2>3, <3>2
    <3> QED BY <1>1, <3>1, <3>2
  <2> QED BY <1>1, <1>2, <2>4 DEF TypeOK, Standing
<1>4. /\ call'[c].pc \in {"idle", "done"}
      /\ \A d \in Any : d # c => call'[d] = call[d] /\ answer'[d] = answer[d]
      /\ answer[c] = "none" /\ answer'[c] \in {"none", "failed"}
      /\ answer'[c] = "none" <=> call'[c].pc # "done"
  <2>1. answer[c] = "none"
        BY <1>1 DEF TxnInv, AnsweredIsOver
  <2>2. \A d \in Any : d # c => call'[d] = call[d] /\ answer'[d] = answer[d]
        BY <1>1, <1>2
  <2>3. CASE /\ call' = [call EXCEPT ![c] = [call[c] EXCEPT !.tries = call[c].tries + 1]] /\ answer' = answer
        BY <1>1, <1>2, <2>1, <2>2, <2>3
  <2>4. CASE /\ call' = [call EXCEPT ![c] = [@ EXCEPT !.pc = "done"]]
             /\ answer' = [answer EXCEPT ![c] = "failed"]
        BY <1>2, <2>1, <2>2, <2>4
  <2> QED BY <1>1, <2>3, <2>4
<1>5. OwnerRuns' /\ OneRuns'
      BY <1>1, <1>4 DEF TxnInv, OwnerRuns, OneRuns, Made
<1>6. LockIsOwned'
      BY <1>1, <1>4 DEF TxnInv, LockIsOwned, Running
<1>7. NotNested'
      BY <1>1 DEF TxnInv, NotNested
<1>8. AnsweredIsOver'
      BY <1>4 DEF TxnInv, AnsweredIsOver
<1>9. \A d \in Any : Settled(d)'
      BY <1>1, <1>4 DEF TxnInv, Settled
<1> QED BY <1>3, <1>5, <1>6, <1>7, <1>8, <1>9 DEF TxnInv

LEMMA WriteTxn ==
    ASSUME TxnInv, NEW c \in Any, Write(c)
    PROVE  TxnInv'
<1> USE TxnAssumption
<1>1. /\ call[c].pc = "run" /\ call[c].done < Parts /\ lock = ProcessOf[c] /\ pending = Made(c)
      /\ \A d \in Any : call[d].pc = "run" => d = c
      BY DEF Write, TxnInv, OwnerRuns, OneRuns
<1>2. /\ lock' = lock /\ depth' = depth /\ answer' = answer /\ durable' = durable
      /\ pending' = pending \cup {<<c, call[c].done + 1>>}
      BY <1>1 DEF Write
<1>0. call' = [call EXCEPT ![c] = [call[c] EXCEPT !.done = call[c].done + 1]]
      BY DEF Write
<1>3. TypeOK /\ call \in [Any -> Standing]
      BY DEF TxnInv, TypeOK, Standing
<1>4. /\ call'[c].done = call[c].done + 1 /\ call'[c].pc = "run" /\ call'[c].role = call[c].role
      /\ call[c].done \in Nat
      /\ \A d \in Any : d # c => call'[d] = call[d]
  <2>1. call[c].done \in Nat
        BY <1>3 DEF Standing
  <2> QED BY <1>0, <1>1, <1>3, <2>1
<1>5. TypeOK'
  <2>1. [call[c] EXCEPT !.done = call[c].done + 1]
            = [pc |-> call[c].pc, role |-> call[c].role, saved |-> call[c].saved,
               done |-> call[c].done + 1, tries |-> call[c].tries]
        BY <1>3 DEF Standing
  <2>2. call[c].done + 1 \in Part /\ call[c].done + 1 \in 0..Parts
        BY <1>1, <1>3, <1>4 DEF Part
  <2>3. [call[c] EXCEPT !.done = call[c].done + 1] \in Standing
        BY <1>3, <2>1, <2>2 DEF Standing
  <2>4. call' \in [Any -> Standing]
        BY <1>0, <1>3, <2>3
  <2> QED BY <1>2, <1>3, <2>2, <2>4 DEF TypeOK, Standing
<1>6. Made(c)' = Made(c) \cup {<<c, call[c].done + 1>>}
      BY <1>4 DEF Made
<1>7. OwnerRuns'
      BY <1>1, <1>2, <1>4, <1>6 DEF TxnInv, OwnerRuns
<1>8. OneRuns' /\ LockIsOwned'
  <2>1. \A d \in Any : call'[d].pc = call[d].pc
        BY <1>1, <1>4
  <2> QED BY <1>2, <2>1 DEF TxnInv, OneRuns, LockIsOwned, Running
<1>9. NotNested' /\ AnsweredIsOver'
      BY <1>2, <1>4, <1>1 DEF TxnInv, NotNested, AnsweredIsOver
<1>10. \A d \in Any : Settled(d)'
      BY <1>2 DEF TxnInv, Settled
<1> QED BY <1>5, <1>7, <1>8, <1>9, <1>10 DEF TxnInv

LEMMA EndTxn ==
    ASSUME TxnInv, NEW c \in Any, End(c)
    PROVE  TxnInv'
<1> USE TxnAssumption
<1>1. /\ call[c].pc = "run" /\ call[c].role = "own" /\ call[c].done = Parts /\ c \in Call
      /\ lock = ProcessOf[c] /\ pending = Made(c) /\ ProcessOf[c] \in Process
      /\ \A d \in Any : call[d].pc = "run" => d = c
      BY DEF End, TxnInv, OwnerRuns, OneRuns
<1>2. /\ durable' = durable \cup pending /\ pending' = {} /\ lock' = Nobody
      /\ depth' = [depth EXCEPT ![ProcessOf[c]] = 0]
      /\ call' = [call EXCEPT ![c] = [@ EXCEPT !.pc = "done"]]
      /\ answer' = [answer EXCEPT ![c] = "ok"]
      BY <1>1 DEF End, CommittedAtEnd, LockAfter, DepthAfter, Ended, Told
<1>3. pending = {c} \X Part
      BY <1>1 DEF Made, Part
<1>3a. TypeOK
      BY DEF TxnInv
<1>4. /\ call' \in [Any -> Standing] /\ call'[c].pc = "done"
      /\ answer' \in [Any -> {"none", "ok", "failed", "lost"}]
      /\ \A d \in Any : d # c => call'[d] = call[d] /\ answer'[d] = answer[d]
      /\ answer'[c] = "ok"
      BY <1>2, <1>3a, EndedTyped
<1>4a. TypeOK'
      BY <1>2, <1>3a, <1>4 DEF TypeOK, Standing
<1>5. OwnerRuns' /\ OneRuns' /\ LockIsOwned'
      BY <1>1, <1>2, <1>4 DEF OwnerRuns, OneRuns, LockIsOwned
<1>6. NotNested'
      BY <1>1, <1>2, <1>3a DEF TxnInv, NotNested, TypeOK
<1>7. AnsweredIsOver'
  <2>1. \A d \in Any : answer[d] = "none" <=> call[d].pc # "done"
        BY DEF TxnInv, AnsweredIsOver
  <2>2. SUFFICES ASSUME NEW d \in Any PROVE answer'[d] = "none" <=> call'[d].pc # "done"
        BY DEF AnsweredIsOver
  <2>3. CASE d = c
        BY <1>4, <2>3
  <2>4. CASE d # c
        BY <1>4, <2>1, <2>4
  <2> QED BY <2>3, <2>4
<1>8. ASSUME NEW d \in Any PROVE Settled(d)'
  <2>1. CASE d = c
        BY <1>2, <1>3, <1>4, <2>1 DEF Settled
  <2>2. CASE d # c
    <3>1. durable' \cap ({d} \X Part) = durable \cap ({d} \X Part)
          BY <1>2, <1>3, <2>2
    <3> QED BY <1>4, <2>2, <3>1 DEF TxnInv, Settled
  <2> QED BY <2>1, <2>2
<1> QED BY <1>4a, <1>5, <1>6, <1>7, <1>8 DEF TxnInv

LEMMA FailTxn ==
    ASSUME TxnInv, NEW c \in Any, Fail(c)
    PROVE  TxnInv'
<1> USE TxnAssumption
<1>1. /\ call[c].pc = "run" /\ call[c].role = "own" /\ c \in Call
      /\ lock = ProcessOf[c] /\ ProcessOf[c] \in Process
      /\ \A d \in Any : call[d].pc = "run" => d = c
      BY DEF Fail, TxnInv, OwnerRuns, OneRuns
<1>2. /\ durable' = durable /\ pending' = {} /\ lock' = Nobody
      /\ depth' = [depth EXCEPT ![ProcessOf[c]] = 0]
      /\ call' = [call EXCEPT ![c] = [@ EXCEPT !.pc = "done"]]
      /\ answer' = [answer EXCEPT ![c] = "failed"]
      BY <1>1 DEF Fail, KeptAfterFail, DepthAfter, Ended, Told
<1>3. TypeOK
      BY DEF TxnInv
<1>4. /\ call' \in [Any -> Standing] /\ call'[c].pc = "done"
      /\ answer' \in [Any -> {"none", "ok", "failed", "lost"}]
      /\ \A d \in Any : d # c => call'[d] = call[d] /\ answer'[d] = answer[d]
      /\ answer'[c] = "failed"
      BY <1>2, <1>3, EndedTyped
<1>5. TypeOK'
      BY <1>2, <1>3, <1>4 DEF TypeOK, Standing
<1>6. OwnerRuns' /\ OneRuns' /\ LockIsOwned'
      BY <1>1, <1>2, <1>4 DEF OwnerRuns, OneRuns, LockIsOwned
<1>7. NotNested'
      BY <1>1, <1>2, <1>3 DEF TxnInv, NotNested, TypeOK
<1>8. AnsweredIsOver' /\ answer[c] = "none"
      BY <1>1, <1>4 DEF TxnInv, AnsweredIsOver
<1>9. \A d \in Any : Settled(d)'
      BY <1>2, <1>4, <1>8 DEF TxnInv, Settled
<1> QED BY <1>5, <1>6, <1>7, <1>8, <1>9 DEF TxnInv

\* An undo entry of a process without a transaction commits by itself.
LEMMA UndoTxn ==
    ASSUME ~Overlap, TxnInv, NEW u \in Any, UndoWrite(u)
    PROVE  /\ TxnInv'
           /\ durable' = durable \cup ({u} \X Part)
           /\ answer' = [answer EXCEPT ![u] = "ok"] /\ answer[u] = "none"
<1> USE TxnAssumption
<1>1. /\ u \in Undo /\ call[u].pc = "idle" /\ Running(ProcessOf[u]) = {}
      /\ lock \in {Nobody, ProcessOf[u]}
      /\ lock' = lock /\ depth' = depth /\ pending' = pending
      /\ call' = [call EXCEPT ![u] = [@ EXCEPT !.pc = "done"]]
      BY DEF UndoWrite, MayRun, Ended
<1>2. lock = Nobody /\ ProcessOf[u] \in Process
      BY <1>1 DEF TxnInv, LockIsOwned
<1>3. durable' = durable \cup ({u} \X Part) /\ answer' = [answer EXCEPT ![u] = "ok"]
      BY <1>2 DEF UndoWrite, Told
<1>4. TypeOK
      BY DEF TxnInv
<1>5. /\ call' \in [Any -> Standing] /\ call'[u].pc = "done"
      /\ answer' \in [Any -> {"none", "ok", "failed", "lost"}]
      /\ \A d \in Any : d # u => call'[d] = call[d] /\ answer'[d] = answer[d]
      /\ answer'[u] = "ok"
      BY <1>1, <1>3, <1>4, EndedTyped
<1>6. TypeOK'
      BY <1>1, <1>3, <1>4, <1>5 DEF TypeOK, Standing
<1>7. /\ \A d \in Any : call[d].pc # "run"
      /\ answer[u] = "none"
      BY <1>1, <1>2 DEF TxnInv, OwnerRuns, AnsweredIsOver
<1>8. OwnerRuns' /\ OneRuns' /\ LockIsOwned'
      BY <1>1, <1>2, <1>5, <1>7 DEF OwnerRuns, OneRuns, LockIsOwned
<1>9. NotNested'
      BY <1>1 DEF TxnInv, NotNested
<1>10. AnsweredIsOver'
      BY <1>5 DEF TxnInv, AnsweredIsOver
<1>11. ASSUME NEW d \in Any PROVE Settled(d)'
  <2>1. CASE d = u
        BY <1>3, <1>5, <2>1 DEF Settled
  <2>2. CASE d # u
    <3>1. durable' \cap ({d} \X Part) = durable \cap ({d} \X Part)
          BY <1>3, <2>2
    <3> QED BY <1>5, <2>2, <3>1 DEF TxnInv, Settled
  <2> QED BY <2>1, <2>2
<1> QED BY <1>3, <1>6, <1>7, <1>8, <1>9, <1>10, <1>11 DEF TxnInv

LEMMA CrashTxn ==
    ASSUME TxnInv, NEW p \in Process, Crash(p)
    PROVE  TxnInv'
<1> USE TxnAssumption
<1> DEFINE dead == {c \in Any : ProcessOf[c] = p /\ answer[c] = "none"}
<1>1. /\ call' = [c \in Any |-> IF c \in dead THEN [call[c] EXCEPT !.pc = "done"] ELSE call[c]]
      /\ answer' = [c \in Any |-> IF c \in dead THEN "lost" ELSE answer[c]]
      /\ depth' = [depth EXCEPT ![p] = 0] /\ durable' = durable
      /\ IF lock = p THEN lock' = Nobody /\ pending' = {} ELSE lock' = lock /\ pending' = pending
      BY DEF Crash
<1>2. TypeOK /\ call \in [Any -> Standing] /\ answer \in [Any -> {"none", "ok", "failed", "lost"}]
      BY DEF TxnInv, TypeOK, Standing
<1>3. \A c \in Any : [call[c] EXCEPT !.pc = "done"] \in Standing /\ [call[c] EXCEPT !.pc = "done"].pc = "done"
  <2> SUFFICES ASSUME NEW c \in Any
               PROVE  /\ [call[c] EXCEPT !.pc = "done"] \in Standing
                      /\ [call[c] EXCEPT !.pc = "done"].pc = "done"
      OBVIOUS
  <2>1. [call[c] EXCEPT !.pc = "done"]
            = [pc |-> "done", role |-> call[c].role, saved |-> call[c].saved,
               done |-> call[c].done, tries |-> call[c].tries]
        BY <1>2 DEF Standing
  <2> QED BY <1>2, <2>1 DEF Standing
<1>4. /\ \A c \in Any : c \in dead => call'[c].pc = "done" /\ answer'[c] = "lost" /\ answer[c] = "none"
      /\ \A c \in Any : c \notin dead => call'[c] = call[c] /\ answer'[c] = answer[c]
      BY <1>1, <1>3
<1> HIDE DEF dead
<1>5. TypeOK'
  <2>1. call' \in [Any -> Standing] /\ answer' \in [Any -> {"none", "ok", "failed", "lost"}]
        BY <1>1, <1>2, <1>3
  <2>2. depth' \in [Process -> Nat]
        BY <1>1, <1>2 DEF TypeOK
  <2> QED BY <1>1, <1>2, <2>1, <2>2 DEF TypeOK, Standing
<1>6. \A c \in Any : call'[c].pc = "run" => call'[c] = call[c] /\ call[c].pc = "run" /\ lock # p
  <2> SUFFICES ASSUME NEW c \in Any, call'[c].pc = "run"
               PROVE  call'[c] = call[c] /\ call[c].pc = "run" /\ lock # p
      OBVIOUS
  <2>1. c \notin dead /\ call'[c] = call[c] /\ call[c].pc = "run"
        BY <1>4
  <2>2. answer[c] = "none" /\ lock = ProcessOf[c]
        BY <2>1 DEF TxnInv, AnsweredIsOver, OwnerRuns
  <2> QED BY <2>1, <2>2 DEF dead
<1>7. OwnerRuns'
      BY <1>1, <1>6 DEF TxnInv, OwnerRuns, Made
<1>8. OneRuns'
      BY <1>6 DEF TxnInv, OneRuns
<1>9. LockIsOwned'
  <2> SUFFICES ASSUME lock' # Nobody PROVE Running(lock)' # {}
      BY DEF LockIsOwned
  <2>1. lock # p /\ lock' = lock
        BY <1>1
  <2>2. PICK c \in Any : ProcessOf[c] = lock /\ call[c].pc = "run"
        BY <2>1 DEF TxnInv, LockIsOwned, Running
  <2>3. c \notin dead
        BY <2>1, <2>2 DEF dead
  <2> QED BY <1>4, <2>1, <2>2, <2>3 DEF Running
<1>10. NotNested'
      BY <1>1, <1>2 DEF TxnInv, NotNested, TypeOK
<1>11. AnsweredIsOver'
  <2>1. \A c \in Any : answer[c] = "none" <=> call[c].pc # "done"
        BY DEF TxnInv, AnsweredIsOver
  <2>2. SUFFICES ASSUME NEW c \in Any PROVE answer'[c] = "none" <=> call'[c].pc # "done"
        BY DEF AnsweredIsOver
  <2>3. CASE c \in dead
        BY <1>4, <2>3
  <2>4. CASE c \notin dead
        BY <1>4, <2>1, <2>4
  <2> QED BY <2>3, <2>4
<1>12. ASSUME NEW c \in Any PROVE Settled(c)'
  <2>1. CASE c \in dead
        BY <1>1, <1>4, <2>1 DEF TxnInv, Settled
  <2>2. CASE c \notin dead
        BY <1>1, <1>4, <2>2 DEF TxnInv, Settled
  <2> QED BY <2>1, <2>2
<1> QED BY <1>5, <1>7, <1>8, <1>9, <1>10, <1>11, <1>12 DEF TxnInv

LEMMA StutterTxn ==
    ASSUME TxnInv, UNCHANGED vars
    PROVE  TxnInv'
BY DEF TxnInv, vars, TypeOK, OwnerRuns, OneRuns, LockIsOwned, NotNested, AnsweredIsOver,
       Settled, Made, Running

LEMMA StepTxn ==
    ASSUME ~Overlap, TxnInv, [Next]_vars
    PROVE  TxnInv'
<1>1. ASSUME NEW c \in Any, Join(c) PROVE TxnInv'
      BY <1>1, NobodyJoins
<1>2. ASSUME NEW c \in Any, Begin(c) PROVE TxnInv'
      BY <1>2, BeginTxn
<1>3. ASSUME NEW c \in Any, Busy(c) PROVE TxnInv'
      BY <1>3, BusyTxn
<1>4. ASSUME NEW c \in Any, Write(c) PROVE TxnInv'
      BY <1>4, WriteTxn
<1>5. ASSUME NEW c \in Any, End(c) PROVE TxnInv'
      BY <1>5, EndTxn
<1>6. ASSUME NEW c \in Any, Fail(c) PROVE TxnInv'
      BY <1>6, FailTxn
<1>7. ASSUME NEW c \in Any, UndoWrite(c) PROVE TxnInv'
      BY <1>7, UndoTxn
<1>8. ASSUME NEW p \in Process, Crash(p) PROVE TxnInv'
      BY <1>8, CrashTxn
<1>9. CASE UNCHANGED vars
      BY <1>9, StutterTxn
<1> QED BY <1>1, <1>2, <1>3, <1>4, <1>5, <1>6, <1>7, <1>8, <1>9 DEF Next

\* What the calls of StoreTxn leave behind: with one call of a process at a time the
\* nesting counter of withStoreAsync never outlives its BEGIN, the writes of a call are
\* all committed or none is, and a call that was told it succeeded finds its writes in the
\* store, whatever process dies, throws or finds the store busy.
THEOREM TxnsSafe ==
    ASSUME ~Overlap
    PROVE  Spec => []TxnsHold
<1>1. Init => TxnInv
      BY InitTxn
<1>2. TxnInv /\ [Next]_vars => TxnInv'
      BY StepTxn
<1>3. TxnInv => TxnsHold
  <2> SUFFICES ASSUME TxnInv PROVE TxnsHold
      OBVIOUS
  <2>1. DepthHasBegin
        BY DEF TxnInv, NotNested, DepthHasBegin
  <2>2. \A c \in Any : Settled(c)
        BY DEF TxnInv
  <2>3. AllOrNothing
        BY <2>2 DEF AllOrNothing, Settled, Any
  <2>4. OkIsDurable
        BY <2>2 DEF OkIsDurable, Settled
  <2> QED BY <2>1, <2>3, <2>4 DEF TxnsHold
<1> QED BY <1>1, <1>2, <1>3, PTL DEF Spec
-----------------------------------------------------------------------------
\* Every step of a transaction is a step of the atomic store or leaves it as it was.
LEMMA StepIsAtomic ==
    ASSUME ~Overlap, TxnInv, [Next]_vars
    PROVE  [Atomic!Next]_(Atomic!vars)
<1> USE TxnAssumption
<1>1. ASSUME NEW c \in Any, Begin(c) PROVE UNCHANGED Atomic!vars
      BY <1>1 DEF Begin, Atomic!vars
<1>2. ASSUME NEW c \in Any, Busy(c) PROVE Atomic!Refuse(c) \/ UNCHANGED Atomic!vars
  <2>1. answer[c] = "none"
        BY <1>2 DEF Busy, TxnInv, AnsweredIsOver
  <2> QED BY <1>2, <2>1 DEF Busy, Told, Atomic!Refuse, Atomic!vars
<1>3. ASSUME NEW c \in Any, Write(c) PROVE UNCHANGED Atomic!vars
  <2>1. lock = ProcessOf[c] /\ ProcessOf[c] \in Process
        BY <1>3 DEF Write, TxnInv, OwnerRuns
  <2> QED BY <1>3, <2>1 DEF Write, Atomic!vars
<1>4. ASSUME NEW c \in Any, End(c) PROVE Atomic!Commit(c)
  <2>1. /\ answer[c] = "none" /\ call[c].role = "own"
        /\ pending = Made(c) /\ call[c].done = Parts
        BY <1>4 DEF End, TxnInv, AnsweredIsOver, OwnerRuns
  <2>2. durable' = durable \cup ({c} \X Part)
        BY <1>4, <2>1 DEF End, CommittedAtEnd, Made, Part
  <2> QED BY <1>4, <2>1, <2>2 DEF End, Told, Atomic!Commit, Atomic!WritesOf
<1>5. ASSUME NEW c \in Any, Fail(c) PROVE Atomic!Refuse(c)
  <2>1. answer[c] = "none"
        BY <1>5 DEF Fail, TxnInv, AnsweredIsOver
  <2> QED BY <1>5, <2>1 DEF Fail, KeptAfterFail, Told, Atomic!Refuse
<1>6. ASSUME NEW u \in Any, UndoWrite(u) PROVE Atomic!Commit(u)
      BY <1>6, UndoTxn DEF Atomic!Commit, Atomic!WritesOf
<1>7. ASSUME NEW p \in Process, Crash(p) PROVE \E C \in SUBSET Any : Atomic!Die(C)
  <2> DEFINE dead == {c \in Any : ProcessOf[c] = p /\ answer[c] = "none"}
  <2>1. Atomic!Die(dead)
        BY <1>7 DEF Crash, Atomic!Die
  <2> QED BY <2>1
<1>8. CASE UNCHANGED vars
      BY <1>8 DEF vars, Atomic!vars
<1> QED BY <1>1, <1>2, <1>3, <1>4, <1>5, <1>6, <1>7, <1>8, NobodyJoins DEF Next, Atomic!Next

\* Transactions that do not overlap implement the atomic store: whatever a process does
\* between BEGIN IMMEDIATE and COMMIT, and wherever it dies, another sees the writes of a
\* withStoreAsync call appear at once, together with its answer, or never.
THEOREM TxnsImplementAtomicStore ==
    ASSUME ~Overlap
    PROVE  Spec => TxnsAtomic
<1>1. Init => TxnInv
      BY InitTxn
<1>2. TxnInv /\ [Next]_vars => TxnInv'
      BY StepTxn
<1>3. Init => Atomic!Init
      BY DEF Init, Atomic!Init
<1>4. TxnInv /\ [Next]_vars => [Atomic!Next]_(Atomic!vars)
      BY StepIsAtomic
<1> QED BY <1>1, <1>2, <1>3, <1>4, PTL DEF Spec, TxnsAtomic, Atomic!Spec
=============================================================================
