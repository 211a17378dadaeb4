-------------------------- MODULE LspManager_proofs --------------------------
(***************************************************************************)
(* Theorems about LspManager, for every set of languages and callers and   *)
(* every bound on its processes and searches: a language has one server at *)
(* work, callers and answers are safe from shutdowns, and the slots keep   *)
(* the promise of LspServers.                                              *)
(***************************************************************************)
EXTENDS LspManager, FiniteSetTheorems, TLAPS

\* The sets the variables range over.
Slots == [state : {"none", "starting", "ready", "failed"}, on : Session \cup {None}]
Starts == [pc : {"none", "search", "found", "init"}, on : Nat]
Sessions == [lang : Language \cup {"none"}, state : {"fresh", "initializing", "ready", "closed"},
             proc : {"none", "up", "dying", "gone"}, stopping : BOOLEAN]
Tasks == [pc : {"idle", "hold", "poll", "sent"}, lang : Language \cup {"none"}, on : Session \cup {None}]

Typed ==
    /\ slot \in [Language -> Slots]
    /\ start \in [Language -> Starts]
    /\ sess \in [Session -> Sessions]
    /\ launched \subseteq Session /\ stops \subseteq Session
    /\ search \in [Search -> [state : {"none", "running", "done"}, found : SUBSET Language]]
    /\ discovering \in Search \cup {None} /\ discovered \in Search \cup {None}
    /\ task \in [Task -> Tasks]
    /\ \A t \in Task : task[t].pc = "poll" => task[t].lang \in Language
    /\ disposed \in {"no", "stopping", "done"} /\ onDisk \subseteq Language

\* A start under way and a slot that shows it; a disposed manager serves nobody.
SlotsFollow ==
    \A l \in Language :
        /\ ~Disposed => (start[l].pc # "none" <=> slot[l].state = "starting")
        /\ Disposed => slot[l].state \in {"none", "failed"}

\* The session of a start in its handshake, and that of a slot in service.
StartsOwn ==
    \A l \in Language : start[l].pc = "init" =>
        /\ start[l].on \in Session
        /\ sess[start[l].on].lang = l /\ sess[start[l].on].proc # "none"
        /\ ~Disposed => ~sess[start[l].on].stopping
SlotsOwn ==
    \A l \in Language : slot[l].state = "ready" =>
        /\ slot[l].on \in Session
        /\ sess[slot[l].on].lang = l /\ sess[slot[l].on].proc # "none"
        /\ ~sess[slot[l].on].stopping
        /\ sess[slot[l].on].state \in {"ready", "closed"}

\* A session at work is one that dispose would stop, and belongs to the start or to the
\* slot of its language.
AtWork(s) == sess[s].proc = "up" /\ ~sess[s].stopping
WorkersKnown ==
    \A s \in Session : AtWork(s) =>
        /\ s \in launched /\ sess[s].state # "closed"
        /\ sess[s].lang \in Language
        /\ LET l == sess[s].lang IN
             \/ start[l].pc = "init" /\ start[l].on = s
             \/ slot[l].state = "ready" /\ slot[l].on = s

\* A caller has a session that was in service once, and that no start is about.
Has(t) == task[t].pc \in {"hold", "sent"}
CallersServed ==
    \A t \in Task : Has(t) =>
        /\ task[t].on \in Session /\ sess[task[t].on].proc # "none"
        /\ \A l \in Language : ~(start[l].pc = "init" /\ start[l].on = task[t].on)

ManagerInv ==
    /\ Typed /\ SlotsFollow /\ StartsOwn /\ SlotsOwn /\ WorkersKnown /\ CallersServed
-----------------------------------------------------------------------------
LEMMA InitManager == Init => ManagerInv
<1> SUFFICES ASSUME Init PROVE ManagerInv
    OBVIOUS
<1> USE ManagerAssumption
<1>1. Typed
      BY DEF Init, Typed, Slots, Starts, Sessions, Tasks, Cold, AtRest, Unspawned, Idle, None
<1>2. SlotsFollow /\ StartsOwn /\ SlotsOwn /\ WorkersKnown /\ CallersServed
      BY DEF Init, SlotsFollow, StartsOwn, SlotsOwn, WorkersKnown, AtWork, CallersServed, Has,
             Disposed, Cold, AtRest, Unspawned, Idle
<1> QED BY <1>1, <1>2 DEF ManagerInv

LEMMA ChosenOnes ==
    ASSUME Typed
    PROVE  /\ Unused # {} => NextSession \in Session /\ sess[NextSession].proc = "none"
           /\ NewSearch # {} => NextSearch \in Search
BY DEF NextSession, NextSearch, Unused, NewSearch

\* What warm does to a slot and to its start.
LEMMA WarmHolds ==
    ASSUME ManagerInv, NEW l \in Language, Warm(l)
    PROVE  /\ slot' \in [Language -> Slots] /\ start' \in [Language -> Starts]
           /\ search' \in [Search -> [state : {"none", "running", "done"}, found : SUBSET Language]]
           /\ discovering' \in Search \cup {None}
           /\ \A m \in Language : m # l => slot'[m] = slot[m] /\ start'[m] = start[m]
           /\ \/ slot' = slot /\ start' = start
              \/ /\ ~Disposed /\ slot[l].state \in {"none", "failed"}
                 /\ slot' = [slot EXCEPT ![l] = [state |-> "starting", on |-> None]]
                 /\ start'[l].pc \in {"found", "search"}
<1> USE ManagerAssumption
<1>1. Typed
      BY DEF ManagerInv
<1>2. CASE UNCHANGED <<slot, start, search, discovering>>
      BY <1>1, <1>2 DEF Typed
<1>3. CASE /\ ~Disposed /\ slot[l].state \in {"none", "failed"}
           /\ slot' = [slot EXCEPT ![l] = [state |-> "starting", on |-> None]]
           /\ Servers(l)
  <2>1. [state |-> "starting", on |-> None] \in Slots
        BY DEF Slots
  <2>2. slot' \in [Language -> Slots]
        BY <1>1, <1>3, <2>1 DEF Typed
  <2>3. \E i \in Search :
            \/ start' = [start EXCEPT ![l] = [pc |-> "found", on |-> i]] /\ UNCHANGED <<search, discovering>>
            \/ /\ start' = [start EXCEPT ![l] = [pc |-> "search", on |-> i]]
               /\ \/ UNCHANGED <<search, discovering>>
                  \/ /\ search' = [search EXCEPT ![i] = [state |-> "running", found |-> onDisk]]
                     /\ discovering' = i
        BY <1>1, <1>3, ChosenOnes DEF Servers, Typed
  <2>4. PICK i \in Search :
            \/ start' = [start EXCEPT ![l] = [pc |-> "found", on |-> i]] /\ UNCHANGED <<search, discovering>>
            \/ /\ start' = [start EXCEPT ![l] = [pc |-> "search", on |-> i]]
               /\ \/ UNCHANGED <<search, discovering>>
                  \/ /\ search' = [search EXCEPT ![i] = [state |-> "running", found |-> onDisk]]
                     /\ discovering' = i
        BY <2>3
  <2>5. start' \in [Language -> Starts] /\ start'[l].pc \in {"found", "search"}
        /\ \A m \in Language : m # l => start'[m] = start[m]
    <3>1. [pc |-> "found", on |-> i] \in Starts /\ [pc |-> "search", on |-> i] \in Starts
          BY DEF Starts, Search
    <3> QED BY <1>1, <2>4, <3>1 DEF Typed
  <2>6. /\ search' \in [Search -> [state : {"none", "running", "done"}, found : SUBSET Language]]
        /\ discovering' \in Search \cup {None}
        BY <1>1, <2>4 DEF Typed
  <2> QED BY <1>1, <1>3, <2>2, <2>5, <2>6 DEF Typed
<1> QED BY <1>2, <1>3 DEF Warm

\* A session in service is not one in its handshake.
LEMMA NotBoth ==
    ASSUME ManagerInv, NEW l \in Language, slot[l].state = "ready",
           NEW m \in Language, start[m].pc = "init"
    PROVE  start[m].on # slot[l].on
BY DEF ManagerInv, SlotsFollow, StartsOwn, SlotsOwn

\* A caller that begins to wait, or is handed the session of the slot.
LEMMA CallHolds ==
    ASSUME ManagerInv, NEW t \in Task, NEW l \in Language, Ask(t, l) \/ WaitFor(t, l)
    PROVE  ManagerInv'
<1>1. /\ sess' = sess /\ launched' = launched /\ onDisk' = onDisk /\ discovered' = discovered
      /\ disposed' = disposed /\ stops' = stops
      BY DEF Ask, WaitFor
<1>2. Typed
      BY DEF ManagerInv
<1>3. /\ slot' \in [Language -> Slots] /\ start' \in [Language -> Starts]
      /\ search' \in [Search -> [state : {"none", "running", "done"}, found : SUBSET Language]]
      /\ discovering' \in Search \cup {None}
      /\ \A m \in Language : m # l => slot'[m] = slot[m] /\ start'[m] = start[m]
      /\ \/ slot' = slot /\ start' = start
         \/ /\ ~Disposed /\ slot[l].state \in {"none", "failed"}
            /\ slot'[l].state = "starting"
            /\ start'[l].pc \in {"found", "search"}
  <2>1. CASE Warm(l)
    <3>1. slot' = [slot EXCEPT ![l] = [state |-> "starting", on |-> None]] => slot'[l].state = "starting"
          BY <1>2 DEF Typed
    <3> QED BY <2>1, <3>1, WarmHolds
  <2>2. CASE UNCHANGED <<slot, start, search, discovering>>
        BY <1>2, <2>2 DEF Typed
  <2> QED BY <2>1, <2>2 DEF Ask, WaitFor
<1>4. \/ task' = task
      \/ slot[l].state = "ready" /\ task' = [task EXCEPT ![t] = [pc |-> "hold", lang |-> l, on |-> slot[l].on]]
      \/ task' = [task EXCEPT ![t] = [pc |-> "poll", lang |-> l, on |-> None]]
      BY DEF Ask, WaitFor, Usable
<1>5. task' \in [Task -> Tasks]
  <2>1. [pc |-> "poll", lang |-> l, on |-> None] \in Tasks
        BY DEF Tasks
  <2>2. [pc |-> "hold", lang |-> l, on |-> slot[l].on] \in Tasks
        BY <1>2 DEF Tasks, Typed, Slots
  <2> QED BY <1>2, <1>4, <2>1, <2>2 DEF Typed
<1>6. Typed'
  <2>1. \A u \in Task : task'[u].pc = "poll" => task'[u].lang \in Language
        BY <1>2, <1>4 DEF Typed
  <2> QED BY <1>1, <1>2, <1>3, <1>5, <2>1 DEF Typed
<1>7. SlotsFollow'
      BY <1>1, <1>3 DEF ManagerInv, SlotsFollow, Disposed
<1>8. StartsOwn' /\ SlotsOwn'
      BY <1>1, <1>3 DEF ManagerInv, StartsOwn, SlotsOwn, Disposed
<1>9. WorkersKnown'
      BY <1>1, <1>3 DEF ManagerInv, WorkersKnown, AtWork, SlotsFollow
<1>10. CallersServed'
  <2>1. SUFFICES ASSUME NEW u \in Task, Has(u)'
                 PROVE  /\ task'[u].on \in Session /\ sess'[task'[u].on].proc # "none"
                        /\ \A m \in Language : ~(start'[m].pc = "init" /\ start'[m].on = task'[u].on)
        BY DEF CallersServed
  <2>2. \A m \in Language : start'[m].pc = "init" => start'[m] = start[m]
        BY <1>3
  <2>3. CASE task'[u] = task[u]
        BY <1>1, <2>1, <2>2, <2>3 DEF ManagerInv, CallersServed, Has
  <2>4. CASE slot[l].state = "ready" /\ task'[u].on = slot[l].on
        BY <1>1, <2>2, <2>4, NotBoth DEF ManagerInv, SlotsOwn
  <2> QED BY <1>2, <1>4, <2>1, <2>3, <2>4 DEF Typed, Has
<1> QED BY <1>6, <1>7, <1>8, <1>9, <1>10 DEF ManagerInv

\* A caller's own steps: it gets a session, sends a request, or is done.
LEMMA CallerHolds ==
    ASSUME ManagerInv, NEW t \in Task, Poll(t) \/ Request(t) \/ Settle(t)
    PROVE  ManagerInv'
<1>1. UNCHANGED <<slot, start, sess, launched, onDisk, search, discovering, discovered, disposed, stops>>
      BY DEF Poll, Request, Settle
<1>2. Typed
      BY DEF ManagerInv
<1>3. /\ task' \in [Task -> Tasks]
      /\ \A u \in Task : u # t => task'[u] = task[u]
      /\ task'[t].pc # "poll"
      /\ \/ task'[t].pc = "idle"
         \/ Has(t) /\ task'[t].on = task[t].on
         \/ \E l \in Language : slot[l].state = "ready" /\ task'[t].on = slot[l].on
  <2>1. Idle \in Tasks
        BY DEF Tasks, Idle
  <2>2. CASE task' = [task EXCEPT ![t] = Idle]
        BY <1>2, <2>1, <2>2 DEF Typed, Idle
  <2>3. CASE task[t].pc = "hold" /\ task' = [task EXCEPT ![t].pc = "sent"]
    <3>1. [task[t] EXCEPT !.pc = "sent"] = [pc |-> "sent", lang |-> task[t].lang, on |-> task[t].on]
          BY <1>2 DEF Typed, Tasks
    <3>2. [task[t] EXCEPT !.pc = "sent"] \in Tasks
          BY <1>2, <3>1 DEF Typed, Tasks
    <3> QED BY <1>2, <2>3, <3>1, <3>2 DEF Typed, Has
  <2>4. CASE /\ task[t].pc = "poll" /\ Usable(task[t].lang)
             /\ task' = [task EXCEPT ![t].pc = "hold", ![t].on = slot[task[t].lang].on]
    <3> DEFINE l == task[t].lang
    <3>1. l \in Language /\ slot[l].state = "ready" /\ slot[l].on \in Session \cup {None}
          BY <1>2, <2>4 DEF Typed, Slots, Usable
    <3> QED BY <1>2, <2>4, <3>1, ZenonT(60) DEF Typed, Tasks
  <2> QED BY <2>2, <2>3, <2>4 DEF Poll, Request, Settle
<1>4. Typed'
      BY <1>1, <1>2, <1>3 DEF Typed
<1>5. SlotsFollow' /\ StartsOwn' /\ SlotsOwn' /\ WorkersKnown'
      BY <1>1 DEF ManagerInv, SlotsFollow, StartsOwn, SlotsOwn, WorkersKnown, AtWork, Disposed
<1>6. CallersServed'
  <2>1. SUFFICES ASSUME NEW u \in Task, Has(u)'
                 PROVE  /\ task'[u].on \in Session /\ sess[task'[u].on].proc # "none"
                        /\ \A m \in Language : ~(start[m].pc = "init" /\ start[m].on = task'[u].on)
        BY <1>1 DEF CallersServed
  <2>2. CASE Has(u) /\ task'[u].on = task[u].on
        BY <2>2 DEF ManagerInv, CallersServed
  <2>3. ASSUME NEW l \in Language, slot[l].state = "ready", task'[u].on = slot[l].on
        PROVE  /\ task'[u].on \in Session /\ sess[task'[u].on].proc # "none"
               /\ \A m \in Language : ~(start[m].pc = "init" /\ start[m].on = task'[u].on)
        BY <2>3, NotBoth DEF ManagerInv, SlotsOwn
  <2> QED BY <1>3, <2>1, <2>2, <2>3 DEF Has
<1> QED BY <1>4, <1>5, <1>6 DEF ManagerInv

LEMMA KilledTyped ==
    ASSUME NEW x \in Sessions
    PROVE  /\ Killed(x) \in Sessions /\ Killed(x).lang = x.lang /\ Killed(x).stopping = x.stopping
           /\ Killed(x).state = "closed" /\ Killed(x).proc # "up"
           /\ Killed(x).proc = "none" <=> x.proc = "none"
BY DEF Sessions, Killed

\* Sessions that lose their process, callers that lose their request.
Dead(s) ==
    /\ sess'[s].state = "closed" /\ sess'[s].proc # "up" /\ sess'[s].lang = sess[s].lang
    /\ sess'[s].stopping = sess[s].stopping
    /\ sess'[s].proc = "none" => sess[s].proc = "none"
LEMMA DeathHolds ==
    ASSUME ManagerInv,
           UNCHANGED <<slot, start, launched, onDisk, search, discovering, discovered, disposed, stops>>,
           sess' \in [Session -> Sessions], task' \in [Task -> Tasks],
           \A s \in Session : sess'[s] = sess[s] \/ Dead(s),
           \A t \in Task : task'[t] = task[t] \/ task'[t] = Idle
    PROVE  ManagerInv'
<1>1. Typed'
      BY DEF ManagerInv, Typed, Idle
<1>2. SlotsFollow' /\ StartsOwn' /\ SlotsOwn'
      BY DEF ManagerInv, SlotsFollow, StartsOwn, SlotsOwn, Disposed, Dead
<1>3. WorkersKnown'
      BY DEF ManagerInv, WorkersKnown, AtWork, Dead
<1>4. CallersServed'
      BY DEF ManagerInv, CallersServed, Has, Idle, Dead
<1> QED BY <1>1, <1>2, <1>3, <1>4 DEF ManagerInv

LEMMA EndHolds ==
    ASSUME ManagerInv, NEW s \in Session, ShutDown(s) \/ Exits(s)
    PROVE  ManagerInv'
<1>1. Typed
      BY DEF ManagerInv
<1>2. /\ sess' \in [Session -> Sessions]
      /\ \A r \in Session : sess'[r] = sess[r] \/ Dead(r)
  <2>1. CASE sess' = [sess EXCEPT ![s] = Killed(@)]
        BY <1>1, <2>1, KilledTyped DEF Typed, Dead
  <2>2. CASE sess' = [sess EXCEPT ![s].proc = "gone", ![s].state = "closed"]
    <3>1. sess \in [Session -> Sessions]
          BY <1>1 DEF Typed
    <3>2. /\ sess' \in [Session -> Sessions] /\ sess'[s].proc = "gone" /\ sess'[s].state = "closed"
          /\ sess'[s].lang = sess[s].lang /\ sess'[s].stopping = sess[s].stopping
          /\ \A r \in Session : r # s => sess'[r] = sess[r]
          BY <2>2, <3>1 DEF Sessions
    <3> QED BY <3>2 DEF Dead
  <2> QED BY <2>1, <2>2 DEF ShutDown, Exits
<1>3. /\ task' \in [Task -> Tasks]
      /\ \A t \in Task : task'[t] = task[t] \/ task'[t] = Idle
  <2>1. Idle \in Tasks
        BY DEF Idle, Tasks
  <2> QED BY <1>1, <2>1 DEF Typed, ShutDown, Exits, Rejected
<1>4. UNCHANGED <<slot, start, launched, onDisk, search, discovering, discovered, disposed, stops>>
      BY DEF ShutDown, Exits
<1> QED BY <1>2, <1>3, <1>4, DeathHolds

LEMMA SearchHolds ==
    ASSUME ManagerInv, NEW i \in Search, SearchDone(i)
    PROVE  ManagerInv'
<1>1. Typed
      BY DEF ManagerInv
<1>2. /\ UNCHANGED <<slot, sess, launched, onDisk, task, disposed, stops>>
      /\ discovered' = i /\ discovering' = None
      BY DEF SearchDone
<1>3. search' \in [Search -> [state : {"none", "running", "done"}, found : SUBSET Language]]
  <2>1. PICK found \in SUBSET onDisk : search' = [search EXCEPT ![i] = [state |-> "done", found |-> found]]
        BY DEF SearchDone
  <2> QED BY <1>1, <2>1 DEF Typed
<1>4. /\ start' \in [Language -> Starts]
      /\ \A l \in Language : /\ start'[l].pc = "init" => start'[l] = start[l]
                             /\ start[l].pc = "init" => start'[l] = start[l]
                             /\ start'[l].pc = "none" <=> start[l].pc = "none"
  <2>1. [pc |-> "found", on |-> i] \in Starts
        BY DEF Starts, Search
  <2> QED BY <1>1, <2>1 DEF SearchDone, Waits, Typed
<1>5. Typed'
      BY <1>1, <1>2, <1>3, <1>4 DEF Typed
<1>6. SlotsFollow' /\ StartsOwn' /\ SlotsOwn'
      BY <1>2, <1>4 DEF ManagerInv, SlotsFollow, StartsOwn, SlotsOwn, Disposed
<1>7. WorkersKnown' /\ CallersServed'
      BY <1>2, <1>4 DEF ManagerInv, WorkersKnown, AtWork, CallersServed, Has
<1> QED BY <1>5, <1>6, <1>7 DEF ManagerInv

\* The slot of a start that failed.
LEMMA FailedSlot ==
    ASSUME Typed, NEW l \in Language, slot' = Failed(slot, l), start' = [start EXCEPT ![l] = AtRest]
    PROVE  /\ slot' \in [Language -> Slots] /\ slot'[l].state = "failed"
           /\ start' \in [Language -> Starts] /\ start'[l].pc = "none"
           /\ \A m \in Language : m # l => slot'[m] = slot[m] /\ start'[m] = start[m]
<1>1. [state |-> "failed", on |-> None] \in Slots /\ AtRest \in Starts
      BY DEF Slots, Starts, AtRest, None
<1> QED BY <1>1 DEF Failed, Typed, AtRest

LEMMA SpawnFails ==
    ASSUME ManagerInv, NEW l \in Language, start[l].pc \in {"found", "init"},
           slot' = Failed(slot, l), start' = [start EXCEPT ![l] = AtRest],
           UNCHANGED <<onDisk, search, discovering, discovered, task, disposed, stops>>,
           \/ UNCHANGED <<sess, launched>> /\ start[l].pc = "found"
           \/ /\ sess' = [sess EXCEPT ![start[l].on] = Killed(@)]
              /\ launched' = launched \ {start[l].on} /\ start[l].pc = "init"
    PROVE  ManagerInv'
<1>1. Typed
      BY DEF ManagerInv
<1>2. /\ slot' \in [Language -> Slots] /\ slot'[l].state = "failed"
      /\ start' \in [Language -> Starts] /\ start'[l].pc = "none"
      /\ \A m \in Language : m # l => slot'[m] = slot[m] /\ start'[m] = start[m]
      BY <1>1, FailedSlot
<1>3. /\ sess' \in [Session -> Sessions] /\ launched' \subseteq Session
      /\ \A s \in Session : /\ sess'[s] = sess[s] \/ Dead(s)
                            /\ ~(start[l].pc = "init" /\ start[l].on = s) =>
                                  sess'[s] = sess[s] /\ (s \in launched => s \in launched')
                            /\ start[l].pc = "init" /\ start[l].on = s => Dead(s)
  <2>1. start[l].pc = "init" => start[l].on \in Session
        BY DEF ManagerInv, StartsOwn
  <2> QED BY <1>1, <2>1, KilledTyped DEF Typed, Dead
<1>4. Typed'
      BY <1>1, <1>2, <1>3 DEF Typed
<1>5. SlotsFollow' /\ StartsOwn' /\ SlotsOwn'
      BY <1>2, <1>3 DEF ManagerInv, SlotsFollow, StartsOwn, SlotsOwn, Disposed, Dead
<1>6. WorkersKnown'
  <2>1. slot[l].state # "ready"
        BY DEF ManagerInv, SlotsFollow
  <2> QED BY <1>2, <1>3, <2>1 DEF ManagerInv, WorkersKnown, AtWork, Dead
<1>7. CallersServed'
      BY <1>2, <1>3 DEF ManagerInv, CallersServed, Has, Dead
<1> QED BY <1>4, <1>5, <1>6, <1>7 DEF ManagerInv

LEMMA SpawnHolds ==
    ASSUME ManagerInv, NEW l \in Language, Spawn(l)
    PROVE  ManagerInv'
<1> USE ManagerAssumption
<1>1. Typed /\ start[l].pc = "found"
      /\ UNCHANGED <<onDisk, search, discovering, discovered, task, disposed, stops>>
      BY DEF ManagerInv, Spawn
<1>2. CASE slot' = Failed(slot, l) /\ start' = [start EXCEPT ![l] = AtRest] /\ UNCHANGED <<sess, launched>>
      BY <1>1, <1>2, SpawnFails
<1>3. ASSUME /\ Unused # {} /\ slot' = slot
             /\ sess' = [sess EXCEPT ![NextSession] = [Unspawned EXCEPT
                           !.lang = l, !.state = "initializing", !.proc = "up"]]
             /\ launched' = launched \cup {NextSession}
             /\ start' = [start EXCEPT ![l] = [pc |-> "init", on |-> NextSession]]
      PROVE  ManagerInv'
  <2> DEFINE s == NextSession
  <2>1. s \in Session /\ sess[s].proc = "none"
        BY <1>1, <1>3, ChosenOnes
  <2> HIDE DEF s
  <2>2. /\ sess' \in [Session -> Sessions]
        /\ sess'[s].lang = l /\ sess'[s].state = "initializing" /\ sess'[s].proc = "up" /\ ~sess'[s].stopping
        /\ \A r \in Session : r # s => sess'[r] = sess[r]
    <3> DEFINE v == [Unspawned EXCEPT !.lang = l, !.state = "initializing", !.proc = "up"]
    <3>1. /\ v \in Sessions /\ v.lang = l /\ v.state = "initializing" /\ v.proc = "up"
          /\ v.stopping = FALSE
          BY DEF Unspawned, Sessions
    <3>2. sess' = [sess EXCEPT ![s] = v]
          BY <1>3 DEF s
    <3> HIDE DEF v
    <3> QED BY <1>1, <2>1, <3>1, <3>2 DEF Typed
  <2>3. /\ start' \in [Language -> Starts] /\ start'[l].pc = "init" /\ start'[l].on = s
        /\ \A m \in Language : m # l => start'[m] = start[m]
    <3>1. [pc |-> "init", on |-> s] \in Starts
          BY <2>1 DEF Starts, Session
    <3> QED BY <1>1, <1>3, <3>1 DEF Typed, s
  <2>4. launched' = launched \cup {s} /\ slot' = slot
        BY <1>3 DEF s
  <2>5. Typed'
        BY <1>1, <2>1, <2>2, <2>3, <2>4 DEF Typed
  <2>6. SlotsFollow' /\ StartsOwn'
        BY <1>1, <2>1, <2>2, <2>3, <2>4 DEF ManagerInv, SlotsFollow, StartsOwn, Disposed
  <2>7. SlotsOwn'
        BY <2>1, <2>2, <2>4 DEF ManagerInv, SlotsOwn
  <2>8. WorkersKnown'
        BY <1>1, <2>1, <2>2, <2>3, <2>4 DEF ManagerInv, WorkersKnown, AtWork
  <2>9. CallersServed'
        BY <1>1, <2>1, <2>2, <2>3 DEF ManagerInv, CallersServed, Has
  <2> QED BY <2>5, <2>6, <2>7, <2>8, <2>9 DEF ManagerInv
<1> QED BY <1>1, <1>2, <1>3 DEF Spawn

LEMMA InitializedHolds ==
    ASSUME ManagerInv, NEW l \in Language, Initialized(l)
    PROVE  ManagerInv'
<1> DEFINE s == start[l].on
<1>1. /\ Typed /\ start[l].pc = "init" /\ s \in Session /\ sess[s].lang = l
      /\ sess[s].proc \in {"up", "dying"}
      /\ ~Disposed => ~sess[s].stopping
      /\ UNCHANGED <<launched, onDisk, search, discovering, discovered, task, disposed, stops>>
      /\ start' = [start EXCEPT ![l] = AtRest]
      BY DEF ManagerInv, StartsOwn, Initialized
<1>2. /\ start' \in [Language -> Starts] /\ start'[l].pc = "none"
      /\ \A m \in Language : m # l => start'[m] = start[m]
  <2>1. AtRest \in Starts /\ AtRest.pc = "none"
        BY DEF AtRest, Starts, None
  <2> QED BY <1>1, <2>1 DEF Typed
<1>3. \A m \in Language : m # l => ~(start[m].pc = "init" /\ start[m].on = s)
                                   /\ ~(slot[m].state = "ready" /\ slot[m].on = s)
      BY <1>1 DEF ManagerInv, StartsOwn, SlotsOwn
<1>4. /\ sess' \in [Session -> Sessions] /\ sess'[s].state = "ready"
      /\ sess'[s].lang = l /\ sess'[s].proc = sess[s].proc
      /\ \A r \in Session : r # s => sess'[r] = sess[r]
      /\ \/ /\ ~Disposed /\ slot' = [slot EXCEPT ![l] = [state |-> "ready", on |-> s]]
            /\ sess'[s].stopping = sess[s].stopping
         \/ Disposed /\ slot' = slot /\ sess'[s].stopping
  <2>1. sess \in [Session -> Sessions]
        BY <1>1 DEF Typed
  <2>2. CASE /\ ~Disposed /\ sess' = [sess EXCEPT ![s].state = "ready"]
             /\ slot' = [slot EXCEPT ![l] = [state |-> "ready", on |-> s]]
    <3> HIDE DEF s
    <3> QED BY <1>1, <2>1, <2>2 DEF Sessions
  <2>3. CASE /\ Disposed /\ slot' = slot
             /\ sess' = [sess EXCEPT ![s].state = "ready", ![s].stopping = TRUE]
    <3> HIDE DEF s
    <3> QED BY <1>1, <2>1, <2>3 DEF Sessions
  <2> QED BY <2>2, <2>3 DEF Initialized
<1> HIDE DEF s
<1>5. /\ slot' \in [Language -> Slots] /\ \A m \in Language : m # l => slot'[m] = slot[m]
      /\ ~Disposed => slot'[l].state = "ready" /\ slot'[l].on = s
      /\ Disposed => slot'[l] = slot[l]
  <2>1. [state |-> "ready", on |-> s] \in Slots
        BY <1>1 DEF Slots
  <2> QED BY <1>1, <1>4, <2>1 DEF Typed
<1>6. Typed'
      BY <1>1, <1>2, <1>4, <1>5 DEF Typed
<1>7. SlotsFollow'
      BY <1>1, <1>2, <1>5 DEF ManagerInv, SlotsFollow, Disposed
<1>8. StartsOwn'
      BY <1>1, <1>2, <1>3, <1>4 DEF ManagerInv, StartsOwn, Disposed
<1>9. SlotsOwn'
  <2>1. Disposed => \A m \in Language : slot[m].state # "ready"
        BY DEF ManagerInv, SlotsFollow
  <2>2. SUFFICES ASSUME NEW m \in Language, slot'[m].state = "ready"
                 PROVE  /\ slot'[m].on \in Session
                        /\ sess'[slot'[m].on].lang = m /\ sess'[slot'[m].on].proc # "none"
                        /\ ~sess'[slot'[m].on].stopping
                        /\ sess'[slot'[m].on].state \in {"ready", "closed"}
        BY DEF SlotsOwn
  <2>3. ~Disposed
        BY <1>5, <2>1, <2>2
  <2>4. CASE m = l
    <3>1. slot'[m].on = s
          BY <1>5, <2>3, <2>4
    <3>2. ~sess'[s].stopping
          BY <1>1, <1>4, <2>3
    <3> QED BY <1>1, <1>4, <2>4, <3>1, <3>2
  <2>5. CASE m # l
        BY <1>3, <1>4, <1>5, <2>2, <2>5 DEF ManagerInv, SlotsOwn
  <2> QED BY <2>4, <2>5
<1>10. WorkersKnown'
  <2>1. SUFFICES ASSUME NEW r \in Session, AtWork(r)'
                 PROVE  /\ r \in launched' /\ sess'[r].state # "closed" /\ sess'[r].lang \in Language
                        /\ \/ start'[sess'[r].lang].pc = "init" /\ start'[sess'[r].lang].on = r
                           \/ slot'[sess'[r].lang].state = "ready" /\ slot'[sess'[r].lang].on = r
        BY DEF WorkersKnown
  <2>2. CASE r = s
    <3>1. ~Disposed /\ AtWork(s)
          BY <1>1, <1>4, <2>1, <2>2 DEF AtWork
    <3> QED BY <1>1, <1>4, <1>5, <2>2, <3>1 DEF ManagerInv, WorkersKnown
  <2>3. CASE r # s
    <3> DEFINE m == sess[r].lang
    <3>1. AtWork(r) /\ sess'[r] = sess[r]
          BY <1>4, <2>1, <2>3 DEF AtWork
    <3>2. /\ r \in launched /\ sess[r].state # "closed" /\ m \in Language
          /\ \/ start[m].pc = "init" /\ start[m].on = r
             \/ slot[m].state = "ready" /\ slot[m].on = r
          BY <3>1 DEF ManagerInv, WorkersKnown
    <3>3. m # l
      <4>1. start[l].pc # "none" /\ start[l].on = s
            BY <1>1 DEF s
      <4>2. slot[l].state # "ready"
            BY <4>1 DEF ManagerInv, SlotsFollow
      <4> QED BY <2>3, <3>2, <4>1, <4>2
    <3> QED BY <1>1, <1>2, <1>5, <3>1, <3>2, <3>3
  <2> QED BY <2>2, <2>3
<1>11. CallersServed'
      BY <1>1, <1>2, <1>4 DEF ManagerInv, CallersServed, Has
<1> QED BY <1>6, <1>7, <1>8, <1>9, <1>10, <1>11 DEF ManagerInv

LEMMA ReapHolds ==
    ASSUME ManagerInv, NEW l \in Language, ReapIdle(l)
    PROVE  ManagerInv'
<1> DEFINE s == slot[l].on
<1>1. /\ Typed /\ ~Disposed /\ slot[l].state = "ready" /\ s \in Session /\ sess[s].lang = l
      /\ sess[s].state \in {"ready", "closed"}
      /\ UNCHANGED <<start, onDisk, search, discovering, discovered, task, disposed, stops>>
      /\ launched' = launched \ {s} /\ slot' = [slot EXCEPT ![l] = Cold]
      BY DEF ManagerInv, SlotsOwn, ReapIdle, Usable, Vacated
<1>2. /\ \A m \in Language : ~(start[m].pc = "init" /\ start[m].on = s)
      /\ \A m \in Language : m # l => ~(slot[m].state = "ready" /\ slot[m].on = s)
      BY <1>1, NotBoth DEF ManagerInv, SlotsOwn
<1>3. /\ slot' \in [Language -> Slots] /\ slot'[l].state = "none"
      /\ \A m \in Language : m # l => slot'[m] = slot[m]
  <2>1. Cold \in Slots /\ Cold.state = "none"
        BY DEF Cold, Slots
  <2> QED BY <1>1, <2>1 DEF Typed
<1>4. /\ sess' \in [Session -> Sessions]
      /\ sess'[s].lang = sess[s].lang /\ sess'[s].proc = sess[s].proc /\ sess'[s].state = sess[s].state
      /\ \A r \in Session : r # s => sess'[r] = sess[r]
      /\ sess[s].state = "ready" => sess'[s].stopping
      /\ sess[s].state = "closed" => sess'[s] = sess[s]
  <2>1. sess \in [Session -> Sessions]
        BY <1>1 DEF Typed
  <2>2. sess' = IF sess[s].state = "ready" THEN [sess EXCEPT ![s].stopping = TRUE] ELSE sess
        BY DEF ReapIdle
  <2> HIDE DEF s
  <2> QED BY <1>1, <2>1, <2>2 DEF Sessions
<1> HIDE DEF s
<1>5. ~(sess'[s].proc = "up" /\ ~sess'[s].stopping)
  <2>1. sess[s].state = "closed" => ~AtWork(s)
        BY <1>1 DEF ManagerInv, WorkersKnown
  <2>2. CASE sess[s].state = "ready"
        BY <1>4, <2>2
  <2>3. CASE sess[s].state = "closed"
        BY <1>4, <2>1, <2>3 DEF AtWork
  <2> QED BY <1>1, <2>2, <2>3
<1>6. Typed'
      BY <1>1, <1>3, <1>4 DEF Typed
<1>7. SlotsFollow'
      BY <1>1, <1>3 DEF ManagerInv, SlotsFollow, Disposed
<1>8. StartsOwn' /\ SlotsOwn'
      BY <1>1, <1>2, <1>3, <1>4 DEF ManagerInv, StartsOwn, SlotsOwn, Disposed
<1>9. WorkersKnown'
  <2>1. slot[l].on = s
        BY DEF s
  <2> QED BY <1>1, <1>3, <1>4, <1>5, <2>1 DEF ManagerInv, WorkersKnown, AtWork
<1>10. CallersServed'
      BY <1>1, <1>4 DEF ManagerInv, CallersServed, Has
<1> QED BY <1>6, <1>7, <1>8, <1>9, <1>10 DEF ManagerInv

LEMMA RescanHolds ==
    ASSUME ManagerInv, Rescan
    PROVE  ManagerInv'
<1>1. /\ Typed /\ UNCHANGED <<start, sess, launched, onDisk, search, task, disposed, stops>>
      /\ discovered' = None /\ discovering' = None
      BY DEF ManagerInv, Rescan
<1>2. /\ slot' \in [Language -> Slots]
      /\ \A l \in Language : slot'[l] = slot[l] \/ (slot[l].state = "failed" /\ slot'[l].state = "none")
  <2>1. Cold \in Slots /\ Cold.state = "none"
        BY DEF Cold, Slots
  <2> QED BY <1>1, <2>1 DEF Typed, Rescan
<1>3. Typed'
      BY <1>1, <1>2 DEF Typed
<1>4. SlotsFollow' /\ StartsOwn' /\ SlotsOwn' /\ WorkersKnown' /\ CallersServed'
      BY <1>1, <1>2 DEF ManagerInv, SlotsFollow, StartsOwn, SlotsOwn, WorkersKnown, AtWork,
                        CallersServed, Has, Disposed
<1> QED BY <1>3, <1>4 DEF ManagerInv

LEMMA DisposeHolds ==
    ASSUME ManagerInv, Dispose
    PROVE  ManagerInv'
<1>1. /\ Typed /\ UNCHANGED <<start, onDisk, search, discovering, discovered, task>>
      /\ disposed' = "stopping" /\ launched' = {} /\ Disposed'
      BY DEF ManagerInv, Dispose, Disposed
<1>2. stops' \subseteq Session /\ slot' \in [Language -> Slots]
      /\ \A l \in Language : slot'[l].state = "none"
  <2>1. Cold \in Slots /\ Cold.state = "none"
        BY DEF Cold, Slots
  <2> QED BY <1>1, <2>1 DEF Dispose, Typed
<1>3. ASSUME NEW s \in Session
      PROVE  /\ sess'[s] \in Sessions /\ sess'[s].lang = sess[s].lang
             /\ sess'[s].proc = "none" => sess[s].proc = "none"
             /\ ~AtWork(s)'
  <2>1. sess[s] \in Sessions /\ sess' \in [Session -> {sess'[r] : r \in Session}]
        /\ sess'[s] = IF s \notin launched THEN sess[s]
                      ELSE IF sess[s].state = "ready" THEN [sess[s] EXCEPT !.stopping = TRUE]
                      ELSE Killed(sess[s])
        BY <1>1 DEF Typed, Dispose
  <2>2. CASE s \notin launched
        BY <2>1, <2>2 DEF ManagerInv, WorkersKnown, AtWork
  <2>3. CASE s \in launched /\ sess[s].state = "ready"
        BY <2>1, <2>3 DEF Sessions, AtWork
  <2>4. CASE s \in launched /\ sess[s].state # "ready"
        BY <2>1, <2>4, KilledTyped DEF AtWork
  <2> QED BY <2>2, <2>3, <2>4
<1>4. sess' \in [Session -> Sessions]
      BY <1>3 DEF Dispose
<1>5. Typed'
      BY <1>1, <1>2, <1>4 DEF Typed
<1>6. SlotsFollow' /\ SlotsOwn' /\ WorkersKnown'
      BY <1>1, <1>2, <1>3 DEF SlotsFollow, SlotsOwn, WorkersKnown
<1>7. StartsOwn' /\ CallersServed'
      BY <1>1, <1>3 DEF ManagerInv, StartsOwn, CallersServed, Has
<1> QED BY <1>5, <1>6, <1>7 DEF ManagerInv

\* Steps that neither sessions nor slots notice.
LEMMA RestHolds ==
    ASSUME ManagerInv, (\E l \in Language : Install(l)) \/ Disposal \/ UNCHANGED vars
    PROVE  ManagerInv'
<1>1. /\ UNCHANGED <<slot, start, sess, launched, search, discovering, discovered, task, stops>>
      /\ Disposed' = Disposed
      BY DEF Install, Disposal, vars, Disposed
<1>2. Typed'
      BY <1>1 DEF ManagerInv, Typed, Install, Disposal, vars
<1>3. SlotsFollow' /\ StartsOwn' /\ SlotsOwn' /\ WorkersKnown' /\ CallersServed'
      BY <1>1 DEF ManagerInv, SlotsFollow, StartsOwn, SlotsOwn, WorkersKnown, AtWork, CallersServed, Has
<1> QED BY <1>2, <1>3 DEF ManagerInv

LEMMA StepHolds ==
    ASSUME ManagerInv, [Next]_vars
    PROVE  ManagerInv'
<1>1. ASSUME NEW t \in Task, NEW l \in Language, Ask(t, l) \/ WaitFor(t, l) PROVE ManagerInv'
      BY <1>1, CallHolds
<1>2. ASSUME NEW t \in Task, Poll(t) \/ Request(t) \/ Settle(t) PROVE ManagerInv'
      BY <1>2, CallerHolds
<1>3. ASSUME NEW i \in Search, SearchDone(i) PROVE ManagerInv'
      BY <1>3, SearchHolds
<1>4. ASSUME NEW l \in Language, Spawn(l) PROVE ManagerInv'
      BY <1>4, SpawnHolds
<1>5. ASSUME NEW l \in Language, Initialized(l) PROVE ManagerInv'
      BY <1>5, InitializedHolds
<1>6. ASSUME NEW l \in Language, InitializeFails(l) PROVE ManagerInv'
      BY <1>6, SpawnFails DEF InitializeFails, ShutDownFailed
<1>7. ASSUME NEW l \in Language, ReapIdle(l) PROVE ManagerInv'
      BY <1>7, ReapHolds
<1>8. ASSUME NEW s \in Session, ShutDown(s) \/ Exits(s) PROVE ManagerInv'
      BY <1>8, EndHolds
<1>9. CASE Rescan
      BY <1>9, RescanHolds
<1>10. CASE Dispose
      BY <1>10, DisposeHolds
<1>11. CASE (\E l \in Language : Install(l)) \/ Disposal \/ UNCHANGED vars
      BY <1>11, RestHolds
<1> QED BY <1>1, <1>2, <1>3, <1>4, <1>5, <1>6, <1>7, <1>8, <1>9, <1>10, <1>11 DEF Next

\* Every reachable state has the invariant.
THEOREM Managed == Spec => []ManagerInv
<1>1. Init => ManagerInv
      BY InitManager
<1>2. ManagerInv /\ [Next]_vars => ManagerInv'
      BY StepHolds
<1> QED BY <1>1, <1>2, PTL DEF Spec
-----------------------------------------------------------------------------
\* A language never has two servers at work (warm, #start and #reapIdle of manager.ts).
THEOREM OneAtWork == Spec => []OneServer
<1>1. ASSUME ManagerInv, NEW l \in Language
      PROVE  Cardinality({s \in Session : sess[s].lang = l /\ sess[s].proc = "up"
                                             /\ ~sess[s].stopping}) <= 1
  <2> DEFINE W == {s \in Session : sess[s].lang = l /\ sess[s].proc = "up" /\ ~sess[s].stopping}
  <2>1. ASSUME NEW r \in W, NEW s \in W PROVE r = s
    <3>1. AtWork(r) /\ AtWork(s) /\ sess[r].lang = l /\ sess[s].lang = l /\ r \in Session /\ s \in Session
          BY DEF AtWork
    <3>2. start[l].pc = "init" => slot[l].state # "ready"
          BY <1>1 DEF ManagerInv, SlotsFollow
    <3> QED BY <1>1, <3>1, <3>2 DEF ManagerInv, WorkersKnown
  <2> SUFFICES Cardinality(W) <= 1
      OBVIOUS
  <2> HIDE DEF W
  <2>2. CASE W = {}
    <3>1. Cardinality({}) = 0
          BY FS_EmptySet
    <3> QED BY <2>2, <3>1
  <2>3. CASE W # {}
    <3>1. PICK s \in W : W = {s}
          BY <2>1, <2>3
    <3>2. Cardinality({s}) = 1
          BY FS_Singleton
    <3> QED BY <3>1, <3>2
  <2> QED BY <2>2, <2>3
<1>2. ManagerInv => OneServer
      BY <1>1 DEF OneServer
<1> QED BY <1>2, Managed, PTL

\* No caller is handed a session that is already being stopped: the slot is emptied in the
\* step that stops its session (#reapIdle, dispose).  And nothing but dispose stops a session
\* that a caller waits for: #reapIdle looks for requests in flight, and a handshake that ends
\* late is about a session nobody holds.
THEOREM SessionsKept == Spec => SessionsInOrder
<1>1. ASSUME ManagerInv, Next
      PROVE  NotHandedDying
  <2>1. SUFFICES ASSUME NEW t \in Task, task'[t].pc = "hold", task[t].pc # "hold"
                 PROVE  ~sess[task'[t].on].stopping
        BY DEF NotHandedDying
  <2>2. \E l \in Language : slot[l].state = "ready" /\ task'[t].on = slot[l].on
    <3>1. task \in [Task -> Tasks]
          BY <1>1 DEF ManagerInv, Typed
    <3>2. ASSUME NEW u \in Task, NEW l \in Language, Ask(u, l) \/ WaitFor(u, l)
          PROVE  slot[l].state = "ready" /\ task'[t].on = slot[l].on
          BY <2>1, <3>1, <3>2 DEF Ask, WaitFor, Usable
    <3>3. ASSUME NEW u \in Task, Poll(u)
          PROVE  \E l \in Language : slot[l].state = "ready" /\ task'[t].on = slot[l].on
      <4>1. task[u].lang \in Language /\ slot[task[u].lang].state = "ready"
            /\ task' = [task EXCEPT ![u].pc = "hold", ![u].on = slot[task[u].lang].on]
            BY <1>1, <2>1, <3>1, <3>3 DEF Poll, Usable, ManagerInv, Typed, Idle
      <4>2. t = u
            BY <2>1, <3>1, <4>1
      <4>3. task'[t].on = slot[task[t].lang].on
            BY <3>1, <4>1, <4>2 DEF Tasks
      <4> QED BY <4>1, <4>2, <4>3
    <3>4. ASSUME NEW u \in Task, Request(u) \/ Settle(u)
          PROVE  FALSE
          BY <2>1, <3>1, <3>4 DEF Request, Settle, Idle, Tasks
    <3>5. ASSUME NEW s \in Session, Exits(s)
          PROVE  FALSE
          BY <2>1, <3>1, <3>5 DEF Exits, Rejected, Idle
    <3>6. task' # task
          BY <2>1
    <3> QED BY <1>1, <3>2, <3>3, <3>4, <3>5, <3>6
            DEF Next, SearchDone, Spawn, Initialized, InitializeFails, ReapIdle, Install, ShutDown,
                Rescan, Dispose, Disposal
  <2> QED BY <1>1, <2>2 DEF ManagerInv, SlotsOwn
<1>2. ASSUME ManagerInv, Next
      PROVE  WorkingNotStopped
  <2>1. SUFFICES ASSUME NEW t \in Task, task[t].pc = "sent", sess'[task[t].on].stopping,
                        ~sess[task[t].on].stopping, disposed' = disposed
                 PROVE  FALSE
        BY DEF WorkingNotStopped
  <2>2. PICK s \in Session : s = task[t].on
        BY <1>2, <2>1 DEF ManagerInv, CallersServed, Has
  <2>3. sess \in [Session -> Sessions] /\ sess[s] \in Sessions /\ sess'[s] # sess[s]
        BY <1>2, <2>1, <2>2 DEF ManagerInv, Typed
  <2>4. ASSUME NEW l \in Language, Spawn(l) PROVE FALSE
    <3>1. Unused # {} /\ sess' = [sess EXCEPT ![NextSession] = [Unspawned EXCEPT
                                      !.lang = l, !.state = "initializing", !.proc = "up"]]
          BY <2>3, <2>4 DEF Spawn
    <3>2. s # NextSession
      <4>1. sess[s].proc # "none"
            BY <1>2, <2>1, <2>2 DEF ManagerInv, CallersServed, Has
      <4> QED BY <1>2, <3>1, <4>1, ChosenOnes DEF ManagerInv
    <3> QED BY <2>3, <3>1, <3>2
  <2>5. ASSUME NEW l \in Language, Initialized(l) \/ InitializeFails(l) PROVE FALSE
    <3>1. start[l].pc = "init" /\ start[l].on # s
          BY <1>2, <2>1, <2>2, <2>5 DEF Initialized, InitializeFails, ManagerInv, CallersServed, Has
    <3> QED BY <2>3, <2>5, <3>1 DEF Initialized, InitializeFails, ShutDownFailed
  <2>6. ASSUME NEW l \in Language, ReapIdle(l) PROVE FALSE
    <3>1. slot[l].on # s
          BY <2>1, <2>2, <2>6 DEF ReapIdle, Busy
    <3> QED BY <2>3, <2>6, <3>1 DEF ReapIdle
  <2>7. ASSUME NEW r \in Session, ShutDown(r) \/ Exits(r) PROVE FALSE
    <3>1. CASE sess' = [sess EXCEPT ![r] = Killed(@)]
          BY <2>1, <2>2, <2>3, <3>1, KilledTyped
    <3>2. CASE sess' = [sess EXCEPT ![r].proc = "gone", ![r].state = "closed"]
          BY <2>1, <2>2, <2>3, <3>2 DEF Sessions
    <3> QED BY <2>7, <3>1, <3>2 DEF ShutDown, Exits
  <2>8. ~Dispose
        BY <2>1 DEF Dispose, Disposed
  <2> QED BY <1>2, <2>3, <2>4, <2>5, <2>6, <2>7, <2>8
          DEF Next, Ask, WaitFor, Poll, Request, Settle, SearchDone, Install, Rescan, Disposal
<1>3. ManagerInv /\ [Next]_vars => [NotHandedDying /\ WorkingNotStopped]_vars
      BY <1>1, <1>2
<1> QED BY <1>3, Managed, PTL DEF Spec, SessionsInOrder
-----------------------------------------------------------------------------
\* What a caller can tell of a language: the phases of LspServers.
LEMMA PhaseOf ==
    ASSUME Typed, SlotsFollow, NEW l \in Language
    PROVE  Phase[l] = IF Disposed \/ slot[l].state = "none" THEN "off"
                      ELSE IF slot[l].state = "starting" THEN "booting"
                      ELSE IF slot[l].state = "ready" THEN "serving" ELSE "refused"
BY DEF Typed, Slots, Phase

\* A step of one slot, as LspServers takes it.
LEMMA OnePhase ==
    ASSUME ManagerInv, ManagerInv', NEW l \in Language, ~Disposed, Disposed' = Disposed,
           \A m \in Language : m # l => slot'[m] = slot[m]
    PROVE  Phase' = [Phase EXCEPT ![l] = Phase'[l]]
<1>1. \A m \in Language : m # l => Phase'[m] = Phase[m]
      BY DEF Phase
<1>2. Phase = [m \in Language |-> Phase[m]] /\ Phase' = [m \in Language |-> Phase'[m]]
      BY DEF Phase
<1> QED BY <1>1, <1>2

LEMMA SamePhases ==
    ASSUME slot' = slot, disposed' = disposed
    PROVE  UNCHANGED <<Phase, Disposed>>
BY DEF Phase, Disposed

\* Every step of the manager is one of LspServers or leaves the phases as they are.
LEMMA StepKeepsPromise ==
    ASSUME ManagerInv, ManagerInv', [Next]_vars
    PROVE  [Promise!Next]_(Promise!vars)
<1>1. CASE UNCHANGED <<slot, disposed>>
      BY <1>1, SamePhases DEF Promise!vars
<1>2. ASSUME NEW t \in Task, NEW l \in Language, Ask(t, l) \/ WaitFor(t, l)
      PROVE  [Promise!Next]_(Promise!vars)
  <2>1. CASE UNCHANGED <<slot, disposed>>
        BY <2>1, <1>1
  <2>2. CASE /\ ~Disposed /\ slot[l].state \in {"none", "failed"}
             /\ slot' = [slot EXCEPT ![l] = [state |-> "starting", on |-> None]]
             /\ disposed' = disposed
    <3>1. Phase[l] \in {"off", "refused"} /\ Phase'[l] = "booting"
          BY <2>2 DEF ManagerInv, Typed, Phase, Disposed
    <3>2. Phase' = [Phase EXCEPT ![l] = "booting"] /\ Disposed' = Disposed
          BY <2>2, <3>1, OnePhase DEF Disposed, ManagerInv, Typed
    <3> QED BY <2>2, <3>1, <3>2 DEF Promise!Next, Promise!Boot, Promise!Move
  <2> QED BY <1>2, <2>1, <2>2 DEF Ask, WaitFor, Warm
<1>3. ASSUME NEW l \in Language, slot[l].state = "starting", ~Disposed, disposed' = disposed,
             slot' = Failed(slot, l)
      PROVE  [Promise!Next]_(Promise!vars)
  <2>1. Phase[l] = "booting" /\ Phase'[l] = "refused"
        BY <1>3 DEF ManagerInv, Typed, Phase, Disposed, Failed
  <2>2. Phase' = [Phase EXCEPT ![l] = "refused"] /\ Disposed' = Disposed
        BY <1>3, <2>1, OnePhase DEF Disposed, ManagerInv, Typed, Failed
  <2> QED BY <1>3, <2>1, <2>2 DEF Promise!Next, Promise!Refuse
<1>4. ASSUME NEW l \in Language, Disposed, disposed' = disposed, slot' = Failed(slot, l)
      PROVE  [Promise!Next]_(Promise!vars)
  <2>1. UNCHANGED <<Phase, Disposed>>
        BY <1>4 DEF Phase, Disposed
  <2> QED BY <2>1 DEF Promise!vars
<1>5. ASSUME NEW l \in Language, Spawn(l) \/ InitializeFails(l)
      PROVE  [Promise!Next]_(Promise!vars)
  <2>1. ~Disposed => slot[l].state = "starting"
        BY <1>5 DEF ManagerInv, SlotsFollow, Spawn, InitializeFails
  <2> QED BY <1>1, <1>3, <1>4, <1>5, <2>1 DEF Spawn, InitializeFails
<1>6. ASSUME NEW l \in Language, Initialized(l)
      PROVE  [Promise!Next]_(Promise!vars)
  <2>1. CASE Disposed
        BY <1>1, <1>6, <2>1 DEF Initialized
  <2>2. CASE ~Disposed
    <3>1. slot[l].state = "starting" /\ disposed' = disposed
          BY <1>6, <2>2 DEF ManagerInv, SlotsFollow, Initialized
    <3>2. /\ slot'[l].state = "ready" /\ \A m \in Language : m # l => slot'[m] = slot[m]
          BY <1>6, <2>2 DEF ManagerInv, Typed, Initialized
    <3>3. Phase[l] = "booting" /\ Phase'[l] = "serving"
          BY <2>2, <3>1, <3>2 DEF Phase, Disposed
    <3>4. Phase' = [Phase EXCEPT ![l] = "serving"] /\ Disposed' = Disposed
          BY <2>2, <3>1, <3>2, <3>3, OnePhase DEF Disposed
    <3> QED BY <2>2, <3>3, <3>4 DEF Promise!Next, Promise!Serve
  <2> QED BY <2>1, <2>2
<1>7. ASSUME NEW l \in Language, ReapIdle(l)
      PROVE  [Promise!Next]_(Promise!vars)
  <2>1. /\ ~Disposed /\ disposed' = disposed /\ slot[l].state = "ready" /\ slot'[l].state = "none"
        /\ \A m \in Language : m # l => slot'[m] = slot[m]
        BY <1>7 DEF ManagerInv, Typed, ReapIdle, Usable, Vacated, Cold
  <2>2. Phase[l] = "serving" /\ Phase'[l] = "off"
        BY <2>1 DEF Phase, Disposed
  <2>3. Phase' = [Phase EXCEPT ![l] = "off"] /\ Disposed' = Disposed
        BY <2>1, <2>2, OnePhase DEF Disposed
  <2> QED BY <2>1, <2>2, <2>3 DEF Promise!Next, Promise!Retire, Promise!Move
<1>8. CASE Rescan
  <2>1. disposed' = disposed
        /\ slot' = [l \in Language |-> IF slot[l].state = "failed" THEN Cold ELSE slot[l]]
        BY <1>8 DEF Rescan
  <2>2. CASE Disposed
    <3>1. UNCHANGED <<Phase, Disposed>>
          BY <2>1, <2>2 DEF Phase, Disposed
    <3> QED BY <3>1 DEF Promise!vars
  <2>3. CASE ~Disposed
    <3>1. \A l \in Language : Phase'[l] = IF Phase[l] = "refused" THEN "off" ELSE Phase[l]
      <4>1. TAKE l \in Language
      <4>2. slot[l].state \in {"none", "starting", "ready", "failed"}
            BY DEF ManagerInv, Typed, Slots
      <4>3. slot'[l] = IF slot[l].state = "failed" THEN Cold ELSE slot[l]
            BY <2>1
      <4>4. Phase[l] = IF slot[l].state = "none" THEN "off"
                       ELSE IF slot[l].state = "starting" THEN "booting"
                       ELSE IF slot[l].state = "ready" THEN "serving" ELSE "refused"
            BY <2>3, <4>2 DEF Phase
      <4>5. Phase'[l] = IF slot'[l].state = "none" THEN "off"
                        ELSE IF slot'[l].state = "starting" THEN "booting"
                        ELSE IF slot'[l].state = "ready" THEN "serving" ELSE "refused"
            BY <2>1, <2>3, <4>2, <4>3 DEF Phase, Disposed, Cold
      <4> QED BY <4>2, <4>3, <4>4, <4>5 DEF Cold
    <3>2. Phase' = [l \in Language |-> IF Phase[l] = "refused" THEN "off" ELSE Phase[l]]
          BY <3>1 DEF Phase
    <3> QED BY <2>1, <2>3, <3>2 DEF Promise!Next, Promise!Rescan, Disposed
  <2> QED BY <2>2, <2>3
<1>9. CASE Dispose
  <2>1. ~Disposed /\ Disposed' /\ disposed' = "stopping"
        BY <1>9 DEF Dispose, Disposed
  <2>2. Phase' = [l \in Language |-> "off"]
        BY <2>1 DEF Phase
  <2> QED BY <2>1, <2>2 DEF Promise!Next, Promise!Close, Disposed
<1>10. CASE Disposal
  <2>1. Disposed /\ Disposed' /\ slot' = slot
        BY <1>10 DEF Disposal, Disposed
  <2>2. UNCHANGED <<Phase, Disposed>>
        BY <2>1 DEF Phase, Disposed
  <2> QED BY <2>2 DEF Promise!vars
<1> QED BY <1>1, <1>2, <1>5, <1>6, <1>7, <1>8, <1>9, <1>10
        DEF Next, vars, Poll, Request, Settle, SearchDone, Install, ShutDown, Exits

\* The slots of the manager are those LspServers promises: its initial states and every
\* one of its steps are theirs.
THEOREM SlotsKeepPromise == Spec => KeepsPromise
<1>1. Init => Promise!Init
      BY DEF Init, Promise!Init, Phase, Disposed, Cold
<1>2. ManagerInv /\ ManagerInv' /\ [Next]_vars => [Promise!Next]_(Promise!vars)
      BY StepKeepsPromise
<1> QED BY <1>1, <1>2, Managed, PTL DEF Spec, KeepsPromise, Promise!Safe
=============================================================================
