----------------------------- MODULE LspManager -----------------------------
\* The language servers the plugin runs: src/src/lsp/manager.ts over the sessions
\* of src/src/lsp/session.ts.  One slot per language says what a caller gets; a
\* session owns a process.  Starts, idle shutdowns and dispose all wait in the
\* middle, and any other action may run then.  Whether a backoff or an idle window
\* has passed is left open: both are settings and clocks.
EXTENDS Naturals, FiniteSets

CONSTANTS Language,
          Task,             \* callers of the tools
          Event,            \* which of "crash", "install", "idle", "dispose", "rescan"
          MaxSessions,      \* bound: processes spawned
          MaxSearches       \* bound: discoveries

Session == 1..MaxSessions
Search == 1..MaxSearches
None == 0

ASSUME ManagerAssumption ==
    /\ Event \subseteq {"crash", "install", "idle", "dispose", "rescan"}
    /\ MaxSessions \in Nat /\ MaxSearches \in Nat

VARIABLES slot,         \* per language: none, starting, ready or failed, and its session
          start,        \* per language, where its #start stands
          sess,         \* per session: its language, state and process
          launched,     \* #launched: sessions dispose has to stop
          onDisk,       \* languages whose server is installed
          search,       \* discoveries: what was on disk when one began, and its state
          discovering,  \* #discovering, a search or None
          discovered,   \* #discovered: the search it came from, or None
          task,         \* per caller, what it does
          disposed,     \* "no", "stopping", or "done" when dispose has resolved
          stops         \* the sessions dispose waits for

vars == <<slot, start, sess, launched, onDisk, search, discovering, discovered,
          task, disposed, stops>>

Cold == [state |-> "none", on |-> None]
AtRest == [pc |-> "none", on |-> None]
Unspawned == [lang |-> "none", state |-> "fresh", proc |-> "none", stopping |-> FALSE]
Idle == [pc |-> "idle", lang |-> "none", on |-> None]

Init ==
    /\ slot = [l \in Language |-> Cold]
    /\ start = [l \in Language |-> AtRest]
    /\ sess = [s \in Session |-> Unspawned]
    /\ launched = {}
    /\ onDisk \in SUBSET Language
    /\ search = [i \in Search |-> [state |-> "none", found |-> {}]]
    /\ discovering = None
    /\ discovered = None
    /\ task = [t \in Task |-> Idle]
    /\ disposed = "no"
    /\ stops = {}

Disposed == disposed # "no"

\* What a resolved discovery resumes runs before the next timer or message.
Settled == \A l \in Language : start[l].pc # "found"

Unused == {s \in Session : sess[s].proc = "none"}
NextSession == CHOOSE s \in Unused : TRUE
NewSearch == {i \in Search : search[i].state = "none"}
NextSearch == CHOOSE i \in NewSearch : TRUE

\* #servers: what was found, or the search in flight, or a new one.
Servers(l) ==
    \/ /\ discovered # None
       /\ start' = [start EXCEPT ![l] = [pc |-> "found", on |-> discovered]]
       /\ UNCHANGED <<search, discovering>>
    \/ /\ discovered = None /\ discovering # None
       /\ start' = [start EXCEPT ![l] = [pc |-> "search", on |-> discovering]]
       /\ UNCHANGED <<search, discovering>>
    \/ /\ discovered = None /\ discovering = None
       /\ NewSearch # {}
       /\ search' = [search EXCEPT ![NextSearch] = [state |-> "running", found |-> onDisk]]
       /\ discovering' = NextSearch
       /\ start' = [start EXCEPT ![l] = [pc |-> "search", on |-> NextSearch]]

\* warm.  A failed slot gives way once its backoff has passed, which may be now.
Warm(l) ==
    \/ /\ ~Disposed /\ slot[l].state \in {"none", "failed"}
       /\ slot' = [slot EXCEPT ![l] = [state |-> "starting", on |-> None]]
       /\ Servers(l)
    \/ /\ Disposed \/ slot[l].state # "none"
       /\ UNCHANGED <<slot, start, search, discovering>>

\* decide and sessionFor: hand out a ready session or warm one.
Usable(l) == slot[l].state = "ready"

Ask(t, l) ==
    /\ Settled
    /\ task[t].pc = "idle"
    /\ \/ /\ Usable(l)
          /\ task' = [task EXCEPT ![t] = [pc |-> "hold", lang |-> l, on |-> slot[l].on]]
          /\ UNCHANGED <<slot, start, search, discovering>>
       \/ /\ ~Usable(l) /\ Warm(l) /\ UNCHANGED task
    /\ UNCHANGED <<sess, launched, onDisk, discovered, disposed, stops>>

\* waitForSession, and forceWarm, which first drops a failed slot: warm and poll.
WaitFor(t, l) ==
    /\ Settled
    /\ task[t].pc = "idle" /\ ~Disposed /\ ~Usable(l)
    /\ task' = [task EXCEPT ![t] = [pc |-> "poll", lang |-> l, on |-> None]]
    /\ Warm(l)
    /\ UNCHANGED <<sess, launched, onDisk, discovered, disposed, stops>>

\* A poller gives up when the start failed or START_TIMEOUT_MS is over.
GivesUp(l) == ~Usable(l)

Poll(t) ==
    /\ Settled
    /\ task[t].pc = "poll"
    /\ \/ /\ Usable(task[t].lang)
          /\ task' = [task EXCEPT ![t].pc = "hold", ![t].on = slot[task[t].lang].on]
       \/ /\ GivesUp(task[t].lang)
          /\ task' = [task EXCEPT ![t] = Idle]
    /\ UNCHANGED <<slot, start, sess, launched, onDisk, search, discovering, discovered,
                   disposed, stops>>

\* session.request on the session the caller holds: a closed one throws.
Request(t) ==
    /\ Settled
    /\ task[t].pc = "hold"
    /\ task' = IF sess[task[t].on].state = "closed"
               THEN [task EXCEPT ![t] = Idle]
               ELSE [task EXCEPT ![t].pc = "sent"]
    /\ UNCHANGED <<slot, start, sess, launched, onDisk, search, discovering, discovered,
                   disposed, stops>>

\* The answer, or the request's own timer.
Settle(t) ==
    /\ Settled
    /\ task[t].pc = "sent"
    /\ task' = [task EXCEPT ![t] = Idle]
    /\ UNCHANGED <<slot, start, sess, launched, onDisk, search, discovering, discovered,
                   disposed, stops>>

\* The search read the disk while it changed: it found at least what was there
\* when it began.  Its result replaces #discovered whatever happened since.
Waits(l, i) == start[l] = [pc |-> "search", on |-> i]

SearchDone(i) ==
    /\ Settled
    /\ search[i].state = "running"
    /\ \E found \in SUBSET onDisk :
        /\ search[i].found \subseteq found
        /\ search' = [search EXCEPT ![i] = [state |-> "done", found |-> found]]
    /\ discovered' = i
    /\ discovering' = None
    /\ start' = [l \in Language |->
                    IF Waits(l, i)
                    THEN [pc |-> "found", on |-> i] ELSE start[l]]
    /\ UNCHANGED <<slot, sess, launched, onDisk, task, disposed, stops>>

\* What #markFailed writes, and what a killed session leaves.
StillReady(sl, l) == [sl EXCEPT ![l].state = "ready"]
Failed(sl, l) == [sl EXCEPT ![l] = [state |-> "failed", on |-> None]]
Killed(x) == [x EXCEPT !.state = "closed", !.proc = IF @ = "up" THEN "dying" ELSE @]

\* The rest of #start up to the handshake.  It does not ask whether the manager
\* was disposed while it searched.
Spawn(l) ==
    /\ start[l].pc = "found"
    /\ \/ \* no server was found, or the spawn throws
          /\ slot' = Failed(slot, l)
          /\ start' = [start EXCEPT ![l] = AtRest]
          /\ UNCHANGED <<sess, launched>>
       \/ /\ l \in search[start[l].on].found /\ Unused # {}
          /\ sess' = [sess EXCEPT ![NextSession] = [Unspawned EXCEPT
                        !.lang = l, !.state = "initializing", !.proc = "up"]]
          /\ launched' = launched \cup {NextSession}
          /\ start' = [start EXCEPT ![l] = [pc |-> "init", on |-> NextSession]]
          /\ UNCHANGED slot
    /\ UNCHANGED <<onDisk, search, discovering, discovered, task, disposed, stops>>

\* The handshake is answered: ready, or stopped when the manager is gone.
Initialized(l) ==
    /\ Settled
    /\ start[l].pc = "init"
    /\ LET s == start[l].on IN
        /\ sess[s].proc \in {"up", "dying"}
        /\ \/ /\ ~Disposed
              /\ sess' = [sess EXCEPT ![s].state = "ready"]
              /\ slot' = [slot EXCEPT ![l] = [state |-> "ready", on |-> s]]
           \/ /\ Disposed
              /\ sess' = [sess EXCEPT ![s].state = "ready", ![s].stopping = TRUE]
              /\ UNCHANGED slot
    /\ start' = [start EXCEPT ![l] = AtRest]
    /\ UNCHANGED <<launched, onDisk, search, discovering, discovered, task,
                   disposed, stops>>

\* It is not: a timeout, an exit or an encoding the session refuses.
KeepsProcess(ss, s) == ss
ShutDownFailed(ss, s) == [ss EXCEPT ![s] = Killed(@)]

InitializeFails(l) ==
    /\ Settled
    /\ start[l].pc = "init"
    /\ sess' = ShutDownFailed(sess, start[l].on)
    /\ launched' = launched \ {start[l].on}
    /\ slot' = Failed(slot, l)
    /\ start' = [start EXCEPT ![l] = AtRest]
    /\ UNCHANGED <<onDisk, search, discovering, discovered, task, disposed, stops>>

\* #reapIdle, when the window has passed and nothing is in flight: the slot goes
\* first, the process second.
NeverBusy(s) == FALSE
Busy(s) == \E t \in Task : task[t].pc = "sent" /\ task[t].on = s
MarkedFailed(l) == [state |-> "failed", on |-> None]
Vacated(l) == Cold

ReapIdle(l) ==
    /\ "idle" \in Event /\ Settled /\ ~Disposed
    /\ Usable(l) /\ ~Busy(slot[l].on)
    /\ LET s == slot[l].on IN
        /\ launched' = launched \ {s}
        /\ sess' = IF sess[s].state = "ready" THEN [sess EXCEPT ![s].stopping = TRUE]
                                              ELSE sess
    /\ slot' = [slot EXCEPT ![l] = Vacated(l)]
    /\ UNCHANGED <<start, onDisk, search, discovering, discovered, task,
                   disposed, stops>>

\* The callers whose request the session's end rejects.
Rejected(S) == [t \in Task |-> IF task[t].pc = "sent" /\ task[t].on \in S THEN Idle ELSE task[t]]

\* session.shutdown is answered or its two seconds are over: exit, closed, kill.
ShutDown(s) ==
    /\ Settled
    /\ sess[s].stopping /\ sess[s].state = "ready"
    /\ sess' = [sess EXCEPT ![s] = Killed(@)]
    /\ UNCHANGED <<slot, start, launched, onDisk, search, discovering, discovered,
                   task, disposed, stops>>

\* A killed process exits, or one dies by itself: the session closes and fails
\* what is pending.  Nothing tells the slot.
Exits(s) ==
    /\ Settled
    /\ sess[s].proc = "dying" \/ (sess[s].proc = "up" /\ "crash" \in Event)
    /\ sess' = [sess EXCEPT ![s].proc = "gone", ![s].state = "closed"]
    /\ task' = Rejected({s})
    /\ UNCHANGED <<slot, start, launched, onDisk, search, discovering, discovered,
                   disposed, stops>>

\* The user installs a server; the settings card asks for a new search.
Install(l) ==
    /\ "install" \in Event /\ Settled /\ l \notin onDisk
    /\ onDisk' = onDisk \cup {l}
    /\ UNCHANGED <<slot, start, sess, launched, search, discovering, discovered,
                   task, disposed, stops>>

Rescan ==
    /\ "rescan" \in Event /\ Settled
    /\ NewSearch # {}
    /\ discovered' = None
    /\ discovering' = None
    /\ slot' = [l \in Language |-> IF slot[l].state = "failed" THEN Cold ELSE slot[l]]
    /\ UNCHANGED <<start, sess, launched, onDisk, search, task, disposed, stops>>

\* dispose: a ready session is asked first, any other is killed at once.
Dispose ==
    /\ "dispose" \in Event /\ Settled /\ ~Disposed
    /\ disposed' = "stopping"
    /\ sess' = [s \in Session |->
                    IF s \notin launched THEN sess[s]
                    ELSE IF sess[s].state = "ready" THEN [sess[s] EXCEPT !.stopping = TRUE]
                    ELSE Killed(sess[s])]
    /\ stops' = launched \cup {s \in Session : sess[s].stopping}
    /\ launched' = {}
    /\ slot' = [l \in Language |-> Cold]
    /\ UNCHANGED <<start, onDisk, search, discovering, discovered, task>>

Disposal ==
    /\ disposed = "stopping" /\ Settled
    /\ \A s \in stops : sess[s].state = "closed"
    /\ disposed' = "done"
    /\ UNCHANGED <<slot, start, sess, launched, onDisk, search, discovering, discovered,
                   task, stops>>

Next ==
    \/ \E t \in Task, l \in Language : Ask(t, l) \/ WaitFor(t, l)
    \/ \E t \in Task : Poll(t) \/ Request(t) \/ Settle(t)
    \/ \E i \in Search : SearchDone(i)
    \/ \E l \in Language : Spawn(l) \/ Initialized(l) \/ InitializeFails(l)
                                \/ ReapIdle(l) \/ Install(l)
    \/ \E s \in Session : ShutDown(s) \/ Exits(s)
    \/ Rescan \/ Dispose \/ Disposal

\* Searches end, handshakes and requests are answered or time out, pollers give
\* up, a killed process exits.  No server has to crash, no caller has to ask.
Fairness ==
    /\ \A i \in Search : WF_vars(SearchDone(i))
    /\ \A l \in Language : WF_vars(Spawn(l)) /\ WF_vars(Initialized(l) \/ InitializeFails(l))
    /\ \A t \in Task : WF_vars(Poll(t)) /\ WF_vars(Request(t)) /\ WF_vars(Settle(t))
    /\ \A s \in Session : WF_vars(ShutDown(s)) /\ WF_vars(sess[s].proc = "dying" /\ Exits(s))
    /\ WF_vars(Disposal)

Spec == Init /\ [][Next]_vars /\ Fairness
-----------------------------------------------------------------------------
TypeOK ==
    /\ \A l \in Language : slot[l].state \in {"none", "starting", "ready", "failed"}
    /\ \A l \in Language : slot[l].state = "ready" => slot[l].on \in Session
    /\ \A l \in Language : start[l].pc \in {"none", "search", "found", "init"}
    /\ launched \subseteq Session /\ stops \subseteq Session
    /\ discovering \in Search \cup {None} /\ discovered \in Search \cup {None}
    /\ \A t \in Task : task[t].pc \in {"idle", "hold", "poll", "sent"}

\* A language never has two servers at work: a second process is started only
\* when the first was told to stop.
OneServer ==
    \A l \in Language :
        Cardinality({s \in Session : sess[s].lang = l /\ sess[s].proc = "up"
                                        /\ ~sess[s].stopping}) <= 1

\* "Must be told cold, not handed a session that is about to die": no caller gets
\* a session that is already being stopped.
NotHandedDying ==
    \A t \in Task : task'[t].pc = "hold" /\ task[t].pc # "hold" =>
            ~sess[task'[t].on].stopping

\* "A server that is mid-answer is WORKING": only the death of its process or
\* dispose takes a session from a caller that waits for an answer.
WorkingNotStopped ==
    \A t \in Task : task[t].pc = "sent" /\ sess'[task[t].on].stopping
            /\ ~sess[task[t].on].stopping => disposed' # disposed

\* Both at once: sessions and the callers that hold them.
SessionsInOrder == [][NotHandedDying /\ WorkingNotStopped]_vars

\* What the slots promise, as LspServers states it.
Phase == [l \in Language |->
    CASE Disposed \/ slot[l].state = "none" -> "off"
      [] ~Disposed /\ slot[l].state = "starting" -> "booting"
      [] ~Disposed /\ slot[l].state = "ready" -> "serving"
      [] OTHER -> "refused"]

Promise == INSTANCE LspServers WITH phase <- Phase, closed <- Disposed

\* The manager keeps that promise: every step of it is one LspServers allows.
KeepsPromise == Promise!Safe

\* What has to end: a start, ready or failed, and with it the booting that LspServers
\* promises an end of; a caller's waiting; and, whatever a dispose raced with, every process.
Unfinished ==
    \/ \E l \in Language : start[l].pc # "none" \/ Phase[l] = "booting"
    \/ \E t \in Task : task[t].pc # "idle"
    \/ disposed # "no" /\ \E s \in Session : sess[s].proc \notin {"none", "gone"}
=============================================================================
