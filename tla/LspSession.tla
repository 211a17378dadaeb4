----------------------------- MODULE LspSession -----------------------------
\* One session with a language server: src/src/lsp/session.ts over the pipes of
\* src/src/lsp/transport.ts.  Messages arrive in order in both directions; the
\* server may answer late, out of order or never, ask things itself, announce a
\* project load, write bytes that are no message, or die.
EXTENDS Naturals, Sequences, FiniteSets

CONSTANTS Task,         \* callers that were handed the session
          MaxRequests,  \* bound: requests of the callers
          MaxAsked      \* bound: messages the server sends by itself

InitializeId == 1                       \* #nextId starts at 1
ShutdownId == MaxRequests + 2
Id == 1..(MaxRequests + 2)

VARIABLES state,        \* #state: fresh, initializing, ready, closed
          pending,      \* ids of #pending
          nextId,
          task,         \* per caller: idle, waiting for an id, or waiting out a load
          outcome,      \* per id: how its promise settled, or none
          owner,        \* the manager's part: "start", "up" (handed out), "stop" (it has
                        \* to stop it), "gone" (stopped) or "dropped" (never handed out)
          toServer, toClient,   \* the pipes
          loading,      \* #projectLoading, and whether it was ever announced
          server,       \* external: ids it has not answered, what it has seen
          broken,       \* what the framing of the stream has failed on: nothing yet, a
                        \* body that is no JSON, or a header it never gets past
          asked         \* for MaxAsked

vars == <<state, pending, nextId, task, outcome, owner, toServer, toClient, loading,
          server, broken, asked>>
ends == <<toServer, toClient>>

Free == [pc |-> "idle", id |-> 0]
Alive == server.alive

Init ==
    /\ state = "fresh"
    /\ pending = {}
    /\ nextId = 1
    /\ task = [t \in Task |-> Free]
    /\ outcome = [i \in Id |-> "none"]
    /\ owner = "start"
    /\ toServer = <<>> /\ toClient = <<>>
    /\ loading = [depth |-> 0, seen |-> FALSE]
    /\ server = [alive |-> TRUE, open |-> {}, saw |-> "nothing", owed |-> 0]
    /\ broken = "nothing"
    /\ asked = 0

\* A write to a pipe; a dead server's pipe swallows it.
Written(q, m) == IF Alive THEN Append(q, m) ELSE q

\* #request: the entry, its timer and the bytes.
SendRequest(id, kind) ==
    /\ pending' = pending \cup {id}
    /\ toServer' = Written(toServer, [kind |-> kind, id |-> id])

\* initialize, called once by the manager.
Initialize ==
    /\ owner = "start" /\ state = "fresh"
    /\ state' = "initializing"
    /\ SendRequest(InitializeId, "initialize")
    /\ nextId' = 2
    /\ UNCHANGED <<task, outcome, owner, toClient, loading, server, broken, asked>>

HandedOut == owner \in {"up", "gone"}

\* A caller's request.  Only a closed session refuses; a caller was handed the
\* session while it was ready.
Refuses == state = "closed"
Request(t) ==
    /\ HandedOut /\ task[t].pc = "idle" /\ nextId <= MaxRequests + 1
    /\ ~Refuses
    /\ SendRequest(nextId, "request")
    /\ task' = [task EXCEPT ![t] = [pc |-> "wait", id |-> nextId]]
    /\ nextId' = nextId + 1
    /\ UNCHANGED <<state, outcome, owner, toClient, loading, server, broken, asked>>

\* waitForProjectLoad: the caller polls until the load ends, the session closes
\* or its budget is over.
Loading == loading.seen /\ loading.depth > 0
AwaitLoad(t) ==
    /\ HandedOut /\ task[t].pc = "idle" /\ Loading
    /\ task' = [task EXCEPT ![t].pc = "load"]
    /\ UNCHANGED <<state, pending, nextId, outcome, owner, ends, loading, server, broken, asked>>

LoadOver(t) ==
    /\ task[t].pc = "load"
    /\ task' = [task EXCEPT ![t] = Free]
    /\ UNCHANGED <<state, pending, nextId, outcome, owner, ends, loading, server, broken, asked>>

\* What a settled promise resumes, for the ids that settle.  The handshake's
\* continuation says `initialized` and makes the session ready, whatever its
\* state was; a refused encoding makes the manager shut down.
Freed(ids) == [t \in Task |-> IF task[t].pc = "wait" /\ task[t].id \in ids
                              THEN Free ELSE task[t]]

Settles(ids, how) ==
    /\ pending' = pending \ ids
    /\ outcome' = [i \in Id |-> IF i \in ids THEN how ELSE outcome[i]]
    /\ task' = Freed(ids)

Handshake ==
    \/ /\ toServer' = IF state = "closed" THEN toServer
                      ELSE Written(toServer, [kind |-> "initialized", id |-> 0])
       /\ state' = "ready"
       /\ owner' = IF owner = "start" THEN "up" ELSE "stop"
    \/ \* the server negotiated an encoding the session cannot use: the manager's
       \* catch shuts down, which for a session that is not ready is immediate
       /\ toServer' = IF state = "closed" THEN toServer
                      ELSE Written(Written(toServer, [kind |-> "initialized", id |-> 0]),
                                   [kind |-> "exit", id |-> 0])
       /\ state' = "closed"
       /\ owner' = "dropped"

\* #dispatch of one message from the server.
Known(id) == id \in pending

Replied(q) == Written(q, [kind |-> "reply", id |-> 0])
Lowered(n) == IF n = 0 THEN 0 ELSE n - 1

Dispatch(msg) ==
    \/ /\ msg.kind = "answer" /\ ~Known(msg.id)
       /\ UNCHANGED <<state, pending, outcome, task, owner, toServer, loading>>
    \/ /\ msg.kind = "answer" /\ Known(msg.id)
       /\ Settles({msg.id}, "answered")
       /\ IF msg.id = InitializeId THEN Handshake ELSE UNCHANGED <<state, owner, toServer>>
       /\ UNCHANGED loading
    \/ \* a request of the server is always answered
       /\ msg.kind = "ask"
       /\ toServer' = Replied(toServer)
       /\ UNCHANGED <<state, pending, outcome, task, owner, loading>>
    \/ /\ msg.kind = "loadStart"
       /\ loading' = [depth |-> loading.depth + 1, seen |-> TRUE]
       /\ UNCHANGED <<state, pending, outcome, task, owner, toServer>>
    \/ /\ msg.kind = "loadEnd"
       /\ loading' = [loading EXCEPT !.depth = Lowered(@)]
       /\ UNCHANGED <<state, pending, outcome, task, owner, toServer>>

\* #onData, a chunk that can be framed: its messages are dispatched one by one.
Unframed == {"badBody", "badHeader"}
Deaf == broken = "header"

Deliver ==
    /\ toClient # <<>> /\ ~Deaf
    /\ Head(toClient).kind \notin Unframed
    /\ Dispatch(Head(toClient))
    /\ toClient' = Tail(toClient)
    /\ UNCHANGED <<nextId, server, broken, asked>>

\* A push that throws: everything outstanding fails, and what the chunk brought
\* before the bad frame is lost with it.  The reader goes on behind a bad body; a bad
\* header stays where it is, so every later push throws at it again.
FailAll ==
    /\ Settles(pending, "failed")
    /\ owner' = IF InitializeId \in pending THEN "stop" ELSE owner

Breaks(kind) == IF kind = "badHeader" THEN "header" ELSE "body"

DeliverUnframed ==
    /\ \/ \E k \in 1..Len(toClient) :
            /\ ~Deaf /\ toClient[k].kind \in Unframed
            /\ \A j \in 1..(k - 1) : toClient[j].kind \notin Unframed
            /\ toClient' = SubSeq(toClient, k + 1, Len(toClient))
            /\ broken' = Breaks(toClient[k].kind)
       \/ /\ Deaf /\ toClient # <<>>
          /\ toClient' = Tail(toClient)
          /\ UNCHANGED broken
    /\ FailAll
    /\ UNCHANGED <<state, nextId, toServer, loading, server, asked>>

\* A request's timer.
Timeout(id) ==
    /\ id \in pending
    /\ Settles({id}, "timeout")
    /\ owner' = IF id = InitializeId /\ owner = "start" THEN "stop" ELSE owner
    /\ UNCHANGED <<state, nextId, ends, loading, server, broken, asked>>

\* The manager stops the session: idle, disposed, or its start failed.
Stop ==
    /\ owner \in {"start", "up", "stop"}
    /\ owner' = IF owner = "up" THEN "gone" ELSE "dropped"
    /\ \/ /\ state = "ready"
          /\ SendRequest(ShutdownId, "shutdown")
          /\ UNCHANGED state
       \/ /\ state \in {"fresh", "initializing"}
          /\ toServer' = Written(toServer, [kind |-> "exit", id |-> 0])
          /\ state' = "closed"
          /\ UNCHANGED pending
       \/ /\ state = "closed"
          /\ UNCHANGED <<state, pending, toServer>>
    /\ UNCHANGED <<nextId, task, outcome, toClient, loading, server, broken, asked>>

\* The shutdown request has settled: `exit`, closed, kill.
CloseAfterShutdown ==
    /\ outcome[ShutdownId] # "none" /\ state = "ready"
    /\ toServer' = Written(toServer, [kind |-> "exit", id |-> 0])
    /\ state' = "closed"
    /\ UNCHANGED <<pending, nextId, task, outcome, owner, toClient, loading, server, broken, asked>>

\* External: the server reads its pipe in order,
ServerReads ==
    /\ Alive /\ toServer # <<>>
    /\ toServer' = Tail(toServer)
    /\ LET msg == Head(toServer) IN
        server' = [server EXCEPT
            !.open = IF msg.kind \in {"initialize", "request", "shutdown"}
                     THEN @ \cup {msg.id} ELSE @,
            !.owed = IF msg.kind = "reply" THEN @ - 1 ELSE @,
            !.saw = IF msg.kind \in {"initialized", "exit"} THEN msg.kind ELSE @]
    /\ UNCHANGED <<state, pending, nextId, task, outcome, owner, toClient, loading, broken, asked>>

\* answers what it read, in any order or never,
ServerAnswers(id) ==
    /\ Alive /\ id \in server.open
    /\ server' = [server EXCEPT !.open = @ \ {id}]
    /\ toClient' = Append(toClient, [kind |-> "answer", id |-> id])
    /\ UNCHANGED <<state, pending, nextId, task, outcome, owner, toServer, loading, broken, asked>>

\* speaks by itself, once the session is up, or writes what is no message at any time,
ServerSpeaks(kind) ==
    /\ Alive /\ asked < MaxAsked
    /\ server.saw # "nothing" \/ kind \in Unframed
    /\ asked' = asked + 1
    /\ server' = [server EXCEPT !.owed = IF kind = "ask" THEN @ + 1 ELSE @]
    /\ toClient' = Append(toClient, [kind |-> kind, id |-> 0])
    /\ UNCHANGED <<state, pending, nextId, task, outcome, owner, toServer, loading, broken>>

\* and exits, when told, killed or by itself: #onExit.
Exit ==
    /\ Alive
    /\ server' = [server EXCEPT !.alive = FALSE, !.open = {}, !.owed = 0]
    /\ toServer' = <<>> /\ toClient' = <<>>
    /\ state' = "closed"
    /\ Settles(pending, "failed")
    /\ owner' = IF InitializeId \in pending /\ owner = "start" THEN "stop" ELSE owner
    /\ UNCHANGED <<nextId, loading, broken, asked>>

Next ==
    \/ Initialize \/ Deliver \/ DeliverUnframed \/ Stop \/ CloseAfterShutdown \/ ServerReads \/ Exit
    \/ \E t \in Task : Request(t) \/ AwaitLoad(t) \/ LoadOver(t)
    \/ \E id \in Id : Timeout(id) \/ ServerAnswers(id)
    \/ \E kind \in {"ask", "loadStart", "loadEnd"} \cup Unframed : ServerSpeaks(kind)

\* Timers run out, messages are delivered, a poller's budget ends.  A server
\* need not answer.
Fairness ==
    /\ \A id \in Id : WF_vars(Timeout(id))
    /\ \A t \in Task : WF_vars(LoadOver(t))
    /\ WF_vars(Deliver \/ DeliverUnframed) /\ WF_vars(CloseAfterShutdown) /\ WF_vars(ServerReads)

Spec == Init /\ [][Next]_vars /\ Fairness
-----------------------------------------------------------------------------
TypeOK ==
    /\ state \in {"fresh", "initializing", "ready", "closed"}
    /\ pending \subseteq Id
    /\ outcome \in [Id -> {"none", "answered", "failed", "timeout"}]
    /\ owner \in {"start", "up", "stop", "gone", "dropped"}
    /\ loading.depth \in 0..MaxAsked
    /\ server.owed \in Nat
    /\ broken \in {"nothing", "body", "header"}

\* "A late response must not resolve a promise nobody is waiting for": a promise
\* settles once, by an answer, its timer or the session's end.
SettlesOnce == \A i \in Id : outcome[i] # "none" => outcome'[i] = outcome[i]

\* The server never sees a request of a caller before it was told `initialized`,
\* nor after `exit`.
InSession ==
    \A id \in 2..(MaxRequests + 1) :
        id \in server'.open \ server.open => server.saw = "initialized"

\* A request ends, whatever the server does.
RequestWaits(t) == task[t].pc = "wait"
RequestsEnd == \A t \in Task : RequestWaits(t) ~> ~RequestWaits(t)

\* "Silence can deadlock the server": a request of the server is answered, or the
\* server is gone.  A stream that could not be framed answers for nothing: the
\* request may have been lost with its chunk.
ServerWaits == server.owed > 0 /\ broken = "nothing"
ServerIsAnswered == ServerWaits ~> ~ServerWaits
=============================================================================
