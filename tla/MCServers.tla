----------------------------- MODULE MCServers -----------------------------
\* The helpers the plugin runs beside its tools, for TLC: the language servers'
\* manager, a session with one, the reader of its pipe, the search for servers, the
\* diagnostics a write brings back, the parse worker's client and its cache, and the
\* grammars it loads.
\* They share no state, so one run explores them side by side: `part` says which
\* of them runs, the others stay as they start.
EXTENDS LspManager, Sequences

VARIABLES part,
          state, waits, newId, user, outcome, owner, toServer, toClient, loading, peer,
          broken, asked,                                        \* LspSession
          frames, arrived, buffer, out, failed,                 \* LspFraming
          disk, atStart, configured, at, place, found,          \* LspDiscovery
          up, file, closing, nextGen, ledger, told, wire, pushed, call, crossed, \* AutoDiag
          worker, thread, posted, query, aborted, idleArmed, gone, postId, queries, \* AstClient
          used, retained, clock, parsers, parsing, parses,     \* AstCache
          grammars, pinned, requests, loads, asksLeft          \* Grammars

Talk == INSTANCE LspSession WITH
    Task <- {"t1"}, MaxRequests <- 2, MaxAsked <- 2,
    pending <- waits, nextId <- newId, task <- user, server <- peer

Pipe == INSTANCE LspFraming WITH
    Bodies <- {<<>>, <<103>>, <<103, 100, 100, 103>>, <<101>>},
    MaxFrames <- 2, MaxBody <- 4, MaxHeader <- 2

Find == INSTANCE LspDiscovery WITH
    Place <- <<"project", "installed", "path">>,
    Installable <- ({"typescript-language-server"} \X {"project", "installed", "path"})
                    \cup {<<"gopls", "path">>},
    Config <- {"go", "python"}, server <- at, out <- found

\* A server that pushes reports; one that is asked for them, with a ledger that drops
\* its oldest documents; and one whose pulls fail and waits are cut short while files are
\* formatted and deleted.
Probed == INSTANCE AutoDiag WITH
    Doc <- {"a"}, Write <- {"w1", "w2"}, Manual <- {}, Pull <- FALSE, Event <- {}
Pulled == INSTANCE AutoDiag WITH
    Doc <- {"a", "b"}, Write <- {"w1", "w2"}, Manual <- {}, Pull <- TRUE, Event <- {"evict"}
Slow == INSTANCE AutoDiag WITH
    Doc <- {"a"}, Write <- {"w1"}, Manual <- {"m"}, Pull <- TRUE,
    Event <- {"delete", "timeout", "format"}

\* One caller and its retries; two callers of a worker that others stop.
Ast == INSTANCE AstClient WITH
    Task <- {"t1"}, File <- {"f1", "f2"}, Op <- {"parse", "grep"}, Trigger <- {}, MaxCalls <- 4,
    Recycler <- "recycler", pending <- posted, call <- query, disposed <- gone,
    nextId <- postId, calls <- queries
Shared == INSTANCE AstClient WITH
    Task <- {"t1", "t2"}, File <- {"f1"}, Op <- {"parse", "grep"},
    Trigger <- {"idle", "recycle", "dispose"}, MaxCalls <- 2,
    Recycler <- "recycler", pending <- posted, call <- query, disposed <- gone,
    nextId <- postId, calls <- queries

\* What the theorems about the client assume holds of both.
ASSUME ClientsAssumption == Ast!CallersFit /\ Shared!CallersFit

\* Texts of two languages; the large one has to evict, the huge one is not kept.
Texts == {"a", "b", "big", "huge"}
LangOf == [x \in Texts |-> IF x \in {"a", "big"} THEN "ts" ELSE "py"]
NodesIn == [x \in Texts |-> CASE x = "a" -> 2 [] x = "b" -> 3 [] x = "big" -> 4 [] OTHER -> 6]
WorstCase == [x \in Texts |-> IF x = "huge" THEN 8 ELSE 2 * NodesIn[x]]

Alone == INSTANCE AstCache WITH
    Slot <- {"r1"}, Text <- Texts, Lang <- LangOf, Nodes <- NodesIn, Estimate <- WorstCase,
    ArenaUsable <- 9, Budget <- 6, RetainLimit <- 4, MaxRequests <- 6,
    waiting <- parsing, asked <- parses
Crowd == INSTANCE AstCache WITH
    Slot <- {"r1", "r2"}, Text <- Texts, Lang <- LangOf, Nodes <- NodesIn, Estimate <- WorstCase,
    ArenaUsable <- 9, Budget <- 6, RetainLimit <- 4, MaxRequests <- 6,
    waiting <- parsing, asked <- parses

Installed == INSTANCE Grammars WITH
    Version <- {1, 2}, Card <- {"q1", "q2"}, Redo <- FALSE,
    MaxAsks <- 3, MaxLoads <- 1, MaxStarts <- 1,
    disk <- grammars, catalog <- pinned, work <- requests, load <- loads, left <- asksLeft

Parts == {"manager", "talk", "pipe", "find", "probed", "pulled", "slow", "ast", "shared",
          "alone", "crowd", "grammars"}

talkVars == <<state, waits, newId, user, outcome, owner, toServer, toClient, loading, peer,
              broken, asked>>
pipeVars == <<frames, arrived, buffer, out, failed>>
findVars == <<disk, atStart, configured, at, place, found>>
diagVars == <<up, file, closing, nextGen, ledger, told, wire, pushed, call, crossed>>
astVars == <<worker, thread, posted, query, aborted, idleArmed, gone, postId, queries>>
cacheVars == <<used, retained, clock, parsers, parsing, parses>>
grammarVars == <<grammars, pinned, requests, loads, asksLeft>>
allVars == <<part, vars, talkVars, pipeVars, findVars, diagVars, astVars, cacheVars, grammarVars>>

MCInit ==
    /\ part \in Parts
    /\ IF part = "manager" THEN Init ELSE Init /\ onDisk = {}
    /\ Talk!Init
    /\ IF part = "pipe" THEN Pipe!Init
       ELSE frames = <<>> /\ arrived = 0 /\ buffer = <<>> /\ out = <<>> /\ failed = FALSE
    /\ IF part = "find" THEN Find!Init
       ELSE /\ disk = {} /\ atStart = {} /\ configured = {}
            /\ at = 1 /\ place = 1 /\ found = <<>>
    /\ CASE part = "probed" -> Probed!Init
         [] part = "pulled" -> Pulled!Init
         [] part = "slow" -> Slow!Init
         [] OTHER -> Probed!Init /\ up = FALSE
    /\ IF part = "shared" THEN Shared!Init ELSE Ast!Init
    /\ IF part = "crowd" THEN Crowd!Init ELSE Alone!Init
    /\ IF part = "grammars" THEN Installed!Init ELSE Installed!Init /\ pinned = 1

ManagerRuns == part = "manager" /\ UNCHANGED <<part, talkVars, pipeVars, findVars, diagVars, astVars, cacheVars, grammarVars>>
TalkRuns == part = "talk" /\ UNCHANGED <<part, vars, pipeVars, findVars, diagVars, astVars, cacheVars, grammarVars>>
PipeRuns == part = "pipe" /\ UNCHANGED <<part, vars, talkVars, findVars, diagVars, astVars, cacheVars, grammarVars>>
FindRuns == part = "find" /\ UNCHANGED <<part, vars, talkVars, pipeVars, diagVars, astVars, cacheVars, grammarVars>>
DiagRuns(p) == part = p /\ UNCHANGED <<part, vars, talkVars, pipeVars, findVars, astVars, cacheVars, grammarVars>>
AstRuns(p) == part = p /\ UNCHANGED <<part, vars, talkVars, pipeVars, findVars, diagVars, cacheVars, grammarVars>>
CacheRuns(p) == part = p /\ UNCHANGED <<part, vars, talkVars, pipeVars, findVars, diagVars, astVars, grammarVars>>
GrammarsRun == part = "grammars" /\ UNCHANGED <<part, vars, talkVars, pipeVars, findVars, diagVars, astVars, cacheVars>>

MCNext ==
    \/ ManagerRuns /\ Next
    \/ TalkRuns /\ Talk!Next
    \/ PipeRuns /\ Pipe!Next
    \/ FindRuns /\ Find!Next
    \/ DiagRuns("probed") /\ Probed!Next
    \/ DiagRuns("pulled") /\ Pulled!Next
    \/ DiagRuns("slow") /\ Slow!Next
    \/ AstRuns("ast") /\ Ast!Next
    \/ AstRuns("shared") /\ Shared!Next
    \/ CacheRuns("alone") /\ Alone!Next
    \/ CacheRuns("crowd") /\ Crowd!Next
    \/ GrammarsRun /\ Installed!Next

\* Each part's own fairness; where two instances share variables, that of the one
\* whose liveness is checked.
ManagerFairness ==
    /\ \A i \in Search : WF_vars(part = "manager" /\ SearchDone(i))
    /\ \A l \in Language :
        /\ WF_vars(part = "manager" /\ Spawn(l))
        /\ WF_vars(part = "manager" /\ (Initialized(l) \/ InitializeFails(l)))
    /\ \A t \in Task :
        /\ WF_vars(part = "manager" /\ Poll(t))
        /\ WF_vars(part = "manager" /\ Request(t))
        /\ WF_vars(part = "manager" /\ Settle(t))
    /\ \A s \in Session :
        /\ WF_vars(part = "manager" /\ ShutDown(s))
        /\ WF_vars(part = "manager" /\ sess[s].proc = "dying" /\ Exits(s))
    /\ WF_vars(part = "manager" /\ Disposal)
TalkFairness ==
    /\ \A id \in 1..4 : WF_talkVars(part = "talk" /\ Talk!Timeout(id))
    /\ WF_talkVars(part = "talk" /\ Talk!LoadOver("t1"))
    /\ WF_talkVars(part = "talk" /\ (Talk!Deliver \/ Talk!DeliverUnframed))
    /\ WF_talkVars(part = "talk" /\ Talk!CloseAfterShutdown)
    /\ WF_talkVars(part = "talk" /\ Talk!ServerReads)
SlowFairness ==
    \A c \in {"w1", "m"} :
        /\ WF_diagVars(part = "slow" /\ Slow!Ask(c))
        /\ WF_diagVars(part = "slow" /\ Slow!Progress(c))
AstFairness ==
    /\ WF_astVars(part = "ast" /\ (Ast!Send("t1") \/ Ast!Resume("t1")))
    /\ \A w \in 1..8 :
        /\ WF_astVars(part = "ast" /\ Ast!Answer(w))
        /\ WF_astVars(part = "ast" /\ Ast!Deliver(w))
        /\ WF_astVars(part = "ast" /\ Ast!Exit(w))

MCSpec == MCInit /\ [][MCNext]_allVars /\ ManagerFairness /\ TalkFairness /\ SlowFairness /\ AstFairness
-----------------------------------------------------------------------------
\* The parts' type invariants.
PartsTypeOK ==
    /\ TypeOK /\ Talk!TypeOK
    /\ part = "probed" => Probed!TypeOK
    /\ part = "pulled" => Pulled!TypeOK
    /\ part = "slow" => Slow!TypeOK
    /\ part = "ast" => Ast!TypeOK
    /\ part \in {"alone", "crowd"} => Crowd!TypeOK
    /\ part = "grammars" => Installed!TypeOK

\* Reader of the pipe: however the stream is cut, the messages that are wholly there
\* come out, and nothing but messages of the server before its first broken frame.
FramesKept == part = "pipe" => Pipe!CutsDoNotMatter /\ Pipe!NoneInvented

\* What is found is what is installed.  A search misses no server that was there when it
\* began and finds none that is not; project beats installed beats PATH, and the settings
\* beat them all.
\* A half-finished grammar does not look installed, one answered as installed is there, and
\* a load beside no install gets a whole one.
FoundAsSearched ==
    /\ part = "find" => Find!NothingMissed /\ Find!FirstHitWins
    /\ part = "grammars" => Installed!HalfIsNotListed /\ Installed!DoneIsThere /\ Installed!LoadIsWhole

\* Parse worker and its trees: no thread runs that the client has forgotten, the cached
\* trees fit the budget, whatever overlaps, and with no request overlapping another the
\* worker's own count of them is exact.
WorkerAccounted ==
    /\ part = "ast" => Ast!NoStrayThread
    /\ part = "shared" => Shared!NoStrayThread
    /\ part \in {"alone", "crowd"} => Crowd!CachedFits
    /\ part = "alone" => Alone!RetainedIsCached

\* Diagnostics: a report's items were computed for the text its rows are taken from, and
\* neither a probe line nor an older text stays in the server.
ItemsOfText ==
    /\ part = "probed" => Probed!ItemsOfText /\ Probed!InStepAtRest
    /\ part = "pulled" => Pulled!ItemsOfRealContent /\ Pulled!InStepAtRest

\* A promise of a session settles once, and the server sees no request before it was
\* told `initialized` nor after `exit`; a report is begun for the newest text noted, and
\* the disk holds that text unless a change there is yet to be noted.
\* The parse worker: a file is given up only after it aborted on two threads, no call is
\* answered by a worker whose parser has aborted, and a tree is built only when its worst
\* case fits the arena.
WorkedSafely ==
    [][/\ Talk!SettlesOnce /\ Talk!InSession
       /\ part = "probed" => Probed!MintsCurrentStep
       /\ part = "pulled" => Pulled!MintsCurrentStep
       /\ part = "slow" => Slow!MintsCurrentStep
       /\ part = "ast" => Ast!MarkedStep /\ Ast!DeliveredSound
       /\ part = "shared" => Shared!MarkedStep
       /\ part = "alone" => Alone!BuiltWithin]_allVars

\* Whoever waits in a part: callers of the manager for a server, a start for its
\* handshake, a disposed manager for its processes; the caller of a session for its
\* answer, whatever the server does; the server for the answer to its own question, unless
\* it is gone or its stream broke; a write or the lsp tool for its report, cut short or not;
\* a caller of the parse worker, however often a thread aborts or dies under it (a thread
\* the client itself stops is CallsEnd of AstClient, which does not hold).
Waiting ==
    CASE part = "manager" -> Unfinished
      [] part = "talk" -> Talk!RequestWaits("t1") \/ Talk!ServerWaits
      [] part = "slow" ->
            \E c \in {"w1", "m"} :
                call[c].pc \notin {"none", "prepared", "drafted", "told", "injected", "done"}
      [] part = "ast" -> query["t1"].pc = "wait"
      [] OTHER -> FALSE

\* All waiting ends: there comes a time when nobody waits.
WaitsEnd == Waiting ~> ~Waiting
=============================================================================
