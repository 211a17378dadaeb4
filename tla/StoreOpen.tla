----------------------------- MODULE StoreOpen -----------------------------
\* How a process comes to have the store open: loadHashStore, openStore and
\* shutdownHashStore of src/src/domain/session/hash-store.ts, over one store path
\* that several processes use.  An opening awaits the directory, the renames of a
\* quarantine and the legacy migration; anything may happen there.
EXTENDS Naturals, FiniteSets

CONSTANTS Process,
          Event,        \* which of "crash", "exit", "shutdown", "grow", "busy"
          MaxOpens,     \* bound: openings
          MaxFiles      \* bound: files made at the path

Opening == 1..MaxOpens
File == 1..MaxFiles
None == 0
OpensFit == MaxOpens \in Nat /\ MaxFiles \in Nat

VARIABLES files,    \* per file: its health, its size and what its meta table says
          current,  \* the file at the store path, or None
          made,     \* how many files there have been
          open,     \* per opening: its process, where it stands and its connection
          proc,     \* per process: the cached store, the opening under way, whether it runs
          rebuilt   \* rebuilds this day of the store at the path

vars == <<files, current, made, open, proc, rebuilt>>

Fresh == [health |-> "ok", marker |-> FALSE, huge |-> FALSE, recent |-> FALSE]
Unused == [pc |-> "free", proc |-> "none", file |-> None, db |-> "none"]
Absent == [alive |-> TRUE, cached |-> None, slot |-> None, down |-> FALSE]

Init ==
    /\ files = [f \in File |-> Fresh]
    /\ current = None
    /\ made = 0
    /\ open = [o \in Opening |-> Unused]
    /\ proc = [p \in Process |-> Absent]
    /\ rebuilt = 0

Busy(o) == open[o].pc \notin {"free", "open", "failed", "dead"}
IsOpen(p) == proc[p].cached # None /\ open[proc[p].cached].db = "open"

OpensAlways(p) == proc[p].alive /\ ~IsOpen(p)
MustOpen(p) == proc[p].alive /\ ~IsOpen(p) /\ proc[p].slot = None

\* loadHashStore: the open store, the opening under way, or a new opening.
Load(p) ==
    /\ MustOpen(p)
    /\ \E o \in Opening :
        /\ open[o].pc = "free" /\ \A x \in Opening : x < o => open[x].pc # "free"
        /\ open' = [open EXCEPT ![o] = [Unused EXCEPT !.pc = "mkdir", !.proc = p]]
        /\ proc' = [proc EXCEPT ![p].slot = o, ![p].down = FALSE]
    /\ UNCHANGED <<files, current, made, rebuilt>>

\* The finally of the opening: whatever opening the map holds is taken out.
Settled(o) == [proc EXCEPT ![open[o].proc].slot = None]
Cached(o) == [Settled(o) EXCEPT ![open[o].proc].cached = o]

Rejects(o, left) ==
    /\ open' = [open EXCEPT ![o].pc = "failed", ![o].db = left]
    /\ proc' = Settled(o)

\* openDb: the file is opened, or made when there is none.  The clean_shutdown
\* marker stands in for the integrity check and is used up.
Checks(o) == open[o].pc = "mkdir"
TrustsAny(f) == TRUE
Trusted(f) == files[f].marker

Taken(o, f) == [open EXCEPT ![o].pc = "measure", ![o].file = f, ![o].db = "open"]

Connect(o) ==
    \/ /\ current # None /\ files[current].health # "broken"
       /\ files' = [files EXCEPT ![current].marker = IF Checks(o) THEN FALSE ELSE @]
       /\ open' = IF ~Checks(o) \/ Trusted(current) \/ files[current].health = "ok"
                  THEN Taken(o, current)
                  ELSE [open EXCEPT ![o].pc = "quarantine", ![o].db = "closed"]
       /\ UNCHANGED <<current, made, proc>>
    \/ /\ current = None /\ made < MaxFiles
       /\ made' = made + 1 /\ current' = made + 1
       /\ files' = [files EXCEPT ![made + 1] = Fresh]
       /\ open' = Taken(o, made + 1)
       /\ UNCHANGED proc
    \/ /\ "busy" \in Event
       /\ Rejects(o, "none")
       /\ UNCHANGED <<files, current, made>>

\* After the mkdir: a file that does not open is put aside.
OpenDb(o) ==
    /\ open[o].pc = "mkdir"
    /\ \/ Connect(o)
       \/ /\ current # None /\ files[current].health = "broken"
          /\ open' = [open EXCEPT ![o].pc = "quarantine"]
          /\ UNCHANGED <<files, current, made, proc>>
    /\ UNCHANGED rebuilt

OpensAgain(o) == [open EXCEPT ![o].pc = "reopen"]

\* quarantineStore: the file at the path, whichever it is by now, is renamed; what
\* its meta table said of rebuilds goes with it.
Quarantine(o) ==
    /\ open[o].pc = "quarantine"
    /\ current' = None
    /\ open' = OpensAgain(o)
    /\ rebuilt' = 0
    /\ UNCHANGED <<files, made, proc>>

\* A second failure to open is the caller's.
Reopen(o) ==
    /\ open[o].pc = "reopen"
    /\ \/ Connect(o)
       \/ /\ current # None /\ files[current].health = "broken"
          /\ Rejects(o, "none")
          /\ UNCHANGED <<files, current, made>>
    /\ UNCHANGED rebuilt

Throttled(f) == files[f].recent

\* A store far over its budget is closed and put aside, once a day; else the
\* connection is cached and the store swept in place.
Measure(o) ==
    /\ open[o].pc = "measure"
    /\ LET f == open[o].file IN
        \/ /\ files[f].huge /\ ~Throttled(f)
           /\ files' = [files EXCEPT ![f].marker = TRUE]
           /\ open' = [open EXCEPT ![o].pc = "putaside", ![o].db = "closed"]
           /\ UNCHANGED proc
        \/ /\ ~files[f].huge \/ Throttled(f)
           /\ files' = [files EXCEPT ![f].huge = FALSE]
           /\ open' = [open EXCEPT ![o].pc = "open"]
           /\ proc' = Cached(o)
    /\ UNCHANGED <<current, made, rebuilt>>

PutAside(o) ==
    /\ open[o].pc = "putaside"
    /\ current' = None
    /\ open' = [open EXCEPT ![o].pc = "remake"]
    /\ UNCHANGED <<files, made, proc, rebuilt>>

\* The new file; when it does not open the rest runs on the closed connection,
\* which is cached and then throws.
Remake(o) ==
    /\ open[o].pc = "remake"
    /\ \/ /\ current = None /\ made < MaxFiles
          /\ made' = made + 1 /\ current' = made + 1
          /\ files' = [files EXCEPT ![made + 1] = [Fresh EXCEPT !.recent = TRUE]]
          /\ open' = [open EXCEPT ![o].pc = "open", ![o].file = made + 1, ![o].db = "open"]
          /\ rebuilt' = rebuilt + 1
       \/ /\ current # None /\ files[current].health # "broken"
          /\ files' = [files EXCEPT ![current].recent = TRUE]
          /\ open' = [open EXCEPT ![o].pc = "open", ![o].file = current, ![o].db = "open"]
          /\ rebuilt' = rebuilt + 1
          /\ UNCHANGED <<current, made>>
       \/ /\ "busy" \in Event \/ (current # None /\ files[current].health = "broken")
          /\ open' = [open EXCEPT ![o].pc = "failed"]
          /\ UNCHANGED <<files, current, made, rebuilt>>
    /\ proc' = Cached(o)

\* shutdownHashStore closes the cached store and forgets the openings.
Shut(p) ==
    IF IsOpen(p)
    THEN /\ files' = [files EXCEPT ![open[proc[p].cached].file].marker = TRUE]
         /\ open' = [open EXCEPT ![proc[p].cached].db = "closed", ![proc[p].cached].pc = "dead"]
    ELSE UNCHANGED <<files, open>>

Shutdown(p) ==
    /\ "shutdown" \in Event /\ proc[p].alive /\ ~proc[p].down
    /\ Shut(p)
    /\ proc' = [proc EXCEPT ![p] = [Absent EXCEPT !.down = TRUE]]
    /\ UNCHANGED <<current, made, rebuilt>>

\* The process's exit handler; its openings end with it.
Buried(p, os) == [o \in Opening |-> IF os[o].proc = p /\ os[o].pc # "free"
                                    THEN [os[o] EXCEPT !.pc = "dead", !.db = "closed"] ELSE os[o]]
Exit(p) ==
    /\ "exit" \in Event /\ proc[p].alive
    /\ files' = IF IsOpen(p) THEN [files EXCEPT ![open[proc[p].cached].file].marker = TRUE] ELSE files
    /\ open' = Buried(p, open)
    /\ proc' = [proc EXCEPT ![p] = [Absent EXCEPT !.alive = FALSE]]
    /\ UNCHANGED <<current, made, rebuilt>>

\* A death may leave damage in a file the process had open.
Crash(p) ==
    /\ "crash" \in Event /\ proc[p].alive
    /\ \E h \in {"ok", "rotten", "broken"} :
        files' = [f \in File |->
            IF \E o \in Opening : open[o].proc = p /\ open[o].db = "open" /\ open[o].file = f
            THEN [files[f] EXCEPT !.health = IF h = "ok" THEN @ ELSE h] ELSE files[f]]
    /\ open' = Buried(p, open)
    /\ proc' = [proc EXCEPT ![p] = [Absent EXCEPT !.alive = FALSE]]
    /\ UNCHANGED <<current, made, rebuilt>>

Spawn(p) == ~proc[p].alive /\ proc' = [proc EXCEPT ![p] = Absent] /\ UNCHANGED <<files, current, made, open, rebuilt>>

\* The file of an open store grows.
Grow(p) ==
    /\ "grow" \in Event /\ IsOpen(p)
    /\ files' = [files EXCEPT ![open[proc[p].cached].file].huge = TRUE]
    /\ UNCHANGED <<current, made, open, proc, rebuilt>>

\* The rebuild throttle runs out.
NewDay ==
    /\ rebuilt > 0 /\ rebuilt' = 0
    /\ files' = [f \in File |-> [files[f] EXCEPT !.recent = FALSE]]
    /\ UNCHANGED <<current, made, open, proc>>

OpenNext(o) ==
    OpenDb(o) \/ Quarantine(o) \/ Reopen(o) \/ Measure(o) \/ PutAside(o) \/ Remake(o)

Next ==
    \/ \E o \in Opening : OpenNext(o)
    \/ \E p \in Process : Load(p) \/ Shutdown(p) \/ Exit(p) \/ Crash(p) \/ Spawn(p) \/ Grow(p)
    \/ NewDay

\* An awaited rename or mkdir answers.
Spec == Init /\ [][Next]_vars /\ \A o \in Opening : WF_vars(OpenNext(o))
-----------------------------------------------------------------------------
TypeOK ==
    /\ files \in [File -> [health : {"ok", "rotten", "broken"}, marker : BOOLEAN, huge : BOOLEAN,
                           recent : BOOLEAN]]
    /\ current \in 0..made /\ made \in 0..MaxFiles
    /\ open \in [Opening -> [pc : {"free", "mkdir", "quarantine", "reopen", "measure",
                                   "putaside", "remake", "open", "failed", "dead"},
                             proc : Process \cup {"none"}, file : 0..MaxFiles,
                             db : {"none", "open", "closed"}]]
    /\ proc \in [Process -> [alive : BOOLEAN, cached : 0..MaxOpens, slot : 0..MaxOpens, down : BOOLEAN]]
    /\ rebuilt \in 0..MaxOpens

\* "The marker proves the previous process exited through shutdownDb": an opening
\* takes no file into use that a death had damaged.
DamagedNotServed ==
    \A o \in Opening : open[o].pc = "mkdir" /\ open'[o].pc = "measure" =>
        files'[open'[o].file].health = "ok"

\* "One open store per store path": a process has one connection at most.
Connected(p) == {o \in Opening : open[o].proc = p /\ open[o].db = "open"}
OneOpenPerPath == \A p \in Process : Cardinality(Connected(p)) <= 1

\* "How often the open path is allowed to rebuild a single store": once a day, whatever
\* the openings in between; the store that follows a damaged one is another.
RebuildsApart == rebuilt <= 1
=============================================================================
