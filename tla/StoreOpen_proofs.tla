-------------------------- MODULE StoreOpen_proofs --------------------------
(***************************************************************************)
(* The openings of the store: every variable keeps its type, a process has *)
(* one connection at most, and with one process no damaged file is taken   *)
(* into use and no store is rebuilt twice a day.                           *)
(***************************************************************************)
EXTENDS StoreOpen, FiniteSetTheorems, TLAPS

Health == {"ok", "rotten", "broken"}
Stores == [health : Health, marker : BOOLEAN, huge : BOOLEAN, recent : BOOLEAN]
Ways == {"mkdir", "quarantine", "reopen", "measure", "putaside", "remake"}
Ends == {"open", "failed", "dead"}
Opens == [pc : Ways \cup Ends \cup {"free"}, proc : Process \cup {"none"}, file : 0 .. MaxFiles,
          db : {"none", "open", "closed"}]
Procs == [alive : BOOLEAN, cached : 0 .. MaxOpens, slot : 0 .. MaxOpens, down : BOOLEAN]

TypeInv ==
    /\ files \in [File -> Stores] /\ current \in 0 .. made /\ made \in 0 .. MaxFiles
    /\ open \in [Opening -> Opens] /\ proc \in [Process -> Procs] /\ rebuilt \in Nat
    /\ \A o \in Opening : IF open[o].pc = "free" THEN open[o].db = "none" ELSE open[o].proc \in Process

LEMMA BusyWays == ASSUME TypeInv, NEW o \in Opening PROVE Busy(o) <=> open[o].pc \in Ways
BY DEF TypeInv, Busy, Ways, Ends, Opens

\* How an opening goes on: what becomes of it and of its process's cache.
GoesOn(o, n) ==
    \/ /\ n.pc \in {"quarantine", "reopen", "putaside", "remake"} /\ proc' = proc
       /\ n.db = "closed" \/ (n.db = open[o].db /\ open[o].pc # "measure")
    \/ n.pc = "measure" /\ n.db = "open" /\ proc' = proc
    \/ n.pc = "failed" /\ n.db = "none" /\ proc' = Settled(o)
    \/ n.pc = "failed" /\ n.db = open[o].db /\ open[o].pc # "measure" /\ proc' = Cached(o)
    \/ n.pc = "open" /\ proc' = Cached(o)
Rebuilds(o, n) ==
    rebuilt' \in {rebuilt, 0} \/ (rebuilt' = rebuilt + 1 /\ open[o].pc = "remake" /\ n.pc = "open")
Moves(o) ==
    /\ open' \in [Opening -> Opens] /\ open'[o].proc = open[o].proc
    /\ \A x \in Opening \ {o} : open'[x] = open[x]
FilesTyped == files \in [File -> Stores] /\ current \in 0 .. made /\ made \in 0 .. MaxFiles

\* The records of the openings, field by field.
LEMMA WithFile == ASSUME NEW r \in Opens, NEW f \in 0 .. MaxFiles PROVE [r EXCEPT !.file = f] \in Opens
BY DEF Opens

LEMMA WithDb == ASSUME NEW r \in Opens PROVE [r EXCEPT !.db = "open"] \in Opens
BY DEF Opens

\* The record of an opening that takes a file into use.
LEMMA TakesFile ==
    ASSUME open \in [Opening -> Opens], NEW o \in Opening, NEW pc \in Ways \cup Ends, NEW f \in File,
           open' = [open EXCEPT ![o].pc = pc, ![o].file = f, ![o].db = "open"], MaxFiles \in Nat
    PROVE  Moves(o) /\ open'[o].pc = pc /\ open'[o].file = f /\ open'[o].db = "open"
<1> DEFINE one == [open EXCEPT ![o].pc = pc]
           two == [one EXCEPT ![o].file = f]
<1>1. one \in [Opening -> Opens] /\ one[o].pc = pc /\ one[o].proc = open[o].proc
      /\ \A x \in Opening \ {o} : one[x] = open[x]
      BY DEF Opens
<1>2. open' = [two EXCEPT ![o].db = "open"]
      BY <1>1
<1> HIDE DEF one
<1>3. two = [one EXCEPT ![o] = [one[o] EXCEPT !.file = f]]
      OBVIOUS
<1>4. [one[o] EXCEPT !.file = f] \in Opens /\ f \in 0 .. MaxFiles
      <2>1. one[o] \in Opens
            BY <1>1
      <2>2. f \in 0 .. MaxFiles
            BY ONLY f \in File, MaxFiles \in Nat DEF File
      <2> QED BY <2>1, <2>2, WithFile
<1>5. /\ two \in [Opening -> Opens] /\ two[o] = [one[o] EXCEPT !.file = f]
      /\ \A x \in Opening \ {o} : two[x] = open[x]
      BY <1>1, <1>3, <1>4
<1>6. two[o].pc = pc /\ two[o].proc = open[o].proc /\ two[o].file = f
      BY <1>1, <1>4, <1>5 DEF Opens
<1> HIDE DEF two
<1>7. open' = [two EXCEPT ![o] = [two[o] EXCEPT !.db = "open"]]
      BY <1>2
<1>8. [two[o] EXCEPT !.db = "open"] \in Opens
      BY <1>5, WithDb
<1>9. /\ open' \in [Opening -> Opens] /\ open'[o] = [two[o] EXCEPT !.db = "open"]
      /\ \A x \in Opening \ {o} : open'[x] = open[x]
      <2> DEFINE r == [two[o] EXCEPT !.db = "open"]
      <2>1. two \in [Opening -> Opens] /\ open' = [two EXCEPT ![o] = r] /\ r \in Opens
            BY <1>5, <1>7, <1>8
      <2> HIDE DEF r
      <2>2. open' \in [Opening -> Opens] /\ open'[o] = r /\ \A x \in Opening \ {o} : open'[x] = two[x]
            BY <2>1
      <2>3. \A x \in Opening \ {o} : open'[x] = open[x]
            BY <1>5, <2>2
      <2> QED BY <2>2, <2>3 DEF r
<1>10. open'[o].pc = pc /\ open'[o].proc = open[o].proc /\ open'[o].file = f /\ open'[o].db = "open"
      BY <1>5, <1>6, <1>9 DEF Opens
<1> QED BY <1>9, <1>10 DEF Moves

LEMMA ConnectMoves ==
    ASSUME OpensFit, TypeInv, NEW o \in Opening, open[o].pc \in Ways, Connect(o)
    PROVE  /\ FilesTyped'
           /\ Moves(o) /\ GoesOn(o, open'[o])
<1>0. /\ files \in [File -> Stores] /\ current \in 0 .. made /\ made \in 0 .. MaxFiles
      /\ open \in [Opening -> Opens] /\ open[o] \in Opens /\ MaxFiles \in Nat
      BY DEF TypeInv, OpensFit
<1>1. ASSUME current # None,
             files' = [files EXCEPT ![current].marker = IF Checks(o) THEN FALSE ELSE @],
             UNCHANGED <<current, made>>
      PROVE  FilesTyped'
      <2> DEFINE b == IF Checks(o) THEN FALSE ELSE files[current].marker
      <2>1. current \in File
            BY <1>0, <1>1 DEF File, None
      <2>2. b \in BOOLEAN
            BY <1>0, <2>1 DEF Stores
      <2>3. files' = [files EXCEPT ![current].marker = b]
            BY <1>0, <1>1, <2>1
      <2> HIDE DEF b
      <2>4. files' \in [File -> Stores]
            BY <1>0, <2>1, <2>2, <2>3 DEF Stores
      <2> QED BY <1>0, <1>1, <2>4 DEF FilesTyped
<1>2. ASSUME NEW f \in File, open' = Taken(o, f), proc' = proc
      PROVE  Moves(o) /\ GoesOn(o, open'[o])
      <2>1. Moves(o) /\ open'[o].pc = "measure" /\ open'[o].db = "open"
            BY <1>0, <1>2, TakesFile DEF Taken, Ways
      <2> QED BY <1>2, <2>1 DEF GoesOn
<1>3. CASE /\ current # None /\ files[current].health # "broken"
           /\ files' = [files EXCEPT ![current].marker = IF Checks(o) THEN FALSE ELSE @]
           /\ open' = IF ~Checks(o) \/ Trusted(current) \/ files[current].health = "ok"
                      THEN Taken(o, current)
                      ELSE [open EXCEPT ![o].pc = "quarantine", ![o].db = "closed"]
           /\ UNCHANGED <<current, made, proc>>
      <2>1. FilesTyped'
            BY <1>1, <1>3
      <2>2. current \in File
            BY <1>0, <1>3 DEF File, None
      <2>3. CASE open' = Taken(o, current)
            BY <1>2, <1>3, <2>1, <2>2, <2>3
      <2>4. CASE open' = [open EXCEPT ![o].pc = "quarantine", ![o].db = "closed"]
            <3>2. Moves(o) /\ open'[o].pc = "quarantine" /\ open'[o].db = "closed"
                  BY <1>0, <2>4 DEF Opens, Ways, Ends, File, Moves
            <3> QED BY <1>3, <2>1, <3>2 DEF GoesOn
      <2> QED BY <1>3, <2>3, <2>4
<1>4. CASE /\ current = None /\ made < MaxFiles
           /\ made' = made + 1 /\ current' = made + 1
           /\ files' = [files EXCEPT ![made + 1] = Fresh]
           /\ open' = Taken(o, made + 1)
           /\ UNCHANGED proc
      <2>1. made + 1 \in File
            BY <1>0, <1>4 DEF File
      <2>2. Fresh \in Stores
            BY DEF Fresh, Stores, Health
      <2>3. FilesTyped'
            BY <1>0, <1>4, <2>1, <2>2 DEF FilesTyped, File
      <2> QED BY <1>2, <1>4, <2>1, <2>3
<1>5. CASE Rejects(o, "none") /\ UNCHANGED <<files, current, made>>
      <2>2. Moves(o) /\ open'[o].pc = "failed" /\ open'[o].db = "none" /\ proc' = Settled(o)
            BY <1>0, <1>5 DEF Opens, Rejects, Ways, Ends, File, Moves
      <2>3. FilesTyped'
            BY <1>0, <1>5 DEF FilesTyped
      <2> QED BY <2>2, <2>3 DEF GoesOn
<1> QED BY <1>3, <1>4, <1>5 DEF Connect

LEMMA OpenMoves ==
    ASSUME OpensFit, TypeInv, NEW o \in Opening, OpenNext(o)
    PROVE  /\ FilesTyped' /\ open[o].pc \in Ways
           /\ Moves(o) /\ GoesOn(o, open'[o]) /\ Rebuilds(o, open'[o])
<1>0. /\ files \in [File -> Stores] /\ current \in 0 .. made /\ made \in 0 .. MaxFiles
      /\ open \in [Opening -> Opens] /\ open[o] \in Opens /\ MaxFiles \in Nat
      BY DEF TypeInv, OpensFit
<1>1. ASSUME open[o].pc \in Ways, FilesTyped',
             NEW pc \in {"quarantine", "reopen", "putaside", "remake"}, rebuilt' \in {rebuilt, 0},
             \/ open' = [open EXCEPT ![o].pc = pc] /\ open[o].pc # "measure"
             \/ open' = [open EXCEPT ![o].pc = pc, ![o].db = "closed"],
             proc' = proc
      PROVE  Moves(o) /\ GoesOn(o, open'[o]) /\ Rebuilds(o, open'[o])
      <2>1. /\ Moves(o) /\ open'[o].pc = pc
            /\ open'[o].db = "closed" \/ (open'[o].db = open[o].db /\ open[o].pc # "measure")
            BY <1>0, <1>1 DEF Opens, Ways, Moves
      <2> QED BY <1>1, <2>1 DEF GoesOn, Rebuilds
<1>2. CASE open[o].pc \in {"mkdir", "reopen"} /\ Connect(o) /\ UNCHANGED rebuilt
      <2>1. open[o].pc \in Ways
            BY <1>2 DEF Ways
      <2> QED BY <1>2, <2>1, ConnectMoves DEF Rebuilds
<1>3. CASE open[o].pc = "mkdir" /\ open' = [open EXCEPT ![o].pc = "quarantine"]
           /\ UNCHANGED <<files, current, made, proc, rebuilt>>
      <2>1. FilesTyped' /\ open[o].pc \in Ways
            BY <1>0, <1>3 DEF FilesTyped, Ways
      <2> QED BY <1>1, <1>3, <2>1
<1>4. CASE Quarantine(o)
      <2>1. FilesTyped' /\ open[o].pc \in Ways
            BY <1>0, <1>4 DEF Quarantine, FilesTyped, Ways, None
      <2>2. /\ open' = [open EXCEPT ![o].pc = "reopen"] /\ proc' = proc /\ rebuilt' = 0
            /\ open[o].pc # "measure"
            BY <1>4 DEF Quarantine, OpensAgain
      <2> QED BY <1>1, <2>1, <2>2
<1>5. CASE open[o].pc = "reopen" /\ Rejects(o, "none") /\ UNCHANGED <<files, current, made, rebuilt>>
      <2>1. FilesTyped' /\ open[o].pc \in Ways
            BY <1>0, <1>5 DEF FilesTyped, Ways
      <2>3. Moves(o) /\ open'[o].pc = "failed" /\ open'[o].db = "none" /\ proc' = Settled(o)
            BY <1>0, <1>5 DEF Opens, Rejects, Ways, Ends, File, Moves
      <2> QED BY <1>5, <2>1, <2>3 DEF GoesOn, Rebuilds
<1>6. CASE Measure(o)
      <2> DEFINE f == open[o].file
      <2>1. open[o].pc \in Ways /\ UNCHANGED <<current, made, rebuilt>>
            BY <1>6 DEF Measure, Ways
      <2>2. FilesTyped'
            <3>1. \/ files' = [files EXCEPT ![f].marker = TRUE]
                  \/ files' = [files EXCEPT ![f].huge = FALSE]
                  BY <1>6 DEF Measure
            <3> HIDE DEF f
            <3>2. files' \in [File -> Stores]
                  BY <1>0, <3>1 DEF Stores
            <3> QED BY <1>0, <2>1, <3>2 DEF FilesTyped
      <2>3. CASE open' = [open EXCEPT ![o].pc = "putaside", ![o].db = "closed"] /\ proc' = proc
            BY <1>1, <2>1, <2>2, <2>3
      <2>4. CASE open' = [open EXCEPT ![o].pc = "open"] /\ proc' = Cached(o)
            <3>2. Moves(o) /\ open'[o].pc = "open" /\ open'[o].db = open[o].db
                  BY <1>0, <2>4 DEF Opens, Ways, Ends, File, Moves
            <3> QED BY <2>1, <2>2, <2>4, <3>2 DEF GoesOn, Rebuilds
      <2> QED BY <1>6, <2>3, <2>4 DEF Measure
<1>7. CASE PutAside(o)
      <2>1. FilesTyped' /\ open[o].pc \in Ways
            BY <1>0, <1>7 DEF PutAside, FilesTyped, Ways, None
      <2>2. /\ open' = [open EXCEPT ![o].pc = "remake"] /\ proc' = proc /\ rebuilt' = rebuilt
            /\ open[o].pc # "measure"
            BY <1>7 DEF PutAside
      <2> QED BY <1>1, <2>1, <2>2
<1>8. CASE Remake(o)
      <2>0. open[o].pc = "remake" /\ open[o].pc \in Ways /\ proc' = Cached(o)
            BY <1>8 DEF Remake, Ways
      <2>1. ASSUME NEW f \in File, FilesTyped', rebuilt' = rebuilt + 1,
                   open' = [open EXCEPT ![o].pc = "open", ![o].file = f, ![o].db = "open"]
            PROVE  Moves(o) /\ GoesOn(o, open'[o]) /\ Rebuilds(o, open'[o])
            <3>2. Moves(o) /\ open'[o].pc = "open" /\ open'[o].db = "open"
                  BY <1>0, <2>1, TakesFile DEF Ends
            <3> QED BY <2>0, <2>1, <3>2 DEF GoesOn, Rebuilds
      <2>2. CASE /\ current = None /\ made < MaxFiles
                 /\ made' = made + 1 /\ current' = made + 1
                 /\ files' = [files EXCEPT ![made + 1] = [Fresh EXCEPT !.recent = TRUE]]
                 /\ open' = [open EXCEPT ![o].pc = "open", ![o].file = made + 1, ![o].db = "open"]
                 /\ rebuilt' = rebuilt + 1
            <3>1. made + 1 \in File
                  BY <1>0, <2>2 DEF File
            <3>2. [Fresh EXCEPT !.recent = TRUE] \in Stores
                  BY DEF Fresh, Stores, Health
            <3>3. FilesTyped'
                  BY <1>0, <2>2, <3>1, <3>2 DEF FilesTyped, File
            <3> QED BY <2>0, <2>1, <2>2, <3>1, <3>3
      <2>3. CASE /\ current # None
                 /\ files' = [files EXCEPT ![current].recent = TRUE]
                 /\ open' = [open EXCEPT ![o].pc = "open", ![o].file = current, ![o].db = "open"]
                 /\ rebuilt' = rebuilt + 1
                 /\ UNCHANGED <<current, made>>
            <3>1. current \in File
                  BY <1>0, <2>3 DEF File, None
            <3>2. files' \in [File -> Stores]
                  BY <1>0, <2>3 DEF Stores
            <3>3. FilesTyped'
                  BY <1>0, <2>3, <3>2 DEF FilesTyped
            <3> QED BY <2>0, <2>1, <2>3, <3>1, <3>3
      <2>4. CASE open' = [open EXCEPT ![o].pc = "failed"] /\ UNCHANGED <<files, current, made, rebuilt>>
            <3>2. Moves(o) /\ open'[o].pc = "failed" /\ open'[o].db = open[o].db
                  BY <1>0, <2>4 DEF Opens, Ways, Ends, File, Moves
            <3>3. FilesTyped'
                  BY <1>0, <2>4 DEF FilesTyped
            <3> QED BY <2>0, <2>4, <3>2, <3>3 DEF GoesOn, Rebuilds
      <2> QED BY <1>8, <2>2, <2>3, <2>4 DEF Remake
<1>9. OpenDb(o) => \/ open[o].pc \in {"mkdir", "reopen"} /\ Connect(o) /\ UNCHANGED rebuilt
                   \/ open[o].pc = "mkdir" /\ open' = [open EXCEPT ![o].pc = "quarantine"]
                        /\ UNCHANGED <<files, current, made, proc, rebuilt>>
      BY DEF OpenDb
<1>10. Reopen(o) => \/ open[o].pc \in {"mkdir", "reopen"} /\ Connect(o) /\ UNCHANGED rebuilt
                    \/ open[o].pc = "reopen" /\ Rejects(o, "none")
                         /\ UNCHANGED <<files, current, made, rebuilt>>
       BY DEF Reopen
<1> QED BY <1>2, <1>3, <1>4, <1>5, <1>6, <1>7, <1>8, <1>9, <1>10 DEF OpenNext
Rested == {o \in Opening : open[o].pc \in Ends}
Grows == rebuilt' \in {rebuilt, 0} \/ (rebuilt' = rebuilt + 1 /\ \E o \in Opening : o \in Rested' \ Rested)

LEMMA OpenTyped ==
    ASSUME OpensFit, TypeInv, NEW o \in Opening, OpenNext(o)
    PROVE  TypeInv' /\ Rested \subseteq Rested' /\ Grows
<1>0. /\ FilesTyped' /\ open[o].pc \in Ways /\ Moves(o) /\ GoesOn(o, open'[o]) /\ Rebuilds(o, open'[o])
      BY OpenMoves
<1>1. /\ open \in [Opening -> Opens] /\ proc \in [Process -> Procs] /\ rebuilt \in Nat /\ open'[o] \in Opens
      /\ open[o].proc \in Process /\ open' \in [Opening -> Opens] /\ o \in 0 .. MaxOpens
      BY <1>0 DEF TypeInv, Ways, Moves, OpensFit, Opening
<1>2. proc' \in [Process -> Procs]
      <2>1. CASE proc' = proc
            BY <1>1, <2>1
      <2>2. Settled(o) \in [Process -> Procs] /\ (proc' = Settled(o) => proc' \in [Process -> Procs])
            BY <1>1 DEF Settled, Procs, None, OpensFit
      <2>3. CASE proc' = Cached(o)
            BY <1>1, <2>2, <2>3 DEF Cached, Procs
      <2> QED BY <1>0, <2>1, <2>2, <2>3 DEF GoesOn
<1>3. open'[o].pc \in Ways \cup Ends
      BY <1>0 DEF GoesOn, Ways, Ends
<1>4. ASSUME NEW x \in Opening
      PROVE  IF open'[x].pc = "free" THEN open'[x].db = "none" ELSE open'[x].proc \in Process
      <2>1. CASE x = o
            BY <1>0, <1>1, <1>3, <2>1 DEF Moves, Ways, Ends
      <2>2. CASE x # o
            BY <1>0, <2>2 DEF Moves, TypeInv
      <2> QED BY <2>1, <2>2
<1>5. Rested \subseteq Rested'
      <2> SUFFICES ASSUME NEW x \in Rested PROVE x \in Rested'
            OBVIOUS
      <2>1. x # o /\ x \in Opening
            BY <1>0 DEF Rested, Ways, Ends
      <2> QED BY <1>0, <2>1 DEF Rested, Moves
<1>6. Grows /\ rebuilt' \in Nat
      <2>1. CASE rebuilt' \in {rebuilt, 0}
            BY <1>1, <2>1 DEF Grows
      <2>2. CASE rebuilt' = rebuilt + 1 /\ open[o].pc = "remake" /\ open'[o].pc = "open"
            <3>1. o \in Rested' /\ o \notin Rested
                  BY <2>2 DEF Rested, Ends
            <3> QED BY <1>1, <2>2, <3>1 DEF Grows
      <2> QED BY <1>0, <2>1, <2>2 DEF Rebuilds
<1> QED BY <1>0, <1>1, <1>2, <1>4, <1>5, <1>6 DEF TypeInv, FilesTyped

LEMMA BuriedTyped ==
    ASSUME TypeInv, NEW p \in Process, open' = Buried(p, open)
    PROVE  /\ open' \in [Opening -> Opens] /\ Rested \subseteq Rested'
           /\ \A o \in Opening : IF open'[o].pc = "free" THEN open'[o].db = "none" ELSE open'[o].proc \in Process
<1>0. open \in [Opening -> Opens]
      BY DEF TypeInv
<1>1. ASSUME NEW o \in Opening
      PROVE  /\ open'[o] \in Opens
             /\ \/ open'[o] = open[o]
                \/ open'[o].pc = "dead" /\ open'[o].db = "closed" /\ open'[o].proc = p /\ open[o].pc # "free"
      <2>1. open[o] \in Opens
            BY <1>0
      <2>2. open'[o] = IF open[o].proc = p /\ open[o].pc # "free"
                       THEN [open[o] EXCEPT !.pc = "dead", !.db = "closed"] ELSE open[o]
            BY DEF Buried
      <2>3. CASE open[o].proc = p /\ open[o].pc # "free"
            BY <2>1, <2>2, <2>3 DEF Opens, Ends
      <2> QED BY <2>1, <2>2, <2>3
<1>2. open' \in [Opening -> Opens]
      <2>1. open' = [o \in Opening |-> open'[o]]
            BY DEF Buried
      <2> QED BY <1>1, <2>1
<1>3. Rested \subseteq Rested'
      BY <1>1 DEF Rested, Ends
<1> QED BY <1>1, <1>2, <1>3 DEF TypeInv
LEMMA ProcessTyped ==
    ASSUME OpensFit, TypeInv, NEW p \in Process,
           Load(p) \/ Shutdown(p) \/ Exit(p) \/ Crash(p) \/ Spawn(p) \/ Grow(p)
    PROVE  TypeInv' /\ Rested \subseteq Rested' /\ rebuilt' = rebuilt
<1>0. /\ files \in [File -> Stores] /\ current \in 0 .. made /\ made \in 0 .. MaxFiles
      /\ open \in [Opening -> Opens] /\ proc \in [Process -> Procs] /\ rebuilt \in Nat
      /\ \A o \in Opening : IF open[o].pc = "free" THEN open[o].db = "none" ELSE open[o].proc \in Process
      /\ MaxOpens \in Nat /\ MaxFiles \in Nat /\ Absent \in Procs
      /\ proc[p] \in Procs /\ current' = current /\ made' = made /\ rebuilt' = rebuilt
      BY DEF TypeInv, OpensFit, Load, Shutdown, Exit, Crash, Spawn, Grow, Procs, Absent, None
<1> DEFINE c == proc[p].cached
<1>1. IsOpen(p) => c \in Opening /\ open[c].db = "open"
      BY <1>0 DEF IsOpen, None, Opening, Procs
<1>2. ASSUME NEW g \in File, NEW b \in BOOLEAN,
             files' = [files EXCEPT ![g].marker = b] \/ files' = [files EXCEPT ![g].huge = b]
      PROVE  files' \in [File -> Stores]
      BY <1>0, <1>2 DEF Stores
<1>3. IsOpen(p) /\ open[c].file \notin File => open[c].file = 0
      BY <1>0, <1>1 DEF Opens, File
<1>4. ASSUME NEW b \in BOOLEAN, IsOpen(p),
             \/ files' = [files EXCEPT ![open[c].file].marker = b]
             \/ files' = [files EXCEPT ![open[c].file].huge = b]
      PROVE  files' \in [File -> Stores]
      <2>1. CASE open[c].file \in File
            BY <1>2, <1>4, <2>1
      <2>2. CASE open[c].file \notin File
            <3>1. files' = files
                  BY <1>0, <1>4, <2>2
            <3> QED BY <1>0, <3>1
      <2> QED BY <2>1, <2>2
<1> HIDE DEF c
<1>5. CASE Load(p)
      <2>1. PICK o \in Opening :
                /\ open[o].pc = "free"
                /\ open' = [open EXCEPT ![o] = [Unused EXCEPT !.pc = "mkdir", !.proc = p]]
                /\ proc' = [proc EXCEPT ![p].slot = o, ![p].down = FALSE]
            BY <1>5 DEF Load
      <2>2. o \in 0 .. MaxOpens
            BY <1>0 DEF Opening
      <2>3. [Unused EXCEPT !.pc = "mkdir", !.proc = p] = [pc |-> "mkdir", proc |-> p, file |-> 0, db |-> "none"]
            <3>1. [Unused EXCEPT !.pc = "mkdir"] = [pc |-> "mkdir", proc |-> "none", file |-> 0, db |-> "none"]
                  BY DEF Unused, None
            <3>2. [[pc |-> "mkdir", proc |-> "none", file |-> 0, db |-> "none"] EXCEPT !.proc = p]
                    = [pc |-> "mkdir", proc |-> p, file |-> 0, db |-> "none"]
                  OBVIOUS
            <3> QED BY <3>1, <3>2
      <2>4. [pc |-> "mkdir", proc |-> p, file |-> 0, db |-> "none"] \in Opens
            BY <1>0 DEF Opens, Ways
      <2>5. open' = [open EXCEPT ![o] = [pc |-> "mkdir", proc |-> p, file |-> 0, db |-> "none"]]
            BY <2>1, <2>3
      <2>6. proc' \in [Process -> Procs]
            BY <1>0, <2>1, <2>2 DEF Procs
      <2>7. open' \in [Opening -> Opens]
            BY <1>0, <2>4, <2>5
      <2>8. \A x \in Opening : IF open'[x].pc = "free" THEN open'[x].db = "none" ELSE open'[x].proc \in Process
            BY <1>0, <2>5
      <2>9. Rested \subseteq Rested'
            BY <1>0, <2>1, <2>5 DEF Rested, Ends
      <2>10. files' = files
            BY <1>5 DEF Load
      <2> QED BY <1>0, <2>6, <2>7, <2>8, <2>9, <2>10 DEF TypeInv
<1>6. CASE Shutdown(p)
      <2>1. proc' = [proc EXCEPT ![p] = [Absent EXCEPT !.down = TRUE]] /\ Shut(p)
            BY <1>6 DEF Shutdown
      <2>2. [Absent EXCEPT !.down = TRUE] \in Procs
            BY <1>0 DEF Absent, Procs, None
      <2>3. proc' \in [Process -> Procs]
            BY <1>0, <2>1, <2>2
      <2>4. CASE IsOpen(p)
            <3>1. /\ files' = [files EXCEPT ![open[c].file].marker = TRUE]
                  /\ open' = [open EXCEPT ![c].db = "closed", ![c].pc = "dead"]
                  BY <2>1, <2>4 DEF Shut, c
            <3>2. files' \in [File -> Stores]
                  BY <1>4, <2>4, <3>1
            <3>3. c \in Opening /\ open[c].pc # "free" /\ open[c] \in Opens
                  BY <1>0, <1>1, <2>4
            <3>4. /\ open' \in [Opening -> Opens] /\ open'[c].pc = "dead" /\ open'[c].proc = open[c].proc
                  /\ \A x \in Opening \ {c} : open'[x] = open[x]
                  BY <1>0, <3>1, <3>3 DEF Opens, Ends
            <3>5. \A x \in Opening :
                      IF open'[x].pc = "free" THEN open'[x].db = "none" ELSE open'[x].proc \in Process
                  BY <1>0, <3>3, <3>4
            <3>6. Rested \subseteq Rested'
                  BY <3>3, <3>4 DEF Rested, Ends
            <3> QED BY <1>0, <2>3, <3>2, <3>4, <3>5, <3>6 DEF TypeInv
      <2>5. CASE ~IsOpen(p)
            <3>1. files' = files /\ open' = open
                  BY <2>1, <2>5 DEF Shut
            <3> QED BY <1>0, <2>3, <3>1 DEF TypeInv, Rested
      <2> QED BY <2>4, <2>5
<1>7. CASE Exit(p) \/ Crash(p)
      <2>1. open' = Buried(p, open) /\ proc' = [proc EXCEPT ![p] = [Absent EXCEPT !.alive = FALSE]]
            BY <1>7 DEF Exit, Crash
      <2>2. [Absent EXCEPT !.alive = FALSE] \in Procs
            BY <1>0 DEF Absent, Procs, None
      <2>3. proc' \in [Process -> Procs]
            BY <1>0, <2>1, <2>2
      <2>4. files' \in [File -> Stores]
            <3>1. CASE Exit(p)
                  <4>1. CASE IsOpen(p)
                        BY <1>4, <3>1, <4>1 DEF Exit, c
                  <4>2. CASE ~IsOpen(p)
                        BY <1>0, <3>1, <4>2 DEF Exit
                  <4> QED BY <4>1, <4>2
            <3>2. CASE Crash(p)
                  <4>1. PICK h \in Health : files' = [f \in File |->
                            IF \E o \in Opening : open[o].proc = p /\ open[o].db = "open" /\ open[o].file = f
                            THEN [files[f] EXCEPT !.health = IF h = "ok" THEN @ ELSE h] ELSE files[f]]
                        BY <3>2 DEF Crash, Health
                  <4>2. ASSUME NEW f \in File
                        PROVE  [files[f] EXCEPT !.health = IF h = "ok" THEN @ ELSE h] \in Stores
                        BY <1>0 DEF Stores, Health
                  <4> QED BY <1>0, <4>1, <4>2
            <3> QED BY <1>7, <3>1, <3>2
      <2> QED BY <1>0, <2>1, <2>3, <2>4, BuriedTyped DEF TypeInv
<1>8. CASE Spawn(p)
      <2>1. proc' \in [Process -> Procs]
            BY <1>0, <1>8 DEF Spawn
      <2>2. files' = files /\ open' = open
            BY <1>8 DEF Spawn
      <2> QED BY <1>0, <2>1, <2>2 DEF TypeInv, Rested
<1>9. CASE Grow(p)
      <2>1. files' \in [File -> Stores]
            BY <1>4, <1>9 DEF Grow, c
      <2>2. open' = open /\ proc' = proc
            BY <1>9 DEF Grow
      <2> QED BY <1>0, <2>1, <2>2 DEF TypeInv, Rested
<1> QED BY <1>5, <1>6, <1>7, <1>8, <1>9
LEMMA NextTyped ==
    ASSUME OpensFit, TypeInv, [Next]_vars PROVE TypeInv' /\ Rested \subseteq Rested' /\ Grows
<1>1. CASE \E o \in Opening : OpenNext(o)
      BY <1>1, OpenTyped
<1>2. CASE \E p \in Process : Load(p) \/ Shutdown(p) \/ Exit(p) \/ Crash(p) \/ Spawn(p) \/ Grow(p)
      <2>1. TypeInv' /\ Rested \subseteq Rested' /\ rebuilt' = rebuilt
            BY <1>2, ProcessTyped
      <2> QED BY <2>1 DEF Grows
<1>3. CASE NewDay
      <2>1. /\ files' = [f \in File |-> [files[f] EXCEPT !.recent = FALSE]]
            /\ UNCHANGED <<current, made, open, proc>> /\ rebuilt' = 0
            BY <1>3 DEF NewDay
      <2>2. \A f \in File : [files[f] EXCEPT !.recent = FALSE] \in Stores
            BY DEF TypeInv, Stores
      <2>3. files' \in [File -> Stores]
            BY <2>1, <2>2
      <2> QED BY <2>1, <2>3 DEF TypeInv, Rested, Grows
<1>4. CASE UNCHANGED vars
      BY <1>4 DEF vars, TypeInv, Rested, Grows
<1> QED BY <1>1, <1>2, <1>3, <1>4 DEF Next

CountInv == rebuilt <= Cardinality(Rested)

LEMMA RestedFinite ==
    ASSUME OpensFit PROVE IsFiniteSet(Rested) /\ Cardinality(Rested) \in 0 .. MaxOpens
<1>1. IsFiniteSet(Opening) /\ Cardinality(Opening) = MaxOpens
      BY FS_Interval DEF Opening, OpensFit
<1>2. Rested \subseteq Opening
      BY DEF Rested
<1>3. IsFiniteSet(Rested) /\ Cardinality(Rested) <= Cardinality(Opening)
      BY <1>1, <1>2, FS_Subset
<1>4. Cardinality(Rested) \in Nat
      BY <1>3, FS_CardinalityType
<1> QED BY <1>1, <1>3, <1>4 DEF OpensFit

LEMMA CountKept ==
    ASSUME OpensFit, NEW rested \in SUBSET Opening, NEW later \in SUBSET Opening, rested \subseteq later,
           NEW n \in Nat, NEW k \in Nat, n <= Cardinality(rested),
           k \in {n, 0} \/ (k = n + 1 /\ \E o \in Opening : o \in later \ rested)
    PROVE  k <= Cardinality(later)
<1>1. IsFiniteSet(Opening)
      BY FS_Interval DEF Opening, OpensFit
<1>2. IsFiniteSet(later) /\ IsFiniteSet(rested)
      BY <1>1, FS_Subset
<1>3. Cardinality(rested) <= Cardinality(later)
      BY <1>2, FS_Subset
<1>4. Cardinality(later) \in Nat /\ Cardinality(rested) \in Nat
      BY <1>2, FS_CardinalityType
<1>5. CASE k \in {n, 0}
      BY <1>3, <1>4, <1>5
<1>6. CASE k = n + 1 /\ \E o \in Opening : o \in later \ rested
      <2>1. rested # later
            BY <1>6
      <2>2. Cardinality(rested) < Cardinality(later)
            BY <1>2, <1>3, <1>4, <2>1, FS_Subset
      <2> QED BY <1>4, <1>6, <2>2
<1> QED BY <1>5, <1>6

\* Every variable keeps its type whatever happens to the processes: a rebuild ends
\* an opening, so no more rebuilds are counted than openings have come to rest.
THEOREM OpensTyped == OpensFit => (Spec => []TypeOK)
<1> SUFFICES ASSUME OpensFit PROVE Spec => []TypeOK
    OBVIOUS
<1> DEFINE Inv == TypeInv /\ CountInv
<1>1. Init => Inv
      <2> SUFFICES ASSUME Init PROVE Inv
          OBVIOUS
      <2>1. Fresh \in Stores /\ Unused \in Opens /\ Absent \in Procs
            BY DEF Fresh, Stores, Health, Unused, Opens, Ways, Ends, Absent, Procs, None, OpensFit
      <2>2. TypeInv
            BY <2>1 DEF Init, TypeInv, OpensFit, None, Unused
      <2>3. rebuilt = 0 /\ Cardinality(Rested) >= 0
            BY RestedFinite DEF Init
      <2> QED BY <2>2, <2>3 DEF CountInv
<1>2. Inv /\ [Next]_vars => Inv'
      <2> SUFFICES ASSUME Inv, [Next]_vars PROVE Inv'
          OBVIOUS
      <2>1. TypeInv' /\ Rested \subseteq Rested' /\ Grows
            BY NextTyped
      <2>2. Rested \in SUBSET Opening /\ Rested' \in SUBSET Opening
            BY DEF Rested
      <2>3. rebuilt \in Nat /\ rebuilt' \in Nat
            BY <2>1 DEF TypeInv
      <2>4. rebuilt' <= Cardinality(Rested')
            BY <2>1, <2>2, <2>3, CountKept DEF CountInv, Grows
      <2> QED BY <2>1, <2>4 DEF CountInv
<1>3. Inv => TypeOK
      <2> SUFFICES ASSUME Inv PROVE TypeOK
          OBVIOUS
      <2>1. rebuilt \in 0 .. MaxOpens
            BY RestedFinite DEF TypeInv, CountInv, OpensFit
      <2>2. open \in [Opening -> [pc : {"free", "mkdir", "quarantine", "reopen", "measure",
                                        "putaside", "remake", "open", "failed", "dead"},
                                  proc : Process \cup {"none"}, file : 0..MaxFiles,
                                  db : {"none", "open", "closed"}]]
            <3>1. Ways \cup Ends \cup {"free"} = {"free", "mkdir", "quarantine", "reopen", "measure",
                                                  "putaside", "remake", "open", "failed", "dead"}
                  BY DEF Ways, Ends
            <3> QED BY <3>1 DEF TypeInv, Opens
      <2> QED BY <2>1, <2>2 DEF TypeOK, TypeInv, Stores, Health, Procs
<1> QED BY <1>1, <1>2, <1>3, PTL DEF Spec
\* A process that runs an opening has no connection, and a connection is that of
\* the opening under way or of the store its process caches.
BusyHeld == \A o \in Opening : open[o].pc \in Ways =>
                proc[open[o].proc].alive /\ proc[open[o].proc].slot = o
OpenHeld == \A o \in Opening : open[o].db = "open" =>
                open[o].pc = "measure" \/ (open[o].pc = "open" /\ proc[open[o].proc].cached = o)
SlotHeld == \A p \in Process :
    /\ proc[p].slot # None => ~IsOpen(p)
    /\ proc[p].cached # None =>
          open[proc[p].cached].proc = p /\ open[proc[p].cached].pc \in {"open", "failed"}
    /\ ~proc[p].alive => proc[p].cached = None /\ proc[p].slot = None
SlotInv == BusyHeld /\ OpenHeld /\ SlotHeld

LEMMA CachedIs ==
    ASSUME OpensFit, TypeInv, NEW p \in Process, proc[p].cached # None
    PROVE  proc[p].cached \in Opening
<1>1. proc[p] \in Procs
      BY DEF TypeInv
<1> QED BY <1>1 DEF Procs, None, Opening, OpensFit

LEMMA OpenSlots ==
    ASSUME OpensFit, TypeInv, SlotInv, NEW o \in Opening, OpenNext(o) PROVE SlotInv'
<1> DEFINE p == open[o].proc
<1>0. /\ open[o].pc \in Ways /\ Moves(o) /\ GoesOn(o, open'[o]) /\ p \in Process /\ TypeInv'
      /\ proc[p].alive /\ proc[p].slot = o /\ o # None /\ ~IsOpen(p)
      /\ proc \in [Process -> Procs] /\ open'[o].proc = p
      /\ \A x \in Opening \ {o} : open'[x] = open[x]
      BY OpenMoves, OpenTyped DEF TypeInv, SlotInv, BusyHeld, SlotHeld, Ways, None, Opening, Moves
<1> HIDE DEF p
<1>1. ASSUME NEW x \in Opening \ {o}, open[x].pc \in Ways PROVE open[x].proc # p
      BY <1>0, <1>1 DEF SlotInv, BusyHeld
<1>2. ASSUME NEW q \in Process, proc[q].cached # None PROVE proc[q].cached \in Opening \ {o}
      BY <1>0, <1>2, CachedIs DEF SlotInv, SlotHeld, Ways
<1>3. open[o].db = "open" => open[o].pc = "measure"
      BY <1>0 DEF SlotInv, OpenHeld, Ways
<1>4. ASSUME proc' = proc, open'[o].pc \in Ways, open'[o].db = "open" => open'[o].pc = "measure"
      PROVE  SlotInv'
      <2>1. BusyHeld'
            BY <1>0, <1>4 DEF SlotInv, BusyHeld, p
      <2>2. OpenHeld'
            BY <1>0, <1>4 DEF SlotInv, OpenHeld
      <2>3. SlotHeld'
            BY <1>0, <1>2, <1>4 DEF SlotInv, SlotHeld, IsOpen
      <2> QED BY <2>1, <2>2, <2>3 DEF SlotInv
<1>5. /\ Settled(o) \in [Process -> Procs] /\ Settled(o)[p].slot = None
      /\ Settled(o)[p].cached = proc[p].cached /\ Settled(o)[p].alive
      /\ \A q \in Process \ {p} : Settled(o)[q] = proc[q]
      BY <1>0 DEF Settled, Procs, None, OpensFit, p
<1>6. /\ Cached(o)[p].slot = None /\ Cached(o)[p].cached = o /\ Cached(o)[p].alive
      /\ \A q \in Process \ {p} : Cached(o)[q] = proc[q]
      BY <1>0, <1>5 DEF Cached, Procs, p
<1>7. ASSUME open'[o].pc \in Ends, NEW x \in Opening, open'[x].pc \in Ways
      PROVE  proc[open'[x].proc].slot = x /\ proc[open'[x].proc].alive /\ open'[x].proc \in Process \ {p}
      <2>1. x # o
            BY <1>7 DEF Ways, Ends
      <2>2. open'[x] = open[x] /\ open[x].pc \in Ways
            BY <1>0, <1>7, <2>1
      <2>3. open[x].proc \in Process
            BY <2>2 DEF TypeInv, Ways
      <2> QED BY <1>1, <2>1, <2>2, <2>3 DEF SlotInv, BusyHeld
<1>8. CASE open'[o].pc = "failed" /\ open'[o].db = "none" /\ proc' = Settled(o)
      <2>1. BusyHeld'
            BY <1>5, <1>7, <1>8 DEF BusyHeld, Ends
      <2>2. OpenHeld'
            <3> SUFFICES ASSUME NEW x \in Opening, open'[x].db = "open", open'[x].pc # "measure"
                PROVE  open'[x].pc = "open" /\ proc'[open'[x].proc].cached = x
                BY DEF OpenHeld
            <3>1. x # o /\ open'[x] = open[x]
                  BY <1>0, <1>8
            <3>2. open[x].pc = "open" /\ proc[open[x].proc].cached = x /\ open[x].proc \in Process
                  BY <3>1 DEF SlotInv, OpenHeld, TypeInv
            <3> QED BY <1>5, <1>8, <3>1, <3>2
      <2>3. SlotHeld'
            <3> SUFFICES ASSUME NEW q \in Process
                PROVE  /\ proc'[q].slot # None => ~IsOpen(q)'
                       /\ proc'[q].cached # None =>
                              /\ open'[proc'[q].cached].proc = q
                              /\ open'[proc'[q].cached].pc \in {"open", "failed"}
                       /\ ~proc'[q].alive => proc'[q].cached = None /\ proc'[q].slot = None
                BY DEF SlotHeld
            <3>1. proc'[q].cached = proc[q].cached /\ (proc'[q].slot # None => proc'[q] = proc[q])
                  BY <1>5, <1>8
            <3>2. proc[q].cached # None => open'[proc[q].cached] = open[proc[q].cached]
                  BY <1>0, <1>2
            <3>3. ~proc'[q].alive => proc'[q] = proc[q]
                  BY <1>5, <1>8
            <3> QED BY <3>1, <3>2, <3>3 DEF SlotInv, SlotHeld, IsOpen
      <2> QED BY <2>1, <2>2, <2>3 DEF SlotInv
<1>9. CASE proc' = Cached(o) /\ (open'[o].pc = "open" \/ (open'[o].pc = "failed" /\ open'[o].db # "open"))
      <2>1. BusyHeld'
            BY <1>6, <1>7, <1>9 DEF BusyHeld, Ends
      <2>2. OpenHeld'
            <3> SUFFICES ASSUME NEW x \in Opening, open'[x].db = "open", open'[x].pc # "measure"
                PROVE  open'[x].pc = "open" /\ proc'[open'[x].proc].cached = x
                BY DEF OpenHeld
            <3>1. CASE x = o
                  BY <1>0, <1>6, <1>9, <3>1
            <3>2. CASE x # o
                  <4>1. open'[x] = open[x] /\ open[x].pc = "open" /\ proc[open[x].proc].cached = x
                        /\ open[x].proc \in Process
                        BY <1>0, <3>2 DEF SlotInv, OpenHeld, TypeInv
                  <4>2. open[x].proc # p
                        <5>1. x # None
                              BY DEF Opening, None
                        <5> QED BY <1>0, <4>1, <5>1 DEF IsOpen
                  <4> QED BY <1>6, <1>9, <4>1, <4>2
            <3> QED BY <3>1, <3>2
      <2>3. SlotHeld'
            <3> SUFFICES ASSUME NEW q \in Process
                PROVE  /\ proc'[q].slot # None => ~IsOpen(q)'
                       /\ proc'[q].cached # None =>
                              /\ open'[proc'[q].cached].proc = q
                              /\ open'[proc'[q].cached].pc \in {"open", "failed"}
                       /\ ~proc'[q].alive => proc'[q].cached = None /\ proc'[q].slot = None
                BY DEF SlotHeld
            <3>1. CASE q = p
                  BY <1>0, <1>6, <1>9, <3>1
            <3>2. CASE q # p
                  <4>1. proc'[q] = proc[q]
                        BY <1>6, <1>9, <3>2
                  <4>2. proc[q].cached # None => open'[proc[q].cached] = open[proc[q].cached]
                        BY <1>0, <1>2
                  <4> QED BY <4>1, <4>2 DEF SlotInv, SlotHeld, IsOpen
            <3> QED BY <3>1, <3>2
      <2> QED BY <2>1, <2>2, <2>3 DEF SlotInv
<1>10. CASE open'[o].pc \in Ways
      <2>1. proc' = proc /\ (open'[o].db = "open" => open'[o].pc = "measure")
            BY <1>0, <1>3, <1>10 DEF GoesOn, Ways
      <2> QED BY <1>4, <1>10, <2>1
<1> QED BY <1>0, <1>3, <1>8, <1>9, <1>10 DEF GoesOn, Ways
LEMMA BuriedIs ==
    ASSUME TypeInv, NEW p \in Process, open' = Buried(p, open), NEW o \in Opening
    PROVE  /\ open[o].proc # p \/ open[o].pc = "free" => open'[o] = open[o]
           /\ open[o].proc = p /\ open[o].pc # "free" =>
                  open'[o].pc = "dead" /\ open'[o].db = "closed" /\ open'[o].proc = p
<1>1. open[o] \in Opens
      BY DEF TypeInv
<1>2. open'[o] = IF open[o].proc = p /\ open[o].pc # "free"
                 THEN [open[o] EXCEPT !.pc = "dead", !.db = "closed"] ELSE open[o]
      BY DEF Buried
<1> QED BY <1>1, <1>2 DEF Opens

LEMMA ProcessSlots ==
    ASSUME OpensFit, TypeInv, SlotInv, NEW p \in Process,
           Load(p) \/ Exit(p) \/ Crash(p) \/ Spawn(p) \/ Grow(p)
    PROVE  SlotInv'
<1>0. /\ open \in [Opening -> Opens] /\ proc \in [Process -> Procs]
      /\ \A o \in Opening : open[o].pc = "free" => open[o].db = "none"
      /\ \A o \in Opening : open[o].pc # "free" => open[o].proc \in Process
      /\ BusyHeld /\ OpenHeld /\ SlotHeld
      BY DEF TypeInv, SlotInv
<1>1. ASSUME NEW q \in Process, proc[q].cached # None
      PROVE  proc[q].cached \in Opening
      BY <1>1, CachedIs
<1>2. CASE Load(p)
      <2>1. PICK o \in Opening :
                /\ open[o].pc = "free"
                /\ open' = [open EXCEPT ![o] = [Unused EXCEPT !.pc = "mkdir", !.proc = p]]
                /\ proc' = [proc EXCEPT ![p].slot = o, ![p].down = FALSE]
            BY <1>2 DEF Load
      <2>2. proc[p].alive /\ ~IsOpen(p) /\ proc[p].slot = None /\ o # None
            BY <1>2 DEF Load, MustOpen, Opening, None
      <2>3. /\ open'[o].pc = "mkdir" /\ open'[o].proc = p /\ open'[o].db = "none"
            /\ \A x \in Opening \ {o} : open'[x] = open[x]
            BY <1>0, <2>1 DEF Unused
      <2>4. /\ proc'[p].slot = o /\ proc'[p].cached = proc[p].cached /\ proc'[p].alive
            /\ \A q \in Process \ {p} : proc'[q] = proc[q]
            BY <1>0, <2>1, <2>2 DEF Procs
      <2>5. ASSUME NEW q \in Process, proc[q].cached # None
            PROVE  proc[q].cached # o /\ open'[proc[q].cached] = open[proc[q].cached]
            BY <1>0, <1>1, <2>1, <2>3, <2>5 DEF SlotHeld
      <2>6. BusyHeld'
            <3> SUFFICES ASSUME NEW x \in Opening, open'[x].pc \in Ways
                PROVE  proc'[open'[x].proc].alive /\ proc'[open'[x].proc].slot = x
                BY DEF BusyHeld
            <3>1. CASE x = o
                  BY <2>3, <2>4, <3>1
            <3>2. CASE x # o
                  <4>1. open'[x] = open[x] /\ open[x].proc \in Process /\ x # None
                        BY <1>0, <2>3, <3>2 DEF Ways, Opening, None
                  <4>2. open[x].proc # p
                        BY <1>0, <2>2, <4>1 DEF BusyHeld
                  <4> QED BY <1>0, <2>4, <4>1, <4>2 DEF BusyHeld
            <3> QED BY <3>1, <3>2
      <2>7. OpenHeld'
            <3> SUFFICES ASSUME NEW x \in Opening, open'[x].db = "open", open'[x].pc # "measure"
                PROVE  open'[x].pc = "open" /\ proc'[open'[x].proc].cached = x
                BY DEF OpenHeld
            <3>1. x # o /\ open'[x] = open[x]
                  BY <2>3
            <3>2. open[x].pc = "open" /\ proc[open[x].proc].cached = x /\ open[x].proc \in Process
                  BY <1>0, <3>1 DEF OpenHeld
            <3> QED BY <2>4, <3>1, <3>2
      <2>8. SlotHeld'
            <3> SUFFICES ASSUME NEW q \in Process
                PROVE  /\ proc'[q].slot # None => ~IsOpen(q)'
                       /\ proc'[q].cached # None =>
                              /\ open'[proc'[q].cached].proc = q
                              /\ open'[proc'[q].cached].pc \in {"open", "failed"}
                       /\ ~proc'[q].alive => proc'[q].cached = None /\ proc'[q].slot = None
                BY DEF SlotHeld
            <3>1. proc'[q].cached = proc[q].cached /\ (q = p \/ proc'[q] = proc[q])
                  BY <2>4
            <3> QED BY <1>0, <2>2, <2>4, <2>5, <3>1 DEF SlotHeld, IsOpen
      <2> QED BY <2>6, <2>7, <2>8 DEF SlotInv
<1>3. CASE Exit(p) \/ Crash(p)
      <2>1. open' = Buried(p, open) /\ proc' = [proc EXCEPT ![p] = [Absent EXCEPT !.alive = FALSE]]
            BY <1>3 DEF Exit, Crash
      <2>2. /\ proc'[p].cached = None /\ proc'[p].slot = None
            /\ \A q \in Process \ {p} : proc'[q] = proc[q]
            BY <1>0, <2>1 DEF Absent
      <2>3. ASSUME NEW x \in Opening, open'[x].pc \in Ways \/ open'[x].db = "open"
            PROVE  open[x].proc \in Process \ {p} /\ open'[x] = open[x]
            BY <1>0, <2>1, <2>3, BuriedIs DEF Ways
      <2>4. ASSUME NEW q \in Process \ {p}, proc[q].cached # None
            PROVE  open'[proc[q].cached] = open[proc[q].cached]
            BY <1>0, <1>1, <2>1, <2>4, BuriedIs DEF SlotHeld
      <2>5. BusyHeld'
            BY <1>0, <2>2, <2>3 DEF BusyHeld
      <2>6. OpenHeld'
            BY <1>0, <2>2, <2>3 DEF OpenHeld
      <2>7. SlotHeld'
            BY <1>0, <2>2, <2>4 DEF SlotHeld, IsOpen
      <2> QED BY <2>5, <2>6, <2>7 DEF SlotInv
<1>4. CASE Spawn(p)
      <2>1. ~proc[p].alive /\ proc' = [proc EXCEPT ![p] = Absent] /\ open' = open
            BY <1>4 DEF Spawn
      <2>2. /\ proc'[p].cached = None /\ proc'[p].slot = None /\ proc[p].cached = None
            /\ \A q \in Process \ {p} : proc'[q] = proc[q]
            BY <1>0, <2>1 DEF Absent, SlotHeld
      <2>3. BusyHeld'
            BY <1>0, <2>1, <2>2 DEF BusyHeld, Ways
      <2>4. OpenHeld'
            <3> SUFFICES ASSUME NEW x \in Opening, open[x].db = "open", open[x].pc = "open",
                                proc[open[x].proc].cached = x
                PROVE  proc'[open[x].proc].cached = x
                BY <1>0, <2>1 DEF OpenHeld
            <3>1. open[x].proc \in Process /\ x # None
                  BY <1>0 DEF Opening, None
            <3> QED BY <2>2, <3>1
      <2>5. SlotHeld'
            BY <1>0, <2>1, <2>2 DEF SlotHeld, IsOpen
      <2> QED BY <2>3, <2>4, <2>5 DEF SlotInv
<1>5. CASE Grow(p)
      BY <1>5 DEF Grow, SlotInv, BusyHeld, OpenHeld, SlotHeld, IsOpen
<1> QED BY <1>2, <1>3, <1>4, <1>5

LEMMA NextSlots ==
    ASSUME OpensFit, "shutdown" \notin Event, TypeInv, SlotInv, [Next]_vars PROVE SlotInv'
<1>1. CASE \E o \in Opening : OpenNext(o)
      BY <1>1, OpenSlots
<1>2. CASE \E p \in Process : Load(p) \/ Exit(p) \/ Crash(p) \/ Spawn(p) \/ Grow(p)
      BY <1>2, ProcessSlots
<1>3. CASE NewDay \/ UNCHANGED vars
      BY <1>3 DEF NewDay, vars, SlotInv, BusyHeld, OpenHeld, SlotHeld, IsOpen
<1>4. ~ \E p \in Process : Shutdown(p)
      BY DEF Shutdown
<1> QED BY <1>1, <1>2, <1>3, <1>4 DEF Next

LEMMA InitHeld == ASSUME OpensFit, Init PROVE TypeInv /\ SlotInv
<1>1. Fresh \in Stores /\ Unused \in Opens /\ Absent \in Procs
      BY DEF Fresh, Stores, Health, Unused, Opens, Ways, Ends, Absent, Procs, None, OpensFit
<1>2. TypeInv
      BY <1>1 DEF Init, TypeInv, OpensFit, None, Unused
<1>3. /\ \A o \in Opening : open[o].pc = "free" /\ open[o].db = "none"
      /\ \A p \in Process : proc[p].slot = None /\ proc[p].cached = None
      BY DEF Init, Unused, Absent
<1> QED BY <1>2, <1>3 DEF SlotInv, BusyHeld, OpenHeld, SlotHeld, Ways

\* "One open store per store path": while no shutdown forgets the openings under way,
\* a process never has two connections, however its callers, its deaths and the other
\* processes interleave.  The opening a process waits for keeps its slot, and its
\* connection is closed before another is opened.
THEOREM OneStoreOpen == OpensFit /\ "shutdown" \notin Event => (Spec => []OneOpenPerPath)
<1> SUFFICES ASSUME OpensFit, "shutdown" \notin Event PROVE Spec => []OneOpenPerPath
    OBVIOUS
<1> DEFINE Inv == TypeInv /\ SlotInv
<1>1. Init => Inv
      BY InitHeld
<1>2. Inv /\ [Next]_vars => Inv'
      BY NextTyped, NextSlots
<1>3. Inv => OneOpenPerPath
      <2> SUFFICES ASSUME Inv, NEW p \in Process PROVE Cardinality(Connected(p)) <= 1
          BY DEF OneOpenPerPath
      <2>1. ASSUME NEW x \in Connected(p), NEW y \in Connected(p) PROVE x = y
            <3>1. ASSUME NEW z \in Connected(p)
                  PROVE  /\ z \in Opening /\ z # None
                         /\ open[z].pc = "measure" => proc[p].slot = z /\ ~IsOpen(p)
                         /\ open[z].pc # "measure" => proc[p].cached = z /\ IsOpen(p)
                  <4>1. /\ z \in Opening /\ z # None /\ open[z].proc = p /\ open[z].db = "open"
                        BY DEF Connected, Opening, None
                  <4> QED BY <4>1 DEF SlotInv, BusyHeld, OpenHeld, SlotHeld, Ways, IsOpen
            <3> QED BY <3>1
      <2>2. CASE Connected(p) = {}
            BY <2>2, FS_EmptySet
      <2>3. ASSUME NEW x \in Connected(p) PROVE Cardinality(Connected(p)) <= 1
            <3>1. Connected(p) = {x}
                  BY <2>1
            <3>2. Cardinality({x}) = 1
                  BY FS_Singleton
            <3> QED BY ONLY <3>1, <3>2
      <2> QED BY <2>2, <2>3
<1> QED BY <1>1, <1>2, <1>3, PTL DEF Spec
\* The file behind the connection of the only process, and what the meta tables say.
ServedWell == \A o \in Opening :
    /\ open[o].db = "open" => /\ current # None /\ open[o].file = current
                              /\ ~files[current].marker /\ files[current].health = "ok"
    /\ open[o].pc = "measure" => open[o].db = "open"
    /\ open[o].pc \in {"putaside", "remake"} => rebuilt = 0
    /\ open[o].pc \in {"remake", "reopen"} => current = None
MarkedWell == \A f \in File : files[f].marker => files[f].health = "ok"
DatedWell == rebuilt \in {0, 1} /\ (rebuilt = 1 => current # None /\ files[current].recent)
FileInv == ServedWell /\ MarkedWell /\ DatedWell
Alone == \A p, q \in Process : p = q

LEMMA OneAtATime ==
    ASSUME OpensFit, Alone, TypeInv, SlotInv, NEW o \in Opening, open[o].pc \in Ways,
           NEW x \in Opening \ {o}
    PROVE  open[x].pc \notin Ways /\ open[x].db # "open"
<1>1. /\ open[o].proc \in Process /\ proc[open[o].proc].slot = o /\ o # None /\ x # None
      /\ ~IsOpen(open[o].proc)
      BY DEF TypeInv, SlotInv, BusyHeld, SlotHeld, Ways, Opening, None
<1>2. open[x].pc # "free" => open[x].proc = open[o].proc
      BY <1>1 DEF Alone, TypeInv
<1>3. open[x].db = "open" => open[x].pc # "free"
      BY DEF TypeInv
<1>4. open[x].pc \notin Ways
      BY <1>1, <1>2 DEF SlotInv, BusyHeld, Ways
<1>5. open[x].db = "open" => open[x].pc = "open" /\ proc[open[x].proc].cached = x
      BY <1>4 DEF SlotInv, OpenHeld, Ways
<1> QED BY <1>1, <1>2, <1>3, <1>4, <1>5 DEF IsOpen

\* The opening under way is the only one the files matter to.
LEMMA OpenFiles ==
    ASSUME OpensFit, Alone, TypeInv, SlotInv, NEW o \in Opening, OpenNext(o),
           open'[o].db = "open" =>
              /\ current' # None /\ open'[o].file = current'
              /\ ~files'[current'].marker /\ files'[current'].health = "ok",
           open'[o].pc = "measure" => open'[o].db = "open",
           open'[o].pc \in {"putaside", "remake"} => rebuilt' = 0,
           open'[o].pc \in {"remake", "reopen"} => current' = None,
           MarkedWell', DatedWell'
    PROVE  FileInv'
<1>1. open[o].pc \in Ways /\ \A x \in Opening \ {o} : open'[x] = open[x]
      BY OpenMoves DEF Moves
<1>2. \A x \in Opening \ {o} : open'[x].pc \notin Ways /\ open'[x].db # "open"
      BY <1>1, OneAtATime
<1>3. ServedWell'
      BY <1>2 DEF ServedWell, Ways
<1> QED BY <1>3 DEF FileInv

LEMMA OpenServes ==
    ASSUME OpensFit, Alone, TypeInv, SlotInv, FileInv, NEW o \in Opening, OpenNext(o)
    PROVE  FileInv'
<1>0. /\ files \in [File -> Stores] /\ current \in 0 .. made /\ made \in 0 .. MaxFiles
      /\ open \in [Opening -> Opens] /\ open[o] \in Opens /\ MaxFiles \in Nat /\ rebuilt \in Nat
      /\ (current # None => current \in File) /\ open[o].pc \in Ways
      /\ (open[o].db = "open" => open[o].pc = "measure")
      BY OpenMoves DEF TypeInv, OpensFit, File, None, SlotInv, OpenHeld, Ways
<1>1. /\ MarkedWell /\ DatedWell /\ (open[o].pc \in {"remake", "reopen"} => current = None)
      /\ (open[o].pc \in {"putaside", "remake"} => rebuilt = 0)
      /\ (open[o].pc = "measure" => /\ open[o].db = "open" /\ current # None /\ open[o].file = current
                                    /\ ~files[current].marker /\ files[current].health = "ok")
      BY DEF FileInv, ServedWell
<1>2. ASSUME NEW f \in File, NEW pc \in {"measure", "open"},
             open' = [open EXCEPT ![o].pc = pc, ![o].file = f, ![o].db = "open"]
      PROVE  open'[o].pc = pc /\ open'[o].file = f /\ open'[o].db = "open"
      <2>1. pc \in Ways \cup Ends
            BY DEF Ways, Ends
      <2>2. open \in [Opening -> Opens] /\ MaxFiles \in Nat
            BY <1>0
      <2> QED BY <1>2, <2>1, <2>2, TakesFile
<1>3. ASSUME open'[o].pc \notin {"measure", "putaside", "remake", "reopen"}, open'[o].db # "open",
             UNCHANGED <<files, current, rebuilt>>
      PROVE  FileInv'
      <2>1. MarkedWell' /\ DatedWell'
            BY <1>1, <1>3 DEF MarkedWell, DatedWell
      <2> QED BY <1>3, <2>1, OpenFiles
<1>4. CASE /\ open[o].pc \in {"mkdir", "reopen"} /\ current # None /\ files[current].health # "broken"
           /\ files' = [files EXCEPT ![current].marker = IF Checks(o) THEN FALSE ELSE @]
           /\ open' = IF ~Checks(o) \/ Trusted(current) \/ files[current].health = "ok"
                      THEN Taken(o, current)
                      ELSE [open EXCEPT ![o].pc = "quarantine", ![o].db = "closed"]
           /\ UNCHANGED <<current, made, proc, rebuilt>>
      <2>1. open[o].pc = "mkdir" /\ Checks(o) /\ current \in File
            BY <1>0, <1>1, <1>4 DEF Checks
      <2>2. files' = [files EXCEPT ![current].marker = FALSE]
            BY <1>4, <2>1
      <2>3. /\ files'[current].marker = FALSE /\ files'[current].health = files[current].health
            /\ files'[current].recent = files[current].recent
            /\ \A f \in File \ {current} : files'[f] = files[f]
            BY <1>0, <2>1, <2>2 DEF Stores
      <2>4. MarkedWell' /\ DatedWell'
            BY <1>1, <1>4, <2>1, <2>3 DEF MarkedWell, DatedWell
      <2>5. CASE Trusted(current) \/ files[current].health = "ok"
            <3>1. files[current].health = "ok"
                  BY <1>1, <2>1, <2>5 DEF Trusted, MarkedWell
            <3>2. open'[o].pc = "measure" /\ open'[o].file = current /\ open'[o].db = "open"
                  BY <1>2, <1>4, <2>1, <2>5 DEF Taken
            <3> QED BY <1>4, <2>3, <2>4, <3>1, <3>2, OpenFiles
      <2>6. CASE ~(Trusted(current) \/ files[current].health = "ok")
            <3>1. open'[o].pc = "quarantine" /\ open'[o].db = "closed"
                  BY <1>0, <1>4, <2>1, <2>6 DEF Opens
            <3> QED BY <2>4, <3>1, OpenFiles
      <2> QED BY <2>5, <2>6
<1>5. CASE /\ open[o].pc \in {"mkdir", "reopen"} /\ current = None /\ made < MaxFiles
           /\ made' = made + 1 /\ current' = made + 1
           /\ files' = [files EXCEPT ![made + 1] = Fresh]
           /\ open' = Taken(o, made + 1)
           /\ UNCHANGED <<proc, rebuilt>>
      <2>1. made + 1 \in File /\ made + 1 # None
            BY <1>0, <1>5 DEF File, None
      <2>2. /\ files'[made + 1].health = "ok" /\ ~files'[made + 1].marker
            /\ \A f \in File \ {made + 1} : files'[f] = files[f]
            BY <1>0, <1>5, <2>1 DEF Fresh
      <2>3. MarkedWell' /\ DatedWell'
            BY <1>1, <1>5, <2>2 DEF MarkedWell, DatedWell
      <2>4. open'[o].pc = "measure" /\ open'[o].file = made + 1 /\ open'[o].db = "open"
            BY <1>2, <1>5, <2>1 DEF Taken
      <2> QED BY <1>5, <2>1, <2>2, <2>3, <2>4, OpenFiles
<1>6. CASE Rejects(o, "none") /\ UNCHANGED <<files, current, made, rebuilt>>
      <2>1. open'[o].pc = "failed" /\ open'[o].db = "none"
            BY <1>0, <1>6 DEF Opens, Rejects
      <2> QED BY <1>3, <1>6, <2>1
<1>7. CASE open[o].pc = "mkdir" /\ open' = [open EXCEPT ![o].pc = "quarantine"]
           /\ UNCHANGED <<files, current, made, proc, rebuilt>>
      <2>1. open'[o].pc = "quarantine" /\ open'[o].db # "open"
            BY <1>0, <1>7 DEF Opens
      <2> QED BY <1>3, <1>7, <2>1
<1>8. CASE Quarantine(o)
      <2>1. open[o].pc = "quarantine" /\ open' = [open EXCEPT ![o].pc = "reopen"]
            /\ current' = None /\ rebuilt' = 0 /\ files' = files
            BY <1>8 DEF Quarantine, OpensAgain
      <2>2. open'[o].pc = "reopen" /\ open'[o].db # "open"
            BY <1>0, <2>1 DEF Opens
      <2>3. MarkedWell' /\ DatedWell'
            BY <1>1, <2>1 DEF MarkedWell, DatedWell
      <2> QED BY <2>1, <2>2, <2>3, OpenFiles
<1>9. CASE Measure(o)
      <2>0. /\ open[o].db = "open" /\ current \in File /\ open[o].file = current
            /\ ~files[current].marker /\ files[current].health = "ok"
            /\ UNCHANGED <<current, rebuilt>> /\ current # None
            BY <1>0, <1>1, <1>9 DEF Measure
      <2>1. CASE /\ ~files[current].recent
                 /\ files' = [files EXCEPT ![current].marker = TRUE]
                 /\ open' = [open EXCEPT ![o].pc = "putaside", ![o].db = "closed"]
            <3>1. /\ files'[current].health = "ok" /\ files'[current].recent = files[current].recent
                  /\ \A f \in File \ {current} : files'[f] = files[f]
                  BY <1>0, <2>0, <2>1 DEF Stores
            <3>2. rebuilt = 0
                  BY <1>1, <2>1 DEF DatedWell
            <3>3. MarkedWell' /\ DatedWell'
                  BY <1>1, <2>0, <3>1, <3>2 DEF MarkedWell, DatedWell
            <3>4. open'[o].pc = "putaside" /\ open'[o].db = "closed"
                  BY <1>0, <2>1 DEF Opens
            <3> QED BY <2>0, <3>2, <3>3, <3>4, OpenFiles
      <2>2. CASE /\ files' = [files EXCEPT ![current].huge = FALSE]
                 /\ open' = [open EXCEPT ![o].pc = "open"]
            <3>1. /\ files'[current].health = "ok" /\ files'[current].recent = files[current].recent
                  /\ ~files'[current].marker
                  /\ \A f \in File \ {current} : files'[f] = files[f]
                  BY <1>0, <2>0, <2>2 DEF Stores
            <3>2. MarkedWell' /\ DatedWell'
                  BY <1>1, <2>0, <3>1 DEF MarkedWell, DatedWell
            <3>3. open'[o].pc = "open" /\ open'[o].file = current
                  BY <1>0, <2>0, <2>2 DEF Opens
            <3> QED BY <2>0, <3>1, <3>2, <3>3, OpenFiles
      <2> QED BY <1>9, <2>0, <2>1, <2>2 DEF Measure, Throttled
<1>10. CASE PutAside(o)
      <2>1. open[o].pc = "putaside" /\ open' = [open EXCEPT ![o].pc = "remake"]
            /\ current' = None /\ rebuilt' = rebuilt /\ files' = files
            BY <1>10 DEF PutAside
      <2>2. open'[o].pc = "remake" /\ open'[o].db # "open" /\ rebuilt = 0
            BY <1>0, <1>1, <2>1 DEF Opens
      <2>3. MarkedWell' /\ DatedWell'
            BY <1>1, <2>1, <2>2 DEF MarkedWell, DatedWell
      <2> QED BY <2>1, <2>2, <2>3, OpenFiles
<1>11. CASE Remake(o)
      <2>0. open[o].pc = "remake" /\ current = None /\ rebuilt = 0 /\ open[o].db # "open"
            BY <1>0, <1>1, <1>11 DEF Remake
      <2>1. CASE /\ made < MaxFiles
                 /\ made' = made + 1 /\ current' = made + 1
                 /\ files' = [files EXCEPT ![made + 1] = [Fresh EXCEPT !.recent = TRUE]]
                 /\ open' = [open EXCEPT ![o].pc = "open", ![o].file = made + 1, ![o].db = "open"]
                 /\ rebuilt' = rebuilt + 1
            <3>1. made + 1 \in File /\ made + 1 # None
                  BY <1>0, <2>1 DEF File, None
            <3>2. /\ files'[made + 1].health = "ok" /\ ~files'[made + 1].marker /\ files'[made + 1].recent
                  /\ \A f \in File \ {made + 1} : files'[f] = files[f]
                  BY <1>0, <2>1, <3>1 DEF Fresh
            <3>3. MarkedWell' /\ DatedWell'
                  BY <1>1, <2>0, <2>1, <3>1, <3>2 DEF MarkedWell, DatedWell
            <3>4. open'[o].pc = "open" /\ open'[o].file = made + 1 /\ open'[o].db = "open"
                  BY <1>2, <2>1, <3>1
            <3> QED BY <2>1, <3>1, <3>2, <3>3, <3>4, OpenFiles
      <2>2. CASE open' = [open EXCEPT ![o].pc = "failed"] /\ UNCHANGED <<files, current, made, rebuilt>>
            <3>1. open'[o].pc = "failed" /\ open'[o].db # "open"
                  BY <1>0, <2>0, <2>2 DEF Opens
            <3> QED BY <1>3, <2>2, <3>1
      <2> QED BY <1>11, <2>0, <2>1, <2>2 DEF Remake
<1>12. Connect(o) /\ open[o].pc \in {"mkdir", "reopen"} /\ rebuilt' = rebuilt => FileInv'
      BY <1>4, <1>5, <1>6 DEF Connect
<1>13. OpenDb(o) => FileInv'
      BY <1>7, <1>12 DEF OpenDb
<1>14. Reopen(o) => FileInv'
      BY <1>6, <1>12 DEF Reopen
<1> QED BY <1>8, <1>9, <1>10, <1>11, <1>13, <1>14 DEF OpenNext

LEMMA ProcessServes ==
    ASSUME OpensFit, Alone, TypeInv, SlotInv, FileInv, NEW p \in Process,
           Load(p) \/ Exit(p) \/ Crash(p) \/ Spawn(p) \/ Grow(p)
    PROVE  FileInv'
<1>0. /\ files \in [File -> Stores] /\ open \in [Opening -> Opens] /\ proc \in [Process -> Procs]
      /\ \A o \in Opening : open[o].pc = "free" => open[o].db = "none"
      /\ \A o \in Opening : open[o].pc # "free" => open[o].proc = p
      /\ (current # None => current \in File) /\ UNCHANGED <<current, rebuilt>>
      <2>1. /\ files \in [File -> Stores] /\ open \in [Opening -> Opens] /\ proc \in [Process -> Procs]
            /\ \A o \in Opening : open[o].pc = "free" => open[o].db = "none"
            /\ \A o \in Opening : open[o].pc # "free" => open[o].proc = p
            BY DEF TypeInv, Alone
      <2>2. current # None => current \in File
            BY DEF TypeInv, File, None, OpensFit
      <2>3. UNCHANGED <<current, rebuilt>>
            BY DEF Load, Exit, Crash, Spawn, Grow
      <2> QED BY <2>1, <2>2, <2>3
<1>1. ServedWell /\ MarkedWell /\ DatedWell
      BY DEF FileInv
<1>2. IsOpen(p) => /\ current \in File /\ open[proc[p].cached].file = current
                   /\ ~files[current].marker /\ files[current].health = "ok"
      BY <1>0, <1>1, CachedIs DEF IsOpen, ServedWell
<1>3. ASSUME \A f \in File : files'[f].recent = files[f].recent PROVE DatedWell'
      BY <1>0, <1>1, <1>3 DEF DatedWell
<1>4. CASE Load(p)
      <2>1. PICK o \in Opening :
                open' = [open EXCEPT ![o] = [Unused EXCEPT !.pc = "mkdir", !.proc = p]]
            BY <1>4 DEF Load
      <2>2. /\ open'[o].pc = "mkdir" /\ open'[o].db = "none"
            /\ \A x \in Opening \ {o} : open'[x] = open[x] /\ files' = files
            BY <1>0, <1>4, <2>1 DEF Unused, Load
      <2>3. files' = files
            BY <1>4 DEF Load
      <2>4. ServedWell'
            BY <1>0, <1>1, <2>2, <2>3 DEF ServedWell
      <2>5. MarkedWell'
            BY <1>1, <2>3 DEF MarkedWell
      <2> QED BY <1>3, <2>3, <2>4, <2>5 DEF FileInv
<1>5. CASE Exit(p) \/ Crash(p)
      <2>1. open' = Buried(p, open)
            BY <1>5 DEF Exit, Crash
      <2>2. \A x \in Opening : open'[x].pc \in {"dead", "free"} /\ open'[x].db # "open"
            BY <1>0, <2>1, BuriedIs
      <2>3. ServedWell'
            BY <2>2 DEF ServedWell
      <2>4. ASSUME NEW f \in File
            PROVE  /\ files'[f].recent = files[f].recent
                   /\ files'[f].marker => files'[f].health = "ok"
            <3>0. files[f] \in Stores /\ (files[f].marker => files[f].health = "ok")
                  BY <1>0, <1>1 DEF MarkedWell
            <3>1. CASE Exit(p)
                  <4>1. CASE IsOpen(p)
                        <5>1. files' = [files EXCEPT ![current].marker = TRUE]
                              BY <1>2, <3>1, <4>1 DEF Exit
                        <5> QED BY <1>0, <1>2, <3>0, <4>1, <5>1 DEF Stores
                  <4>2. CASE ~IsOpen(p)
                        BY <3>0, <3>1, <4>2 DEF Exit
                  <4> QED BY <4>1, <4>2
            <3>2. CASE Crash(p)
                  <4>1. PICK h \in Health : files' = [g \in File |->
                            IF \E o \in Opening : open[o].proc = p /\ open[o].db = "open" /\ open[o].file = g
                            THEN [files[g] EXCEPT !.health = IF h = "ok" THEN @ ELSE h] ELSE files[g]]
                        BY <3>2 DEF Crash, Health
                  <4>2. CASE \E o \in Opening : open[o].proc = p /\ open[o].db = "open" /\ open[o].file = f
                        <5>1. f = current /\ ~files[f].marker
                              BY <1>1, <4>2 DEF ServedWell
                        <5>2. files'[f] = [files[f] EXCEPT !.health = IF h = "ok" THEN @ ELSE h]
                              BY <4>1, <4>2
                        <5> QED BY <3>0, <5>1, <5>2 DEF Stores
                  <4>3. CASE ~ \E o \in Opening : open[o].proc = p /\ open[o].db = "open" /\ open[o].file = f
                        BY <3>0, <4>1, <4>3
                  <4> QED BY <4>2, <4>3
            <3> QED BY <1>5, <3>1, <3>2
      <2> QED BY <1>3, <2>3, <2>4 DEF FileInv, MarkedWell
<1>6. CASE Spawn(p)
      BY <1>0, <1>1, <1>6 DEF Spawn, FileInv, ServedWell, MarkedWell, DatedWell
<1>7. CASE Grow(p)
      <2>1. /\ files' = [files EXCEPT ![current].huge = TRUE] /\ current \in File /\ open' = open
            BY <1>2, <1>7 DEF Grow
      <2>2. \A f \in File : /\ files'[f].recent = files[f].recent /\ files'[f].marker = files[f].marker
                            /\ files'[f].health = files[f].health
            BY <1>0, <2>1 DEF Stores
      <2>3. ServedWell'
            BY <1>0, <1>1, <2>1, <2>2 DEF ServedWell
      <2>4. MarkedWell'
            BY <1>1, <2>2 DEF MarkedWell
      <2> QED BY <1>3, <2>2, <2>3, <2>4 DEF FileInv
<1> QED BY <1>4, <1>5, <1>6, <1>7

LEMMA NextServes ==
    ASSUME OpensFit, "shutdown" \notin Event, Alone, TypeInv, SlotInv, FileInv, [Next]_vars PROVE FileInv'
<1>1. CASE \E o \in Opening : OpenNext(o)
      BY <1>1, OpenServes
<1>2. CASE \E p \in Process : Load(p) \/ Exit(p) \/ Crash(p) \/ Spawn(p) \/ Grow(p)
      BY <1>2, ProcessServes
<1>3. CASE NewDay
      <2>1. /\ files' = [f \in File |-> [files[f] EXCEPT !.recent = FALSE]]
            /\ UNCHANGED <<current, open>> /\ rebuilt' = 0
            BY <1>3 DEF NewDay
      <2>2. \A f \in File : files'[f].marker = files[f].marker /\ files'[f].health = files[f].health
            BY <2>1 DEF TypeInv, Stores
      <2>3. current # None => current \in File
            BY DEF TypeInv, File, None, OpensFit
      <2>4. ServedWell'
            BY <2>1, <2>2, <2>3 DEF FileInv, ServedWell
      <2>5. MarkedWell'
            BY <2>2 DEF FileInv, MarkedWell
      <2>6. DatedWell'
            BY <2>1 DEF DatedWell
      <2> QED BY <2>4, <2>5, <2>6 DEF FileInv
<1>4. CASE UNCHANGED vars
      BY <1>4 DEF vars, FileInv, ServedWell, MarkedWell, DatedWell
<1>5. ~ \E p \in Process : Shutdown(p)
      BY DEF Shutdown
<1> QED BY <1>1, <1>2, <1>3, <1>4, <1>5 DEF Next

LEMMA Served ==
    ASSUME OpensFit, "shutdown" \notin Event, Alone
    PROVE  Spec => [](TypeInv /\ SlotInv /\ FileInv)
<1>1. Init => TypeInv /\ SlotInv /\ FileInv
      <2> SUFFICES ASSUME Init PROVE TypeInv /\ SlotInv /\ FileInv
          OBVIOUS
      <2>1. FileInv
            BY DEF Init, FileInv, ServedWell, MarkedWell, DatedWell, Fresh, Unused
      <2> QED BY <2>1, InitHeld
<1>2. TypeInv /\ SlotInv /\ FileInv /\ [Next]_vars => (TypeInv /\ SlotInv /\ FileInv)'
      BY NextTyped, NextSlots, NextServes
<1> QED BY <1>1, <1>2, PTL DEF Spec

\* "The marker proves the previous process exited through shutdownDb": with one
\* process, an opening takes no file into use that a death had damaged, although it
\* leaves the integrity check to the marker.  The marker stands only on healthy files,
\* since it is used up before the file is open and a death damages open files alone.
THEOREM DamagePutAside ==
    OpensFit /\ "shutdown" \notin Event /\ Alone => (Spec => [][DamagedNotServed]_vars)
<1> SUFFICES ASSUME OpensFit, "shutdown" \notin Event, Alone PROVE Spec => [][DamagedNotServed]_vars
    OBVIOUS
<1>1. FileInv' => DamagedNotServed
      BY DEF FileInv, ServedWell, DamagedNotServed
<1>2. [Next]_vars /\ (TypeInv /\ SlotInv /\ FileInv)' => [DamagedNotServed]_vars
      BY <1>1
<1> QED BY <1>2, Served, PTL DEF Spec

\* "How often the open path is allowed to rebuild a single store": with one process, a
\* store is rebuilt once a day, whatever openings, deaths and quarantines come in
\* between.  A store rebuilt today says so in its meta table, an opening that rebuilds
\* has found it not to say so, and a file put aside as damaged takes the count with it.
THEOREM RebuiltOnce ==
    OpensFit /\ "shutdown" \notin Event /\ Alone => (Spec => []RebuildsApart)
<1> SUFFICES ASSUME OpensFit, "shutdown" \notin Event, Alone PROVE Spec => []RebuildsApart
    OBVIOUS
<1>1. FileInv => RebuildsApart
      BY DEF FileInv, DatedWell, RebuildsApart
<1> QED BY <1>1, Served, PTL
=============================================================================
