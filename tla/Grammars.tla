------------------------------ MODULE Grammars ------------------------------
\* The installed grammars of one language that does not ship with the plugin:
\* src/src/ast/registry.ts, the routes that install and uninstall it
\* (ast/install-route.ts, ast/fetch-grammar.ts) and the parse worker that loads it
\* (parserFor of ast/worker.ts).  A version's directory holds a grammar.wasm and an
\* install.json; each file is opened empty and filled later, and the requests, the
\* worker and a death come in between.
EXTENDS Naturals, FiniteSets

CONSTANTS Version,    \* of the grammar; the catalog pins one, a newer plugin may pin another
          Card,       \* the requests of the settings card that may be open at once
          Redo,       \* an install may be asked for where one is, or is under way
          MaxAsks, MaxLoads, MaxStarts   \* bounds

VARIABLES disk,     \* per version: its directory and the two files in it
          catalog,  \* the version this plugin installs
          work,     \* per request: how far it is
          load,     \* the worker's resolveGrammarAsset and load
          left      \* what may still happen

vars == <<disk, catalog, work, load, left>>

None == 0
Bare == [dir |-> FALSE, wasm |-> "none", meta |-> "none"]
Resting == [pc |-> "rest", todo |-> {}, answer |-> "none", parted |-> FALSE]
NotLoading == [pc |-> "rest", todo |-> {}, found |-> None, got |-> "none", alone |-> TRUE]

Init ==
    /\ disk = [v \in Version |-> Bare]
    /\ catalog \in Version
    /\ work = [r \in Card |-> Resting]
    /\ load = NotLoading
    /\ left = [asks |-> MaxAsks, loads |-> MaxLoads, starts |-> MaxStarts]

\* installedGrammars: a version counts when its install.json can be read.
Listed(v) == disk[v].meta = "whole"
Whole(v) == Listed(v) /\ disk[v].wasm = "whole"

At(r, pc) == work[r].pc = pc
Goes(r, pc) == work' = [work EXCEPT ![r].pc = pc]
Says(r, answer) == work' = [work EXCEPT ![r].pc = "told", ![r].answer = answer]
Installing(r) == work[r].pc \in {"fetch", "mkdir", "wasm", "fill", "meta", "note"}

\* The worker's load is no longer alone with the files.
Touched == load' = [load EXCEPT !.alone = @ /\ load.pc = "rest"]
Changes(v, d) == disk' = [disk EXCEPT ![v] = d] /\ Touched
-----------------------------------------------------------------------------
AskInstall(r) ==
    /\ At(r, "rest") /\ left.asks > 0
    /\ Redo \/ (~Listed(catalog) /\ \A q \in Card : ~Installing(q))
    /\ work' = [work EXCEPT ![r].pc = "fetch", ![r].parted = \E q \in Card : At(q, "remove")]
    /\ left' = [left EXCEPT !.asks = @ - 1]
    /\ UNCHANGED <<disk, catalog, load>>

\* The hash is checked before anything is written.
Fetch(r) ==
    /\ At(r, "fetch")
    /\ Goes(r, "mkdir") \/ Says(r, "refused")
    /\ UNCHANGED <<disk, catalog, load, left>>

MakeDir(r) ==
    /\ At(r, "mkdir")
    /\ Changes(catalog, [disk[catalog] EXCEPT !.dir = TRUE])
    /\ Goes(r, "wasm")
    /\ UNCHANGED <<catalog, left>>

\* An open truncates; it finds no directory when an uninstall has taken it.
Opens(r, d, next) ==
    /\ IF disk[catalog].dir
       THEN Changes(catalog, d) /\ Goes(r, next)
       ELSE UNCHANGED <<disk, load>> /\ Says(r, "failed")
    /\ UNCHANGED <<catalog, left>>

OpenWasm(r) == At(r, "wasm") /\ Opens(r, [disk[catalog] EXCEPT !.wasm = "part"], "fill")
OpenMeta(r) == At(r, "meta") /\ Opens(r, [disk[catalog] EXCEPT !.meta = "part"], "note")

\* What an uninstall unlinked meanwhile is written to nowhere.
Filled(content) == IF content = "part" THEN "whole" ELSE content
CannotWrite(r) == UNCHANGED <<disk, load>> /\ Says(r, "failed")

FillWasm(r) ==
    /\ At(r, "fill")
    /\ \/ Changes(catalog, [disk[catalog] EXCEPT !.wasm = Filled(@)]) /\ Goes(r, "meta")
       \/ CannotWrite(r)
    /\ UNCHANGED <<catalog, left>>

FillMeta(r) ==
    /\ At(r, "note")
    /\ \/ Changes(catalog, [disk[catalog] EXCEPT !.meta = Filled(@)]) /\ Says(r, "installed")
       \/ CannotWrite(r)
    /\ UNCHANGED <<catalog, left>>
-----------------------------------------------------------------------------
Files(v) == {<<v, "wasm">> : x \in {disk[v].wasm} \ {"none"}} \cup {<<v, "meta">> : x \in {disk[v].meta} \ {"none"}}
Dirs == {v \in Version : disk[v].dir}

\* The language's directory is looked for, then removed with what is in it now.
AskRemove(r) ==
    /\ At(r, "rest") /\ left.asks > 0
    /\ left' = [left EXCEPT !.asks = @ - 1]
    /\ work' = [q \in Card |->
          IF q # r THEN [work[q] EXCEPT !.parted = TRUE]
          ELSE IF Dirs = {} THEN [work[r] EXCEPT !.pc = "told", !.answer = "absent"]
          ELSE [work[r] EXCEPT !.pc = "remove",
                               !.todo = UNION {Files(v) : v \in Dirs} \cup {<<v, "dir">> : v \in Dirs}]]
    /\ UNCHANGED <<disk, catalog, load>>

\* Files in any order, a directory after its files; a file that came in later keeps it.
Remove(r) ==
    /\ At(r, "remove")
    /\ \E x \in work[r].todo :
          LET v == x[1] IN
          /\ x[2] = "dir" => \A y \in work[r].todo \ {x} : y[1] # v
          /\ IF x[2] = "dir" /\ Files(v) # {}
             THEN UNCHANGED <<disk, load>> /\ Says(r, "failed")
             ELSE /\ Changes(v, IF x[2] = "dir" THEN Bare ELSE [disk[v] EXCEPT ![x[2]] = "none"])
                  /\ work' = [work EXCEPT ![r].todo = @ \ {x}]
    /\ UNCHANGED <<catalog, left>>

Removed(r) ==
    /\ At(r, "remove") /\ work[r].todo = {}
    /\ Says(r, "removed")
    /\ UNCHANGED <<disk, catalog, load, left>>

Forget(r) ==
    /\ At(r, "told")
    /\ work' = [work EXCEPT ![r] = Resting]
    /\ UNCHANGED <<disk, catalog, load, left>>
-----------------------------------------------------------------------------
\* The versions as the directory lists them, in no order; the last readable one is taken.
List ==
    /\ load.pc = "rest" /\ left.loads > 0
    /\ left' = [left EXCEPT !.loads = @ - 1]
    /\ load' = [NotLoading EXCEPT !.pc = "list", !.todo = Dirs,
                                  !.alone = \A r \in Card : work[r].pc \in {"rest", "told", "fetch"}]
    /\ UNCHANGED <<disk, catalog, work>>

ReadMeta ==
    /\ load.pc = "list"
    /\ \E v \in load.todo :
          load' = [load EXCEPT !.todo = @ \ {v}, !.found = IF Listed(v) THEN v ELSE @]
    /\ UNCHANGED <<disk, catalog, work, left>>

\* An installed copy that is recorded and there; otherwise the packaged one.
Present(v) == v # None /\ disk[v].wasm # "none"
Stat ==
    /\ load.pc = "list" /\ load.todo = {}
    /\ load' = IF Present(load.found) THEN [load EXCEPT !.pc = "read"]
               ELSE [load EXCEPT !.pc = "got", !.got = "packaged"]
    /\ UNCHANGED <<disk, catalog, work, left>>

Load ==
    /\ load.pc = "read"
    /\ load' = [load EXCEPT !.pc = "got", !.got = disk[load.found].wasm]
    /\ UNCHANGED <<disk, catalog, work, left>>

\* The worker keeps a grammar it could load; it is asked again after a restart, or when
\* the load failed.
Again ==
    /\ load.pc = "got"
    /\ load' = NotLoading
    /\ UNCHANGED <<disk, catalog, work, left>>

\* The plugin dies and starts again, perhaps as a newer one.
Start ==
    /\ left.starts > 0
    /\ left' = [left EXCEPT !.starts = @ - 1]
    /\ catalog' \in {v \in Version : v >= catalog}
    /\ work' = [r \in Card |-> Resting]
    /\ load' = NotLoading
    /\ UNCHANGED disk

Next ==
    \/ \E r \in Card :
          \/ AskInstall(r) \/ Fetch(r) \/ MakeDir(r) \/ OpenWasm(r) \/ FillWasm(r) \/ OpenMeta(r) \/ FillMeta(r)
          \/ AskRemove(r) \/ Remove(r) \/ Removed(r) \/ Forget(r)
    \/ List \/ ReadMeta \/ Stat \/ Load \/ Again
    \/ Start

Spec == Init /\ [][Next]_vars
-----------------------------------------------------------------------------
TypeOK ==
    /\ \A v \in Version : disk[v].wasm \in {"none", "part", "whole"} /\ disk[v].meta \in {"none", "part", "whole"}
    /\ catalog \in Version /\ load.found \in Version \cup {None}
    /\ \A r \in Card : work[r].answer \in {"none", "installed", "removed", "refused", "failed", "absent"}

\* A half-finished install does not look like a working one: no readable install.json
\* stands beside a grammar that is still being written, whatever failed, died or was
\* uninstalled, with one install a version at a time and none over another.
HalfIsNotListed == \A v \in Version : Listed(v) => disk[v].wasm # "part"

\* An install that was answered as done is there, unless an uninstall was asked for.
DoneIsThere ==
    \A r \in Card : (At(r, "told") /\ work[r].answer = "installed" /\ ~work[r].parted) => Whole(catalog)

\* A load that runs beside no install and no uninstall gets a whole grammar, the installed
\* one where there is one.
LoadIsWhole == (load.pc = "got" /\ load.alone) => load.got \in {"whole", "packaged"}
=============================================================================
