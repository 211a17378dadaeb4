# Verification of the hashline edit tools

TLA+ models, TLC configurations and TLAPS proofs of this plugin: how `read` and
`edit` hand out line anchors, keep them through edits and refuse an edit of a
line the model was never shown; what is stored of that and how it survives
transactions, sweeps and deaths; what a call does to files and undo histories;
the helpers that run beside the tools, language servers, diagnostics and
the parse worker; and what tools and guidance an agent's model is offered.

Contents: 1 the system, 2 the modules, 3 the properties, 4 the runs and their
bounds, 5 fairness, 6 refinements, 7 the proofs, 8 where the code and its words
disagree, 9 what is not modelled, 10 the plan.

## 1. The system

The plugin replaces an agent's file tools. A tool shows lines with a short
*anchor* each; an edit names anchors instead of repeating text. The state that
makes this safe, and the state around it:

| state | where | what it says |
|---|---|---|
| `anchor_meta`, `anchor_lines` | SQLite, per path, shared by sessions | for which text the rows were written; per line number an anchor and a content key |
| `served` | SQLite, per session and path | which anchors the session was shown, each with the fingerprint of the line it named |
| `undo` | SQLite, per path | a stack of three texts with what they became |
| counts | SQLite, by triggers | rows and bytes per path, for the sweep |
| release pool | memory, per path | anchors dropped by edits, not to be minted again |
| `txnDepth` | memory, per store path | how deep transactions are nested |
| spills and sidecars | session directory | the rest of an answer, and where its reader stands |
| slots, sessions, ledger, worker | memory | language servers, the newest write per document, the parse worker and its requests |
| installed grammars | the configuration directory | per version a `grammar.wasm` and an `install.json` |
| settings snapshot, agent layers, rebuild chains | memory | the effective settings; per agent the tools and sections registered and the disposers kept |
| guidance overrides | the configuration directory, per preset | the text of each section |

All tools run in the plugin's one JavaScript thread; every `await` lets other
calls run. The database is synchronous, but calls that await between its
statements interleave there too. Other programs, other processes of the plugin
and language servers act at any moment. The database and the files survive a
process; the release pool, the ledger and the counters do not.

### Inventory

Sources are under `src/src/`. "Status" is how much of the component's operations
are actions or operators of a module.

| component | source | state it keeps | operations | what is hard | what makes it correct | status |
|---|---|---|---|---|---|---|
| anchor rows | `domain/session/anchor-state.ts`, `hashline/alloc.ts`, `hash-assign.ts`, `align-bounded.ts` | rows and meta | heal, realign, seed, shift, mint | repeated lines, an aligner that gives up, stale projections | rows describe the text they were written for; an anchor names one line | partly |
| entry primitives | `domain/session/anchor-entry.ts` | release pool | `anchorFor`, `probeLines`, `releaseLines`, `releaseAnchors` | three effects of one release, order of verdict and mint | a release is complete; the verdict compares the very binding served | partly |
| edit engine | `domain/edit/edit-engine.ts`, `range-conflicts.ts`, `served-rows.ts` | the call in progress | plan, probe, apply bottom up, batch commit, response mint, write | a refusal in mid-batch, external writes at any wait | edits land only on served lines; untouched lines keep their anchors | partly |
| anchor pipeline | `hashline/anchor-pipeline.ts` | none | resolve a bound in every spelling, swap reversed ranges, verify, echo, splice | two verdict sources; offsets at the text's end | a refusal shows usable anchors; lines outside the range stay | partly |
| served view | `domain/session/session-view.ts`, `served-codec.ts` | served record | record, reconcile | record after the write | what a response shows can be edited | partly |
| read | `domain/session/file-view.ts`, `read-window.ts`, `tools/tool-read.ts` | none | mint and serve a window, cut it, say how to go on | the file changes between pages | following the sentences shows all of the file | partly |
| streaming responses | `infra/response-stream.ts` | spills and cursors | create, take, expire | two readers of one token, a stale file | every row is given, none is passed over | partly |
| edit tool | `tools/tool-edit.ts`, `edit-response.ts` | no-op counters | group by file, commit, record | groups and sessions at once | an applied edit is in the file | partly |
| undo | `domain/edit/undo-edit.ts`, `tools/tool-undo.ts` | undo stack | push, pop, revert, clear when stale | crash between push and write, two undos | an undo restores what the edit replaced | partly |
| file commit | `domain/edit/mutation.ts`, `persistUndoAndWrite` | none | push all, write all, put back | partial failure | all or nothing over several files | partly |
| write tool | `tools/tool-write-shadow.ts`, `domain/write` | rows of the path | write, record | refused write | what is reported was written | partly |
| delete, rename | `domain/delete`, `domain/rename`, their tools | rows of the path | remove, move, purge, migrate | the step fails halfway | rows follow the file | modelled |
| patch | `domain/patch`, `tools/tool-apply-patch.ts` | settled operations | preflight, ordered commit, stop at failure | move then write | the report says what happened | partly |
| file bridge | `infra/fs-bridge.ts` | observations | intent, write, observe | the policy belongs to a host plugin | a guarded call overwrites nothing it has not read | partly |
| hash store | `domain/session/hash-store.ts`, `store-counts.ts`, `store-budget.ts` | the database | transactions, rows, sweep, open, rebuild, shutdown | awaited transactions, busy replay, processes, deaths | a call's writes commit together; counts are exact; one connection per store | modelled |
| format passes | `domain/format/*`, `lsp/format/text-edits.ts` | provenance | automatic and manual pass | a server's answer about another text, several hunks | the text is never torn; served rows name the formatted text | partly |
| language servers | `lsp/manager.ts`, `session.ts`, `framing.ts`, `discovery.ts` | slots, failures, idle timers, pending requests | start, request, back off, reclaim, rescan, dispose | dispose or rescan during a start, late answers, cut frames | every caller is answered; one server per language | partly |
| diagnostics | `lsp/auto-diag.ts`, `write-tracker.ts`, `sync.ts` | write ledger | inline report, background delivery | a newer write during any wait | a report's items are of the text it shows | modelled |
| syntax worker | `ast/client.ts`, `ast/worker.ts` | worker, pending requests, trees | spawn, request, retry, idle stop, recycle | terminate with requests pending | every request is answered; the trees fit the arena | modelled |
| syntax tools, grammars | `tools/tool-ast-*.ts`, `ast/registry.ts`, `install-route.ts`, `fetch-grammar.ts` | installed grammars | ast_edit; install, remove, load | an install beside a removal or a load | a half install is not listed | partly |
| search | `tools/tool-grep.ts`, `grep-rg.ts`, `grep-search.ts` | none | search, anchor, cut, resume | files change between rg, the rows and the resume | no hit is dropped; an anchor is served with the line shown | partly |
| rendering and cards | `render/*`, `client/*` | none | diff a change, cut it into blocks, number the rows | a search that gives up, twins, context between blocks | a block's header and numbers are its rows' | partly |
| configuration, contract, guidance | `index.ts`, `config.ts`, `infra/settings.ts`, `edit-rebuild.ts`, `contract.ts`, `guidance/*` | settings snapshot, rebuilders, override files | install an agent's tools, rebuild on a flip, dispose, seed and heal | a flip meets the install's or a rebuild's wait; a boot meets the user's save | one edit tool, that of the settings, with its section; the user's text stays | partly |

The 40 hazards of the code, each at its line, are in `PROJECT.json` with the
properties that would catch them going wrong.

## 2. Modules

One module per component. Composite MC modules put components that share no
state side by side, chosen by a variable `part`, so that a run checks several;
components that do share state (rows, served record, pool and file; stack and
disk; manager and sessions; ledger, documents and server) are one module.

### The core: `AnchorRows`, `AnchorStore`

`AnchorRows` is the pure layer: constants and operators, no variables. A file is
a sequence of texts, the rows a partial function from line numbers to
`[anchor, key]`; a primitive is an operator from a store `[text, rows]` to the
set of stores the code can leave.

| definition | code |
|---|---|
| `Alignments` | `alignPreservedBounded`: head and tail strips and a longest common subsequence; with `Blocked` the greedy block pairing, which may cross, or its giving up |
| `Heal`, `EnsureState`, `Ensured` | `ensureStateAt` |
| `Mints`, `AnchorFor` | `allocateInto`, `anchorForInTransaction` |
| `ProbeLine`, `ProbeLines`, `ProbeThrows` | `probeLines` |
| `Seed`, `NewPosition`, `HunkPairings`, `Transformed`, `UpdateAnchorsAfterEdit` | `updateAnchorsAfterEdit` |
| `Splice`, `DiffWindow` | `resToSpan` with `assemble`, `buildServedRowsFromDiff` |

`AnchorStore` EXTENDS it with the state machine of one file: `disk`, `store`,
`served`, `pool`, and `call`, the record of what each task is in the middle of.

    idle -> read -> idle                                        (read)
    idle -> open -> probe [-> mint] -> verify -> probe ...      (one round per item)
                 -> commit -> serve -> write -> record -> idle  (edit)

| action | code |
|---|---|
| `OpenRead`, `ServeRead` | the file's read; `fmtReadPreview`'s mint of the shown window |
| `OpenEdit`, `Plan` | the file's read; phases 1 and 2 of `runFileEdits` |
| `Probe`, `MintEcho` | `mintEchoWindow`: verdict first, then the window of a rejection |
| `Reject`, `Abort`, `Noop`, `Apply` | `applyOne` and the loop of phase 3 with its rejection handler and the seal of dropped anchors |
| `CommitBatch`, `ServeWindow` | the batch's transaction; `buildServedRowsFromDiff` |
| `Write`, `WriteFails`, `Record` | `writeWithRetry` in `persistUndoAndWrite`; `applyFileResultTo` |
| `Exhausted`, `ProbeFails` | the allocator's throw; the probe's TypeError on a row past the end |
| `External`, `Crash` | another program; the process ending |

Abstracted: a text is a model value and `Canon` its key (`"b"` and `"B"` share
one, as lines that differ in whitespace do); the checksum with the line count is
the text itself, collisions are left out; the allocator hands out any anchor
outside its avoid-set, of which every hash and probe order is an instance;
references are bare anchors; the write is unconditional, as in the code when no
plugin answers `fs/write-intent`. The comment "the release pool is discarded when
the call ends" is not what the code does outside tests (`clearReleasePool` has
no such caller): the pool of the model is emptied by a crash only.

### The store: `StoreTxn`, `AtomicStore`, `StoreRows`, `StoreOpen`

| module | state | actions and code |
|---|---|---|
| `AtomicStore` | `store`, `answer` | the promise: `Commit`, `Refuse`, `Die` |
| `StoreTxn` | `lock` (whose BEGIN IMMEDIATE is open), `depth` (`txnDepth`), `pending`, `durable`, per call its place and answer | `Begin`, `Join`, `Write`, `End`, `Fail`: `withStoreAsync` with `withStore` inside; `Busy`: `withBusyRetry`; `UndoWrite`: `undoPush` by `withTransaction`; `Crash` |
| `StoreRows` | the tables, their counts, one sweep or prune in progress, the writes since the last sweep, the clock | one action per statement group: `PushUndo`, `PopUndo`, `UpsertServed`, `PutAnchors`, `HealAnchors`, `RenamePath` ...; a sweep is `TtlStep`, `SlimStep`, `LruStep`, `ExtraStep`, `OrphanStep`, each statement a step of its own since `runSweep` opens no transaction; `Crash`, `Open` |
| `StoreOpen` | files with their damage, openings with their place, connections, processes, the rebuild's mark | `Load` ... `Remake` follow `loadHashStore` and `openStore` await by await; `Shutdown`, `Exit`, `Crash`, `Spawn` |

### Calls on files: `FileCalls`, `SharedFiles`, `Grammars`

| module | state | actions and code |
|---|---|---|
| `FileCalls` | `disk`, undo `stack`, what was last seen, one call with its plan, report and place | `Open`, `Observe`; `StartCommit`, `Push`, `Write`, `PutBack`, `Pop`: `persistUndoAndWrite`; `Add`, `Delete`, `Unlink`, `Purge`, `Move`, `Rename`, `Migrate`: `commitPatch` and the delete and rename tools; `ProbeLate`: a rename pair whose source an earlier pair creates; `UndoLast`, `Revert`, `Consume`: `tool-undo.ts`; `Foreign`, `Crash` |
| `SharedFiles` | the same disk and stacks, several calls at once, each with groups | `OpenEdit`, `OpenAst`, `OpenUndo`, then per group `Read`, `Match`, `Refuse`, `Noop`, `Push`, `Write`, `Pop`; `Load`, `Check`, `Revert`, `Consume`; `Answer`; `Observe`, `Foreign`. A text is the set of edits in it |
| `Grammars` | per version its two files, requests, the worker's load | `AskInstall`, `MakeDir`, `OpenWasm`, `FillWasm`, `OpenMeta`, `FillMeta`: `installGrammar`, a file opened empty and filled later; `AskRemove`, `Remove`; `List`, `ReadMeta`, `Stat`: `installedGrammars`; `Load`, `Fetch`: `parserFor`; `Start` after a death |

### Answers: `ReadPages`, `GrepScan`, `TextEdits`, `FormatPass`, `LspAnswers`

| module | state | actions and code |
|---|---|---|
| `ReadPages` | the text, the walk of a reader with its shown lines, tokens and spilled rows | `Read`, `GoOn`: `tool-read.ts` with its budget, limit and closing sentence; `Preview`: the write tool's; `Spill`, `Load`, `ReadRows`, `Advance`: `takeTextContinuation`'s three awaits; `Expire`, `Change` |
| `GrepScan` | file versions, rows by file, what was served, the scan, the answer, the spill | `Search`, `Work`: ripgrep's rows, identity, anchors, admission; `Resume`; `Vanish`, `Change`, `SearchFails`. A line that was cut, that could not be decoded or that is too large for the budget is shown as another text (`InPlaceOf`), which the spill keeps; a file that cannot be decoded as a whole is resumed without anchors (`Lossy`) |
| `TextEdits` | a document, hunks, served lines, ranges asked, edits answered, the result | `Ask`: `auto-format.ts`'s ranges; `Answer`: `applyTextEdits`, `lineMapFromTextEdits`, `composeProvenance`, `computeRowEligibility` |
| `FormatPass` | disk, the server's copy, rows, undo, settings, one call | `Edit`, `Write`, `Format`, then `Runs`: sync, `AskRange` one range after the other, `AskFull`, apply, write, undo entry, put back. A server offers each method for itself, and refuses each for itself (`RangeRefused`, `AskFull`): a refused range falls back to the whole document where the settings say so |
| `LspAnswers` | file versions, the server's copy and index, what was served, one call | `Ask`; `Read`: the file's read with the sync; `Loaded`, `Post`, `Reply`: the question, asked again while the answer is an import clause; `Verified`: diagnostics; `Skip`, `ReadGroup`, `Anchor`: `navigationValue` file by file; `MintOwn`, `Finish`; `Change`, `Index`, `OtherSync`, `Restart` |
| `ItemEdit` | the text with its characters, its lines and their anchors, the served record, the pool, one item with its outcome | `Read`, `Outside`; `Submit`: one item from `applyOne` down to `applyEdit` in `anchor-pipeline.ts`: parse, pin, order, probe and mint, resolve, verify, the declaration, prefix stripping, splice by characters |
| `DiffBlocks` | a text before and after, the lines its hunks replaced, what is shown | `Edit`: `genDiff` with `diffLinesBoundedResult`; `Overwrite`: the card's `computeHunkDiffs` |

`ItemEdit` looks inside the step that `AnchorStore` takes as a whole: there a
reference is a bare anchor and a line a model value; here a bound is an anchor with
or without a line beside it, or a number, and a line is a sequence of characters, so
that offsets, newlines, pasted markers and numbers can go wrong.

### What the model is offered: `Surfaces`

| module | state | actions and code |
|---|---|---|
| `Surfaces` | the profile and its undelivered events, the effective settings, `edit.md` and its seeders, per agent its layer, disposers, install and rebuild chain | `AgentStart` (`onAgentStart`, with all tool registrations before the first await), `InstallReads`, `InstallEdit`, `InstallPatch`, `Release`: `installAgentScopedTools`; `Change`, `Reapply`: `applyEffective`; `Rebuild` and its three further steps: the chain `reinstall`; `Dispose`; `List`, `Look`, `Open`, `Fill`: `ensurePresetGuidance`, a file opened empty and filled later; `Save`: the user |

### Helpers: `LspManager`, `LspServers`, `LspSession`, `LspFraming`, `LspDiscovery`, `AutoDiag`, `AstClient`, `AstCache`

| module | state | actions and code |
|---|---|---|
| `LspServers` | per language off, booting, serving or refused | the promise: `Boot`, `Serve`, `Refuse`, `Retire`, `Rescan`, `Close` |
| `LspManager` | slots, sessions and their processes, searches, callers | `Ask` (`decide`), `WaitFor`, `Poll`, `Request`, `Settle`; `SearchDone`, `Spawn`, `Initialized`, `InitializeFails`: `#start`; `ReapIdle`, `ShutDown`, `Exits`, `Rescan`, `Dispose`, `Disposal` |
| `LspSession` | pending requests, both pipes, the server's own questions, a project load, how the stream broke | `Initialize`, `Request`, `Deliver` with `Dispatch`, `Timeout`, `AwaitLoad`, `LoadOver`, `Stop`, `CloseAfterShutdown`; `DeliverUnframed`: a chunk whose push throws delivers none of its messages and fails all that is pending; a body that is no JSON is behind the reader then, a header that says no length stays at the buffer's head and the session is `Deaf`. The server reads, answers in any order or never, speaks, breaks a body or a header, exits |
| `LspFraming` | the stream, what arrived, the buffer, what came out | `Push`: `push` of `framing.ts`, by a chunk cut anywhere |
| `LspDiscovery` | the disk, the place looked at, what was found | `Look`, `Skip`: `discoverServers` asks the disk place by place; `Install` |
| `AutoDiag` | files and generations, the ledger, what the server was told, both wires, deliveries | a write is `Prepare`, `PreSync` (the formatter shows the server a draft), `Land` (the file) and `Note` (the ledger and the server), with any other step in between; then `Deliver`, `Ask`, `PullAnswered`, `PullFails`, `ProbeSeen`, `ProbeSettles`, `GiveUp`, `Collect`, `Observe`, `Inline`, `Inject`; the lsp tool's `Diagnose`, `ReadText`, `SyncRead`; a removal's `Unlink`, `Close`; the server's `Publish` |
| `AstClient` | the worker, threads, posted messages, pending requests, files to avoid, timers | `Call`, `Send`, `Resume`, `IdleFires`, `Dispose`; a thread's `Answer`, `Deliver`, `Exit`, `Dies` |
| `AstCache` | arena and trees, parsers, requests waiting for a grammar | `Ask`, `Loaded`, `LoadFails`: `treeFor`, `parserFor`, `evictTo` |

`MCAnchorStore`, `MCSharedFile`, `MCServers`, `MCStorage`, `MCTools`, `MCFormatBatch` and
`MCItemEdit` give the constants values; `MCTools` extends `FormatPass`, as `MCServers` does
`LspManager` and `MCStorage` does `StoreTxn`, so that TLC evaluates their assumptions;
`PlansAssumption` and `StoresAssumption` in `MCStorage` evaluate what the theorems about
`FileCalls` (`PlansFit`), `StoreRows` (`RowsFit`) and `StoreOpen` (`OpensFit`) assume on
its instances, and `ClientsAssumption` in `MCServers` what
those about `AstClient` assume (`CallersFit`). The theorems are in `AnchorStore_proofs`
(lemmas about the pure layer, types, single items, then batches and crashes),
`StoreTxn_proofs`, `StoreRows_proofs`, `StoreOpen_proofs`, `LspManager_proofs`,
`FormatPass_proofs`, `FileCalls_proofs` and `AstClient_proofs`. `LspFraming` (the reader's loop over its buffer)
and `DiffBlocks` (the split search) declare RECURSIVE operators; no module with a
theorem reaches them.

## 3. The properties

### Core (`AnchorStore`)

| property | kind | what it says |
|---|---|---|
| `TypeOK` | invariant | types of the five variables |
| `RowsDescribeText` | invariant | every row names a line of the text it was written for and carries its key |
| `UniqueAtRest` | invariant | no anchor names two lines between calls or when a call starts |
| `ReleaseIsComplete` | invariant | a dropped anchor is not live, not in the session's record and in the pool, to the end of the call |
| `BatchKeepsUntouched` | invariant | after a batch whose every item named lines of the planned text, a line outside every item's range, and its anchor, are where the ranges above moved them |
| `LandsWhereServed`, `BatchLandsWhereServed` | action | an applied item replaces only lines whose present content was served to its session, under that anchor, before the call |
| `ResponseIsUsable` | action | when a call ends, the probe has nothing against any line its response shows |

The run `shared_file` states them for its two parts: `SharedUnique` and
`SharedEditsLand` are `UniqueAtRest` and `LandsWhereServed` for two sessions,
`RoomyBatches` the three batch properties for two-item batches over four anchors.

`ReleaseIsComplete` and the two properties named for batches carry the condition
`inStep`: the plan read rows written for the planned text, no anchor on two of them.
Without it they fail. An aborted batch, a failed write or another program leaves
rows that are not the file's, and an edit planned on those seeds anchors that are on
other lines by then; until its response is served, or for good when it is aborted or
its process dies, an anchor is on two lines. Then one of the two bindings may be
dropped and the other stay live, and a probe may ask about the wrong one. The runs
`aborted_batch` and `repeated_anchor` are about that. `BatchKeepsUntouched` asks for
`placed` besides: every item's anchor named a line when the batch was planned. An item
whose anchor did not is not refused there; if the session's record still has that anchor
and an earlier item of the batch mints it for a line of the same content, the item
lands inside the lines the batch has just written. `LandsWhereServed` has no such
condition: for single items without deaths it needs none.

### Storage and files (`MCStorage`)

| property | parts | what it says |
|---|---|---|
| `TxnsHold` | alone | the nesting counter never outlives its BEGIN; a call's writes are all committed or none; a call answered "ok" is in the store |
| `TxnsAtomic` | alone | the transactions implement `AtomicStore` |
| `OpenedOnce` | one, joined | a process has one connection to a store at most and rebuilds it once a day at most; of overlapping calls one owns the transaction, and an owner that failed left nothing |
| `RowsConsistent` | counted, dying, swept | the triggers' counts are what counting the tables gives, also after deaths and foreign writes; stacks are bounded; rows without meta exist only midway |
| `StoreSteps` | alone, swept, one | an undo entry is refused only because of another process; a sweep ends with every metric in range or nothing left to evict, evicts the oldest first, and leaves each stack's newest layer; an opening uses no damaged file |
| `HistoriesHold` | plain, policed, groups | a history that only calls touched leads to the file's text |
| `FilesSteps` | plain, policed, moves, groups, sessions | a failed edit leaves texts and histories as they were; the report is true; a guarded call overwrites only what it read or wrote, but for a file it has moved (section 7); a revert puts back the text before the newest edit and uses up its entry alone; a rename call loses no file and no history, whatever its pairs' order and whichever fails; an edit leaves a file only by the undo that reverts it |
| `WorkEnds` | joined, dying, two, plain | whatever is begun ends |

### Helpers (`MCServers`)

| property | parts | what it says |
|---|---|---|
| `OneServer` | manager | at most one server of a language runs that is not on its way out |
| `KeepsPromise` | manager | the manager implements `LspServers`: a language in service, refused or off changes as the promise allows |
| `SessionsInOrder` | manager | no caller is handed a session that is shutting down; only the manager's disposal stops one that is answering |
| `FramesKept` | pipe | however the stream is cut, the whole messages come out, and nothing but messages before the first broken frame |
| `FoundAsSearched` | find, grammars | a server that was there when the search began, in a language the settings leave alone, is found, and none is that neither was there nor was installed since; no place that ranks before the one chosen (project, installed, PATH) held the server at the beginning, and the settings beat them all. A half-finished grammar is not listed, an installed one is there, a load beside no install is whole |
| `WorkerAccounted` | ast, shared, alone, crowd | no thread runs that the client forgot; the trees fit the budget; with requests one at a time the worker's count is exact |
| `ItemsOfText` | probed, pulled | a report's items were computed for the text its rows come from (pushed: up to a probe line of another delivery's; pulled: for that text and nothing more); at rest a server holds the newest text noted, and no probe line |
| `WorkedSafely` | talk, probed, pulled, slow, ast, shared, alone | a promise settles once; no request before `initialized` or after `exit`. A report is begun for the newest text noted, and the disk holds that text, unless a change of the disk is still to be noted or was noted in another order than it came (`Ahead`). A file is given up only after two aborts (with idle timers, recycling and dispose too); no answer comes from a worker whose parser aborted (one caller, whose worker nobody stops); a tree is built only if its worst case fits |
| `WaitsEnd` | manager, talk, slow, ast | there comes a time when nobody waits: the manager's starts (and with them a language that is booting, which `LspServers` promises an end of), its callers and, once it is disposed, its processes; a session's caller, whatever the server says or leaves out; the server, for the answer to its own question, unless it is gone or its stream broke; a report, with pulls that fail and waits cut short; a call of the worker, however often a thread aborts or dies under it |

### Answers (`MCTools`)

| property | parts | what it says |
|---|---|---|
| `ReadsTellTheTruth` | pages, reports, solo | "end of file" is said when all was shown; no page repeats another; no row of a report is passed over, whoever reads it |
| `ItemsLandAsAsked` | items | an item replaces only lines that were served as they are; what it writes is what was sent, lines outside its range stay where the delta says; an insertion keeps its line; the marker of a refusal is one the next edit is accepted with |
| `AnswersShowWhatTheyServe` | grep, lsp, diffs | a row is shown once or waits, within the budget, hits before context; a row that shows its line is shown under an anchor recorded with that text, and one that shows a preview or a pointer gets no anchor in a first answer. Of a server's answer no location is dropped or misplaced, a symbol stands beside its own line, and an import clause is no definition while there is time to ask again. A diff leads from the old text to the new one, its rows carry their lines' numbers, its headers its blocks' |
| `NothingLost` | grep, guided, boots | no hit is dropped between ripgrep and the answers; no seeding replaces a user's text that was there when it looked |
| `SurfacesFollow` | flips, guided | an agent has one edit tool from start to end; when nothing is under way its tools and their sections are those of the profile, once each |
| `EditsKeepOrigins` | lines, chars | the formatter is asked about the edit's lines; its edits go where they were meant; with edits of whole lines every untouched line is known for what it was and no unseen line gets an anchor |
| `FormatAccounted` | format | with either method refused before it has formatted anything, and writes and questions that fail: no text is made of an answer to another text; the report is what the file holds; one undo entry leads back over edit and format; the server's copy follows |
| `ToolsEnd` | pages, grep, format, lsp, flips | who follows the sentences or tokens comes to the end; a call that formats or asks a server ends; an agent's start is answered and its rebuilds end, disposed or not |

`PartsTypeOK` is the parts' type invariants. Each property has a mutant in
`PROJECT.json`: a plausible bug in a mapped definition that TLC must find.

## 4. Runs and bounds

All passing runs are exhaustive within their bounds. The runs of the core check
for deadlock and use symmetry on anchors; `servers`, `storage` and `tools` do
not check for deadlock, since their parts stop when their bounded calls are used
up (the properties of section 3 that end in "ends" say what must not stop).

| run | instance | shows |
|---|---|---|
| `one_edit` | 1 session, one item a call, 4 anchors, at most 3 lines; external writes, failing writes, every middle past the aligner's budget | the single-item properties |
| `batch` | 1 session, two items a call, 3 anchors, at most 4 lines; a crash between any two steps | the batch properties, with the pool lost and rows in any half-way state left behind |
| `shared_file` | `MCSharedFile`: 2 tasks of 2 sessions, one item, 3 anchors; or batches of two items on single lines, 4 anchors, no crash | an anchor minted again for other content does not deceive the other session; the batch properties where a call need not run out of anchors |
| `servers` | the twelve parts of `MCServers` | section 3, helpers |
| `storage` | the twelve parts of `MCStorage` | section 3, storage and files |
| `tools` | the thirteen parts of `MCTools` | section 3, answers |
| `repeated_anchor` | 1 session, one item, 5 anchors, five lines; another program's write and a crash | violation: edits are verified against what the model saw |
| `aborted_batch` | as `batch`, 4 anchors and no crash | violation: a refused batch wrote nothing |
| `reversed_batch` | three lines, 5 anchors, ranges may be bottom up | violation: edits are verified against what the model saw |
| `half_digit` | `MCItemEdit`: three lines, a range from an anchor to a number | violation: edits are verified against what the model saw |
| `format_batch` | `MCFormatBatch`: two hunks, then one whole line replaced by the formatter | violation: a line's origin is the line it was |
| `late_refusal` | `FormatPass`: two regions, one call, ranges that are refused after one was formatted | violation: an answer is applied to the text it is about |

Bounds of the core: `MaxItems` items a call, `MaxLine` lines an edit may leave,
the sets `Request`, `InitialText`, `ExternalText`. They give a repeated line
(insert `b` above `b`), a change of whitespace only (`B`), a file that grows and
one that shrinks under the rows, a range, a reversed range, a deletion, a no-op, a
mint with a free anchor and one with none. Two lines at the start keep an unread
line, a read line and an inserted line apart. `batch` has one anchor more than the file
has lines: whatever a batch drops is soon wanted again. With four of them and crashes
TLC does not end in minutes, so the spare anchor is a part of `shared_file`, without
crashes and ranges. `Reversals` is FALSE in `batch`:
with TRUE the property fails, and that is the run `reversed_batch`. `repeated_anchor`
needs five lines and as many anchors: the line the first edit replaces, the range's two
bounds, the foreign line between them, and the line whose anchor the stale seed gives it.

Bounds of `storage`: two processes; two calls and an undo entry in one of them,
one call in the other, bodies of two writes (`Parts`), so that one write can be
committed without the other; `BusyRetries = 1` gives a replay and a last refusal.
Rows: two paths, one session, three or so writes between sweeps (`SweepWrites`,
200 in the code), stacks of two. Openings: four openings and four files of one process,
so that a store can be rebuilt, die, be put aside as damaged and its successor be rebuilt
the same day; two openings and three files of two processes that share the path. Calls: two files, plans of two
operations, `MaxCalls` calls, `MaxFails` failures, one foreign write. Renames: three
paths, two pairs that may form a chain, two calls.

Bounds of `servers`: one language, one caller, two sessions and searches; two frames of
bodies up to four bytes; one server that may come to the project, to the plugin's installs
or to PATH, another that may come to PATH, at any moment of the search, and settings that
name the second one's language, one more, both or neither; a client with four calls of one task, or two calls of two with every way to stop the worker; a cache of nine nodes with
texts of 2 to 6, two slots; two versions of a grammar, three requests, one load and one
restart.

Of its other parts: one caller with two requests and two messages of the server's own
accord, so that a question and a broken frame meet in either order, in one chunk or
apart; two writes on one document with a server that pushes; two writes on one or two
documents with a server that is asked, and a ledger that may drop its oldest entries; one
write beside a call of the lsp tool, with a draft of the formatter, a removal of the file,
pulls that fail and waits cut short. These are not mixed: with a draft beside a second
write `ItemsOfText` fails, and with a call of the lsp tool beside two writes as well
(section 8).

Bounds of `tools`: texts of up to four lines with a long and a huge one; reports
of three and five rows in segments of two; two files of four rows, of which one is
ignored, one hit too long for the budget, one line cut and one that cannot be decoded; texts of up to five characters with any one
edit, an insertion and another, or two edits of whole lines; two regions, two calls of a
format pass in which the write or the server's answer may fail and either method may be
refused, with or without being offered. A server's answers: one
call, three files of which one has no local path, two versions each, three rows, one
anchored file and one repeated question, so that each cap is met. Surfaces: one agent,
whose settings change twice (`flips`: a flip during the install, one during the rebuild
it caused, one undone before its event comes), or once beside a seeding (`guided`); two
processes that seed one file beside the user (`boots`). Items: three lines with a
blank one, at the end closed or open, nine anchors, two reads or outside changes before
the item, references by anchor, with a right, a wrong and an impossible line beside
it, and by number; contents empty, blank, pasted with markers and with a newline inside.
Diffs: texts of up to four lines, closed or open, one hunk or two, contexts 0 and 1, a
search that reaches two changes and is split once.

Each bound is the smallest that lets every action happen; TLC's coverage shows
that every action and every disjunct fires.

## 5. Fairness

Weak fairness, and only of the program's own steps, never of another program, a
death, a failure, a refusal or a caller's wish.

- `StoreTxn`: a call's `Progress`. A body is a chain of microtasks; a busy call
  sleeps and is run again at most `BUSY_RETRIES` times, so it does not need the
  lock's holder to end.
- `StoreRows`: the job that runs. `runSweep` is synchronous; only a death stops it.
- `StoreOpen`: each opening's next await, all local file operations.
- `FileCalls`, `FormatPass`, `GrepScan`, `ReadPages` (`GoOn` is the reader, who
  follows the sentences; that is the premise of the property).
- `LspManager`: a search, a start (its handshake has a timeout, hence
  `Initialized \/ InitializeFails`), a caller's poll, a request (it has a timeout),
  a shutdown, which ends in a kill: a process that was killed exits.
- `LspSession`: the timers of requests and of the load wait, the reader of the
  pipe, and the server reading its stdin. The server's answers are not fair.
- `LspAnswers`: the call's steps. Requests have timeouts, waits budgets; the server's
  answer is one of the steps, its being rejected another.
- `Surfaces`: promises run on, local files are read, the host delivers its events.
- `AutoDiag`: a report's own steps, from the write's or the lsp tool's read on, which
  include its timeouts.
- `AstClient`: the caller's promise steps, and the thread's: a parse ends, posted
  messages are delivered, a terminated thread exits.

No strong fairness is assumed. Where two instances share variables the run takes
the fairness of the one whose liveness it checks. Liveness is stated for the parts
where it holds; `AstClient` under idle stop, recycle or dispose is not one of them
(section 8).

## 6. Refinements

- `StoreTxn` without overlapping calls implements `AtomicStore` (`TxnsAtomic`:
  `store` is `durable`, `answer` itself). `End` and `UndoWrite` are `Commit`, the
  last `Busy` and `Fail` are `Refuse`, `Crash` is `Die`, the rest stutters. Checked
  in `storage`, and proved for every value of the constants.
- `LspManager` implements `LspServers` (`KeepsPromise`): a slot is off, booting,
  serving or refused according to its phase, its session and the manager's
  disposal. Checked in `servers`, and proved for every value of the constants; that a
  boot ends, its other half, is part of `WaitsEnd` and checked with the fairness of section 5.

With `Overlap` TRUE the first fails: a call of the same process that runs in a
microtask between two awaits of another joins its transaction (section 8).

## 7. Proofs

| theorem | module | assumptions | property |
|---|---|---|---|
| `TypeCorrect` | `AnchorStore_proofs` | those of the modules | `TypeOK` |
| `RowsTruthful` | `AnchorStore_proofs` | `MaxItems = 1`, no crash | `RowsDescribeText` |
| `AnchorsUnambiguous` | `AnchorStore_proofs` | `MaxItems = 1`, no crash | `UniqueAtRest` |
| `EditsLand` | `AnchorStore_proofs` | `MaxItems = 1`, no crash | `LandsWhereServed` |
| `ResponsesUsable` | `AnchorStore_proofs` | one task | `ResponseIsUsable` |
| `ReleasesComplete` | `AnchorStore_proofs` | those of the modules | `ReleaseIsComplete` |
| `BatchesLand` | `AnchorStore_proofs` | `MaxItems` 1, or 2 with `~Reversals` | `BatchLandsWhereServed` |
| `TxnsSafe` | `StoreTxn_proofs` | `~Overlap` | `TxnsHold` |
| `TxnsImplementAtomicStore` | `StoreTxn_proofs` | `~Overlap` | `TxnsAtomic` |
| `RowsCounted` | `StoreRows_proofs` | `RowsFit` | `CountsExact`, `UndoBounded`, of `RowsConsistent` |
| `NoOrphansLeft` | `StoreRows_proofs` | `RowsFit`, no death | `OrphansOnlyMidway`, of `RowsConsistent` |
| `SweepsWithin`, `SweepsOldestFirst` | `StoreRows_proofs` | `RowsFit`, no other process | `SweepWithin`, `EvictsOldest`, of `StoreSteps` |
| `SlimKeepsNewest` | `StoreRows_proofs` | `RowsFit` | `NewestUndoStays`, of `StoreSteps` |
| `OneStoreOpen` | `StoreOpen_proofs` | `OpensFit`, no shutdown | `OneOpenPerPath`, of `OpenedOnce` |
| `RebuiltOnce` | `StoreOpen_proofs` | `OpensFit`, no shutdown, one process | `RebuildsApart`, of `OpenedOnce` |
| `DamagePutAside` | `StoreOpen_proofs` | `OpensFit`, no shutdown, one process | `DamagedNotServed`, of `StoreSteps` |
| `RowsTyped`, `OpensTyped` | `StoreRows_proofs`, `StoreOpen_proofs` | `RowsFit`, `OpensFit` | their parts of `PartsTypeOK` |
| `Managed`, `OneAtWork` | `LspManager_proofs` | those of the module | `OneServer` |
| `SessionsKept` | `LspManager_proofs` | those of the module | `SessionsInOrder` |
| `SlotsKeepPromise` | `LspManager_proofs` | those of the module | `KeepsPromise` |
| `PassInvariant`, `PassTyped` | `FormatPass_proofs` | a pass falls back only with nothing formatted | the format part of `PartsTypeOK` |
| `PassAccounted` | `FormatPass_proofs` | the same | `FormatAccounted` |
| `EarlyRefusalsAccounted` | `FormatPass_proofs` | no refusal after an answer | `FormatAccounted` |
| `HistoriesLead` | `FileCalls_proofs` | `PlansFit` | `HistoryHolds`, of `HistoriesHold` |
| `ClearsOnlyTouched` | `FileCalls_proofs` | `PlansFit` | `ClearedWhenTouched`, of `FilesSteps` |
| `UndosRevert` | `FileCalls_proofs` | `PlansFit` | `UndoReverts`, of `FilesSteps` |
| `FailedEditsUndone` | `FileCalls_proofs` | `PlansFit` | `FailedEditUndone`, of `FilesSteps` |
| `ReportsAreTrue` | `FileCalls_proofs` | `PlansFit` | `ReportIsTrue`, of `FilesSteps` |
| `RenamesKeepFiles` | `FileCalls_proofs` | `PlansFit`, finitely many paths | `MovesKeepFiles`, of `FilesSteps` |
| `WritesOverItsRead` | `FileCalls_proofs` | `PlansFit` | `OverwritesItsRead`, of `FilesSteps` |
| `CallsTyped` | `FileCalls_proofs` | `PlansFit` | the files' part of `PartsTypeOK` |
| `NoneForgotten` | `AstClient_proofs` | `CallersFit` | `NoStrayThread`, of `WorkerAccounted` |
| `GivenUpAfterTwo` | `AstClient_proofs` | `CallersFit` | `MarkedStep`, of `WorkedSafely` |
| `NoBrokenAnswers` | `AstClient_proofs` | `CallersFit`, one caller, no queries | `DeliveredSound`, of `WorkedSafely` |
| `ClientTyped` | `AstClient_proofs` | `CallersFit` | the client's part of `PartsTypeOK` |

"Those of the modules" are the named assumptions that TLC evaluates on the instances:
typing of the constants and, for a bound, that it is a number. The first seven hold
for every file, alphabet, request, number of tasks (`ResponsesUsable`: one) and sessions,
`Context` and `Blocked`, with external writes and failing writes; `TypeCorrect`,
`ResponsesUsable`, `ReleasesComplete` and `BatchesLand` with crashes too. Those of
`StoreTxn` hold for every number of processes, calls, writes a body makes and busy
retries, with bodies that throw and processes that die; those of `StoreRows` for every
set of paths, sessions and lines, every budget and stack size, and those of `StoreOpen`
for every number of processes (unless one is said), openings and files, each with deaths,
and the rows with another process's writes, where the table does not exclude them; those
of `LspManager` for
every set of languages, callers, sessions and searches; those of `FormatPass` for
every set of regions, number of calls, offers of the server and choice of what fails or is
refused; those of `FileCalls`
for every set of paths and of calls, lists of operations of any length, any number of
refused, torn and foreign writes, and a death at any place. `PlansFit` says what the
tools can be called with: a stack has room for one entry, an undo has one operation,
and each kind of call is made of its own (`Uses`). Those of `AstClient` hold for every set
of files, operations and triggers, every number of calls and every finite set of callers,
with threads that die at any moment (`CallersFit`: the recycler is none of the callers).

*Types.* `TypeInv` adds to `TypeOK` what each program counter implies about the
call's record (`CallOK`): a projection as long as the text, items left where an
item is expected. Without it the type of a spliced text is not inductive.

*Rows, uniqueness, edits* come from one inductive invariant, `OneItemInv`:

- the rows describe their text (`Describes`). Each primitive preserves it; the
  lemmas about `AnchorRows` follow the code's composition: heal, pairing,
  carry, shift, seed, overlay.
- every task is `Steady`: what its program counter promises about the rows and
  its record (`AtItem`, `AtEnd`, `AtProbe`, `AtVerdict`).
- one edit is in its chain (`Exclusive`), from `RunsAlone`.
- the rows are unambiguous unless some task is between its transform and its
  response's mint (`Repaired`).

`UniqueAtRest` is not inductive: stale seeding does repeat an anchor. What saves
it is that the response's window is never empty after a change (`WindowShows`), so
`ServeWindow` passes the heal. `EditsLand` needs uniqueness at the probe: only then
is the line of the row the probe found the line the projection names
(`SilenceVouches`); and it needs that nothing moves rows, record or projection
between plan and probe. After a crash between transform and mint the rows may
repeat an anchor, so `UniqueAtRest` and `LandsWhereServed` are false (the run
`repeated_anchor`); with batches an aborted call leaves rows ahead of the file: hence
the assumptions.

*Responses.* `ShownInv` holds for batches of any size and over rows no other invariant
speaks of: what a response shows, the rows name by that anchor and by no other line, and
the record holds its key, until the call ends (`ShownIsServed`). The mint for the window
provides both whatever the rows were before (`EnsureUnique`, `AnchorForNames`). One task,
because another session's read between the last record and the end may realign the rows.

*Releases* need neither assumption, since the property speaks of calls in step.
`ReleaseInv` says of such a call what each of its places owes:

- at an item its rows are written for its text and no anchor is on two of them, and its
  projection has an anchor only where there is a row, so the transform seeds nothing
  (`RowsAtWork`);
- from the first item to the end of the call what it dropped is not live and is in the
  pool (`DroppedGone`), and after its transaction not in the session's record
  (`DroppedUnserved`);
- while it has only its file left to write, no other call at an item holds one of those
  anchors in its projection (`HeldByNone`). This is the part that is easy to miss: rows and
  records are also written from projections, by seeding and by serving an echo, and these
  do not ask the pool. It holds because a projection is read from live rows, where
  the dropped anchors are not, and changed only by mints, which avoid the pool.

*Where the items of a batch land.* `LandInv` adds to it, for a call in step at an item:
the projection is that of the rows and the copy of the record, taken when the call
began, is the record but for what the call has dropped (`SeenAsServed`); a verdict was
asked about every line of the range (`Verdict`); and with another item to come only a
refusal mints (`MoreToCome`). The last is where two items and ranges top down
are needed. A range that is given bottom up asks about nothing and mints before it
is accepted (the run `reversed_batch`). With three items the second one's bound can be
an anchor the first dropped and a mint gave to a line further down, which turns a range
around that was top down at the plan; two items leave none to suffer from that.

*Servers.* `OneServer` is not inductive: a server at work could belong to nobody, and then
its language starts another. `ManagerInv` ties them together: a session at work is that of its
language's start or slot (`WorkersKnown`), a start or slot of an undisposed manager has
a session of its language that is not being stopped (`StartsOwn`, `SlotsOwn`), a start is
under way exactly when the slot says so (`SlotsFollow`), and a caller's session is not one
a start is about (`CallersServed`), so that a failing handshake stops nobody's. The
refinement reads the same invariant, one action after the other.

*Format passes.* `FormatInv` says at each place of a call what the file holds
(`FileHolds`), what the server's copy holds where an answer is applied (`CopyHolds`),
how far the pass got and what it will report of it (`PassGoes`), and that every undo entry
but the one of a call before its write leads back to a text the file has from (`UndoHolds`). Without the last, an older entry could be equal to the one a
refused call took back, and its absence could not be told. The theorems carry a hypothesis
about the steps, `FallsBackWhole`: a pass goes over from ranges to the whole document only
while its text is the model's. It cannot be dropped: a method that is refused after it has
answered leaves the server's copy partly formatted, and the whole document's edits are then
applied to a text they are not about (the run `late_refusal`). A server whose methods
are refused at once, if at all, gives only such steps (`RefusedEarly`), hence
`EarlyRefusalsAccounted`, which has no hypothesis but that `Fail` lacks `"late"`.

*Histories.* `HistoryHolds` speaks of the moments between two calls and is far from
inductive. `HistInv` says what holds within one: in a commit, for each file of the batch,
whether its entry is pushed and whether its text is written, in that order forward and in
the other when a failure is undone (`CommitHolds` with `Item`, `Pushed` and `Written`);
at every other place, which histories lead to their file's text, also where a rename has
moved the file and its stack has not followed (`PlaceHolds`); and that what is still
to come of a call finds the texts it was planned on, unless another program changed them
(`Ahead`). A file counts as touched (`dirty`) from the moment its text changes outside
of its history; nothing is said of it until its history is cleared.

*Failed edits, reports, renames* add to it what a call alone on its files owes to the
texts and stacks it began with. `EditHolds`: the batch is as found but for the entry
pushed or the text written (`EditItem`; the oldest entry may have made room), every
other file `AsFound`. `PatchHolds`: what is reported completed is so (`Reported`),
what lies ahead is `Untouched`, and the operation under way is at one of its places
(`Midway`). `MovesHold`: the files with their histories are those of the beginning, and as
many; between the rename and the migration, with the stacks as they will be (`AllThere`).
The last counts files, hence finitely many paths.

*Writes over what was read.* `GuardInv` is `HistInv` with `Fresh` (every text is one
there has been, an entry holds no absence) and `SeenHolds`: under the guard, where a file's
text is the one seen last, the call has read or written it. It holds because only the
call's own steps observe, and another program's text is new. Moves are the exception: a
rename takes whatever the file holds then, and what the bridge observes at the destination
is that. A patch that moves a file and edits it can so write its hunks over a foreign text
that came after the last probe; the attempt to prove the property without the exception
led to this (section 8).

*Parse worker.* `ClientInv`: the client's worker runs and no other thread does
(`OneRuns`, which is `NoStrayThread` in both directions: a worker that had died
unnoticed would never be replaced); threads are born in order, one for a call and one for
its retry, so there is one left whenever one is asked for (`SpawnsHold`, which counts the
calls that still have their retry before them); a call has killed one thread for each
attempt behind it, all of them are gone, and the one it waits for is not among them
(`CallsHold`). From the last a second abort is one of another thread, also when timers,
recycling or another caller stop and start workers in between. The worker's answers need
`SoundInv`: the ids a running thread has still to answer are distinct and answered by
nobody, and its request of the caller is pending (`InboxesHold`); if its parser has
aborted, the caller waits for exactly the answer that says so, and only questions for the
arena come after it (`AbortsHold`); so no bad answer is one somebody waits for
(`Clean`). `AbortsHold` is where one caller is needed: a second one's request may already
lie behind the abort. It also needs that the caller stops the worker, which the queries do
not. Two callers and a query are both refuted by TLC on instances of a few hundred states.

*Transactions.* `TxnInv`: a running call owns the open transaction, which holds
exactly what it has written (`OwnerRuns`); one call runs at a time, of all
processes (`OneRuns`); the lock has an owner that runs (`LockIsOwned`); the
nesting is 1 for the lock's process and 0 for the others (`NotNested`); what is
in the store of a call follows from its answer (`Settled`). `AllOrNothing` alone
is not inductive: it says nothing of what `pending` holds, which the owner's
`COMMIT` adds. `LockIsOwned` is what makes `undoPush` safe: it finds no
transaction of its own process open, so its own BEGIN is not refused. The
refinement's step lemma reads the same invariant action by action.

*Rows and counts.* A statement that deletes or inserts many rows is a fold of the
one-row operator with its trigger over a finite set. `FoldExists` gives such a fold as a
function on the subsets (a recursion over inclusion, which is well founded there), and
`SubsetInduct` shows a property of each of its values from that of the set with one row
less. So a statement keeps `Exact`: the rows are finite and the counts are those of the
tables. `Sound` adds that keys are unique and the layers of a stack are numbered within its
cap (`UndosFit`). Neither needs to know who writes, which is why both survive another
process's writes and a death anywhere. *Sweeps* do: `SweepInv` says of a running one that
the paths it has yet to look at (`PoolOf`) are in order of age and, with those it is
deleting now, all that are held, and that it stops only within the budget or with
nothing left. A path that another process adds or renews midway is not in the pool, or
stands there with its old age; hence the hypothesis. `OrphanInv` says for which paths the
statement a job stands at may leave lines without their meta row (`Undressed`); a death
between two statements leaves them for a later sweep.

*Openings.* `SlotInv`: an opening under way is the one its process waits for, a connection
is that of the opening that measures it or of the store the process caches, and a process
that waits for an opening has no connection. Then two openings of one process cannot both
hold one. A shutdown forgets the opening under way and makes the first conjunct false
(section 8). `FileInv`, with one process, follows the file: the marker stands only on
healthy files, because an opening takes it away before the file is in use and a death
damages only what is open; a store rebuilt today says so itself, an opening that rebuilds
has found it not to say so, and what stands between the rename and the new file finds none
at the path. A second process may put its own file there, hence one.

Model-checked only: `BatchKeepsUntouched` (a sum over a set of ranges, composed over
the items); the properties of the other modules. Neither checked nor proved:
`BatchLandsWhereServed` for three items or more. Liveness (`WaitsEnd`,
`WorkEnds`, `ToolsEnd`) and `ENABLED`, and what a recursive definition computes for every
input, are outside TLAPS's reach.

## 8. Where the code and its words disagree

### Shown by a run

- **`repeated_anchor`.** An edit's plan takes the rows by position; the transform
  realigns them first when another program changed the file. A line the realign
  left bare is then seeded from the plan's projection, with an anchor that the
  realign moved elsewhere (`anchor-state.ts:526`). `anchor-entry-contract.md:328` says an
  anchor names one line at any moment; here the rows repeat one until `anchorFor` for
  the response heals them, and the process may end before that. `probeLines` keeps one
  line per anchor (`anchor-entry.ts:683`), so the next edit's probe asks about one of the
  two lines and the edit replaces the other, which its session was never shown. A batch
  that is aborted leaves such rows without a death.
- **`aborted_batch`.** Item transforms are persisted one by one, outside the
  batch's transaction. When the second item is refused the first one's transform
  stays: the rows are for a text the file never had.
- **`reversed_batch`.** For a range given bottom up `mintEchoWindow` asks the
  probe about no line, takes the missing verdict for a coming rejection, and mints
  and serves the window, while the edit proceeds on the record taken when the call
  began. The next item of the batch passes the probe on lines shown to nobody.
- **`half_digit`.** A range from an anchor to a bare number: the number has no anchor
  to collect, so `mintEchoWindow` asks the probe about the first line alone
  (`edit-engine.ts:698`); its consent then stands for the whole range
  (`anchor-pipeline.ts:1170`), and lines no page showed are replaced.
- **`format_batch`.** The hunks of a batch are applied, and pushed to `hunkShifts`,
  bottom up (`edit-engine.ts:1297`, `:1466`), and are handed unsorted (`:1653`) to
  `lineMapFromHunks`, which walks them top down and says so (`provenance.ts:49`). Delete
  lines 1 and 3 of five and let the formatter replace line 2 of what is left: the first
  line left, the old line 2, which nobody touched, is taken for the old line 3, which is
  deleted.
- **`late_refusal`.** A range refused with -32601 after another one was formatted falls
  back to the whole document: its edits are computed on the server's copy, which was
  brought to the formatted range, and applied to the text before
  (`auto-format.ts:253`), against `:235` "The next request must be answered from the text
  this one" produced. `FormatAccounted` is checked and proved with refusals that come first.

### Met while modelling

The models contain this behaviour; the properties are stated so that they hold
beside it, and each item names the code and the words it contradicts.

Transactions and rows (`hash-store.ts`):
- With calls that overlap, `withStoreAsync` lets a second call join the first's
  transaction. The joined call restores a depth the owner has cleared (:1896
  "can never outlive the BEGIN"); the owner's COMMIT or ROLLBACK does not wait for
  it, so its writes commit in halves (`anchor-entry.ts:471` "commit together or
  not at all") or vanish after it was told "ok" (:1956). `undoPush` counts its
  nesting under the file's path and not the store's (:471, :919), and SQLite refuses
  its BEGIN. `Overlap` is the switch.
- A sweep counts orphan lines against the budget but deletes them after evicting
  (:1249); its purges commit statement by statement though :1152 says a
  transaction holds them; lines expire by their own time, not the path's
  (`constants.ts:61`); the served TTL drops a path's anchors too; the write counter
  is looked at only by some writes and steps over its multiple of 200
  (`constants.ts:89`); an open store keeps the budget it was opened with
  (`store-budget.ts:16`).
- Openings: the clean-exit marker is one key of a file several processes share;
  a shutdown forgets openings that are in flight, and they cache their store
  afterwards (so `OneStoreOpen` assumes none); a rebuild renames a file another process has open; the throttle is
  read before an await; the fallback uses a connection that was closed.

Files (`edit-engine.ts`, `tools/`):
- Edits are grouped by the path's spelling, though `tool-edit.ts:557` says by the
  resolved path: two spellings of one file are two groups that read before the
  other writes. The second overwrites the first; both are reported applied.
- `restore` pops the newest undo entry, whoever pushed it. With two sessions at
  once a write that fails pops the other's entry; the next undo is refused as
  stale and clears the history.
- `undo_last_edit` pops after the anchors are restored and up to a second of
  diagnostics: an undo loaded meanwhile finds the text stale and clears the
  history; an edit pushed meanwhile loses its entry; without a policy two undos
  both revert the same entry and pop two.
- Without a policy a foreign write between a call's read and its write is lost.
- A death between push and write leaves an entry for an edit that never was; the
  next undo clears the whole history, against `undo-edit.ts:7` "Undo survives
  restarts". A put-back that fails leaves the edited text without its entry.
- A move with hunks renames first; the observation then records whatever text is
  there, so the guarded write overwrites a foreign text (`OverwritesItsRead` excepts
  such a move's hunks; the policed plans leave moves out, its theorem does not). If
  the write fails the file stays moved.
- `ast_edit` has moved the anchor rows when its syntax gate refuses with
  "NOTHING was written".
- The no-op guard of `tool-edit.ts` counts the first item of a batch again after
  an applied batch, which gives a false "no-op'd twice".
- Also: the write tool leaves the old history; `anchor-entry.ts:749` throws a
  TypeError for a row beyond a shorter text; `range-conflicts.ts:39` compares a
  reversed range unswapped; `edit-engine.ts:613` expands an insertion with the
  text its line had at the plan.

References and the splice (`anchor-pipeline.ts`, `edit-engine.ts`):
- After a failed write the stale seed of `repeated_anchor` breaks a release too: the edit
  replaces one of two lines that carry the anchor, which is released and stays live on
  the other (`ReleaseIsComplete` asks `inStep`).
- `op:"ins"` after a bare number replaces its line: the expansion looks for an anchor
  (`edit-engine.ts:592-602`), finds none and leaves the given lines, and the number is
  resolved afterwards; `contract.ts:315` says "the line it names is kept".
- A number is resolved when the line's anchor is in the record, whatever text it was
  served with (`anchor-pipeline.ts:844`); :818 says it is the guarantee of an anchor.
- A refusal of one line mints and serves the whole window, so the same item sent again
  passes without a read between; an edit by number that succeeds serves it as well.
- A reversed range by numbers, and a hint past the end, are reported as out of range.
  With a number as bound the prefixes of every row of the file are stripped, not the
  range's (#83).
- A replacement that ends in a blank line, at the end of a text without newline, loses
  that line.

Diffs (`render/`):
- With context 0 two hunks one line apart share a block whose header counts two lines
  while its rows are lines 1 and 3 (`edit-diff.ts:110-117`).
- In a text without final newline a removal attributed to its twin gives a header past
  the end. A split search may list an added row before the removed one and number two
  removed rows alike (`line-diff.ts:38-40`).

Grammars (`ast/`):
- Installing over an installed version overwrites the wasm in place while the old
  `install.json` stays, against `registry.ts:176-177` "a half-finished install must
  not look like a working one". `Redo` is FALSE in the run, and with TRUE all
  three of its properties fail.
- A removal beside an install can leave `install.json` without a wasm; the status
  card then says installed (`registry.ts:412-413`). It may also fail with ENOTEMPTY.
  With two versions the last in directory order wins, not the newest. A load beside a
  removal and a new install may read half a file; its parse fails and nothing is
  cached.

Answers:
- Read: a line over `MAX_READ_LINE_BYTES` stands alone in its window, empty and
  with no closing sentence ("Text mode ends with exactly one sentence"). With
  `limit` 1 going on by anchor shows the same line again. Two readers of one token
  may get the same rows, and the cursor may move back. A session directory may be
  swept by another process.
- Grep: a file that changes between ripgrep and its identity, in the fallback of
  a failed anchoring, or between resume's stat and its read, is shown with old
  rows under anchors of the current text; the edit is still refused by its
  fingerprint. `Races` is the switch. A continuation asks for an anchor for every row of
  an unchanged file (`tool-grep.ts:411`): the spill does not know that a row is a cut
  preview or the pointer of a line too large, which `grep-search.ts:10-11` says are not
  anchorable. Hence `PreviewsNotAnchored` for first answers; without `earlier = <<>>` TLC
  refutes it on one file of three lines. `limit` 0 ends in a TypeError.
- Format: `lineMapFromTextEdits` is exact only for edits of whole lines
  (`provenance.ts:19-22`); a line the formatter invents inherits the one below; after
  a failed write the server's copy stays at a text never written; an answer is taken
  without a version check; CRLF endings of a created file are restored twice.

Language servers and diagnostics:
- A server that exits leaves its slot `ready` (`manager.ts:493`, :84); a search in
  flight overwrites what a rescan cleared (:217, :658); a dispose during the search
  is not seen by the start, which spawns (:399, :812); `initialize` sets ready after a
  shutdown (`session.ts:505`, :318). A chunk whose push throws loses the messages that
  came before the broken frame in it, also when the frame's body is at fault and the reader
  has passed it (`framing.ts:100-107`): a question of the server's among them is never
  answered, hence `ServerIsAnswered` until the stream breaks. A known server is skipped when the settings cover any of its languages
  (`discovery.ts:398`, :344).
- A header that cannot be framed throws before the buffer advances (`framing.ts:82-95`),
  so every later push throws at it again, while the session goes on taking requests
  (`session.ts:388`, `:510`), which time out; `:386` says a framing failure is terminal. The
  model is `Deaf` then, and requests sent into it end by their timers.
- Two deliveries probe one document with nonces of their own; each takes a report on
  the other's probe line for the one on the reverted text (`auto-diag.ts:388`, against
  `:331`): TLC refutes `ItemsOfRealContent` for two writes and a server that pushes. What
  stays true is `ItemsOfText`.
- The formatter shows the server the draft of a write that is noted only when it is on
  disk; an earlier write's delivery takes the report on it for its own (`auto-diag.ts:388`,
  against `:315`): with the event `"format"` beside two writes TLC refutes `ItemsOfText`.
- Between a file's write and its note lie awaits (`edit-engine.ts:1827-1830`): a delivery
  that polls there begins a report for a text the file no longer holds, and two
  writes may be noted in the other order, after which the ledger's newest text is not
  the file's. Hence `Ahead` in `MintsCurrentStep`, and `crossed`.
- The lsp tool syncs a text it read before an await; a write in between is noted, and then
  undone in the server. A delivery's settled report is then about the older text, so
  `ItemsOfText` is checked with writes alone, and with the lsp tool the rest.
- `auto-diag.ts`: after a pull the text is resolved anew (:352); the generation is checked
  before an await and the report injected after it (:607); a late delivery opens a
  deleted file in the server (:253); a wait that ends early leaves the probe line
  (:376). `write-tracker.ts`: the late report is not marked (:129), numbers start
  again (:87).

The tools' surfaces (`index.ts`, `guidance/`):
- A flip during an agent's install: the rebuild registers its sections, then the
  install registers its own and overwrites the rebuild's disposer. Two sections stay,
  of which no later rebuild removes the first; hence `overlapped` in
  `SectionsFollowProfile`. The edit tool itself is not affected.
- `resolve.ts:63-64` and `index.ts:250-251` say the default follows
  `require_line_content` through a rebuild. The first boot writes that day's default
  into `edit.md`, which from then on counts as the user's: after a flip the schema asks
  for declarations and the section teaches the other form, or the reverse. So
  `SectionsFollowProfile` takes any text the file has held.
- A user's save between the heal's read and its write is overwritten
  (`materialize.ts:131-132`, `saved` in `UserTextKeptStep`).
- A rebuilder of an agent disposed in mid-install stays subscribed; a chain goes on
  after the agent's disposal and fails at its next registration.
- Of the seven guidance files only `edit.md` and `apply_patch.md` reach an agent
  (`index.ts:343-350`); `configured: configuredServers()` is evaluated once, though
  `index.ts:545` says it is read at call time.

The lsp tool: the position is computed from the text the call read, the server answers
from its copy, which another call's sync may have replaced meanwhile; hence
`ToldOfItsText` speaks of symbols, whose question leaves with the sync.

Parse worker:
- `#terminate` clears `#worker` before the thread's exit (`client.ts:157`), which then
  fails nobody (`:148`): a call outstanding there is never settled; `:146` says everything
  outstanding fails when the worker goes away. With the trigger `"idle"`, `"recycle"` or
  `"dispose"` TLC refutes `CallsEnd`; hence liveness for the part `ast` only.
- Three operations keep the worker after an abort (:288, :255); a dispose during a
  termination is not seen by the retry, which spawns (:207, :379). The cache looks a
  text up before its await and stores after it: a tree is counted twice
  (`worker.ts:436`), admission is not repeated (:419). Hence `RetainedIsCached` and
  `BuiltWithin` for requests one at a time.

## 9. Not modelled

- Cards, scope names and the client: presentation, with no state of the store.
- Of configuration and guidance: schemas and prompt texts, the other fields'
  normalisation, the tools that are registered once, the HTTP routes.
- Scope scanners (outline, summary), the parsing of references, patches and sed
  expressions, pattern matching in syntax trees: pure functions from text to text
  with no state, whose data the models abstract. (References and diffs are in `ItemEdit` and
  `DiffBlocks`.)
- The wasm arena, ripgrep, SQLite's file format, language servers: external,
  modelled from their use.
- A header the reader finds too long before its terminator has come: it may still be
  completed by a later chunk; `LspSession` breaks at whole messages.
- Of the modelled components what `PROJECT.json` lists as left: undo's restored
  anchors, drift notices, `require_line_content`, schema migrations, argv
  translation and capability tables of servers, installing a server, the sandbox.

## 10. Plan

1. `AnchorShown`: what the model was shown against what was recorded as served,
   for reads, echoes and responses, as an abstract specification that
   `AnchorStore` implements.
2. Undo's restored anchors (`restoreAnchorBinding`) as an operation of
   `AnchorStore`, beside the edits of another session.
3. The lsp tool's code actions; the installation of servers; the other settings.
4. Several windows and wipes of the served record (`wipeServedState`), drift
   notices.
5. Pure algorithms against reference definitions: the bounded aligner, the
   allocator's probing, range conflicts, as `DiffBlocks` does it for the diff.
6. Proofs: `BatchKeepsUntouched`, whose shifts are sums over a set, with the induction
   over finite sets that `StoreRows_proofs` has; the parts of `MCTools` and `MCServers`
   that are only model-checked.
