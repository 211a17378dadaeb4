------------------------------ MODULE AutoDiag ------------------------------
\* The diagnostics a write brings back: src/src/lsp/auto-diag.ts, the ledger of
\* the newest write per document (lsp/write-tracker.ts), the sync of the server
\* (lsp/sync.ts), and the lsp tool's own diagnostics call.  A delivery waits for
\* the server between its steps, and writes, deletes and other deliveries run
\* meanwhile.  A text is named by the call that put it on disk and by what the server
\* alone sees of it, if anything: a probe line, or a formatter's draft.
EXTENDS Naturals, Sequences, FiniteSets

CONSTANTS Doc,
          Write,        \* calls of the write tools
          Manual,       \* calls of lsp { operation: "diagnostics" }
          Pull,         \* the server answers textDocument/diagnostic
          Event         \* which of "delete", "evict", "timeout", "format"

Call == Write \cup Manual
None == "none"

VARIABLES up,           \* the language's server is ready
          file,         \* per document, the write whose text is on disk, or None
          closing,      \* documents taken from the disk whose closing is still to come
          nextGen,      \* nextGeneration
          ledger,       \* writes: per document its newest write
          told,         \* per document, the text the session last sent, or Closed
          wire,         \* per document, what the server has not reported on
          pushed,       \* per document, the text of the session's last report
          call,         \* per call, where it stands
          crossed       \* for the properties: documents whose newest note speaks of a text
                        \* that was no longer on disk

disk == <<file, closing>>
server == <<told, wire>>
vars == <<up, disk, nextGen, ledger, server, pushed, call, crossed>>

Plain(w) == [by |-> w, probe |-> <<>>]
Closed == Plain(None)
Untracked == [gen |-> 0, num |-> 0, text |-> None, injected |-> FALSE]
Idle == [pc |-> "none", doc |-> "none", mode |-> "none", own |-> None, gen |-> 0,
         num |-> 0, fresh |-> FALSE, items |-> Closed, text |-> None, note |-> FALSE]

Init ==
    /\ up \in BOOLEAN
    /\ file = [d \in Doc |-> None] /\ closing = {}
    /\ nextGen = 1
    /\ ledger = [d \in Doc |-> Untracked]
    /\ told = [d \in Doc |-> Closed]
    /\ wire = [d \in Doc |-> <<>>]
    /\ pushed = [d \in Doc |-> Closed]
    /\ call = [c \in Call |-> Idle]
    /\ crossed = {}

\* openDocumentFor: only a ready server hears of it.
Tell(d, text) ==
    IF up THEN /\ told' = [told EXCEPT ![d] = text]
               /\ wire' = [wire EXCEPT ![d] = Append(@, text)]
          ELSE UNCHANGED server

\* noteDocumentWrite: the next generation, the document's next number, and the
\* warning the last write left.  The caps drop the documents written longest ago, the
\* one just written among them when its text alone is too large.
Noted(d, c) == [ledger EXCEPT ![d] = [gen |-> nextGen, num |-> ledger[d].num + 1,
                                      text |-> c, injected |-> ledger[d].injected]]
Dropped(l, D) == [d \in Doc |-> IF d \in D THEN Untracked ELSE l[d]]
Oldest(l, D) == \A d \in D : \A e \in Doc \ D : l[d].gen <= l[e].gen

NoteDocumentWrite(d, c) ==
    \/ ledger' = Noted(d, c)
    \/ /\ "evict" \in Event
       /\ \E D \in SUBSET Doc : Oldest(Noted(d, c), D) /\ ledger' = Dropped(Noted(d, c), D)

\* The text a delivery speaks about, and whether its write is still the newest.
CurrentText(c) ==
    LET tracked == ledger[call[c].doc]
        known == IF call[c].mode = "manual" THEN {0, call[c].gen} ELSE {0} IN
    IF tracked.gen \in known THEN call[c].own ELSE tracked.text

AlwaysCurrent(c) == TRUE
StillCurrent(c) == call[c].gen \in {0, ledger[call[c].doc].gen}

\* prepareWriteDiagnostics.  A cold language is warmed; the write does not wait.
Prepare(c, d) ==
    /\ c \in Write /\ call[c].pc = "none"
    /\ call' = [call EXCEPT ![c].pc = "prepared", ![c].doc = d, ![c].own = c,
                            ![c].mode = IF up THEN "inline" ELSE "async"]
    /\ UNCHANGED <<up, disk, nextGen, ledger, server, pushed, crossed>>

\* The formatter shows a ready server what it works on, before anything is on disk; one
\* draft stands for all it shows.
Draft(c) == [by |-> c, probe |-> <<c, "draft">>]

PreSync(c) ==
    /\ "format" \in Event
    /\ call[c].pc = "prepared" /\ up
    /\ Tell(call[c].doc, Draft(c))
    /\ call' = [call EXCEPT ![c].pc = "drafted"]
    /\ UNCHANGED <<up, disk, nextGen, ledger, pushed, crossed>>

\* The file is written.
Land(c) ==
    /\ call[c].pc \in {"prepared", "drafted"}
    /\ file' = [file EXCEPT ![call[c].doc] = c]
    /\ call' = [call EXCEPT ![c].pc = "landed"]
    /\ UNCHANGED <<up, closing, nextGen, ledger, server, pushed, crossed>>

\* notifyDocumentWritten, once the write is known done: the ledger and a ready server
\* learn it.  Another call may have changed the file in between.
Note(c) ==
    /\ call[c].pc = "landed"
    /\ LET d == call[c].doc IN
        /\ NoteDocumentWrite(d, c)
        /\ Tell(d, Plain(c))
        /\ crossed' = IF file[d] = c THEN crossed \ {d} ELSE crossed \cup {d}
    /\ nextGen' = nextGen + 1
    /\ call' = [call EXCEPT ![c].pc = "written"]
    /\ UNCHANGED <<up, disk, pushed>>

\* deliverDiagnosticsAfterWrite begins with what the ledger knows now.
Deliver(c) ==
    /\ call[c].pc = "written"
    /\ LET w == ledger[call[c].doc] IN
        call' = [call EXCEPT ![c].pc = IF call[c].mode = "inline" THEN "verify" ELSE "boot",
                             ![c].gen = w.gen, ![c].num = w.num]
    /\ UNCHANGED <<up, disk, nextGen, ledger, server, pushed, crossed>>

\* The lsp tool notes what the ledger holds, reads the file, syncs what it read and
\* verifies.
Diagnose(c, d) ==
    /\ c \in Manual /\ call[c].pc = "none" /\ up
    /\ call' = [call EXCEPT ![c].pc = "reading", ![c].doc = d, ![c].mode = "manual",
                            ![c].gen = ledger[d].gen]
    /\ UNCHANGED <<up, disk, nextGen, ledger, server, pushed, crossed>>

ReadText(c) ==
    /\ call[c].pc = "reading"
    /\ LET text == file[call[c].doc] IN
        call' = [call EXCEPT ![c].pc = IF text = None THEN "done" ELSE "read", ![c].own = text]
    /\ UNCHANGED <<up, disk, nextGen, ledger, server, pushed, crossed>>

SyncRead(c) ==
    /\ call[c].pc = "read"
    /\ Tell(call[c].doc, Plain(call[c].own))
    /\ call' = [call EXCEPT ![c].pc = "verify"]
    /\ UNCHANGED <<up, disk, nextGen, ledger, pushed, crossed>>

Boot ==
    /\ ~up /\ up' = TRUE
    /\ UNCHANGED <<disk, nextGen, ledger, server, pushed, call, crossed>>

\* startAsyncWait on a cold start: the session is there, or the budget is over.
Booted(c) ==
    /\ call[c].pc = "boot"
    /\ \/ /\ up /\ StillCurrent(c)
          /\ Tell(call[c].doc, Plain(CurrentText(c)))
          /\ call' = [call EXCEPT ![c].pc = "verify"]
       \/ /\ (up /\ ~StillCurrent(c)) \/ "timeout" \in Event
          /\ call' = [call EXCEPT ![c].pc = "done"]
          /\ UNCHANGED server
    /\ UNCHANGED <<up, disk, nextGen, ledger, pushed, crossed>>

Nonce(c) == <<c, call[c].mode>>
Probing(c) == [by |-> CurrentText(c), probe |-> Nonce(c)]

\* verifiedReport asks: the pull, or the probe line behind the current text.  The
\* pull rides behind what was told before it.
Ask(c) ==
    /\ call[c].pc = "verify"
    /\ LET d == call[c].doc IN
        \/ /\ Pull
           /\ call' = [call EXCEPT ![c].pc = "pull", ![c].items = told[d]]
           /\ UNCHANGED server
        \/ /\ ~Pull
           /\ Tell(d, Probing(c))
           /\ call' = [call EXCEPT ![c].pc = "probe", ![c].fresh = FALSE]
    /\ UNCHANGED <<up, disk, nextGen, ledger, pushed, crossed>>

PullAnswered(c) ==
    /\ call[c].pc = "pull"
    /\ call' = [call EXCEPT ![c].pc = "verified", ![c].text = CurrentText(c)]
    /\ UNCHANGED <<up, disk, nextGen, ledger, server, pushed, crossed>>

\* A server that fails the pull is probed, whoever owns the document by now.
PullFails(c) ==
    /\ "timeout" \in Event /\ call[c].pc = "pull"
    /\ call' = [call EXCEPT ![c].pc = "probe", ![c].fresh = FALSE]
    /\ Tell(call[c].doc, Probing(c))
    /\ UNCHANGED <<up, disk, nextGen, ledger, pushed, crossed>>

\* waitPushMatching: a push since the probe began, for this document's report.
ProbeOf(c) == pushed[call[c].doc].probe = Nonce(c)
Heard(c) == call[c].fresh /\ pushed[call[c].doc] # Closed

RevertOld(c) == call[c].own
Revert(c) == CurrentText(c)

ProbeSeen(c) ==
    /\ call[c].pc = "probe" /\ Heard(c) /\ ProbeOf(c)
    /\ Tell(call[c].doc, Plain(Revert(c)))
    /\ call' = [call EXCEPT ![c].pc = "settle", ![c].text = Revert(c)]
    /\ UNCHANGED <<up, disk, nextGen, ledger, pushed, crossed>>

SettledWith(c) == Heard(c) /\ ~ProbeOf(c)

ProbeSettles(c) ==
    /\ call[c].pc = "settle" /\ SettledWith(c)
    /\ call' = [call EXCEPT ![c].pc = "verified", ![c].items = pushed[call[c].doc]]
    /\ UNCHANGED <<up, disk, nextGen, ledger, server, pushed, crossed>>

\* The budget is over: the inline delivery hands over to the background one, which
\* stops when a newer write owns the document.  The probe stays where it is.
Over(c) == "timeout" \in Event /\ call[c].pc \in {"probe", "settle"}

GiveUp(c) ==
    /\ Over(c)
    /\ call' = [call EXCEPT ![c].pc = IF call[c].mode = "inline" /\ StillCurrent(c)
                                       THEN "verify" ELSE "done",
                            ![c].mode = IF @ = "inline" THEN "async" ELSE @]
    /\ UNCHANGED <<up, disk, nextGen, ledger, server, pushed, crossed>>

\* collectReport, unless the write is no longer the newest or the report is empty.
\* The lsp tool collects what it verified.
Collect(c) ==
    /\ call[c].pc = "verified"
    /\ \/ /\ call[c].mode = "manual" \/ StillCurrent(c)
          /\ call' = [call EXCEPT ![c].pc = IF call[c].mode = "manual" THEN "told" ELSE "minted"]
       \/ call' = [call EXCEPT ![c].pc = "done"]
    /\ UNCHANGED <<up, disk, nextGen, ledger, server, pushed, crossed>>

\* The mint has answered; the observation is awaited.
Observe(c) ==
    /\ call[c].pc = "minted"
    /\ call' = [call EXCEPT ![c].pc = IF call[c].mode = "inline" \/ StillCurrent(c)
                                       THEN "observing" ELSE "done"]
    /\ UNCHANGED <<up, disk, nextGen, ledger, server, pushed, crossed>>

\* The inline report, with the note that a delayed one may still arrive.
SupersedeNote(d) == [ledger EXCEPT ![d].injected = FALSE]

Inline(c) ==
    /\ call[c].pc = "observing" /\ call[c].mode = "inline"
    /\ LET d == call[c].doc IN
        /\ call' = [call EXCEPT ![c].pc = "told", ![c].note = ledger[d].injected]
        /\ ledger' = SupersedeNote(d)
    /\ UNCHANGED <<up, disk, nextGen, server, pushed, crossed>>

\* agent.inject, then markAsyncInjection, which marks the write if it is still the
\* newest.
Inject(c) ==
    /\ call[c].pc = "observing" /\ call[c].mode = "async"
    /\ LET d == call[c].doc
           marks == call[c].gen # 0 /\ ledger[d].gen = call[c].gen IN
        /\ call' = [call EXCEPT ![c].pc = "injected"]
        /\ ledger' = IF marks THEN [ledger EXCEPT ![d].injected = TRUE] ELSE ledger
    /\ UNCHANGED <<up, disk, nextGen, server, pushed, crossed>>

\* A file is deleted or moved away, and then notifyDocumentClosed: no write owns it
\* any more, and the server closes it.
Unlink(d) ==
    /\ "delete" \in Event /\ file[d] # None /\ d \notin closing
    /\ file' = [file EXCEPT ![d] = None]
    /\ closing' = closing \cup {d}
    /\ UNCHANGED <<up, nextGen, ledger, server, pushed, call, crossed>>

Forgotten(d) == [ledger EXCEPT ![d] = Untracked]

Close(d) ==
    /\ d \in closing
    /\ closing' = closing \ {d}
    /\ ledger' = Forgotten(d)
    /\ told' = [told EXCEPT ![d] = Closed]
    /\ UNCHANGED <<up, file, nextGen, wire, pushed, call, crossed>>

\* The server reports on one of the texts it was told, in order; older ones it may
\* skip.  The session counts pushes over all documents, so any of them, a repeated
\* one included, is news to every wait.
Publish(d) ==
    /\ \E k \in 0..Len(wire[d]) :
        /\ k = 0 => pushed[d] # Closed
        /\ wire' = [wire EXCEPT ![d] = SubSeq(@, k + 1, Len(@))]
        /\ pushed' = [pushed EXCEPT ![d] = IF k = 0 THEN @ ELSE wire[d][k]]
    /\ call' = [c \in Call |-> [call[c] EXCEPT !.fresh = @ \/ call[c].pc \in {"probe", "settle"}]]
    /\ UNCHANGED <<up, disk, nextGen, ledger, told, crossed>>

\* Nothing is awaited between the start of a verification and what it sends.
Sending == \E c \in Call : call[c].pc = "verify"

Next ==
    \/ \E c \in Call : Ask(c)
    \/ /\ ~Sending
       /\ \/ \E c \in Call, d \in Doc : Prepare(c, d) \/ Diagnose(c, d)
          \/ \E c \in Call :
                \/ PreSync(c) \/ Land(c) \/ Note(c) \/ Deliver(c) \/ ReadText(c) \/ SyncRead(c)
                \/ Booted(c) \/ PullAnswered(c) \/ PullFails(c) \/ ProbeSeen(c) \/ ProbeSettles(c)
                \/ GiveUp(c) \/ Collect(c) \/ Observe(c) \/ Inline(c) \/ Inject(c)
          \/ \E d \in Doc : Unlink(d) \/ Close(d) \/ Publish(d)
          \/ Boot

\* Servers boot or the budget ends the wait, every wait has a budget, files, the store
\* and the observation answer.
Progress(c) ==
    ~Sending /\ (\/ Note(c) \/ Deliver(c) \/ ReadText(c) \/ SyncRead(c) \/ Booted(c)
                 \/ PullAnswered(c) \/ GiveUp(c)
                 \/ Collect(c) \/ Observe(c) \/ Inline(c) \/ Inject(c))

Spec == Init /\ [][Next]_vars /\ \A c \in Call : WF_vars(Ask(c)) /\ WF_vars(Progress(c))
-----------------------------------------------------------------------------
Texts == [by : Write \cup {None},
          probe : {<<>>} \cup (Call \X {"inline", "async", "manual", "draft"})]

TypeOK ==
    /\ nextGen \in 1..Cardinality(Write) + 1
    /\ closing \subseteq Doc /\ crossed \subseteq Doc
    /\ \A d \in Doc :
        /\ file[d] \in Write \cup {None} /\ ledger[d].text \in Write \cup {None}
        /\ ledger[d].gen < nextGen
        /\ told[d] \in Texts /\ pushed[d] \in Texts /\ wire[d] \in Seq(Texts)
    /\ \A c \in Call :
        /\ call[c].pc \in {"none", "prepared", "drafted", "landed", "written", "reading",
                           "read", "boot", "verify", "pull", "probe", "settle", "verified", "minted",
                           "observing", "told", "injected", "done"}
        /\ call[c].items \in Texts

\* The diagnostics a write's delivery mints were computed for the lines its rows
\* are taken from: a push of an older text is never taken for the newer one's.  A
\* write the ledger dropped again has nothing to be told apart by.
Reporting(c) == c \in Write /\ call[c].gen # 0
                /\ call[c].pc \in {"minted", "observing", "told", "injected"}
ItemsOfText == \A c \in Call : Reporting(c) => call[c].items.by = call[c].text

\* "a report without the sentinel error can only have been computed from the reverted,
\* real content": what a delivery mints for is that text and nothing more.
ItemsOfRealContent == \A c \in Call : Reporting(c) => call[c].items = Plain(call[c].text)

\* A report is begun for the text the ledger holds newest, and that is the text on disk,
\* unless the disk is ahead of the ledger: a write has landed and is not noted, a file is
\* gone and not closed, or the notes of two writes came in another order than the writes.
Ahead(d) == d \in closing \cup crossed \/ \E c \in Write : call[c].doc = d /\ call[c].pc = "landed"
MintsCurrentStep ==
    \A c \in Write : call'[c].pc = "minted" /\ call[c].pc # "minted" /\ call[c].gen # 0
        => LET d == call[c].doc IN
            /\ ledger[d].text = call[c].text
            /\ file[d] = call[c].text \/ Ahead(d)

\* With no wait cut short, a server that heard of a file holds the newest text noted
\* when nothing is under way: no probe line, no older text stays behind.
AtRest == \A c \in Call : call[c].pc \in {"none", "prepared", "told", "injected", "done"}
InStepAtRest ==
    AtRest => \A d \in Doc : told[d] # Closed /\ ledger[d].gen # 0
        => /\ told[d] = Plain(ledger[d].text)
           /\ d \in crossed \/ file[d] = ledger[d].text
=============================================================================
