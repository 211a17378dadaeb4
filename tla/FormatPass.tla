----------------------------- MODULE FormatPass -----------------------------
\* Formatting by the file's language server: the automatic pass of an edit
\* (domain/format/auto-format.ts inside the edit engine) and of a write
\* (domain/write/create-file.ts), and the format tool (domain/format/manual-format.ts).
\* A text is the version a call gave the file and the regions formatted since; which
\* characters a formatter changes is TextEdits' matter.  The server answers from its
\* own copy of the document, so an answer computed on another text spoils the result.
EXTENDS Integers, Sequences, FiniteSets, SequencesExt

CONSTANTS Region,       \* the regions of a text
          MaxCalls,
          Fail          \* what may fail: "write", "ask"; "refuse", a method the server offers is
                        \* not there; "late", it is gone after it has answered once

ASSUME FormatAssumption == MaxCalls \in Nat

Modes == {"off", "range", "full"}
Text(v, done) == [v |-> v, done |-> done]
Torn == Text(-1, {})
NoText == Text(-2, {})

VARIABLES disk, doc,    \* the file, and the server's copy of it
          anchored,     \* the text the anchor rows were written for last
          undo,         \* the undo stack: [before, after]
          setting,      \* mode and fallback
          server,       \* what the server of the language is and offers
          call,         \* the call in progress
          calls

vars == <<disk, doc, anchored, undo, setting, server, call, calls>>

AtRest == [pc |-> "idle", kind |-> "none", before |-> NoText, model |-> NoText, text |-> NoText,
           ranges |-> {}, hunks |-> {}, status |-> "none", pushed |-> FALSE]

Init ==
    /\ disk = Text(0, {}) /\ doc = NoText /\ anchored = NoText /\ undo = <<>>
    /\ setting \in [mode : Modes, fallback : BOOLEAN]
    \* up: ready, still to start, or none; full and range: the methods it offers
    /\ server \in [up : {"ready", "cold", "none"}, full : BOOLEAN, range : BOOLEAN]
    /\ call = AtRest /\ calls = 0

Ready == server.up = "ready"

\* notifyDocumentWritten and syncDocumentContent: only a server that runs hears of it.
Told(t) == IF Ready THEN t ELSE doc

Goes(pc) == [call EXCEPT !.pc = pc]
Over(status) == [call EXCEPT !.pc = "ended", !.status = status]
-----------------------------------------------------------------------------
\* The edit has its result in memory; `hunks` are the regions it put lines into.
Edit(hunks) ==
    /\ call.pc \in {"idle", "ended"} /\ calls < MaxCalls
    /\ calls' = calls + 1
    /\ call' = [AtRest EXCEPT !.pc = "decide", !.kind = "edit", !.before = disk, !.hunks = hunks,
                  !.model = Text(calls', disk.done \ hunks), !.text = Text(calls', disk.done \ hunks)]
    /\ UNCHANGED <<disk, doc, anchored, undo, setting, server>>

\* A write puts the model's text on disk first.
Write ==
    /\ call.pc \in {"idle", "ended"} /\ calls < MaxCalls
    /\ calls' = calls + 1
    /\ \/ /\ disk' = Text(calls', {})
          /\ call' = [AtRest EXCEPT !.pc = "decide", !.kind = "write", !.before = disk,
                                    !.model = Text(calls', {}), !.text = Text(calls', {})]
       \/ /\ "write" \in Fail
          /\ disk' = disk
          /\ call' = [AtRest EXCEPT !.pc = "ended", !.kind = "write", !.before = disk, !.status = "failed"]
    /\ UNCHANGED <<doc, anchored, undo, setting, server>>

\* The format tool reads the file and then waits for the server.
Format(ranges) ==
    /\ call.pc \in {"idle", "ended"} /\ calls < MaxCalls
    /\ calls' = calls + 1
    /\ call' = [AtRest EXCEPT !.pc = "wait", !.kind = "format", !.before = disk, !.hunks = ranges,
                              !.model = disk, !.text = disk]
    /\ UNCHANGED <<disk, doc, anchored, undo, setting, server>>

Wait ==
    /\ call.pc = "wait"
    /\ \/ /\ server.up # "none"
          /\ server' = [server EXCEPT !.up = "ready"]
          /\ call' = Goes("decide")
       \/ /\ ~Ready
          /\ call' = Over("refused")
          /\ UNCHANGED server
    /\ UNCHANGED <<disk, doc, anchored, undo, setting, calls>>
-----------------------------------------------------------------------------
\* Whether the pass runs at all.  The automatic one keeps silent where the tool refuses.
WantsRange ==
    CASE call.kind = "edit" -> setting.mode = "range"
      [] call.kind = "format" -> call.hunks # {}
      [] OTHER -> FALSE
Silent ==
    IF call.kind = "format"
    THEN ~server.full \/ (WantsRange /\ ~server.range /\ ~setting.fallback)
    ELSE \/ setting.mode = "off" \/ ~Ready
         \/ ~WantsRange /\ ~server.full
         \/ WantsRange /\ ~server.range /\ ~(setting.fallback /\ server.full)

\* Out of the pass without a formatted text.
Unformatted(status) ==
    IF call.kind = "format" THEN Over(IF status = "silent" THEN "refused" ELSE "failed")
    ELSE [call EXCEPT !.pc = IF call.kind = "edit" THEN "mint" ELSE "tell", !.status = status, !.text = call.model]

\* The server's copy is brought to the text the answer will be applied to.  Hunks that
\* only delete leave no range to ask for.
Synced == call.model
Decide ==
    /\ call.pc = "decide"
    /\ IF Silent THEN call' = Unformatted("silent") /\ UNCHANGED doc
       ELSE /\ doc' = Synced
            /\ call' = IF WantsRange /\ server.range /\ call.hunks # {}
                       THEN [call EXCEPT !.pc = "range", !.ranges = call.hunks]
                       ELSE IF WantsRange /\ server.range /\ ~setting.fallback
                       THEN Unformatted("silent") ELSE Goes("full")
    /\ UNCHANGED <<disk, anchored, undo, setting, server, calls>>

\* What an answer makes of a text: it fits the text it was computed from.
Fitted(t, regions) == IF doc = t THEN Text(t.v, t.done \cup regions) ELSE Torn

\* One range after the other, the copy brought up to date in between; the format tool
\* asks for its one range.
Ranged(r) ==
    LET t == Fitted(call.text, {r}) IN
    IF call.ranges = {r}
    THEN call' = [call EXCEPT !.pc = "finish", !.ranges = {}, !.text = t] /\ UNCHANGED doc
    ELSE call' = [call EXCEPT !.ranges = @ \ {r}, !.text = t] /\ doc' = t

\* -32601, each method for itself: a range is refused before the pass formatted anything,
\* or, with "late", after.  The copy stays what the ranges made of it.
RangeRefused ==
    /\ "refuse" \in Fail /\ (call.text = call.model \/ "late" \in Fail)
    /\ call' = IF setting.fallback THEN Goes("full") ELSE Unformatted("silent")
    /\ UNCHANGED doc

AskRange ==
    /\ call.pc = "range"
    /\ \/ \E r \in call.ranges : Ranged(r)
       \/ RangeRefused
       \/ "ask" \in Fail /\ call' = Unformatted("skipped") /\ UNCHANGED doc
    /\ UNCHANGED <<disk, anchored, undo, setting, server, calls>>

\* The whole document: the answer is about the server's copy, and is applied to the text
\* the pass began with.  The fallback asks a server that does not offer it too.
AskFull ==
    /\ call.pc = "full"
    /\ \/ server.full /\ call' = [call EXCEPT !.pc = "finish", !.text = Fitted(call.model, Region)]
       \/ (~server.full \/ "refuse" \in Fail) /\ call' = Unformatted("silent")
       \/ "ask" \in Fail /\ call' = Unformatted("skipped")
    /\ UNCHANGED <<disk, doc, anchored, undo, setting, server, calls>>

\* Nothing changed, or a formatted text: the write tool's goes over the file, the
\* others' take their anchors first.
Finish ==
    /\ call.pc = "finish"
    /\ LET status == IF call.text = call.model THEN "noop" ELSE "formatted" IN
         call' = IF call.kind = "format" /\ status = "noop" THEN Over("noop")
                 ELSE [call EXCEPT !.status = status,
                         !.pc = IF call.kind # "write" THEN "mint"
                                ELSE IF status = "noop" THEN "tell" ELSE "rewrite"]
    /\ UNCHANGED <<disk, doc, anchored, undo, setting, server, calls>>

\* buildServedRowsFromDiff anchors the rows of the text about to be written.
Mint ==
    /\ call.pc = "mint"
    /\ anchored' = call.text
    /\ call' = Goes("push")
    /\ UNCHANGED <<disk, doc, undo, setting, server, calls>>

\* Mutant of Entry: it leads back from the text the model wrote.
EntryOfModel == [before |-> call.before, after |-> call.model]

\* One undo entry for the call, whatever the pass did to its text.
Entry == [before |-> call.before, after |-> call.text]
Push ==
    /\ call.pc = "push"
    /\ undo' = Append(undo, Entry)
    /\ call' = [call EXCEPT !.pc = "write", !.pushed = TRUE]
    /\ UNCHANGED <<disk, doc, anchored, setting, server, calls>>

WriteOut ==
    /\ call.pc = "write"
    /\ \/ disk' = call.text /\ call' = Goes("tell") /\ UNCHANGED undo
       \/ /\ "write" \in Fail
          /\ undo' = Front(undo)
          /\ call' = Over("failed")
          /\ UNCHANGED disk
    /\ UNCHANGED <<doc, anchored, setting, server, calls>>

\* The write tool's second write; should it fail, the model's text stays.
Rewrite ==
    /\ call.pc = "rewrite"
    /\ \/ disk' = call.text /\ call' = Goes("tell")
       \/ "write" \in Fail /\ disk' = disk
          /\ call' = [call EXCEPT !.pc = "tell", !.status = "skipped", !.text = call.model]
    /\ UNCHANGED <<doc, anchored, undo, setting, server, calls>>

Tell ==
    /\ call.pc = "tell"
    /\ doc' = Told(call.text)
    /\ call' = Goes("ended")
    /\ UNCHANGED <<disk, anchored, undo, setting, server, calls>>

Runs == Wait \/ Decide \/ AskRange \/ AskFull \/ Finish \/ Mint \/ Push \/ WriteOut \/ Rewrite \/ Tell
Next ==
    \/ \E hunks \in SUBSET Region : Edit(hunks)
    \/ \E r \in Region \cup {0} : Format({r} \ {0})
    \/ Write
    \/ Runs

Spec == Init /\ [][Next]_vars /\ WF_vars(Runs)
-----------------------------------------------------------------------------
TypeOK ==
    /\ {disk.v, doc.v, anchored.v, call.text.v} \subseteq -2..MaxCalls
    /\ call.kind \in {"none", "edit", "write", "format"}
    /\ call.status \in {"none", "silent", "noop", "skipped", "formatted", "failed", "refused"}
    /\ call.hunks \subseteq Region /\ call.ranges \subseteq Region
    /\ calls \in 0..MaxCalls

\* No text is put together from an answer to another text: each request is answered from
\* the text its edits are applied to.
NeverTorn == Torn \notin {disk, doc, call.text}

\* What the call reports of its format is so of the file: formatted in the regions it
\* asked for, or with the model's text as it was.
ReportIsDisk ==
    call.pc = "ended" =>
        CASE call.status = "formatted" ->
               disk.v = call.model.v /\ (call.hunks \subseteq disk.done \/ Region = disk.done)
          [] call.status \in {"silent", "noop", "skipped"} -> disk = call.model
          [] call.status \in {"failed", "refused"} -> disk = call.before
          [] OTHER -> TRUE

\* One undo entry covers a call: at rest the newest leads back to before it, and from
\* the text that is on disk, formatted or not.  A call that failed left none.
UndoCoversFormat ==
    call.pc = "ended" /\ call.kind \in {"edit", "format"} =>
        IF call.pushed /\ call.status # "failed"
        THEN undo # <<>> /\ Last(undo) = [before |-> call.before, after |-> disk]
        ELSE undo = <<>> \/ Last(undo) # [before |-> call.before, after |-> call.text]

\* After a call that succeeded a running server's copy is the file.
CopyFollows ==
    call.pc = "ended" /\ Ready /\ call.status \notin {"failed", "refused"} => doc = disk

\* Format pass: no text is made of an answer to another text, what is reported is what the
\* file holds, one undo entry leads back over edit and format, the server's copy follows.
\* Without "late": a method that goes away in the middle of a pass is late_refusal's.
FormatAccounted == NeverTorn /\ ReportIsDisk /\ UndoCoversFormat /\ CopyFollows
=============================================================================
