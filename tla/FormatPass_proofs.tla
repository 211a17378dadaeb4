------------------------- MODULE FormatPass_proofs -------------------------
(***************************************************************************)
(* Theorems about FormatPass, for every set of regions, every number of    *)
(* calls and every choice of what may fail.                                *)
(***************************************************************************)
EXTENDS FormatPass, SequenceTheorems, TLAPS

\* The sets the variables range over.
AllTexts == [v : Int, done : SUBSET Region]
Entries == [before : AllTexts, after : AllTexts]
\* Where a call has not written yet; the write tool has, at the same places.
Unwritten == {"wait", "decide", "range", "full", "finish", "mint", "push", "write"}
AllCalls == [pc : Unwritten \cup {"idle", "rewrite", "tell", "ended"},
             kind : {"none", "edit", "write", "format"},
             before : AllTexts, model : AllTexts, text : AllTexts,
             ranges : SUBSET Region, hunks : SUBSET Region,
             status : {"none", "silent", "noop", "skipped", "formatted", "failed", "refused"},
             pushed : BOOLEAN]

Typed ==
    /\ disk \in AllTexts /\ doc \in AllTexts /\ anchored \in AllTexts
    /\ call \in AllCalls /\ undo \in Seq(Entries) /\ calls \in 0..MaxCalls

\* Versions are those of calls so far, and a pass only adds regions to the model's text.
Whole(t) == t.v # -1 /\ t.v >= -2 /\ t.v <= calls
Wholes ==
    /\ Whole(disk) /\ Whole(doc) /\ Whole(anchored) /\ Whole(call.model)
    /\ call.text.v = call.model.v /\ call.model.done \subseteq call.text.done

\* What the file holds at each place of a call.
GaveUp == call.status \in {"failed", "refused"}
FileHolds ==
    /\ call.pc # "idle" => call.kind # "none"
    /\ call.kind = "format" => call.before = call.model
    /\ call.pc \in Unwritten /\ call.kind # "write" => disk = call.before
    /\ call.pc \in Unwritten \cup {"rewrite"} /\ call.kind = "write" => disk = call.model
    /\ call.pc = "rewrite" => call.kind = "write"
    /\ call.pc \in {"wait", "range", "mint", "push", "write"} => call.kind # "write"
    /\ call.pc = "tell" => disk = call.text
    /\ call.pc = "ended" => disk = IF GaveUp THEN call.before ELSE call.text

\* What the server's copy holds where an answer is applied, and at the end.
CopyHolds ==
    /\ call.pc = "range" => doc = call.text
    /\ call.pc = "full" => doc = call.model
    /\ call.pc = "finish" /\ call.kind = "format" => doc = call.model
    /\ call.pc = "ended" /\ Ready /\ ~GaveUp => doc = disk

\* How far a pass got, and what it will report of it.  The format tool asks for at most one
\* range.
Reached(t) == call.hunks \subseteq t.done \/ Region = t.done
PassGoes ==
    /\ call.pc \in {"wait", "decide"} => call.text = call.model
    /\ call.kind = "format" => \A a, b \in call.hunks : a = b
    /\ call.pc = "range" =>
         /\ call.ranges \subseteq call.hunks /\ call.hunks \subseteq call.ranges \cup call.text.done
         /\ call.kind = "format" => call.text = call.model
    /\ call.pc = "finish" => Reached(call.text)
    /\ call.pc \in {"mint", "push", "write", "rewrite", "tell"} \/ (call.pc = "ended" /\ ~GaveUp) =>
         /\ call.status \in {"silent", "noop", "skipped", "formatted"}
         /\ IF call.status = "formatted" THEN Reached(call.text) ELSE call.text = call.model
    /\ call.pc \in {"mint", "push", "write"} /\ call.kind = "format" => call.text # call.model
    /\ call.pc \in Unwritten /\ call.kind = "edit" => call.before.v < call.model.v

\* Every undo entry but that of a call before its write leads back to a text the file has
\* moved on from; that of the call leads from its text.
Older(a, b) == a.v < b.v \/ (a.v = b.v /\ a.done \subseteq b.done /\ a.done # b.done)
UndoHolds ==
    /\ \A i \in 1..Len(undo) : (call.pc = "write" => i < Len(undo)) => Older(undo[i].before, disk)
    /\ call.pc \in Unwritten => (call.pushed <=> call.pc = "write")
    /\ call.pc = "tell" /\ call.kind # "write" => call.pushed
    /\ call.pc \in {"write", "tell", "ended"} /\ call.kind # "write" /\ call.pushed /\ call.status # "failed" =>
         undo # <<>> /\ undo[Len(undo)] = [before |-> call.before, after |-> call.text]
    /\ call.pc = "ended" /\ call.status = "refused" => ~call.pushed
    /\ call.pc = "ended" /\ call.kind # "write" /\ ~(call.pushed /\ call.status # "failed") =>
         disk = call.before

FormatInv == Typed /\ Wholes /\ FileHolds /\ CopyHolds /\ PassGoes /\ UndoHolds
-----------------------------------------------------------------------------
LEMMA InitFormat == Init => FormatInv
<1> SUFFICES ASSUME Init PROVE FormatInv
    OBVIOUS
<1> USE FormatAssumption
<1>1. /\ disk = Text(0, {}) /\ doc = NoText /\ anchored = NoText /\ undo = <<>> /\ call = AtRest /\ calls = 0
      /\ NoText \in AllTexts /\ NoText.v = -2 /\ Text(0, {}) \in AllTexts /\ Text(0, {}).v = 0
      BY DEF Init, Text, NoText, AllTexts
<1>2. /\ AtRest \in AllCalls /\ AtRest.pc = "idle" /\ AtRest.kind = "none" /\ AtRest.model = NoText
      /\ AtRest.text = NoText /\ AtRest.hunks = {}
      BY <1>1 DEF AtRest, AllCalls
<1>3. <<>> \in Seq(Entries) /\ Len(<<>>) = 0
      OBVIOUS
<1>4. Typed
      BY <1>1, <1>2, <1>3 DEF Typed
<1>5. Wholes
      BY <1>1, <1>2 DEF Wholes, Whole
<1>6. FileHolds /\ CopyHolds /\ PassGoes /\ UndoHolds
      BY <1>1, <1>2, <1>3 DEF FileHolds, CopyHolds, PassGoes, UndoHolds, Unwritten
<1> QED BY <1>4, <1>5, <1>6 DEF FormatInv

\* A call begins: the one before it is over, and this one is about the file as it is.
Begun(kind, ranges, model) ==
    /\ call' \in AllCalls /\ call'.kind = kind /\ call'.before = disk /\ call'.hunks = ranges
    /\ call'.model = model /\ call'.text = model /\ ~call'.pushed

LEMMA EditHolds ==
    ASSUME FormatInv, NEW hunks \in SUBSET Region, Edit(hunks)
    PROVE  FormatInv'
<1> USE FormatAssumption
<1> DEFINE t == Text(calls', disk.done \ hunks)
<1>1. /\ Typed /\ Wholes /\ UndoHolds /\ call.pc \in {"idle", "ended"}
      /\ calls < MaxCalls /\ calls' = calls + 1 /\ UNCHANGED <<disk, doc, anchored, undo, setting, server>>
      BY DEF FormatInv, Edit
<1>2. t \in AllTexts /\ t.v = calls + 1
      BY <1>1 DEF Typed, AllTexts, Text
<1>3. call' = [AtRest EXCEPT !.pc = "decide", !.kind = "edit", !.before = disk, !.hunks = hunks,
                             !.model = t, !.text = t]
      BY DEF Edit
<1> HIDE DEF t
<1>4. Begun("edit", hunks, t) /\ call'.pc = "decide"
      BY <1>1, <1>2, <1>3 DEF Begun, AtRest, AllCalls, Typed, NoText, Text, AllTexts, Unwritten
<1>5. Typed'
      BY <1>1, <1>4 DEF Begun, Typed
<1>6. Wholes'
      BY <1>1, <1>2, <1>4 DEF Begun, Wholes, Whole, Typed, AllTexts
<1>7. disk.v < t.v
      BY <1>1, <1>2 DEF Wholes, Whole, Typed, AllTexts
<1>8. FileHolds' /\ CopyHolds' /\ PassGoes'
      BY <1>1, <1>4, <1>7 DEF Begun, FileHolds, CopyHolds, PassGoes, GaveUp, Unwritten
<1>9. UndoHolds'
      BY <1>1, <1>4 DEF Begun, UndoHolds, Unwritten
<1> QED BY <1>5, <1>6, <1>8, <1>9 DEF FormatInv

LEMMA FormatHolds ==
    ASSUME FormatInv, NEW ranges \in SUBSET Region, \A a, b \in ranges : a = b, Format(ranges)
    PROVE  FormatInv'
<1> USE FormatAssumption
<1>1. /\ Typed /\ Wholes /\ UndoHolds /\ call.pc \in {"idle", "ended"}
      /\ calls < MaxCalls /\ calls' = calls + 1 /\ UNCHANGED <<disk, doc, anchored, undo, setting, server>>
      BY DEF FormatInv, Format
<1>2. call' = [AtRest EXCEPT !.pc = "wait", !.kind = "format", !.before = disk, !.hunks = ranges,
                             !.model = disk, !.text = disk]
      BY DEF Format
<1>3. Begun("format", ranges, disk) /\ call'.pc = "wait"
      BY <1>1, <1>2 DEF Begun, AtRest, AllCalls, Typed, NoText, Text, AllTexts, Unwritten
<1>4. Typed'
      BY <1>1, <1>3 DEF Begun, Typed
<1>5. Wholes'
      BY <1>1, <1>3 DEF Begun, Wholes, Whole, Typed, AllTexts
<1>6. FileHolds' /\ CopyHolds' /\ PassGoes'
      BY <1>1, <1>3 DEF Begun, FileHolds, CopyHolds, PassGoes, GaveUp, Unwritten
<1>7. UndoHolds'
      BY <1>1, <1>3 DEF Begun, UndoHolds, Unwritten
<1> QED BY <1>4, <1>5, <1>6, <1>7 DEF FormatInv

\* A later text of the file: nothing that was older is so no longer.
LEMMA OlderStays ==
    ASSUME NEW a \in AllTexts, NEW b \in AllTexts, NEW c \in AllTexts, Older(a, b), Older(b, c)
    PROVE  Older(a, c)
BY DEF Older, AllTexts

LEMMA WriteHolds ==
    ASSUME FormatInv, Write
    PROVE  FormatInv'
<1> USE FormatAssumption
<1> DEFINE t == Text(calls', {})
<1>1. /\ Typed /\ Wholes /\ UndoHolds /\ call.pc \in {"idle", "ended"}
      /\ calls < MaxCalls /\ calls' = calls + 1 /\ UNCHANGED <<doc, anchored, undo, setting, server>>
      BY DEF FormatInv, Write
<1>2. t \in AllTexts /\ t.v = calls + 1
      BY <1>1 DEF Typed, AllTexts, Text
<1>3. Older(disk, t)
      BY <1>1, <1>2 DEF Wholes, Whole, Typed, AllTexts, Older
<1>4. \A i \in 1..Len(undo) : Older(undo[i].before, disk) /\ undo[i].before \in AllTexts
  <2>1. \A i \in 1..Len(undo) : undo[i] \in Entries
        BY <1>1 DEF Typed
  <2> QED BY <1>1, <2>1 DEF UndoHolds, Entries
<1>5. CASE /\ disk' = t
           /\ call' = [AtRest EXCEPT !.pc = "decide", !.kind = "write", !.before = disk,
                                     !.model = t, !.text = t]
  <2> HIDE DEF t
  <2>1. Begun("write", {}, t) /\ call'.pc = "decide"
        BY <1>1, <1>2, <1>5 DEF Begun, AtRest, AllCalls, Typed, NoText, Text, AllTexts, Unwritten
  <2>2. Typed'
        BY <1>1, <1>2, <1>5, <2>1 DEF Begun, Typed
  <2>3. Wholes'
        BY <1>1, <1>2, <1>5, <2>1 DEF Begun, Wholes, Whole, Typed, AllTexts
  <2>4. FileHolds' /\ CopyHolds' /\ PassGoes'
        BY <1>5, <2>1 DEF Begun, FileHolds, CopyHolds, PassGoes, GaveUp, Unwritten
  <2>5. \A i \in 1..Len(undo) : Older(undo[i].before, t)
        BY <1>1, <1>2, <1>3, <1>4, OlderStays DEF Typed
  <2>6. UndoHolds'
        BY <1>1, <1>5, <2>1, <2>5 DEF Begun, UndoHolds, Unwritten
  <2> QED BY <2>2, <2>3, <2>4, <2>6 DEF FormatInv
<1>6. CASE /\ disk' = disk
           /\ call' = [AtRest EXCEPT !.pc = "ended", !.kind = "write", !.before = disk, !.status = "failed"]
  <2>1. NoText \in AllTexts /\ NoText.v = -2
        BY DEF NoText, Text, AllTexts
  <2>2. Begun("write", {}, NoText) /\ call'.pc = "ended" /\ call'.status = "failed"
        BY <1>1, <1>6, <2>1 DEF Begun, AtRest, AllCalls, Typed, Unwritten
  <2>3. Typed'
        BY <1>1, <1>6, <2>2 DEF Begun, Typed
  <2>4. Wholes'
        BY <1>1, <1>6, <2>1, <2>2 DEF Begun, Wholes, Whole, Typed, AllTexts
  <2>5. FileHolds' /\ CopyHolds' /\ PassGoes'
        BY <1>6, <2>2 DEF Begun, FileHolds, CopyHolds, PassGoes, GaveUp, Unwritten
  <2>6. UndoHolds'
        BY <1>1, <1>4, <1>6, <2>2 DEF Begun, UndoHolds, Unwritten
  <2> QED BY <2>3, <2>4, <2>5, <2>6 DEF FormatInv
<1> QED BY <1>5, <1>6 DEF Write
-----------------------------------------------------------------------------
\* What every later step leaves alone.
SameCall ==
    /\ call'.kind = call.kind /\ call'.before = call.before /\ call'.model = call.model
    /\ call'.hunks = call.hunks

LEMMA WaitHolds ==
    ASSUME FormatInv, Wait
    PROVE  FormatInv'
<1>1. /\ Typed /\ Wholes /\ FileHolds /\ PassGoes /\ UndoHolds /\ call.pc = "wait"
      /\ UNCHANGED <<disk, doc, anchored, undo, setting, calls>>
      BY DEF FormatInv, Wait
<1>2. /\ call' \in AllCalls /\ SameCall /\ call'.text = call.text /\ call'.pushed = call.pushed
      /\ call'.pc = "decide" \/ (call'.pc = "ended" /\ call'.status = "refused")
      BY <1>1 DEF Wait, Goes, Over, SameCall, Typed, AllCalls, Unwritten
<1>3. Typed' /\ Wholes'
      BY <1>1, <1>2 DEF Typed, Wholes, Whole, SameCall
<1>4. FileHolds' /\ CopyHolds' /\ PassGoes' /\ UndoHolds'
      BY <1>1, <1>2 DEF FileHolds, CopyHolds, PassGoes, UndoHolds, SameCall, GaveUp, Unwritten, Reached
<1> QED BY <1>3, <1>4 DEF FormatInv

\* Out of the pass: the tool stops, the automatic pass goes on with the model's text.
LEMMA OutHolds ==
    ASSUME FormatInv, NEW status \in {"silent", "skipped"}, call' = Unformatted(status),
           call.pc \in {"decide", "range", "full"},
           UNCHANGED <<disk, anchored, undo, setting, server, calls>>,
           doc' \in AllTexts, Whole(doc')
    PROVE  FormatInv'
<1>1. Typed /\ Wholes /\ FileHolds /\ PassGoes /\ UndoHolds
      BY DEF FormatInv
<1>2. /\ call' \in AllCalls /\ SameCall /\ call'.pushed = call.pushed
      /\ IF call.kind = "format" THEN call'.pc = "ended" /\ call'.text = call.text /\ GaveUp'
         ELSE /\ call'.pc = IF call.kind = "edit" THEN "mint" ELSE "tell"
              /\ call'.status = status /\ call'.text = call.model
      BY <1>1 DEF Unformatted, Over, SameCall, Typed, AllCalls, Unwritten, GaveUp
<1>3. Typed' /\ Wholes'
      BY <1>1, <1>2 DEF Typed, Wholes, Whole, SameCall
<1>4. call.kind \in {"edit", "write", "format"}
      BY <1>1 DEF Typed, AllCalls, FileHolds
<1>5. FileHolds' /\ CopyHolds'
      BY <1>1, <1>2, <1>4 DEF FileHolds, CopyHolds, SameCall, GaveUp, Unwritten
<1>6. PassGoes'
      BY <1>1, <1>2, <1>4 DEF PassGoes, SameCall, GaveUp, Unwritten
<1>7. UndoHolds'
  <2>1. ~call'.pushed
        BY <1>1, <1>2 DEF UndoHolds, Unwritten
  <2>2. call.kind # "write" => disk = call.before
        BY <1>1, <1>2 DEF FileHolds, Unwritten
  <2>3. call.kind # "write" => call'.pc # "tell"
        BY <1>2, <1>4
  <2> QED BY <1>1, <1>2, <2>1, <2>2, <2>3 DEF UndoHolds, SameCall, Unwritten
<1> QED BY <1>3, <1>5, <1>6, <1>7 DEF FormatInv

LEMMA DecideHolds ==
    ASSUME FormatInv, Decide
    PROVE  FormatInv'
<1>1. /\ Typed /\ Wholes /\ FileHolds /\ PassGoes /\ UndoHolds /\ call.pc = "decide"
      /\ UNCHANGED <<disk, anchored, undo, setting, server, calls>>
      /\ call.text = call.model /\ call.model \in AllTexts
      BY DEF FormatInv, Decide, PassGoes, Typed, AllCalls
<1>2. CASE call' = Unformatted("silent") /\ doc' \in {doc, call.model}
  <2>1. doc' \in AllTexts /\ Whole(doc')
        BY <1>1, <1>2 DEF Typed, Wholes, Whole
  <2> QED BY <1>1, <1>2, <2>1, OutHolds
<1>3. CASE call' = Goes("full") /\ doc' = call.model
  <2>1. call' \in AllCalls /\ SameCall /\ call'.text = call.text /\ call'.pushed = call.pushed /\ call'.pc = "full"
        BY <1>1, <1>3 DEF Goes, SameCall, Typed, AllCalls, Unwritten
  <2>2. Typed' /\ Wholes'
        BY <1>1, <1>3, <2>1 DEF Typed, Wholes, Whole, SameCall
  <2>3. FileHolds' /\ CopyHolds' /\ PassGoes' /\ UndoHolds'
        BY <1>1, <1>3, <2>1 DEF FileHolds, CopyHolds, PassGoes, UndoHolds, SameCall, Unwritten
  <2> QED BY <2>2, <2>3 DEF FormatInv
<1>4. CASE WantsRange /\ doc' = call.model /\ call' = [call EXCEPT !.pc = "range", !.ranges = call.hunks]
  <2>1. /\ call' \in AllCalls /\ SameCall /\ call'.text = call.text /\ call'.pushed = call.pushed
        /\ call'.pc = "range" /\ call'.ranges = call.hunks
        BY <1>1, <1>4 DEF SameCall, Typed, AllCalls, Unwritten
  <2>2. call.kind # "write"
        BY <1>4 DEF WantsRange
  <2>3. Typed' /\ Wholes'
        BY <1>1, <1>4, <2>1 DEF Typed, Wholes, Whole, SameCall
  <2>4. FileHolds' /\ CopyHolds' /\ PassGoes' /\ UndoHolds'
        BY <1>1, <1>4, <2>1, <2>2 DEF FileHolds, CopyHolds, PassGoes, UndoHolds, SameCall, Unwritten
  <2> QED BY <2>3, <2>4 DEF FormatInv
<1> QED BY <1>1, <1>2, <1>3, <1>4 DEF Decide, Synced

\* The answer fits: the copy is the text it is applied to.
LEMMA AnswerFits ==
    ASSUME NEW t \in AllTexts, NEW regions \in SUBSET Region, doc = t
    PROVE  /\ Fitted(t, regions) \in AllTexts /\ Fitted(t, regions).v = t.v
           /\ Fitted(t, regions).done = t.done \cup regions
BY DEF Fitted, Text, AllTexts

\* The pass falls back to the whole document only while it has formatted nothing.
FallsBackWhole == call.pc = "range" /\ call'.pc = "full" => call.text = call.model

LEMMA AskRangeHolds ==
    ASSUME FormatInv, AskRange, FallsBackWhole
    PROVE  FormatInv'
<1>1. /\ Typed /\ Wholes /\ FileHolds /\ CopyHolds /\ PassGoes /\ UndoHolds /\ call.pc = "range"
      /\ UNCHANGED <<disk, anchored, undo, setting, server, calls>>
      /\ doc = call.text /\ call.text \in AllTexts /\ call.model \in AllTexts
      /\ call.kind # "write" /\ call.ranges \subseteq call.hunks /\ call.hunks \subseteq Region
      BY DEF FormatInv, AskRange, PassGoes, CopyHolds, FileHolds, Typed, AllCalls
<1>2. Whole(doc)
      BY <1>1 DEF Wholes, Whole
<1>3. CASE doc' = doc /\ call' \in {Unformatted("silent"), Unformatted("skipped")}
      BY <1>1, <1>2, <1>3, OutHolds DEF Typed, Whole
<1>4. CASE doc' = doc /\ call' = Goes("full")
  <2>1. call' \in AllCalls /\ SameCall /\ call'.text = call.text /\ call'.pushed = call.pushed /\ call'.pc = "full"
        BY <1>1, <1>4 DEF Goes, SameCall, Typed, AllCalls, Unwritten
  <2>2. call.text = call.model
        BY <1>1, <2>1 DEF FallsBackWhole
  <2>3. Typed' /\ Wholes'
        BY <1>1, <1>4, <2>1 DEF Typed, Wholes, Whole, SameCall
  <2>4. FileHolds' /\ CopyHolds' /\ PassGoes' /\ UndoHolds'
        BY <1>1, <1>4, <2>1, <2>2 DEF FileHolds, CopyHolds, PassGoes, UndoHolds, SameCall, Unwritten
  <2> QED BY <2>3, <2>4 DEF FormatInv
<1>5. ASSUME NEW r \in call.ranges, NEW t, t = Fitted(call.text, {r}),
             \/ call.ranges = {r} /\ doc' = doc
                /\ call' = [call EXCEPT !.pc = "finish", !.ranges = {}, !.text = t]
             \/ call.ranges # {r} /\ doc' = t
                /\ call' = [call EXCEPT !.ranges = @ \ {r}, !.text = t]
      PROVE  FormatInv'
  <2>1. t \in AllTexts /\ t.v = call.text.v /\ t.done = call.text.done \cup {r} /\ r \in call.hunks
        BY <1>1, <1>5, AnswerFits
  <2>2. /\ call' \in AllCalls /\ SameCall /\ call'.text = t /\ call'.pushed = call.pushed
        /\ IF call.ranges = {r} THEN call'.pc = "finish"
           ELSE call'.pc = "range" /\ call'.ranges = call.ranges \ {r}
        BY <1>1, <1>5, <2>1, ZenonT(60) DEF SameCall, Typed, AllCalls, Unwritten
  <2>3. Typed' /\ Wholes'
        BY <1>1, <1>5, <2>1, <2>2 DEF Typed, Wholes, Whole, SameCall
  <2>4. FileHolds' /\ UndoHolds'
        BY <1>1, <1>5, <2>1, <2>2 DEF FileHolds, UndoHolds, SameCall, Unwritten
  <2>5. call.kind = "format" => call.ranges = {r} /\ call.text = call.model
        BY <1>1, <1>5 DEF PassGoes
  <2>6. CopyHolds'
        BY <1>1, <1>5, <2>1, <2>2, <2>5 DEF CopyHolds, SameCall
  <2>7. PassGoes'
        BY <1>1, <1>5, <2>1, <2>2, <2>5 DEF PassGoes, SameCall, Unwritten, Reached
  <2> QED BY <2>3, <2>4, <2>6, <2>7 DEF FormatInv
<1> QED BY <1>3, <1>4, <1>5 DEF AskRange, Ranged, RangeRefused

LEMMA AskFullHolds ==
    ASSUME FormatInv, AskFull
    PROVE  FormatInv'
<1>1. /\ Typed /\ Wholes /\ FileHolds /\ CopyHolds /\ PassGoes /\ UndoHolds /\ call.pc = "full"
      /\ UNCHANGED <<disk, doc, anchored, undo, setting, server, calls>>
      /\ doc = call.model /\ call.model \in AllTexts
      BY DEF FormatInv, AskFull, CopyHolds, Typed, AllCalls
<1>2. CASE call' \in {Unformatted("silent"), Unformatted("skipped")}
      BY <1>1, <1>2, OutHolds DEF Typed, Wholes, Whole
<1>3. ASSUME NEW t, t = Fitted(call.model, Region), call' = [call EXCEPT !.pc = "finish", !.text = t]
      PROVE  FormatInv'
  <2>1. t \in AllTexts /\ t.v = call.model.v /\ t.done = Region /\ call.model.done \subseteq Region
        BY <1>1, <1>3, AnswerFits DEF AllTexts
  <2>2. call' \in AllCalls /\ SameCall /\ call'.text = t /\ call'.pushed = call.pushed /\ call'.pc = "finish"
        BY <1>1, <1>3, <2>1 DEF SameCall, Typed, AllCalls, Unwritten
  <2>3. Typed' /\ Wholes'
        BY <1>1, <2>1, <2>2 DEF Typed, Wholes, Whole, SameCall
  <2>4. FileHolds' /\ CopyHolds' /\ PassGoes' /\ UndoHolds'
        BY <1>1, <2>1, <2>2 DEF FileHolds, CopyHolds, PassGoes, UndoHolds, SameCall, Unwritten, Reached
  <2> QED BY <2>3, <2>4 DEF FormatInv
<1> QED BY <1>2, <1>3 DEF AskFull

LEMMA FinishHolds ==
    ASSUME FormatInv, Finish
    PROVE  FormatInv'
<1>1. /\ Typed /\ Wholes /\ FileHolds /\ CopyHolds /\ PassGoes /\ UndoHolds /\ call.pc = "finish"
      /\ UNCHANGED <<disk, doc, anchored, undo, setting, server, calls>>
      BY DEF FormatInv, Finish
<1>2. /\ call' \in AllCalls /\ SameCall /\ call'.text = call.text /\ call'.pushed = call.pushed
      /\ call'.status = IF call.text = call.model THEN "noop" ELSE "formatted"
      /\ call'.pc = IF call.kind = "format" /\ call.text = call.model THEN "ended"
                    ELSE IF call.kind # "write" THEN "mint"
                    ELSE IF call.text = call.model THEN "tell" ELSE "rewrite"
      BY <1>1 DEF Finish, Over, SameCall, Typed, AllCalls, Unwritten
<1>3. Typed' /\ Wholes'
      BY <1>1, <1>2 DEF Typed, Wholes, Whole, SameCall
<1>4. FileHolds' /\ CopyHolds'
      BY <1>1, <1>2 DEF FileHolds, CopyHolds, SameCall, GaveUp, Unwritten
<1>5. PassGoes' /\ UndoHolds'
      BY <1>1, <1>2 DEF FileHolds, PassGoes, UndoHolds, SameCall, GaveUp, Unwritten, Reached
<1> QED BY <1>3, <1>4, <1>5 DEF FormatInv

\* The text a call writes is later than the one the file holds.
LEMMA WritesLater ==
    ASSUME FormatInv, call.pc \in {"write", "rewrite"}, call.text # call.model \/ call.kind = "edit"
    PROVE  Older(disk, call.text)
<1>1. Typed /\ Wholes /\ FileHolds /\ PassGoes
      BY DEF FormatInv
<1>2. call.text \in AllTexts /\ call.model \in AllTexts /\ call.before \in AllTexts
      BY <1>1 DEF Typed, AllCalls
<1>3. call.text # call.model => call.text.done # call.model.done
      BY <1>1, <1>2 DEF Wholes, AllTexts
<1>4. CASE call.pc = "rewrite" \/ call.kind = "format"
  <2>1. disk = call.model
        BY <1>1, <1>4 DEF FileHolds, Unwritten
  <2>2. call.text # call.model
        BY <1>1, <1>4 DEF FileHolds
  <2> QED BY <1>1, <1>2, <1>3, <2>1, <2>2 DEF Wholes, Older, AllTexts
<1>5. CASE call.pc = "write" /\ call.kind = "edit"
      BY <1>1, <1>2, <1>5 DEF FileHolds, PassGoes, Wholes, Older, AllTexts, Unwritten
<1>6. call.pc = "write" => call.kind \in {"edit", "format"}
      BY <1>1 DEF Typed, AllCalls, FileHolds
<1> QED BY <1>4, <1>5, <1>6

LEMMA MintHolds ==
    ASSUME FormatInv, Mint
    PROVE  FormatInv'
<1>1. /\ Typed /\ Wholes /\ FileHolds /\ PassGoes /\ UndoHolds /\ call.pc = "mint"
      /\ UNCHANGED <<disk, doc, undo, setting, server, calls>> /\ anchored' = call.text
      BY DEF FormatInv, Mint
<1>2. /\ call' \in AllCalls /\ SameCall /\ call'.text = call.text /\ call'.pushed = call.pushed
      /\ call'.status = call.status /\ call'.pc = "push" /\ call.text \in AllTexts
      BY <1>1 DEF Mint, Goes, SameCall, Typed, AllCalls, Unwritten
<1>3. Typed' /\ Wholes'
      BY <1>1, <1>2 DEF Typed, Wholes, Whole, SameCall
<1>4. FileHolds' /\ CopyHolds' /\ PassGoes' /\ UndoHolds'
      BY <1>1, <1>2 DEF FileHolds, CopyHolds, PassGoes, UndoHolds, SameCall, Unwritten, Reached
<1> QED BY <1>3, <1>4 DEF FormatInv

LEMMA PushHolds ==
    ASSUME FormatInv, Push
    PROVE  FormatInv'
<1>1. /\ Typed /\ Wholes /\ FileHolds /\ PassGoes /\ UndoHolds /\ call.pc = "push"
      /\ UNCHANGED <<disk, doc, anchored, setting, server, calls>>
      BY DEF FormatInv, Push
<1>2. /\ call' \in AllCalls /\ SameCall /\ call'.text = call.text /\ call'.pushed
      /\ call'.status = call.status /\ call'.pc = "write"
      BY <1>1 DEF Push, SameCall, Typed, AllCalls, Unwritten
<1>3. /\ undo' \in Seq(Entries) /\ Len(undo') = Len(undo) + 1
      /\ \A i \in 1..Len(undo) : undo'[i] = undo[i]
      /\ undo'[Len(undo')] = [before |-> call.before, after |-> call.text]
  <2>1. [before |-> call.before, after |-> call.text] \in Entries /\ undo \in Seq(Entries)
        BY <1>1 DEF Typed, AllCalls, Entries
  <2> QED BY <2>1 DEF Push, Entry
<1>4. Typed' /\ Wholes'
      BY <1>1, <1>2, <1>3 DEF Typed, Wholes, Whole, SameCall
<1>5. FileHolds' /\ CopyHolds' /\ PassGoes'
      BY <1>1, <1>2 DEF FileHolds, CopyHolds, PassGoes, SameCall, Unwritten, Reached
<1>6. Len(undo) \in Nat
      BY <1>1 DEF Typed
<1>7. UndoHolds'
  <2>1. \A i \in 1..Len(undo') : i < Len(undo') => Older(undo'[i].before, disk')
        BY <1>1, <1>3, <1>6 DEF UndoHolds
  <2>2. undo' # <<>>
        BY <1>3, <1>6
  <2> QED BY <1>2, <1>3, <2>1, <2>2 DEF UndoHolds, SameCall, Unwritten
<1> QED BY <1>4, <1>5, <1>7 DEF FormatInv

LEMMA WriteOutHolds ==
    ASSUME FormatInv, WriteOut
    PROVE  FormatInv'
<1>1. /\ Typed /\ Wholes /\ FileHolds /\ PassGoes /\ UndoHolds /\ call.pc = "write"
      /\ UNCHANGED <<doc, anchored, setting, server, calls>>
      /\ disk \in AllTexts /\ call.text \in AllTexts /\ undo \in Seq(Entries) /\ Len(undo) \in Nat
      /\ call.kind \in {"edit", "format"} /\ disk = call.before
      BY DEF FormatInv, WriteOut, FileHolds, Typed, AllCalls, Unwritten
<1>2. \A i \in 1..Len(undo) : undo[i].before \in AllTexts
  <2>1. \A i \in 1..Len(undo) : undo[i] \in Entries
        BY <1>1
  <2> QED BY <2>1 DEF Entries
<1>3. undo # <<>> /\ undo[Len(undo)] = [before |-> call.before, after |-> call.text] /\ call.pushed
      /\ call.status # "failed"
      BY <1>1 DEF UndoHolds, PassGoes, Unwritten
<1>4. Older(disk, call.text)
      BY <1>1, WritesLater DEF PassGoes
<1>5. CASE disk' = call.text /\ call' = Goes("tell") /\ UNCHANGED undo
  <2>1. /\ call' \in AllCalls /\ SameCall /\ call'.text = call.text /\ call'.pushed = call.pushed
        /\ call'.status = call.status /\ call'.pc = "tell"
        BY <1>1, <1>5 DEF Goes, SameCall, Typed, AllCalls, Unwritten
  <2>2. Typed' /\ Wholes'
        BY <1>1, <1>5, <2>1 DEF Typed, Wholes, Whole, SameCall
  <2>3. FileHolds' /\ CopyHolds' /\ PassGoes'
        BY <1>1, <1>5, <2>1 DEF FileHolds, CopyHolds, PassGoes, SameCall, Unwritten, Reached
  <2>4. \A i \in 1..Len(undo) : Older(undo[i].before, call.text)
    <3>1. TAKE i \in 1..Len(undo)
    <3>2. CASE i < Len(undo)
          BY <1>1, <1>2, <1>4, <3>2, OlderStays DEF UndoHolds
    <3>3. CASE i = Len(undo)
          BY <1>1, <1>3, <1>4, <3>3
    <3> QED BY <1>1, <3>2, <3>3
  <2>5. UndoHolds'
        BY <1>3, <1>5, <2>1, <2>4 DEF UndoHolds, SameCall, Unwritten
  <2> QED BY <2>2, <2>3, <2>5 DEF FormatInv
<1>6. CASE undo' = Front(undo) /\ call' = Over("failed") /\ disk' = disk
  <2>1. /\ call' \in AllCalls /\ SameCall /\ call'.text = call.text /\ call'.pushed = call.pushed
        /\ call'.status = "failed" /\ call'.pc = "ended"
        BY <1>1, <1>6 DEF Over, SameCall, Typed, AllCalls, Unwritten
  <2>2. /\ undo' \in Seq(Entries) /\ Len(undo') = Len(undo) - 1
        /\ \A i \in 1..Len(undo') : undo'[i] = undo[i]
    <3>1. Len(undo) >= 1
          BY <1>1, <1>3
    <3>2. \A i \in 1..Len(undo) - 1 : undo[i] \in Entries
          BY <1>1
    <3>3. Len(undo) - 1 \in Int /\ (Len(undo) - 1) - 1 + 1 = Len(undo) - 1
          BY <1>1
    <3> QED BY <1>1, <1>6, <3>1, <3>2, <3>3, SubSeqProperties DEF Front
  <2>3. Typed' /\ Wholes'
        BY <1>1, <1>6, <2>1, <2>2 DEF Typed, Wholes, Whole, SameCall
  <2>4. FileHolds' /\ CopyHolds' /\ PassGoes'
        BY <1>1, <1>6, <2>1 DEF FileHolds, CopyHolds, PassGoes, SameCall, GaveUp, Unwritten, Reached
  <2>5. UndoHolds'
        BY <1>1, <1>6, <2>1, <2>2 DEF UndoHolds, SameCall, Unwritten
  <2> QED BY <2>3, <2>4, <2>5 DEF FormatInv
<1> QED BY <1>5, <1>6 DEF WriteOut

LEMMA RewriteHolds ==
    ASSUME FormatInv, Rewrite
    PROVE  FormatInv'
<1>1. /\ Typed /\ Wholes /\ FileHolds /\ PassGoes /\ UndoHolds /\ call.pc = "rewrite"
      /\ UNCHANGED <<doc, anchored, undo, setting, server, calls>>
      /\ disk \in AllTexts /\ call.text \in AllTexts /\ call.model \in AllTexts
      /\ call.kind = "write" /\ disk = call.model
      BY DEF FormatInv, Rewrite, FileHolds, Typed, AllCalls
<1>2. /\ call' \in AllCalls /\ SameCall /\ call'.pushed = call.pushed /\ call'.pc = "tell"
      /\ disk' = call'.text
      /\ \/ call'.text = call.text /\ call'.status = call.status
         \/ call'.text = call.model /\ call'.status = "skipped"
      BY <1>1 DEF Rewrite, Goes, SameCall, Typed, AllCalls, Unwritten
<1>3. Typed' /\ Wholes'
      BY <1>1, <1>2 DEF Typed, Wholes, Whole, SameCall
<1>4. FileHolds' /\ CopyHolds' /\ PassGoes'
      BY <1>1, <1>2 DEF FileHolds, CopyHolds, PassGoes, SameCall, Unwritten, Reached
<1>5. \A i \in 1..Len(undo) : Older(undo[i].before, disk')
  <2>1. TAKE i \in 1..Len(undo)
  <2>2. Older(undo[i].before, disk) /\ undo[i].before \in AllTexts
    <3>1. undo[i] \in Entries
          BY <1>1 DEF Typed
    <3> QED BY <1>1, <3>1 DEF UndoHolds, Entries
  <2>3. CASE call'.text = call.model
        BY <1>1, <1>2, <2>2, <2>3
  <2>4. CASE call'.text = call.text /\ call.text # call.model
        BY <1>1, <1>2, <2>2, <2>4, WritesLater, OlderStays
  <2> QED BY <1>2, <2>3, <2>4
<1>6. UndoHolds'
      BY <1>1, <1>2, <1>5 DEF UndoHolds, SameCall, Unwritten
<1> QED BY <1>3, <1>4, <1>6 DEF FormatInv

LEMMA TellHolds ==
    ASSUME FormatInv, Tell
    PROVE  FormatInv'
<1>1. /\ Typed /\ Wholes /\ FileHolds /\ PassGoes /\ UndoHolds /\ call.pc = "tell"
      /\ UNCHANGED <<disk, anchored, undo, setting, server, calls>>
      /\ doc' = IF Ready THEN call.text ELSE doc
      /\ disk = call.text /\ Ready' = Ready
      BY DEF FormatInv, Tell, Told, FileHolds, Ready
<1>2. /\ call' \in AllCalls /\ SameCall /\ call'.text = call.text /\ call'.pushed = call.pushed
      /\ call'.status = call.status /\ call'.pc = "ended" /\ call.text \in AllTexts
      BY <1>1 DEF Tell, Goes, SameCall, Typed, AllCalls, Unwritten
<1>3. Typed' /\ Wholes'
      BY <1>1, <1>2 DEF Typed, Wholes, Whole, SameCall
<1>4. ~GaveUp /\ ~GaveUp'
      BY <1>1, <1>2 DEF PassGoes, GaveUp
<1>5. FileHolds' /\ CopyHolds' /\ PassGoes'
      BY <1>1, <1>2, <1>4 DEF FileHolds, CopyHolds, PassGoes, SameCall, Unwritten, Reached
<1>6. UndoHolds'
      BY <1>1, <1>2, <1>4 DEF UndoHolds, SameCall, GaveUp, Unwritten
<1> QED BY <1>3, <1>5, <1>6 DEF FormatInv
-----------------------------------------------------------------------------
\* One step keeps the invariant.
LEMMA StepHolds ==
    ASSUME FormatInv, [Next]_vars, [FallsBackWhole]_vars
    PROVE  FormatInv'
<1>1. CASE UNCHANGED vars
      BY <1>1 DEF vars, FormatInv, Typed, Wholes, Whole, FileHolds, CopyHolds, PassGoes,
                  UndoHolds, GaveUp, Reached, Ready
<1>2. CASE Next /\ FallsBackWhole
  <2>1. ASSUME NEW hunks \in SUBSET Region, Edit(hunks) PROVE FormatInv'
        BY <2>1, EditHolds
  <2>2. ASSUME NEW r \in Region \cup {0}, Format({r} \ {0}) PROVE FormatInv'
        BY <2>2, FormatHolds
  <2>3. CASE Runs
        BY <1>2, <2>3, WaitHolds, DecideHolds, AskRangeHolds, AskFullHolds, FinishHolds, MintHolds,
           PushHolds, WriteOutHolds, RewriteHolds, TellHolds DEF Runs
  <2> QED BY <1>2, <2>1, <2>2, <2>3, WriteHolds DEF Next
<1> QED BY <1>1, <1>2

\* A server whose methods do not go away in the middle of a pass lets it fall back so.
LEMMA RefusedEarly ==
    ASSUME FormatInv, [Next]_vars, "late" \notin Fail
    PROVE  [FallsBackWhole]_vars
<1>1. SUFFICES ASSUME Next, call.pc = "range", call'.pc = "full"
               PROVE  call.text = call.model
      BY DEF FallsBackWhole
<1>2. call \in AllCalls
      BY DEF FormatInv, Typed
<1>3. AskRange
      BY <1>1, <1>2 DEF Next, Runs, Edit, Format, Write, Wait, Decide, AskFull, Finish, Mint,
                        Push, WriteOut, Rewrite, Tell
<1>4. CASE RangeRefused
      BY <1>4 DEF RangeRefused
<1>5. ASSUME NEW r \in call.ranges, Ranged(r) PROVE FALSE
      BY <1>1, <1>2, <1>5 DEF Ranged, AllCalls
<1>6. call' # Unformatted("skipped")
      BY <1>1, <1>2 DEF Unformatted, Over, AllCalls
<1> QED BY <1>3, <1>4, <1>5, <1>6 DEF AskRange

\* Every state has the invariant that is reached while passes fall back only with nothing
\* formatted: runAutoFormat's ranges are not refused after one has been applied.
THEOREM PassInvariant == Spec /\ [][FallsBackWhole]_vars => []FormatInv
BY InitFormat, StepHolds, PTL DEF Spec

\* The type invariant of the model.
THEOREM PassTyped == Spec /\ [][FallsBackWhole]_vars => []TypeOK
<1>1. FormatInv => TypeOK
  <2>1. SUFFICES ASSUME FormatInv PROVE TypeOK
        OBVIOUS
  <2>2. /\ disk \in AllTexts /\ doc \in AllTexts /\ anchored \in AllTexts /\ call \in AllCalls
        /\ calls \in 0..MaxCalls /\ call.model \in AllTexts
        BY <2>1 DEF FormatInv, Typed, AllCalls
  <2>3. {disk.v, doc.v, anchored.v, call.model.v} \subseteq -2..MaxCalls /\ call.text.v = call.model.v
        BY <2>1, <2>2, FormatAssumption DEF FormatInv, Wholes, Whole, AllTexts
  <2> QED BY <2>2, <2>3 DEF TypeOK, AllCalls
<1> QED BY <1>1, PassInvariant, PTL

\* The invariant says what the pass promises.
LEMMA InvAccounted == FormatInv => FormatAccounted
<1>1. FormatInv => NeverTorn
      BY DEF FormatInv, Wholes, Whole, NeverTorn, Torn, Text
<1>2. FormatInv => ReportIsDisk
  <2>1. SUFFICES ASSUME FormatInv, call.pc = "ended"
                 PROVE  CASE call.status = "formatted" ->
                               disk.v = call.model.v /\ (call.hunks \subseteq disk.done \/ Region = disk.done)
                          [] call.status \in {"silent", "noop", "skipped"} -> disk = call.model
                          [] call.status \in {"failed", "refused"} -> disk = call.before
                          [] OTHER -> TRUE
        BY DEF ReportIsDisk
  <2>2. disk = IF GaveUp THEN call.before ELSE call.text
        BY <2>1 DEF FormatInv, FileHolds
  <2>3. CASE GaveUp
        BY <2>2, <2>3 DEF GaveUp
  <2>4. CASE ~GaveUp
        BY <2>1, <2>2, <2>4 DEF FormatInv, PassGoes, Wholes, Reached, GaveUp
  <2> QED BY <2>3, <2>4
<1>3. FormatInv => UndoCoversFormat
  <2>1. SUFFICES ASSUME FormatInv, call.pc = "ended", call.kind \in {"edit", "format"}
                 PROVE  IF call.pushed /\ call.status # "failed"
                        THEN undo # <<>> /\ Last(undo) = [before |-> call.before, after |-> disk]
                        ELSE undo = <<>> \/ Last(undo) # [before |-> call.before, after |-> call.text]
        BY DEF UndoCoversFormat
  <2>2. CASE call.pushed /\ call.status # "failed"
        BY <2>1, <2>2 DEF FormatInv, UndoHolds, FileHolds, GaveUp, Last
  <2>3. CASE ~(call.pushed /\ call.status # "failed") /\ undo # <<>>
    <3>1. disk = call.before
          BY <2>1, <2>3 DEF FormatInv, UndoHolds
    <3>2. Len(undo) \in 1..Len(undo)
          BY <2>1, <2>3 DEF FormatInv, Typed
    <3>3. Older(undo[Len(undo)].before, disk)
          BY <2>1, <3>2 DEF FormatInv, UndoHolds
    <3>4. ~Older(disk, disk)
          BY <2>1 DEF Older, FormatInv, Typed, AllTexts
    <3> QED BY <2>3, <3>1, <3>3, <3>4 DEF Last
  <2> QED BY <2>2, <2>3
<1>4. FormatInv => CopyFollows
      BY DEF FormatInv, CopyHolds, CopyFollows, GaveUp
<1> QED BY <1>1, <1>2, <1>3, <1>4 DEF FormatAccounted

\* The format pass of an edit, of a write and of the format tool: whatever the settings, the
\* server's offers, the requests that fail and the methods it refuses, no text is torn, the
\* report is what the file holds, the undo entry covers the whole call, and the server's copy
\* is the file - as long as no range is refused after another has been applied and the pass
\* then asks for the whole document, which auto-format.ts:241-253 does not rule out.
THEOREM PassAccounted == Spec /\ [][FallsBackWhole]_vars => []FormatAccounted
BY PassInvariant, InvAccounted, PTL

\* The same of every behaviour, for servers whose methods do not go away in mid-pass.
COROLLARY EarlyRefusalsAccounted ==
    ASSUME "late" \notin Fail
    PROVE  Spec => []FormatAccounted
<1>1. FormatInv /\ [Next]_vars => FormatInv'
      BY RefusedEarly, StepHolds
<1> QED BY <1>1, InitFormat, InvAccounted, PTL DEF Spec
=============================================================================
