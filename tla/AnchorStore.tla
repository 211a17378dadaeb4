---------------------------- MODULE AnchorStore ----------------------------
(***************************************************************************)
(* One file edited through the hashline tools by one process: `read' and   *)
(* `edit' calls of several sessions over the shared `anchor_lines' rows,   *)
(* the sessions' served records and the process's release pool, while      *)
(* other programs change the file.                                         *)
(*                                                                         *)
(* Grain.  The JavaScript of a call runs to completion between two waits   *)
(* for real I/O: from the end of the file's read to the start of its write *)
(* an edit is a chain of microtasks no other call's continuation enters    *)
(* (RunsAlone).  The file itself can change at any moment, and so can      *)
(* anything between two chains.                                            *)
(*                                                                         *)
(* `del' is a replace by no lines (runFileEdits lines 1207-1208) and `sed' *)
(* a replace by lines computed from the range; both are the op "replace".  *)
(***************************************************************************)
EXTENDS AnchorRows, SequencesExt

CONSTANTS
    Task,          \* tool calls that can be in progress at once
    Session,
    SessionOf,     \* the session of each task
    Unserved,      \* no entry in a session's served record
    Keyless,       \* an entry without a fingerprint
    InitialText,   \* what the file may hold at the start
    ExternalText,  \* what other programs may write
    Request,       \* the edit items a call may carry
    MaxItems,      \* bound: items in one edit call
    MaxLine,       \* bound: lines an edit may leave in the file
    Reversals,     \* whether a call may give a range bottom up
    Context,       \* the context_lines setting
    Faults         \* the kinds of trouble that may happen

\* One item of an edit call; an insertion names its line twice.
EditItem == [op : {"replace", "ins"}, from : Anchor, to : Anchor, lines : Seq(Text)]

ASSUME SessionAssumption == SessionOf \in [Task -> Session]
ASSUME ServedAssumption == Unserved # Keyless /\ {Unserved, Keyless} \cap Key = {}
ASSUME TextAssumption ==
    /\ InitialText \subseteq Seq(Text) \ {<<>>}
    /\ ExternalText \subseteq Seq(Text) \ {<<>>}
ASSUME RequestAssumption ==
    /\ Request \subseteq EditItem
    /\ \A item \in Request : item.op = "ins" => item.from = item.to
ASSUME BoundAssumption ==
    /\ MaxItems \in Nat \ {0} /\ MaxLine \in Nat \ {0} /\ Context \in Nat
    /\ Reversals \in BOOLEAN
ASSUME FaultAssumption == Faults \subseteq {"external", "write", "crash"}

VARIABLES
    disk,    \* the file's text
    store,   \* the meta row's text and the anchor rows
    served,  \* per session: the fingerprint recorded for each anchor
    pool,    \* the process's release pool for the file
    call     \* what each task is in the middle of

vars == <<disk, store, served, pool, call>>

\* The echo and diff windows are widened by at least two lines.
Pad == Max({2, Context})

\* Two fields only serve properties: `inStep', the call's plan read rows in step with
\* its text, and `placed', every item named lines of that text.
Idle == [pc |-> "idle", inStep |-> FALSE, base |-> <<>>, cur |-> <<>>,
         h0 |-> <<>>, h |-> <<>>, seen |-> [a \in Anchor |-> Unserved],
         items |-> <<>>, placed |-> FALSE, asked |-> FALSE, bad |-> {}, spans |-> {},
         dropped |-> {}, shown |-> {}]

\* The states of an edit between two waits for I/O.
Chain == {"probe", "mint", "verify", "commit", "serve"}
RunsAlone(t) == \A u \in Task \ {t} : call[u].pc \notin Chain

Init ==
    /\ disk \in InitialText
    /\ store = [text |-> <<>>, rows |-> NoRows]
    /\ served = [s \in Session |-> [a \in Anchor |-> Unserved]]
    /\ pool = {}
    /\ call = [t \in Task |-> Idle]

Finish(t) == call' = [call EXCEPT ![t] = Idle]

\* Mutant of Serve: an entry once made is kept.
ServeOnce(record, anchors, L, c) ==
    [a \in Anchor |->
        LET under == {i \in L : anchors[i] = a}
        IN  IF under = {} \/ record[a] # Unserved THEN record[a] ELSE Canon[c[Max(under)]]]

\* A session's record after lines L of text c were served under `anchors' (a
\* function on lines): the last line wins where an anchor repeats, and a line
\* without an anchor leaves no entry.
Serve(record, anchors, L, c) ==
    [a \in Anchor |->
        LET under == {i \in L : anchors[i] = a}
        IN  IF under = {} THEN record[a] ELSE Canon[c[Max(under)]]]

Forget(record, gone) == [a \in Anchor |-> IF a \in gone THEN Unserved ELSE record[a]]

-----------------------------------------------------------------------------
(* read *)

OpenRead(t) ==
    /\ call[t].pc = "idle"
    /\ call' = [call EXCEPT ![t] = [Idle EXCEPT !.pc = "read", !.cur = disk]]
    /\ UNCHANGED <<disk, store, served, pool>>

\* Mint and serve the window the read shows.
ServeRead(t, lo, hi) ==
    LET c == call[t].cur
        s == SessionOf[t]
    IN  /\ call[t].pc = "read"
        /\ RunsAlone(t)
        /\ 1 <= lo /\ lo <= hi /\ hi <= Len(c)
        /\ store' \in AnchorFor(store, c, lo .. hi, pool)
        /\ served' = [served EXCEPT ![s] =
                        Serve(@, AnchorsFor(store'.rows, c), lo .. hi, c)]
        /\ Finish(t)
        /\ UNCHANGED <<disk, pool>>

-----------------------------------------------------------------------------
(* edit: what an item refers to in a projection h *)

Found(h, a) == {i \in DOMAIN h : h[i] = a}
Resolves(h, a) == Found(h, a) # {}
First(h, a) == Min(Found(h, a))
Ambiguous(h, item) ==
    Cardinality(Found(h, item.from)) > 1 \/ Cardinality(Found(h, item.to)) > 1
Resolved(h, item) == Resolves(h, item.from) /\ Resolves(h, item.to)

\* The range after swapReversedRanges.
Lo(h, item) == Min({First(h, item.from), First(h, item.to)})
Hi(h, item) == Max({First(h, item.from), First(h, item.to)})

\* detectRangeConflicts, on the bounds as given: a reversed range is compared
\* unswapped, and an insertion may sit on a range's last line.
InsertsInto(h, ins, range) ==
    /\ First(h, ins.from) >= First(h, range.from)
    /\ First(h, ins.from) < First(h, range.to)
Conflict(h, a, b) ==
    /\ Resolved(h, a) /\ Resolved(h, b)
    /\ CASE a.op = "ins" /\ b.op = "ins" -> First(h, a.from) = First(h, b.from)
         [] a.op = "ins" /\ b.op # "ins" -> InsertsInto(h, a, b)
         [] a.op # "ins" /\ b.op = "ins" -> InsertsInto(h, b, a)
         [] OTHER -> First(h, a.from) <= First(h, b.to) /\ First(h, b.from) <= First(h, a.to)

\* Application order: from the bottom up, an insertion before a replacement of
\* its line.  An item whose anchor does not resolve sorts anywhere.
InOrder(h, a, b) ==
    Resolves(h, a.from) /\ Resolves(h, b.from) =>
        \/ First(h, a.from) > First(h, b.from)
        \/ First(h, a.from) = First(h, b.from) /\ (a.op = "ins" \/ b.op # "ins")

\* resolveIns: an insertion becomes a replacement of its anchor's line by that
\* line and the new ones below it.
Expand(c, h, item) ==
    IF item.op = "ins" /\ Resolves(h, item.from)
    THEN [item EXCEPT !.lines = <<c[First(h, item.from)]>> \o @]
    ELSE item

\* Bound: the lines an item adds to the file.
Growth(h, item) ==
    IF Resolved(h, item) THEN Len(item.lines) - (Hi(h, item) - Lo(h, item) + 1) ELSE 0

OpenEdit(t) ==
    /\ call[t].pc = "idle"
    /\ call' = [call EXCEPT ![t] = [Idle EXCEPT !.pc = "open", !.cur = disk]]
    /\ UNCHANGED <<disk, store, served, pool>>

\* The rows were written for this text, and no anchor is on two of its lines.
InStep(c) == store.text = c /\ Unique(store.rows)

\* Phases 1 and 2 of runFileEdits on the items of one call, listed in the order
\* phase 3 applies them; a batch that is ambiguous or in conflict ends here.
Plan(t, items) ==
    LET c == call[t].cur
        h == AnchorsFor(store.rows, c)
        expanded == [k \in DOMAIN items |-> Expand(c, h, items[k])]
        refused == \/ \E k \in DOMAIN items : Ambiguous(h, items[k])
                   \/ \E j, k \in DOMAIN items :
                        j < k /\ Conflict(h, items[j], items[k])
        reversed == \E k \in DOMAIN items : /\ Resolved(h, items[k])
                                           /\ First(h, items[k].from) > First(h, items[k].to)
    IN  /\ call[t].pc = "open"
        /\ RunsAlone(t)
        /\ reversed => Reversals
        /\ \A j, k \in DOMAIN items : j < k => InOrder(h, items[j], items[k])
        /\ Len(c) + FoldLeft(LAMBDA n, item : n + Growth(h, item), 0, expanded) <= MaxLine
        /\ call' = [call EXCEPT ![t] =
                IF refused THEN Idle
                ELSE [@ EXCEPT !.pc = "probe", !.inStep = InStep(c),
                        !.placed = \A k \in DOMAIN items : Resolved(h, items[k]),
                        !.base = c, !.h0 = h, !.h = h, !.seen = served[SessionOf[t]], !.items = expanded]]
        /\ UNCHANGED <<disk, store, served, pool>>

-----------------------------------------------------------------------------
(* edit: one item, applyOne *)

Item(t) == Head(call[t].items)

\* The lines mintEchoWindow asks about: from the first anchor down to the
\* second, none when the range is given bottom up.
Asked(t) ==
    LET h == call[t].h
        from == First(h, Item(t).from)
    IN  from .. IF Resolves(h, Item(t).to) THEN First(h, Item(t).to) ELSE from

\* The window a rejection's echo may need.
EchoWindow(t) ==
    LET h == call[t].h
        ends == {First(h, a) : a \in {x \in {Item(t).from, Item(t).to} : Resolves(h, x)}}
    IN  {i \in Lines(call[t].cur) : Min(ends) - Pad <= i /\ i <= Max(ends) + Pad}

\* The verdict comes first: minting serves the window.
Probe(t) ==
    LET c == call[t].cur
        h == call[t].h
        asked == Resolves(h, Item(t).from) /\ Asked(t) # {}
        bad == IF asked
               THEN ProbeLines(store.rows, served[SessionOf[t]], c, h, Asked(t)) ELSE {}
    IN  /\ call[t].pc = "probe"
        /\ asked => ~ProbeThrows(store.rows, c, h, Asked(t))
        /\ call' = [call EXCEPT ![t].asked = asked, ![t].bad = bad,
                ![t].pc = IF Resolves(h, Item(t).from) /\ (asked => bad # {})
                          THEN "mint" ELSE "verify"]
        /\ UNCHANGED <<disk, store, served, pool>>

\* The verdict is negative, or there was nothing to ask: mint and serve the
\* window.
MintEcho(t) ==
    LET c == call[t].cur
        s == SessionOf[t]
    IN  /\ call[t].pc = "mint"
        /\ store' \in AnchorFor(store, c, EchoWindow(t), pool)
        /\ served' = [served EXCEPT ![s] =
                        Serve(@, AnchorsFor(store'.rows, c), EchoWindow(t), c)]
        /\ call' = [call EXCEPT ![t].pc = "verify"]
        /\ UNCHANGED <<disk, pool>>

Target(t) == Lo(call[t].h, Item(t)) .. Hi(call[t].h, Item(t))

\* verifyServedRange: the probe's verdict where there is one, else the served
\* record as it was when the call began, position by position.
Unverified(t) ==
    IF call[t].asked THEN call[t].bad
    ELSE {i \in Target(t) :
            ~ /\ call[t].h[i] # NoAnchor
              /\ call[t].seen[call[t].h[i]] = Canon[call[t].cur[i]]}

Stale(t) == ~Resolved(call[t].h, Item(t))
Accepted(t) ==
    /\ call[t].pc = "verify"
    /\ ~Ambiguous(call[t].h, Item(t))
    /\ ~Stale(t)
    /\ Unverified(t) = {}
Result(t) == Splice(call[t].cur, Lo(call[t].h, Item(t)), Hi(call[t].h, Item(t)),
                    Item(t).lines)

\* The anchors an echo's rows carry: the rows' own after an unverified range,
\* the call's projection where the rows have none or the anchor was stale.
EchoAnchors(t) ==
    LET fresh == AnchorsFor(store.rows, call[t].cur)
    IN  [i \in Lines(call[t].cur) |->
            IF Stale(t) \/ fresh[i] = NoAnchor THEN call[t].h[i] ELSE fresh[i]]

\* What the echo shows: context around the first offending line, or around the
\* bound that did resolve, or nothing.
EchoLines(t) ==
    LET h == call[t].h
        centre == IF Stale(t)
                  THEN {First(h, a) : a \in {x \in {Item(t).from, Item(t).to} :
                                                Resolves(h, x)}}
                  ELSE {Min(Unverified(t))}
    IN  {i \in Lines(call[t].cur) :
            \E m \in centre : m - Context <= i /\ i <= m + Context}

\* Reject-and-serve: the echo's rows enter the served record.
Reject(t) ==
    LET s == SessionOf[t]
    IN  /\ call[t].pc = "verify"
        /\ ~Ambiguous(call[t].h, Item(t))
        /\ ~Stale(t) => Unverified(t) # {}
        /\ served' = [served EXCEPT ![s] =
                        Serve(@, EchoAnchors(t), EchoLines(t), call[t].cur)]
        /\ Finish(t)
        /\ UNCHANGED <<disk, store, pool>>

\* A second item meets an anchor on two lines, or the result would be empty:
\* the batch ends, and what earlier items did to the rows stays.
Abort(t) ==
    /\ call[t].pc = "verify"
    /\ \/ Ambiguous(call[t].h, Item(t))
       \/ Accepted(t) /\ Result(t) = <<>>
    /\ Finish(t)
    /\ UNCHANGED <<disk, store, served, pool>>

NextPc(items, spans) ==
    IF items # <<>> THEN "probe" ELSE IF spans # {} THEN "commit" ELSE "idle"

Noop(t) ==
    LET rest == Tail(call[t].items)
        pc == NextPc(rest, call[t].spans)
    IN  /\ Accepted(t)
        /\ Result(t) = call[t].cur
        /\ call' = [call EXCEPT ![t] =
                IF pc = "idle" THEN Idle
                ELSE [@ EXCEPT !.pc = pc, !.items = rest, !.asked = FALSE, !.bad = {}]]
        /\ UNCHANGED <<disk, store, served, pool>>

\* toAnchorHunk: an insertion's old side is empty.
Hunk(t) ==
    LET lo == Lo(call[t].h, Item(t))
        hi == Hi(call[t].h, Item(t))
        keep == IF Item(t).op = "ins" THEN 1 ELSE 0
    IN  [oldFrom |-> lo + keep, oldTo |-> hi,
         newFrom |-> lo + keep, newTo |-> lo + Len(Item(t).lines) - 1]

\* Mutant of Sealed: the batch's transaction alone feeds the pool.
Unsealed(p, dropped) == p

\* What an item dropped cannot be handed out again by the next one.
Sealed(p, dropped) == p \cup dropped

\* The item's text change and the row transform, which is written at once; the
\* dropped anchors are sealed into the pool before the next item can mint.
Apply(t) ==
    LET rest == Tail(call[t].items)
        new == Result(t)
        spans == call[t].spans \cup {Hunk(t)}
    IN  /\ Accepted(t)
        /\ new \notin {<<>>, call[t].cur}
        /\ \E out \in UpdateAnchorsAfterEdit(store, call[t].cur, new, call[t].h,
                            {Hunk(t)}, Live(store.rows) \cup pool) :
            /\ store' = out.store
            /\ pool' = Sealed(pool, out.dropped)
            /\ call' = [call EXCEPT ![t] = [call[t] EXCEPT
                    !.pc = NextPc(rest, spans), !.items = rest, !.spans = spans,
                    !.cur = new, !.h = AnchorsFor(out.store.rows, new),
                    !.asked = FALSE, !.bad = {},
                    !.dropped = call[t].dropped \cup out.dropped,
                    !.seen = Forget(call[t].seen, out.dropped)]]
        /\ UNCHANGED <<disk, served>>

-----------------------------------------------------------------------------
(* edit: the end of the call *)

\* Mutant of CommitBatch: the session's record keeps what was released.
CommitPoolOnly(t) ==
    /\ call[t].pc = "commit"
    /\ pool' = pool \cup call[t].dropped
    /\ call' = [call EXCEPT ![t].pc = "serve"]
    /\ UNCHANGED <<disk, store, served>>

\* The batch's own transaction.  The per-item transforms have already moved the
\* rows to the result, so its call of updateAnchorsAfterEdit returns early and
\* what is left is the second and third part of each release.
CommitBatch(t) ==
    /\ call[t].pc = "commit"
    /\ pool' = pool \cup call[t].dropped
    /\ served' = [served EXCEPT ![SessionOf[t]] =
                    Forget(@, call[t].dropped)]
    /\ call' = [call EXCEPT ![t].pc = "serve"]
    /\ UNCHANGED <<disk, store>>

\* buildServedRowsFromDiff: mint and serve what the response will show, before
\* the file is written.
ServeWindow(t) ==
    LET c == call[t].cur
        s == SessionOf[t]
        window == DiffWindow(call[t].base, c, Pad)
    IN  /\ call[t].pc = "serve"
        /\ IF window = {} THEN UNCHANGED <<store, served>>
           ELSE /\ store' \in AnchorFor(store, c, window, pool)
                /\ served' = [served EXCEPT ![s] =
                                Serve(@, AnchorsFor(store'.rows, c), window, c)]
        /\ call' = [call EXCEPT ![t] =
                [Idle EXCEPT !.pc = "write", !.cur = c, !.shown = window,
                    !.h = AnchorsFor(store'.rows, c),
                    !.dropped = call[t].dropped, !.inStep = call[t].inStep]]
        /\ UNCHANGED <<disk, pool>>

\* The write is unconditional: whatever the file holds by now is replaced.
Write(t) ==
    /\ call[t].pc = "write"
    /\ disk' = call[t].cur
    /\ call' = [call EXCEPT ![t].pc = "record"]
    /\ UNCHANGED <<store, served, pool>>

\* The write fails: the call reports it and the rows stay at the result.
WriteFails(t) ==
    /\ "write" \in Faults
    /\ call[t].pc = "write"
    /\ Finish(t)
    /\ UNCHANGED <<disk, store, served, pool>>

\* The entries reconcileServed drops.
NotLive(member, live) == {a \in Anchor : member[a] # Unserved /\ a \notin live}

\* recordServedAfterEdit adds membership where another call of the session
\* removed it meanwhile; reconcileServed then drops every entry whose anchor is
\* not live, and releases it.  Without served rows neither runs.
Record(t) ==
    LET s == SessionOf[t]
        c == call[t].cur
        member == [a \in Anchor |->
            IF served[s][a] = Unserved /\ \E i \in call[t].shown : call[t].h[i] = a
            THEN Keyless ELSE served[s][a]]
        live == {AnchorsFor(store.rows, c)[i] : i \in Lines(c)}
        gone == NotLive(member, live)
    IN  /\ call[t].pc = "record"
        /\ RunsAlone(t)
        /\ IF call[t].shown = {} THEN UNCHANGED <<served, pool>>
           ELSE /\ served' = [served EXCEPT ![s] =
                        Forget(member, gone)]
                /\ pool' = pool \cup gone
        /\ Finish(t)
        /\ UNCHANGED <<disk, store>>

-----------------------------------------------------------------------------
(* trouble *)

\* allocateAnchor finds no free anchor: the call throws before it persists, but
\* the realign on the way in has been written.
Exhausted(t) ==
    LET c == call[t].cur
    IN  /\ \/ call[t].pc = "read" /\ RunsAlone(t)
              /\ \E lo, hi \in Lines(c) : lo <= hi /\ AnchorFor(store, c, lo .. hi, pool) = {}
           \/ call[t].pc = "mint" /\ AnchorFor(store, c, EchoWindow(t), pool) = {}
           \/ call[t].pc = "serve"
              /\ AnchorFor(store, c, DiffWindow(call[t].base, c, Pad), pool) = {}
           \/ Accepted(t) /\ Result(t) \notin {<<>>, c}
              /\ UpdateAnchorsAfterEdit(store, c, Result(t), call[t].h, {Hunk(t)},
                                        Live(store.rows) \cup pool) = {}
        /\ store' \in Ensured(store, c)
        /\ Finish(t)
        /\ UNCHANGED <<disk, served, pool>>

\* A named row lies beyond the end of the text: the probe's TypeError ends the
\* call.
ProbeFails(t) ==
    /\ call[t].pc = "probe"
    /\ Resolves(call[t].h, Item(t).from)
    /\ ProbeThrows(store.rows, call[t].cur, call[t].h, Asked(t))
    /\ Finish(t)
    /\ UNCHANGED <<disk, store, served, pool>>

\* Another program writes the file.
External ==
    /\ "external" \in Faults
    /\ disk' \in ExternalText \ {disk}
    /\ UNCHANGED <<store, served, pool, call>>

\* The process dies.  Rows and served records are in the database; the pool and
\* the calls are not.
Crash ==
    /\ "crash" \in Faults
    /\ call' = [t \in Task |-> Idle]
    /\ pool' = {}
    /\ UNCHANGED <<disk, store, served>>

Next ==
    \/ \E t \in Task :
        \/ OpenRead(t)
        \/ \E lo, hi \in 1 .. MaxLine : ServeRead(t, lo, hi)
        \/ OpenEdit(t)
        \/ \E n \in 1 .. MaxItems : \E items \in [1 .. n -> Request] : Plan(t, items)
        \/ Probe(t)
        \/ MintEcho(t)
        \/ Reject(t)
        \/ Abort(t)
        \/ Noop(t)
        \/ Apply(t)
        \/ CommitBatch(t)
        \/ ServeWindow(t)
        \/ Write(t)
        \/ WriteFails(t)
        \/ Record(t)
        \/ Exhausted(t)
        \/ ProbeFails(t)
    \/ External
    \/ Crash

Spec == Init /\ [][Next]_vars

-----------------------------------------------------------------------------
(* properties *)

CallType ==
    [pc : {"idle", "read", "open", "write", "record"} \cup Chain,
     inStep : BOOLEAN, base : Seq(Text), cur : Seq(Text),
     h0 : Seq(Anchor \cup {NoAnchor}), h : Seq(Anchor \cup {NoAnchor}),
     seen : [Anchor -> Key \cup {Unserved, Keyless}],
     items : Seq(EditItem), placed : BOOLEAN,
     asked : BOOLEAN, bad : SUBSET Int,
     spans : SUBSET [oldFrom : Int, oldTo : Int, newFrom : Int, newTo : Int],
     dropped : SUBSET Anchor, shown : SUBSET Int]

\* Every variable has its type: the one type invariant of the module.
TypeOK ==
    /\ disk \in Seq(Text) \ {<<>>}
    /\ store.text \in Seq(Text)
    /\ \A i \in DOMAIN store.rows : i \in Int /\ store.rows[i] \in Row
    /\ served \in [Session -> [Anchor -> Key \cup {Unserved, Keyless}]]
    /\ pool \in SUBSET Anchor
    /\ call \in [Task -> CallType]

\* The rows never lie about the text they were written for: every row names a
\* line of it and carries that line's key.  Realign, shift, survivor pairing,
\* seeding and minting all have to agree for this to hold after each of them.
RowsDescribeText ==
    \A i \in DOMAIN store.rows :
        i \in Lines(store.text) /\ store.rows[i].key = Canon[store.text[i]]

\* Between calls, and at the start of every call, no anchor names two lines
\* (contract section 9 item 1).  Seeding a stale projection does bind one twice;
\* the heal on the way into the response's mint has to undo it.
UniqueAtRest ==
    (\A t \in Task : call[t].spans = {} \/ call[t].pc \notin Chain)
        => Unique(store.rows)

\* An item is applied in this step.
Applied(t) == call[t].pc = "verify" /\ call'[t].spans # call[t].spans /\ call'[t].pc # "idle"

\* The record vouches for line i of the call's text under the anchor the line
\* has in the call's projection.
Vouched(record, t, i) ==
    /\ call[t].h[i] \in Anchor
    /\ record[call[t].h[i]] = Canon[call[t].cur[i]]

\* The whole point of the anchors: an accepted item replaces only lines whose
\* present content had been served to the session before the call began.
LandsStep == \A t \in Task : Applied(t) => \A i \in Target(t) : Vouched(call[t].seen, t, i)
LandsWhereServed == [][LandsStep]_vars

\* The same for batches: an aborted one leaves rows ahead of the file and seeded
\* anchors on two lines, so it is stated for the calls whose plan read rows that
\* were written for the planned text, no anchor on two of them.
BatchLandsStep ==
    \A t \in Task : Applied(t) /\ call[t].inStep =>
        \A i \in Target(t) : Vouched(call[t].seen, t, i)
BatchLandsWhereServed == [][BatchLandsStep]_vars

\* How many lines the applied items above line i have added.
Shift(spans, i) ==
    MapThenSumSet(LAMBDA k : (k.newTo - k.newFrom) - (k.oldTo - k.oldFrom),
                  {k \in spans : k.oldTo < i})

\* The session-internal promise of updateAnchorsAfterEdit (#151), over a whole
\* batch planned on such rows: a line outside every applied item's range, and its
\* anchor, are where the ranges above it moved them.  The per-item transforms are
\* composed, the statement is in the batch's original coordinates.  An anchor that
\* named no line then may be minted for a line an earlier item of the batch writes,
\* and its item lands there: such a batch has no such coordinates, hence `placed'.
BatchKeepsUntouched ==
    \A t \in Task : call[t].pc = "serve" /\ call[t].inStep /\ call[t].placed =>
        \A i \in Lines(call[t].base) :
            ~InHunk(call[t].spans, i) =>
                LET j == i + Shift(call[t].spans, i)
                IN  /\ j \in Lines(call[t].cur)
                    /\ call[t].cur[j] = call[t].base[i]
                    /\ call[t].h0[i] # NoAnchor => call[t].h[j] = call[t].h0[i]

Released(t) ==
    /\ call[t].dropped \cap Live(store.rows) = {}
    /\ call[t].dropped \subseteq pool
    /\ \A a \in call[t].dropped : served[SessionOf[t]][a] = Unserved

\* A release is three things or none (contract section 9 items 4 and 5): an
\* anchor the batch dropped is not live, not in the session's record and in the
\* pool, from the batch's transaction to the end of the call - no later mint of
\* the call, the response's window included, hands it out again.  This too is for
\* a call whose plan read rows in step with its text.
ReleaseIsComplete ==
    \A t \in Task :
        call[t].pc \in {"serve", "write", "record"} /\ call[t].inStep => Released(t)

\* Contract section 9 item 6, for an edit: when the call has recorded what it
\* showed, every line its response shows can be edited under the anchor shown for
\* it - the probe has nothing against it.  The diff window's mint, its served
\* entries and the pruning of the record afterwards must agree.
ResponseIsUsable ==
    [][\A t \in Task : call[t].pc = "record" /\ call'[t].pc = "idle" =>
        \A i \in call[t].shown :
            ProbeLine(store'.rows, served'[SessionOf[t]], call[t].cur,
                      call[t].h[i], i) = {}]_vars

\* "The whole batch was rejected and NOTHING was written": an anchor an earlier
\* item of the batch dropped is live again once the batch is refused.
RejectedBatchKeepsAnchors ==
    [][\A t \in Task :
        call[t].pc = "verify" /\ call'[t].pc = "idle" =>
            call[t].dropped \subseteq Live(store'.rows)]_vars
=============================================================================
