-------------------------- MODULE FileCalls_proofs --------------------------
(***************************************************************************)
(* Theorems about FileCalls: the undo histories, for every set of files,   *)
(* every kind and number of calls on them, and every failure, foreign      *)
(* write and death, provided the calls are planned as the tools plan them. *)
(***************************************************************************)
EXTENDS FileCalls, SequenceTheorems, FiniteSetTheorems, TLAPS

Entries == [before : Nat, result : Nat]
Places == {"idle", "op", "push", "write", "put", "unput", "pop", "unlink", "purge", "rename",
           "migrate", "revert", "consume", "ended"}
Kinds == {"none", "edit", "undo", "patch", "files", "write"}
Answers == {"none", "ok", "failed", "empty", "stale"}
Statuses == Seq({"completed", "failed", "unknown"})
Sequences(S) == Seq(S)
OrNone(S) == {<<>>} \cup S
AllCalls == [pc : Places, kind : Kinds, ops : Sequences(Ops), i : Nat, k : Nat, lo : Nat, hi : Nat,
             text : Sequences(Nat), result : Sequences(Nat), status : Statuses, told : Answers,
             alone : BOOLEAN, disk : OrNone([Path -> Nat]), stack : OrNone([Path -> Seq(Entries)])]

Typed ==
    /\ disk \in [Path -> Nat] /\ dirty \in [Path -> BOOLEAN] /\ made \in Nat
    /\ stack \in [Path -> Seq(Entries)] /\ \A p \in Path : Len(stack[p]) <= UndoDepth
    /\ call \in AllCalls

\* A history ends at a text, each entry at the next.
Leads(s, t) ==
    /\ s # <<>> => Last(s).result = t
    /\ \A n \in 1..Len(s) - 1 : s[n].result = s[n + 1].before
Clean(p) == ~dirty[p] => Leads(stack[p], disk[p])

Commit == {"push", "write", "put", "unput", "pop"}
Resting == call.pc \in {"idle", "ended"}

\* Where a call stands among its operations.
Bounded ==
    /\ Resting \/ /\ call.kind # "none" /\ call.i \in 1..Len(call.ops) + 1
                  /\ Len(call.text) = Len(call.ops) /\ Len(call.result) = Len(call.ops)
                  /\ call.pc # "op" => call.i <= Len(call.ops)
                  /\ call.kind \in {"edit", "patch"} => Distinct(call.ops)
                  /\ call.kind = "edit" => /\ \A n \in DOMAIN call.ops : call.ops[n].op = "update"
                                           /\ call.pc = "op" => call.i = 1
                                           /\ call.pc \in Commit \cup {"op"}
                  /\ call.kind = "undo" => call.pc \in {"revert", "consume"}
    /\ call.pc = "idle" => call.kind = "none" /\ call.told = "none"
    /\ call.pc \in Commit =>
         /\ call.kind \in {"edit", "patch"}
         /\ 1 <= call.lo /\ call.lo <= call.hi + 1 /\ call.hi <= Len(call.ops)
         /\ call.lo <= call.k /\ call.k <= call.hi + 1
         /\ call.pc # "pop" => call.k <= call.hi
         /\ call.pc \in {"put", "unput"} => call.k < call.i /\ call.i <= call.hi
         /\ call.kind = "patch" => call.lo = call.i /\ call.hi <= call.i
         /\ call.kind = "edit" => call.lo = 1
-----------------------------------------------------------------------------
(* Histories. *)

\* A new entry on a history that leads to its before, with room made for it.
LEMMA Pushing ==
    ASSUME NEW s \in Seq(Entries), NEW e \in Entries, NEW r, r = Pruned(Append(s, e)),
           Len(s) <= UndoDepth, UndoDepth \in Nat \ {0}
    PROVE  /\ r \in Seq(Entries) /\ r # <<>> /\ Len(r) <= UndoDepth /\ Last(r) = e
           /\ Leads(s, e.before) => Leads(Front(r), e.before)
           /\ SameHistory(Front(r), s)
<1> DEFINE a == Append(s, e)
<1>1. /\ a \in Seq(Entries) /\ a # <<>> /\ Len(a) = Len(s) + 1 /\ a[Len(s) + 1] = e
      /\ \A i \in 1..Len(s) : a[i] = s[i]
      BY AppendProperties
<1> HIDE DEF a
<1>2. CASE Len(a) > UndoDepth
  <2>1. r = Tail(a)
        BY <1>2 DEF Pruned, a
  <2>2. /\ r \in Seq(Entries) /\ Len(r) = Len(s) /\ \A i \in 1..Len(r) : r[i] = a[i + 1]
        BY <2>1, <1>1, HeadTailProperties
  <2>3. Len(s) = UndoDepth
        BY <1>1, <1>2
  <2>4. r # <<>> /\ Last(r) = e
        BY <2>2, <2>3, <1>1 DEF Last
  <2>5. /\ Front(r) \in Seq(Entries) /\ Len(Front(r)) = Len(s) - 1
        /\ \A i \in 1..Len(s) - 1 : Front(r)[i] = s[i + 1]
    <3>1. /\ Front(r) \in Seq(Entries) /\ Len(Front(r)) = IF 1 <= Len(r) - 1 THEN Len(r) - 1 ELSE 0
          /\ \A i \in 1..Len(r) - 1 : Front(r)[i] = r[i]
      <4>1. 1 \in Int /\ Len(r) - 1 \in Int /\ \A i \in 1..Len(r) - 1 : r[i] \in Entries
            BY <2>2
      <4> HIDE DEF Entries
      <4>2. SubSeq(r, 1, Len(r) - 1) \in Seq(Entries)
            /\ Len(SubSeq(r, 1, Len(r) - 1)) = (IF 1 <= Len(r) - 1 THEN Len(r) - 1 - 1 + 1 ELSE 0)
            /\ \A i \in 1..Len(r) - 1 - 1 + 1 : SubSeq(r, 1, Len(r) - 1)[i] = r[1 + i - 1]
            BY ONLY <4>1, SubSeqProperties
      <4> QED BY <4>2, <2>2 DEF Front
    <3> QED BY <3>1, <2>2, <2>3, <1>1
  <2>6. Leads(s, e.before) => Leads(Front(r), e.before)
        BY <2>5, <2>3 DEF Leads, Last
  <2>7. Front(r) = Tail(s)
    <3>1. s # <<>>
          BY <2>3
    <3>2. Tail(s) \in Seq(Entries) /\ Len(Tail(s)) = Len(s) - 1
          /\ \A i \in 1..Len(Tail(s)) : Tail(s)[i] = s[i + 1]
          BY <3>1, HeadTailProperties
    <3> QED BY <3>2, <2>5, SeqEqual
  <2> QED BY <2>2, <2>3, <2>4, <2>6, <2>7 DEF SameHistory
<1>3. CASE ~(Len(a) > UndoDepth)
  <2>1. r = a
        BY <1>3 DEF Pruned, a
  <2>2. Front(r) = s
    <3>1. \A i \in 1..Len(s) : a[i] \in Entries
          BY <1>1
    <3>2. SubSeq(a, 1, Len(s)) \in Seq(Entries)
          /\ Len(SubSeq(a, 1, Len(s))) = (IF 1 <= Len(s) THEN Len(s) - 1 + 1 ELSE 0)
          /\ \A i \in 1..Len(s) - 1 + 1 : SubSeq(a, 1, Len(s))[i] = a[1 + i - 1]
      <4> HIDE DEF Entries
      <4>1. Len(s) \in Int
            OBVIOUS
      <4> QED BY ONLY <4>1, <3>1, SubSeqProperties
    <3>3. SubSeq(a, 1, Len(s)) = s
          BY <3>2, <1>1, SeqEqual
    <3> QED BY <3>3, <2>1, <1>1 DEF Front
  <2> QED BY <2>1, <2>2, <1>1, <1>3 DEF Last, SameHistory
<1> QED BY <1>1, <1>2, <1>3

\* Without its newest entry a history leads to what that entry's edit began with.
LEMMA Popping ==
    ASSUME NEW s \in Seq(Entries)
    PROVE  /\ Popped(s) \in Seq(Entries) /\ Len(Popped(s)) <= Len(s)
           /\ s # <<>> => /\ Popped(s) = Front(s) /\ Last(s) \in Entries
                          /\ Leads(s, Last(s).result) <=> Leads(Front(s), Last(s).before)
<1>1. CASE s = <<>>
      BY <1>1 DEF Popped
<1>2. CASE s # <<>>
  <2>1. \A i \in 1..Len(s) - 1 : s[i] \in Entries
        OBVIOUS
  <2>2. SubSeq(s, 1, Len(s) - 1) \in Seq(Entries)
        /\ Len(SubSeq(s, 1, Len(s) - 1)) = (IF 1 <= Len(s) - 1 THEN Len(s) - 1 - 1 + 1 ELSE 0)
        /\ \A i \in 1..Len(s) - 1 - 1 + 1 : SubSeq(s, 1, Len(s) - 1)[i] = s[1 + i - 1]
    <3> HIDE DEF Entries
    <3>1. Len(s) - 1 \in Int
          OBVIOUS
    <3> QED BY ONLY <3>1, <2>1, SubSeqProperties
  <2>3. /\ Front(s) \in Seq(Entries) /\ Len(Front(s)) = Len(s) - 1
        /\ \A i \in 1..Len(s) - 1 : Front(s)[i] = s[i]
    <3>1. Len(s) \in Nat /\ Len(s) >= 1
          BY <1>2
    <3>2. Front(s) = SubSeq(s, 1, Len(s) - 1)
          BY DEF Front
    <3>3. Front(s) \in Seq(Entries)
          BY <2>2, <3>2
    <3>4. Len(Front(s)) = Len(s) - 1
      <4>1. CASE Len(s) = 1
            BY <2>2, <3>2, <4>1
      <4>2. CASE Len(s) > 1
            BY <2>2, <3>2, <4>2
      <4>3. Len(s) = 1 \/ Len(s) > 1
        <5>1. \A m \in Nat : m >= 1 => m = 1 \/ m > 1
              OBVIOUS
        <5> QED BY ONLY <3>1, <5>1, Zenon
      <4> QED BY ONLY <4>1, <4>2, <4>3, Zenon
    <3>5. ASSUME NEW n \in 1..Len(s) - 1
          PROVE  Front(s)[n] = s[n]
      <4>1. n \in 1..Len(s) - 1 - 1 + 1 /\ 1 + n - 1 = n
            BY <3>1
      <4> QED BY ONLY <2>2, <3>2, <4>1
    <3> QED BY ONLY <3>3, <3>4, <3>5
  <2>4. Last(s) \in Entries
        BY <1>2 DEF Last
  <2>5. Leads(s, Last(s).result) <=> Leads(Front(s), Last(s).before)
    <3>1. ASSUME Leads(s, Last(s).result)
          PROVE  Leads(Front(s), Last(s).before)
          BY <3>1, <2>3, <1>2 DEF Leads, Last
    <3>2. ASSUME Leads(Front(s), Last(s).before), NEW n \in 1..Len(s) - 1
          PROVE  s[n].result = s[n + 1].before
      <4>1. CASE n = Len(s) - 1
            BY <3>2, <4>1, <2>3, <1>2 DEF Leads, Last
      <4>2. CASE n < Len(s) - 1
            BY <3>2, <4>2, <2>3, <1>2, SMTT(30) DEF Leads
      <4> QED BY <4>1, <4>2
    <3> QED BY <3>1, <3>2 DEF Leads
  <2> QED BY <1>2, <2>3, <2>4, <2>5 DEF Popped
<1> QED BY <1>1, <1>2
-----------------------------------------------------------------------------
(* The invariant. *)

\* In a commit: whose entry is on its stack, and whose text is on the disk.
Batch == call.lo .. call.hi
Pushed(j) ==
    CASE call.pc = "push" -> j < call.k
      [] call.pc = "write" -> TRUE
      [] OTHER -> call.k <= j
Written(j) ==
    \/ call.pc = "write" /\ j < call.k
    \/ call.pc = "put" /\ call.k <= j /\ j < call.i
    \/ call.pc = "unput" /\ call.k < j /\ j < call.i

Item(j) ==
    LET p == Where(j) IN
    ~dirty[p] =>
        /\ IF Pushed(j)
           THEN stack[p] # <<>> /\ Last(stack[p]) = Entry(j) /\ Leads(Front(stack[p]), call.text[j])
           ELSE Leads(stack[p], call.text[j])
        /\ disk[p] = IF Written(j) THEN call.result[j] ELSE call.text[j]
CommitHolds ==
    call.pc \in Commit =>
        /\ \A j \in Batch : Item(j)
        /\ \A p \in Path : Clean(p) \/ \E j \in Batch : p = Where(j)

\* What is still to come of an edit or a patch finds the texts it was planned on.
Ahead ==
    ~Resting /\ call.kind \in {"edit", "patch"} =>
        \A n \in DOMAIN call.ops :
            /\ n > call.i \/ (n = call.i /\ call.pc \in {"op", "rename"})
            /\ call.kind = "edit" => call.pc = "op"
            /\ ~dirty[call.ops[n].at]
            => disk[call.ops[n].at] = call.text[n]

\* At every other place, which histories lead to their texts.
PlaceHolds ==
    /\ call.pc \in {"idle", "ended", "op", "unlink", "rename", "revert"} => \A p \in Path : Clean(p)
    /\ call.pc \in {"purge", "consume"} => \A p \in Path : p # Op.at => Clean(p)
    /\ call.pc \in {"rename", "migrate"} => Op.op = "move" /\ Op.at # Op.to
    /\ call.pc = "migrate" =>
        /\ \A p \in Path : p # Op.at /\ p # Op.to => Clean(p)
        /\ ~dirty[Op.to] => /\ Leads(stack[Op.at], disk[Op.to])
                            /\ call.kind = "patch" => disk[Op.to] = call.text[call.i]
    /\ call.pc \in {"revert", "consume"} =>
        /\ call.kind = "undo" /\ call.i = 1 /\ stack = call.stack /\ stack[Op.at] # <<>>
        /\ call.result[1] = Last(stack[Op.at]).before
    /\ call.pc = "consume" =>
        /\ ~dirty[Op.at] => Leads(Front(stack[Op.at]), disk[Op.at])
        /\ call.alone => disk[Op.at] = call.result[1]

HistInv == Typed /\ Bounded /\ CommitHolds /\ Ahead /\ PlaceHolds

\* What a step must leave of the files, the histories and their marks.
Kept ==
    /\ disk \in [Path -> Nat] /\ dirty \in [Path -> BOOLEAN] /\ made \in Nat
    /\ stack \in [Path -> Seq(Entries)] /\ \A p \in Path : Len(stack[p]) <= UndoDepth

\* A call is over, or none is under way, and every history leads to its text.
LEMMA Rests ==
    ASSUME Kept', call' \in AllCalls, call'.pc \in {"idle", "ended"}, \A p \in Path : Clean(p)',
           call'.pc = "idle" => call'.kind = "none" /\ call'.told = "none"
    PROVE  HistInv'
<1>1. Typed'
      BY DEF Typed, Kept
<1>2. Bounded'
      BY DEF Bounded, Resting, Commit
<1>3. CommitHolds' /\ Ahead'
      BY DEF CommitHolds, Ahead, Commit, Resting
<1>4. PlaceHolds'
      BY DEF PlaceHolds
<1> QED BY <1>1, <1>2, <1>3, <1>4 DEF HistInv

\* An operation is over, and the next one's turn comes, or the call's end.
LEMMA Settles ==
    ASSUME HistInv, Kept', NEW status \in {"completed", "failed", "unknown"}, call' = Settled(status),
           ~Resting, call.i <= Len(call.ops), call.kind # "undo",
           call.kind = "edit" => status # "completed",
           \A p \in Path : Clean(p)',
           call.kind = "patch" =>
              \A n \in DOMAIN call.ops : n > call.i /\ ~dirty'[call.ops[n].at]
                  => disk'[call.ops[n].at] = call.text[n]
    PROVE  HistInv'
<1> DEFINE told == Append(call.status, status)
<1>1. call \in AllCalls /\ call.i + 1 \in Nat /\ told \in Statuses
      BY AppendProperties DEF HistInv, Typed, AllCalls, Statuses
<1> HIDE DEF told
<1>2. CASE status # "completed" /\ call.kind \in {"patch", "edit"}
  <2>1. call' = [call EXCEPT !.status = told, !.i = call.i + 1, !.pc = "ended", !.told = "failed"]
        BY <1>1, <1>2 DEF Settled, AllCalls, told
  <2>2. call' \in AllCalls /\ call'.pc = "ended"
        BY <1>1, <2>1, ZenonT(60) DEF AllCalls, Places, Answers
  <2> QED BY <2>2, Rests
<1>3. CASE ~(status # "completed" /\ call.kind \in {"patch", "edit"})
  <2>1. call' = [call EXCEPT !.status = told, !.i = call.i + 1, !.pc = "op"]
        BY <1>1, <1>3 DEF Settled, told
  <2>2. call' \in AllCalls
        BY <1>1, <2>1 DEF AllCalls, Places, Answers
  <2>3. /\ call'.pc = "op" /\ call'.kind = call.kind /\ call'.ops = call.ops /\ call'.i = call.i + 1
        /\ call'.text = call.text /\ call'.result = call.result
        BY <1>1, <2>1 DEF AllCalls, Places, Answers
  <2>4. call.kind # "edit"
        BY <1>3
  <2>5. Bounded'
    <3>1. /\ call.kind # "none" /\ call.i \in 1..Len(call.ops)
          /\ Len(call.text) = Len(call.ops) /\ Len(call.result) = Len(call.ops)
          /\ call.kind \in {"edit", "patch"} => Distinct(call.ops)
          BY DEF HistInv, Bounded
    <3>2. call'.i \in 1..Len(call'.ops) + 1
          BY <3>1, <2>3, <1>1 DEF AllCalls
    <3>3. call'.kind \in {"edit", "patch"} => Distinct(call'.ops)
          BY <3>1, <2>3 DEF Distinct
    <3> QED BY <3>1, <3>2, <3>3, <2>3, <2>4 DEF Bounded, Commit
  <2>6. CommitHolds' /\ PlaceHolds'
        BY <2>3 DEF CommitHolds, PlaceHolds, Commit
  <2>7. Ahead'
    <3> SUFFICES ASSUME call'.kind = "patch", NEW n \in DOMAIN call'.ops, n >= call'.i,
                        ~dirty'[call'.ops[n].at]
                 PROVE  disk'[call'.ops[n].at] = call'.text[n]
          BY <2>3, <2>4, <2>2 DEF Ahead, AllCalls
    <3> QED BY <2>3, <1>1 DEF AllCalls
  <2> QED BY <2>2, <2>5, <2>6, <2>7 DEF HistInv, Typed, Kept
<1> QED BY <1>2, <1>3
\* The paths of a call under way.
LEMMA Placed ==
    ASSUME Typed, NEW n \in DOMAIN call.ops
    PROVE  /\ call.ops[n] \in Ops /\ call.ops[n].at \in Path /\ call.ops[n].to \in Path
           /\ Where(n) \in Path /\ Where(n) \in {call.ops[n].at, call.ops[n].to}
           /\ Where(n) \in Names(call.ops) /\ call.ops[n].at \in Names(call.ops)
           /\ call.ops[n].to \in Names(call.ops)
           /\ call.text \in Seq(Nat) /\ call.result \in Seq(Nat)
<1>1. call.ops \in Seq(Ops) /\ call.text \in Seq(Nat) /\ call.result \in Seq(Nat)
      BY DEF Typed, AllCalls, Sequences
<1>2. call.ops[n] \in Ops
      BY <1>1
<1> QED BY <1>1, <1>2 DEF Ops, Where, Names

\* The operations of an edit or a patch share no path.
LEMMA Apart ==
    ASSUME Distinct(call.ops), NEW m \in DOMAIN call.ops, NEW n \in DOMAIN call.ops, m # n
    PROVE  /\ Where(m) # Where(n) /\ Where(m) # call.ops[n].at
           /\ call.ops[m].at # call.ops[n].at /\ call.ops[m].to # call.ops[n].at
           /\ call.ops[m].at # call.ops[n].to
BY DEF Distinct, Where

LEMMA NoneTyped ==
    /\ NoCall \in AllCalls /\ <<>> \in Statuses
<1>1. /\ <<>> \in Sequences(Ops) /\ <<>> \in Sequences(Nat) /\ <<>> \in Statuses
      /\ \A S : <<>> \in OrNone(S)
      BY DEF Sequences, Statuses, OrNone
<1> DEFINE none == <<>>
<1>2. /\ none \in Sequences(Ops) /\ none \in Sequences(Nat) /\ none \in Statuses
      /\ none \in OrNone([Path -> Nat]) /\ none \in OrNone([Path -> Seq(Entries)])
      BY <1>1
<1>3. NoCall = [pc |-> "idle", kind |-> "none", ops |-> none, i |-> 0, k |-> 0, lo |-> 1, hi |-> 0,
                text |-> none, result |-> none, status |-> none, told |-> "none", alone |-> TRUE,
                disk |-> none, stack |-> none]
      BY DEF NoCall
<1> HIDE DEF none
<1> QED BY <1>1, <1>2, <1>3 DEF AllCalls, Places, Kinds, Answers

-----------------------------------------------------------------------------
(* One lemma for each action. *)

\* What each kind of call is made of.
LEMMA PlannedOps ==
    ASSUME PlansFit, NEW plan \in Plan, NEW n \in DOMAIN plan.ops
    PROVE  /\ plan.kind = "edit" => plan.ops[n].op = "update"
           /\ plan.kind = "undo" => plan.ops[n].op = "undo"
           /\ plan.kind = "write" => plan.ops[n].op = "write"
           /\ plan.kind = "files" => plan.ops[n].op \in {"move", "remove"}
           /\ plan.kind = "patch" => plan.ops[n].op \in {"add", "update", "remove", "move"}
<1> DEFINE kind == plan.kind
           op == plan.ops[n].op
<1>1. <<kind, op>> \in Uses
      BY DEF PlansFit
<1> HIDE DEF kind, op
<1>2. /\ kind = "edit" => op = "update"
      /\ kind = "undo" => op = "undo"
      /\ kind = "write" => op = "write"
      /\ kind = "files" => op \in {"move", "remove"}
      /\ kind = "patch" => op \in {"add", "update", "remove", "move"}
      BY ONLY <1>1 DEF Uses
<1> QED BY <1>2 DEF kind, op

LEMMA OpenKeeps ==
    ASSUME PlansFit, HistInv, NEW plan \in Plan, Open(plan)
    PROVE  HistInv'
<1> DEFINE ops == plan.ops
<1>1. /\ ops \in Seq(Ops) /\ plan.kind \in {"edit", "patch", "files", "write"}
      /\ plan.kind = "edit" => \A n \in DOMAIN ops : ops[n].op = "update"
  <2>1. plan \in [kind : {"edit", "undo", "patch", "files", "write"}, ops : Seq(Ops)]
        BY DEF PlansFit
  <2> QED BY <2>1, PlannedOps DEF Open
<1>2. /\ Kept' /\ disk' = disk /\ stack' = stack
      /\ \A p \in Path : Clean(p)' /\ (~dirty'[p] => ~dirty[p] \/ stack[p] = <<>>)
  <2>1. /\ disk' = disk /\ stack' = stack /\ made' = made + Len(ops)
        /\ dirty' = [p \in Path |-> dirty[p] /\ stack[p] # <<>>]
        BY DEF Open
  <2>2. Kept' /\ \A p \in Path : ~dirty'[p] => ~dirty[p] \/ stack[p] = <<>>
        BY <2>1, <1>1 DEF HistInv, Typed, Kept
  <2>3. ASSUME NEW p \in Path, ~dirty'[p]
        PROVE  Leads(stack[p], disk[p])
    <3>1. CASE stack[p] = <<>>
          BY <3>1 DEF Leads
    <3>2. CASE ~dirty[p]
          BY <3>2 DEF HistInv, PlaceHolds, Open, At, Clean
    <3> QED BY <3>1, <3>2, <2>2, <2>3
  <2> QED BY <2>1, <2>2, <2>3 DEF Clean
<1>3. CASE Refused(plan)
  <2>1. call' = [NoCall EXCEPT !.pc = "ended", !.told = "failed"]
        BY <1>3 DEF Open
  <2>2. call' \in AllCalls /\ call'.pc = "ended"
        BY <2>1, NoneTyped DEF AllCalls, Places, Answers
  <2> QED BY <2>2, <1>2, Rests
<1>4. CASE ~Refused(plan)
  <2> DEFINE texts == [n \in DOMAIN ops |-> disk[ops[n].at]]
             results == [n \in DOMAIN ops |-> made + n]
  <2>1. call' = [NoCall EXCEPT !.pc = "op", !.kind = plan.kind, !.ops = ops, !.i = 1,
                   !.text = texts, !.result = results, !.disk = disk, !.stack = stack]
        BY <1>4 DEF Open, Opened
  <2>2. DOMAIN ops = 1..Len(ops) /\ \A n \in DOMAIN ops : ops[n] \in Ops /\ ops[n].at \in Path
    <3>1. DOMAIN ops = 1..Len(ops) /\ \A n \in DOMAIN ops : ops[n] \in Ops
          BY <1>1
    <3> QED BY <3>1 DEF Ops
  <2>3. /\ texts \in Seq(Nat) /\ Len(texts) = Len(ops)
        /\ results \in Seq(Nat) /\ Len(results) = Len(ops)
    <3>1. disk \in [Path -> Nat] /\ made \in Nat
          BY DEF HistInv, Typed
    <3> QED BY <1>1, <2>2, <3>1
  <2> HIDE DEF texts, results
  <2>4. /\ call'.pc = "op" /\ call'.kind = plan.kind /\ call'.ops = ops /\ call'.i = 1
        /\ call'.text = texts /\ call'.result = results
        BY <2>1 DEF NoCall
  <2>5. call' \in AllCalls
    <3>1. /\ ops \in Sequences(Ops) /\ texts \in Sequences(Nat) /\ results \in Sequences(Nat)
          /\ disk \in OrNone([Path -> Nat]) /\ stack \in OrNone([Path -> Seq(Entries)])
          /\ plan.kind \in Kinds /\ <<>> \in Statuses
          BY <1>1, <2>3 DEF Sequences, OrNone, HistInv, Typed, Kinds, Statuses
    <3> HIDE DEF ops
    <3> QED BY <2>1, <3>1 DEF NoCall, AllCalls, Places, Answers
  <2>6. plan.kind \in {"edit", "patch"} => Distinct(ops)
        BY <1>4 DEF Refused
  <2>7. Bounded'
    <3>1. Distinct(call'.ops) \/ call'.kind \notin {"edit", "patch"}
          BY <2>4, <2>6 DEF Distinct
    <3> QED BY <3>1, <2>4, <2>3, <2>2, <1>1 DEF Bounded, Commit
  <2>8. CommitHolds' /\ PlaceHolds'
        BY <2>4, <1>2 DEF CommitHolds, PlaceHolds, Commit
  <2>9. Ahead'
        BY <2>4, <1>2 DEF Ahead, texts
  <2> QED BY <2>5, <2>7, <2>8, <2>9, <1>2 DEF HistInv, Typed, Kept
<1> QED BY <1>3, <1>4

LEMMA UndoLastKeeps ==
    ASSUME PlansFit, HistInv, NEW plan \in Plan, UndoLast(plan)
    PROVE  HistInv' /\ call'.kind = "undo"
<1> DEFINE ops == plan.ops
           p == plan.ops[1].at
           top == Last(stack[p])
           here == [Opened(plan, plan.ops) EXCEPT !.text = <<disk[p]>>]
<1>1. ops \in Seq(Ops) /\ Len(ops) = 1 /\ plan.kind = "undo" /\ p \in Path
  <2>1. plan \in [kind : {"edit", "undo", "patch", "files", "write"}, ops : Seq(Ops)]
        BY DEF PlansFit
  <2>2. ops \in Seq(Ops) /\ plan.kind = "undo" /\ Len(ops) = 1
        BY <2>1 DEF PlansFit, UndoLast
  <2>3. ops[1] \in Ops
        BY <2>2
  <2> QED BY <2>2, <2>3 DEF Ops
<1>2. /\ At("idle") /\ disk' = disk /\ made' = made
      /\ \/ stack[p] = <<>> /\ call' = [here EXCEPT !.pc = "ended", !.told = "empty"] /\ UNCHANGED <<stack, dirty>>
         \/ /\ stack[p] # <<>> /\ disk[p] # top.result
            /\ call' = [here EXCEPT !.pc = "ended", !.told = "stale"]
            /\ stack' = NoHistory(p) /\ dirty' = [dirty EXCEPT ![p] = FALSE]
         \/ /\ stack[p] # <<>> /\ disk[p] = top.result
            /\ call' = [here EXCEPT !.pc = "revert", !.result = <<top.before>>]
            /\ UNCHANGED <<stack, dirty>>
      BY DEF UndoLast
<1>3. Typed /\ \A q \in Path : Clean(q)
      BY <1>2 DEF HistInv, PlaceHolds, At
<1> DEFINE results == [n \in DOMAIN ops |-> made + n]
<1>4. /\ here = [NoCall EXCEPT !.pc = "op", !.kind = "undo", !.ops = ops, !.i = 1,
                  !.text = <<disk[p]>>, !.result = results, !.disk = disk, !.stack = stack]
      /\ results \in Sequences(Nat) /\ <<disk[p]>> \in Sequences(Nat) /\ Len(<<disk[p]>>) = 1
  <2>1. results \in Sequences(Nat) /\ <<disk[p]>> \in Sequences(Nat) /\ Len(<<disk[p]>>) = 1
    <3>1. made \in Nat /\ disk[p] \in Nat /\ DOMAIN ops = 1..Len(ops)
          BY <1>1, <1>3 DEF Typed
    <3>2. \A n \in 1..Len(ops) : made + n \in Nat
          BY <3>1
    <3>3. results \in Seq(Nat)
          BY <3>1, <3>2, <1>1
    <3> QED BY <3>1, <3>3 DEF Sequences
  <2> HIDE DEF results
  <2> QED BY <2>1, <1>1, ZenonT(60) DEF Opened, NoCall, results
<1> HIDE DEF results, here
<1>5. /\ here \in AllCalls /\ here.kind = "undo" /\ here.ops = ops /\ here.i = 1
      /\ here.text = <<disk[p]>> /\ here.stack = stack
  <2>1. /\ ops \in Sequences(Ops) /\ <<>> \in Statuses
        /\ disk \in OrNone([Path -> Nat]) /\ stack \in OrNone([Path -> Seq(Entries)])
        BY <1>1, <1>3 DEF Sequences, OrNone, Typed, Statuses
  <2> DEFINE text == <<disk[p]>>
  <2>2. text \in Sequences(Nat)
        BY <1>4
  <2> HIDE DEF text, ops
  <2>3. here = [NoCall EXCEPT !.pc = "op", !.kind = "undo", !.ops = ops, !.i = 1,
                  !.text = text, !.result = results, !.disk = disk, !.stack = stack]
        BY <1>4 DEF text, ops
  <2>4. here \in AllCalls
    <3> DEFINE first == [NoCall EXCEPT !.pc = "op", !.kind = "undo", !.ops = ops, !.i = 1]
    <3>1. first \in AllCalls
          BY <2>1, NoneTyped DEF AllCalls, Places, Kinds
    <3>2. here = [first EXCEPT !.text = text, !.result = results, !.disk = disk, !.stack = stack]
          BY <2>3 DEF NoCall
    <3> HIDE DEF first
    <3> QED BY <1>4, <2>1, <2>2, <3>1, <3>2, ZenonT(60) DEF AllCalls
  <2> QED BY <2>3, <2>4 DEF NoCall, text, ops
<1>6. CASE stack[p] = <<>> /\ call' = [here EXCEPT !.pc = "ended", !.told = "empty"] /\ UNCHANGED <<stack, dirty>>
  <2>1. call' \in AllCalls /\ call'.pc = "ended" /\ call'.kind = "undo"
        BY <1>5, <1>6 DEF AllCalls, Places, Answers
  <2>2. Kept' /\ \A q \in Path : Clean(q)'
        BY <1>2, <1>3, <1>6 DEF Kept, Typed, Clean
  <2> QED BY <2>1, <2>2, Rests
<1>7. CASE /\ stack[p] # <<>> /\ disk[p] # top.result
           /\ call' = [here EXCEPT !.pc = "ended", !.told = "stale"]
           /\ stack' = NoHistory(p) /\ dirty' = [dirty EXCEPT ![p] = FALSE]
  <2>1. call' \in AllCalls /\ call'.pc = "ended" /\ call'.kind = "undo"
        BY <1>5, <1>7 DEF AllCalls, Places, Answers
  <2>2. stack' = [stack EXCEPT ![p] = <<>>] /\ <<>> \in Seq(Entries) /\ Len(<<>>) = 0
        BY <1>7 DEF NoHistory
  <2>3. Kept'
        BY <1>2, <1>3, <1>7, <1>1, <2>2, SMTT(30) DEF Kept, Typed, PlansFit
  <2>4. \A q \in Path : Clean(q)'
        BY <1>2, <1>3, <1>7, <1>1, <2>2, SMTT(30) DEF Typed, Clean, Leads
  <2> QED BY <2>1, <2>3, <2>4, Rests
<1>8. CASE /\ stack[p] # <<>> /\ disk[p] = top.result
           /\ call' = [here EXCEPT !.pc = "revert", !.result = <<top.before>>]
           /\ UNCHANGED <<stack, dirty>>
  <2>1. top \in Entries /\ top.before \in Nat
        BY <1>1, <1>3, <1>8, Popping DEF Typed, Entries
  <2> DEFINE result == <<top.before>>
  <2>2. result \in Sequences(Nat) /\ Len(result) = 1 /\ result[1] = top.before
        BY <2>1 DEF Sequences
  <2> HIDE DEF result
  <2>3. call' = [here EXCEPT !.pc = "revert", !.result = result]
        BY <1>8 DEF result
  <2>4. /\ call' \in AllCalls /\ call'.pc = "revert" /\ call'.kind = "undo" /\ call'.ops = ops
        /\ call'.i = 1 /\ call'.text = here.text /\ call'.result = result /\ call'.stack = here.stack
        BY <1>5, <2>2, <2>3 DEF AllCalls, Places
  <2>5. Kept' /\ \A q \in Path : Clean(q)'
        BY <1>2, <1>3, <1>8 DEF Kept, Typed, Clean
  <2>6. Bounded'
        BY <2>4, <1>5, <1>1, <2>2, <1>4 DEF Bounded, Commit
  <2>7. CommitHolds' /\ Ahead'
        BY <2>4 DEF CommitHolds, Ahead, Commit
  <2>8. Op' = ops[1]
        BY <2>4 DEF Op
  <2>9. PlaceHolds'
        BY <2>4, <2>5, <2>8, <2>2, <1>5, <1>8 DEF PlaceHolds
  <2> QED BY <2>4, <2>5, <2>6, <2>7, <2>9 DEF HistInv, Typed, Kept
<1> QED BY <1>2, <1>6, <1>7, <1>8

\* What a step leaves of the call's plan and place.
SamePlan == /\ call'.kind = call.kind /\ call'.ops = call.ops /\ call'.text = call.text
            /\ call'.result = call.result /\ call'.stack = call.stack
SameSpan == call'.i = call.i /\ call'.k = call.k /\ call'.lo = call.lo /\ call'.hi = call.hi

LEMMA Goings ==
    ASSUME call \in AllCalls, NEW pc \in Places, Goes(pc)
    PROVE  /\ call' \in AllCalls /\ call'.pc = pc /\ SamePlan /\ SameSpan
           /\ call'.alone = call.alone /\ call'.disk = call.disk /\ call'.told = call.told
           /\ Op' = Op
<1>1. call' = [call EXCEPT !.pc = pc]
      BY DEF Goes
<1>2. call' \in AllCalls
      BY <1>1 DEF AllCalls
<1>3. /\ call'.pc = pc /\ SamePlan /\ SameSpan
      /\ call'.alone = call.alone /\ call'.disk = call.disk /\ call'.told = call.told
      BY <1>1 DEF AllCalls, SamePlan, SameSpan
<1> QED BY <1>2, <1>3 DEF Op, SamePlan, SameSpan

LEMMA NothingKeeps ==
    ASSUME HistInv, UNCHANGED <<disk, stack, call, made, dirty>>
    PROVE  HistInv'
<1>1. Typed' /\ Bounded'
      BY DEF HistInv, Typed, Bounded, Resting
<1>2. ASSUME NEW j PROVE Item(j)' <=> Item(j)
      BY DEF Item, Pushed, Written, Entry, Where
<1>3. ASSUME NEW p PROVE Clean(p)' <=> Clean(p)
      BY DEF Clean
<1>4. CommitHolds'
      BY <1>2, <1>3 DEF HistInv, CommitHolds, Batch, Where
<1>5. Ahead'
      BY DEF HistInv, Ahead, Resting
<1>6. Op' = Op
      BY DEF Op
<1>7. PlaceHolds'
      BY <1>3, <1>6 DEF HistInv, PlaceHolds
<1> QED BY <1>1, <1>4, <1>5, <1>7 DEF HistInv

\* Operations of a call under way that is at one, or in a commit.
LEMMA AtWork ==
    ASSUME HistInv, ~Resting
    PROVE  /\ DOMAIN call.ops = 1..Len(call.ops) /\ Len(call.ops) \in Nat
           /\ call.pc # "op" => call.i \in DOMAIN call.ops /\ Op.at \in Path /\ Op.to \in Path
           /\ call.i <= Len(call.ops) => call.i \in DOMAIN call.ops /\ Op.at \in Path /\ Op.to \in Path
           /\ call.pc \in Commit => \A j \in Batch : j \in DOMAIN call.ops
           /\ call.i \in Nat /\ call.k \in Nat /\ call.lo \in Nat /\ call.hi \in Nat
<1>1. /\ call.ops \in Seq(Ops) /\ call.i \in Nat /\ call.k \in Nat /\ call.lo \in Nat /\ call.hi \in Nat
      BY DEF HistInv, Typed, AllCalls, Sequences
<1>2. call.i \in 1..Len(call.ops) + 1 /\ (call.pc # "op" => call.i <= Len(call.ops))
      BY DEF HistInv, Bounded
<1>3. DOMAIN call.ops = 1..Len(call.ops) /\ Len(call.ops) \in Nat
      BY <1>1
<1>4. call.i <= Len(call.ops) => call.i \in DOMAIN call.ops /\ Op.at \in Path /\ Op.to \in Path
      BY <1>1, <1>2, <1>3, Placed DEF HistInv, Op
<1>5. call.pc \in Commit => \A j \in Batch : j \in DOMAIN call.ops
      BY <1>1, <1>3 DEF HistInv, Bounded, Batch
<1> QED BY <1>1, <1>2, <1>3, <1>4, <1>5

LEMMA ForeignKeeps ==
    ASSUME HistInv, NEW q \in Path, Foreign(q)
    PROVE  HistInv'
<1>1. call' = [call EXCEPT !.alone = FALSE] /\ call \in AllCalls
      BY DEF Foreign, HistInv, Typed
<1>2. call' \in AllCalls /\ call'.pc = call.pc /\ SamePlan /\ SameSpan /\ call'.told = call.told
      /\ call'.alone = FALSE
      BY <1>1 DEF AllCalls, SamePlan, SameSpan
<1>3. /\ stack' = stack /\ dirty' = [dirty EXCEPT ![q] = TRUE] /\ made' = made + 1
      /\ \E t \in {Absent, made + 1} : disk' = [disk EXCEPT ![q] = t]
      BY DEF Foreign
<1>4. Kept'
      BY <1>3 DEF HistInv, Typed, Kept, Absent
<1>5. \A p \in Path : ~dirty'[p] => p # q /\ ~dirty[p] /\ disk'[p] = disk[p] /\ stack'[p] = stack[p]
      BY <1>3 DEF HistInv, Typed
<1>6. \A p \in Path : Clean(p) => Clean(p)'
      BY <1>5 DEF Clean
<1>7. Bounded'
      BY <1>2 DEF HistInv, Bounded, SamePlan, SameSpan, Resting, Distinct
<1>8. CommitHolds'
  <2> SUFFICES ASSUME call.pc \in Commit
               PROVE  CommitHolds'
      BY <1>2 DEF CommitHolds
  <2>1. ASSUME NEW j \in Batch
        PROVE  Item(j)' /\ Where(j)' = Where(j)
    <3>1. j \in DOMAIN call.ops /\ Where(j) \in Path
          BY AtWork, Placed DEF HistInv, Commit, Resting
    <3>2. Where(j)' = Where(j) /\ Entry(j)' = Entry(j) /\ Pushed(j)' = Pushed(j) /\ (Written(j)' <=> Written(j))
          BY <1>2 DEF Where, Entry, Pushed, Written, SamePlan, SameSpan
    <3>3. Item(j)
          BY DEF HistInv, CommitHolds
    <3> QED BY <3>1, <3>2, <3>3, <1>2, <1>5 DEF Item, SamePlan
  <2>2. Batch' = Batch
        BY <1>2 DEF Batch, SameSpan
  <2> QED BY <2>1, <2>2, <1>2, <1>6 DEF HistInv, CommitHolds
<1>9. Ahead'
  <2> SUFFICES ASSUME ~Resting, call.kind \in {"edit", "patch"}, NEW n \in DOMAIN call.ops,
                      n > call.i \/ (n = call.i /\ call.pc \in {"op", "rename"}),
                      call.kind = "edit" => call.pc = "op", ~dirty'[call.ops[n].at]
               PROVE  disk'[call.ops[n].at] = call.text[n]
      BY <1>2 DEF Ahead, SamePlan, SameSpan, Resting
  <2>1. call.ops[n].at \in Path
        BY Placed DEF HistInv
  <2> QED BY <2>1, <1>5 DEF HistInv, Ahead
<1>10. PlaceHolds'
  <2>1. Op' = Op
        BY <1>2 DEF Op, SamePlan, SameSpan
  <2>2. call.pc \in {"rename", "migrate", "revert", "consume", "purge"} => Op.at \in Path /\ Op.to \in Path
        BY AtWork DEF Resting
  <2> QED BY <2>1, <2>2, <1>2, <1>3, <1>5, <1>6 DEF HistInv, PlaceHolds, SamePlan, SameSpan
<1> QED BY <1>2, <1>4, <1>7, <1>8, <1>9, <1>10 DEF HistInv, Typed, Kept

LEMMA CrashKeeps ==
    ASSUME HistInv, Crash
    PROVE  HistInv'
<1>1. /\ call' = NoCall /\ disk' = disk /\ stack' = stack /\ made' = made
      /\ dirty' = [p \in Path |-> dirty[p] \/ p \in Names(call.ops)]
      BY DEF Crash
<1>2. Kept'
      BY <1>1 DEF HistInv, Typed, Kept
<1>3. ASSUME NEW p \in Path
      PROVE  Clean(p)'
  <2> SUFFICES ASSUME ~dirty[p], p \notin Names(call.ops)
               PROVE  Clean(p)
      BY <1>1 DEF Clean
  <2>1. call.pc \in Places
        BY DEF HistInv, Typed, AllCalls
  <2>2. CASE call.pc \in Commit
    <3>1. \A j \in Batch : Where(j) # p
          BY <2>2, AtWork, Placed DEF HistInv, Commit, Resting
    <3> QED BY <3>1, <2>2 DEF HistInv, CommitHolds
  <2>3. CASE call.pc \in {"purge", "consume", "migrate"}
    <3>1. call.i \in DOMAIN call.ops
          BY <2>3, AtWork DEF Resting
    <3>2. Op.at # p /\ Op.to # p
          BY <3>1, Placed DEF HistInv, Op
    <3> QED BY <3>2, <2>3 DEF HistInv, PlaceHolds
  <2>4. CASE call.pc \in {"idle", "ended", "op", "unlink", "rename", "revert"}
        BY <2>4 DEF HistInv, PlaceHolds
  <2> QED BY <2>1, <2>2, <2>3, <2>4 DEF Places, Commit
<1>4. call' \in AllCalls /\ call'.pc = "idle" /\ call'.kind = "none" /\ call'.told = "none"
      BY <1>1, NoneTyped DEF NoCall
<1> QED BY <1>2, <1>3, <1>4, Rests

LEMMA AnsweredKeeps ==
    ASSUME HistInv, Answered
    PROVE  HistInv'
<1>1. call' \in AllCalls /\ call'.pc = "idle" /\ call'.kind = "none" /\ call'.told = "none"
      BY NoneTyped DEF Answered, NoCall
<1>2. Kept' /\ \A p \in Path : Clean(p)'
      BY DEF Answered, HistInv, Typed, Kept, PlaceHolds, Clean, At
<1> QED BY <1>1, <1>2, Rests

LEMMA FinishKeeps ==
    ASSUME HistInv, Finish
    PROVE  HistInv'
<1>1. call' \in AllCalls /\ call'.pc = "ended"
      BY DEF Finish, Ends, HistInv, Typed, AllCalls, Places, Answers
<1>2. Kept' /\ \A p \in Path : Clean(p)'
      BY DEF Finish, HistInv, Typed, Kept, PlaceHolds, Clean, At
<1> QED BY <1>1, <1>2, Rests

\* A commit begins, on histories and texts as planned.
LEMMA Begins ==
    ASSUME HistInv, Kept', NEW lo \in Nat, NEW hi \in Nat, Begin(lo, hi),
           ~Resting, call.i <= Len(call.ops),
           \/ call.kind = "edit" /\ lo = 1 /\ hi = Len(call.ops)
           \/ call.kind = "patch" /\ lo = call.i /\ hi = call.i,
           \A j \in lo..hi : ~dirty'[Where(j)] =>
              Leads(stack'[Where(j)], call.text[j]) /\ disk'[Where(j)] = call.text[j],
           \A p \in Path : Clean(p)' \/ \E j \in lo..hi : p = Where(j),
           call.kind = "patch" =>
              \A n \in DOMAIN call.ops : n > call.i /\ ~dirty'[call.ops[n].at]
                  => disk'[call.ops[n].at] = call.text[n]
    PROVE  HistInv'
<1>1. call \in AllCalls /\ call' = [call EXCEPT !.pc = "push", !.k = lo, !.lo = lo, !.hi = hi]
      BY DEF HistInv, Typed, Begin
<1>2. /\ call' \in AllCalls /\ call'.pc = "push" /\ SamePlan /\ call'.i = call.i
      /\ call'.k = lo /\ call'.lo = lo /\ call'.hi = hi
      BY <1>1 DEF AllCalls, Places, SamePlan
<1>3. call.i \in 1..Len(call.ops) /\ Len(call.ops) \in Nat /\ DOMAIN call.ops = 1..Len(call.ops)
      BY AtWork DEF HistInv, Bounded
<1>4. Bounded'
  <2>1. /\ Len(call'.text) = Len(call'.ops) /\ Len(call'.result) = Len(call'.ops)
        /\ Distinct(call'.ops) /\ call'.kind \in {"edit", "patch"}
        /\ call'.kind = "edit" => \A n \in DOMAIN call'.ops : call'.ops[n].op = "update"
        BY <1>2 DEF HistInv, Bounded, SamePlan, Distinct
  <2>2. call'.i \in 1..Len(call'.ops) /\ lo <= hi /\ 1 <= lo /\ hi <= Len(call'.ops)
        /\ call'.i \in 1..Len(call'.ops) + 1
        BY <1>2, <1>3 DEF SamePlan
  <2> QED BY <1>2, <1>3, <2>1, <2>2 DEF Bounded, Commit, SamePlan
<1>5. CommitHolds'
  <2>1. Batch' = lo..hi
        BY <1>2 DEF Batch
  <2>2. ASSUME NEW j \in lo..hi
        PROVE  Item(j)' /\ Where(j)' = Where(j)
    <3>1. Where(j)' = Where(j) /\ ~Pushed(j)' /\ ~Written(j)' /\ call'.text = call.text
          BY <1>2 DEF Where, Pushed, Written, SamePlan
    <3> QED BY <3>1 DEF Item
  <2> QED BY <2>1, <2>2 DEF CommitHolds
<1>6. Ahead'
      BY <1>2 DEF Ahead, SamePlan
<1>7. PlaceHolds'
      BY <1>2 DEF PlaceHolds
<1> QED BY <1>2, <1>4, <1>5, <1>6, <1>7 DEF HistInv, Typed, Kept

\* A step of a commit, at its item k.
LEMMA CommitGoes ==
    ASSUME HistInv, call.pc \in Commit, Kept', call' \in AllCalls, call'.pc \in Commit, SamePlan,
           call'.i \in 1..Len(call.ops), call.kind = "patch" => call'.i = call.i,
           call'.lo = call.lo, call'.hi <= Len(call.ops), call.lo <= call'.hi + 1,
           call'.lo <= call'.k, call'.k <= call'.hi + 1, call'.pc # "pop" => call'.k <= call'.hi,
           call'.pc \in {"put", "unput"} => call'.k < call'.i /\ call'.i <= call'.hi,
           call'.hi <= call.hi, NEW k \in Batch, k = call.k,
           \A q \in Path : q # Where(k) =>
              /\ ~dirty'[q] => ~dirty[q]
              /\ disk'[q] = disk[q] /\ stack'[q] = stack[q],
           \A j \in Batch' : j # k => (Pushed(j)' <=> Pushed(j)) /\ (Written(j)' <=> Written(j)),
           k \in Batch' => Item(k)',
           \A j \in Batch : j \notin Batch' => Clean(Where(j))'
    PROVE  HistInv'
<1>1. call.kind \in {"edit", "patch"} /\ Distinct(call.ops) /\ ~Resting
      BY DEF HistInv, Bounded, Resting, Commit
<1>2. DOMAIN call.ops = 1..Len(call.ops) /\ \A j \in Batch : j \in DOMAIN call.ops /\ Where(j) \in Path
      BY <1>1, AtWork, Placed DEF HistInv
<1>3. \A j \in Batch' : j \in Batch
  <2>1. call'.hi \in Nat /\ call.hi \in Nat /\ call.lo \in Nat
        BY DEF HistInv, Typed, AllCalls
  <2> QED BY <2>1 DEF Batch
<1>4. \A j \in DOMAIN call.ops : Where(j)' = Where(j) /\ Entry(j)' = Entry(j)
      BY DEF Where, Entry, SamePlan
<1>5. Bounded'
  <2>1. /\ Len(call'.text) = Len(call'.ops) /\ Len(call'.result) = Len(call'.ops)
        /\ Distinct(call'.ops) /\ call'.kind \in {"edit", "patch"}
        /\ call'.kind = "edit" => \A n \in DOMAIN call'.ops : call'.ops[n].op = "update"
        BY <1>1 DEF HistInv, Bounded, SamePlan, Distinct
  <2>2. call.kind = "patch" => call'.lo = call'.i /\ call'.hi <= call'.i
    <3>1. call'.hi \in Nat /\ call.hi \in Nat /\ call.i \in Nat
          BY DEF HistInv, Typed, AllCalls
    <3> QED BY <3>1 DEF HistInv, Bounded
  <2>3. 1 <= call'.lo /\ (call.kind = "edit" => call'.lo = 1)
        BY DEF HistInv, Bounded
  <2>4. call'.i <= Len(call'.ops) /\ call'.i \in 1..Len(call'.ops) + 1
    <3>1. call'.ops = call.ops /\ Len(call.ops) \in Nat
          BY <1>1, AtWork DEF SamePlan
    <3> QED BY <3>1
  <2> QED BY <2>1, <2>2, <2>3, <2>4, <1>1 DEF Bounded, Commit, SamePlan
<1>6. CommitHolds'
  <2>1. ASSUME NEW j \in Batch'
        PROVE  Item(j)'
    <3>1. CASE j = k
          BY <3>1
    <3>2. CASE j # k
      <4>1. j \in DOMAIN call.ops /\ k \in DOMAIN call.ops /\ Where(j) \in Path /\ j \in Batch
            BY <1>2, <1>3
      <4>2. Where(j) # Where(k)
            BY <3>2, <4>1, <1>1, Apart
      <4>3. Item(j) /\ Where(j)' = Where(j) /\ Entry(j)' = Entry(j)
            BY <4>1, <1>4 DEF HistInv, CommitHolds
      <4> QED BY <3>2, <4>1, <4>2, <4>3 DEF Item, SamePlan
    <3> QED BY <3>1, <3>2
  <2>2. ASSUME NEW p \in Path
        PROVE  Clean(p)' \/ \E j \in Batch' : p = Where(j)'
    <3>1. CASE \E j \in Batch : p = Where(j)
          BY <3>1, <1>2, <1>4
    <3>2. CASE ~\E j \in Batch : p = Where(j)
          BY <3>2 DEF HistInv, CommitHolds, Clean
    <3> QED BY <3>1, <3>2
  <2> QED BY <2>1, <2>2 DEF CommitHolds
<1>7. Ahead'
  <2> SUFFICES ASSUME call.kind = "patch", NEW n \in DOMAIN call.ops, n > call.i,
                      ~dirty'[call.ops[n].at]
               PROVE  disk'[call.ops[n].at] = call.text[n]
      BY <1>1 DEF Ahead, Commit, SamePlan
  <2>1. k = call.i /\ call.i \in DOMAIN call.ops
    <3>1. call.lo = call.i /\ call.hi <= call.i
          BY DEF HistInv, Bounded
    <3>2. call.k \in Nat /\ call.i \in Nat /\ call.lo \in Nat /\ call.hi \in Nat
          BY DEF HistInv, Typed, AllCalls
    <3> QED BY <3>1, <3>2, <1>2 DEF Batch
  <2>2. call.ops[n].at # Where(k) /\ call.ops[n].at \in Path
        BY <2>1, <1>1, Apart, Placed DEF HistInv
  <2> QED BY <2>2, <1>1 DEF HistInv, Ahead
<1>8. PlaceHolds'
      BY DEF PlaceHolds, Commit
<1> QED BY <1>5, <1>6, <1>7, <1>8 DEF HistInv, Typed, Kept

\* What the items of a commit are about.
LEMMA CommitFacts ==
    ASSUME HistInv, call.pc \in Commit
    PROVE  /\ call.kind \in {"edit", "patch"} /\ Distinct(call.ops) /\ ~Resting /\ Kept
           /\ DOMAIN call.ops = 1..Len(call.ops) /\ Len(call.ops) \in Nat
           /\ call.i \in 1..Len(call.ops)
           /\ call.lo \in Nat /\ call.hi \in Nat /\ call.k \in Nat
           /\ 1 <= call.lo /\ call.lo <= call.hi + 1 /\ call.hi <= Len(call.ops)
           /\ call.lo <= call.k /\ call.k <= call.hi + 1
           /\ call.pc # "pop" => call.k <= call.hi
           /\ call.pc \in {"put", "unput"} => call.k < call.i /\ call.i <= call.hi
           /\ call.kind = "patch" => call.lo = call.i /\ call.hi <= call.i
           /\ \A j \in Batch : /\ j \in DOMAIN call.ops /\ Where(j) \in Path /\ Item(j)
                               /\ call.text[j] \in Nat /\ call.result[j] \in Nat /\ Entry(j) \in Entries
           /\ \A i, j \in Batch : i # j => Where(i) # Where(j)
           /\ \A p \in Path : Clean(p) \/ \E j \in Batch : p = Where(j)
<1>1. call.kind \in {"edit", "patch"} /\ Distinct(call.ops) /\ ~Resting
      BY DEF HistInv, Bounded, Resting, Commit
<1>2. /\ DOMAIN call.ops = 1..Len(call.ops) /\ Len(call.ops) \in Nat /\ call.i \in DOMAIN call.ops
      /\ \A j \in Batch : j \in DOMAIN call.ops
      /\ call.k \in Nat /\ call.lo \in Nat /\ call.hi \in Nat
      BY <1>1, AtWork DEF Commit
<1>3. Typed /\ Kept /\ Bounded /\ CommitHolds
      BY DEF HistInv, Typed, Kept
<1>4. ASSUME NEW j \in Batch
      PROVE  /\ j \in DOMAIN call.ops /\ Where(j) \in Path /\ Item(j)
             /\ call.text[j] \in Nat /\ call.result[j] \in Nat /\ Entry(j) \in Entries
  <2>1. j \in DOMAIN call.ops /\ Where(j) \in Path /\ call.text \in Seq(Nat) /\ call.result \in Seq(Nat)
        BY <1>2, <1>3, Placed
  <2>2. Len(call.text) = Len(call.ops) /\ Len(call.result) = Len(call.ops)
        BY <1>1, <1>3 DEF Bounded
  <2>3. call.text[j] \in Nat /\ call.result[j] \in Nat
    <3>1. j \in 1..Len(call.text) /\ j \in 1..Len(call.result)
          BY <2>1, <2>2, <1>2
    <3> QED BY <2>1, <3>1
  <2> QED BY <2>1, <2>3, <1>3 DEF Entry, Entries, CommitHolds
<1>5. \A i, j \in Batch : i # j => Where(i) # Where(j)
      BY <1>1, <1>2, Apart
<1>6. /\ 1 <= call.lo /\ call.lo <= call.hi + 1 /\ call.hi <= Len(call.ops)
      /\ call.lo <= call.k /\ call.k <= call.hi + 1
      /\ call.pc # "pop" => call.k <= call.hi
      /\ call.pc \in {"put", "unput"} => call.k < call.i /\ call.i <= call.hi
      /\ call.kind = "patch" => call.lo = call.i /\ call.hi <= call.i
      BY <1>3 DEF Bounded
<1>7. \A p \in Path : Clean(p) \/ \E j \in Batch : p = Where(j)
      BY <1>3 DEF CommitHolds
<1> QED BY <1>1, <1>2, <1>3, <1>4, <1>5, <1>6, <1>7

LEMMA StartCommitKeeps ==
    ASSUME HistInv, StartCommit
    PROVE  HistInv'
<1>1. /\ call.pc = "op" /\ call.i <= Len(call.ops) /\ disk' = disk /\ stack' = stack /\ dirty' = dirty /\ made' = made
      /\ \/ call.kind = "edit" /\ Begin(1, Len(call.ops))
         \/ call.kind = "patch" /\ Op.op = "update" /\ Begin(call.i, call.i)
      BY DEF StartCommit, At
<1>2. ~Resting /\ Kept' /\ \A p \in Path : Clean(p) /\ Clean(p)'
      BY <1>1 DEF HistInv, Typed, Kept, PlaceHolds, Clean, Resting
<1>3. /\ call.i \in DOMAIN call.ops /\ DOMAIN call.ops = 1..Len(call.ops)
      /\ call.i \in Nat /\ Len(call.ops) \in Nat
      BY <1>1, <1>2, AtWork
<1>4. ASSUME NEW j \in DOMAIN call.ops, j >= call.i, call.ops[j].op = "update",
             call.kind \in {"edit", "patch"}, ~dirty'[Where(j)]
      PROVE  Leads(stack'[Where(j)], call.text[j]) /\ disk'[Where(j)] = call.text[j]
  <2>1. Where(j) = call.ops[j].at /\ Where(j) \in Path
        BY <1>4, Placed DEF Where, HistInv
  <2>2. j > call.i \/ j = call.i
        BY <1>3, <1>4
  <2> QED BY <2>1, <2>2, <1>1, <1>2, <1>4 DEF HistInv, Ahead, Clean
<1>5. CASE call.kind = "edit" /\ Begin(1, Len(call.ops))
  <2>1. call.i = 1 /\ \A n \in DOMAIN call.ops : call.ops[n].op = "update"
        BY <1>1, <1>2, <1>5 DEF HistInv, Bounded
  <2>2. \A j \in 1..Len(call.ops) : ~dirty'[Where(j)] =>
           Leads(stack'[Where(j)], call.text[j]) /\ disk'[Where(j)] = call.text[j]
        BY <2>1, <1>3, <1>4, <1>5
  <2>3. 1 \in Nat /\ call.kind # "patch"
        BY <1>5
  <2> QED BY <2>2, <2>3, <1>1, <1>2, <1>3, <1>5, Begins
<1>6. CASE call.kind = "patch" /\ Op.op = "update" /\ Begin(call.i, call.i)
  <2>1. \A j \in call.i..call.i : ~dirty'[Where(j)] =>
           Leads(stack'[Where(j)], call.text[j]) /\ disk'[Where(j)] = call.text[j]
        BY <1>3, <1>4, <1>6 DEF Op
  <2>2. \A n \in DOMAIN call.ops : n > call.i /\ ~dirty'[call.ops[n].at]
           => disk'[call.ops[n].at] = call.text[n]
        BY <1>1, <1>2, <1>6 DEF HistInv, Ahead
  <2> QED BY <2>1, <2>2, <1>1, <1>2, <1>3, <1>6, Begins
<1> QED BY <1>1, <1>5, <1>6

LEMMA PushKeeps ==
    ASSUME PlansFit, HistInv, Push
    PROVE  HistInv'
<1>1. call.pc = "push" /\ call \in AllCalls /\ disk' = disk /\ dirty' = dirty /\ made' = made
      BY DEF Push, At, HistInv, Typed
<1>2. call.pc \in Commit
      BY <1>1 DEF Commit
<1> DEFINE p == Where(call.k)
<1>3. call.k \in Batch /\ p \in Path /\ Item(call.k) /\ Entry(call.k) \in Entries
      BY <1>1, <1>2, CommitFacts DEF Batch
<1>4. PICK k \in Batch : k = call.k
      BY <1>3
<1>5. CASE /\ stack' = [stack EXCEPT ![p] = Pruned(Append(@, Entry(call.k)))]
           /\ call' = IF call.k < call.hi THEN [call EXCEPT !.k = @ + 1]
                      ELSE [call EXCEPT !.pc = "write", !.k = call.lo]
  <2>1. /\ stack[p] \in Seq(Entries) /\ Len(stack[p]) <= UndoDepth /\ UndoDepth \in Nat \ {0}
        /\ stack' = [stack EXCEPT ![p] = Pruned(Append(stack[p], Entry(k)))] /\ Entry(k) \in Entries
        BY <1>3, <1>4, <1>5 DEF HistInv, Typed, PlansFit
  <2>2. /\ stack'[p] \in Seq(Entries) /\ stack'[p] # <<>> /\ Len(stack'[p]) <= UndoDepth
        /\ Last(stack'[p]) = Entry(k)
        /\ Leads(stack[p], call.text[k]) => Leads(Front(stack'[p]), call.text[k])
    <3>1. stack'[p] = Pruned(Append(stack[p], Entry(k)))
          BY <2>1, <1>3 DEF HistInv, Typed
    <3>2. Entry(k).before = call.text[k]
          BY DEF Entry
    <3> QED BY <2>1, <3>1, <3>2, Pushing
  <2>3. Kept'
        BY <2>1, <2>2, <1>1, <1>3 DEF HistInv, Typed, Kept
  <2>4. Item(k)
        BY <1>3, <1>4
  <2>5. CASE call.k < call.hi
    <3>1. call' = [call EXCEPT !.k = call.k + 1] /\ call.k + 1 \in Nat
          BY <1>5, <2>5, <1>2, CommitFacts
    <3>2. call' \in AllCalls /\ call'.pc = "push" /\ SamePlan /\ call'.i = call.i
          /\ call'.k = call.k + 1 /\ call'.lo = call.lo /\ call'.hi = call.hi
          BY <3>1, <1>1 DEF AllCalls, SamePlan
    <3>3. Batch' = Batch /\ \A j \in Batch : j \in Nat /\ ~Written(j)' /\ ~Written(j)
          BY <3>2, <1>1, <1>2, CommitFacts DEF Batch, Written
    <3>4. \A j \in Batch : (j # k => (Pushed(j)' <=> Pushed(j))) /\ (j = k => Pushed(j)' /\ ~Pushed(j))
          BY <3>2, <3>3, <1>1, <1>2, <1>4, CommitFacts DEF Pushed
    <3>5. Item(k)'
      <4>1. Where(k)' = p /\ Entry(k)' = Entry(k) /\ Pushed(k)' /\ ~Written(k)' /\ ~Pushed(k) /\ ~Written(k)
            BY <3>2, <3>3, <3>4, <1>4 DEF Where, Entry, SamePlan
      <4> QED BY <4>1, <2>2, <2>4, <3>2, <1>1, <1>4 DEF Item, SamePlan
    <3>6. \A q \in Path : q # Where(k) => stack'[q] = stack[q]
          BY <2>1, <1>4 DEF HistInv, Typed
    <3> QED BY <1>1, <1>2, <1>4, <2>3, <2>5, <3>2, <3>3, <3>4, <3>5, <3>6, CommitFacts, CommitGoes
  <2>6. CASE ~(call.k < call.hi)
    <3>1. call' = [call EXCEPT !.pc = "write", !.k = call.lo] /\ call.lo \in Nat
          BY <1>5, <2>6, <1>2, CommitFacts
    <3>2. call' \in AllCalls /\ call'.pc = "write" /\ SamePlan /\ call'.i = call.i
          /\ call'.k = call.lo /\ call'.lo = call.lo /\ call'.hi = call.hi
          BY <3>1, <1>1 DEF AllCalls, SamePlan, Places
    <3>3. call.k = call.hi
          BY <2>6, <1>1, <1>2, CommitFacts
    <3>4. Batch' = Batch /\ \A j \in Batch : j \in Nat /\ ~Written(j)' /\ ~Written(j)
          BY <3>2, <1>1, <1>2, CommitFacts DEF Batch, Written
    <3>5. \A j \in Batch : Pushed(j)' /\ (j # k => Pushed(j)) /\ (j = k => ~Pushed(j))
          BY <3>2, <3>3, <3>4, <1>1, <1>2, <1>4, CommitFacts DEF Pushed, Batch
    <3>6. Item(k)'
      <4>1. Where(k)' = p /\ Entry(k)' = Entry(k) /\ Pushed(k)' /\ ~Written(k)' /\ ~Pushed(k) /\ ~Written(k)
            BY <3>2, <3>4, <3>5, <1>4 DEF Where, Entry, SamePlan
      <4> QED BY <4>1, <2>2, <2>4, <3>2, <1>1, <1>4 DEF Item, SamePlan
    <3>7. \A q \in Path : q # Where(k) => stack'[q] = stack[q]
          BY <2>1, <1>4 DEF HistInv, Typed
    <3>8. call'.pc \in Commit
          BY <3>2 DEF Commit
    <3> QED BY <1>1, <1>2, <1>4, <2>3, <3>2, <3>3, <3>4, <3>5, <3>6, <3>7, <3>8, CommitFacts, CommitGoes
  <2> QED BY <2>5, <2>6
<1>6. CASE call' = [call EXCEPT !.pc = "pop", !.hi = call.k - 1, !.k = call.lo] /\ stack' = stack
  <2>1. call.k - 1 \in Nat /\ call.lo \in Nat
        BY <1>2, CommitFacts
  <2>2. call' \in AllCalls /\ call'.pc = "pop" /\ SamePlan /\ call'.i = call.i
        /\ call'.k = call.lo /\ call'.lo = call.lo /\ call'.hi = call.k - 1
        BY <2>1, <1>1, <1>6 DEF AllCalls, SamePlan, Places
  <2>3. Kept'
        BY <1>1, <1>6 DEF HistInv, Typed, Kept
  <2>4. \A j \in Batch' : j \in Batch /\ j # k /\ Pushed(j) /\ Pushed(j)' /\ ~Written(j) /\ ~Written(j)'
        BY <2>2, <1>1, <1>2, <1>4, CommitFacts DEF Batch, Pushed, Written
  <2>5. ASSUME NEW j \in Batch, j \notin Batch'
        PROVE  Clean(Where(j))'
    <3>1. Where(j)' = Where(j) /\ Where(j) \in Path /\ Item(j)
          BY <2>2, <1>2, CommitFacts DEF Where, SamePlan
    <3>2. ~Pushed(j) /\ ~Written(j)
          BY <2>5, <2>2, <1>1, <1>2, CommitFacts DEF Batch, Pushed, Written
    <3> QED BY <3>1, <3>2, <1>1, <1>6 DEF Item, Clean
  <2>6. call'.pc \in Commit /\ k \notin Batch'
        BY <2>2, <2>4 DEF Commit
  <2>7. call'.hi <= call.hi /\ call'.hi <= Len(call.ops) /\ call.lo <= call'.hi + 1
        BY <2>2, <1>1, <1>2, CommitFacts
  <2> QED BY <1>1, <1>2, <1>4, <1>6, <2>2, <2>3, <2>4, <2>5, <2>6, <2>7, CommitFacts, CommitGoes
<1> QED BY <1>5, <1>6 DEF Push

\* What a commit that wrote its last file leaves: every history leads to its text.
LEMMA WroteAll ==
    ASSUME HistInv, call.pc = "write", NEW k \in Batch, k = call.k, k = call.hi,
           stack' = stack, dirty' = dirty, disk' = [disk EXCEPT ![Where(k)] = call.result[k]]
    PROVE  \A p \in Path : Clean(p)'
<1>1. call.pc \in Commit
      BY DEF Commit
<1>2. stack \in [Path -> Seq(Entries)] /\ disk \in [Path -> Nat]
      BY DEF HistInv, Typed
<1> SUFFICES ASSUME NEW p \in Path, ~dirty[p]
             PROVE  Leads(stack[p], disk'[p])
    BY DEF Clean
<1>3. CASE \E j \in Batch : p = Where(j)
  <2>1. PICK j \in Batch : p = Where(j)
        BY <1>3
  <2>2. Item(j) /\ j \in Nat /\ k \in Nat /\ (j # k => Where(j) # Where(k))
        BY <1>1, CommitFacts DEF Batch
  <2>3. stack[p] # <<>> /\ Last(stack[p]) = Entry(j) /\ Leads(Front(stack[p]), call.text[j])
        BY <2>1, <2>2 DEF Item, Pushed
  <2>4. disk'[p] = call.result[j]
    <3>1. CASE j = k
          BY <2>1, <3>1, <1>2
    <3>2. CASE j # k
      <4>1. j < call.k
            BY <3>2, <2>2, <1>1, CommitFacts DEF Batch
      <4>2. Written(j)
            BY <4>1 DEF Written
      <4> QED BY <2>1, <2>2, <3>2, <4>2, <1>2 DEF Item
    <3> QED BY <3>1, <3>2
  <2>5. Last(stack[p]).before = call.text[j] /\ Last(stack[p]).result = call.result[j]
        BY <2>3 DEF Entry
  <2> QED BY <2>3, <2>4, <2>5, <1>2, Popping
<1>4. CASE ~\E j \in Batch : p = Where(j)
  <2>1. Clean(p) /\ p # Where(k)
        BY <1>1, <1>4, CommitFacts
  <2> QED BY <2>1, <1>2 DEF Clean
<1> QED BY <1>3, <1>4

LEMMA WriteKeeps ==
    ASSUME HistInv, Write
    PROVE  HistInv'
<1> DEFINE p == Where(call.k)
           lost == [call EXCEPT !.pc = IF call.k > call.lo THEN "put" ELSE "pop", !.i = call.k,
                                !.k = call.lo]
<1>1. call.pc = "write" /\ call \in AllCalls /\ stack' = stack /\ made' = made
      BY DEF Write, At, HistInv, Typed
<1>2. call.pc \in Commit
      BY <1>1 DEF Commit
<1>3. call.k \in Batch /\ p \in Path /\ call.result[call.k] \in Nat
      BY <1>1, <1>2, CommitFacts DEF Batch
<1>4. PICK k \in Batch : k = call.k
      BY <1>3
<1>5. CASE /\ disk' = [disk EXCEPT ![p] = call.result[call.k]] /\ dirty' = dirty
           /\ call' = IF call.k < call.hi THEN [call EXCEPT !.k = @ + 1] ELSE Committed
  <2>1. Kept'
        BY <1>1, <1>3, <1>5 DEF HistInv, Typed, Kept
  <2>2. CASE call.k < call.hi
    <3>1. call' = [call EXCEPT !.k = call.k + 1] /\ call.k + 1 \in Nat
          BY <1>5, <2>2, <1>2, CommitFacts
    <3>2. call' \in AllCalls /\ call'.pc = "write" /\ SamePlan /\ call'.i = call.i
          /\ call'.k = call.k + 1 /\ call'.lo = call.lo /\ call'.hi = call.hi
          BY <3>1, <1>1 DEF AllCalls, SamePlan
    <3>3. Batch' = Batch /\ \A j \in Batch : j \in Nat /\ Pushed(j)' /\ Pushed(j)
          BY <3>2, <1>1, <1>2, CommitFacts DEF Batch, Pushed
    <3>4. \A j \in Batch : (j # k => (Written(j)' <=> Written(j))) /\ (j = k => Written(j)' /\ ~Written(j))
          BY <3>2, <3>3, <1>1, <1>2, <1>4, CommitFacts DEF Written
    <3>5. Item(k)'
      <4>1. Where(k)' = p /\ Entry(k)' = Entry(k) /\ Pushed(k)' /\ Written(k)' /\ Pushed(k) /\ Item(k)
            BY <3>2, <3>3, <3>4, <1>2, <1>4, CommitFacts DEF Where, Entry, SamePlan
      <4>2. disk'[p] = call.result[k]
            BY <1>3, <1>4, <1>5 DEF HistInv, Typed
      <4> QED BY <4>1, <4>2, <3>2, <1>1, <1>4, <1>5 DEF Item, SamePlan
    <3>6. \A q \in Path : q # Where(k) => disk'[q] = disk[q]
          BY <1>4, <1>5 DEF HistInv, Typed
    <3> QED BY <1>1, <1>2, <1>4, <1>5, <2>1, <2>2, <3>2, <3>3, <3>4, <3>5, <3>6, CommitFacts, CommitGoes
  <2>3. CASE ~(call.k < call.hi)
    <3>1. k = call.hi
          BY <2>3, <1>1, <1>2, <1>4, CommitFacts
    <3>2. \A q \in Path : Clean(q)'
          BY <3>1, <1>1, <1>4, <1>5, WroteAll
    <3>3. call' = Committed
          BY <1>5, <2>3
    <3>4. CASE call.kind = "edit"
      <4>1. call' \in AllCalls /\ call'.pc = "ended"
            BY <3>3, <3>4, <1>1 DEF Committed, AllCalls, Places, Answers
      <4> QED BY <4>1, <2>1, <3>2, Rests
    <3>5. CASE call.kind = "patch"
      <4>1. call' = Settled("completed")
            BY <3>3, <3>5 DEF Committed
      <4>2. k = call.i /\ call.i \in DOMAIN call.ops
            BY <3>1, <3>5, <1>1, <1>2, <1>4, CommitFacts
      <4>3. ASSUME NEW n \in DOMAIN call.ops, n > call.i, ~dirty'[call.ops[n].at]
            PROVE  disk'[call.ops[n].at] = call.text[n]
        <5>1. call.ops[n].at # p /\ call.ops[n].at \in Path
              BY <4>2, <4>3, <1>2, <1>4, CommitFacts, Apart, Placed DEF HistInv
        <5>2. disk[call.ops[n].at] = call.text[n]
              BY <3>5, <4>3, <1>2, <1>5, CommitFacts DEF HistInv, Ahead
        <5> QED BY <5>1, <5>2, <1>5 DEF HistInv, Typed
      <4> QED BY <4>1, <4>2, <4>3, <2>1, <3>2, <3>5, <1>2, CommitFacts, Settles
    <3> QED BY <3>4, <3>5, <1>2, CommitFacts
  <2> QED BY <2>2, <2>3
<1>6. ASSUME \/ call' = lost /\ disk' = disk /\ dirty' = dirty
             \/ /\ call' = [lost EXCEPT !.alone = FALSE]
                /\ disk' = [disk EXCEPT ![p] = call.result[call.k]]
                /\ dirty' = [dirty EXCEPT ![p] = TRUE]
      PROVE  HistInv'
  <2>1. Kept' /\ \A q \in Path : q # p => disk'[q] = disk[q] /\ dirty'[q] = dirty[q]
        BY <1>1, <1>3, <1>6 DEF HistInv, Typed, Kept
  <2>2. call.lo \in Nat /\ call.k \in Nat /\ call.i \in Nat
        BY <1>2, CommitFacts
  <2>3. call' \in AllCalls /\ call'.pc = (IF call.k > call.lo THEN "put" ELSE "pop") /\ SamePlan
        /\ call'.i = call.k /\ call'.k = call.lo /\ call'.lo = call.lo /\ call'.hi = call.hi
    <3> DEFINE place == IF call.k > call.lo THEN "put" ELSE "pop"
    <3>1. place \in Places
          BY DEF Places
    <3> HIDE DEF place
    <3>2. lost = [call EXCEPT !.pc = place, !.i = call.k, !.k = call.lo]
          BY DEF place
    <3>3. /\ lost \in AllCalls /\ lost.pc = place /\ lost.i = call.k /\ lost.k = call.lo
          /\ lost.kind = call.kind /\ lost.ops = call.ops /\ lost.text = call.text /\ lost.lo = call.lo
          /\ lost.result = call.result /\ lost.stack = call.stack /\ lost.hi = call.hi
      <4>1. lost \in AllCalls
            BY <2>2, <1>1, <3>1, <3>2 DEF AllCalls
      <4> QED BY <1>1, <3>2, <4>1 DEF AllCalls
    <3> HIDE DEF lost
    <3>4. CASE call' = lost
          BY <3>3, <3>4 DEF SamePlan, place
    <3>5. CASE call' = [lost EXCEPT !.alone = FALSE]
      <4>1. call' \in AllCalls
            BY <3>3, <3>5 DEF AllCalls
      <4> QED BY <3>3, <3>5, <4>1 DEF AllCalls, SamePlan, place
    <3> QED BY <1>6, <3>4, <3>5
  <2>4. Batch' = Batch /\ \A j \in Batch : j \in Nat /\ Pushed(j)' /\ Pushed(j)
        BY <2>3, <1>1, <1>2, CommitFacts DEF Batch, Pushed
  <2>5. \A j \in Batch : Written(j)' <=> Written(j)
        BY <2>3, <2>4, <1>1, <1>2, CommitFacts DEF Batch, Written
  <2>6. ~Written(k)
        BY <2>4, <1>1, <1>4 DEF Written
  <2>7. Item(k)'
    <3>1. Where(k)' = p /\ Entry(k)' = Entry(k) /\ Pushed(k)' /\ ~Written(k)' /\ Pushed(k) /\ Item(k)
          BY <2>3, <2>4, <2>5, <2>6, <1>2, <1>4, CommitFacts DEF Where, Entry, SamePlan
    <3>2. ~dirty'[p] => ~dirty[p] /\ disk'[p] = disk[p]
          BY <1>3, <1>6 DEF HistInv, Typed
    <3> QED BY <3>1, <3>2, <2>3, <2>6, <1>1, <1>4 DEF Item, SamePlan
  <2>8. call'.pc \in Commit /\ call'.i \in 1..Len(call.ops)
        BY <2>3, <1>2, <1>3, CommitFacts DEF Commit
  <2>9. call.kind = "patch" => call'.i = call.i
        BY <2>3, <1>1, <1>2, CommitFacts
  <2>10. call'.pc \in {"put", "unput"} => call'.k < call'.i /\ call'.i <= call'.hi
        BY <2>3, <1>1, <1>2, CommitFacts
  <2> QED BY <1>1, <1>2, <1>4, <2>1, <2>3, <2>4, <2>5, <2>7, <2>8, <2>9, <2>10, CommitFacts, CommitGoes
<1> QED BY <1>5, <1>6 DEF Write, Lands

LEMMA PutBackKeeps ==
    ASSUME HistInv, PutBack
    PROVE  HistInv'
<1> DEFINE p == Where(call.k)
<1>1. call.pc = "put" /\ call \in AllCalls /\ stack' = stack /\ made' = made
      BY DEF PutBack, At, HistInv, Typed
<1>2. call.pc \in Commit
      BY <1>1 DEF Commit
<1>3. call.k \in Batch /\ p \in Path /\ call.text[call.k] \in Nat
      BY <1>1, <1>2, CommitFacts DEF Batch
<1>4. PICK k \in Batch : k = call.k
      BY <1>3
<1>5. \/ /\ disk' = [disk EXCEPT ![p] = call.text[call.k]] /\ dirty' = dirty
         /\ call' = [call EXCEPT !.pc = "unput"]
      \/ /\ call' = [call EXCEPT !.pc = "unput", !.alone = FALSE]
         /\ dirty' = [dirty EXCEPT ![p] = TRUE] /\ disk' = disk
      BY DEF PutBack, Lands, Goes
<1>6. call' \in AllCalls /\ call'.pc = "unput" /\ SamePlan /\ SameSpan
  <2>1. CASE call' = [call EXCEPT !.pc = "unput"]
        BY <1>1, <2>1 DEF AllCalls, SamePlan, SameSpan, Places
  <2>2. CASE call' = [call EXCEPT !.pc = "unput", !.alone = FALSE]
    <3>1. call' \in AllCalls
          BY <1>1, <2>2 DEF AllCalls, Places
    <3> QED BY <1>1, <2>2, <3>1 DEF AllCalls, SamePlan, SameSpan
  <2> QED BY <1>5, <2>1, <2>2
<1>7. Kept' /\ \A q \in Path : q # p => disk'[q] = disk[q] /\ dirty'[q] = dirty[q]
      BY <1>1, <1>3, <1>5 DEF HistInv, Typed, Kept
<1>8. Batch' = Batch /\ \A j \in Batch : j \in Nat /\ (Pushed(j)' <=> Pushed(j))
      BY <1>6, <1>1, <1>2, CommitFacts DEF Batch, Pushed, SameSpan
<1>9. \A j \in Batch : (j # k => (Written(j)' <=> Written(j))) /\ ~Written(k)' /\ Pushed(k)
      BY <1>6, <1>8, <1>1, <1>2, <1>4, CommitFacts DEF Written, Pushed, SameSpan
<1>10. Item(k)'
  <2>1. Where(k)' = p /\ Entry(k)' = Entry(k) /\ Pushed(k)' /\ ~Written(k)' /\ Pushed(k) /\ Item(k)
        BY <1>6, <1>8, <1>9, <1>2, <1>4, CommitFacts DEF Where, Entry, SamePlan
  <2>2. ~dirty'[p] => ~dirty[p] /\ disk'[p] = call.text[k]
        BY <1>3, <1>4, <1>5 DEF HistInv, Typed
  <2> QED BY <2>1, <2>2, <1>1, <1>4, <1>6 DEF Item, SamePlan
<1>11. call'.pc \in Commit
      BY <1>6 DEF Commit
<1> QED BY <1>1, <1>2, <1>4, <1>6, <1>7, <1>8, <1>9, <1>10, <1>11, CommitFacts, CommitGoes DEF SameSpan

LEMMA UnputKeeps ==
    ASSUME PlansFit, HistInv, Unput
    PROVE  HistInv'
<1> DEFINE p == Where(call.k)
<1>1. /\ call.pc = "unput" /\ call \in AllCalls /\ disk' = disk /\ dirty' = dirty /\ made' = made
      /\ stack' = [stack EXCEPT ![p] = Popped(@)]
      /\ call' = [call EXCEPT !.k = call.k + 1, !.pc = IF call.k + 1 < call.i THEN "put" ELSE "pop"]
      BY DEF Unput, At, HistInv, Typed, NextOne
<1>2. call.pc \in Commit
      BY <1>1 DEF Commit
<1>3. call.k \in Batch /\ p \in Path /\ call.k + 1 \in Nat
      BY <1>1, <1>2, CommitFacts DEF Batch
<1>4. PICK k \in Batch : k = call.k
      BY <1>3
<1>5. /\ call' \in AllCalls /\ call'.pc = (IF call.k + 1 < call.i THEN "put" ELSE "pop") /\ SamePlan
      /\ call'.i = call.i /\ call'.k = call.k + 1 /\ call'.lo = call.lo /\ call'.hi = call.hi
      BY <1>1, <1>3 DEF AllCalls, SamePlan, Places
<1>6. stack[p] \in Seq(Entries) /\ stack'[p] = Popped(stack[p])
      BY <1>1, <1>3 DEF HistInv, Typed
<1>7. /\ stack'[p] \in Seq(Entries) /\ Len(stack'[p]) <= Len(stack[p])
      /\ stack[p] # <<>> => stack'[p] = Front(stack[p])
      BY <1>6, Popping
<1>8. Kept' /\ \A q \in Path : q # p => stack'[q] = stack[q]
  <2>1. Len(stack'[p]) <= UndoDepth
    <3>1. Len(stack'[p]) \in Nat /\ Len(stack[p]) \in Nat /\ UndoDepth \in Nat /\ Len(stack[p]) <= UndoDepth
          BY <1>3, <1>6, <1>7 DEF PlansFit, HistInv, Typed
    <3> QED BY <3>1, <1>7
  <2> QED BY <2>1, <1>1, <1>3, <1>7 DEF HistInv, Typed, Kept
<1>9. Batch' = Batch /\ \A j \in Batch : j \in Nat
      BY <1>5, <1>2, CommitFacts DEF Batch
<1>10. \A j \in Batch : /\ j # k => (Written(j)' <=> Written(j)) /\ (Pushed(j)' <=> Pushed(j))
                        /\ ~Written(k)' /\ ~Written(k) /\ Pushed(k) /\ ~Pushed(k)'
  <2>1. \A j \in Batch : (Written(j)' <=> k < j /\ j < call.i) /\ (Pushed(j)' <=> k + 1 <= j)
        BY <1>5, <1>9, <1>1, <1>2, <1>4, CommitFacts DEF Written, Pushed
  <2>2. \A j \in Batch : (Written(j) <=> k < j /\ j < call.i) /\ (Pushed(j) <=> k <= j)
        BY <1>9, <1>1, <1>4 DEF Written, Pushed
  <2> QED BY <2>1, <2>2, <1>9
<1>11. Item(k)'
  <2>1. Where(k)' = p /\ ~Pushed(k)' /\ ~Written(k)' /\ Pushed(k) /\ ~Written(k) /\ Item(k)
        BY <1>5, <1>10, <1>2, <1>4, CommitFacts DEF Where, SamePlan
  <2> QED BY <2>1, <1>7, <1>1, <1>4, <1>5 DEF Item, SamePlan
<1>12. call'.pc \in Commit /\ call'.lo <= call'.k /\ call'.k <= call'.hi + 1
       /\ (call'.pc # "pop" => call'.k <= call'.hi)
       /\ (call'.pc \in {"put", "unput"} => call'.k < call'.i /\ call'.i <= call'.hi)
      BY <1>5, <1>1, <1>2, CommitFacts DEF Commit
<1> QED BY <1>1, <1>2, <1>4, <1>5, <1>8, <1>9, <1>10, <1>11, <1>12, CommitFacts, CommitGoes

LEMMA PopKeeps ==
    ASSUME PlansFit, HistInv, Pop
    PROVE  HistInv'
<1> DEFINE p == Where(call.k)
<1>1. call.pc = "pop" /\ call \in AllCalls /\ disk' = disk /\ dirty' = dirty /\ made' = made
      BY DEF Pop, At, HistInv, Typed
<1>2. call.pc \in Commit
      BY <1>1 DEF Commit
<1>3. CASE /\ call.k <= call.hi /\ stack' = [stack EXCEPT ![p] = Popped(@)]
           /\ call' = [call EXCEPT !.k = @ + 1]
  <2>1. call.k \in Batch /\ p \in Path /\ call.k + 1 \in Nat
        BY <1>3, <1>2, CommitFacts DEF Batch
  <2>2. PICK k \in Batch : k = call.k
        BY <2>1
  <2>3. call' = [call EXCEPT !.k = call.k + 1]
        BY <1>3
  <2>4. /\ call' \in AllCalls /\ call'.pc = "pop" /\ SamePlan /\ call'.i = call.i
        /\ call'.k = call.k + 1 /\ call'.lo = call.lo /\ call'.hi = call.hi
        BY <1>1, <2>1, <2>3 DEF AllCalls, SamePlan
  <2>5. stack[p] \in Seq(Entries) /\ stack'[p] = Popped(stack[p])
        BY <1>3, <2>1 DEF HistInv, Typed
  <2>6. /\ stack'[p] \in Seq(Entries) /\ Len(stack'[p]) <= Len(stack[p])
        /\ stack[p] # <<>> => stack'[p] = Front(stack[p])
        BY <2>5, Popping
  <2>7. Kept' /\ \A q \in Path : q # p => stack'[q] = stack[q]
    <3>1. Len(stack'[p]) \in Nat /\ Len(stack[p]) \in Nat /\ UndoDepth \in Nat /\ Len(stack[p]) <= UndoDepth
          BY <2>1, <2>5, <2>6 DEF PlansFit, HistInv, Typed
    <3>2. Len(stack'[p]) <= UndoDepth
          BY <3>1, <2>6
    <3> QED BY <3>2, <1>1, <1>3, <2>1, <2>6 DEF HistInv, Typed, Kept
  <2>8. Batch' = Batch /\ \A j \in Batch : j \in Nat /\ ~Written(j) /\ ~Written(j)'
        BY <1>1, <1>2, <2>4, CommitFacts DEF Batch, Written
  <2>9. \A j \in Batch : /\ j # k => (Pushed(j)' <=> Pushed(j))
                         /\ Pushed(k) /\ ~Pushed(k)'
    <3>1. \A j \in Batch : (Pushed(j)' <=> k + 1 <= j) /\ (Pushed(j) <=> k <= j)
          BY <1>1, <2>2, <2>4 DEF Pushed
    <3> QED BY <3>1, <2>8
  <2>10. Item(k)'
    <3>1. Where(k)' = p /\ ~Pushed(k)' /\ ~Written(k)' /\ Pushed(k) /\ ~Written(k) /\ Item(k)
          BY <2>4, <2>8, <2>9, <1>2, <2>2, CommitFacts DEF Where, SamePlan
    <3> QED BY <3>1, <2>6, <1>1, <2>2, <2>4 DEF Item, SamePlan
  <2>11. call'.pc \in Commit /\ call'.lo <= call'.k /\ call'.k <= call'.hi + 1
        BY <2>4, <1>2, <1>3, CommitFacts DEF Commit
  <2> QED BY <1>1, <1>2, <2>2, <2>4, <2>7, <2>8, <2>9, <2>10, <2>11, CommitFacts, CommitGoes
<1>4. CASE /\ ~(call.k <= call.hi) /\ stack' = stack
           /\ call' = Settled(IF call.alone THEN "failed" ELSE "unknown")
  <2>1. Kept'
        BY <1>1, <1>4 DEF HistInv, Typed, Kept
  <2>2. ASSUME NEW q \in Path
        PROVE  Clean(q)
    <3>1. CASE \E j \in Batch : q = Where(j)
      <4>1. PICK j \in Batch : q = Where(j)
            BY <3>1
      <4>2. Item(j) /\ ~Pushed(j) /\ ~Written(j)
            BY <1>1, <1>2, <1>4, CommitFacts DEF Batch, Pushed, Written
      <4> QED BY <4>1, <4>2 DEF Item, Clean
    <3>2. CASE ~\E j \in Batch : q = Where(j)
          BY <3>2, <1>2, CommitFacts
    <3> QED BY <3>1, <3>2
  <2>3. \A q \in Path : Clean(q)'
        BY <2>2, <1>1, <1>4 DEF Clean
  <2>4. PICK status \in {"failed", "unknown"} : call' = Settled(status)
        BY <1>4
  <2>5. call.kind = "patch" =>
           \A n \in DOMAIN call.ops : n > call.i /\ ~dirty'[call.ops[n].at]
               => disk'[call.ops[n].at] = call.text[n]
        BY <1>1, <1>2, CommitFacts DEF HistInv, Ahead
  <2>6. status \in {"completed", "failed", "unknown"} /\ status # "completed"
        BY <2>4
  <2>7. call.i <= Len(call.ops) /\ call.kind # "undo" /\ ~Resting
        BY <1>2, CommitFacts
  <2> QED BY <2>1, <2>3, <2>4, <2>5, <2>6, <2>7, Settles
<1> QED BY <1>3, <1>4 DEF Pop, Unwritten

\* An operation goes on to its next place, outside of a commit.
LEMMA Steps ==
    ASSUME HistInv, Kept', NEW pc \in {"unlink", "purge", "rename", "migrate"}, Goes(pc),
           ~Resting, call.pc \notin Commit, call.i <= Len(call.ops), call.kind \notin {"edit", "undo"},
           PlaceHolds',
           call.kind = "patch" =>
              \A n \in DOMAIN call.ops :
                 (n > call.i \/ (n = call.i /\ pc = "rename")) /\ ~dirty'[call.ops[n].at]
                     => disk'[call.ops[n].at] = call.text[n]
    PROVE  HistInv'
<1>1. call \in AllCalls /\ pc \in Places
      BY DEF HistInv, Typed, Places
<1>2. call' \in AllCalls /\ call'.pc = pc /\ SamePlan /\ SameSpan
      BY <1>1, Goings
<1>3. Bounded'
  <2>1. /\ call'.kind # "none" /\ call'.i \in 1..Len(call'.ops) + 1 /\ call'.i <= Len(call'.ops)
        /\ Len(call'.text) = Len(call'.ops) /\ Len(call'.result) = Len(call'.ops)
        /\ call'.kind \in {"edit", "patch"} => Distinct(call'.ops)
        BY <1>2 DEF HistInv, Bounded, SamePlan, SameSpan, Distinct
  <2> QED BY <2>1, <1>2 DEF Bounded, Commit, SamePlan
<1>4. CommitHolds'
      BY <1>2 DEF CommitHolds, Commit
<1>5. Ahead'
      BY <1>2 DEF Ahead, SamePlan, SameSpan
<1> QED BY <1>2, <1>3, <1>4, <1>5 DEF HistInv, Typed, Kept

\* An operation that starts.
LEMMA InOpFacts ==
    ASSUME HistInv, NEW op, InOp(op)
    PROVE  /\ ~Resting /\ call.pc \notin Commit /\ call.i \in DOMAIN call.ops /\ call.i <= Len(call.ops)
           /\ Op.at \in Path /\ Op.to \in Path /\ call.kind \notin {"edit", "undo"}
           /\ Op.op = op /\ call.pc = "op" /\ Typed /\ Kept /\ \A p \in Path : Clean(p)
           /\ call.kind = "patch" =>
                /\ Distinct(call.ops)
                /\ \A n \in DOMAIN call.ops : n >= call.i /\ ~dirty[call.ops[n].at]
                       => disk[call.ops[n].at] = call.text[n]
<1>1. call.pc = "op" /\ call.i <= Len(call.ops) /\ Op.op = op /\ call.kind # "edit"
      BY DEF InOp, At
<1>2. ~Resting /\ call.pc \notin Commit
      BY <1>1 DEF Resting, Commit
<1>3. call.i \in DOMAIN call.ops /\ Op.at \in Path /\ Op.to \in Path
      /\ DOMAIN call.ops = 1..Len(call.ops) /\ call.i \in Nat
      BY <1>1, <1>2, AtWork
<1>4. call.kind # "undo" /\ (call.kind = "patch" => Distinct(call.ops))
      BY <1>1, <1>2 DEF HistInv, Bounded
<1>5. Typed /\ Kept /\ \A p \in Path : Clean(p)
      BY <1>1 DEF HistInv, Typed, Kept, PlaceHolds
<1>6. ASSUME call.kind = "patch", NEW n \in DOMAIN call.ops, n >= call.i, ~dirty[call.ops[n].at]
      PROVE  disk[call.ops[n].at] = call.text[n]
  <2>1. n > call.i \/ n = call.i
        BY <1>3, <1>6
  <2> QED BY <2>1, <1>1, <1>2, <1>6 DEF HistInv, Ahead
<1> QED BY <1>1, <1>2, <1>3, <1>4, <1>5, <1>6

\* An operation that fails leaves everything.
LEMMA Declines ==
    ASSUME HistInv, NEW op, InOp(op), call' = Settled("failed"), UNCHANGED <<disk, stack, dirty, made>>
    PROVE  HistInv'
<1>1. Kept' /\ \A p \in Path : Clean(p)'
      BY InOpFacts DEF Kept, Clean
<1>2. call.kind = "patch" =>
         \A n \in DOMAIN call.ops : n > call.i /\ ~dirty'[call.ops[n].at]
             => disk'[call.ops[n].at] = call.text[n]
      BY InOpFacts DEF HistInv, Ahead
<1> QED BY <1>1, <1>2, InOpFacts, Settles

LEMMA AddKeeps ==
    ASSUME HistInv, Add
    PROVE  HistInv'
<1>1. PICK op \in {"add", "write"} : InOp(op)
      BY DEF Add
<1> DEFINE p == Op.at
<1>2. CASE /\ disk' = [disk EXCEPT ![p] = call.result[call.i]] /\ dirty' = [dirty EXCEPT ![p] = TRUE]
           /\ call' = IF Op.op = "add" THEN [call EXCEPT !.pc = "purge"] ELSE Settled("completed")
           /\ stack' = stack /\ made' = made
  <2>1. call.result[call.i] \in Nat
    <3>1. call.result \in Seq(Nat) /\ Len(call.result) = Len(call.ops) /\ call.i \in 1..Len(call.ops)
          BY <1>1, InOpFacts DEF HistInv, Typed, AllCalls, Sequences, Bounded
    <3>2. call.i \in 1..Len(call.result)
          BY <3>1
    <3> QED BY <3>1, <3>2
  <2>2. Kept'
        BY <1>1, <1>2, <2>1, InOpFacts DEF Kept
  <2>3. \A q \in Path : ~dirty'[q] => ~dirty[q] /\ q # p /\ disk'[q] = disk[q]
        BY <1>1, <1>2, InOpFacts DEF Typed
  <2>4. \A q \in Path : Clean(q)'
        BY <1>1, <1>2, <2>3, InOpFacts DEF Clean
  <2>5. ASSUME call.kind = "patch", NEW n \in DOMAIN call.ops, n > call.i, ~dirty'[call.ops[n].at]
        PROVE  disk'[call.ops[n].at] = call.text[n]
    <3>1. call.ops[n].at \in Path
          BY Placed DEF HistInv
    <3>2. ~Resting
          BY <1>1, InOpFacts
    <3>3. disk[call.ops[n].at] = call.text[n]
          BY <2>5, <3>1, <3>2, <2>3 DEF HistInv, Ahead
    <3> QED BY <3>1, <3>3, <2>5, <2>3
  <2>6. CASE Op.op = "add"
    <3>1. Goes("purge")
          BY <1>2, <2>6 DEF Goes
    <3>2. call'.pc = "purge"
          BY <3>1, Goings DEF HistInv, Typed, Places
    <3>3. PlaceHolds'
          BY <3>2, <2>4 DEF PlaceHolds
    <3> QED BY <3>1, <3>3, <2>2, <2>5, <1>1, InOpFacts, Steps
  <2>7. CASE Op.op # "add"
    <3>1. call' = Settled("completed")
          BY <1>2, <2>7
    <3> QED BY <3>1, <2>2, <2>4, <2>5, <1>1, InOpFacts, Settles
  <2> QED BY <2>6, <2>7
<1>3. CASE call' = Settled("failed") /\ UNCHANGED <<disk, stack, dirty, made>>
      BY <1>1, <1>3, Declines
<1> QED BY <1>2, <1>3 DEF Add, Lands

LEMMA DeleteKeeps ==
    ASSUME HistInv, Delete
    PROVE  HistInv'
<1>1. /\ InOp("remove") /\ disk' = disk /\ stack' = stack /\ dirty' = dirty /\ made' = made
      /\ Goes("unlink") \/ Goes("purge") \/ call' = Settled("failed")
      BY DEF Delete
<1>2. ASSUME NEW pc \in {"unlink", "purge"}, Goes(pc)
      PROVE  HistInv'
  <2>1. Kept' /\ \A p \in Path : Clean(p)'
        BY <1>1, InOpFacts DEF Kept, Clean
  <2>2. call'.pc = pc
        BY <1>2, Goings DEF HistInv, Typed, Places
  <2>3. PlaceHolds'
        BY <2>1, <2>2 DEF PlaceHolds
  <2>4. call.kind = "patch" =>
          \A n \in DOMAIN call.ops : n > call.i /\ ~dirty'[call.ops[n].at]
              => disk'[call.ops[n].at] = call.text[n]
        BY <1>1, InOpFacts DEF HistInv, Ahead
  <2> QED BY <1>1, <1>2, <2>1, <2>3, <2>4, InOpFacts, Steps
<1> QED BY <1>1, <1>2, Declines

LEMMA MoveKeeps ==
    ASSUME HistInv, Move
    PROVE  HistInv'
<1>1. /\ InOp("move") /\ disk' = disk /\ stack' = stack /\ dirty' = dirty /\ made' = made
      /\ \/ disk[Op.at] # Absent /\ disk[Op.to] = Absent /\ Goes("rename")
         \/ call' = Settled("failed")
      BY DEF Move
<1>2. CASE disk[Op.at] # Absent /\ disk[Op.to] = Absent /\ Goes("rename")
  <2>1. Kept' /\ \A p \in Path : Clean(p)'
        BY <1>1, InOpFacts DEF Kept, Clean
  <2>2. call'.pc = "rename" /\ Op' = Op
        BY <1>2, Goings DEF HistInv, Typed, Places
  <2>3. PlaceHolds'
        BY <2>1, <2>2, <1>1, <1>2, InOpFacts DEF PlaceHolds
  <2>4. call.kind = "patch" =>
          \A n \in DOMAIN call.ops :
             (n > call.i \/ n = call.i) /\ ~dirty'[call.ops[n].at]
              => disk'[call.ops[n].at] = call.text[n]
        BY <1>1, InOpFacts DEF HistInv, Ahead
  <2> QED BY <1>1, <1>2, <2>1, <2>3, <2>4, InOpFacts, Steps
<1> QED BY <1>1, <1>2, Declines

\* An operation that is past its start, outside of a commit.
LEMMA MidwayFacts ==
    ASSUME HistInv, call.pc \in {"unlink", "purge", "rename", "migrate"}
    PROVE  /\ ~Resting /\ call.pc \notin Commit /\ call.i \in DOMAIN call.ops /\ call.i <= Len(call.ops)
           /\ Op.at \in Path /\ Op.to \in Path /\ call.kind \notin {"edit", "undo"}
           /\ Typed /\ Kept
           /\ call.kind = "patch" =>
                \A n \in DOMAIN call.ops : n > call.i =>
                   /\ call.ops[n].at \in Path /\ call.ops[n].at # Op.at /\ call.ops[n].at # Op.to
                   /\ ~dirty[call.ops[n].at] => disk[call.ops[n].at] = call.text[n]
<1>1. ~Resting /\ call.pc \notin Commit /\ call.pc # "op"
      BY DEF Resting, Commit
<1>2. call.i \in DOMAIN call.ops /\ Op.at \in Path /\ Op.to \in Path
      /\ DOMAIN call.ops = 1..Len(call.ops) /\ call.i \in Nat
      BY <1>1, AtWork
<1>3. call.kind \notin {"edit", "undo"} /\ (call.kind = "patch" => Distinct(call.ops))
      BY <1>1 DEF HistInv, Bounded
<1>4. Typed /\ Kept
      BY DEF HistInv, Typed, Kept
<1>5. ASSUME call.kind = "patch", NEW n \in DOMAIN call.ops, n > call.i
      PROVE  /\ call.ops[n].at \in Path /\ call.ops[n].at # Op.at /\ call.ops[n].at # Op.to
             /\ ~dirty[call.ops[n].at] => disk[call.ops[n].at] = call.text[n]
  <2>1. n # call.i
        BY <1>2, <1>5
  <2>2. call.ops[n].at \in Path /\ call.ops[n].at # Op.at /\ call.ops[n].at # Op.to
        BY <2>1, <1>2, <1>3, <1>4, <1>5, Apart, Placed DEF Op
  <2> QED BY <2>2, <1>1, <1>5 DEF HistInv, Ahead
<1> QED BY <1>1, <1>2, <1>3, <1>4, <1>5

LEMMA UnlinkKeeps ==
    ASSUME HistInv, Unlink
    PROVE  HistInv'
<1>1. /\ call.pc = "unlink" /\ disk' = [disk EXCEPT ![Op.at] = Absent] /\ Goes("purge")
      /\ stack' = stack /\ dirty' = dirty /\ made' = made
      BY DEF Unlink, At
<1>2. Kept' /\ \A p \in Path : p # Op.at => disk'[p] = disk[p]
      BY <1>1, MidwayFacts DEF Kept, Absent
<1>3. call'.pc = "purge" /\ Op' = Op
      BY <1>1, Goings DEF HistInv, Typed, Places
<1>4. \A p \in Path : p # Op.at => Clean(p)'
      BY <1>1, <1>2 DEF HistInv, PlaceHolds, Clean
<1>5. PlaceHolds'
      BY <1>3, <1>4 DEF PlaceHolds
<1>6. call.kind = "patch" =>
         \A n \in DOMAIN call.ops : n > call.i /\ ~dirty'[call.ops[n].at]
             => disk'[call.ops[n].at] = call.text[n]
      BY <1>1, <1>2, MidwayFacts
<1> QED BY <1>1, <1>2, <1>5, <1>6, MidwayFacts, Steps

LEMMA PurgeKeeps ==
    ASSUME PlansFit, HistInv, Purge
    PROVE  HistInv'
<1>1. /\ call.pc = "purge" /\ stack' = [stack EXCEPT ![Op.at] = <<>>]
      /\ dirty' = [dirty EXCEPT ![Op.at] = FALSE] /\ disk' = disk /\ made' = made
      /\ call' = Settled("completed")
      BY DEF Purge, At, NoHistory
<1>2. <<>> \in Seq(Entries) /\ Len(<<>>) = 0 /\ UndoDepth \in Nat
      BY DEF PlansFit
<1>3. Kept'
      BY <1>1, <1>2, MidwayFacts DEF Kept
<1>4. \A p \in Path : Clean(p)'
  <2>1. ASSUME NEW p \in Path, p # Op.at
        PROVE  Clean(p)'
    <3>1. Clean(p) /\ stack'[p] = stack[p] /\ dirty'[p] = dirty[p]
          BY <1>1, <2>1, MidwayFacts DEF HistInv, PlaceHolds, Typed
    <3> QED BY <3>1, <1>1 DEF Clean
  <2>2. Leads(stack'[Op.at], disk'[Op.at])
        BY <1>1, <1>2, MidwayFacts DEF Typed, Leads
  <2> QED BY <2>1, <2>2 DEF Clean
<1>5. call.kind = "patch" =>
         \A n \in DOMAIN call.ops : n > call.i /\ ~dirty'[call.ops[n].at]
             => disk'[call.ops[n].at] = call.text[n]
      BY <1>1, MidwayFacts DEF Typed
<1> QED BY <1>1, <1>3, <1>4, <1>5, MidwayFacts, Settles

LEMMA ProbeLateKeeps ==
    ASSUME HistInv, ProbeLate
    PROVE  HistInv'
<1>1. /\ InOp("move") /\ disk' = disk /\ stack' = stack /\ dirty' = dirty /\ made' = made
      /\ call' = [call EXCEPT !.text[call.i] = disk[Op.at]]
      BY DEF ProbeLate
<1> DEFINE texts == [call.text EXCEPT ![call.i] = disk[Op.at]]
<1>2. texts \in Seq(Nat) /\ Len(texts) = Len(call.text)
      /\ \A n \in DOMAIN call.ops : texts[n] = IF n = call.i THEN disk[Op.at] ELSE call.text[n]
  <2>1. call.text \in Seq(Nat) /\ Len(call.text) = Len(call.ops) /\ disk[Op.at] \in Nat
        BY <1>1, InOpFacts DEF HistInv, Typed, AllCalls, Sequences, Bounded
  <2>2. DOMAIN call.ops = 1..Len(call.ops) /\ call.i \in 1..Len(call.ops)
        BY <1>1, InOpFacts, AtWork
  <2> QED BY <2>1, <2>2
<1> HIDE DEF texts
<1>3. call \in AllCalls /\ call' = [call EXCEPT !.text = texts]
      BY <1>1 DEF HistInv, Typed, texts
<1>4. /\ call' \in AllCalls /\ call'.pc = "op" /\ call'.kind = call.kind /\ call'.ops = call.ops
      /\ call'.text = texts /\ call'.result = call.result /\ call'.i = call.i
      BY <1>1, <1>2, <1>3, InOpFacts DEF AllCalls, Sequences
<1>5. Bounded'
  <2>1. /\ call'.kind # "none" /\ call'.i \in 1..Len(call'.ops) + 1
        /\ Len(call'.text) = Len(call'.ops) /\ Len(call'.result) = Len(call'.ops)
        /\ call'.kind \in {"edit", "patch"} => Distinct(call'.ops)
        BY <1>1, <1>2, <1>4, InOpFacts DEF HistInv, Bounded, Distinct
  <2> QED BY <2>1, <1>1, <1>4, InOpFacts DEF Bounded, Commit
<1>6. CommitHolds' /\ PlaceHolds' /\ Kept'
      BY <1>1, <1>4, InOpFacts DEF CommitHolds, PlaceHolds, Commit, Clean, Kept
<1>7. Ahead'
      BY <1>1, <1>2, <1>4, InOpFacts DEF Ahead, HistInv, Op
<1> QED BY <1>4, <1>5, <1>6, <1>7 DEF HistInv, Typed, Kept

LEMMA RenameKeeps ==
    ASSUME HistInv, Rename
    PROVE  HistInv'
<1>1. call.pc = "rename" /\ stack' = stack /\ made' = made
      BY DEF Rename, At
<1>2. /\ Op.op = "move" /\ Op.at # Op.to /\ \A p \in Path : Clean(p)
      /\ call.kind = "patch" /\ ~dirty[Op.at] => disk[Op.at] = call.text[call.i]
      BY <1>1, MidwayFacts DEF HistInv, PlaceHolds, Ahead, Op
<1>3. CASE call' = Settled("failed") /\ UNCHANGED <<disk, dirty>>
  <2>1. Kept' /\ \A p \in Path : Clean(p)'
        BY <1>1, <1>2, <1>3, MidwayFacts DEF Kept, Clean
  <2>2. call.kind = "patch" =>
          \A n \in DOMAIN call.ops : n > call.i /\ ~dirty'[call.ops[n].at]
              => disk'[call.ops[n].at] = call.text[n]
        BY <1>1, <1>3, MidwayFacts
  <2> QED BY <1>1, <1>3, <2>1, <2>2, MidwayFacts, Settles
<1>4. CASE /\ disk' = [disk EXCEPT ![Op.to] = disk[Op.at], ![Op.at] = Absent]
           /\ dirty' = [dirty EXCEPT ![Op.to] = dirty[Op.at]] /\ Goes("migrate")
  <2>1. /\ Kept' /\ disk'[Op.to] = disk[Op.at] /\ dirty'[Op.to] = dirty[Op.at]
        /\ \A p \in Path : p # Op.at /\ p # Op.to => disk'[p] = disk[p] /\ dirty'[p] = dirty[p]
        BY <1>1, <1>2, <1>4, MidwayFacts DEF Kept, Absent
  <2>2. call'.pc = "migrate" /\ SamePlan /\ SameSpan /\ Op' = Op
        BY <1>4, Goings DEF HistInv, Typed, Places
  <2>3. PlaceHolds'
    <3>1. \A p \in Path : p # Op.at /\ p # Op.to => Clean(p)'
          BY <1>1, <1>2, <2>1 DEF Clean
    <3>2. ~dirty'[Op.to] => /\ Leads(stack'[Op.at], disk'[Op.to])
                            /\ call.kind = "patch" => disk'[Op.to] = call.text[call.i]
          BY <1>1, <1>2, <2>1, MidwayFacts DEF Clean
    <3> QED BY <3>1, <3>2, <2>2, <1>2 DEF PlaceHolds, SamePlan, SameSpan
  <2>4. call.kind = "patch" =>
          \A n \in DOMAIN call.ops : n > call.i /\ ~dirty'[call.ops[n].at]
              => disk'[call.ops[n].at] = call.text[n]
        BY <1>1, <2>1, MidwayFacts
  <2> QED BY <1>1, <1>4, <2>1, <2>3, <2>4, MidwayFacts, Steps
<1> QED BY <1>3, <1>4 DEF Rename

LEMMA MigrateKeeps ==
    ASSUME PlansFit, HistInv, Migrate
    PROVE  HistInv'
<1>1. /\ call.pc = "migrate" /\ disk' = disk /\ dirty' = dirty /\ made' = made
      /\ stack' = [stack EXCEPT ![Op.to] = stack[Op.at], ![Op.at] = <<>>]
      BY DEF Migrate, Migrated, At
<1>2. /\ Op.op = "move" /\ Op.at # Op.to /\ \A p \in Path : p # Op.at /\ p # Op.to => Clean(p)
      /\ ~dirty[Op.to] => /\ Leads(stack[Op.at], disk[Op.to])
                          /\ call.kind = "patch" => disk[Op.to] = call.text[call.i]
      BY <1>1 DEF HistInv, PlaceHolds
<1>3. <<>> \in Seq(Entries) /\ Len(<<>>) = 0 /\ UndoDepth \in Nat
      BY DEF PlansFit
<1>4. /\ Kept' /\ stack'[Op.to] = stack[Op.at] /\ stack'[Op.at] = <<>>
      /\ \A p \in Path : p # Op.at /\ p # Op.to => stack'[p] = stack[p]
  <2>1. /\ stack \in [Path -> Seq(Entries)] /\ \A p \in Path : Len(stack[p]) <= UndoDepth
        /\ Op.at \in Path /\ Op.to \in Path
        BY <1>1, MidwayFacts DEF Kept
  <2>2. /\ stack'[Op.to] = stack[Op.at] /\ stack'[Op.at] = <<>>
        /\ \A p \in Path : p # Op.at /\ p # Op.to => stack'[p] = stack[p]
        BY <1>1, <1>2, <2>1
  <2>3. stack' \in [Path -> Seq(Entries)]
        BY <1>1, <1>3, <2>1
  <2>4. \A p \in Path : Len(stack'[p]) <= UndoDepth
        BY <1>3, <2>1, <2>2 DEF PlansFit
  <2> QED BY <1>1, <2>2, <2>3, <2>4, MidwayFacts DEF Kept
<1>5. \A p \in Path : Clean(p)'
  <2>1. \A p \in Path : p # Op.at /\ p # Op.to => Clean(p)'
        BY <1>1, <1>2, <1>4 DEF Clean
  <2>2. Leads(stack'[Op.at], disk'[Op.at])
        BY <1>3, <1>4 DEF Leads
  <2>3. ~dirty'[Op.to] => Leads(stack'[Op.to], disk'[Op.to])
        BY <1>1, <1>2, <1>4
  <2> QED BY <2>1, <2>2, <2>3 DEF Clean
<1>6. call.kind = "patch" =>
         \A n \in DOMAIN call.ops : n > call.i /\ ~dirty'[call.ops[n].at]
             => disk'[call.ops[n].at] = call.text[n]
      BY <1>1, MidwayFacts
<1>7. CASE call' = Settled("completed")
      BY <1>1, <1>4, <1>5, <1>6, <1>7, MidwayFacts, Settles
<1>8. CASE call.kind = "patch" /\ Begin(call.i, call.i)
  <2>1. Where(call.i) = Op.to
        BY <1>2 DEF Where, Op
  <2>2. \A j \in call.i..call.i : ~dirty'[Where(j)] =>
           Leads(stack'[Where(j)], call.text[j]) /\ disk'[Where(j)] = call.text[j]
    <3>1. \A j \in call.i..call.i : j = call.i
          BY <1>1, MidwayFacts, AtWork
    <3>2. ~dirty'[Op.to] => Leads(stack'[Op.to], call.text[call.i]) /\ disk'[Op.to] = call.text[call.i]
          BY <1>1, <1>2, <1>4, <1>8
    <3> QED BY <3>1, <3>2, <2>1
  <2>3. call.i \in Nat
        BY <1>1, MidwayFacts, AtWork
  <2> QED BY <1>1, <1>4, <1>5, <1>6, <1>8, <2>2, <2>3, MidwayFacts, Begins
<1> QED BY <1>7, <1>8 DEF Migrate

LEMMA RevertKeeps ==
    ASSUME HistInv, Revert
    PROVE  HistInv'
<1>1. /\ call.pc = "revert" /\ stack' = stack /\ dirty' = dirty /\ made' = made /\ call \in AllCalls
      BY DEF Revert, At, HistInv, Typed
<1>2. /\ call.kind = "undo" /\ call.i = 1 /\ stack = call.stack /\ stack[Op.at] # <<>>
      /\ call.result[1] = Last(stack[Op.at]).before /\ \A p \in Path : Clean(p)
      BY <1>1 DEF HistInv, PlaceHolds
<1>3. Op.at \in Path /\ call.i \in DOMAIN call.ops /\ ~Resting
      BY <1>1, AtWork DEF Resting
<1>4. CASE call' = [call EXCEPT !.pc = "ended", !.told = "failed"] /\ disk' = disk
  <2>1. call' \in AllCalls /\ call'.pc = "ended"
        BY <1>1, <1>4 DEF AllCalls, Places, Answers
  <2>2. Kept' /\ \A p \in Path : Clean(p)'
        BY <1>1, <1>2, <1>4 DEF HistInv, Typed, Kept, Clean
  <2> QED BY <2>1, <2>2, Rests
<1>5. CASE disk' = [disk EXCEPT ![Op.at] = call.result[1]] /\ Goes("consume")
  <2>1. /\ stack[Op.at] \in Seq(Entries) /\ Last(stack[Op.at]) \in Entries
        /\ Leads(stack[Op.at], Last(stack[Op.at]).result) <=> Leads(Front(stack[Op.at]), Last(stack[Op.at]).before)
    <3>1. stack[Op.at] \in Seq(Entries)
          BY <1>3 DEF HistInv, Typed
    <3> QED BY <3>1, <1>2, Popping
  <2>2. call.result[1] \in Nat
        BY <2>1, <1>2 DEF Entries
  <2>3. Kept' /\ disk'[Op.at] = call.result[1] /\ \A p \in Path : p # Op.at => disk'[p] = disk[p]
        BY <1>1, <1>3, <1>5, <2>2 DEF HistInv, Typed, Kept
  <2>4. call' \in AllCalls /\ call'.pc = "consume" /\ SamePlan /\ SameSpan /\ Op' = Op
        BY <1>1, <1>5, Goings DEF Places
  <2>5. Bounded'
    <3>1. /\ call'.i \in 1..Len(call'.ops) + 1 /\ call'.i <= Len(call'.ops)
          /\ Len(call'.text) = Len(call'.ops) /\ Len(call'.result) = Len(call'.ops)
          BY <2>4, <1>1, <1>3 DEF HistInv, Bounded, SamePlan, SameSpan
    <3> QED BY <3>1, <2>4, <1>2 DEF Bounded, Commit, SamePlan
  <2>6. CommitHolds' /\ Ahead'
        BY <2>4, <1>2 DEF CommitHolds, Commit, Ahead, SamePlan
  <2>7. PlaceHolds'
    <3>1. \A p \in Path : p # Op.at => Clean(p)'
          BY <1>1, <1>2, <2>3 DEF Clean
    <3>2. ~dirty'[Op.at] => Leads(Front(stack'[Op.at]), disk'[Op.at])
      <4>1. ASSUME ~dirty[Op.at]
            PROVE  Leads(stack[Op.at], Last(stack[Op.at]).result)
        <5>1. Leads(stack[Op.at], disk[Op.at])
              BY <4>1, <1>2, <1>3 DEF Clean
        <5> QED BY <5>1, <1>2 DEF Leads
      <4> QED BY <4>1, <2>1, <2>3, <1>1, <1>2
    <3> QED BY <3>1, <3>2, <2>3, <2>4, <1>1, <1>2 DEF PlaceHolds, SamePlan, SameSpan
  <2> QED BY <2>3, <2>4, <2>5, <2>6, <2>7 DEF HistInv, Typed, Kept
<1> QED BY <1>4, <1>5 DEF Revert, Lands, Ends

LEMMA ConsumeKeeps ==
    ASSUME PlansFit, HistInv, Consume
    PROVE  HistInv'
<1>1. /\ call.pc = "consume" /\ disk' = disk /\ dirty' = dirty /\ made' = made /\ call \in AllCalls
      /\ stack' = [stack EXCEPT ![Op.at] = Popped(@)]
      /\ call' = [call EXCEPT !.pc = "ended", !.told = "ok"]
      BY DEF Consume, At, Ends, HistInv, Typed
<1>2. /\ stack[Op.at] # <<>> /\ \A p \in Path : p # Op.at => Clean(p)
      /\ ~dirty[Op.at] => Leads(Front(stack[Op.at]), disk[Op.at])
      BY <1>1 DEF HistInv, PlaceHolds
<1>3. Op.at \in Path
      BY <1>1, AtWork DEF Resting
<1>4. call' \in AllCalls /\ call'.pc = "ended"
      BY <1>1 DEF AllCalls, Places, Answers
<1>5. /\ stack[Op.at] \in Seq(Entries) /\ stack'[Op.at] = Popped(stack[Op.at])
      /\ Popped(stack[Op.at]) = Front(stack[Op.at]) /\ Popped(stack[Op.at]) \in Seq(Entries)
      /\ Len(Popped(stack[Op.at])) <= Len(stack[Op.at])
  <2>1. stack[Op.at] \in Seq(Entries) /\ stack'[Op.at] = Popped(stack[Op.at])
        BY <1>1, <1>3 DEF HistInv, Typed
  <2> QED BY <2>1, <1>2, Popping
<1>6. Kept'
  <2>1. Len(stack'[Op.at]) \in Nat /\ Len(stack[Op.at]) \in Nat /\ UndoDepth \in Nat /\ Len(stack[Op.at]) <= UndoDepth
        BY <1>3, <1>5 DEF PlansFit, HistInv, Typed
  <2>2. Len(stack'[Op.at]) <= UndoDepth
        BY <2>1, <1>5
  <2> QED BY <2>2, <1>1, <1>3, <1>5 DEF HistInv, Typed, Kept
<1>7. \A p \in Path : Clean(p)'
  <2>1. \A p \in Path : p # Op.at => stack'[p] = stack[p]
        BY <1>1, <1>3 DEF HistInv, Typed
  <2> QED BY <2>1, <1>1, <1>2, <1>5 DEF Clean
<1> QED BY <1>4, <1>6, <1>7, Rests

-----------------------------------------------------------------------------
(* The invariant of the specification. *)

LEMMA HistInit ==
    ASSUME PlansFit, Init
    PROVE  HistInv
<1>1. /\ disk \in [Path -> {Absent, 1}] /\ stack = [p \in Path |-> <<>>]
      /\ call = NoCall /\ made = 1 /\ dirty = [p \in Path |-> FALSE]
      BY DEF Init
<1>2. <<>> \in Seq(Entries) /\ Len(<<>>) = 0 /\ UndoDepth \in Nat /\ {Absent, 1} \subseteq Nat
      BY DEF PlansFit, Absent
<1>3. call \in AllCalls /\ call.pc = "idle" /\ call.kind = "none" /\ call.told = "none"
      BY <1>1, NoneTyped DEF NoCall
<1>4. Typed
      BY <1>1, <1>2, <1>3 DEF Typed
<1>5. \A p \in Path : Clean(p)
      BY <1>1, <1>2 DEF Clean, Leads
<1>6. Bounded /\ CommitHolds /\ Ahead /\ PlaceHolds
      BY <1>3, <1>5 DEF Bounded, CommitHolds, Ahead, PlaceHolds, Commit, Resting
<1> QED BY <1>4, <1>6 DEF HistInv

LEMMA HistStep ==
    ASSUME PlansFit, HistInv, [Next]_vars
    PROVE  HistInv'
<1>1. CASE UNCHANGED vars
      BY <1>1, NothingKeeps DEF vars
<1>2. ASSUME NEW plan \in Plan, Open(plan) \/ UndoLast(plan)
      PROVE  HistInv'
      BY <1>2, OpenKeeps, UndoLastKeeps
<1>3. CASE StartCommit \/ Push \/ Write \/ PutBack \/ Unput \/ Pop
      BY <1>3, StartCommitKeeps, PushKeeps, WriteKeeps, PutBackKeeps, UnputKeeps, PopKeeps
<1>4. CASE Add \/ Delete \/ Unlink \/ Purge \/ ProbeLate \/ Move \/ Rename \/ Migrate
      BY <1>4, AddKeeps, DeleteKeeps, UnlinkKeeps, PurgeKeeps, ProbeLateKeeps, MoveKeeps,
         RenameKeeps, MigrateKeeps
<1>5. CASE Revert \/ Consume \/ Finish \/ Answered \/ Crash
      BY <1>5, RevertKeeps, ConsumeKeeps, FinishKeeps, AnsweredKeeps, CrashKeeps
<1>6. ASSUME NEW p \in Path, Observe(p)
      PROVE  HistInv'
      BY <1>6, NothingKeeps DEF Observe
<1>7. ASSUME NEW p \in Path, Foreign(p)
      PROVE  HistInv'
      BY <1>7, ForeignKeeps
<1> QED BY <1>1, <1>2, <1>3, <1>4, <1>5, <1>6, <1>7 DEF Next, Runs

\* A history that nothing but the calls touched ends at its file's text, each entry at the
\* next one's before: every undo finds the text its entry was made for, however many edits,
\* patches, renames and undos came before it and whichever of them failed or died.
THEOREM HistoriesLead ==
    ASSUME PlansFit
    PROVE  Spec => []HistoryHolds
<1>1. Init => HistInv
      BY HistInit
<1>2. HistInv /\ [Next]_vars => HistInv'
      BY HistStep
<1>3. HistInv => HistoryHolds
      BY DEF HistInv, PlaceHolds, Clean, Leads, HistoryHolds, At
<1> QED BY <1>1, <1>2, <1>3, PTL DEF Spec

\* undo_last_edit clears a history only of a file whose text changed outside of it: the calls
\* alone, also failed ones and those a death cut short, never make an entry stale.
THEOREM ClearsOnlyTouched ==
    ASSUME PlansFit
    PROVE  Spec => [][ClearedWhenTouched]_vars
<1>1. Init => HistInv
      BY HistInit
<1>2. HistInv /\ [Next]_vars => HistInv'
      BY HistStep
<1>3. HistInv /\ [Next]_vars => [ClearedWhenTouched]_vars
  <2> SUFFICES ASSUME HistInv, Next, NEW p \in Path, call'.told = "stale", At("idle"),
                      stack'[p] # stack[p], ~dirty[p]
               PROVE  FALSE
      BY DEF ClearedWhenTouched
  <2>1. PICK plan \in Plan : UndoLast(plan)
        BY DEF Next, Runs, Open, Observe, Foreign, Crash, Answered, StartCommit, Push, Write, PutBack,
               Unput, Pop, Add, InOp, Delete, Unlink, Purge, ProbeLate, Move, Rename, Migrate, Revert,
               Consume, Finish, At
  <2> DEFINE q == plan.ops[1].at
  <2>2. stack[q] # <<>> /\ disk[q] # Last(stack[q]).result /\ stack' = NoHistory(q)
        BY <2>1 DEF UndoLast
  <2>3. p = q
        BY <2>2 DEF NoHistory, HistInv, Typed
  <2>4. Leads(stack[p], disk[p])
        BY DEF HistInv, PlaceHolds, Clean, At
  <2> QED BY <2>2, <2>3, <2>4 DEF Leads
<1> QED BY <1>1, <1>2, <1>3, PTL DEF Spec

\* undo_last_edit, alone on its file, puts back the text before the newest edit and uses up
\* that edit's entry alone.
THEOREM UndosRevert ==
    ASSUME PlansFit
    PROVE  Spec => [][UndoReverts]_vars
<1>1. Init => HistInv
      BY HistInit
<1>2. HistInv /\ [Next]_vars => HistInv'
      BY HistStep
<1>3. HistInv /\ [Next]_vars => [UndoReverts]_vars
  <2> SUFFICES ASSUME HistInv, Next, JustEnded("undo"), call'.told = "ok"
               PROVE  LET p == Op.at IN /\ disk'[p] = Last(call.stack[p]).before
                                        /\ stack'[p] = Front(call.stack[p])
      BY DEF UndoReverts
  <2>1. call.pc \in {"revert", "consume"} /\ call'.pc = "ended" /\ call'.alone /\ call \in AllCalls
        BY DEF HistInv, Bounded, Resting, JustEnded, At, Typed
  <2>2. Consume
    <3>1. Revert \/ Consume \/ Crash \/ \E p \in Path : Foreign(p)
          BY <2>1 DEF Next, Runs, Open, UndoLast, Observe, Answered, StartCommit, Push, Write, PutBack,
               Unput, Pop, Add, InOp, Delete, Unlink, Purge, ProbeLate, Move, Rename, Migrate,
               Finish, At
    <3>2. ~Crash
          BY <2>1 DEF Crash, NoCall
    <3>3. ~\E p \in Path : Foreign(p)
          BY <2>1 DEF Foreign, AllCalls
    <3>4. ~Revert
          BY <2>1 DEF Revert, Goes, Ends, AllCalls
    <3> QED BY <3>1, <3>2, <3>3, <3>4
  <2>3. /\ call.pc = "consume" /\ disk' = disk /\ stack' = [stack EXCEPT ![Op.at] = Popped(@)]
        /\ call.alone
        BY <2>1, <2>2 DEF Consume, At, Ends, AllCalls
  <2>4. /\ Op.at \in Path /\ stack = call.stack /\ stack[Op.at] # <<>> /\ disk[Op.at] = call.result[1]
        /\ call.result[1] = Last(stack[Op.at]).before
        BY <2>3, AtWork DEF Resting, HistInv, PlaceHolds
  <2>5. stack'[Op.at] = Popped(stack[Op.at])
        BY <2>3, <2>4 DEF HistInv, Typed
  <2> QED BY <2>3, <2>4, <2>5 DEF Popped
<1> QED BY <1>1, <1>2, <1>3, PTL DEF Spec

-----------------------------------------------------------------------------
(* What an edit that nothing else disturbs has done so far.                 *)

EditItem(j) ==
    LET p == Where(j) IN
    /\ IF Pushed(j) THEN stack[p] = Pruned(Append(call.stack[p], Entry(j)))
       ELSE /\ call.pc = "push" => stack[p] = call.stack[p]
            /\ SameHistory(stack[p], call.stack[p])
    /\ ~Written(j) => disk[p] = call.disk[p]
AsFound(p) == disk[p] = call.disk[p] /\ stack[p] = call.stack[p]
EditHolds ==
    ~Resting /\ call.kind = "edit" /\ call.alone =>
        /\ call.disk \in [Path -> Nat] /\ call.stack \in [Path -> Seq(Entries)]
        /\ \A p \in Path : Len(call.stack[p]) <= UndoDepth
        /\ \A n \in DOMAIN call.ops : call.text[n] = call.disk[call.ops[n].at]
        /\ call.pc = "op" => disk = call.disk /\ stack = call.stack
        /\ call.pc \in Commit => /\ \A j \in Batch : EditItem(j)
                                 /\ \A p \in Path : AsFound(p) \/ \E j \in Batch : p = Where(j)

\* An edit alone on its files, in its commit.
AloneEdit == HistInv /\ EditHolds /\ call.pc \in Commit /\ call.kind = "edit" /\ call.alone

LEMMA AloneFacts ==
    ASSUME AloneEdit
    PROVE  /\ call.disk \in [Path -> Nat] /\ call.stack \in [Path -> Seq(Entries)]
           /\ \A p \in Path : Len(call.stack[p]) <= UndoDepth
           /\ \A j \in Batch : /\ EditItem(j) /\ j \in DOMAIN call.ops /\ Where(j) \in Path
                               /\ call.text[j] = call.disk[Where(j)]
           /\ \A p \in Path : AsFound(p) \/ \E j \in Batch : p = Where(j)
<1>1. ~Resting
      BY DEF AloneEdit, Resting, Commit
<1>2. ASSUME NEW j \in Batch
      PROVE  EditItem(j) /\ j \in DOMAIN call.ops /\ Where(j) \in Path
             /\ call.text[j] = call.disk[Where(j)]
  <2>1. j \in DOMAIN call.ops /\ Where(j) \in Path
        BY CommitFacts DEF AloneEdit
  <2>2. Where(j) = call.ops[j].at
        BY <1>1, <2>1 DEF AloneEdit, HistInv, Bounded, Where
  <2> QED BY <1>1, <2>1, <2>2 DEF AloneEdit, EditHolds
<1> QED BY <1>1, <1>2 DEF AloneEdit, EditHolds

\* A step of its commit, at item k.
LEMMA EditGoes ==
    ASSUME AloneEdit, call' \in AllCalls, call'.pc \in Commit, SamePlan, call'.disk = call.disk,
           call'.pc = "push" => call.pc = "push",
           NEW k \in Batch,
           \A j \in Batch' : j \in Batch,
           \A q \in Path : q # Where(k) => disk'[q] = disk[q] /\ stack'[q] = stack[q],
           \A j \in Batch' : j # k => (Pushed(j)' <=> Pushed(j)) /\ (Written(j)' <=> Written(j)),
           k \in Batch' => EditItem(k)',
           \A j \in Batch : j \notin Batch' => AsFound(Where(j))'
    PROVE  EditHolds'
<1>1. \A j \in Batch : Where(j)' = Where(j) /\ Entry(j)' = Entry(j)
      BY DEF Where, Entry, SamePlan
<1>2. ASSUME NEW j \in Batch'
      PROVE  EditItem(j)'
  <2>1. CASE j = k
        BY <2>1
  <2>2. CASE j # k
    <3>1. j \in Batch /\ Where(j) \in Path /\ Where(j) # Where(k)
          BY <2>2, CommitFacts DEF AloneEdit
    <3>2. EditItem(j) /\ Where(j)' = Where(j) /\ Entry(j)' = Entry(j)
          BY <3>1, <1>1, AloneFacts
    <3> QED BY <2>2, <3>1, <3>2 DEF EditItem, SamePlan
  <2> QED BY <2>1, <2>2
<1>3. ASSUME NEW p \in Path
      PROVE  AsFound(p)' \/ \E j \in Batch' : p = Where(j)'
  <2>1. CASE \E j \in Batch : p = Where(j)
    <3>1. PICK j \in Batch : p = Where(j)
          BY <2>1
    <3>2. Where(j)' = Where(j)
          BY <3>1, <1>1
    <3>3. CASE j \in Batch'
          BY <3>1, <3>2, <3>3
    <3>4. CASE j \notin Batch'
      <4>1. AsFound(Where(j))'
            BY <3>1, <3>4
      <4> QED BY <4>1, <3>1, <3>2 DEF AsFound
    <3> QED BY <3>3, <3>4
  <2>2. CASE ~\E j \in Batch : p = Where(j)
    <3>1. AsFound(p) /\ p # Where(k)
          BY <2>2, AloneFacts
    <3> QED BY <3>1 DEF AsFound, SamePlan
  <2> QED BY <2>1, <2>2
<1>4. \A n \in DOMAIN call'.ops : call'.text[n] = call'.disk[call'.ops[n].at]
      BY DEF AloneEdit, EditHolds, Resting, Commit, SamePlan
<1> QED BY <1>2, <1>3, <1>4, AloneFacts DEF EditHolds, Commit, SamePlan

LEMMA AlonePush ==
    ASSUME AloneEdit, Push
    PROVE  EditHolds'
<1> DEFINE p == Where(call.k)
<1>1. /\ call.pc = "push" /\ call.pc \in Commit /\ call \in AllCalls /\ disk' = disk
      /\ HistInv /\ stack \in [Path -> Seq(Entries)]
      BY DEF Push, At, AloneEdit, HistInv, Typed, Commit
<1>2. PICK k \in Batch : k = call.k
      BY <1>1, CommitFacts DEF Batch
<1>3. p \in Path /\ Where(k) = p
      BY <1>1, <1>2, CommitFacts
<1>4. EditItem(k) /\ ~Pushed(k) /\ \A j \in Batch : j \in Nat /\ ~Written(j) /\ (Pushed(j) <=> j < k)
      BY <1>1, <1>2, CommitFacts, AloneFacts DEF Pushed, Written, Batch
<1>5. CASE /\ stack' = [stack EXCEPT ![p] = Pruned(Append(@, Entry(call.k)))]
           /\ call' = IF call.k < call.hi THEN [call EXCEPT !.k = @ + 1]
                      ELSE [call EXCEPT !.pc = "write", !.k = call.lo]
  <2>1. /\ call' \in AllCalls /\ SamePlan /\ call'.disk = call.disk /\ call'.lo = call.lo /\ call'.hi = call.hi
        /\ \/ call'.pc = "push" /\ call'.k = call.k + 1
           \/ call'.pc = "write" /\ call'.k = call.lo /\ k = call.hi
    <3>1. CASE call.k < call.hi
      <4>1. call' = [call EXCEPT !.k = call.k + 1] /\ call.k + 1 \in Nat
            BY <1>1, <1>5, <3>1, CommitFacts
      <4> QED BY <4>1, <1>1 DEF AllCalls, SamePlan
    <3>2. CASE ~(call.k < call.hi)
      <4>1. call' = [call EXCEPT !.pc = "write", !.k = call.lo] /\ call.lo \in Nat /\ k = call.hi
            BY <1>1, <1>2, <1>5, <3>2, CommitFacts
      <4> QED BY <4>1, <1>1 DEF AllCalls, SamePlan, Places
    <3> QED BY <3>1, <3>2
  <2>2. call'.pc \in Commit /\ Batch' = Batch /\ \A j \in Batch : ~Written(j)'
        BY <1>1, <1>4, <2>1, CommitFacts DEF Commit, Batch, Written
  <2>3. \A j \in Batch : (j # k => (Pushed(j)' <=> Pushed(j))) /\ Pushed(k)'
        BY <1>1, <1>2, <1>4, <2>1, CommitFacts DEF Pushed, Batch
  <2>4. /\ stack'[p] = Pruned(Append(stack[p], Entry(k)))
        /\ \A q \in Path : q # p => stack'[q] = stack[q]
        BY <1>1, <1>2, <1>3, <1>5
  <2>5. EditItem(k)'
    <3>1. Where(k)' = p /\ Entry(k)' = Entry(k)
          BY <1>3, <2>1 DEF Where, Entry, SamePlan
    <3>2. stack[p] = call.stack[p] /\ disk[p] = call.disk[p]
          BY <1>1, <1>3, <1>4 DEF EditItem
    <3> QED BY <3>1, <3>2, <2>1, <2>2, <2>3, <2>4, <1>1 DEF EditItem, SamePlan
  <2> QED BY <1>1, <1>3, <1>4, <2>1, <2>2, <2>3, <2>4, <2>5, EditGoes
<1>6. CASE call' = [call EXCEPT !.pc = "pop", !.hi = call.k - 1, !.k = call.lo] /\ stack' = stack
  <2>1. call.k - 1 \in Nat /\ call.lo \in Nat
        BY <1>1, CommitFacts
  <2>2. /\ call' \in AllCalls /\ SamePlan /\ call'.disk = call.disk /\ call'.pc = "pop"
        /\ call'.k = call.lo /\ call'.lo = call.lo /\ call'.hi = call.k - 1
        BY <1>1, <1>6, <2>1 DEF AllCalls, SamePlan, Places
  <2>3. call'.pc \in Commit /\ \A j \in Batch' : j \in Batch /\ j < k /\ Pushed(j)' /\ ~Written(j)'
        BY <1>1, <1>2, <2>2, CommitFacts DEF Commit, Batch, Pushed, Written
  <2>4. \A j \in Batch' : Pushed(j) /\ ~Written(j)
        BY <2>3, <1>4
  <2>5. ASSUME NEW j \in Batch, j \notin Batch'
        PROVE  AsFound(Where(j))'
    <3>1. ~Pushed(j)
          BY <2>5, <2>2, <1>1, <1>2, <1>4, CommitFacts DEF Batch
    <3>2. stack[Where(j)] = call.stack[Where(j)] /\ disk[Where(j)] = call.disk[Where(j)]
          BY <3>1, <1>1, <1>4, AloneFacts DEF EditItem
    <3>3. Where(j)' = Where(j)
          BY <2>2 DEF Where, SamePlan
    <3> QED BY <3>2, <3>3, <2>2, <1>1, <1>6 DEF AsFound, SamePlan
  <2>6. k \notin Batch' /\ call'.pc # "push"
        BY <2>2, <2>3, <1>4
  <2> QED BY <1>1, <1>6, <2>2, <2>3, <2>4, <2>5, <2>6, EditGoes
<1> QED BY <1>5, <1>6 DEF Push

LEMMA AloneWrite ==
    ASSUME AloneEdit, Write, call'.alone, call'.pc \in Commit
    PROVE  EditHolds'
<1> DEFINE p == Where(call.k)
           lost == [call EXCEPT !.pc = IF call.k > call.lo THEN "put" ELSE "pop", !.i = call.k,
                                !.k = call.lo]
<1>1. /\ call.pc = "write" /\ call.pc \in Commit /\ call \in AllCalls /\ stack' = stack
      /\ HistInv /\ disk \in [Path -> Nat] /\ call.kind = "edit"
      BY DEF Write, At, AloneEdit, HistInv, Typed, Commit
<1>2. PICK k \in Batch : k = call.k
      BY <1>1, CommitFacts DEF Batch
<1>3. p \in Path /\ Where(k) = p
      BY <1>1, <1>2, CommitFacts
<1>4. EditItem(k) /\ \A j \in Batch : j \in Nat /\ Pushed(j) /\ (Written(j) <=> j < k)
      BY <1>1, <1>2, CommitFacts, AloneFacts DEF Pushed, Written, Batch
<1>5. CASE /\ disk' = [disk EXCEPT ![p] = call.result[call.k]]
           /\ call' = IF call.k < call.hi THEN [call EXCEPT !.k = @ + 1] ELSE Committed
  <2>1. call.k < call.hi
    <3> SUFFICES ASSUME ~(call.k < call.hi)
                 PROVE  FALSE
        OBVIOUS
    <3>1. call'.pc = "ended"
          BY <1>1, <1>5 DEF Committed, AllCalls
    <3> QED BY <3>1 DEF Commit
  <2>2. call' = [call EXCEPT !.k = call.k + 1] /\ call.k + 1 \in Nat
        BY <1>1, <1>5, <2>1, CommitFacts
  <2>3. /\ call' \in AllCalls /\ SamePlan /\ call'.disk = call.disk /\ call'.lo = call.lo
        /\ call'.hi = call.hi /\ call'.pc = "write" /\ call'.k = call.k + 1
        BY <2>2, <1>1 DEF AllCalls, SamePlan
  <2>4. Batch' = Batch /\ \A j \in Batch : Pushed(j)' /\ (Written(j)' <=> j < k + 1)
        BY <2>3, <1>2 DEF Batch, Pushed, Written
  <2>5. \A j \in Batch : (j # k => (Written(j)' <=> Written(j))) /\ Written(k)'
        BY <2>4, <1>4
  <2>6. \A q \in Path : q # p => disk'[q] = disk[q]
        BY <1>1, <1>5
  <2>7. EditItem(k)'
    <3>1. Where(k)' = p /\ Entry(k)' = Entry(k)
          BY <1>3, <2>3 DEF Where, Entry, SamePlan
    <3> QED BY <3>1, <1>1, <1>3, <1>4, <2>3, <2>4, <2>5 DEF EditItem, SamePlan
  <2> QED BY <1>1, <1>3, <1>4, <2>3, <2>4, <2>5, <2>6, <2>7, EditGoes
<1>6. CASE call' = lost /\ disk' = disk
  <2>1. call.lo \in Nat /\ call.k \in Nat
        BY <1>1, CommitFacts
  <2>2. call' \in AllCalls
    <3> DEFINE place == IF call.k > call.lo THEN "put" ELSE "pop"
    <3>1. place \in Places
          BY DEF Places
    <3> HIDE DEF place
    <3>2. call' = [call EXCEPT !.pc = place, !.i = call.k, !.k = call.lo]
          BY <1>6 DEF place
    <3> QED BY <3>1, <3>2, <2>1, <1>1 DEF AllCalls
  <2>3. /\ SamePlan /\ call'.disk = call.disk /\ call'.lo = call.lo /\ call'.i = call.k
        /\ call'.hi = call.hi /\ call'.pc = (IF call.k > call.lo THEN "put" ELSE "pop")
        /\ call'.k = call.lo
        BY <2>2, <1>1, <1>6 DEF AllCalls, SamePlan
  <2>4. Batch' = Batch /\ \A j \in Batch : Pushed(j)' /\ (Written(j)' <=> Written(j))
        BY <2>3, <1>1, <1>2, <1>4, CommitFacts DEF Batch, Pushed, Written
  <2>5. EditItem(k)'
    <3>1. Where(k)' = p /\ Entry(k)' = Entry(k)
          BY <1>3, <2>3 DEF Where, Entry, SamePlan
    <3> QED BY <3>1, <1>1, <1>3, <1>4, <1>6, <2>3, <2>4 DEF EditItem, SamePlan
  <2> QED BY <1>1, <1>3, <1>4, <1>6, <2>2, <2>3, <2>4, <2>5, EditGoes
<1>7. CASE call' = [lost EXCEPT !.alone = FALSE]
  <2>1. ~call'.alone
        BY <1>1, <1>7 DEF AllCalls
  <2> QED BY <2>1
<1> QED BY <1>5, <1>6, <1>7 DEF Write, Lands

LEMMA AlonePutBack ==
    ASSUME AloneEdit, PutBack, call'.alone
    PROVE  EditHolds'
<1> DEFINE p == Where(call.k)
<1>1. /\ call.pc = "put" /\ call.pc \in Commit /\ call \in AllCalls /\ stack' = stack
      /\ HistInv /\ disk \in [Path -> Nat]
      BY DEF PutBack, At, AloneEdit, HistInv, Typed, Commit
<1>2. PICK k \in Batch : k = call.k
      BY <1>1, CommitFacts DEF Batch
<1>3. p \in Path /\ Where(k) = p /\ EditItem(k) /\ call.text[k] = call.disk[p]
      BY <1>1, <1>2, CommitFacts, AloneFacts
<1>4. disk' = [disk EXCEPT ![p] = call.text[call.k]] /\ call' = [call EXCEPT !.pc = "unput"]
  <2>1. call' # [call EXCEPT !.pc = "unput", !.alone = FALSE]
        BY <1>1 DEF AllCalls
  <2> QED BY <2>1 DEF PutBack, Lands, Goes
<1>5. /\ call' \in AllCalls /\ SamePlan /\ SameSpan /\ call'.disk = call.disk /\ call'.pc = "unput"
      BY <1>1, <1>4 DEF AllCalls, SamePlan, SameSpan, Places
<1>6. Batch' = Batch /\ call'.pc \in Commit
      /\ \A j \in Batch : j \in Nat /\ Pushed(k)' /\ (Pushed(j)' <=> Pushed(j)) /\ ~Written(k)'
      BY <1>1, <1>2, <1>5, CommitFacts DEF Batch, Pushed, Written, SameSpan, Commit
<1>7. \A j \in Batch : j # k => (Written(j)' <=> Written(j))
      BY <1>1, <1>2, <1>5, <1>6 DEF Written, SameSpan
<1>8. disk'[p] = call.disk[p] /\ \A q \in Path : q # p => disk'[q] = disk[q]
      BY <1>1, <1>2, <1>3, <1>4
<1>9. EditItem(k)'
  <2>1. Where(k)' = p /\ Entry(k)' = Entry(k)
        BY <1>3, <1>5 DEF Where, Entry, SamePlan
  <2> QED BY <2>1, <1>1, <1>3, <1>5, <1>6, <1>8 DEF EditItem, SamePlan
<1> QED BY <1>1, <1>3, <1>5, <1>6, <1>7, <1>8, <1>9, EditGoes

\* Taking back the entry an item of a commit had pushed.
LEMMA AloneTakesBack ==
    ASSUME PlansFit, AloneEdit, NEW k \in Batch, k = call.k, call.pc \in {"unput", "pop"},
           disk' = disk, stack' = [stack EXCEPT ![Where(k)] = Popped(@)],
           call' \in AllCalls, SamePlan, call'.disk = call.disk, call'.pc \in {"put", "pop"},
           call'.i = call.i, call'.k = k + 1, call'.lo = call.lo, call'.hi = call.hi,
           call'.pc = IF call.pc = "unput" /\ k + 1 < call.i THEN "put" ELSE "pop"
    PROVE  EditHolds'
<1> DEFINE p == Where(k)
<1>1. /\ call.pc \in Commit /\ HistInv /\ stack \in [Path -> Seq(Entries)] /\ call'.pc \in Commit
      BY DEF AloneEdit, HistInv, Typed, Commit
<1>2. /\ p \in Path /\ EditItem(k) /\ Entry(k) \in Entries /\ k \in Nat /\ call.i \in Nat
      /\ call.stack[p] \in Seq(Entries) /\ Len(call.stack[p]) <= UndoDepth
      BY <1>1, CommitFacts, AloneFacts
<1>3. Batch' = Batch /\ \A j \in Batch : j \in Nat
      BY <1>1, CommitFacts DEF Batch
<1>4. \A j \in Batch : /\ Pushed(j) <=> k <= j
                       /\ Pushed(j)' <=> k + 1 <= j
                       /\ Written(j) <=> call.pc = "unput" /\ k < j /\ j < call.i
      BY DEF Pushed, Written
<1>5. \A j \in Batch : Written(j)' <=> call'.pc = "put" /\ k + 1 <= j /\ j < call.i
      BY DEF Written
<1>6. \A j \in Batch : /\ j # k => (Pushed(j)' <=> Pushed(j)) /\ (Written(j)' <=> Written(j))
                       /\ Pushed(k) /\ ~Pushed(k)' /\ ~Written(k) /\ ~Written(k)'
      BY <1>2, <1>3, <1>4, <1>5
<1>7. stack'[p] = Popped(stack[p]) /\ \A q \in Path : q # p => stack'[q] = stack[q]
      BY <1>1, <1>2
<1>8. SameHistory(stack'[p], call.stack[p])
  <2>1. stack[p] = Pruned(Append(call.stack[p], Entry(k)))
        BY <1>2, <1>6 DEF EditItem
  <2>2. stack[p] # <<>> /\ SameHistory(Front(stack[p]), call.stack[p])
        BY <2>1, <1>2, Pushing DEF PlansFit
  <2> QED BY <2>2, <1>7 DEF Popped
<1>9. EditItem(k)'
  <2>1. Where(k)' = p
        BY DEF Where, SamePlan
  <2>2. disk[p] = call.disk[p]
        BY <1>2, <1>6 DEF EditItem
  <2> QED BY <2>1, <2>2, <1>6, <1>8 DEF EditItem, SamePlan
<1> QED BY <1>1, <1>3, <1>6, <1>7, <1>9, EditGoes

LEMMA AloneUnput ==
    ASSUME PlansFit, AloneEdit, Unput
    PROVE  EditHolds'
<1>1. /\ call.pc = "unput" /\ call.pc \in Commit /\ call \in AllCalls /\ disk' = disk /\ HistInv
      BY DEF Unput, At, AloneEdit, HistInv, Typed, Commit
<1>2. PICK k \in Batch : k = call.k
      BY <1>1, CommitFacts DEF Batch
<1>3. /\ stack' = [stack EXCEPT ![Where(k)] = Popped(@)] /\ k + 1 \in Nat
      /\ call' = [call EXCEPT !.k = k + 1, !.pc = IF k + 1 < call.i THEN "put" ELSE "pop"]
      BY <1>1, <1>2, CommitFacts DEF Unput, NextOne
<1>4. /\ call' \in AllCalls /\ SamePlan /\ call'.disk = call.disk
      /\ call'.pc = (IF k + 1 < call.i THEN "put" ELSE "pop")
      /\ call'.i = call.i /\ call'.k = k + 1 /\ call'.lo = call.lo /\ call'.hi = call.hi
      BY <1>1, <1>3 DEF AllCalls, SamePlan, Places
<1> QED BY <1>1, <1>2, <1>3, <1>4, AloneTakesBack

LEMMA AlonePop ==
    ASSUME PlansFit, AloneEdit, Pop, call'.pc \in Commit
    PROVE  EditHolds'
<1>1. /\ call.pc = "pop" /\ call.pc \in Commit /\ call \in AllCalls /\ disk' = disk /\ HistInv
      /\ call.kind = "edit"
      BY DEF Pop, At, AloneEdit, HistInv, Typed, Commit
<1>2. call.k <= call.hi /\ stack' = [stack EXCEPT ![Where(call.k)] = Popped(@)]
      /\ call' = [call EXCEPT !.k = call.k + 1]
  <2>1. \A status \in {"failed", "unknown"} : call' # Settled(status)
        BY <1>1 DEF Settled, AllCalls, Commit
  <2> QED BY <2>1 DEF Pop, Unwritten
<1>3. PICK k \in Batch : k = call.k
      BY <1>1, <1>2, CommitFacts DEF Batch
<1>4. k + 1 \in Nat /\ call' = [call EXCEPT !.k = k + 1]
      BY <1>1, <1>2, <1>3, CommitFacts
<1>5. /\ call' \in AllCalls /\ SamePlan /\ call'.disk = call.disk /\ call'.pc = "pop"
      /\ call'.i = call.i /\ call'.k = k + 1 /\ call'.lo = call.lo /\ call'.hi = call.hi
      BY <1>1, <1>4 DEF AllCalls, SamePlan
<1> QED BY <1>1, <1>2, <1>3, <1>5, AloneTakesBack

\* Only an edit's own steps, and what happens beside it, come between its start and its end.
LEMMA EditPlaces ==
    ASSUME HistInv, [Next]_vars, call.kind = "edit", ~Resting
    PROVE  \/ StartCommit \/ Push \/ Write \/ PutBack \/ Unput \/ Pop \/ Finish \/ Crash
           \/ \E p \in Path : Foreign(p)
           \/ UNCHANGED <<disk, stack, call, made, dirty>>
<1>1. call.pc \in Commit \cup {"op"}
      BY DEF HistInv, Bounded
<1>2. ~At("idle") /\ ~At("ended") /\ ~At("unlink") /\ ~At("purge") /\ ~At("rename") /\ ~At("migrate")
      /\ ~At("revert") /\ ~At("consume")
      BY <1>1 DEF At, Commit
<1>3. ~Add /\ ~Delete /\ ~ProbeLate /\ ~Move
      BY DEF Add, Delete, ProbeLate, Move, InOp
<1> QED BY <1>2, <1>3 DEF Next, Runs, vars, Open, UndoLast, Observe, Unlink, Purge, Rename, Migrate,
               Revert, Consume, Answered

LEMMA KindStays ==
    ASSUME call \in AllCalls
    PROVE  /\ \A status : call' = Settled(status) => call'.kind = call.kind
           /\ \A pc : Goes(pc) => call'.kind = call.kind /\ call'.alone = call.alone
           /\ \A told : Ends(told) => call'.kind = call.kind
           /\ \A lo, hi : Begin(lo, hi) => call'.kind = call.kind
<1>1. ASSUME NEW status, call' = Settled(status)
      PROVE  call'.kind = call.kind
  <2>1. [call EXCEPT !.status = Append(@, status), !.i = @ + 1, !.pc = "op"].kind = call.kind
        BY DEF AllCalls
  <2>2. [[call EXCEPT !.status = Append(@, status), !.i = @ + 1, !.pc = "op"]
           EXCEPT !.pc = "ended", !.told = "failed"].kind = call.kind
        BY DEF AllCalls
  <2> QED BY <1>1, <2>1, <2>2 DEF Settled
<1>2. ASSUME NEW pc, Goes(pc)
      PROVE  call'.kind = call.kind /\ call'.alone = call.alone
      BY <1>2 DEF Goes, AllCalls
<1>3. ASSUME NEW told, Ends(told)
      PROVE  call'.kind = call.kind
      BY <1>3 DEF Ends, AllCalls
<1>4. ASSUME NEW lo, NEW hi, Begin(lo, hi)
      PROVE  call'.kind = call.kind
      BY <1>4 DEF Begin, AllCalls
<1> QED BY <1>1, <1>2, <1>3, <1>4

\* A step that starts no call leaves the call's kind.
LEMMA KindBefore ==
    ASSUME PlansFit, HistInv, Next, NEW kind \in {"edit", "patch", "files"}, call'.kind = kind,
           call'.pc \notin {"idle", "ended"}
    PROVE  \/ ~Resting /\ call.kind = kind
           \/ \E plan \in Plan : Open(plan)
<1>1. call \in AllCalls
      BY DEF HistInv, Typed
<1>2. ASSUME NEW plan \in Plan, UndoLast(plan)
      PROVE  FALSE
      BY <1>2, UndoLastKeeps
<1>3. ASSUME Answered \/ Crash
      PROVE  FALSE
      BY <1>3 DEF Answered, Crash, NoCall
<1>4. ASSUME \E p \in Path : Observe(p) \/ Foreign(p)
      PROVE  call'.kind = call.kind /\ call'.pc = call.pc
      BY <1>1, <1>4 DEF Observe, Foreign, AllCalls
<1>5. ASSUME Runs
      PROVE  call'.kind = call.kind /\ ~Resting
  <2>1. ~Resting
        BY <1>5 DEF Runs, Resting, StartCommit, Push, Write, PutBack, Unput, Pop, Add, Delete, Unlink,
               Purge, ProbeLate, Move, Rename, Migrate, Revert, Consume, Finish, InOp, At
  <2> SUFFICES call'.kind = call.kind
      BY <2>1
  <2>2. CASE StartCommit \/ Unlink \/ Revert \/ Consume \/ Finish
        BY <2>2, <1>1, KindStays DEF StartCommit, Unlink, Revert, Consume, Finish
  <2>3. CASE Add
    <3>1. CASE call' = [call EXCEPT !.pc = "purge"]
          BY <3>1, <1>1 DEF AllCalls
    <3>2. CASE \E status : call' = Settled(status)
          BY <3>2, <1>1, KindStays
    <3> QED BY <2>3, <3>1, <3>2 DEF Add
  <2>4. CASE Delete \/ Purge \/ Move \/ Rename \/ Migrate
        BY <2>4, <1>1, KindStays DEF Delete, Purge, Move, Rename, Migrate
  <2>5. CASE Push
        BY <2>5, <1>1 DEF Push, AllCalls
  <2>6. CASE PutBack
    <3>1. CASE Goes("unput")
          BY <3>1, <1>1, KindStays
    <3>2. CASE call' = [call EXCEPT !.pc = "unput", !.alone = FALSE]
          BY <3>2, <1>1 DEF AllCalls
    <3> QED BY <2>6, <3>1, <3>2 DEF PutBack
  <2>7. CASE Unput \/ ProbeLate
        BY <2>7, <1>1 DEF Unput, ProbeLate, AllCalls
  <2>8. CASE Pop
    <3>1. CASE call' = [call EXCEPT !.k = @ + 1]
          BY <3>1, <1>1 DEF AllCalls
    <3>2. CASE \E status : call' = Settled(status)
          BY <3>2, <1>1, KindStays
    <3> QED BY <2>8, <3>1, <3>2 DEF Pop
  <2>9. CASE Write
    <3> DEFINE lost == [call EXCEPT !.pc = IF call.k > call.lo THEN "put" ELSE "pop", !.i = call.k,
                                    !.k = call.lo]
    <3>1. CASE call' = [call EXCEPT !.k = @ + 1]
          BY <3>1, <1>1 DEF AllCalls
    <3>2. CASE call' = Committed
          BY <3>2, <1>1, KindStays DEF Committed, AllCalls
    <3>3. CASE call' = lost
          BY <3>3, <1>1 DEF AllCalls
    <3>4. CASE call' = [lost EXCEPT !.alone = FALSE]
          BY <3>4, <1>1 DEF AllCalls
    <3> HIDE DEF lost
    <3>5. \/ call' = (IF call.k < call.hi THEN [call EXCEPT !.k = @ + 1] ELSE Committed)
          \/ call' = lost \/ call' = [lost EXCEPT !.alone = FALSE]
          BY <2>9 DEF Write, lost
    <3> QED BY <3>1, <3>2, <3>3, <3>4, <3>5
  <2> QED BY <1>5, <2>1, <2>2, <2>3, <2>4, <2>5, <2>6, <2>7, <2>8, <2>9 DEF Runs
<1> QED BY <1>2, <1>3, <1>4, <1>5 DEF Next, Resting, HistInv, Bounded

LEMMA EditStep ==
    ASSUME PlansFit, HistInv, EditHolds, [Next]_vars
    PROVE  EditHolds'
<1> SUFFICES ASSUME call'.kind = "edit", call'.alone, call'.pc \notin {"idle", "ended"}
             PROVE  EditHolds'
    BY DEF EditHolds, Resting
<1>1. CASE UNCHANGED <<disk, stack, call, made, dirty>>
      BY <1>1, SMTT(30) DEF EditHolds, EditItem, AsFound, Batch, Pushed, Written, Entry, Where, Resting
<1>2. ASSUME NEW plan \in Plan, Open(plan)
      PROVE  EditHolds'
  <2>1. call' = [NoCall EXCEPT !.pc = "op", !.kind = plan.kind, !.ops = plan.ops, !.i = 1,
                   !.text = [n \in DOMAIN plan.ops |-> disk[plan.ops[n].at]],
                   !.result = [n \in DOMAIN plan.ops |-> made + n], !.disk = disk, !.stack = stack]
    <3>1. call' # [NoCall EXCEPT !.pc = "ended", !.told = "failed"]
          BY DEF NoCall
    <3> QED BY <1>2, <3>1 DEF Open, Opened
  <2>2. /\ call'.pc = "op" /\ call'.disk = disk /\ call'.stack = stack /\ call'.ops = plan.ops
        /\ call'.text = [n \in DOMAIN plan.ops |-> disk[plan.ops[n].at]]
        BY <2>1 DEF NoCall
  <2>3. disk' = disk /\ stack' = stack
        BY <1>2 DEF Open
  <2> QED BY <2>2, <2>3 DEF EditHolds, Commit, HistInv, Typed
<1>3. CASE ~Resting /\ call.kind = "edit" /\ ~UNCHANGED <<disk, stack, call, made, dirty>>
  <2>1. call \in AllCalls
        BY DEF HistInv, Typed
  <2>2. ~Crash /\ ~Finish /\ ~\E p \in Path : Foreign(p)
    <3>1. ~Crash
          BY DEF Crash, NoCall
    <3>2. ~Finish
          BY <2>1 DEF Finish, Ends, AllCalls
    <3>3. ~\E p \in Path : Foreign(p)
          BY <2>1 DEF Foreign, AllCalls
    <3> QED BY <3>1, <3>2, <3>3
  <2>3. CASE StartCommit
    <3>1. /\ call.pc = "op" /\ disk' = disk /\ stack' = stack
          /\ call' = [call EXCEPT !.pc = "push", !.k = 1, !.lo = 1, !.hi = Len(call.ops)]
          BY <2>3, <1>3 DEF StartCommit, Begin, At
    <3>2. /\ call'.pc = "push" /\ SamePlan /\ call'.disk = call.disk /\ call'.alone = call.alone
          /\ call'.k = 1 /\ call'.lo = 1 /\ call'.hi = Len(call.ops)
          BY <2>1, <3>1 DEF AllCalls, SamePlan
    <3>3. disk = call.disk /\ stack = call.stack /\ call.alone
          BY <1>3, <3>1, <3>2 DEF EditHolds
    <3>4. ASSUME NEW j \in Batch'
          PROVE  EditItem(j)'
      <4>1. ~Pushed(j)' /\ Where(j)' = Where(j)
            BY <3>2 DEF Pushed, Batch, Where, SamePlan
      <4> QED BY <4>1, <3>1, <3>2, <3>3 DEF EditItem, SamePlan, SameHistory
    <3>5. \A p \in Path : AsFound(p)'
          BY <3>1, <3>2, <3>3 DEF AsFound, SamePlan
    <3> QED BY <3>2, <3>3, <3>4, <3>5, <1>3 DEF EditHolds, SamePlan
  <2>4. CASE Push \/ Write \/ PutBack \/ Unput \/ Pop
    <3>1. call.pc \in Commit
          BY <2>4 DEF Push, Write, PutBack, Unput, Pop, At, Commit
    <3>2. call.alone
      <4>1. ASSUME NEW status, call' = Settled(status)
            PROVE  call'.pc = "ended" \/ call'.alone = call.alone
            BY <4>1, <2>1 DEF Settled, AllCalls
      <4>2. CASE Write
            BY <4>2, <2>1, <1>3 DEF Write, Committed, AllCalls
      <4>3. CASE Pop
            BY <4>1, <4>3, <2>1 DEF Pop, AllCalls
      <4> QED BY <2>1, <2>4, <4>2, <4>3 DEF Push, PutBack, Unput, Goes, AllCalls
    <3>3. AloneEdit
          BY <3>1, <3>2, <1>3 DEF AloneEdit
    <3>4. HistInv'
          BY HistStep
    <3>5. call'.pc \in Commit
      <4>1. CASE call'.pc = "op"
        <5>1. \A status \in {"failed", "unknown"} : call' # Settled(status)
              BY <4>1, <2>1, <1>3 DEF Settled, AllCalls
        <5>2. ~(call' = [call EXCEPT !.k = @ + 1]) /\ call.pc # "op"
              BY <4>1, <3>1, <2>1 DEF AllCalls, Commit
        <5>3. ~Pop
              BY <5>1, <5>2 DEF Pop
        <5>4. ~PutBack /\ ~Unput
              BY <4>1, <2>1 DEF PutBack, Unput, Goes, AllCalls
        <5>5. ~Push
          <6>1. [call EXCEPT !.pc = "write", !.k = call.lo].pc = "write"
                BY <2>1 DEF AllCalls
          <6>2. [call EXCEPT !.pc = "pop", !.hi = call.k - 1, !.k = call.lo].pc = "pop"
                BY <2>1 DEF AllCalls
          <6> QED BY <4>1, <5>2, <6>1, <6>2 DEF Push
        <5>6. ~Write
          <6> DEFINE lost == [call EXCEPT !.pc = IF call.k > call.lo THEN "put" ELSE "pop", !.i = call.k,
                                          !.k = call.lo]
          <6>1. call' # Committed
                BY <4>1, <2>1, <1>3 DEF Committed, AllCalls
          <6>2. lost.pc # "op" /\ [lost EXCEPT !.alone = FALSE].pc # "op"
                BY <2>1 DEF AllCalls
          <6> HIDE DEF lost
          <6>3. Write => \/ call' = (IF call.k < call.hi THEN [call EXCEPT !.k = @ + 1] ELSE Committed)
                         \/ call' = lost \/ call' = [lost EXCEPT !.alone = FALSE]
                BY DEF Write, lost
          <6> QED BY <4>1, <5>2, <6>1, <6>2, <6>3
        <5> QED BY <2>4, <5>3, <5>4, <5>5, <5>6
      <4> QED BY <4>1, <3>4 DEF HistInv, Bounded, Resting
    <3> QED BY <2>4, <3>3, <3>5, AlonePush, AloneWrite, AlonePutBack, AloneUnput, AlonePop
  <2> QED BY <1>3, <2>2, <2>3, <2>4, EditPlaces
<1> QED BY <1>1, <1>2, <1>3, KindBefore DEF vars

\* "If a write fails, already-written files are restored": an edit that fails, with nobody
\* else at its files, leaves every text as it found it, and every history but for an oldest
\* entry that made room, however many files it had written and whatever was refused.
THEOREM FailedEditsUndone ==
    ASSUME PlansFit
    PROVE  Spec => [][FailedEditUndone]_vars
<1> DEFINE EditInv == HistInv /\ EditHolds
<1>1. Init => EditInv
  <2>1. Init => EditHolds
        BY DEF Init, NoCall, EditHolds, Resting
  <2> QED BY <2>1, HistInit
<1>2. EditInv /\ [Next]_vars => EditInv'
      BY HistStep, EditStep
<1>3. EditInv /\ [Next]_vars => [FailedEditUndone]_vars
  <2> SUFFICES ASSUME HistInv, EditHolds, Next, JustEnded("edit"), call'.told = "failed"
               PROVE  disk' = call.disk /\ \A p \in Path : SameHistory(stack'[p], call.stack[p])
      BY DEF FailedEditUndone
  <2>1. /\ call.kind = "edit" /\ ~Resting /\ call'.pc = "ended" /\ call'.alone
        /\ call \in AllCalls /\ call.told \in Answers
        BY DEF JustEnded, At, HistInv, Bounded, Resting, Typed, AllCalls
  <2>2. Pop
    <3>1. ~Crash /\ ~Finish /\ ~UNCHANGED <<disk, stack, call, made, dirty>>
      <4>1. ~Crash
            BY <2>1 DEF Crash, NoCall
      <4>2. ~Finish
            BY <2>1 DEF Finish, Ends, AllCalls
      <4> QED BY <2>1, <4>1, <4>2 DEF Resting
    <3>2. ~\E p \in Path : Foreign(p)
          BY <2>1 DEF Foreign, AllCalls
    <3>3. ~StartCommit /\ ~Push /\ ~PutBack /\ ~Unput
          BY <2>1 DEF StartCommit, Begin, Push, PutBack, Unput, Goes, At, Resting, AllCalls
    <3>4. ~Write
          BY <2>1 DEF Write, Committed, At, AllCalls
    <3> QED BY <2>1, <3>1, <3>2, <3>3, <3>4, EditPlaces
  <2>3. call.pc = "pop" /\ call.pc \in Commit /\ disk' = disk
        BY <2>2 DEF Pop, At, Commit
  <2>4. stack' = stack /\ ~(call.k <= call.hi) /\ call.alone
    <3>1. ~(call' = [call EXCEPT !.k = @ + 1])
          BY <2>1, <2>3 DEF AllCalls
    <3>2. ASSUME NEW status, call' = Settled(status)
          PROVE  call'.alone = call.alone
          BY <3>2, <2>1 DEF Settled, AllCalls
    <3> QED BY <2>1, <2>2, <3>1, <3>2 DEF Pop, Unwritten
  <2>5. AloneEdit
        BY <2>1, <2>3, <2>4 DEF AloneEdit
  <2>6. ASSUME NEW p \in Path
        PROVE  disk[p] = call.disk[p] /\ SameHistory(stack[p], call.stack[p])
    <3>1. CASE AsFound(p)
          BY <3>1 DEF AsFound, SameHistory
    <3>2. CASE \E j \in Batch : p = Where(j)
      <4>1. PICK j \in Batch : p = Where(j)
            BY <3>2
      <4>2. EditItem(j) /\ ~Pushed(j) /\ ~Written(j)
            BY <2>3, <2>4, <2>5, CommitFacts, AloneFacts DEF Batch, Pushed, Written
      <4> QED BY <4>1, <4>2 DEF EditItem
    <3> QED BY <3>1, <3>2, <2>5, AloneFacts
  <2>7. disk \in [Path -> Nat] /\ call.disk \in [Path -> Nat]
        BY <2>5, AloneFacts DEF HistInv, Typed
  <2> QED BY <2>3, <2>4, <2>6, <2>7
<1> QED BY <1>1, <1>2, <1>3, PTL DEF Spec

-----------------------------------------------------------------------------
(* What a patch that nothing else disturbs has done so far.                *)

\* An operation whose turn has not come: its text, its history and its destination.
Untouched(n) ==
    LET o == call.ops[n] IN
    /\ disk[o.at] = call.text[n] /\ stack[o.at] = call.stack[o.at]
    /\ o.op = "move" => disk[o.to] = Absent
\* The operation under way.
Midway ==
    LET p == Where(call.i) IN
    /\ call.pc = "op" => Untouched(call.i)
    /\ call.pc = "unlink" => Op.op = "remove" /\ Untouched(call.i)
    /\ call.pc = "purge" => \/ Op.op = "add" /\ disk[Op.at] = call.result[call.i]
                            \/ Op.op = "remove" /\ disk[Op.at] = Absent
    /\ call.pc = "rename" => Op.op = "move" /\ Untouched(call.i)
    /\ call.pc = "migrate" => /\ Op.op = "move" /\ disk[Op.at] = Absent
                              /\ disk[Op.to] = call.text[call.i]
                              /\ stack[Op.at] = call.stack[Op.at]
    /\ call.pc \in Commit =>
        /\ Op.op = "update" \/ (Op.op = "move" /\ Op.hunks /\ disk[Op.at] = Absent)
        /\ disk[p] = call.text[call.i]
        /\ CASE call.pc = "push" -> stack[p] = call.stack[Op.at]
             [] call.pc # "push" /\ call.k <= call.hi ->
                  stack[p] # <<>> /\ SameHistory(Front(stack[p]), call.stack[Op.at])
             [] OTHER -> SameHistory(stack[p], call.stack[Op.at])
Reported(n) == call.status[n] = "completed" /\ Effect(n, disk)
PatchHolds ==
    ~Resting /\ call.kind = "patch" /\ call.alone =>
        /\ Len(call.status) = call.i - 1 /\ \A n \in 1..call.i - 1 : Reported(n)
        /\ \A n \in DOMAIN call.ops :
              /\ call.ops[n].op \in {"add", "update", "remove", "move"}
              /\ call.ops[n].op = "move" => call.text[n] # Absent
              /\ n > call.i => Untouched(n)
        /\ call.i \in DOMAIN call.ops => Midway

\* A patch alone on its files, under way.
AlonePatch == HistInv /\ PatchHolds /\ ~Resting /\ call.kind = "patch" /\ call.alone
Apiece == \A p \in Path \ {Op.at, Op.to} : disk'[p] = disk[p] /\ stack'[p] = stack[p]

LEMMA PatchFacts ==
    ASSUME AlonePatch
    PROVE  /\ call \in AllCalls /\ call.status \in Statuses
           /\ DOMAIN call.ops = 1..Len(call.ops) /\ Len(call.ops) \in Nat /\ call.i \in Nat
           /\ call.i \in 1..Len(call.ops) + 1 /\ Distinct(call.ops)
           /\ disk \in [Path -> Nat] /\ stack \in [Path -> Seq(Entries)]
           /\ \A p \in Path : Len(stack[p]) <= UndoDepth
           /\ Len(call.status) = call.i - 1 /\ \A n \in 1..call.i - 1 : Reported(n)
           /\ \A n \in DOMAIN call.ops :
                 /\ call.ops[n].at \in Path /\ call.ops[n].to \in Path
                 /\ call.ops[n].op \in {"add", "update", "remove", "move"}
                 /\ call.ops[n].op = "move" => call.text[n] # Absent
                 /\ n > call.i => Untouched(n)
           /\ call.i \in DOMAIN call.ops => Midway /\ Op.at \in Path /\ Op.to \in Path
           /\ call.pc # "op" => call.i \in DOMAIN call.ops
<1>1. call \in AllCalls /\ call.status \in Statuses /\ disk \in [Path -> Nat]
      /\ stack \in [Path -> Seq(Entries)] /\ \A p \in Path : Len(stack[p]) <= UndoDepth /\ Typed
      BY DEF AlonePatch, HistInv, Typed, AllCalls
<1>2. /\ DOMAIN call.ops = 1..Len(call.ops) /\ Len(call.ops) \in Nat /\ call.i \in Nat
      /\ call.pc # "op" => call.i \in DOMAIN call.ops
      BY AtWork DEF AlonePatch
<1>3. call.i \in 1..Len(call.ops) + 1 /\ Distinct(call.ops)
      BY DEF AlonePatch, HistInv, Bounded
<1>4. ASSUME NEW n \in DOMAIN call.ops
      PROVE  call.ops[n].at \in Path /\ call.ops[n].to \in Path
  <2>1. Typed
        BY DEF AlonePatch, HistInv
  <2> QED BY <2>1, Placed
<1> QED BY <1>1, <1>2, <1>3, <1>4 DEF AlonePatch, PatchHolds, Op

\* The operations share no path, so that one's step leaves what was said of the others.
LEMMA PatchApart ==
    ASSUME AlonePatch, SamePlan, Apiece, call.i \in DOMAIN call.ops, NEW n \in DOMAIN call.ops, n # call.i
    PROVE  /\ Effect(n, disk) => Effect(n, disk') /\ Effect(n, disk)'
           /\ Untouched(n) => Untouched(n)' /\ NoEffect(n, disk', stack')
<1>1. {call.ops[n].at, call.ops[n].to} \cap {Op.at, Op.to} = {}
      BY PatchFacts DEF Distinct, Op
<1>2. call.ops[n].at \in Path \ {Op.at, Op.to} /\ call.ops[n].to \in Path \ {Op.at, Op.to}
      BY <1>1, PatchFacts
<1>3. /\ disk'[call.ops[n].at] = disk[call.ops[n].at] /\ disk'[call.ops[n].to] = disk[call.ops[n].to]
      /\ stack'[call.ops[n].at] = stack[call.ops[n].at]
      BY <1>2 DEF Apiece
<1>4. Effect(n, disk) => Effect(n, disk') /\ Effect(n, disk)'
      BY <1>3, PatchFacts, ZenonT(60) DEF Effect, SamePlan
<1>5. Untouched(n) => Untouched(n)' /\ NoEffect(n, disk', stack')
      BY <1>3 DEF Untouched, NoEffect, SameHistory, SamePlan
<1> QED BY <1>4, <1>5

\* A step of the operation under way.
LEMMA PatchGoes ==
    ASSUME AlonePatch, SamePlan, Apiece, call.i \in DOMAIN call.ops, call'.i = call.i,
           call'.status = call.status, call'.pc # "ended", Midway'
    PROVE  PatchHolds' /\ ReportIsTrue
<1>1. ASSUME NEW n \in 1..call.i - 1
      PROVE  Reported(n)'
  <2>1. n \in DOMAIN call.ops /\ n # call.i /\ Reported(n)
        BY PatchFacts
  <2> QED BY <2>1, PatchApart DEF Reported
<1>2. \A n \in DOMAIN call.ops : n > call.i => Untouched(n)'
      BY PatchFacts, PatchApart
<1>3. PatchHolds'
      BY <1>1, <1>2, PatchFacts DEF PatchHolds, SamePlan
<1>4. ReportIsTrue
      BY DEF ReportIsTrue, JustEnded
<1> QED BY <1>3, <1>4

LEMMA SettledFacts ==
    ASSUME call \in AllCalls, call.kind = "patch", NEW status \in {"completed", "failed", "unknown"},
           call' = Settled(status)
    PROVE  /\ SamePlan /\ call'.status = Append(call.status, status) /\ call'.i = call.i + 1
           /\ call'.alone = call.alone
           /\ call'.pc = IF status = "completed" THEN "op" ELSE "ended"
<1> DEFINE told == Append(call.status, status)
<1>1. call.i + 1 \in Nat /\ told \in Statuses
      BY AppendProperties DEF AllCalls, Statuses
<1> HIDE DEF told
<1>2. CASE status # "completed"
  <2>1. call' = [call EXCEPT !.status = told, !.i = call.i + 1, !.pc = "ended", !.told = "failed"]
        BY <1>1, <1>2 DEF Settled, AllCalls, told
  <2> QED BY <1>2, <2>1 DEF AllCalls, SamePlan, told
<1>3. CASE status = "completed"
  <2>1. call' = [call EXCEPT !.status = told, !.i = call.i + 1, !.pc = "op"]
        BY <1>1, <1>3 DEF Settled, AllCalls, told
  <2> QED BY <1>3, <2>1 DEF AllCalls, SamePlan, told
<1> QED BY <1>2, <1>3

\* The operation under way is over: it did what it reports, and the others are as they were.
LEMMA PatchSettles ==
    ASSUME AlonePatch, Apiece, call.i \in DOMAIN call.ops,
           NEW status \in {"completed", "failed"}, call' = Settled(status),
           IF status = "completed" THEN Effect(call.i, disk') ELSE NoEffect(call.i, disk', stack')
    PROVE  PatchHolds' /\ ReportIsTrue
<1>1. /\ SamePlan /\ call'.status = Append(call.status, status) /\ call'.i = call.i + 1
      /\ call'.pc = IF status = "completed" THEN "op" ELSE "ended"
      BY PatchFacts, SettledFacts DEF AlonePatch
<1>2. /\ Len(call'.status) = call.i /\ DOMAIN call'.status = 1..call.i /\ call'.status[call.i] = status
      /\ \A n \in 1..call.i - 1 : call'.status[n] = "completed"
  <2>1. /\ call.status \in Seq({"completed", "failed", "unknown"}) /\ Len(call.status) = call.i - 1
        /\ \A n \in 1..call.i - 1 : call.status[n] = "completed"
        BY PatchFacts DEF Reported, Statuses
  <2>2. call.i \in Nat /\ call.i >= 1
        BY PatchFacts
  <2> QED BY ONLY <1>1, <2>1, <2>2, AppendProperties
<1>3. ASSUME NEW n \in 1..call.i - 1
      PROVE  Effect(n, disk') /\ Effect(n, disk)'
  <2>1. n \in DOMAIN call.ops /\ n # call.i /\ Reported(n)
        BY PatchFacts
  <2> QED BY <1>1, <2>1, PatchApart DEF Reported
<1>4. ASSUME NEW n \in DOMAIN call.ops, n > call.i
      PROVE  Untouched(n)' /\ NoEffect(n, disk', stack')
  <2>1. n # call.i /\ Untouched(n)
        BY <1>4, PatchFacts
  <2> QED BY <1>1, <2>1, PatchApart
<1>5. CASE status = "completed"
  <2>1. \A n \in 1..call'.i - 1 : Reported(n)'
    <3> SUFFICES ASSUME NEW n \in 1..call.i
                 PROVE  call'.status[n] = "completed" /\ Effect(n, disk)'
        BY <1>1, PatchFacts DEF Reported
    <3>1. CASE n = call.i
      <4>1. Effect(n, disk)'
            BY <1>1, <1>5, <3>1, PatchFacts DEF Effect, SamePlan
      <4> QED BY <4>1, <3>1, <1>2, <1>5
    <3>2. CASE n # call.i
      <4>1. n \in 1..call.i - 1
            BY <3>2, PatchFacts
      <4> QED BY <4>1, <1>2, <1>3
    <3> QED BY <3>1, <3>2
  <2>2. call'.i \in DOMAIN call.ops => Midway'
        BY <1>1, <1>4, <1>5, PatchFacts DEF Midway, Commit, SamePlan
  <2>3. PatchHolds'
        BY <1>1, <1>2, <1>4, <2>1, <2>2, PatchFacts, SMTT(30) DEF PatchHolds, SamePlan
  <2> QED BY <1>1, <1>5, <2>3 DEF ReportIsTrue, JustEnded
<1>6. CASE status = "failed"
  <2>1. PatchHolds'
        BY <1>1, <1>6 DEF PatchHolds, Resting
  <2>2. ASSUME NEW n \in DOMAIN call.ops
        PROVE  IF n \in DOMAIN call'.status /\ call'.status[n] = "completed" THEN Effect(n, disk')
               ELSE NoEffect(n, disk', stack')
    <3>1. CASE n = call.i
          BY <3>1, <1>2, <1>6
    <3>2. CASE n \in 1..call.i - 1
          BY <3>2, <1>2, <1>3, PatchFacts
    <3>3. CASE n > call.i
          BY <3>3, <1>2, <1>4, PatchFacts
    <3>4. call.i \in Nat /\ n \in Nat /\ n >= 1
          BY PatchFacts
    <3> QED BY <3>1, <3>2, <3>3, <3>4
  <2> QED BY <2>1, <2>2 DEF ReportIsTrue
<1> QED BY <1>5, <1>6

\* A commit of a patch is that of its one operation.
LEMMA PatchCommit ==
    ASSUME AlonePatch, call.pc \in Commit
    PROVE  /\ call.i \in DOMAIN call.ops /\ call.k \in Nat /\ call.hi \in Nat /\ call.lo = call.i
           /\ call.pc \notin {"put", "unput"} /\ call.i <= call.k
           /\ call.pc # "pop" \/ call.k <= call.hi => call.k = call.i /\ call.hi = call.i
           /\ Where(call.i) \in {Op.at, Op.to} /\ Where(call.i) \in Path
           /\ Where(call.i) = (IF Op.op = "update" THEN Op.at ELSE Op.to)
           /\ Entry(call.i) \in Entries
<1>1. /\ call.lo = call.i /\ call.hi <= call.i /\ call.lo <= call.k /\ call.k \in Nat /\ call.hi \in Nat
      /\ call.pc # "pop" => call.k <= call.hi
      /\ call.pc \in {"put", "unput"} => call.k < call.i
      BY CommitFacts DEF AlonePatch, HistInv, Bounded
<1>2. call.i \in DOMAIN call.ops /\ call.i \in Nat
      BY PatchFacts DEF Commit
<1>3. Op.op \in {"update", "move"}
      BY <1>2, PatchFacts DEF Midway
<1>4. /\ Where(call.i) \in {Op.at, Op.to} /\ Where(call.i) \in Path
      /\ Where(call.i) = (IF Op.op = "update" THEN Op.at ELSE Op.to)
      BY <1>2, <1>3, PatchFacts DEF Where, Op
<1>5. Entry(call.i) \in Entries
  <2>1. /\ call.text \in Seq(Nat) /\ call.result \in Seq(Nat)
        /\ Len(call.text) = Len(call.ops) /\ Len(call.result) = Len(call.ops)
        BY DEF AlonePatch, HistInv, Typed, AllCalls, Sequences, Bounded
  <2>2. call.text[call.i] \in Nat /\ call.result[call.i] \in Nat
    <3>1. call.i \in 1..Len(call.text) /\ call.i \in 1..Len(call.result)
          BY <2>1, <1>2, PatchFacts
    <3> QED BY ONLY <2>1, <3>1, SMTT(30)
  <2> QED BY <2>2 DEF Entry, Entries
<1> QED BY <1>1, <1>2, <1>4, <1>5

LEMMA PatchPush ==
    ASSUME PlansFit, AlonePatch, Push
    PROVE  PatchHolds' /\ ReportIsTrue
<1> DEFINE p == Where(call.i)
<1>1. call.pc = "push" /\ call.pc \in Commit /\ disk' = disk /\ call \in AllCalls
      BY PatchFacts DEF Push, At, Commit
<1>2. /\ call.i \in DOMAIN call.ops /\ call.k = call.i /\ call.hi = call.i /\ call.lo = call.i
      /\ p \in {Op.at, Op.to} /\ p \in Path /\ call.i \in Nat
      BY <1>1, PatchCommit, PatchFacts
<1>3. /\ Op.op = "update" \/ (Op.op = "move" /\ Op.hunks /\ disk[Op.at] = Absent)
      /\ disk[p] = call.text[call.i] /\ stack[p] = call.stack[Op.at]
      BY <1>1, <1>2, PatchFacts DEF Midway
<1>4. CASE /\ stack' = [stack EXCEPT ![p] = Pruned(Append(@, Entry(call.k)))]
           /\ call' = IF call.k < call.hi THEN [call EXCEPT !.k = @ + 1]
                      ELSE [call EXCEPT !.pc = "write", !.k = call.lo]
  <2>1. call' = [call EXCEPT !.pc = "write", !.k = call.i]
        BY <1>2, <1>4
  <2>2. /\ call'.pc = "write" /\ SamePlan /\ call'.status = call.status /\ call'.i = call.i
        /\ call'.k = call.i /\ call'.hi = call.hi
        BY <1>1, <2>1 DEF AllCalls, SamePlan
  <2>3. Apiece
        BY <1>1, <1>2, <1>4, PatchFacts DEF Apiece
  <2>4. stack'[p] # <<>> /\ SameHistory(Front(stack'[p]), call.stack[Op.at])
    <3>1. stack'[p] = Pruned(Append(stack[p], Entry(call.i)))
          BY <1>2, <1>4, PatchFacts
    <3>2. stack[p] \in Seq(Entries) /\ Len(stack[p]) <= UndoDepth /\ Entry(call.i) \in Entries
          BY <1>1, <1>2, PatchFacts, PatchCommit
    <3> QED BY <1>3, <3>1, <3>2, Pushing DEF PlansFit
  <2>5. Midway'
    <3>1. Op' = Op /\ Where(call.i)' = p
          BY <2>2 DEF Op, Where, SamePlan
    <3> QED BY <1>1, <1>2, <1>3, <2>2, <2>4, <3>1 DEF Midway, SamePlan
  <2> QED BY <1>2, <2>2, <2>3, <2>5, PatchGoes
<1>5. CASE call' = [call EXCEPT !.pc = "pop", !.hi = call.k - 1, !.k = call.lo] /\ stack' = stack
  <2>1. call' = [call EXCEPT !.pc = "pop", !.hi = call.i - 1, !.k = call.i]
        BY <1>2, <1>5
  <2>2. /\ call'.pc = "pop" /\ SamePlan /\ call'.status = call.status /\ call'.i = call.i
        /\ call'.k = call.i /\ call'.hi = call.i - 1
        BY <1>1, <2>1 DEF AllCalls, SamePlan
  <2>3. Apiece
        BY <1>1, <1>5 DEF Apiece
  <2>4. Midway'
    <3>1. Op' = Op /\ Where(call.i)' = p /\ ~(call'.k <= call'.hi)
          BY <2>2, <1>2 DEF Op, Where, SamePlan
    <3> QED BY <1>1, <1>2, <1>3, <1>5, <2>2, <3>1 DEF Midway, SamePlan, SameHistory
  <2> QED BY <1>2, <2>2, <2>3, <2>4, PatchGoes
<1> QED BY <1>2, <1>4, <1>5 DEF Push

LEMMA PatchWrite ==
    ASSUME AlonePatch, Write, call'.alone
    PROVE  PatchHolds' /\ ReportIsTrue
<1> DEFINE p == Where(call.i)
           lost == [call EXCEPT !.pc = IF call.k > call.lo THEN "put" ELSE "pop", !.i = call.k,
                                !.k = call.lo]
<1>1. call.pc = "write" /\ call.pc \in Commit /\ stack' = stack /\ call \in AllCalls
      BY PatchFacts DEF Write, At, Commit
<1>2. /\ call.i \in DOMAIN call.ops /\ call.k = call.i /\ call.hi = call.i /\ call.lo = call.i
      /\ p \in {Op.at, Op.to} /\ p \in Path /\ call.i \in Nat
      /\ p = (IF Op.op = "update" THEN Op.at ELSE Op.to)
      BY <1>1, PatchCommit, PatchFacts
<1>3. /\ Op.op = "update" \/ (Op.op = "move" /\ Op.hunks /\ disk[Op.at] = Absent)
      /\ disk[p] = call.text[call.i]
      /\ Op.op = "move" => call.text[call.i] # Absent
      BY <1>1, <1>2, PatchFacts DEF Midway, Op
<1>4. CASE /\ disk' = [disk EXCEPT ![p] = call.result[call.k]]
           /\ call' = IF call.k < call.hi THEN [call EXCEPT !.k = @ + 1] ELSE Committed
  <2>1. call' = Settled("completed")
        BY <1>2, <1>4 DEF Committed, AlonePatch
  <2>2. Apiece
        BY <1>1, <1>2, <1>4, PatchFacts DEF Apiece
  <2>3. Effect(call.i, disk')
    <3>1. disk'[p] = call.result[call.i] /\ \A q \in Path : q # p => disk'[q] = disk[q]
          BY <1>2, <1>4, PatchFacts
    <3>2. CASE Op.op = "update"
          BY <3>1, <3>2, <1>2 DEF Effect, Op
    <3>3. CASE Op.op = "move"
      <4>1. Op.at # p /\ Op.at \in Path /\ Op.hunks /\ disk[Op.at] = Absent /\ p = Op.to
            BY <3>3, <1>2, <1>3, PatchFacts
      <4> QED BY <3>1, <3>3, <4>1 DEF Effect, Op
    <3> QED BY <1>3, <3>2, <3>3
  <2> QED BY <1>2, <2>1, <2>2, <2>3, PatchSettles
<1>5. CASE call' = lost /\ disk' = disk
  <2>1. call' = [call EXCEPT !.pc = "pop", !.i = call.i, !.k = call.i]
    <3>1. ~(call.k > call.lo)
          BY <1>2
    <3> QED BY <3>1, <1>2, <1>5
  <2>2. /\ call'.pc = "pop" /\ SamePlan /\ call'.status = call.status /\ call'.i = call.i
        /\ call'.k = call.i /\ call'.hi = call.hi
        BY <1>1, <2>1 DEF AllCalls, SamePlan
  <2>3. Apiece
        BY <1>1, <1>5 DEF Apiece
  <2>4. Midway'
    <3>1. Op' = Op /\ Where(call.i)' = p
          BY <2>2 DEF Op, Where, SamePlan
    <3>2. stack[p] # <<>> /\ SameHistory(Front(stack[p]), call.stack[Op.at])
          BY <1>1, <1>2, PatchFacts DEF Midway
    <3> QED BY <1>1, <1>2, <1>3, <1>5, <2>2, <3>1, <3>2 DEF Midway, SamePlan
  <2> QED BY <1>2, <2>2, <2>3, <2>4, PatchGoes
<1>6. CASE call' = [lost EXCEPT !.alone = FALSE]
  <2>1. ~call'.alone
        BY <1>1, <1>6 DEF AllCalls
  <2> QED BY <2>1
<1> QED BY <1>2, <1>4, <1>5, <1>6 DEF Write, Lands

LEMMA PatchPop ==
    ASSUME AlonePatch, Pop
    PROVE  PatchHolds' /\ ReportIsTrue
<1> DEFINE p == Where(call.i)
<1>1. call.pc = "pop" /\ call.pc \in Commit /\ disk' = disk /\ call \in AllCalls
      BY PatchFacts DEF Pop, At, Commit
<1>2. /\ call.i \in DOMAIN call.ops /\ call.k \in Nat /\ call.hi \in Nat /\ call.i \in Nat
      /\ call.k <= call.hi => call.k = call.i /\ call.hi = call.i
      /\ p \in {Op.at, Op.to} /\ p \in Path
      /\ p = (IF Op.op = "update" THEN Op.at ELSE Op.to)
      BY <1>1, PatchCommit, PatchFacts
<1>3. /\ Op.op = "update" \/ (Op.op = "move" /\ Op.hunks /\ disk[Op.at] = Absent)
      /\ disk[p] = call.text[call.i]
      BY <1>1, <1>2, PatchFacts DEF Midway
<1>4. CASE /\ call.k <= call.hi /\ stack' = [stack EXCEPT ![Where(call.k)] = Popped(@)]
           /\ call' = [call EXCEPT !.k = @ + 1]
  <2>1. call' = [call EXCEPT !.k = call.k + 1] /\ call.k + 1 \in Nat /\ call.k = call.i
        BY <1>2, <1>4
  <2>2. /\ call'.pc = "pop" /\ SamePlan /\ call'.status = call.status /\ call'.i = call.i
        /\ call'.k = call.k + 1 /\ call'.hi = call.hi
        BY <1>1, <2>1 DEF AllCalls, SamePlan
  <2>3. Apiece
        BY <1>1, <1>2, <1>4, <2>1, PatchFacts DEF Apiece
  <2>4. SameHistory(stack'[p], call.stack[Op.at])
    <3>1. stack[p] # <<>> /\ SameHistory(Front(stack[p]), call.stack[Op.at])
          BY <1>1, <1>2, <1>4, PatchFacts DEF Midway
    <3>2. stack'[p] = Front(stack[p])
          BY <1>2, <1>4, <2>1, <3>1, PatchFacts DEF Popped
    <3> QED BY <3>1, <3>2
  <2>5. Midway'
    <3>1. Op' = Op /\ Where(call.i)' = p /\ ~(call'.k <= call'.hi)
          BY <1>2, <1>4, <2>1, <2>2 DEF Op, Where, SamePlan
    <3> QED BY <1>1, <1>2, <1>3, <2>2, <2>4, <3>1 DEF Midway, SamePlan
  <2> QED BY <1>1, <1>2, <2>2, <2>3, <2>5, PatchGoes
<1>5. CASE /\ ~(call.k <= call.hi) /\ stack' = stack
           /\ call' = Settled(IF call.alone THEN "failed" ELSE "unknown")
  <2>1. call' = Settled("failed")
        BY <1>5 DEF AlonePatch
  <2>2. Apiece
        BY <1>1, <1>5 DEF Apiece
  <2>3. SameHistory(stack[p], call.stack[Op.at])
        BY <1>1, <1>2, <1>5, PatchFacts DEF Midway
  <2>4. NoEffect(call.i, disk', stack')
        BY <1>1, <1>2, <1>3, <1>5, <2>3 DEF NoEffect, Op
  <2> QED BY <1>2, <2>1, <2>2, <2>4, PatchSettles
<1> QED BY <1>4, <1>5 DEF Pop, Unwritten

\* An operation of a patch that starts, or is between its two awaits.
LEMMA PatchTurn ==
    ASSUME AlonePatch, call.pc \notin Commit, call.i <= Len(call.ops)
    PROVE  /\ call \in AllCalls /\ call.i \in DOMAIN call.ops /\ Op.at \in Path /\ Op.to \in Path
           /\ disk \in [Path -> Nat] /\ stack \in [Path -> Seq(Entries)]
           /\ Op.op \in {"add", "update", "remove", "move"}
           /\ Op.op = "move" => call.text[call.i] # Absent
           /\ Midway
           /\ \A pc \in Places : Goes(pc) => SamePlan /\ call'.status = call.status
                                             /\ call'.i = call.i /\ call'.pc = pc /\ Op' = Op
<1>1. call.i \in DOMAIN call.ops /\ call \in AllCalls
      BY PatchFacts
<1>2. ASSUME NEW pc \in Places, Goes(pc)
      PROVE  /\ SamePlan /\ call'.status = call.status /\ call'.i = call.i /\ call'.pc = pc
             /\ Op' = Op
  <2>1. call'.status = call.status
        BY <1>1, <1>2 DEF Goes, AllCalls
  <2> QED BY <1>1, <1>2, <2>1, Goings DEF SameSpan
<1> QED BY <1>1, <1>2, PatchFacts DEF Op

\* The operation under way fails before it has changed anything.
LEMMA PatchDeclines ==
    ASSUME AlonePatch, call.i \in DOMAIN call.ops, Untouched(call.i), call' = Settled("failed"),
           UNCHANGED <<disk, stack>>
    PROVE  PatchHolds' /\ ReportIsTrue
<1>1. Apiece
      BY DEF Apiece
<1>2. NoEffect(call.i, disk', stack')
      BY DEF NoEffect, Untouched, SameHistory
<1> QED BY <1>1, <1>2, PatchSettles

LEMMA PatchOps ==
    ASSUME AlonePatch, Add \/ Delete \/ Unlink \/ Purge
    PROVE  PatchHolds' /\ ReportIsTrue
<1>1. call.pc \notin Commit /\ call.i <= Len(call.ops)
      BY PatchFacts DEF Add, Delete, Unlink, Purge, InOp, At, Commit
<1>2. /\ call \in AllCalls /\ call.i \in DOMAIN call.ops /\ Op.at \in Path /\ Op.to \in Path
      /\ disk \in [Path -> Nat] /\ stack \in [Path -> Seq(Entries)]
      /\ Op.op \in {"add", "update", "remove", "move"} /\ Midway
      BY <1>1, PatchTurn
<1>3. \A pc \in {"unlink", "purge"} : Goes(pc) =>
         SamePlan /\ call'.status = call.status /\ call'.i = call.i /\ call'.pc = pc /\ Op' = Op
      BY <1>1, PatchTurn DEF Places
<1>4. CASE Add
  <2>1. Op.op = "add" /\ call.pc = "op" /\ stack' = stack /\ Untouched(call.i)
        BY <1>2, <1>4 DEF Add, InOp, At, Midway
  <2>2. CASE disk' = [disk EXCEPT ![Op.at] = call.result[call.i]] /\ call' = [call EXCEPT !.pc = "purge"]
    <3>1. Apiece /\ disk'[Op.at] = call.result[call.i]
          BY <1>2, <2>1, <2>2 DEF Apiece
    <3>2. SamePlan /\ call'.status = call.status /\ call'.i = call.i /\ call'.pc = "purge" /\ Op' = Op
          BY <2>2, <1>3 DEF Goes
    <3>3. Midway'
          BY <2>1, <3>1, <3>2 DEF Midway, Commit, SamePlan
    <3> QED BY <1>2, <3>1, <3>2, <3>3, PatchGoes
  <2>3. CASE call' = Settled("failed") /\ disk' = disk
        BY <1>2, <2>1, <2>3, PatchDeclines
  <2> QED BY <1>4, <2>1, <2>2, <2>3 DEF Add, Lands
<1>5. CASE Delete
  <2>1. Op.op = "remove" /\ call.pc = "op" /\ UNCHANGED <<disk, stack>> /\ Untouched(call.i)
        BY <1>2, <1>5 DEF Delete, InOp, At, Midway
  <2>2. Apiece
        BY <2>1 DEF Apiece
  <2>3. CASE Goes("unlink")
    <3>1. SamePlan /\ call'.status = call.status /\ call'.i = call.i /\ call'.pc = "unlink" /\ Op' = Op
          BY <2>3, <1>3
    <3>2. Untouched(call.i)'
          BY <2>1, <3>1 DEF Untouched, SamePlan
    <3>3. Midway'
          BY <2>1, <3>1, <3>2 DEF Midway, Commit
    <3> QED BY <1>2, <2>2, <3>1, <3>3, PatchGoes
  <2>4. CASE disk[Op.at] = Absent /\ Goes("purge")
    <3>1. SamePlan /\ call'.status = call.status /\ call'.i = call.i /\ call'.pc = "purge" /\ Op' = Op
          BY <2>4, <1>3
    <3>2. Midway'
          BY <2>1, <2>4, <3>1 DEF Midway, Commit
    <3> QED BY <1>2, <2>2, <3>1, <3>2, PatchGoes
  <2>5. CASE call' = Settled("failed")
        BY <1>2, <2>1, <2>5, PatchDeclines
  <2> QED BY <1>5, <2>3, <2>4, <2>5 DEF Delete
<1>6. CASE Unlink
  <2>1. /\ Op.op = "remove" /\ disk' = [disk EXCEPT ![Op.at] = Absent] /\ stack' = stack
        /\ Goes("purge")
        BY <1>2, <1>6 DEF Unlink, At, Midway
  <2>2. SamePlan /\ call'.status = call.status /\ call'.i = call.i /\ call'.pc = "purge" /\ Op' = Op
        BY <2>1, <1>3
  <2>3. Apiece /\ disk'[Op.at] = Absent
        BY <1>2, <2>1 DEF Apiece
  <2>4. Midway'
        BY <2>1, <2>2, <2>3 DEF Midway, Commit
  <2> QED BY <1>2, <2>2, <2>3, <2>4, PatchGoes
<1>7. CASE Purge
  <2>1. /\ call' = Settled("completed") /\ disk' = disk /\ stack' = [stack EXCEPT ![Op.at] = <<>>]
        /\ \/ Op.op = "add" /\ disk[Op.at] = call.result[call.i]
           \/ Op.op = "remove" /\ disk[Op.at] = Absent
        BY <1>2, <1>7 DEF Purge, At, NoHistory, Midway
  <2>2. Apiece
        BY <1>2, <2>1 DEF Apiece
  <2>3. Effect(call.i, disk')
        BY <2>1 DEF Effect, Op
  <2> QED BY <1>2, <2>1, <2>2, <2>3, PatchSettles
<1> QED BY <1>4, <1>5, <1>6, <1>7

LEMMA PatchMoves ==
    ASSUME AlonePatch, Move \/ Rename \/ Migrate
    PROVE  PatchHolds' /\ ReportIsTrue
<1>1. call.pc \notin Commit /\ call.i <= Len(call.ops)
      BY PatchFacts DEF Move, Rename, Migrate, InOp, At, Commit
<1>2. /\ call \in AllCalls /\ call.i \in DOMAIN call.ops /\ Op.at \in Path /\ Op.to \in Path
      /\ disk \in [Path -> Nat] /\ stack \in [Path -> Seq(Entries)]
      /\ Op.op = "move" => call.text[call.i] # Absent
      /\ Midway
      BY <1>1, PatchTurn
<1>3. \A pc \in {"rename", "migrate"} : Goes(pc) =>
         SamePlan /\ call'.status = call.status /\ call'.i = call.i /\ call'.pc = pc /\ Op' = Op
      BY <1>1, PatchTurn DEF Places
<1>4. CASE Move
  <2>1. Op.op = "move" /\ call.pc = "op" /\ UNCHANGED <<disk, stack>> /\ Untouched(call.i)
        BY <1>2, <1>4 DEF Move, InOp, At, Midway
  <2>2. Apiece
        BY <2>1 DEF Apiece
  <2>3. CASE Goes("rename")
    <3>1. SamePlan /\ call'.status = call.status /\ call'.i = call.i /\ call'.pc = "rename" /\ Op' = Op
          BY <2>3, <1>3
    <3>2. Untouched(call.i)'
          BY <2>1, <3>1 DEF Untouched, SamePlan
    <3>3. Midway'
          BY <2>1, <3>1, <3>2 DEF Midway, Commit
    <3> QED BY <1>2, <2>2, <3>1, <3>3, PatchGoes
  <2>4. CASE call' = Settled("failed")
        BY <1>2, <2>1, <2>4, PatchDeclines
  <2> QED BY <1>4, <2>3, <2>4 DEF Move
<1>5. CASE Rename
  <2>1. /\ Op.op = "move" /\ disk[Op.at] = call.text[call.i] /\ call.text[call.i] # Absent
        /\ stack[Op.at] = call.stack[Op.at] /\ disk[Op.to] = Absent
        BY <1>2, <1>5 DEF Rename, At, Midway, Untouched, Op
  <2>2. /\ disk' = [disk EXCEPT ![Op.to] = disk[Op.at], ![Op.at] = Absent] /\ stack' = stack
        /\ Goes("migrate")
        BY <1>5, <2>1 DEF Rename
  <2>3. SamePlan /\ call'.status = call.status /\ call'.i = call.i /\ call'.pc = "migrate" /\ Op' = Op
        BY <2>2, <1>3
  <2>4. Op.at # Op.to
        BY <2>1
  <2>5. Apiece /\ disk'[Op.at] = Absent /\ disk'[Op.to] = call.text[call.i]
        BY <1>2, <2>1, <2>2, <2>4 DEF Apiece
  <2>6. Midway'
        BY <2>1, <2>2, <2>3, <2>5 DEF Midway, Commit, SamePlan
  <2> QED BY <1>2, <2>3, <2>5, <2>6, PatchGoes
<1>6. CASE Migrate
  <2>1. /\ Op.op = "move" /\ disk[Op.at] = Absent /\ disk[Op.to] = call.text[call.i]
        /\ stack[Op.at] = call.stack[Op.at] /\ call.text[call.i] # Absent
        BY <1>2, <1>6 DEF Migrate, At, Midway
  <2>2. Op.at # Op.to /\ disk' = disk /\ stack' = [stack EXCEPT ![Op.to] = stack[Op.at], ![Op.at] = <<>>]
        BY <1>6, <2>1 DEF Migrate, Migrated
  <2>3. Apiece /\ stack'[Op.to] = call.stack[Op.at]
        BY <1>2, <2>1, <2>2 DEF Apiece
  <2>4. CASE Op.hunks /\ Begin(call.i, call.i)
    <3>1. /\ call'.pc = "push" /\ SamePlan /\ call'.status = call.status /\ call'.i = call.i
          BY <1>2, <2>4 DEF Begin, AllCalls, SamePlan
    <3>2. Op' = Op /\ Where(call.i)' = Op.to
          BY <2>1, <3>1 DEF Op, Where, SamePlan
    <3>3. Midway'
          BY <2>1, <2>2, <2>3, <2>4, <3>1, <3>2 DEF Midway, Commit, SamePlan
    <3> QED BY <1>2, <2>3, <3>1, <3>3, PatchGoes
  <2>5. CASE ~Op.hunks /\ call' = Settled("completed")
    <3>1. Effect(call.i, disk')
          BY <2>1, <2>2, <2>5 DEF Effect, Op
    <3> QED BY <1>2, <2>3, <2>5, <3>1, PatchSettles
  <2> QED BY <1>6, <2>4, <2>5 DEF Migrate, AlonePatch
<1> QED BY <1>4, <1>5, <1>6

LEMMA PatchStarts ==
    ASSUME AlonePatch, StartCommit
    PROVE  PatchHolds' /\ ReportIsTrue
<1>1. /\ call.pc = "op" /\ call.i <= Len(call.ops) /\ Op.op = "update" /\ UNCHANGED <<disk, stack>>
      /\ call' = [call EXCEPT !.pc = "push", !.k = call.i, !.lo = call.i, !.hi = call.i]
      BY DEF StartCommit, At, Begin, AlonePatch
<1>2. call \in AllCalls /\ call.i \in DOMAIN call.ops /\ Midway
      BY <1>1, PatchTurn DEF Commit
<1>3. Apiece
      BY <1>1 DEF Apiece
<1>4. call'.pc = "push" /\ SamePlan /\ call'.status = call.status /\ call'.i = call.i
      BY <1>1, <1>2 DEF AllCalls, SamePlan
<1>5. Op' = Op /\ Where(call.i)' = Op.at
      BY <1>1, <1>4 DEF Op, Where, SamePlan
<1>6. disk[Op.at] = call.text[call.i] /\ stack[Op.at] = call.stack[Op.at]
      BY <1>1, <1>2 DEF Midway, Untouched, Op
<1>7. Midway'
      BY <1>1, <1>4, <1>5, <1>6 DEF Midway, Commit, SamePlan
<1> QED BY <1>2, <1>3, <1>4, <1>7, PatchGoes

\* Every operation has had its turn.
LEMMA PatchFinishes ==
    ASSUME AlonePatch, Finish
    PROVE  PatchHolds' /\ ReportIsTrue
<1>1. /\ call.i > Len(call.ops) /\ disk' = disk /\ call \in AllCalls
      /\ call' = [call EXCEPT !.pc = "ended", !.told = "ok"]
      BY PatchFacts DEF Finish, Ends
<1>2. call'.pc = "ended" /\ call'.status = call.status
      BY <1>1 DEF AllCalls
<1>3. ASSUME NEW n \in DOMAIN call.ops
      PROVE  n \in DOMAIN call.status /\ call.status[n] = "completed" /\ Effect(n, disk)
  <2>1. n \in 1..call.i - 1 /\ Reported(n)
        BY <1>1, PatchFacts
  <2>2. DOMAIN call.status = 1..call.i - 1
        BY PatchFacts DEF Statuses
  <2> QED BY <2>1, <2>2 DEF Reported
<1>4. PatchHolds'
      BY <1>2 DEF PatchHolds, Resting
<1>5. ReportIsTrue
      BY <1>1, <1>2, <1>3 DEF ReportIsTrue
<1> QED BY <1>4, <1>5

\* A patch that starts has found each of its files ready.
LEMMA PatchOpens ==
    ASSUME PlansFit, HistInv, NEW plan \in Plan, Open(plan), call'.kind = "patch", ~Resting'
    PROVE  PatchHolds'
<1> DEFINE ops == plan.ops
           text == [n \in DOMAIN ops |-> disk[ops[n].at]]
<1>1. /\ ~Refused(plan) /\ disk' = disk /\ stack' = stack
      /\ call' = [NoCall EXCEPT !.pc = "op", !.kind = plan.kind, !.ops = ops, !.i = 1, !.text = text,
                   !.result = [n \in DOMAIN ops |-> made + n], !.disk = disk, !.stack = stack]
  <2>1. call' # [NoCall EXCEPT !.pc = "ended", !.told = "failed"]
        BY DEF NoCall, Resting
  <2> QED BY <2>1 DEF Open, Opened
<1>2. /\ call'.pc = "op" /\ call'.kind = plan.kind /\ call'.ops = ops /\ call'.i = 1
      /\ call'.text = text /\ call'.stack = stack /\ call'.status = <<>>
      BY <1>1 DEF NoCall
<1>3. /\ plan.kind = "patch" /\ \A n \in DOMAIN ops : Ready(ops[n])
      /\ \A n \in DOMAIN ops : ops[n].op \in {"add", "update", "remove", "move"}
      BY <1>1, <1>2, PlannedOps DEF Refused
<1>4. ASSUME NEW n \in DOMAIN ops
      PROVE  Untouched(n)' /\ (ops[n].op = "move" => text[n] # Absent)
      BY <1>1, <1>2, <1>3 DEF Untouched, Ready
<1>5. 1 \in DOMAIN ops => Midway'
      BY <1>2, <1>4 DEF Midway, Commit
<1> HIDE DEF text, ops
<1>6. Len(call'.status) = call'.i - 1 /\ \A n \in 1..call'.i - 1 : Reported(n)'
      BY <1>2
<1> QED BY <1>2, <1>3, <1>4, <1>5, <1>6 DEF PatchHolds

\* Nothing a call does makes it alone on its files again, or changes its operations.
LEMMA AloneStays ==
    ASSUME call \in AllCalls, call.kind \in {"patch", "files"}, Runs, call'.alone
    PROVE  call.alone /\ call'.ops = call.ops
<1>1. ASSUME NEW status \in {"completed", "failed", "unknown"}, call' = Settled(status)
      PROVE  call'.alone = call.alone /\ call'.ops = call.ops
  <2>1. CASE call.kind = "patch"
        BY <1>1, <2>1, SettledFacts DEF SamePlan
  <2>2. CASE call.kind = "files"
    <3>1. call' = [call EXCEPT !.status = Append(@, status), !.i = @ + 1, !.pc = "op"]
          BY <1>1, <2>2 DEF Settled
    <3> QED BY <3>1 DEF AllCalls
  <2> QED BY <2>1, <2>2
<1>2. \A pc : Goes(pc) => call'.alone = call.alone /\ call'.ops = call.ops
      BY DEF Goes, AllCalls
<1>3. \A lo, hi : Begin(lo, hi) => call'.alone = call.alone /\ call'.ops = call.ops
      BY DEF Begin, AllCalls
<1>4. \A told : Ends(told) => call'.alone = call.alone /\ call'.ops = call.ops
      BY DEF Ends, AllCalls
<1>5. CASE StartCommit \/ Unlink \/ Revert \/ Consume \/ Finish
      BY <1>2, <1>3, <1>4, <1>5 DEF StartCommit, Unlink, Revert, Consume, Finish
<1>6. CASE Delete \/ Purge \/ Move \/ Rename \/ Migrate
      BY <1>1, <1>2, <1>3, <1>6 DEF Delete, Purge, Move, Rename, Migrate
<1>7. CASE Add
  <2>1. [call EXCEPT !.pc = "purge"].alone = call.alone /\ [call EXCEPT !.pc = "purge"].ops = call.ops
        BY DEF AllCalls
  <2> QED BY <1>1, <1>7, <2>1 DEF Add
<1>8. CASE Push \/ Unput \/ ProbeLate
      BY <1>8 DEF Push, Unput, ProbeLate, AllCalls
<1>9. CASE PutBack
  <2>1. ~[call EXCEPT !.pc = "unput", !.alone = FALSE].alone
        BY DEF AllCalls
  <2> QED BY <1>2, <1>9, <2>1 DEF PutBack
<1>10. CASE Pop
  <2>1. [call EXCEPT !.k = @ + 1].alone = call.alone /\ [call EXCEPT !.k = @ + 1].ops = call.ops
        BY DEF AllCalls
  <2>2. CASE call' = Settled(IF call.alone THEN "failed" ELSE "unknown")
        BY <1>1, <2>2
  <2> QED BY <1>10, <2>1, <2>2 DEF Pop
<1>11. CASE Write
  <2> DEFINE lost == [call EXCEPT !.pc = IF call.k > call.lo THEN "put" ELSE "pop", !.i = call.k,
                                  !.k = call.lo]
  <2>1. /\ [call EXCEPT !.k = @ + 1].alone = call.alone /\ lost.alone = call.alone
        /\ [call EXCEPT !.k = @ + 1].ops = call.ops /\ lost.ops = call.ops
        /\ ~[lost EXCEPT !.alone = FALSE].alone
        BY DEF AllCalls
  <2>2. CASE call' = Committed
        BY <1>1, <2>2 DEF Committed
  <2> HIDE DEF lost
  <2>3. \/ call' = [call EXCEPT !.k = @ + 1] \/ call' = Committed
        \/ call' = lost \/ call' = [lost EXCEPT !.alone = FALSE]
        BY <1>11 DEF Write, lost
  <2> QED BY <2>1, <2>2, <2>3
<1> QED BY <1>5, <1>6, <1>7, <1>8, <1>9, <1>10, <1>11 DEF Runs

LEMMA PatchStep ==
    ASSUME PlansFit, HistInv, PatchHolds, [Next]_vars
    PROVE  PatchHolds' /\ [ReportIsTrue]_vars
<1>1. CASE UNCHANGED <<disk, stack, call, made, dirty>>
  <2>1. PatchHolds'
        BY <1>1 DEF PatchHolds, Reported, Effect, Untouched, Midway, Where, Op, Resting
  <2>2. ReportIsTrue
        BY <1>1 DEF ReportIsTrue, JustEnded, At
  <2> QED BY <2>1, <2>2
<1>2. CASE ~call'.alone
      BY <1>2 DEF PatchHolds, ReportIsTrue, JustEnded
<1>3. CASE Resting \/ call.kind # "patch"
  <2>1. ReportIsTrue
        BY <1>3 DEF ReportIsTrue, JustEnded, At, Resting, HistInv, Bounded
  <2>2. PatchHolds'
    <3> SUFFICES ASSUME call'.kind = "patch", call'.pc \notin {"idle", "ended"}, Next
                 PROVE  PatchHolds'
        BY <1>1 DEF PatchHolds, Resting, vars
    <3>1. PICK plan \in Plan : Open(plan)
          BY <1>3, KindBefore
    <3> QED BY <3>1, PatchOpens DEF Resting
  <2> QED BY <2>1, <2>2
<1>4. CASE ~Resting /\ call.kind = "patch" /\ call'.alone /\ Next
  <2>1. call \in AllCalls
        BY DEF HistInv, Typed
  <2>2. CASE Crash
    <3>1. call'.pc = "idle"
          BY <2>2 DEF Crash, NoCall
    <3> QED BY <3>1 DEF PatchHolds, Resting, ReportIsTrue, JustEnded
  <2>3. CASE Runs
    <3>1. call.alone
          BY <1>4, <2>1, <2>3, AloneStays
    <3>2. AlonePatch
          BY <1>4, <3>1 DEF AlonePatch
    <3>3. ~Revert /\ ~Consume
          BY <1>4 DEF Revert, Consume, At, HistInv, PlaceHolds
    <3>4. ~PutBack /\ ~Unput
          BY <3>2, PatchCommit DEF PutBack, Unput, At, Commit
    <3>5. ~ProbeLate
          BY <3>2, PatchTurn DEF ProbeLate, InOp, At, Commit
    <3> QED BY <1>4, <2>3, <3>2, <3>3, <3>4, <3>5, PatchPush, PatchWrite, PatchPop, PatchOps, PatchMoves,
               PatchStarts, PatchFinishes DEF Runs
  <2>4. CASE \E p \in Path : Foreign(p)
        BY <1>4, <2>1, <2>4 DEF Foreign, AllCalls
  <2>5. CASE \E p \in Path : Observe(p)
        BY <1>1, <2>5 DEF Observe
  <2>6. ~Answered /\ ~\E plan \in Plan : Open(plan) \/ UndoLast(plan)
        BY <1>4 DEF Answered, Open, UndoLast, At, Resting
  <2> QED BY <1>4, <2>2, <2>3, <2>4, <2>5, <2>6 DEF Next
<1> QED BY <1>1, <1>2, <1>3, <1>4 DEF vars

\* What a patch that nothing else disturbs reports of each of its operations is so: a
\* completed one's text is there, and the file of every other has its text and its history,
\* where it was or where the patch moved it.
THEOREM ReportsAreTrue ==
    ASSUME PlansFit
    PROVE  Spec => [][ReportIsTrue]_vars
<1> DEFINE PatchInv == HistInv /\ PatchHolds
<1>1. Init => PatchInv
  <2>1. Init => PatchHolds
        BY DEF Init, NoCall, PatchHolds, Resting
  <2> QED BY <2>1, HistInit
<1>2. PatchInv /\ [Next]_vars => PatchInv'
      BY HistStep, PatchStep
<1>3. PatchInv /\ [Next]_vars => [ReportIsTrue]_vars
      BY PatchStep
<1> QED BY <1>1, <1>2, <1>3, PTL DEF Spec

-----------------------------------------------------------------------------
(* What a rename that nothing else disturbs has done so far.               *)

Held(d) == {p \in Path : d[p] # Absent}
\* Each file there was is still there, with its history.
AllThere(s) ==
    /\ Files(disk, s) = Files(call.disk, call.stack)
    /\ Cardinality(Held(disk)) = Cardinality(Held(call.disk))
OnlyMoves == \A n \in DOMAIN call.ops : call.ops[n].op = "move"
MovesHold ==
    ~Resting /\ call.kind = "files" /\ call.alone /\ OnlyMoves =>
        /\ call.pc \in {"op", "rename", "migrate"}
        /\ call.pc \in {"op", "rename"} => AllThere(stack)
        /\ call.pc = "rename" => disk[Op.at] # Absent /\ disk[Op.to] = Absent
        /\ call.pc = "migrate" => /\ disk[Op.at] = Absent /\ disk[Op.to] # Absent
                                  /\ AllThere(Migrated(stack, Op.at, Op.to))
SameFound == /\ call'.kind = call.kind /\ call'.ops = call.ops
             /\ call'.disk = call.disk /\ call'.stack = call.stack

\* A file moved onto a free path, with its history: as many files, and the same.
LEMMA Moving ==
    ASSUME IsFiniteSet(Path), disk \in [Path -> Nat], stack \in [Path -> Seq(Entries)],
           NEW from \in Path, NEW to \in Path, from # to, disk[from] # Absent, disk[to] = Absent,
           NEW d, d = [disk EXCEPT ![to] = disk[from], ![from] = Absent],
           NEW s, s = Migrated(stack, from, to)
    PROVE  Files(d, s) = Files(disk, stack) /\ Cardinality(Held(d)) = Cardinality(Held(disk))
<1>1. /\ d[to] = disk[from] /\ d[from] = Absent /\ \A p \in Path \ {from, to} : d[p] = disk[p]
      /\ s[to] = stack[from] /\ \A p \in Path \ {from, to} : s[p] = stack[p]
      BY DEF Migrated, Absent
<1>2. ASSUME NEW f \in Files(d, s)
      PROVE  f \in Files(disk, stack)
  <2>1. PICK p \in Path : d[p] # Absent /\ f = <<d[p], s[p]>>
        BY DEF Files
  <2>2. CASE p = to
        BY <1>1, <2>1, <2>2 DEF Files
  <2>3. CASE p # to
        BY <1>1, <2>1, <2>3 DEF Files
  <2> QED BY <2>2, <2>3
<1>3. ASSUME NEW f \in Files(disk, stack)
      PROVE  f \in Files(d, s)
  <2>1. PICK p \in Path : disk[p] # Absent /\ f = <<disk[p], stack[p]>>
        BY DEF Files
  <2>2. CASE p = from
        BY <1>1, <2>1, <2>2 DEF Files
  <2>3. CASE p # from
        BY <1>1, <2>1, <2>3 DEF Files
  <2> QED BY <2>2, <2>3
<1>4. Cardinality(Held(d)) = Cardinality(Held(disk))
  <2> DEFINE rest == Held(disk) \ {from}
  <2>1. IsFiniteSet(Held(disk))
        BY FS_Subset DEF Held
  <2>2. from \in Held(disk) /\ to \notin rest
        BY DEF Held
  <2>3. Held(d) = rest \cup {to}
        BY <1>1 DEF Held
  <2>4. IsFiniteSet(rest) /\ Cardinality(rest) = Cardinality(Held(disk)) - 1
        BY <2>1, <2>2, FS_RemoveElement
  <2>5. Cardinality(rest \cup {to}) = Cardinality(rest) + 1
        BY <2>2, <2>4, FS_AddElement
  <2>6. Cardinality(Held(disk)) \in Nat
        BY <2>1, FS_CardinalityType
  <2> HIDE DEF rest
  <2>7. Cardinality(rest) + 1 = Cardinality(Held(disk))
        BY ONLY <2>4, <2>6
  <2> QED BY ONLY <2>3, <2>5, <2>7
<1> QED BY <1>2, <1>3, <1>4

LEMMA MovesGo ==
    ASSUME HistInv, MovesHold, ~Resting, call.kind = "files", call.alone, OnlyMoves
    PROVE  /\ call \in AllCalls /\ call.pc \in {"op", "rename", "migrate"}
           /\ disk \in [Path -> Nat] /\ stack \in [Path -> Seq(Entries)]
           /\ call.pc \in {"op", "rename"} => AllThere(stack)
           /\ call.pc = "rename" => disk[Op.at] # Absent /\ disk[Op.to] = Absent
           /\ call.pc = "migrate" => AllThere(Migrated(stack, Op.at, Op.to))
           /\ call.i <= Len(call.ops) \/ call.pc # "op" => Op.at \in Path /\ Op.to \in Path
           /\ \A status : call' = Settled(status) => SameFound /\ call'.pc = "op"
           /\ \A pc : Goes(pc) => SameFound /\ call'.pc = pc /\ Op' = Op
<1>1. call \in AllCalls /\ disk \in [Path -> Nat] /\ stack \in [Path -> Seq(Entries)]
      BY DEF HistInv, Typed
<1>2. ASSUME NEW status, call' = Settled(status)
      PROVE  SameFound /\ call'.pc = "op"
  <2>1. call' = [call EXCEPT !.status = Append(@, status), !.i = @ + 1, !.pc = "op"]
        BY <1>2 DEF Settled
  <2> QED BY <1>1, <2>1 DEF AllCalls, SameFound
<1>3. ASSUME NEW pc, Goes(pc)
      PROVE  SameFound /\ call'.pc = pc /\ Op' = Op
      BY <1>1, <1>3 DEF Goes, AllCalls, SameFound, Op
<1> QED BY <1>1, <1>2, <1>3, AtWork DEF MovesHold

LEMMA MovesStep ==
    ASSUME PlansFit, IsFiniteSet(Path), HistInv, MovesHold, [Next]_vars
    PROVE  MovesHold' /\ [MovesKeepFiles]_vars
<1>1. CASE UNCHANGED <<disk, stack, call, made, dirty>>
  <2>1. MovesHold'
        BY <1>1, ZenonT(60) DEF MovesHold, AllThere, OnlyMoves, Held, Files, Migrated, Op, Resting
  <2>2. MovesKeepFiles
        BY <1>1 DEF MovesKeepFiles, JustEnded, At
  <2> QED BY <2>1, <2>2
<1>2. CASE ~call'.alone
      BY <1>2 DEF MovesHold, MovesKeepFiles, JustEnded
<1>3. CASE Resting \/ call.kind # "files"
  <2>1. MovesKeepFiles
        BY <1>3 DEF MovesKeepFiles, JustEnded, At, Resting, HistInv, Bounded
  <2>2. MovesHold'
    <3> SUFFICES ASSUME call'.kind = "files", call'.pc \notin {"idle", "ended"}, Next
                 PROVE  MovesHold'
        BY <1>1 DEF MovesHold, Resting, vars
    <3>1. PICK plan \in Plan : Open(plan)
          BY <1>3, KindBefore
    <3>2. call' = Opened(plan, plan.ops) /\ disk' = disk /\ stack' = stack
      <4>1. call' # [NoCall EXCEPT !.pc = "ended", !.told = "failed"]
            BY DEF NoCall
      <4> QED BY <3>1, <4>1 DEF Open
    <3>3. call'.pc = "op" /\ call'.disk = disk /\ call'.stack = stack
          BY <3>2 DEF Opened, NoCall
    <3> QED BY <3>2, <3>3 DEF MovesHold, AllThere, Files, Held
  <2> QED BY <2>1, <2>2
<1>4. CASE ~Resting /\ call.kind = "files" /\ call'.alone /\ Next
  <2>1. call \in AllCalls
        BY DEF HistInv, Typed
  <2>2. CASE Crash
    <3>1. call'.pc = "idle"
          BY <2>2 DEF Crash, NoCall
    <3> QED BY <3>1 DEF MovesHold, Resting, MovesKeepFiles, JustEnded
  <2>3. CASE \E p \in Path : Foreign(p)
        BY <1>4, <2>1, <2>3 DEF Foreign, AllCalls
  <2>4. CASE \E p \in Path : Observe(p)
        BY <1>1, <2>4 DEF Observe
  <2>5. ~Answered /\ ~\E plan \in Plan : Open(plan) \/ UndoLast(plan)
        BY <1>4 DEF Answered, Open, UndoLast, At, Resting
  <2>6. CASE Runs
    <3>1. call.alone /\ call'.ops = call.ops
          BY <1>4, <2>1, <2>6, AloneStays
    <3>2. CASE ~OnlyMoves
          BY <3>1, <3>2 DEF MovesHold, MovesKeepFiles, OnlyMoves
    <3>3. CASE OnlyMoves
      <4>1. /\ call.pc \in {"op", "rename", "migrate"}
            /\ disk \in [Path -> Nat] /\ stack \in [Path -> Seq(Entries)]
            /\ call.pc \in {"op", "rename"} => AllThere(stack)
            /\ call.pc = "rename" => disk[Op.at] # Absent /\ disk[Op.to] = Absent
            /\ call.pc = "migrate" => AllThere(Migrated(stack, Op.at, Op.to))
            /\ call.i <= Len(call.ops) \/ call.pc # "op" => Op.at \in Path /\ Op.to \in Path
            /\ \A status : call' = Settled(status) => SameFound /\ call'.pc = "op"
            /\ \A pc : Goes(pc) => SameFound /\ call'.pc = pc /\ Op' = Op
            BY <1>4, <3>1, <3>3, MovesGo
      <4>2. call.pc = "op" /\ call.i <= Len(call.ops) => Op.op = "move"
            BY <1>4, <3>3, AtWork DEF OnlyMoves, Op
      <4>3. ASSUME SameFound, call'.pc = "op", AllThere(stack)'
            PROVE  MovesHold' /\ MovesKeepFiles
            BY <4>3 DEF MovesHold, MovesKeepFiles, JustEnded
      <4>4. ASSUME SameFound, UNCHANGED <<disk, stack>>, AllThere(stack)
            PROVE  AllThere(stack)'
            BY <4>4 DEF AllThere, Files, Held, SameFound
      <4>5. CASE Move
        <5>1. AllThere(stack) /\ UNCHANGED <<disk, stack>>
              BY <4>1, <4>5 DEF Move, InOp, At
        <5>2. CASE disk[Op.at] # Absent /\ disk[Op.to] = Absent /\ Goes("rename")
          <6>1. SameFound /\ call'.pc = "rename" /\ Op' = Op
                BY <4>1, <5>2
          <6>2. AllThere(stack)'
                BY <4>4, <5>1, <6>1
          <6> QED BY <5>1, <5>2, <6>1, <6>2 DEF MovesHold, MovesKeepFiles, JustEnded
        <5>3. CASE call' = Settled("failed")
              BY <4>1, <4>3, <4>4, <5>1, <5>3
        <5> QED BY <4>5, <5>2, <5>3 DEF Move
      <4>6. CASE Rename
        <5>1. /\ disk[Op.at] # Absent /\ disk[Op.to] = Absent /\ Op.at \in Path /\ Op.to \in Path
              /\ disk' = [disk EXCEPT ![Op.to] = disk[Op.at], ![Op.at] = Absent] /\ stack' = stack
              /\ Goes("migrate") /\ AllThere(stack)
              BY <4>1, <4>6 DEF Rename, At
        <5>2. SameFound /\ call'.pc = "migrate" /\ Op' = Op
              BY <4>1, <5>1
        <5>3. /\ Files(disk', Migrated(stack, Op.at, Op.to)) = Files(disk, stack)
              /\ Cardinality(Held(disk')) = Cardinality(Held(disk)) /\ Op.at # Op.to
              BY <4>1, <5>1, Moving
        <5>4. AllThere(Migrated(stack, Op.at, Op.to))'
              BY <5>1, <5>2, <5>3, ZenonT(60) DEF AllThere, SameFound, Files, Held, Migrated
        <5>5. disk'[Op.at] = Absent /\ disk'[Op.to] # Absent
              BY <4>1, <5>1, <5>3
        <5> QED BY <5>2, <5>4, <5>5 DEF MovesHold, MovesKeepFiles, JustEnded
      <4>7. CASE Migrate
        <5>1. /\ stack' = Migrated(stack, Op.at, Op.to) /\ disk' = disk
              /\ call' = Settled("completed") /\ AllThere(Migrated(stack, Op.at, Op.to))
              BY <1>4, <4>1, <4>7 DEF Migrate, At
        <5>2. SameFound /\ call'.pc = "op"
              BY <4>1, <5>1
        <5>3. AllThere(stack)'
              BY <5>1, <5>2 DEF AllThere, SameFound, Files, Held
        <5> QED BY <4>3, <5>2, <5>3
      <4>8. CASE ProbeLate
        <5>1. /\ call' = [call EXCEPT !.text[call.i] = disk[Op.at]] /\ call.pc = "op"
              /\ UNCHANGED <<disk, stack>> /\ AllThere(stack)
              BY <4>1, <4>8 DEF ProbeLate, InOp, At
        <5>2. SameFound /\ call'.pc = "op"
              BY <2>1, <5>1 DEF AllCalls, SameFound
        <5> QED BY <4>3, <4>4, <5>1, <5>2
      <4>9. CASE Finish
        <5>1. AllThere(stack) /\ UNCHANGED <<disk, stack>>
              BY <4>1, <4>9 DEF Finish, At
        <5>2. call'.pc = "ended"
              BY <2>1, <4>9 DEF Finish, Ends, AllCalls
        <5>3. Files(disk', stack') = Files(call.disk, call.stack)
              /\ Cardinality({p \in Path : disk'[p] # Absent})
                 = Cardinality({p \in Path : call.disk[p] # Absent})
              BY <5>1 DEF AllThere, Files, Held
        <5> QED BY <5>2, <5>3 DEF MovesHold, MovesKeepFiles, Resting
      <4>10. /\ ~StartCommit /\ ~Push /\ ~Write /\ ~PutBack /\ ~Unput /\ ~Pop
             /\ ~Unlink /\ ~Purge /\ ~Revert /\ ~Consume
             BY <1>4, <4>1 DEF StartCommit, Push, Write, PutBack, Unput, Pop, Unlink, Purge, Revert,
                Consume, At
      <4>11. ~Add /\ ~Delete
             BY <4>2 DEF Add, Delete, InOp, At
      <4> QED BY <2>6, <4>5, <4>6, <4>7, <4>8, <4>9, <4>10, <4>11 DEF Runs
    <3> QED BY <3>2, <3>3
  <2> QED BY <1>4, <2>2, <2>3, <2>4, <2>5, <2>6 DEF Next
<1> QED BY <1>1, <1>2, <1>3, <1>4 DEF vars

\* rename moves files and makes none: with nothing else at its files, every text and its
\* history is still there when it ends, in whatever order the pairs came and whichever failed.
THEOREM RenamesKeepFiles ==
    ASSUME PlansFit, IsFiniteSet(Path)
    PROVE  Spec => [][MovesKeepFiles]_vars
<1> DEFINE MovesInv == HistInv /\ MovesHold
<1>1. Init => MovesInv
  <2>1. Init => MovesHold
        BY DEF Init, NoCall, MovesHold, Resting
  <2> QED BY <2>1, HistInit
<1>2. MovesInv /\ [Next]_vars => MovesInv'
      BY HistStep, MovesStep
<1>3. MovesInv /\ [Next]_vars => [MovesKeepFiles]_vars
      BY MovesStep
<1> QED BY <1>1, <1>2, <1>3, PTL DEF Spec

-----------------------------------------------------------------------------
(* The texts there have been, and what the write guard has seen of them.   *)

Stamps == [before : 1..made, result : 1..made]
Fresh ==
    /\ disk \in [Path -> 0..made] /\ seen \in [Path -> 0..made]
    /\ stack \in [Path -> Seq(Stamps)]
    /\ ~Resting => \A n \in DOMAIN call.ops :
          /\ call.text[n] \in 0..made /\ call.result[n] \in 1..made
          /\ call.kind \in {"edit", "patch"} /\ call.ops[n].op # "add" => call.text[n] # Absent
          /\ <<call.kind, call.ops[n].op>> \in Uses
    /\ call.pc \in Commit => Op.op # "add" \/ call.kind # "patch"
\* A file whose text is the one seen last has one the call knows.
SeenHolds ==
    ~Resting /\ Guarded /\ call.kind # "files" =>
        \A n \in DOMAIN call.ops :
            call.ops[n].op # "move" /\ disk[call.ops[n].at] = seen[call.ops[n].at]
                => disk[call.ops[n].at] \in Known
GuardInv == HistInv /\ Fresh /\ SeenHolds

\* What a step of a call leaves in the files, the observations and the histories.
Dated == /\ disk' \in [Path -> 0..made] /\ seen' \in [Path -> 0..made]
         /\ stack' \in [Path -> Seq(Stamps)] /\ made' = made
\* Where a step of a call leaves a text the call did not know.
Framed == \A p \in Path : \/ disk'[p] = disk[p] /\ seen'[p] = seen[p]
                          \/ disk'[p] \in Known
                          \/ call.i \in DOMAIN call.ops /\ Op.op = "move" /\ p \in {Op.at, Op.to}
\* A step writes nothing the call had not a right to.
Rightly == \A p \in Path : disk'[p] # disk[p] /\ seen'[p] # seen[p] =>
              \/ call.kind = "patch" /\ Op.op = "move"
              \/ disk[p] \in Known
Goodly == Dated /\ Framed /\ Rightly

\* A step of a call keeps its kind, operations and results, and its texts, unless it probes one.
LEMMA PlanStays ==
    ASSUME call \in AllCalls, Runs
    PROVE  /\ call'.kind = call.kind /\ call'.ops = call.ops /\ call'.result = call.result
           /\ call'.text = call.text \/ ProbeLate
<1> DEFINE Same(c) == /\ c.kind = call.kind /\ c.ops = call.ops /\ c.result = call.result
                      /\ c.text = call.text
<1>1. \A status : Same(Settled(status))
  <2> TAKE status
  <2>1. Same([call EXCEPT !.status = Append(@, status), !.i = @ + 1, !.pc = "op"])
        BY DEF AllCalls
  <2>2. Same([[call EXCEPT !.status = Append(@, status), !.i = @ + 1, !.pc = "op"]
                EXCEPT !.pc = "ended", !.told = "failed"])
        BY DEF AllCalls
  <2> QED BY <2>1, <2>2 DEF Settled
<1>2. /\ \A pc : Goes(pc) => Same(call')
      /\ \A told : Ends(told) => Same(call')
      /\ \A lo, hi : Begin(lo, hi) => Same(call')
      BY DEF Goes, Ends, Begin, AllCalls
<1>3. \A k : Same([call EXCEPT !.k = k])
      BY DEF AllCalls
<1> HIDE DEF Same
<1> SUFFICES Same(call') \/ (ProbeLate /\ call'.kind = call.kind /\ call'.ops = call.ops
                              /\ call'.result = call.result)
    BY DEF Same
<1>4. CASE StartCommit \/ Unlink \/ Revert \/ Consume \/ Finish
      BY <1>2, <1>4 DEF StartCommit, Unlink, Revert, Consume, Finish
<1>5. CASE Delete \/ Purge \/ Move \/ Rename \/ Migrate
      BY <1>1, <1>2, <1>5 DEF Delete, Purge, Move, Rename, Migrate
<1>6. CASE Add
  <2>1. Same([call EXCEPT !.pc = "purge"])
        BY DEF AllCalls, Same
  <2> QED BY <1>1, <1>6, <2>1 DEF Add
<1>7. CASE Push
  <2>1. Same([call EXCEPT !.pc = "write", !.k = call.lo])
        /\ Same([call EXCEPT !.pc = "pop", !.hi = call.k - 1, !.k = call.lo])
        BY DEF AllCalls, Same
  <2> QED BY <1>3, <1>7, <2>1 DEF Push
<1>8. CASE Unput
  <2>1. call' = [call EXCEPT !.k = NextOne(@), !.pc = IF NextOne(call.k) < call.i THEN "put" ELSE "pop"]
        BY <1>8 DEF Unput
  <2> QED BY <2>1 DEF AllCalls, Same
<1>9. CASE PutBack
  <2>1. Same([call EXCEPT !.pc = "unput", !.alone = FALSE])
        BY DEF AllCalls, Same
  <2> QED BY <1>2, <1>9, <2>1 DEF PutBack
<1>10. CASE Pop
      BY <1>1, <1>3, <1>10 DEF Pop
<1>11. CASE Write
  <2> DEFINE lost == [call EXCEPT !.pc = IF call.k > call.lo THEN "put" ELSE "pop", !.i = call.k,
                                  !.k = call.lo]
  <2>1. Same(lost) /\ Same([lost EXCEPT !.alone = FALSE]) /\ Same([call EXCEPT !.pc = "ended", !.told = "ok"])
        BY DEF AllCalls, Same
  <2>2. Same(Committed)
        BY <1>1, <2>1 DEF Committed
  <2> HIDE DEF lost
  <2>3. \/ call' = [call EXCEPT !.k = @ + 1] \/ call' = Committed
        \/ call' = lost \/ call' = [lost EXCEPT !.alone = FALSE]
        BY <1>11 DEF Write, lost
  <2> QED BY <1>3, <2>1, <2>2, <2>3
<1>12. CASE ProbeLate
  <2>1. call' = [call EXCEPT !.text[call.i] = disk[Op.at]]
        BY <1>12 DEF ProbeLate
  <2> QED BY <1>12, <2>1 DEF AllCalls
<1> QED BY <1>4, <1>5, <1>6, <1>7, <1>8, <1>9, <1>10, <1>11, <1>12 DEF Runs

LEMMA KnownTexts ==
    ASSUME HistInv, ~Resting, NEW n \in DOMAIN call.ops
    PROVE  call.text[n] \in Known /\ call.result[n] \in Known
<1>1. /\ call.text \in Seq(Nat) /\ call.result \in Seq(Nat) /\ call.ops \in Seq(Ops)
      /\ Len(call.text) = Len(call.ops) /\ Len(call.result) = Len(call.ops)
      BY DEF HistInv, Typed, AllCalls, Sequences, Bounded
<1>2. n \in DOMAIN call.text /\ n \in DOMAIN call.result
      BY <1>1
<1> QED BY <1>2 DEF Known, ToSet

\* Entries of known texts, pushed and popped.
LEMMA Stamped ==
    ASSUME NEW S, NEW s \in Seq(S), NEW e \in S
    PROVE  Pruned(Append(s, e)) \in Seq(S) /\ Popped(s) \in Seq(S)
<1>1. Pruned(Append(s, e)) \in Seq(S)
  <2>1. Append(s, e) \in Seq(S) /\ Append(s, e) # <<>>
        BY AppendProperties
  <2>2. Tail(Append(s, e)) \in Seq(S)
        BY <2>1, HeadTailProperties
  <2> QED BY <2>1, <2>2 DEF Pruned
<1>2. Popped(s) \in Seq(S)
  <2>1. CASE s = <<>>
        BY <2>1 DEF Popped
  <2>2. CASE s # <<>>
    <3>1. Front(s) \in Seq(S)
      <4>1. \A i \in 1..Len(s) - 1 : s[i] \in S
            OBVIOUS
      <4>2. Len(s) - 1 \in Int /\ 1 \in Int
            OBVIOUS
      <4>3. SubSeq(s, 1, Len(s) - 1) \in Seq(S)
            BY ONLY <4>1, <4>2, SubSeqProperties
      <4> QED BY <4>3 DEF Front
    <3> QED BY <2>2, <3>1 DEF Popped
  <2> QED BY <2>1, <2>2
<1> QED BY <1>1, <1>2

\* A write of one of the call's texts where the guard accepts it.
LEMMA LandsWell ==
    ASSUME GuardInv, ~Resting, NEW n \in DOMAIN call.ops, NEW p \in Path, p = Where(n), call.kind # "files",
           call.ops[n].op = "move" => call.kind = "patch" /\ Op.op = "move",
           Accepted(p), NEW t \in {call.text[n], call.result[n]}, Lands(p, t),
           stack' = stack, made' = made
    PROVE  Goodly
<1>1. /\ disk \in [Path -> 0..made] /\ seen \in [Path -> 0..made] /\ stack \in [Path -> Seq(Stamps)]
      /\ t \in 0..made /\ t \in Known /\ made \in Nat
  <2>1. /\ disk \in [Path -> 0..made] /\ seen \in [Path -> 0..made] /\ stack \in [Path -> Seq(Stamps)]
        /\ call.text[n] \in 0..made /\ call.result[n] \in 1..made
        BY DEF GuardInv, Fresh
  <2>2. made \in Nat /\ HistInv
        BY DEF GuardInv, HistInv, Typed
  <2>3. call.text[n] \in Known /\ call.result[n] \in Known
        BY <2>2, KnownTexts
  <2> QED BY <2>1, <2>2, <2>3
<1>2. disk' = [disk EXCEPT ![p] = t] /\ seen' = (IF Guarded THEN [seen EXCEPT ![p] = t] ELSE seen)
      BY DEF Lands, Sees
<1>3. Dated
      BY <1>1, <1>2 DEF Dated
<1>4. Framed
      BY <1>1, <1>2 DEF Framed
<1>5. Rightly
  <2> SUFFICES ASSUME NEW q \in Path, disk'[q] # disk[q], seen'[q] # seen[q],
                      ~(call.kind = "patch" /\ Op.op = "move")
               PROVE  disk[q] \in Known
      BY DEF Rightly
  <2>1. q = p /\ Guarded
        BY <1>1, <1>2
  <2>2. p = call.ops[n].at /\ call.ops[n].op # "move"
        BY DEF Where
  <2>3. disk[p] = seen[p] \/ disk[p] = Absent
        BY <2>1 DEF Accepted
  <2> QED BY <2>1, <2>2, <2>3 DEF GuardInv, SeenHolds, Known
<1> QED BY <1>3, <1>4, <1>5 DEF Goodly

\* A step that writes no file and sees none.
LEMMA StaysWell ==
    ASSUME GuardInv, disk' = disk, seen' = seen, stack' \in [Path -> Seq(Stamps)], made' = made
    PROVE  Goodly
BY DEF GuardInv, Fresh, Goodly, Dated, Framed, Rightly

LEMMA CommitWell ==
    ASSUME GuardInv, Push \/ Write \/ PutBack \/ Unput \/ Pop
    PROVE  Goodly
<1>1. call.pc \in Commit
      BY DEF Push, Write, PutBack, Unput, Pop, At, Commit
<1>2. /\ HistInv /\ call.kind \in {"edit", "patch"} /\ ~Resting /\ DOMAIN call.ops = 1..Len(call.ops)
      /\ call.lo \in Nat /\ call.k \in Nat /\ call.hi \in Nat /\ 1 <= call.lo /\ call.lo <= call.k
      /\ call.hi <= Len(call.ops) /\ Len(call.ops) \in Nat
      /\ call.k <= call.hi \/ call.pc = "pop"
      /\ call.i \in Nat /\ call.lo <= call.hi + 1
      BY <1>1, CommitFacts DEF GuardInv
<1>3. /\ disk \in [Path -> 0..made] /\ seen \in [Path -> 0..made] /\ stack \in [Path -> Seq(Stamps)]
      BY DEF GuardInv, Fresh
<1>4. ASSUME call.k <= call.hi
      PROVE  /\ call.k \in DOMAIN call.ops /\ Where(call.k) \in Path
             /\ call.ops[call.k].op = "move" => call.kind = "patch" /\ Op.op = "move"
             /\ call.ops[call.k].op # "add" /\ Entry(call.k) \in Stamps
  <2>1. call.k \in DOMAIN call.ops
        BY <1>2, <1>4
  <2>2. Where(call.k) \in Path
        BY <1>2, <2>1, Placed DEF HistInv
  <2>3. call.ops[call.k].op # "add" => Entry(call.k) \in Stamps
    <3>1. /\ call.text[call.k] \in 0..made /\ call.result[call.k] \in 1..made
          /\ call.ops[call.k].op # "add" => call.text[call.k] # Absent
          BY <1>2, <2>1 DEF GuardInv, Fresh
    <3>2. made \in Nat
          BY DEF GuardInv, HistInv, Typed
    <3> QED BY <3>1, <3>2 DEF Entry, Stamps, Absent
  <2>4. CASE call.kind = "edit"
    <3>1. call.ops[call.k].op = "update"
          BY <1>2, <2>1, <2>4 DEF HistInv, Bounded
    <3> QED BY <2>1, <2>2, <2>4, <2>3, <3>1
  <2>5. CASE call.kind = "patch"
    <3>1. call.lo = call.i /\ call.hi <= call.i
          BY <1>1, <1>2, <2>5 DEF HistInv, Bounded
    <3>2. call.k = call.i
          BY <1>2, <1>4, <3>1
    <3>3. Op.op # "add"
          BY <1>1, <2>5 DEF GuardInv, Fresh
    <3>4. call.ops[call.k] = Op
          BY <3>2 DEF Op
    <3> QED BY <2>1, <2>2, <2>5, <2>3, <3>3, <3>4
  <2> QED BY <1>2, <2>4, <2>5
<1>5. CASE Push
  <2>1. call.k <= call.hi /\ disk' = disk /\ seen' = seen /\ made' = made
        BY <1>2, <1>5 DEF Push, At
  <2>2. Pruned(Append(stack[Where(call.k)], Entry(call.k))) \in Seq(Stamps)
        BY <1>3, <1>4, <2>1, Stamped
  <2>3. stack' = [stack EXCEPT ![Where(call.k)] = Pruned(Append(@, Entry(call.k)))] \/ stack' = stack
        BY <1>5 DEF Push
  <2> QED BY <1>3, <2>1, <2>2, <2>3, StaysWell
<1>6. CASE Unput \/ (Pop /\ stack' # stack)
  <2>1. disk' = disk /\ seen' = seen /\ made' = made
        /\ stack' = [stack EXCEPT ![Where(call.k)] = Popped(@)]
        BY <1>6 DEF Unput, Pop
  <2>2. call.k <= call.hi
        BY <1>2, <1>6 DEF Unput, Pop, At, Unwritten
  <2>3. Popped(stack[Where(call.k)]) \in Seq(Stamps)
        BY <1>3, <1>4, <2>2, Stamped
  <2> QED BY <1>3, <2>1, <2>3, StaysWell
<1>7. CASE Pop /\ stack' = stack
      BY <1>3, <1>7, StaysWell DEF Pop
<1>8. CASE Write \/ PutBack
  <2>1. call.k <= call.hi /\ stack' = stack /\ made' = made
        BY <1>2, <1>8 DEF Write, PutBack, At
  <2>2. \/ disk' = disk /\ seen' = seen
        \/ \E t \in {call.text[call.k], call.result[call.k]} :
              Accepted(Where(call.k)) /\ Lands(Where(call.k), t)
        BY <1>8 DEF Write, PutBack
  <2>3. CASE disk' = disk /\ seen' = seen
        BY <1>3, <2>1, <2>3, StaysWell
  <2>4. CASE \E t \in {call.text[call.k], call.result[call.k]} :
                Accepted(Where(call.k)) /\ Lands(Where(call.k), t)
        BY <1>2, <1>4, <2>1, <2>4, LandsWell
  <2> QED BY <2>2, <2>3, <2>4
<1> QED BY <1>5, <1>6, <1>7, <1>8

LEMMA OpsWell ==
    ASSUME GuardInv, Add \/ Delete \/ Unlink \/ Purge \/ Move \/ Rename \/ Migrate
    PROVE  Goodly
<1>1. /\ ~Resting /\ call.pc \notin Commit /\ call.i \in DOMAIN call.ops
      /\ Op.at \in Path /\ Op.to \in Path
  <2>1. \A op : InOp(op) => /\ ~Resting /\ call.pc \notin Commit /\ call.i \in DOMAIN call.ops
                            /\ Op.at \in Path /\ Op.to \in Path
        BY InOpFacts DEF GuardInv
  <2>2. call.pc \in {"unlink", "purge", "rename", "migrate"} =>
           /\ ~Resting /\ call.pc \notin Commit /\ call.i \in DOMAIN call.ops
           /\ Op.at \in Path /\ Op.to \in Path
        BY MidwayFacts DEF GuardInv
  <2> QED BY <2>1, <2>2 DEF Add, Delete, Unlink, Purge, Move, Rename, Migrate, At
<1>2. /\ disk \in [Path -> 0..made] /\ seen \in [Path -> 0..made] /\ stack \in [Path -> Seq(Stamps)]
      /\ <<call.kind, Op.op>> \in Uses
      BY <1>1 DEF GuardInv, Fresh, Op
<1>3. made \in Nat /\ <<>> \in Seq(Stamps)
      BY DEF GuardInv, HistInv, Typed
<1>4. CASE Add
  <2>1. stack' = stack /\ made' = made /\ Op.op \in {"add", "write"}
        BY <1>4 DEF Add, InOp
  <2>2. call.kind # "files" /\ Where(call.i) = Op.at /\ call.ops[call.i].op # "move"
        BY <1>2, <2>1 DEF Uses, Where, Op
  <2>3. CASE Accepted(Op.at) /\ Lands(Op.at, call.result[call.i])
        BY <1>1, <2>1, <2>2, <2>3, LandsWell
  <2>4. CASE disk' = disk /\ seen' = seen
        BY <1>2, <2>1, <2>4, StaysWell
  <2> QED BY <1>4, <2>3, <2>4 DEF Add
<1>5. CASE Delete \/ Move
      BY <1>2, <1>5, StaysWell DEF Delete, Move
<1>6. CASE Unlink
  <2>1. disk' = [disk EXCEPT ![Op.at] = Absent] /\ UNCHANGED <<stack, seen, made>>
        BY <1>6 DEF Unlink
  <2>2. Dated
        BY <1>1, <1>2, <1>3, <2>1 DEF Dated, Absent
  <2>3. Framed /\ Rightly
        BY <1>1, <1>2, <2>1 DEF Framed, Rightly, Known
  <2> QED BY <2>2, <2>3 DEF Goodly
<1>7. CASE Purge
  <2>1. /\ disk' = disk /\ stack' = [stack EXCEPT ![Op.at] = <<>>] /\ made' = made
        /\ seen' = (IF Guarded THEN [seen EXCEPT ![Op.at] = IF disk[Op.at] = Absent THEN Absent ELSE @]
                    ELSE seen)
        BY <1>7 DEF Purge, NoHistory, Sees
  <2>2. Dated
        BY <1>1, <1>2, <1>3, <2>1 DEF Dated, Absent
  <2>3. Framed /\ Rightly
        BY <1>1, <1>2, <2>1 DEF Framed, Rightly, Known
  <2> QED BY <2>2, <2>3 DEF Goodly
<1>8. CASE Rename
  <2>1. Op.op = "move" /\ UNCHANGED <<stack, seen, made>>
        BY <1>8 DEF Rename, At, GuardInv, HistInv, PlaceHolds
  <2>2. disk' = disk \/ disk' = [disk EXCEPT ![Op.to] = disk[Op.at], ![Op.at] = Absent]
        BY <1>8 DEF Rename
  <2>3. Dated
    <3>1. CASE disk' = disk
          BY <1>2, <2>1, <3>1 DEF Dated
    <3>2. CASE disk' = [disk EXCEPT ![Op.to] = disk[Op.at], ![Op.at] = Absent]
      <4>1. disk[Op.at] \in 0..made /\ Absent \in 0..made
            BY <1>1, <1>2, <1>3 DEF Absent
      <4>2. disk' \in [Path -> 0..made]
            BY <1>2, <3>2, <4>1
      <4> QED BY <1>2, <2>1, <4>2 DEF Dated
    <3> QED BY <2>2, <3>1, <3>2
  <2>4. Framed /\ Rightly
        BY <1>1, <1>2, <2>1, <2>2 DEF Framed, Rightly
  <2> QED BY <2>3, <2>4 DEF Goodly
<1>9. CASE Migrate
  <2>1. /\ Op.op = "move" /\ disk' = disk /\ made' = made
        /\ stack' = [stack EXCEPT ![Op.to] = stack[Op.at], ![Op.at] = <<>>]
        /\ seen' = (IF Guarded THEN [seen EXCEPT ![Op.at] = IF disk[Op.at] = Absent THEN Absent ELSE @,
                                                 ![Op.to] = disk[Op.to]]
                    ELSE seen)
        BY <1>9 DEF Migrate, Migrated, Sees, At, GuardInv, HistInv, PlaceHolds
  <2>2. Dated
        BY <1>1, <1>2, <1>3, <2>1 DEF Dated, Absent
  <2>3. Framed /\ Rightly
        BY <1>1, <1>2, <2>1 DEF Framed, Rightly
  <2> QED BY <2>2, <2>3 DEF Goodly
<1> QED BY <1>4, <1>5, <1>6, <1>7, <1>8, <1>9

LEMMA RunsWell ==
    ASSUME GuardInv, Runs
    PROVE  Goodly
<1>1. stack \in [Path -> Seq(Stamps)]
      BY DEF GuardInv, Fresh
<1>2. CASE StartCommit \/ ProbeLate \/ Finish
      BY <1>1, <1>2, StaysWell DEF StartCommit, ProbeLate, Finish
<1>3. CASE Revert
  <2>1. /\ stack' = stack /\ made' = made /\ ~Resting /\ call.kind = "undo" /\ call.i = 1
        /\ call.i \in DOMAIN call.ops /\ Op.at \in Path
        BY <1>3, AtWork DEF Revert, At, GuardInv, HistInv, PlaceHolds, Resting
  <2>2. <<call.kind, Op.op>> \in Uses
        BY <2>1 DEF GuardInv, Fresh, Op
  <2>3. Where(call.i) = Op.at /\ call.ops[call.i].op # "move"
        BY <2>1, <2>2 DEF Uses, Where, Op
  <2>4. CASE Accepted(Op.at) /\ Lands(Op.at, call.result[1])
        BY <2>1, <2>3, <2>4, LandsWell
  <2>5. CASE disk' = disk /\ seen' = seen
        BY <1>1, <2>1, <2>5, StaysWell
  <2> QED BY <1>3, <2>4, <2>5 DEF Revert
<1>4. CASE Consume
  <2>1. Popped(stack[Op.at]) \in Seq(Stamps)
    <3>1. Op.at \in Path /\ stack[Op.at] # <<>>
          BY <1>4, AtWork DEF Consume, At, GuardInv, HistInv, PlaceHolds, Resting
    <3>2. stack[Op.at] \in Seq(Stamps) /\ stack[Op.at][1] \in Stamps
          BY <1>1, <3>1
    <3> QED BY <3>2, Stamped
  <2> QED BY <1>1, <1>4, <2>1, StaysWell DEF Consume
<1> QED BY <1>2, <1>3, <1>4, CommitWell, OpsWell DEF Runs

\* What a commit's next place follows from.
LEMMA ToCommit ==
    ASSUME HistInv, Runs, call.kind = "patch", call'.pc \in Commit
    PROVE  Op' = Op /\ (call.pc \in Commit \/ (StartCommit /\ Op.op = "update") \/ (Migrate /\ Op.op = "move"))
<1>1. call \in AllCalls
      BY DEF HistInv, Typed
<1>2. \A status \in {"completed", "failed", "unknown"} : call' # Settled(status)
  <2> SUFFICES ASSUME NEW status \in {"completed", "failed", "unknown"}, call' = Settled(status)
               PROVE  FALSE
      OBVIOUS
  <2>1. call'.pc \in {"op", "ended"}
        BY <1>1, SettledFacts
  <2> QED BY <2>1 DEF Commit
<1>3. \A pc : Goes(pc) => pc \in Commit
  <2> SUFFICES ASSUME NEW pc, Goes(pc)
               PROVE  pc \in Commit
      OBVIOUS
  <2>1. call'.pc = pc
        BY <1>1 DEF Goes, AllCalls
  <2> QED BY <2>1
<1>4. \A told : ~Ends(told)
      BY <1>1 DEF Ends, AllCalls, Commit
<1>5. ~Delete /\ ~Unlink /\ ~Purge /\ ~Move /\ ~Rename /\ ~Revert /\ ~Consume /\ ~Finish
      BY <1>2, <1>3, <1>4 DEF Delete, Unlink, Purge, Move, Rename, Revert, Consume, Finish, Commit
<1>6. ~Add /\ ~ProbeLate
  <2>1. call' # [call EXCEPT !.pc = "purge"]
        BY <1>1 DEF AllCalls, Commit
  <2>2. call.pc = "op" => call' # [call EXCEPT !.text[call.i] = disk[Op.at]]
        BY <1>1 DEF AllCalls, Commit
  <2> QED BY <1>2, <2>1, <2>2 DEF Add, ProbeLate, InOp, At
<1>7. CASE StartCommit \/ Migrate
  <2>1. Begin(call.i, call.i)
        BY <1>2, <1>7 DEF StartCommit, Migrate
  <2>2. call'.i = call.i /\ call'.ops = call.ops
        BY <1>1, <2>1 DEF Begin, AllCalls
  <2>3. (StartCommit => Op.op = "update") /\ (Migrate => Op.op = "move")
        BY DEF StartCommit, Migrate, At, HistInv, PlaceHolds
  <2> QED BY <1>7, <2>2, <2>3 DEF Op
<1>8. CASE Push \/ Write \/ PutBack \/ Unput \/ Pop
  <2>1. call.pc \in Commit
        BY <1>8 DEF Push, Write, PutBack, Unput, Pop, At, Commit
  <2>2. call.i \in Nat /\ call.lo = call.i /\ call.hi <= call.i /\ call.k \in Nat /\ call.hi \in Nat
        /\ call.lo <= call.k /\ (call.pc # "pop" => call.k = call.i)
        BY <2>1, CommitFacts DEF HistInv, Bounded
  <2>3. call'.i = call.i
    <3>1. CASE Write
      <4> DEFINE lost == [call EXCEPT !.pc = IF call.k > call.lo THEN "put" ELSE "pop", !.i = call.k,
                                      !.k = call.lo]
      <4>1. call.k = call.i
            BY <2>2, <3>1 DEF Write, At
      <4>2. lost.i = call.i /\ [lost EXCEPT !.alone = FALSE].i = call.i /\ [call EXCEPT !.k = @ + 1].i = call.i
            BY <1>1, <4>1 DEF AllCalls
      <4>3. call' # Committed
            BY <1>2 DEF Committed
      <4> HIDE DEF lost
      <4>4. \/ call' = [call EXCEPT !.k = @ + 1] \/ call' = Committed
            \/ call' = lost \/ call' = [lost EXCEPT !.alone = FALSE]
            BY <3>1 DEF Write, lost
      <4> QED BY <4>2, <4>3, <4>4
    <3>2. CASE Push
          BY <1>1, <3>2 DEF Push, AllCalls
    <3>3. CASE PutBack \/ Unput
          BY <1>1, <3>3 DEF PutBack, Unput, Goes, AllCalls
    <3>4. CASE Pop
          BY <1>1, <1>2, <3>4 DEF Pop, AllCalls
    <3> QED BY <1>8, <3>1, <3>2, <3>3, <3>4
  <2> QED BY <1>1, <2>1, <2>3, PlanStays DEF Op
<1> QED BY <1>5, <1>6, <1>7, <1>8 DEF Runs

LEMMA RunsFresh ==
    ASSUME GuardInv, HistInv', Runs
    PROVE  GuardInv'
<1>1. Goodly /\ call \in AllCalls
      BY RunsWell DEF GuardInv, HistInv, Typed
<1>2. ~Resting
      BY DEF Runs, Resting, StartCommit, Push, Write, PutBack, Unput, Pop, Add, Delete, Unlink,
         Purge, ProbeLate, Move, Rename, Migrate, Revert, Consume, Finish, InOp, At
<1>3. /\ call'.kind = call.kind /\ call'.ops = call.ops /\ call'.result = call.result
      /\ call'.text = call.text \/ ProbeLate
      BY <1>1, PlanStays
<1>4. /\ disk' \in [Path -> 0..made'] /\ seen' \in [Path -> 0..made'] /\ stack' \in [Path -> Seq(Stamps')]
      /\ made' = made /\ made \in Nat /\ disk \in [Path -> 0..made]
      BY <1>1 DEF Goodly, Dated, Stamps, GuardInv, Fresh, HistInv, Typed
<1>5. \A n \in DOMAIN call.ops :
         /\ call.text[n] \in 0..made /\ call.result[n] \in 1..made
         /\ call.kind \in {"edit", "patch"} /\ call.ops[n].op # "add" => call.text[n] # Absent
         /\ <<call.kind, call.ops[n].op>> \in Uses
      BY <1>2 DEF GuardInv, Fresh
<1>6. ASSUME ProbeLate
      PROVE  /\ call.text \in Seq(Nat) /\ call.i \in DOMAIN call.text /\ call.text[call.i] = Absent
             /\ DOMAIN call.text = DOMAIN call.ops
             /\ call'.text = [call.text EXCEPT ![call.i] = disk[Op.at]]
             /\ disk[Op.at] \in 0..made /\ disk[Op.at] # Absent
  <2>1. /\ call.text[call.i] = Absent /\ disk[Op.at] # Absent /\ InOp("move")
        /\ call' = [call EXCEPT !.text[call.i] = disk[Op.at]]
        BY <1>6 DEF ProbeLate
  <2>2. call.i \in DOMAIN call.ops /\ Op.at \in Path
        BY <2>1, InOpFacts DEF GuardInv
  <2>3. call.text \in Seq(Nat) /\ call.i \in DOMAIN call.text /\ DOMAIN call.text = DOMAIN call.ops
    <3>1. call.text \in Seq(Nat) /\ call.ops \in Seq(Ops) /\ Len(call.text) = Len(call.ops)
          BY <1>2 DEF GuardInv, HistInv, Typed, AllCalls, Sequences, Bounded
    <3> QED BY <2>2, <3>1
  <2>4. call'.text = [call.text EXCEPT ![call.i] = disk[Op.at]]
        BY <1>1, <2>1 DEF AllCalls
  <2> QED BY <1>4, <2>1, <2>2, <2>3, <2>4
<1>7. ASSUME NEW n \in DOMAIN call.ops
      PROVE  /\ call'.text[n] \in 0..made
             /\ call.text[n] # Absent => call'.text[n] # Absent
  <2>1. CASE call'.text = call.text
        BY <1>5, <2>1
  <2>2. CASE ProbeLate
    <3>1. CASE n = call.i
          BY <1>6, <2>2, <3>1
    <3>2. CASE n # call.i
      <4>1. call'.text[n] = call.text[n]
            BY <1>6, <2>2, <3>2
      <4> QED BY <1>5, <4>1
    <3> QED BY <3>1, <3>2
  <2> QED BY <1>3, <2>1, <2>2
<1>8. call'.pc \in Commit => Op'.op # "add" \/ call'.kind # "patch"
      BY <1>3, ToCommit DEF GuardInv, Fresh
<1>9. Fresh'
      BY <1>3, <1>4, <1>5, <1>7, <1>8 DEF Fresh
<1>10. \A t \in Known : t \in Known'
  <2>1. CASE call'.text = call.text
        BY <1>3, <2>1 DEF Known
  <2>2. CASE ProbeLate
    <3>1. ASSUME NEW t \in ToSet(call.text), t # Absent
          PROVE  t \in ToSet(call'.text)
      <4>1. PICK n \in DOMAIN call.text : t = call.text[n]
            BY <3>1 DEF ToSet
      <4> QED BY <1>6, <2>2, <3>1, <4>1 DEF ToSet
    <3> QED BY <1>3, <3>1 DEF Known
  <2> QED BY <1>3, <2>1, <2>2
<1>11. SeenHolds'
  <2> SUFFICES ASSUME Guarded, call.kind # "files", NEW n \in DOMAIN call.ops,
                      call.ops[n].op # "move", disk'[call.ops[n].at] = seen'[call.ops[n].at]
               PROVE  disk'[call.ops[n].at] \in Known'
      BY <1>3 DEF SeenHolds
  <2> DEFINE p == call.ops[n].at
  <2>1. p \in Path
        BY Placed DEF GuardInv, HistInv
  <2>2. CASE disk'[p] = disk[p] /\ seen'[p] = seen[p]
        BY <1>2, <1>10, <2>2 DEF GuardInv, SeenHolds
  <2>3. CASE disk'[p] \in Known
        BY <1>10, <2>3
  <2>4. CASE call.i \in DOMAIN call.ops /\ Op.op = "move" /\ p \in {Op.at, Op.to}
    <3>1. call.i \in DOMAIN call.ops
          BY <2>4
    <3>2. <<call.kind, Op.op>> \in Uses
          BY <1>5, <3>1 DEF Op
    <3>3. call.kind = "patch"
          BY <2>4, <3>2 DEF Uses
    <3>4. Distinct(call.ops) /\ n # call.i
          BY <1>2, <2>4, <3>3 DEF GuardInv, HistInv, Bounded, Op
    <3> QED BY <2>4, <3>1, <3>4, Apart DEF Op
  <2> QED BY <1>1, <2>1, <2>2, <2>3, <2>4 DEF Goodly, Framed
<1> QED BY <1>9, <1>11 DEF GuardInv

LEMMA SeqOfMore ==
    ASSUME NEW S, NEW T, S \subseteq T, NEW s \in Seq(S)
    PROVE  s \in Seq(T)
<1>1. s \in [1..Len(s) -> T] /\ Len(s) \in Nat
      OBVIOUS
<1> QED BY ONLY <1>1

\* The texts there have been only grow in number.
LEMMA StampsGrow ==
    ASSUME Fresh, made \in Nat, made' \in Nat, made' >= made
    PROVE  /\ stack \in [Path -> Seq(Stamps')] /\ seen \in [Path -> 0..made']
           /\ disk \in [Path -> 0..made'] /\ 0..made \subseteq 0..made' /\ 1..made \subseteq 1..made'
<1>1. 0..made \subseteq 0..made' /\ 1..made \subseteq 1..made'
      OBVIOUS
<1>2. Stamps \subseteq Stamps'
      BY <1>1 DEF Stamps
<1>3. \A p \in Path : stack[p] \in Seq(Stamps')
      BY <1>2, SeqOfMore DEF Fresh
<1> QED BY <1>1, <1>3 DEF Fresh

LEMMA OpenFresh ==
    ASSUME PlansFit, GuardInv, HistInv', NEW plan \in Plan, Open(plan)
    PROVE  GuardInv'
<1> DEFINE ops == plan.ops
           text == [n \in DOMAIN ops |-> disk[ops[n].at]]
           result == [n \in DOMAIN ops |-> made + n]
<1>1. /\ disk' = disk /\ stack' = stack /\ seen' = seen /\ made' = made + Len(ops)
      BY DEF Open
<1>2. /\ ops \in Seq(Ops) /\ DOMAIN ops = 1..Len(ops) /\ Len(ops) \in Nat
  <2>1. plan \in [kind : {"edit", "undo", "patch", "files", "write"}, ops : Seq(Ops)]
        BY DEF PlansFit
  <2> QED BY <2>1
<1>3. made \in Nat /\ made' \in Nat /\ made' >= made
      BY <1>1, <1>2 DEF GuardInv, HistInv, Typed
<1>4. stack' \in [Path -> Seq(Stamps')] /\ seen' \in [Path -> 0..made'] /\ disk' \in [Path -> 0..made']
      /\ disk \in [Path -> 0..made']
      BY <1>1, <1>3, StampsGrow DEF GuardInv
<1>5. CASE Resting'
  <2>1. call'.pc \notin Commit
        BY <1>5 DEF Resting, Commit
  <2> QED BY <1>4, <1>5, <2>1 DEF GuardInv, Fresh, SeenHolds
<1>6. CASE ~Resting'
  <2>1. /\ ~Refused(plan)
        /\ call' = [NoCall EXCEPT !.pc = "op", !.kind = plan.kind, !.ops = ops, !.i = 1, !.text = text,
                     !.result = result, !.disk = disk, !.stack = stack]
    <3>1. call' # [NoCall EXCEPT !.pc = "ended", !.told = "failed"]
          BY <1>6 DEF NoCall, Resting
    <3> QED BY <3>1 DEF Open, Opened
  <2>2. /\ call'.pc = "op" /\ call'.kind = plan.kind /\ call'.ops = ops
        /\ call'.text = text /\ call'.result = result
        BY <2>1 DEF NoCall
  <2>3. ASSUME NEW n \in DOMAIN ops
        PROVE  /\ text[n] \in 0..made' /\ result[n] \in 1..made' /\ text[n] = disk[ops[n].at]
               /\ plan.kind \in {"edit", "patch"} /\ ops[n].op # "add" => text[n] # Absent
               /\ <<plan.kind, ops[n].op>> \in Uses
    <3>1. ops[n].at \in Path /\ n \in 1..Len(ops)
      <4> HIDE DEF ops
      <4>1. n \in 1..Len(ops) /\ ops[n] \in Ops
            BY <1>2
      <4> QED BY <4>1 DEF Ops
    <3>2. text[n] = disk[ops[n].at] /\ result[n] = made + n
          OBVIOUS
    <3>3. plan.kind \in {"edit", "patch"} => Ready(ops[n])
          BY <2>1 DEF Refused
    <3>4. <<plan.kind, ops[n].op>> \in Uses
          BY DEF PlansFit
    <3> HIDE DEF text, result, ops
    <3>5. result[n] \in 1..made'
          BY <1>1, <1>2, <1>3, <3>1, <3>2 DEF ops
    <3> QED BY <1>4, <3>1, <3>2, <3>3, <3>4, <3>5 DEF Ready
  <2> HIDE DEF text, result, ops
  <2>4. Fresh'
        BY <1>4, <2>2, <2>3 DEF Fresh, Commit
  <2>5. SeenHolds'
    <3> SUFFICES ASSUME NEW n \in DOMAIN ops
                 PROVE  disk'[ops[n].at] \in Known'
        BY <2>2 DEF SeenHolds
    <3>1. DOMAIN text = DOMAIN ops
          BY DEF text
    <3>2. text[n] \in ToSet(text)
          BY <3>1 DEF ToSet
    <3> QED BY <1>1, <2>2, <2>3, <3>2 DEF Known
  <2> QED BY <2>4, <2>5 DEF GuardInv
<1> QED BY <1>5, <1>6

LEMMA UndoLastFresh ==
    ASSUME PlansFit, GuardInv, HistInv', NEW plan \in Plan, UndoLast(plan)
    PROVE  GuardInv'
<1> DEFINE p == plan.ops[1].at
<1>1. /\ plan.kind = "undo" /\ disk' = disk /\ seen' = seen /\ made' = made
      /\ disk \in [Path -> 0..made] /\ seen \in [Path -> 0..made] /\ stack \in [Path -> Seq(Stamps)]
      /\ Stamps' = Stamps
      BY DEF UndoLast, GuardInv, Fresh, Stamps
<1>2. plan.ops \in Seq(Ops) /\ Len(plan.ops) = 1 /\ p \in Path /\ DOMAIN plan.ops = {1}
  <2>1. plan \in [kind : {"edit", "undo", "patch", "files", "write"}, ops : Seq(Ops)]
        /\ Len(plan.ops) = 1
        BY <1>1 DEF PlansFit
  <2>2. plan.ops \in Seq(Ops) /\ plan.ops[1] \in Ops /\ DOMAIN plan.ops = 1..1
        BY <2>1
  <2> QED BY <2>1, <2>2 DEF Ops
<1>3. stack' \in [Path -> Seq(Stamps)]
  <2>1. <<>> \in Seq(Stamps)
        OBVIOUS
  <2>2. stack' = stack \/ stack' = [stack EXCEPT ![p] = <<>>]
        BY DEF UndoLast, NoHistory
  <2> QED BY <1>1, <2>1, <2>2
<1>4. CASE Resting'
  <2>1. call'.pc \notin Commit
        BY <1>4 DEF Resting, Commit
  <2> QED BY <1>1, <1>3, <1>4, <2>1 DEF GuardInv, Fresh, SeenHolds
<1>5. CASE ~Resting'
  <2> DEFINE here == [Opened(plan, plan.ops) EXCEPT !.text = <<disk[p]>>]
  <2>1. stack[p] # <<>> /\ call' = [here EXCEPT !.pc = "revert", !.result = <<Last(stack[p]).before>>]
    <3>1. [here EXCEPT !.pc = "ended", !.told = "empty"].pc = "ended"
          /\ [here EXCEPT !.pc = "ended", !.told = "stale"].pc = "ended"
          BY DEF Opened, NoCall
    <3> HIDE DEF here
    <3>2. \/ call' = [here EXCEPT !.pc = "ended", !.told = "empty"]
          \/ call' = [here EXCEPT !.pc = "ended", !.told = "stale"]
          \/ stack[p] # <<>> /\ call' = [here EXCEPT !.pc = "revert", !.result = <<Last(stack[p]).before>>]
          BY DEF UndoLast, here
    <3> QED BY <1>5, <3>1, <3>2 DEF Resting
  <2>2. /\ call'.pc = "revert" /\ call'.kind = "undo" /\ call'.ops = plan.ops
        /\ call'.text = <<disk[p]>> /\ call'.result = <<Last(stack[p]).before>>
        BY <1>1, <2>1 DEF Opened, NoCall
  <2>3. Last(stack[p]).before \in 1..made
    <3>1. stack[p] \in Seq(Stamps) /\ stack[p] # <<>>
          BY <1>1, <1>2, <2>1
    <3>2. Last(stack[p]) \in Stamps
          BY <3>1 DEF Last
    <3> QED BY <3>2 DEF Stamps
  <2>4. call'.text[1] = disk[p] /\ call'.result[1] = Last(stack[p]).before /\ disk[p] \in 0..made
        BY <1>1, <1>2, <2>2
  <2>5. <<"undo", plan.ops[1].op>> \in Uses
        BY <1>1, <1>2 DEF PlansFit
  <2>6. Fresh'
        BY <1>1, <1>2, <1>3, <2>2, <2>3, <2>4, <2>5 DEF Fresh, Commit
  <2>7. disk'[p] \in Known'
    <3>1. disk[p] \in ToSet(<<disk[p]>>)
          BY DEF ToSet
    <3> QED BY <1>1, <2>2, <3>1 DEF Known
  <2>8. SeenHolds'
        BY <1>2, <2>2, <2>7 DEF SeenHolds
  <2> QED BY <2>6, <2>8 DEF GuardInv
<1> QED BY <1>4, <1>5

LEMMA ForeignFresh ==
    ASSUME GuardInv, HistInv', NEW p \in Path, Foreign(p)
    PROVE  GuardInv'
<1>1. /\ stack' = stack /\ seen' = seen /\ made' = made + 1
      /\ call' = [call EXCEPT !.alone = FALSE] /\ call \in AllCalls /\ made \in Nat
      BY DEF Foreign, GuardInv, HistInv, Typed
<1>2. PICK t \in {Absent, made + 1} : disk' = [disk EXCEPT ![p] = t]
      BY DEF Foreign
<1>3. /\ call'.pc = call.pc /\ call'.kind = call.kind /\ call'.ops = call.ops /\ call'.i = call.i
      /\ call'.text = call.text /\ call'.result = call.result
      BY <1>1 DEF AllCalls
<1>4. /\ stack' \in [Path -> Seq(Stamps')] /\ seen' \in [Path -> 0..made'] /\ disk \in [Path -> 0..made']
      /\ 0..made \subseteq 0..made' /\ 1..made \subseteq 1..made' /\ t \in 0..made'
      /\ seen \in [Path -> 0..made]
      BY <1>1, StampsGrow DEF GuardInv, Fresh, Absent
<1>5. disk' \in [Path -> 0..made']
      BY <1>2, <1>4
<1>6. Op' = Op
      BY <1>3 DEF Op
<1>7. ASSUME ~Resting, NEW n \in DOMAIN call.ops
      PROVE  /\ call.text[n] \in 0..made' /\ call.result[n] \in 1..made'
             /\ call.kind \in {"edit", "patch"} /\ call.ops[n].op # "add" => call.text[n] # Absent
             /\ <<call.kind, call.ops[n].op>> \in Uses
      BY <1>4, <1>7 DEF GuardInv, Fresh
<1>8. call.pc \in Commit => Op.op # "add" \/ call.kind # "patch"
      BY DEF GuardInv, Fresh
<1>9. Fresh'
      BY <1>3, <1>4, <1>5, <1>6, <1>7, <1>8 DEF Fresh, Resting
<1>10. SeenHolds'
  <2> SUFFICES ASSUME ~Resting, Guarded, call.kind # "files", NEW n \in DOMAIN call.ops,
                      call.ops[n].op # "move", disk'[call.ops[n].at] = seen[call.ops[n].at]
               PROVE  disk'[call.ops[n].at] \in Known'
      BY <1>1, <1>3 DEF SeenHolds, Resting
  <2>1. Known' = Known
        BY <1>3 DEF Known
  <2>2. CASE call.ops[n].at = p
    <3>1. disk'[p] = t /\ seen[p] \in 0..made
          BY <1>2, <1>4
    <3>2. t # made + 1
          BY <1>1, <2>2, <3>1
    <3> QED BY <2>1, <2>2, <3>1, <3>2 DEF Known
  <2>3. CASE call.ops[n].at # p
    <3>1. disk'[call.ops[n].at] = disk[call.ops[n].at]
          BY <1>2, <1>4, <2>3
    <3> QED BY <2>1, <3>1 DEF GuardInv, SeenHolds
  <2> QED BY <2>2, <2>3
<1> QED BY <1>9, <1>10 DEF GuardInv

LEMMA GuardStep ==
    ASSUME PlansFit, GuardInv, [Next]_vars
    PROVE  GuardInv'
<1>1. HistInv'
      BY HistStep DEF GuardInv
<1>2. /\ disk \in [Path -> 0..made] /\ seen \in [Path -> 0..made] /\ stack \in [Path -> Seq(Stamps)]
      /\ made \in Nat
      BY DEF GuardInv, Fresh, HistInv, Typed
<1>3. CASE UNCHANGED vars
  <2>1. Fresh' /\ SeenHolds'
        BY <1>3 DEF vars, GuardInv, Fresh, SeenHolds, Stamps, Known, Op, Resting
  <2> QED BY <1>1, <2>1 DEF GuardInv
<1>4. CASE Answered \/ Crash
  <2>1. /\ disk' = disk /\ stack' = stack /\ made' = made /\ call' = NoCall
        /\ seen' = seen \/ seen' = [p \in Path |-> Absent]
        BY <1>4 DEF Answered, Crash, Sees
  <2>2. seen' \in [Path -> 0..made]
        BY <1>2, <2>1 DEF Absent
  <2>3. call'.pc = "idle"
        BY <2>1 DEF NoCall
  <2> QED BY <1>1, <1>2, <2>1, <2>2, <2>3 DEF GuardInv, Fresh, SeenHolds, Resting, Commit, Stamps
<1>5. ASSUME NEW p \in Path, Observe(p)
      PROVE  GuardInv'
  <2>1. /\ UNCHANGED <<disk, stack, call, made>> /\ seen' = [seen EXCEPT ![p] = disk[p]] /\ call.pc = "idle"
        BY <1>5 DEF Observe, At
  <2>2. seen' \in [Path -> 0..made]
        BY <1>2, <2>1
  <2> QED BY <1>1, <1>2, <2>1, <2>2 DEF GuardInv, Fresh, SeenHolds, Resting, Commit, Stamps
<1> QED BY <1>1, <1>3, <1>4, <1>5, RunsFresh, OpenFresh, UndoLastFresh, ForeignFresh DEF Next

LEMMA GuardInit ==
    ASSUME PlansFit, Init
    PROVE  GuardInv
<1>1. HistInv
      BY HistInit
<1>2. /\ disk \in [Path -> 0..made] /\ seen \in [Path -> 0..made] /\ call = NoCall
      /\ stack = [p \in Path |-> <<>>]
      BY DEF Init, Absent
<1>3. stack \in [Path -> Seq(Stamps)]
  <2>1. <<>> \in Seq(Stamps)
        OBVIOUS
  <2> QED BY <1>2, <2>1
<1>4. call.pc = "idle"
      BY <1>2 DEF NoCall
<1> QED BY <1>1, <1>2, <1>3, <1>4 DEF GuardInv, Fresh, SeenHolds, Resting, Commit

\* Every text on the disk, seen or in a history is one there has been, and a history holds
\* texts and never the absence of a file.
THEOREM CallsTyped ==
    ASSUME PlansFit
    PROVE  Spec => []TypeOK
<1>1. GuardInv => TypeOK
  <2> SUFFICES ASSUME GuardInv
               PROVE  TypeOK
      OBVIOUS
  <2>1. disk \in [Path -> 0..made] /\ seen \in [Path -> 0..made] /\ dirty \in [Path -> BOOLEAN]
        BY DEF GuardInv, Fresh, HistInv, Typed
  <2>2. \A p \in Path : \A n \in DOMAIN stack[p] : stack[p][n] \in [before : 1..made, result : 1..made]
    <3>1. \A p \in Path : stack[p] \in Seq(Stamps)
          BY DEF GuardInv, Fresh
    <3>2. ASSUME NEW S, NEW s \in Seq(S), NEW n \in DOMAIN s
          PROVE  s[n] \in S
          OBVIOUS
    <3> QED BY <3>1, <3>2 DEF Stamps
  <2>3. call.pc \in Places /\ call.told \in Answers
        BY DEF GuardInv, HistInv, Typed, AllCalls
  <2> QED BY <2>1, <2>2, <2>3 DEF TypeOK, Places, Answers
<1>2. Init => GuardInv
      BY GuardInit
<1>3. GuardInv /\ [Next]_vars => GuardInv'
      BY GuardStep
<1> QED BY <1>1, <1>2, <1>3, PTL DEF Spec

\* With the write guard no call writes over what it did not read or write, whatever other
\* programs write between its awaits; a file the same patch has moved is the one exception.
THEOREM WritesOverItsRead ==
    ASSUME PlansFit
    PROVE  Spec => [][OverwritesItsRead]_vars
<1>1. Init => GuardInv
      BY GuardInit
<1>2. GuardInv /\ [Next]_vars => GuardInv'
      BY GuardStep
<1>3. GuardInv /\ [Next]_vars => [OverwritesItsRead]_vars
  <2> SUFFICES ASSUME GuardInv, Next
               PROVE  OverwritesItsRead
      OBVIOUS
  <2>1. CASE Runs
        BY <2>1, RunsWell DEF Goodly, Rightly, OverwritesItsRead
  <2>2. CASE ~Runs
        BY <2>2 DEF Next, Open, UndoLast, Answered, Crash, Observe, Foreign, OverwritesItsRead
  <2> QED BY <2>1, <2>2
<1> QED BY <1>1, <1>2, <1>3, PTL DEF Spec
=============================================================================
