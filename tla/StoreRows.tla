----------------------------- MODULE StoreRows -----------------------------
\* The rows of the store of src/src/domain/session/hash-store.ts: the undo stacks,
\* the served mirrors and the anchors of each path, the counts that triggers keep
\* of them (store-counts.ts), and the sweep that evicts whole paths when the store
\* is over its budget (store-budget.ts).  A sweep is a sequence of statements that
\* commit one by one, so a death cuts it anywhere.
EXTENDS Naturals, FiniteSets, Sequences, SequencesExt, FiniteSetsExt

CONSTANTS Path, Session, Line,
          LimitSet,         \* budgets the settings may publish: [bytes, paths, rows]
          UndoDepth,        \* UNDO_STACK_DEPTH
          UndoMax,          \* UNDO_MAX_PATH_BYTES, in layers
          SweepWrites,      \* HASH_STORE_SWEEP_WRITES
          EvictRatio,       \* HASH_STORE_EVICT_RATIO
          ServedTTL,        \* SERVED_TTL_MS
          AnchorTTL,        \* ANCHOR_STATE_TTL_MS
          Event,            \* which of "crash", "foreign", "corrupt", "publish", "served", "undo", "move"
          MaxNow, MaxWrites, MaxDepth   \* bounds: clock, counted writes, undo depths

VARIABLES db,           \* the rows and their two maintained counts
          limits,       \* what the settings published
          held,         \* the limits the open store was made with
          counter,      \* the budget's writeCounter
          job,          \* the statements left of the sweep, the prune or the heal under way
          up,           \* the store is open
          now

vars == <<db, limits, held, counter, job, up, now>>

Table == {"undo", "served", "meta", "lines"}
PathTable == {"undo", "served", "meta"}
Families == <<"undo", "served", "meta", "lines">>
Key == Session \cup Line \cup 0..MaxDepth

\* What the code and its settings give: a stack holds a layer at least, budgets are
\* numbers, a statement writes finitely many lines.
RowsFit ==
    /\ UndoDepth \in Nat \ {0} /\ MaxDepth \in Nat /\ MaxNow \in Nat \ {0} /\ MaxWrites \in Nat
    /\ LimitSet \subseteq [bytes : Nat, paths : Nat, rows : Nat]
    /\ IsFiniteSet(Line)

Of(rows, t, p) == {r \in rows : r.t = t /\ r.path = p}
Holds(rows, p) == \E t \in PathTable : Of(rows, t, p) # {}
Held(rows) == {p \in Path : Holds(rows, p)}

\* The triggers: one row of anchor_lines moves the row count, one row of another
\* table the path count, when no other row of the three has its path.
FirstOfPath(rows, r) == ~Holds(rows, r.path)

Insert(r, d) ==
    [rows |-> d.rows \cup {r},
     nLines |-> d.nLines + (IF r.t = "lines" THEN 1 ELSE 0),
     nPaths |-> d.nPaths + (IF r.t \in PathTable /\ FirstOfPath(d.rows, r) THEN 1 ELSE 0)]

Delete(r, d) ==
    [rows |-> d.rows \ {r},
     nLines |-> d.nLines - (IF r.t = "lines" THEN 1 ELSE 0),
     nPaths |-> d.nPaths - (IF r.t \in PathTable /\ FirstOfPath(d.rows \ {r}, r) THEN 1 ELSE 0)]

InsertAll(R, d) == FoldSet(Insert, d, R)
DeleteAll(R, d) == FoldSet(Delete, d, R)

\* ON CONFLICT DO UPDATE fires no trigger.
Upsert(r, d) ==
    LET old == {o \in Of(d.rows, r.t, r.path) : o.k = r.k} IN
    IF old = {} THEN Insert(r, d) ELSE [d EXCEPT !.rows = (@ \ old) \cup {r}]
UpsertAll(R, d) == FoldSet(Upsert, d, R)

Row(t, p, k) == [t |-> t, path |-> p, k |-> k, at |-> now]
Orphans(rows) == {r \in rows : r.t = "lines" /\ Of(rows, "meta", r.path) = {}}

NoJob == [pc |-> "none", pool |-> <<>>, victim |-> {}, fams |-> <<>>, dropped |-> 0, extra |-> 0]

Init ==
    /\ db = [rows |-> {}, nLines |-> 0, nPaths |-> 0]
    /\ limits \in LimitSet
    /\ held = limits
    /\ counter = 0
    /\ job = NoJob
    /\ up = TRUE
    /\ now = 1
-----------------------------------------------------------------------------
Over(d, l) == Cardinality(d.rows) > l.bytes \/ d.nPaths > l.paths \/ d.nLines > l.rows
OverEvict(d, l) ==
    \/ Cardinality(d.rows) >= l.bytes * EvictRatio
    \/ d.nPaths >= l.paths * EvictRatio
    \/ d.nLines >= l.rows * EvictRatio

\* pathRecency: the paths of the three families, the oldest first, ties in any order.
Recency(rows, p) == Max({r.at : r \in {x \in rows : x.path = p /\ x.t \in PathTable}})
OldestFirst(rows) ==
    {q \in SetToSeqs({[path |-> p, ts |-> Recency(rows, p)] : p \in Held(rows)}) :
        \A i, j \in DOMAIN q : i < j => q[i].ts <= q[j].ts}

Sweeps(d) == {[NoJob EXCEPT !.pc = "ttl", !.pool = q] : q \in OldestFirst(d.rows)}

AtRest == up /\ job.pc = "none"

Wrote(d, n) ==
    /\ counter + n <= MaxWrites
    /\ db' = d
    /\ counter' = counter + n
    /\ UNCHANGED <<limits, held, up, now>>

\* maybeSweepAfterWrite
SweepIfDue ==
    IF counter' % SweepWrites = 0 \/ Over(db', held)
    THEN job' \in Sweeps(db')
    ELSE UNCHANGED job

Top(rows, p) == Max({r.k : r \in Of(rows, "undo", p)} \cup {0})

\* Depths are an append counter; what is deeper than the stack's bound goes.
TooDeep(rows, p) == {r \in Of(rows, "undo", p) : r.k < Top(rows, p) - UndoDepth + 1}

PushUndo(p) ==
    /\ AtRest /\ "undo" \in Event /\ Top(db.rows, p) < MaxDepth
    /\ LET d == Insert(Row("undo", p, Top(db.rows, p) + 1), db) IN
        Wrote(DeleteAll(TooDeep(d.rows, p), d), 1)
    /\ SweepIfDue

PopUndo(p) ==
    /\ AtRest /\ "undo" \in Event /\ Of(db.rows, "undo", p) # {}
    /\ Wrote(DeleteAll({r \in Of(db.rows, "undo", p) : r.k = Top(db.rows, p)}, db), 0)
    /\ UNCHANGED job

\* deleteUndo, and getUndo's drop of a stack whose top is corrupt.
DeleteUndo(p) ==
    /\ AtRest /\ "undo" \in Event
    /\ Wrote(DeleteAll(Of(db.rows, "undo", p), db), 0)
    /\ UNCHANGED job

UpsertServed(s, p) ==
    /\ AtRest /\ "served" \in Event
    /\ Wrote(Upsert(Row("served", p, s), db), 1)
    /\ SweepIfDue

UpsertServedReported(s, p) ==
    /\ AtRest /\ "served" \in Event
    /\ Wrote(Upsert(Row("served", p, s), db), 0)
    /\ UNCHANGED job

\* deleteServed (which heals a corrupt row too), deleteServedByPath and wipeServed.
DropServed ==
    /\ AtRest /\ "served" \in Event
    /\ \E s \in Session, p \in Path :
        \E R \in {{r \in db.rows : r.t = "served" /\ r.k = s}, Of(db.rows, "served", p),
                  {r \in Of(db.rows, "served", p) : r.k = s}} :
            Wrote(DeleteAll(R, db), 0)
    /\ UNCHANGED job

\* persistAnchorState in its caller's transaction: the lines dropped, the lines
\* written, then the meta row; each counts as a write and none looks for a sweep.
WithAnchors(d, p, L, D) ==
    Upsert(Row("meta", p, 0),
           UpsertAll({Row("lines", p, l) : l \in L},
                     DeleteAll({r \in Of(d.rows, "lines", p) : r.k \in D}, d)))

PutAnchors(p, L, D) ==
    /\ AtRest /\ L \cap D = {}
    /\ Wrote(WithAnchors(db, p, L, D), Cardinality(D) + (IF L = {} THEN 0 ELSE 1) + 1)
    /\ UNCHANGED job

\* The same by another process, at any time.
ForeignPut(p, L) ==
    /\ "foreign" \in Event
    /\ db' = WithAnchors(db, p, L, {})
    /\ UNCHANGED <<limits, held, counter, job, up, now>>

\* The adapter's put: a healed set replaces the path's lines in one transaction.
PutHealed(p, L) ==
    /\ AtRest /\ "corrupt" \in Event /\ Of(db.rows, "meta", p) # {}
    /\ Wrote(UpsertAll({Row("lines", p, l) : l \in L},
                       DeleteAll(Of(db.rows, "lines", p), Upsert(Row("meta", p, 0), db))), 1)
    /\ UNCHANGED job

HealsMetaOnly == <<"meta">>
HealedFamilies == <<"meta", "lines">>

\* A corrupt line row: the path's meta row and then its lines go, two statements.
HealAnchors(p) ==
    /\ AtRest /\ "corrupt" \in Event /\ Of(db.rows, "lines", p) # {} /\ Of(db.rows, "meta", p) # {}
    /\ job' = [NoJob EXCEPT !.pc = "heal", !.victim = {p}, !.fams = HealedFamilies]
    /\ UNCHANGED <<db, limits, held, counter, up, now>>

Purged(p, d) == DeleteAll({r \in d.rows : r.path = p}, d)

PurgePath(p) ==
    /\ AtRest /\ "move" \in Event
    /\ Wrote(Purged(p, db), 0)
    /\ UNCHANGED job

\* Every family moves, after what the destination had left is purged.
Moved(p, q) ==
    LET here == {r \in db.rows : r.path = p} IN
    DeleteAll(here, InsertAll({[r EXCEPT !.path = q] : r \in here}, Purged(q, db)))

RenamePath(p, q) ==
    /\ AtRest /\ "move" \in Event /\ p # q
    /\ Wrote(Moved(p, q), 0)
    /\ UNCHANGED job
-----------------------------------------------------------------------------
Step(j, d) == job' = j /\ db' = d /\ UNCHANGED <<limits, held, counter, up, now>>

Victim(p) == [job EXCEPT !.victim = {p}, !.fams = Families, !.pool = Tail(@)]

FamiliesLeft == Tail(job.fams)

\* purgePathRows, one family at a time.
PurgeStep ==
    /\ up /\ job.fams # <<>>
    /\ LET R == UNION {Of(db.rows, Head(job.fams), p) : p \in job.victim}
           left == FamiliesLeft IN
        Step(IF left # <<>> THEN [job EXCEPT !.fams = left]
             ELSE IF job.pc = "heal" THEN NoJob
             ELSE [job EXCEPT !.fams = <<>>, !.victim = {}],
             DeleteAll(R, db))

At(pc) == up /\ job.pc = pc /\ job.fams = <<>>
Expired(ts, ttl) == ts + ttl < now

TtlStep ==
    /\ At("ttl")
    /\ IF job.pool # <<>> /\ Expired(Head(job.pool).ts, ServedTTL)
       THEN Step(Victim(Head(job.pool).path), db)
       ELSE Step([job EXCEPT !.pc = "slim"], db)

\* trimUndo: the oldest layers go until the path is under its cap, one always stays.
OverCap(rows, p) ==
    {r \in Of(rows, "undo", p) : Cardinality({o \in Of(rows, "undo", p) : o.k > r.k}) >= UndoMax}
Slimmed(rows, p) == {r \in OverCap(rows, p) : r.k # Top(rows, p)}

SlimStep ==
    /\ At("slim")
    /\ Step([job EXCEPT !.pc = "lru"],
            DeleteAll(UNION {Slimmed(db.rows, job.pool[i].path) : i \in DOMAIN job.pool}, db))

\* The oldest paths go until every metric is in range, then a tenth more.
Tenth(n) == (n + 9) \div 10
StillOver(d, l) == Over(d, l)

LruStep ==
    /\ At("lru")
    /\ IF job.pool # <<>> /\ StillOver(db, held)
       THEN Step([Victim(Head(job.pool).path) EXCEPT !.dropped = @ + 1], db)
       ELSE Step([job EXCEPT !.pc = "extra", !.extra = Tenth(job.dropped)], db)

ExtraStep ==
    /\ At("extra")
    /\ IF job.pool # <<>> /\ job.extra > 0
       THEN Step([Victim(Head(job.pool).path) EXCEPT !.extra = @ - 1], db)
       ELSE Step([job EXCEPT !.pc = "orphans"], db)

\* The orphans counted as rows all along; they go last.
OrphanStep == At("orphans") /\ Step(NoJob, DeleteAll(Orphans(db.rows), db))
-----------------------------------------------------------------------------
\* The process dies.
Crash ==
    /\ "crash" \in Event /\ up
    /\ up' = FALSE /\ job' = NoJob /\ counter' = 0
    /\ UNCHANGED <<db, limits, held, now>>

\* openStore: the budget is measured, the old rows of each family are pruned, then
\* a store far over its budget is swept.
Open ==
    /\ ~up
    /\ up' = TRUE /\ held' = limits
    /\ job' = [NoJob EXCEPT !.pc = "served", !.extra = IF OverEvict(db, limits) THEN 1 ELSE 0]
    /\ UNCHANGED <<db, limits, counter, now>>

OldRows(t, ttl) == {r \in db.rows : r.t = t /\ Expired(r.at, ttl)}

PruneStep ==
    \/ At("served") /\ Step([job EXCEPT !.pc = "meta"], DeleteAll(OldRows("served", ServedTTL), db))
    \/ At("meta") /\ Step([job EXCEPT !.pc = "lines"], DeleteAll(OldRows("meta", AnchorTTL), db))
    \/ /\ At("lines")
       /\ LET d == DeleteAll(OldRows("lines", AnchorTTL), db) IN
            \E j \in IF job.extra = 1 THEN Sweeps(d) ELSE {NoJob} : Step(j, d)

Publish ==
    /\ "publish" \in Event
    /\ limits' \in LimitSet \ {limits}
    /\ UNCHANGED <<db, held, counter, job, up, now>>

Tick == now < MaxNow /\ now' = now + 1 /\ UNCHANGED <<db, limits, held, counter, job, up>>

SweepNext == TtlStep \/ SlimStep \/ LruStep \/ ExtraStep \/ OrphanStep

Next ==
    \/ \E p \in Path : PushUndo(p) \/ PopUndo(p) \/ DeleteUndo(p) \/ HealAnchors(p) \/ PurgePath(p)
    \/ \E p \in Path, s \in Session : UpsertServed(s, p) \/ UpsertServedReported(s, p)
    \/ \E p \in Path, L \in SUBSET Line : ForeignPut(p, L) \/ PutHealed(p, L)
    \/ \E p \in Path, L, D \in SUBSET Line : PutAnchors(p, L, D)
    \/ \E p, q \in Path : RenamePath(p, q)
    \/ DropServed \/ PurgeStep \/ SweepNext \/ PruneStep \/ Crash \/ Open \/ Publish \/ Tick

\* A sweep is one synchronous call.
Spec == Init /\ [][Next]_vars /\ WF_vars(PurgeStep \/ SweepNext \/ PruneStep)
-----------------------------------------------------------------------------
\* The rows of the tables, one per primary key; the job names what it works on.
TypeOK ==
    /\ db.rows \subseteq [t : Table, path : Path, k : Key, at : 1..MaxNow]
    /\ \A r, o \in db.rows : r.t = o.t /\ r.path = o.path /\ r.k = o.k => r = o
    /\ limits \in LimitSet /\ held \in LimitSet
    /\ counter \in 0..MaxWrites
    /\ job.pc \in {"none", "ttl", "slim", "lru", "extra", "orphans", "heal", "served", "meta", "lines"}
    /\ job.victim \in SUBSET Path /\ up \in BOOLEAN /\ now \in 1..MaxNow

\* The maintained counts are what counting the tables would give, after every
\* statement, whichever path wrote it.
CountsExact ==
    /\ db.nLines = Cardinality({r \in db.rows : r.t = "lines"})
    /\ db.nPaths = Cardinality(Held(db.rows))

\* A path has no more undo layers than the stack holds.
UndoBounded == \A p \in Path : Cardinality(Of(db.rows, "undo", p)) <= UndoDepth

\* Line rows without their meta row exist only inside a sweep, a prune or a heal.
OrphansOnlyMidway == job.pc = "none" => Orphans(db.rows) = {}

\* A sweep ends with every metric in range, or with nothing left to evict.
SweepWithin ==
    job.pc = "orphans" /\ job'.pc = "none" /\ up' => ~Over(db', held) \/ Held(db'.rows) = {}

\* The sweep evicts a path only when no path it keeps is older.
EvictsOldest ==
    job.pc \in {"ttl", "lru", "extra"} /\ job'.victim # job.victim =>
       \A p \in job'.victim : \A q \in Held(db.rows) : Recency(db.rows, p) <= Recency(db.rows, q)

\* Slimming a path's stack leaves its newest layer.
NewestUndoStays ==
    job.pc = "slim" /\ job'.pc = "lru" =>
       \A p \in Path : Of(db.rows, "undo", p) # {} =>
           /\ Of(db'.rows, "undo", p) # {}
           /\ Top(db'.rows, p) = Top(db.rows, p)
=============================================================================
