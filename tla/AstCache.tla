------------------------------ MODULE AstCache ------------------------------
\* The tree cache of the parse worker: treeFor, parserFor and evictTo of
\* src/src/ast/worker.ts.  handleRequest is started for every message without
\* waiting for the one before it, so requests overlap whenever one of them waits
\* for a grammar; with its parser at hand a request runs in one piece.
\* Sizes are in nodes.
EXTENDS Naturals, FiniteSets, FiniteSetsExt

CONSTANTS Slot,      \* slots for requests that overlap
          Text,
          Lang,         \* Text -> language
          Nodes,        \* Text -> nodes of its tree (descendantCount)
          Estimate,     \* Text -> the worst-case estimate of admission
          ArenaUsable,       \* AST_ARENA_CEILING_BYTES - AST_ARENA_RESERVE_BYTES
          Budget,       \* AST_RETAIN_NODE_BUDGET
          RetainLimit,  \* AST_RETAIN_LIMIT_NODES
          MaxRequests   \* bound: requests in a behaviour

VARIABLES used,         \* cached text -> clock of its last use
          retained,     \* retainedNodes
          clock,
          parsers,      \* languages with a parser
          waiting,      \* per request, the text it waits to parse, or none
          asked         \* requests so far, for MaxRequests

vars == <<used, retained, clock, parsers, waiting, asked>>

None == "none"
Cached == DOMAIN used
NodesOf(S) == MapThenSumSet(LAMBDA x : Nodes[x], S)

Init ==
    /\ used = <<>>
    /\ retained = 0
    /\ clock = 0
    /\ parsers = {}
    /\ waiting = [r \in Slot |-> None]
    /\ asked = 0

\* The n least recently used entries.
Oldest(n) == CHOOSE S \in SUBSET Cached :
    Cardinality(S) = n /\ \A x \in S, y \in Cached \ S : used[x] < used[y]

\* evictTo: the entries that go, oldest first, until `wanted` fits; all of them
\* when it never does.
Evicted(wanted, budget) ==
    LET enough == {n \in 0..Cardinality(Cached) :
                      retained - NodesOf(Oldest(n)) + wanted <= budget} IN
    Oldest(IF enough = {} THEN Cardinality(Cached) ELSE Min(enough))

Kept(S) == used
Without(S) == [x \in Cached \ S |-> used[x]]

Oversized(x) == Estimate[x] > ArenaUsable

Unretainable(n) == n > RetainLimit
Uncacheable(kept, n) == Unretainable(n) \/ kept + n > Budget

Stamp == clock + 1

\* The parse and what follows it in one piece, over the entries of u.
Store(x, u, kept) ==
    IF Uncacheable(kept, Nodes[x])
    THEN /\ used' = u /\ retained' = kept /\ UNCHANGED clock
    ELSE /\ used' = [y \in DOMAIN u \cup {x} |-> IF y = x THEN Stamp ELSE u[y]]
         /\ retained' = kept + Nodes[x]
         /\ clock' = clock + 1

\* A request up to its first wait: refused, or admitted, which evicts first; then
\* answered from the cache, or parsed when its language has a parser.
Ask(r, x) ==
    /\ waiting[r] = None /\ asked < MaxRequests
    /\ ~Oversized(x)
    /\ asked' = asked + 1
    /\ LET gone == Evicted(Estimate[x], ArenaUsable)
           kept == retained - NodesOf(gone)
           u == Without(gone) IN
        \/ /\ x \in DOMAIN u
           /\ used' = [u EXCEPT ![x] = Stamp]
           /\ clock' = clock + 1
           /\ retained' = kept
           /\ UNCHANGED waiting
        \/ /\ x \notin DOMAIN u
           /\ Lang[x] \in parsers
           /\ Store(x, u, kept)
           /\ UNCHANGED waiting
        \/ /\ x \notin DOMAIN u
           /\ Lang[x] \notin parsers
           /\ waiting' = [waiting EXCEPT ![r] = x]
           /\ used' = u /\ retained' = kept
           /\ UNCHANGED clock
    /\ UNCHANGED parsers

\* Its grammar is loaded: parse and store, without a second look at the cache or
\* the arena.  Each waiting request loads the grammar for itself.
Loaded(r) ==
    /\ waiting[r] # None
    /\ Store(waiting[r], used, retained)
    /\ parsers' = parsers \cup {Lang[waiting[r]]}
    /\ waiting' = [waiting EXCEPT ![r] = None]
    /\ UNCHANGED asked

\* The grammar's file is missing or broken: the request fails, nothing is kept.
LoadFails(r) ==
    /\ waiting[r] # None
    /\ waiting' = [waiting EXCEPT ![r] = None]
    /\ UNCHANGED <<used, retained, clock, parsers, asked>>

Next == \E r \in Slot : Loaded(r) \/ LoadFails(r) \/ \E x \in Text : Ask(r, x)

Spec == Init /\ [][Next]_vars
-----------------------------------------------------------------------------
TypeOK ==
    /\ Cached \subseteq Text /\ \A x \in Cached : used[x] \in 1..clock
    /\ retained \in Nat
    /\ parsers \subseteq {Lang[x] : x \in Text}
    /\ \A r \in DOMAIN waiting : waiting[r] \in Text \cup {None}

\* "Total retained nodes across cached trees": whatever overlaps, the trees the
\* cache really holds fit the budget.
CachedFits == NodesOf(Cached) <= Budget

\* The worker's report of retained nodes, which the client's recycling rule and
\* every eviction work from, counts the trees that are cached and no other.
RetainedIsCached == retained = NodesOf(Cached)

\* "Admission runs FIRST and evicts for the incoming tree before it exists": when
\* a tree is built, its worst case and the retained trees fit the arena.
BuiltWithin ==
    \A x \in Text :
        (\/ \E r \in Slot : waiting[r] = x /\ waiting'[r] = None /\ parsers' # parsers
         \/ x \in DOMAIN used' \ Cached /\ waiting' = waiting)
        => NodesOf(Cached \cap DOMAIN used') + Estimate[x] <= ArenaUsable
=============================================================================
