-------------------------- MODULE StoreRows_proofs --------------------------
(***************************************************************************)
(* Theorems about StoreRows.                                               *)
(***************************************************************************)
EXTENDS StoreRows, FiniteSetTheorems, WellFoundedInduction, TLAPS

\* A non-empty set of naturals has a least element.
LEMMA LeastNat ==
    ASSUME NEW N \in SUBSET Nat, N # {}
    PROVE  \E n \in N : \A m \in N : n <= m
<1>1. PICK n \in N : \A m \in N : ~(<<m, n>> \in OpToRel(<, Nat))
      BY NatLessThanWellFounded, WFMin
<1>2. \A m \in N : m \in Nat /\ n \in Nat /\ ~(m < n)
      BY <1>1 DEF OpToRel
<1>3. \A m \in N : n <= m
      BY <1>2
<1> QED BY <1>3

\* What holds of the empty set, and of a set when it holds of the set without the
\* element a fold takes first, holds of every finite set.
Chosen(s) == CHOOSE x \in s : TRUE
Without(s) == s \ {Chosen(s)}

LEMMA SubsetInduct ==
    ASSUME NEW S, IsFiniteSet(S), NEW Good, {} \in Good,
           \A s \in SUBSET S : s # {} /\ Without(s) \in Good => s \in Good
    PROVE  \A s \in SUBSET S : s \in Good
<1> SUFFICES ASSUME \E s \in SUBSET S : s \notin Good
             PROVE  FALSE
    OBVIOUS
<1> DEFINE Bad == {s \in SUBSET S : s \notin Good}
<1>1. Bad \subseteq FiniteSubsetsOf(S) /\ Bad # {}
      BY FS_FiniteSubsetsOfFinite
<1>2. PICK s \in Bad : \A u \in Bad : ~(<<u, s>> \in StrictSubsetOrdering(S))
      <2> HIDE DEF Bad
      <2> QED BY <1>1, FS_StrictSubsetOrderingWellFounded, WFMin
<1>3. s \in SUBSET S /\ s \notin Good /\ s # {}
      OBVIOUS
<1>4. Chosen(s) \in s
      BY <1>3 DEF Chosen
<1>5. Without(s) \in SUBSET S /\ Without(s) # s /\ Without(s) \subseteq s
      BY <1>3, <1>4 DEF Without
<1>6. Without(s) \in Good
      BY <1>2, <1>3, <1>5 DEF StrictSubsetOrdering
<1> QED BY <1>3, <1>6

\* There is a function that folds F over the subsets of a finite set: of the
\* numbers n for which none folds over those of at most n elements, one is least.
Folds(g, D, base, F) ==
    g = [s \in D |-> IF s = {} THEN base ELSE F[<<Chosen(s), g[Without(s)]>>]]

LEMMA FoldExists ==
    ASSUME NEW S, IsFiniteSet(S), NEW base, NEW F
    PROVE  \E g : Folds(g, SUBSET S, base, F)
<1> DEFINE Upto(n) == {s \in SUBSET S : Cardinality(s) <= n}
           N == {n \in Nat : ~\E g : Folds(g, Upto(n), base, F)}
<1>0. \A s \in SUBSET S : Cardinality(s) \in Nat /\ IsFiniteSet(s)
      BY FS_Subset, FS_CardinalityType
<1>1. N = {}
      <2> SUFFICES ASSUME N # {} PROVE FALSE
          OBVIOUS
      <2>1. PICK n \in N : \A m \in N : n <= m
            BY LeastNat
      <2>2. n \in Nat /\ ~\E g : Folds(g, Upto(n), base, F)
            OBVIOUS
      <2>3. CASE n = 0
            <3>1. \A s \in Upto(0) : s = {}
                  BY <1>0, FS_EmptySet
            <3> DEFINE h == [s \in Upto(0) |-> base]
            <3>2. Folds(h, Upto(0), base, F)
                  BY <3>1 DEF Folds
            <3> QED BY <2>2, <2>3, <3>2
      <2>4. CASE n # 0
            <3>1. n - 1 \in Nat /\ n - 1 \notin N
                  <4> HIDE DEF N
                  <4> QED BY <2>1, <2>2, <2>4
            <3>2. PICK g : Folds(g, Upto(n - 1), base, F)
                  BY <3>1
            <3> DEFINE h == [s \in Upto(n) |-> IF s = {} THEN base
                                              ELSE F[<<Chosen(s), g[Without(s)]>>]]
            <3>3. \A s \in Upto(n) : s # {} => Without(s) \in Upto(n - 1)
                  <4> SUFFICES ASSUME NEW s \in Upto(n), s # {}
                               PROVE  Without(s) \in Upto(n - 1)
                      OBVIOUS
                  <4>1. Chosen(s) \in s /\ IsFiniteSet(s) /\ Cardinality(s) \in Nat
                        BY <1>0 DEF Chosen
                  <4>2. Cardinality(Without(s)) = Cardinality(s) - 1
                        BY <4>1, FS_RemoveElement DEF Without
                  <4>3. Without(s) \in SUBSET S
                        BY DEF Without
                  <4> QED BY <2>2, <4>1, <4>2, <4>3
            <3>4. Upto(n - 1) \subseteq Upto(n)
                  BY <1>0, <2>2
            <3>5. \A s \in Upto(n - 1) : h[s] = g[s]
                  <4> HIDE DEF Upto
                  <4> QED BY <3>2, <3>4 DEF Folds
            <3>6. Folds(h, Upto(n), base, F)
                  <4> HIDE DEF Upto
                  <4> QED BY <3>3, <3>5 DEF Folds
            <3> QED BY <2>2, <3>6
      <2> QED BY <2>3, <2>4
<1>2. Cardinality(S) \in Nat
      BY <1>0
<1>3. PICK g : Folds(g, Upto(Cardinality(S)), base, F)
      <2> HIDE DEF Upto
      <2> QED BY <1>1, <1>2
<1>4. Upto(Cardinality(S)) = SUBSET S
      BY FS_Subset
<1> QED BY <1>3, <1>4

\* The sets the rows and the store range over.
Rows == [t : Table, path : Path, k : Key, at : Nat]
Db == [rows : SUBSET Rows, nLines : Int, nPaths : Int]

LEMMA InsertTyped ==
    ASSUME NEW r \in Rows, NEW d \in Db
    PROVE  Insert(r, d) \in Db
BY DEF Insert, Db

LEMMA InsertFold ==
    ASSUME NEW R \in SUBSET Rows, IsFiniteSet(R), NEW d \in Db
    PROVE  \E g \in [SUBSET R -> Db] :
              /\ InsertAll(R, d) = g[R]
              /\ g[{}] = d
              /\ \A s \in SUBSET R : s # {} => g[s] = Insert(Chosen(s), g[Without(s)])
<1> DEFINE F == [x \in R \X Db |-> Insert(x[1], x[2])]
           Recurs(g) == g = [s \in SUBSET R |-> IF s = {} THEN d
                                                ELSE Insert(Chosen(s), g[Without(s)])]
<1>0. \A s \in SUBSET R : s # {} => Chosen(s) \in R /\ Without(s) \in SUBSET R
      BY DEF Chosen, Without
<1>1. \A g : Recurs(g) => g \in [SUBSET R -> Db]
      <2> SUFFICES ASSUME NEW g, Recurs(g)
                   PROVE  g \in [SUBSET R -> Db]
          OBVIOUS
      <2> DEFINE Good == {s \in SUBSET R : g[s] \in Db}
      <2>1. {} \in Good
            OBVIOUS
      <2>2. ASSUME NEW s \in SUBSET R, s # {}, Without(s) \in Good
            PROVE  s \in Good
            <3>1. g[s] = Insert(Chosen(s), g[Without(s)])
                  BY <2>2
            <3> QED BY <1>0, <2>2, <3>1, InsertTyped
      <2> HIDE DEF Good
      <2>3. \A s \in SUBSET R : s \in Good
            BY <2>1, <2>2, SubsetInduct
      <2> QED BY <2>3 DEF Good
<1>2. \E g : Recurs(g)
      <2>1. PICK g : Folds(g, SUBSET R, d, F)
            <3> HIDE DEF F
            <3> QED BY FoldExists
      <2>2. g = [s \in SUBSET R |-> IF s = {} THEN d ELSE F[<<Chosen(s), g[Without(s)]>>]]
            <3> HIDE DEF F
            <3> QED BY <2>1 DEF Folds
      <2> DEFINE Good == {s \in SUBSET R : g[s] \in Db}
      <2>3. {} \in Good
            <3> HIDE DEF F
            <3> QED BY <2>2
      <2>4. ASSUME NEW s \in SUBSET R, s # {}, Without(s) \in Good
            PROVE  s \in Good
            <3>1. g[s] = F[<<Chosen(s), g[Without(s)]>>]
                  <4> HIDE DEF F
                  <4> QED BY <2>2, <2>4
            <3>2. Chosen(s) \in R /\ g[Without(s)] \in Db
                  BY <1>0, <2>4
            <3>3. g[s] = Insert(Chosen(s), g[Without(s)])
                  BY <3>1, <3>2
            <3> QED BY <3>2, <3>3, InsertTyped
      <2>5. \A s \in SUBSET R : s \in Good
            <3> HIDE DEF Good
            <3> QED BY <2>3, <2>4, SubsetInduct
      <2>6. \A s \in SUBSET R : s # {} =>
                F[<<Chosen(s), g[Without(s)]>>] = Insert(Chosen(s), g[Without(s)])
            BY <1>0, <2>5
      <2>7. Recurs(g)
            <3> HIDE DEF F
            <3> QED BY <2>2, <2>6
      <2> QED BY <2>7
<1> DEFINE iter == CHOOSE g : Recurs(g)
<1>3. Recurs(iter)
      BY <1>2
<1>4. InsertAll(R, d) = iter[R]
      BY Zenon DEF InsertAll, FoldSet, MapThenFoldSet, Chosen, Without
<1> HIDE DEF iter
<1> QED BY <1>1, <1>3, <1>4

LEMMA DeleteTyped ==
    ASSUME NEW r \in Rows, NEW d \in Db
    PROVE  Delete(r, d) \in Db
BY DEF Delete, Db

LEMMA DeleteFold ==
    ASSUME NEW R \in SUBSET Rows, IsFiniteSet(R), NEW d \in Db
    PROVE  \E g \in [SUBSET R -> Db] :
              /\ DeleteAll(R, d) = g[R]
              /\ g[{}] = d
              /\ \A s \in SUBSET R : s # {} => g[s] = Delete(Chosen(s), g[Without(s)])
<1> DEFINE F == [x \in R \X Db |-> Delete(x[1], x[2])]
           Recurs(g) == g = [s \in SUBSET R |-> IF s = {} THEN d
                                                ELSE Delete(Chosen(s), g[Without(s)])]
<1>0. \A s \in SUBSET R : s # {} => Chosen(s) \in R /\ Without(s) \in SUBSET R
      BY DEF Chosen, Without
<1>1. \A g : Recurs(g) => g \in [SUBSET R -> Db]
      <2> SUFFICES ASSUME NEW g, Recurs(g)
                   PROVE  g \in [SUBSET R -> Db]
          OBVIOUS
      <2> DEFINE Good == {s \in SUBSET R : g[s] \in Db}
      <2>1. {} \in Good
            OBVIOUS
      <2>2. ASSUME NEW s \in SUBSET R, s # {}, Without(s) \in Good
            PROVE  s \in Good
            <3>1. g[s] = Delete(Chosen(s), g[Without(s)])
                  BY <2>2
            <3> QED BY <1>0, <2>2, <3>1, DeleteTyped
      <2> HIDE DEF Good
      <2>3. \A s \in SUBSET R : s \in Good
            BY <2>1, <2>2, SubsetInduct
      <2> QED BY <2>3 DEF Good
<1>2. \E g : Recurs(g)
      <2>1. PICK g : Folds(g, SUBSET R, d, F)
            <3> HIDE DEF F
            <3> QED BY FoldExists
      <2>2. g = [s \in SUBSET R |-> IF s = {} THEN d ELSE F[<<Chosen(s), g[Without(s)]>>]]
            <3> HIDE DEF F
            <3> QED BY <2>1 DEF Folds
      <2> DEFINE Good == {s \in SUBSET R : g[s] \in Db}
      <2>3. {} \in Good
            <3> HIDE DEF F
            <3> QED BY <2>2
      <2>4. ASSUME NEW s \in SUBSET R, s # {}, Without(s) \in Good
            PROVE  s \in Good
            <3>1. g[s] = F[<<Chosen(s), g[Without(s)]>>]
                  <4> HIDE DEF F
                  <4> QED BY <2>2, <2>4
            <3>2. Chosen(s) \in R /\ g[Without(s)] \in Db
                  BY <1>0, <2>4
            <3>3. g[s] = Delete(Chosen(s), g[Without(s)])
                  BY <3>1, <3>2
            <3> QED BY <3>2, <3>3, DeleteTyped
      <2>5. \A s \in SUBSET R : s \in Good
            <3> HIDE DEF Good
            <3> QED BY <2>3, <2>4, SubsetInduct
      <2>6. \A s \in SUBSET R : s # {} =>
                F[<<Chosen(s), g[Without(s)]>>] = Delete(Chosen(s), g[Without(s)])
            BY <1>0, <2>5
      <2>7. Recurs(g)
            <3> HIDE DEF F
            <3> QED BY <2>2, <2>6
      <2> QED BY <2>7
<1> DEFINE iter == CHOOSE g : Recurs(g)
<1>3. Recurs(iter)
      BY <1>2
<1>4. DeleteAll(R, d) = iter[R]
      BY Zenon DEF DeleteAll, FoldSet, MapThenFoldSet, Chosen, Without
<1> HIDE DEF iter
<1> QED BY <1>1, <1>3, <1>4

LEMMA UpsertTyped ==
    ASSUME NEW r \in Rows, NEW d \in Db
    PROVE  Upsert(r, d) \in Db
<1> DEFINE old == {o \in Of(d.rows, r.t, r.path) : o.k = r.k}
<1>1. CASE old = {}
      BY <1>1, InsertTyped DEF Upsert
<1>2. CASE old # {}
      <2>1. Upsert(r, d) = [d EXCEPT !.rows = (d.rows \ old) \cup {r}]
            BY <1>2 DEF Upsert
      <2>2. (d.rows \ old) \cup {r} \in SUBSET Rows
            BY DEF Db
      <2> HIDE DEF old
      <2> QED BY <2>1, <2>2 DEF Db
<1> QED BY <1>1, <1>2

LEMMA UpsertFold ==
    ASSUME NEW R \in SUBSET Rows, IsFiniteSet(R), NEW d \in Db
    PROVE  \E g \in [SUBSET R -> Db] :
              /\ UpsertAll(R, d) = g[R]
              /\ g[{}] = d
              /\ \A s \in SUBSET R : s # {} => g[s] = Upsert(Chosen(s), g[Without(s)])
<1> DEFINE F == [x \in R \X Db |-> Upsert(x[1], x[2])]
           Recurs(g) == g = [s \in SUBSET R |-> IF s = {} THEN d
                                                ELSE Upsert(Chosen(s), g[Without(s)])]
<1>0. \A s \in SUBSET R : s # {} => Chosen(s) \in R /\ Without(s) \in SUBSET R
      BY DEF Chosen, Without
<1>1. \A g : Recurs(g) => g \in [SUBSET R -> Db]
      <2> SUFFICES ASSUME NEW g, Recurs(g)
                   PROVE  g \in [SUBSET R -> Db]
          OBVIOUS
      <2> DEFINE Good == {s \in SUBSET R : g[s] \in Db}
      <2>1. {} \in Good
            OBVIOUS
      <2>2. ASSUME NEW s \in SUBSET R, s # {}, Without(s) \in Good
            PROVE  s \in Good
            <3>1. g[s] = Upsert(Chosen(s), g[Without(s)])
                  BY <2>2
            <3> QED BY <1>0, <2>2, <3>1, UpsertTyped
      <2> HIDE DEF Good
      <2>3. \A s \in SUBSET R : s \in Good
            BY <2>1, <2>2, SubsetInduct
      <2> QED BY <2>3 DEF Good
<1>2. \E g : Recurs(g)
      <2>1. PICK g : Folds(g, SUBSET R, d, F)
            <3> HIDE DEF F
            <3> QED BY FoldExists
      <2>2. g = [s \in SUBSET R |-> IF s = {} THEN d ELSE F[<<Chosen(s), g[Without(s)]>>]]
            <3> HIDE DEF F
            <3> QED BY <2>1 DEF Folds
      <2> DEFINE Good == {s \in SUBSET R : g[s] \in Db}
      <2>3. {} \in Good
            <3> HIDE DEF F
            <3> QED BY <2>2
      <2>4. ASSUME NEW s \in SUBSET R, s # {}, Without(s) \in Good
            PROVE  s \in Good
            <3>1. g[s] = F[<<Chosen(s), g[Without(s)]>>]
                  <4> HIDE DEF F
                  <4> QED BY <2>2, <2>4
            <3>2. Chosen(s) \in R /\ g[Without(s)] \in Db
                  BY <1>0, <2>4
            <3>3. g[s] = Upsert(Chosen(s), g[Without(s)])
                  BY <3>1, <3>2
            <3> QED BY <3>2, <3>3, UpsertTyped
      <2>5. \A s \in SUBSET R : s \in Good
            <3> HIDE DEF Good
            <3> QED BY <2>3, <2>4, SubsetInduct
      <2>6. \A s \in SUBSET R : s # {} =>
                F[<<Chosen(s), g[Without(s)]>>] = Upsert(Chosen(s), g[Without(s)])
            BY <1>0, <2>5
      <2>7. Recurs(g)
            <3> HIDE DEF F
            <3> QED BY <2>2, <2>6
      <2> QED BY <2>7
<1> DEFINE iter == CHOOSE g : Recurs(g)
<1>3. Recurs(iter)
      BY <1>2
<1>4. UpsertAll(R, d) = iter[R]
      BY Zenon DEF UpsertAll, FoldSet, MapThenFoldSet, Chosen, Without
<1> HIDE DEF iter
<1> QED BY <1>1, <1>3, <1>4

\* The counts are those of the rows.
LineRows(rows) == {r \in rows : r.t = "lines"}
Exact(d) ==
    /\ d \in Db /\ IsFiniteSet(d.rows)
    /\ d.nLines = Cardinality(LineRows(d.rows))
    /\ d.nPaths = Cardinality(Held(d.rows))

SameKey(r, o) == r.t = o.t /\ r.path = o.path /\ r.k = o.k
Unique(rows) == \A r, o \in rows : SameKey(r, o) => r = o

\* Finitely many rows are of finitely many paths.
LEMMA HeldFinite ==
    ASSUME NEW rows \in SUBSET Rows, IsFiniteSet(rows)
    PROVE  /\ IsFiniteSet(Held(rows)) /\ Cardinality(Held(rows)) \in Nat
           /\ IsFiniteSet(LineRows(rows)) /\ Cardinality(LineRows(rows)) \in Nat
<1> DEFINE paths == {r.path : r \in rows}
           f == [r \in rows |-> r.path]
<1>1. f \in Surjection(rows, paths)
      BY DEF Surjection
<1>2. IsFiniteSet(paths)
      <2> HIDE DEF f, paths
      <2> QED BY <1>1, FS_Surjection
<1>3. Held(rows) \in SUBSET paths
      BY DEF Held, Holds, Of
<1>4. IsFiniteSet(Held(rows))
      <2> HIDE DEF paths
      <2> QED BY <1>2, <1>3, FS_Subset
<1>5. LineRows(rows) \in SUBSET rows
      BY DEF LineRows
<1>6. IsFiniteSet(LineRows(rows))
      BY <1>5, FS_Subset
<1> QED BY <1>4, <1>6, FS_CardinalityType

\* The paths and the lines of one row more.
LEMMA HeldOfOneMore ==
    ASSUME NEW rows \in SUBSET Rows, NEW r \in Rows
    PROVE  /\ Held(rows \cup {r}) = IF r.t \in PathTable THEN Held(rows) \cup {r.path}
                                    ELSE Held(rows)
           /\ LineRows(rows \cup {r}) = IF r.t = "lines" THEN LineRows(rows) \cup {r}
                                        ELSE LineRows(rows)
           /\ FirstOfPath(rows, r) <=> r.path \notin Held(rows)
<1>1. r.path \in Path /\ r.t \in Table
      BY DEF Rows
<1>2. \A p \in Path, t \in PathTable :
          Of(rows \cup {r}, t, p) = IF r.t = t /\ r.path = p THEN Of(rows, t, p) \cup {r} ELSE Of(rows, t, p)
      BY DEF Of
<1>3. \A p \in Path : Holds(rows \cup {r}, p) <=> Holds(rows, p) \/ (r.t \in PathTable /\ r.path = p)
      BY <1>2 DEF Holds
<1>4. Held(rows \cup {r}) = IF r.t \in PathTable THEN Held(rows) \cup {r.path} ELSE Held(rows)
      BY <1>1, <1>3 DEF Held
<1>5. FirstOfPath(rows, r) <=> r.path \notin Held(rows)
      BY <1>1 DEF FirstOfPath, Held
<1>6. LineRows(rows \cup {r}) = IF r.t = "lines" THEN LineRows(rows) \cup {r} ELSE LineRows(rows)
      BY DEF LineRows
<1> QED BY <1>4, <1>5, <1>6

\* The triggers of a row that was not there.
LEMMA InsertExact ==
    ASSUME NEW d, Exact(d), NEW r \in Rows, r \notin d.rows
    PROVE  Exact(Insert(r, d)) /\ Insert(r, d).rows = d.rows \cup {r}
<1> DEFINE e == Insert(r, d)
<1>1. d \in Db /\ d.rows \in SUBSET Rows /\ IsFiniteSet(d.rows)
      BY DEF Exact, Db
<1>2. /\ e.rows = d.rows \cup {r}
      /\ e.nLines = d.nLines + (IF r.t = "lines" THEN 1 ELSE 0)
      /\ e.nPaths = d.nPaths + (IF r.t \in PathTable /\ FirstOfPath(d.rows, r) THEN 1 ELSE 0)
      BY DEF Insert
<1>3. e \in Db
      BY <1>1, InsertTyped
<1>4. /\ IsFiniteSet(Held(d.rows)) /\ Cardinality(Held(d.rows)) \in Nat
      /\ IsFiniteSet(LineRows(d.rows)) /\ Cardinality(LineRows(d.rows)) \in Nat
      BY <1>1, HeldFinite
<1>5. IsFiniteSet(e.rows)
      BY <1>1, <1>2, FS_AddElement
<1> HIDE DEF e
<1>0. /\ Held(e.rows) = IF r.t \in PathTable THEN Held(d.rows) \cup {r.path} ELSE Held(d.rows)
      /\ LineRows(e.rows) = IF r.t = "lines" THEN LineRows(d.rows) \cup {r} ELSE LineRows(d.rows)
      /\ FirstOfPath(d.rows, r) <=> r.path \notin Held(d.rows)
      BY <1>1, <1>2, HeldOfOneMore
<1>6. e.nLines = Cardinality(LineRows(e.rows))
      <2>1. r \notin LineRows(d.rows)
            BY DEF LineRows
      <2>2. Cardinality(LineRows(d.rows) \cup {r}) = Cardinality(LineRows(d.rows)) + 1
            BY <1>4, <2>1, FS_AddElement
      <2>3. d.nLines = Cardinality(LineRows(d.rows))
            BY DEF Exact
      <2> QED BY <1>0, <1>2, <1>4, <2>2, <2>3
<1>7. e.nPaths = Cardinality(Held(e.rows))
      <2>1. d.nPaths = Cardinality(Held(d.rows))
            BY DEF Exact
      <2>2. CASE r.t \in PathTable /\ r.path \notin Held(d.rows)
            <3>1. Cardinality(Held(d.rows) \cup {r.path}) = Cardinality(Held(d.rows)) + 1
                  BY <1>4, <2>2, FS_AddElement
            <3> QED BY <1>0, <1>2, <1>4, <2>1, <2>2, <3>1
      <2>3. CASE ~(r.t \in PathTable /\ r.path \notin Held(d.rows))
            <3>1. Held(e.rows) = Held(d.rows)
                  BY <1>0, <1>2, <2>3
            <3>2. e.nPaths = d.nPaths + 0
                  BY <1>0, <1>2, <2>3
            <3> QED BY <1>4, <2>1, <3>1, <3>2
      <2> QED BY <2>2, <2>3
<1> QED BY <1>2, <1>3, <1>5, <1>6, <1>7 DEF Exact, e

\* The triggers of a row that goes.
LEMMA DeleteExact ==
    ASSUME NEW d, Exact(d), NEW r \in d.rows
    PROVE  Exact(Delete(r, d)) /\ Delete(r, d).rows = d.rows \ {r}
<1> DEFINE e == Delete(r, d)
<1>1. d \in Db /\ d.rows \in SUBSET Rows /\ IsFiniteSet(d.rows) /\ r \in Rows
      BY DEF Exact, Db
<1>2. /\ e.rows = d.rows \ {r}
      /\ e.nLines = d.nLines - (IF r.t = "lines" THEN 1 ELSE 0)
      /\ e.nPaths = d.nPaths - (IF r.t \in PathTable /\ FirstOfPath(d.rows \ {r}, r) THEN 1 ELSE 0)
      BY DEF Delete
<1>3. e \in Db
      BY <1>1, DeleteTyped
<1>5. IsFiniteSet(e.rows) /\ e.rows \in SUBSET Rows /\ d.rows = e.rows \cup {r} /\ r \notin e.rows
      BY <1>1, <1>2, FS_RemoveElement
<1> HIDE DEF e
<1>4. /\ IsFiniteSet(Held(e.rows)) /\ Cardinality(Held(e.rows)) \in Nat
      /\ IsFiniteSet(LineRows(e.rows)) /\ Cardinality(LineRows(e.rows)) \in Nat
      BY <1>5, HeldFinite
<1>6. e.nLines = Cardinality(LineRows(e.rows))
      <2>1. r \notin LineRows(e.rows)
            BY <1>5 DEF LineRows
      <2>2. Cardinality(LineRows(e.rows) \cup {r}) = Cardinality(LineRows(e.rows)) + 1
            BY <1>4, <2>1, FS_AddElement
      <2>3. d.nLines = Cardinality(LineRows(d.rows))
            BY DEF Exact
      <2>4. LineRows(d.rows) = IF r.t = "lines" THEN LineRows(e.rows) \cup {r} ELSE LineRows(e.rows)
            BY <1>1, <1>5, HeldOfOneMore
      <2> QED BY <1>2, <1>4, <2>2, <2>3, <2>4
<1>7. e.nPaths = Cardinality(Held(e.rows))
      <2>1. d.nPaths = Cardinality(Held(d.rows))
            BY DEF Exact
      <2>0. Held(d.rows) = IF r.t \in PathTable THEN Held(e.rows) \cup {r.path} ELSE Held(e.rows)
            BY <1>1, <1>5, HeldOfOneMore
      <2>4. FirstOfPath(d.rows \ {r}, r) <=> r.path \notin Held(e.rows)
            BY <1>1, <1>2, <1>5, HeldOfOneMore
      <2>2. CASE r.t \in PathTable /\ r.path \notin Held(e.rows)
            <3>1. Cardinality(Held(e.rows) \cup {r.path}) = Cardinality(Held(e.rows)) + 1
                  BY <1>4, <2>2, FS_AddElement
            <3> QED BY <1>2, <1>4, <2>0, <2>1, <2>2, <2>4, <3>1
      <2>3. CASE ~(r.t \in PathTable /\ r.path \notin Held(e.rows))
            <3>1. Held(e.rows) = Held(d.rows)
                  BY <2>0, <2>3
            <3>2. e.nPaths = d.nPaths - 0
                  BY <1>2, <2>3, <2>4
            <3> QED BY <1>4, <2>1, <3>1, <3>2
      <2> QED BY <2>2, <2>3
<1> QED BY <1>2, <1>3, <1>5, <1>6, <1>7 DEF Exact, e

\* A conflict updates the one row of the key and fires no trigger.
LEMMA UpsertExact ==
    ASSUME NEW d, Exact(d), Unique(d.rows), NEW r \in Rows
    PROVE  /\ Exact(Upsert(r, d)) /\ Unique(Upsert(r, d).rows)
           /\ Upsert(r, d).rows = {o \in d.rows : ~SameKey(o, r)} \cup {r}
<1> DEFINE old == {o \in Of(d.rows, r.t, r.path) : o.k = r.k}
           e == Upsert(r, d)
<1>1. d \in Db /\ d.rows \in SUBSET Rows /\ IsFiniteSet(d.rows)
      BY DEF Exact, Db
<1>2. \A o \in d.rows : o \in old <=> SameKey(o, r)
      BY DEF Of, SameKey
<1>3. old \subseteq d.rows
      BY DEF Of
<1>4. e = IF old = {} THEN Insert(r, d) ELSE [d EXCEPT !.rows = (d.rows \ old) \cup {r}]
      BY DEF Upsert
<1>5. Unique({o \in d.rows : ~SameKey(o, r)} \cup {r})
      BY DEF Unique, SameKey
<1> HIDE DEF old, e
<1>6. CASE old = {}
      <2>1. r \notin d.rows
            BY <1>2, <1>6 DEF SameKey
      <2>2. {o \in d.rows : ~SameKey(o, r)} = d.rows
            BY <1>2, <1>6
      <2>3. e = Insert(r, d)
            BY <1>4, <1>6
      <2>4. Exact(e) /\ e.rows = d.rows \cup {r}
            BY <2>1, <2>3, InsertExact
      <2> QED BY <1>5, <2>2, <2>4 DEF e
<1>7. CASE old # {}
      <2>1. PICK o \in d.rows : old = {o} /\ SameKey(o, r)
            BY <1>2, <1>3, <1>7 DEF Unique, SameKey
      <2> DEFINE rest == d.rows \ {o}
      <2>2. /\ d.rows \ old = rest /\ rest \in SUBSET Rows /\ IsFiniteSet(rest)
            /\ d.rows = rest \cup {o} /\ o \in Rows
            BY <1>1, <2>1, FS_RemoveElement
      <2>3. r \notin rest
            BY <2>1 DEF Unique, SameKey
      <2>4. {x \in d.rows : ~SameKey(x, r)} = rest
            BY <1>2, <2>1
      <2>5. o \notin rest /\ o.t = r.t /\ o.path = r.path
            BY <2>1 DEF SameKey
      <2> HIDE DEF rest
      <2>6. e = [rows |-> rest \cup {r}, nLines |-> d.nLines, nPaths |-> d.nPaths]
            BY <1>1, <1>4, <1>7, <2>2 DEF Db
      <2>7. e \in Db /\ e.rows = rest \cup {r} /\ IsFiniteSet(e.rows)
            BY <1>1, <2>2, <2>6, FS_AddElement DEF Db
      <2>8. Held(d.rows) = Held(e.rows)
            <3>1. /\ Held(rest \cup {o}) = IF o.t \in PathTable THEN Held(rest) \cup {o.path} ELSE Held(rest)
                  /\ Held(rest \cup {r}) = IF r.t \in PathTable THEN Held(rest) \cup {r.path} ELSE Held(rest)
                  BY <2>2, HeldOfOneMore
            <3> QED BY <2>2, <2>5, <2>7, <3>1
      <2>9. Cardinality(LineRows(e.rows)) = Cardinality(LineRows(d.rows))
            <3>0. /\ LineRows(rest \cup {o})
                        = IF o.t = "lines" THEN LineRows(rest) \cup {o} ELSE LineRows(rest)
                  /\ LineRows(rest \cup {r})
                        = IF r.t = "lines" THEN LineRows(rest) \cup {r} ELSE LineRows(rest)
                  BY <2>2, HeldOfOneMore
            <3>1. /\ LineRows(d.rows) = IF o.t = "lines" THEN LineRows(rest) \cup {o} ELSE LineRows(rest)
                  /\ LineRows(e.rows) = IF r.t = "lines" THEN LineRows(rest) \cup {r} ELSE LineRows(rest)
                  BY <2>2, <2>7, <3>0
            <3>2. IsFiniteSet(LineRows(rest)) /\ o \notin LineRows(rest) /\ r \notin LineRows(rest)
                  BY <2>2, <2>3, <2>5, HeldFinite DEF LineRows
            <3>3. Cardinality(LineRows(rest) \cup {o}) = Cardinality(LineRows(rest) \cup {r})
                  BY <3>2, FS_AddElement
            <3> QED BY <2>5, <3>1, <3>3
      <2>10. d.nLines = Cardinality(LineRows(d.rows)) /\ d.nPaths = Cardinality(Held(d.rows))
             BY DEF Exact
      <2>11. e.nLines = d.nLines /\ e.nPaths = d.nPaths
             BY <2>6
      <2>12. Exact(e)
             BY <2>7, <2>8, <2>9, <2>10, <2>11 DEF Exact
      <2> QED BY <1>5, <2>4, <2>7, <2>12 DEF e
<1> QED BY <1>6, <1>7

\* Whole statements: each row's trigger after the other, in any order.
LEMMA DeleteAllExact ==
    ASSUME NEW d, Exact(d), NEW R \in SUBSET d.rows
    PROVE  Exact(DeleteAll(R, d)) /\ DeleteAll(R, d).rows = d.rows \ R
<1>1. d \in Db /\ R \in SUBSET Rows /\ IsFiniteSet(R)
      BY FS_Subset DEF Exact, Db
<1>2. PICK g \in [SUBSET R -> Db] :
          /\ DeleteAll(R, d) = g[R]
          /\ g[{}] = d
          /\ \A s \in SUBSET R : s # {} => g[s] = Delete(Chosen(s), g[Without(s)])
      BY <1>1, DeleteFold, ZenonT(60)
<1> DEFINE Good == {s \in SUBSET R : Exact(g[s]) /\ g[s].rows = d.rows \ s}
<1>3. {} \in Good
      BY <1>2
<1>4. ASSUME NEW s \in SUBSET R, s # {}, Without(s) \in Good
      PROVE  s \in Good
      <2> DEFINE x == Chosen(s)
                 w == Without(s)
      <2>1. x \in s /\ w = s \ {x}
            BY <1>4 DEF Chosen, Without
      <2>2. Exact(g[w]) /\ g[w].rows = d.rows \ w /\ g[s] = Delete(x, g[w])
            BY <1>2, <1>4
      <2> HIDE DEF x, w
      <2>3. x \in g[w].rows /\ (d.rows \ w) \ {x} = d.rows \ s
            BY <2>1, <2>2
      <2>4. Exact(g[s]) /\ g[s].rows = d.rows \ s
            BY <2>2, <2>3, DeleteExact
      <2> QED BY <2>4
<1> HIDE DEF Good
<1>5. R \in Good
      BY <1>1, <1>3, <1>4, SubsetInduct
<1> QED BY <1>2, <1>5 DEF Good

LEMMA InsertAllExact ==
    ASSUME NEW d, Exact(d), NEW R \in SUBSET Rows, IsFiniteSet(R), R \cap d.rows = {}
    PROVE  Exact(InsertAll(R, d)) /\ InsertAll(R, d).rows = d.rows \cup R
<1>1. d \in Db
      BY DEF Exact
<1>2. PICK g \in [SUBSET R -> Db] :
          /\ InsertAll(R, d) = g[R]
          /\ g[{}] = d
          /\ \A s \in SUBSET R : s # {} => g[s] = Insert(Chosen(s), g[Without(s)])
      BY <1>1, InsertFold, ZenonT(60)
<1> DEFINE Good == {s \in SUBSET R : Exact(g[s]) /\ g[s].rows = d.rows \cup s}
<1>3. {} \in Good
      BY <1>2
<1>4. ASSUME NEW s \in SUBSET R, s # {}, Without(s) \in Good
      PROVE  s \in Good
      <2> DEFINE x == Chosen(s)
                 w == Without(s)
      <2>1. x \in s /\ w = s \ {x}
            BY <1>4 DEF Chosen, Without
      <2>2. Exact(g[w]) /\ g[w].rows = d.rows \cup w /\ g[s] = Insert(x, g[w])
            BY <1>2, <1>4
      <2> HIDE DEF x, w
      <2>3. x \in Rows /\ x \notin g[w].rows /\ (d.rows \cup w) \cup {x} = d.rows \cup s
            BY <2>1, <2>2
      <2>4. Exact(g[s]) /\ g[s].rows = d.rows \cup s
            BY <2>2, <2>3, InsertExact
      <2> QED BY <2>4
<1> HIDE DEF Good
<1>5. R \in Good
      BY <1>3, <1>4, SubsetInduct
<1> QED BY <1>2, <1>5 DEF Good

Replaced(rows, R) == {o \in rows : \A r \in R : ~SameKey(o, r)} \cup R

LEMMA UpsertAllExact ==
    ASSUME NEW d, Exact(d), Unique(d.rows), NEW R \in SUBSET Rows, IsFiniteSet(R), Unique(R)
    PROVE  /\ Exact(UpsertAll(R, d)) /\ Unique(UpsertAll(R, d).rows)
           /\ UpsertAll(R, d).rows = Replaced(d.rows, R)
<1>1. d \in Db
      BY DEF Exact
<1>2. PICK g \in [SUBSET R -> Db] :
          /\ UpsertAll(R, d) = g[R]
          /\ g[{}] = d
          /\ \A s \in SUBSET R : s # {} => g[s] = Upsert(Chosen(s), g[Without(s)])
      BY <1>1, UpsertFold, ZenonT(60)
<1> DEFINE Good == {s \in SUBSET R : Exact(g[s]) /\ Unique(g[s].rows)
                                     /\ g[s].rows = Replaced(d.rows, s)}
<1>3. {} \in Good
      <2>1. Replaced(d.rows, {}) = d.rows
            BY DEF Replaced
      <2> QED BY <1>2, <2>1
<1>4. ASSUME NEW s \in SUBSET R, s # {}, Without(s) \in Good
      PROVE  s \in Good
      <2> DEFINE x == Chosen(s)
                 w == Without(s)
      <2>1. x \in s /\ w = s \ {x}
            BY <1>4 DEF Chosen, Without
      <2>2. /\ Exact(g[w]) /\ Unique(g[w].rows) /\ g[w].rows = Replaced(d.rows, w)
            /\ g[s] = Upsert(x, g[w])
            BY <1>2, <1>4
      <2> HIDE DEF x, w
      <2>3. x \in Rows
            BY <2>1
      <2>4. /\ Exact(g[s]) /\ Unique(g[s].rows)
            /\ g[s].rows = {o \in g[w].rows : ~SameKey(o, x)} \cup {x}
            BY <2>2, <2>3, UpsertExact
      <2>5. \A o \in w : ~SameKey(o, x)
            BY <2>1 DEF Unique
      <2>6. {o \in Replaced(d.rows, w) : ~SameKey(o, x)} \cup {x} = Replaced(d.rows, s)
            BY <2>1, <2>5 DEF Replaced
      <2> QED BY <2>2, <2>4, <2>6
<1> HIDE DEF Good
<1>5. R \in Good
      BY <1>3, <1>4, SubsetInduct
<1> QED BY <1>2, <1>5 DEF Good

\* The store between two statements: besides the counts, one row per key, the layers of
\* a stack numbered, and no more of them than it holds.
UndoNumbered(rows) == \A r \in rows : r.t = "undo" => r.k \in Nat
UndosFit(rows) == \A p \in Path : Cardinality(Of(rows, "undo", p)) <= UndoDepth
Sound(d) == Exact(d) /\ Unique(d.rows) /\ UndoNumbered(d.rows) /\ UndosFit(d.rows)

LEMMA OfFinite ==
    ASSUME NEW d, Exact(d), NEW t, NEW p
    PROVE  /\ Of(d.rows, t, p) \in SUBSET d.rows /\ IsFiniteSet(Of(d.rows, t, p))
           /\ Cardinality(Of(d.rows, t, p)) \in Nat
<1>1. Of(d.rows, t, p) \in SUBSET d.rows
      BY DEF Of
<1>2. IsFiniteSet(Of(d.rows, t, p))
      BY <1>1, FS_Subset DEF Exact
<1> QED BY <1>1, <1>2, FS_CardinalityType

LEMMA SoundDelete ==
    ASSUME RowsFit, NEW d, Sound(d), NEW R \in SUBSET d.rows
    PROVE  Sound(DeleteAll(R, d)) /\ DeleteAll(R, d).rows = d.rows \ R
<1> DEFINE e == DeleteAll(R, d)
<1>1. Exact(d) /\ Exact(e) /\ e.rows = d.rows \ R
      BY DeleteAllExact DEF Sound
<1> HIDE DEF e
<1>2. Unique(e.rows) /\ UndoNumbered(e.rows)
      BY <1>1 DEF Sound, Unique, UndoNumbered
<1>3. UndosFit(e.rows)
      <2> SUFFICES ASSUME NEW p \in Path
                   PROVE  Cardinality(Of(e.rows, "undo", p)) <= UndoDepth
          BY DEF UndosFit
      <2>1. Of(e.rows, "undo", p) \in SUBSET Of(d.rows, "undo", p)
            BY <1>1 DEF Of
      <2>2. Cardinality(Of(e.rows, "undo", p)) <= Cardinality(Of(d.rows, "undo", p))
            BY <1>1, <2>1, OfFinite, FS_Subset
      <2>3. Cardinality(Of(d.rows, "undo", p)) <= UndoDepth
            BY DEF Sound, UndosFit
      <2>4. /\ Cardinality(Of(e.rows, "undo", p)) \in Nat
            /\ Cardinality(Of(d.rows, "undo", p)) \in Nat /\ UndoDepth \in Nat
            BY <1>1, OfFinite DEF RowsFit
      <2> QED BY <2>2, <2>3, <2>4
<1> QED BY <1>1, <1>2, <1>3 DEF Sound, e

\* Statements on the other families leave the stacks alone.
LEMMA SoundUpserts ==
    ASSUME NEW d, Sound(d), NEW R \in SUBSET Rows, IsFiniteSet(R), Unique(R),
           \A r \in R : r.t # "undo"
    PROVE  Sound(UpsertAll(R, d)) /\ UpsertAll(R, d).rows = Replaced(d.rows, R)
<1> DEFINE e == UpsertAll(R, d)
<1>1. Exact(e) /\ Unique(e.rows) /\ e.rows = Replaced(d.rows, R)
      BY UpsertAllExact DEF Sound
<1> HIDE DEF e
<1>2. UndoNumbered(e.rows)
      BY <1>1 DEF Sound, UndoNumbered, Replaced
<1>3. \A p \in Path : Of(e.rows, "undo", p) = Of(d.rows, "undo", p)
      BY <1>1 DEF Of, Replaced, SameKey
<1>4. UndosFit(e.rows)
      BY <1>3 DEF Sound, UndosFit
<1> QED BY <1>1, <1>2, <1>4 DEF Sound, e

LEMMA SoundUpsert ==
    ASSUME NEW d, Sound(d), NEW r \in Rows, r.t # "undo"
    PROVE  Sound(Upsert(r, d)) /\ Upsert(r, d).rows = Replaced(d.rows, {r})
<1> DEFINE e == Upsert(r, d)
<1>1. Exact(e) /\ Unique(e.rows) /\ e.rows = {o \in d.rows : ~SameKey(o, r)} \cup {r}
      BY UpsertExact DEF Sound
<1>0. e.rows = Replaced(d.rows, {r})
      BY <1>1 DEF Replaced
<1> HIDE DEF e
<1>2. UndoNumbered(e.rows)
      BY <1>1 DEF Sound, UndoNumbered
<1>3. \A p \in Path : Of(e.rows, "undo", p) = Of(d.rows, "undo", p)
      BY <1>1 DEF Of, SameKey
<1>4. UndosFit(e.rows)
      BY <1>3 DEF Sound, UndosFit
<1> QED BY <1>0, <1>1, <1>2, <1>4 DEF Sound, e

\* A finite set of naturals has a greatest element, which Max denotes.
LEMMA MaxNat ==
    ASSUME NEW N \in SUBSET Nat, IsFiniteSet(N), N # {}
    PROVE  Max(N) \in N /\ \A n \in N : Max(N) >= n
<1> DEFINE Up(x) == {y \in N : y >= x}
           U == {Up(x) : x \in N}
<1>1. U \subseteq FiniteSubsetsOf(N) /\ U # {}
      <2>1. \A x \in N : Up(x) \in FiniteSubsetsOf(N)
            BY FS_FiniteSubsetsOfFinite
      <2> HIDE DEF Up
      <2> QED BY <2>1
<1>2. PICK u \in U : \A v \in U : ~(<<v, u>> \in StrictSubsetOrdering(N))
      <2> HIDE DEF U
      <2> QED BY <1>1, FS_StrictSubsetOrderingWellFounded, WFMin
<1>3. PICK x \in N : u = Up(x)
      OBVIOUS
<1>4. ASSUME NEW y \in N
      PROVE  x >= y
      <2> SUFFICES ASSUME y > x PROVE FALSE
          BY <1>3
      <2>0. x \in Nat /\ y \in Nat /\ \A z \in N : z \in Nat
            BY <1>3
      <2>1. Up(y) \subseteq Up(x)
            <3> SUFFICES ASSUME NEW z \in Up(y) PROVE z \in Up(x)
                OBVIOUS
            <3>1. z \in Nat /\ z >= y
                  BY <2>0
            <3> QED BY <2>0, <3>1
      <2>2. x \in Up(x) /\ x \notin Up(y) /\ Up(y) \in U /\ Up(x) \subseteq N
            BY <1>3, <2>0
      <2> HIDE DEF Up, U
      <2> QED BY <1>2, <1>3, <2>1, <2>2 DEF StrictSubsetOrdering
<1> HIDE DEF Up, U
<1>5. \E z \in N : \A y \in N : z >= y
      BY <1>4
<1> QED BY <1>5 DEF Max

LEMMA TopNat ==
    ASSUME NEW d, Exact(d), UndoNumbered(d.rows), NEW p
    PROVE  /\ Top(d.rows, p) \in Nat /\ \A r \in Of(d.rows, "undo", p) : r.k <= Top(d.rows, p)
           /\ Top(d.rows, p) = 0 \/ \E r \in Of(d.rows, "undo", p) : r.k = Top(d.rows, p)
<1> DEFINE layers == Of(d.rows, "undo", p)
           ks == {r.k : r \in layers}
           f == [r \in layers |-> r.k]
<1>1. \A r \in layers : r.k \in Nat
      BY DEF Of, UndoNumbered
<1>2. IsFiniteSet(layers)
      BY OfFinite
<1>3. f \in Surjection(layers, ks)
      BY DEF Surjection
<1>4. IsFiniteSet(ks)
      <2> HIDE DEF f, ks, layers
      <2> QED BY <1>2, <1>3, FS_Surjection
<1>5. ks \cup {0} \in SUBSET Nat /\ IsFiniteSet(ks \cup {0}) /\ ks \cup {0} # {}
      <2>1. ks \in SUBSET Nat
            BY <1>1
      <2> HIDE DEF ks
      <2> QED BY <1>4, <2>1, FS_AddElement
<1>6. Top(d.rows, p) = Max(ks \cup {0})
      BY DEF Top
<1>7. (\A r \in layers : r.k \in ks) /\ (\A k \in ks : \E r \in layers : r.k = k)
      OBVIOUS
<1> HIDE DEF ks, layers
<1>8. Max(ks \cup {0}) \in ks \cup {0} /\ \A n \in ks \cup {0} : Max(ks \cup {0}) >= n
      BY <1>5, MaxNat
<1>9. Max(ks \cup {0}) \in Nat
      BY <1>5, <1>8
<1> QED BY <1>1, <1>5, <1>6, <1>7, <1>8, <1>9 DEF layers

\* The layers left when those too deep are gone are as many as the stack holds.
LEMMA LayersFit ==
    ASSUME RowsFit, NEW d, Exact(d), Unique(d.rows), UndoNumbered(d.rows), NEW p
    PROVE  Cardinality(Of(d.rows, "undo", p) \ TooDeep(d.rows, p)) <= UndoDepth
<1> DEFINE top == Top(d.rows, p)
           left == Of(d.rows, "undo", p) \ TooDeep(d.rows, p)
           room == (top - UndoDepth + 1) .. top
           f == [r \in left |-> r.k]
<1>1. top \in Nat /\ (\A r \in Of(d.rows, "undo", p) : r.k <= top) /\ UndoDepth \in Nat \ {0}
      BY TopNat DEF RowsFit
<1> HIDE DEF top
<1>2. \A r \in left : r \in d.rows /\ r.k \in Nat /\ r.k <= top /\ ~(r.k < top - UndoDepth + 1)
      BY <1>1 DEF TooDeep, Of, UndoNumbered, top
<1>3. \A r \in left : r.k \in room
      <2> SUFFICES ASSUME NEW r \in left PROVE r.k \in room
          OBVIOUS
      <2>1. r.k \in Nat /\ r.k <= top /\ ~(r.k < top - UndoDepth + 1)
            BY <1>2
      <2> QED BY <1>1, <2>1
<1>4. \A r, o \in left : r.k = o.k => r = o
      <2> SUFFICES ASSUME NEW r \in left, NEW o \in left, r.k = o.k
                   PROVE  r = o
          OBVIOUS
      <2>1. r \in d.rows /\ o \in d.rows /\ SameKey(r, o)
            BY DEF Of, SameKey
      <2> QED BY <2>1 DEF Unique
<1>5. f \in Injection(left, room)
      <2> HIDE DEF left, room
      <2>1. f \in [left -> room] /\ \A r, o \in left : f[r] = f[o] => r = o
            BY <1>3, <1>4
      <2> QED BY <2>1 DEF Injection, IsInjective
<1>6. IsFiniteSet(room) /\ Cardinality(room) = UndoDepth
      <2>1. top - UndoDepth + 1 \in Int /\ top \in Int
            BY <1>1
      <2>2. /\ IsFiniteSet(room)
            /\ Cardinality(room) = IF top - UndoDepth + 1 > top THEN 0
                                   ELSE top - (top - UndoDepth + 1) + 1
            BY <2>1, FS_Interval
      <2> HIDE DEF room
      <2> QED BY <1>1, <2>2
<1> HIDE DEF f, room, left
<1>7. Cardinality(left) <= UndoDepth
      BY <1>5, <1>6, FS_Injection
<1> QED BY <1>7 DEF left

LEMMA SoundPush ==
    ASSUME RowsFit, NEW d, Sound(d), NEW p \in Path, NEW r \in Rows,
           r.t = "undo", r.path = p, r.k = Top(d.rows, p) + 1
    PROVE  LET c == DeleteAll(TooDeep(Insert(r, d).rows, p), Insert(r, d)) IN
           /\ Sound(c) /\ c.rows \subseteq d.rows \cup {r}
           /\ \A o \in d.rows : o.t # "undo" => o \in c.rows
<1> DEFINE e == Insert(r, d)
           deep == TooDeep(e.rows, p)
           c == DeleteAll(deep, e)
<1>0. Exact(d) /\ Unique(d.rows) /\ UndoNumbered(d.rows) /\ UndosFit(d.rows)
      BY DEF Sound
<1>1. /\ Top(d.rows, p) \in Nat
      /\ \A o \in Of(d.rows, "undo", p) : o.k \in Nat /\ o.k <= Top(d.rows, p)
      BY <1>0, TopNat DEF UndoNumbered, Of
<1>2. \A o \in d.rows : ~SameKey(o, r)
      <2> SUFFICES ASSUME NEW o \in d.rows, SameKey(o, r)
                   PROVE  FALSE
          OBVIOUS
      <2>1. o \in Of(d.rows, "undo", p) /\ o.k = Top(d.rows, p) + 1
            BY DEF Of, SameKey
      <2>2. o.k \in Nat /\ o.k <= Top(d.rows, p)
            BY <1>1, <2>1
      <2> QED BY <1>1, <2>1, <2>2
<1>3. r \notin d.rows
      BY <1>2 DEF SameKey
<1>4. Exact(e) /\ e.rows = d.rows \cup {r}
      BY <1>0, <1>3, InsertExact
<1> HIDE DEF e
<1>5. Unique(e.rows)
      BY <1>0, <1>2, <1>4 DEF Unique, SameKey
<1>6. UndoNumbered(e.rows)
      BY <1>0, <1>1, <1>4 DEF UndoNumbered
<1>7. deep \in SUBSET e.rows /\ deep \subseteq Of(e.rows, "undo", p)
      BY DEF TooDeep, Of
<1>8. Cardinality(Of(e.rows, "undo", p) \ deep) <= UndoDepth
      BY <1>4, <1>5, <1>6, LayersFit
<1> HIDE DEF deep
<1>9. Exact(c) /\ c.rows = e.rows \ deep
      BY <1>4, <1>7, DeleteAllExact
<1> HIDE DEF c
<1>10. Unique(c.rows) /\ UndoNumbered(c.rows)
       BY <1>5, <1>6, <1>9 DEF Unique, UndoNumbered
<1>11. UndosFit(c.rows)
       <2> SUFFICES ASSUME NEW q \in Path
                    PROVE  Cardinality(Of(c.rows, "undo", q)) <= UndoDepth
           BY DEF UndosFit
       <2>1. CASE q = p
             <3>1. Of(c.rows, "undo", p) = Of(e.rows, "undo", p) \ deep
                   BY <1>9 DEF Of
             <3> QED BY <1>8, <2>1, <3>1
       <2>2. CASE q # p
             <3>1. Of(c.rows, "undo", q) = Of(d.rows, "undo", q)
                   BY <1>4, <1>7, <1>9, <2>2 DEF Of
             <3> QED BY <1>0, <3>1 DEF UndosFit
       <2> QED BY <2>1, <2>2
<1>12. c.rows \subseteq d.rows \cup {r} /\ \A o \in d.rows : o.t # "undo" => o \in c.rows
       <2>1. \A o \in deep : o.t = "undo"
             BY <1>7 DEF Of
       <2> QED BY <1>4, <1>9, <2>1
<1>13. Sound(c)
       BY <1>9, <1>10, <1>11 DEF Sound
<1> QED BY <1>12, <1>13 DEF c, deep, e

\* A renamed path takes its rows along, after those the destination had.
LEMMA SoundMoved ==
    ASSUME RowsFit, Sound(db), NEW p \in Path, NEW q \in Path, p # q
    PROVE  /\ Sound(Moved(p, q))
           /\ \A o \in Moved(p, q).rows :
                 \/ o \in db.rows /\ o.path # p /\ o.path # q
                 \/ \E r \in db.rows : r.path = p /\ o = [t |-> r.t, path |-> q, k |-> r.k, at |-> r.at]
           /\ \A r \in db.rows : r.path # p /\ r.path # q => r \in Moved(p, q).rows
           /\ \A r \in db.rows : r.path = p =>
                 [t |-> r.t, path |-> q, k |-> r.k, at |-> r.at] \in Moved(p, q).rows
<1> DEFINE here == {r \in db.rows : r.path = p}
           gone == {r \in db.rows : r.path = q}
           there == {[r EXCEPT !.path = q] : r \in here}
           e == DeleteAll(gone, db)
           f == InsertAll(there, e)
           c == DeleteAll(here, f)
           to == [r \in here |-> [r EXCEPT !.path = q]]
<1>0. db.rows \in SUBSET Rows /\ IsFiniteSet(db.rows) /\ Exact(db) /\ Unique(db.rows)
      BY DEF Sound, Exact, Db
<1>1. Moved(p, q) = c
      BY DEF Moved, Purged
<1>2. Sound(e) /\ e.rows = db.rows \ gone
      BY SoundDelete
<1> HIDE DEF e
<1>3. \A r \in here : /\ r \in Rows
                      /\ [r EXCEPT !.path = q] = [t |-> r.t, path |-> q, k |-> r.k, at |-> r.at]
      BY <1>0 DEF Rows
<1>4. there \in SUBSET Rows
      <2>1. \A r \in here : [r EXCEPT !.path = q] \in Rows
            BY <1>3 DEF Rows
      <2> QED BY <2>1
<1>5. IsFiniteSet(here)
      BY <1>0, FS_Subset
<1>6. IsFiniteSet(there)
      <2>1. to \in Surjection(here, there)
            BY DEF Surjection
      <2> HIDE DEF to, here, there
      <2> QED BY <1>5, <2>1, FS_Surjection
<1>7. \A o \in there : o.path = q /\ \E r \in here : o = [t |-> r.t, path |-> q, k |-> r.k, at |-> r.at]
      BY <1>3
<1>8. there \cap e.rows = {}
      BY <1>2, <1>7
<1>9. here \subseteq e.rows
      BY <1>2
<1> HIDE DEF there, here, gone, to
<1>10. Exact(f) /\ f.rows = e.rows \cup there
       BY <1>2, <1>4, <1>6, <1>8, InsertAllExact DEF Sound
<1> HIDE DEF f
<1>11. Exact(c) /\ c.rows = f.rows \ here
       BY <1>9, <1>10, DeleteAllExact
<1> HIDE DEF c
<1>12. c.rows = (e.rows \ here) \cup there
       <2>1. there \cap here = {}
             BY <1>8, <1>9
       <2> QED BY <1>10, <1>11, <2>1
<1>13. \A r \in e.rows \ here : r \in db.rows /\ r.path # q /\ r.path # p
       BY <1>2 DEF here, gone
<1>14. \A r \in here : r \in db.rows /\ r.path = p
       BY DEF here
<1>15. Unique(c.rows)
       <2>1. \A o, x \in there : SameKey(o, x) => o = x
             <3> SUFFICES ASSUME NEW o \in there, NEW x \in there, SameKey(o, x)
                          PROVE  o = x
                 OBVIOUS
             <3>1. PICK r \in here : o = [t |-> r.t, path |-> q, k |-> r.k, at |-> r.at]
                   BY <1>7
             <3>2. PICK s \in here : x = [t |-> s.t, path |-> q, k |-> s.k, at |-> s.at]
                   BY <1>7
             <3>3. SameKey(r, s)
                   BY <1>14, <3>1, <3>2 DEF SameKey
             <3>4. r = s
                   BY <1>0, <1>14, <3>3 DEF Unique
             <3> QED BY <3>1, <3>2, <3>4
       <2>2. \A o, x \in e.rows \ here : SameKey(o, x) => o = x
             BY <1>0, <1>13 DEF Unique
       <2>3. \A o \in there, x \in e.rows \ here : ~SameKey(o, x) /\ ~SameKey(x, o)
             BY <1>7, <1>13 DEF SameKey
       <2> QED BY <1>12, <2>1, <2>2, <2>3 DEF Unique
<1>16. UndoNumbered(c.rows)
       <2>1. \A o \in there : o.t = "undo" => o.k \in Nat
             BY <1>7, <1>14 DEF Sound, UndoNumbered
       <2>2. \A o \in e.rows \ here : o.t = "undo" => o.k \in Nat
             BY <1>13 DEF Sound, UndoNumbered
       <2> QED BY <1>12, <2>1, <2>2 DEF UndoNumbered
<1>17. ASSUME NEW s \in Path
       PROVE  Cardinality(Of(c.rows, "undo", s)) <= UndoDepth
       <2>1. CASE s = q
             <3> DEFINE was == Of(db.rows, "undo", p)
                        is == Of(c.rows, "undo", q)
                        f2 == [r \in was |-> [t |-> r.t, path |-> q, k |-> r.k, at |-> r.at]]
             <3>1. \A r \in was : r \in here /\ [t |-> r.t, path |-> q, k |-> r.k, at |-> r.at] \in is
                   <4> SUFFICES ASSUME NEW r \in was
                                PROVE  /\ r \in here
                                       /\ [t |-> r.t, path |-> q, k |-> r.k, at |-> r.at] \in is
                       OBVIOUS
                   <4>1. r \in here /\ r.t = "undo"
                         BY DEF Of, here
                   <4>2. [t |-> r.t, path |-> q, k |-> r.k, at |-> r.at] \in there
                         BY <1>3, <4>1 DEF there
                   <4> QED BY <1>12, <4>1, <4>2 DEF Of
             <3>2. \A o \in is : \E r \in was : o = [t |-> r.t, path |-> q, k |-> r.k, at |-> r.at]
                   <4> SUFFICES ASSUME NEW o \in is
                                PROVE  \E r \in was : o = [t |-> r.t, path |-> q, k |-> r.k, at |-> r.at]
                       OBVIOUS
                   <4>1. o \in there /\ o.t = "undo"
                         BY <1>12, <1>13 DEF Of
                   <4>2. PICK r \in here : o = [t |-> r.t, path |-> q, k |-> r.k, at |-> r.at]
                         BY <1>7, <4>1
                   <4>3. r \in was
                         BY <1>14, <4>1, <4>2 DEF Of
                   <4> QED BY <4>2, <4>3
             <3>3. f2 \in Surjection(was, is)
                   <4>1. f2 \in [was -> is]
                         BY <3>1
                   <4>2. \A o \in is : \E r \in was : f2[r] = o
                         BY <3>2
                   <4> QED BY <4>1, <4>2 DEF Surjection
             <3>4. IsFiniteSet(was) /\ Cardinality(was) \in Nat /\ Cardinality(was) <= UndoDepth
                   BY <1>0, OfFinite DEF Sound, UndosFit
             <3>5. Cardinality(is) \in Nat
                   BY <1>11, OfFinite
             <3> HIDE DEF f2, was, is
             <3>6. Cardinality(is) <= Cardinality(was)
                   BY <3>3, <3>4, FS_Surjection
             <3>7. Cardinality(is) <= UndoDepth
                   BY <3>4, <3>5, <3>6 DEF RowsFit
             <3> QED BY <2>1, <3>7 DEF is
       <2>2. CASE s # q
             <3>1. Of(c.rows, "undo", s) \in SUBSET Of(e.rows, "undo", s)
                   BY <1>7, <1>12, <2>2 DEF Of
             <3>2. Exact(e) /\ Cardinality(Of(e.rows, "undo", s)) <= UndoDepth
                   BY <1>2 DEF Sound, UndosFit
             <3>3. /\ Cardinality(Of(c.rows, "undo", s)) <= Cardinality(Of(e.rows, "undo", s))
                   /\ Cardinality(Of(c.rows, "undo", s)) \in Nat
                   /\ Cardinality(Of(e.rows, "undo", s)) \in Nat
                   BY <1>11, <3>1, <3>2, OfFinite, FS_Subset
             <3> QED BY <3>2, <3>3 DEF RowsFit
       <2> QED BY <2>1, <2>2
<1>18. Sound(c)
       BY <1>11, <1>15, <1>16, <1>17 DEF Sound, UndosFit
<1>19. \A o \in c.rows :
           \/ o \in db.rows /\ o.path # p /\ o.path # q
           \/ \E r \in db.rows : r.path = p /\ o = [t |-> r.t, path |-> q, k |-> r.k, at |-> r.at]
       BY <1>7, <1>12, <1>13, <1>14
<1>20. \A r \in db.rows : r.path # p /\ r.path # q => r \in c.rows
       BY <1>2, <1>12 DEF here, gone
<1>21. \A r \in db.rows : r.path = p => [t |-> r.t, path |-> q, k |-> r.k, at |-> r.at] \in c.rows
       <2> SUFFICES ASSUME NEW r \in db.rows, r.path = p
                    PROVE  [t |-> r.t, path |-> q, k |-> r.k, at |-> r.at] \in c.rows
           OBVIOUS
       <2>1. r \in here
             BY DEF here
       <2>2. [t |-> r.t, path |-> q, k |-> r.k, at |-> r.at] \in there
             BY <1>3, <2>1 DEF there
       <2> QED BY <1>12, <2>2
<1> QED BY <1>1, <1>18, <1>19, <1>20, <1>21

\* ------------------------------------------------------------------------
\* The steps.
RowsInv == Sound(db) /\ now \in Nat

LEMMA InitRows == RowsFit /\ Init => RowsInv
<1> SUFFICES ASSUME RowsFit, Init PROVE RowsInv
    OBVIOUS
<1>1. db.rows = {} /\ db.nLines = 0 /\ db.nPaths = 0 /\ db \in Db
      BY DEF Init, Db
<1>2. LineRows({}) = {} /\ Held({}) = {}
      BY DEF LineRows, Held, Holds, Of
<1>3. Exact(db)
      BY <1>1, <1>2, FS_EmptySet DEF Exact
<1>4. \A p \in Path : Of({}, "undo", p) = {}
      BY DEF Of
<1>5. UndosFit(db.rows)
      BY <1>1, <1>4, FS_EmptySet DEF UndosFit, RowsFit
<1> QED BY <1>1, <1>3, <1>5 DEF RowsInv, Sound, Unique, UndoNumbered, Init

LEMMA RowTyped ==
    ASSUME RowsInv, NEW t \in Table, NEW p \in Path, NEW k \in Key
    PROVE  /\ Row(t, p, k) \in Rows /\ Row(t, p, k).t = t /\ Row(t, p, k).path = p
           /\ Row(t, p, k).k = k /\ Row(t, p, k).at = now
BY DEF Row, Rows, RowsInv

NewLines(p, L) == {Row("lines", p, l) : l \in L}

LEMMA LinesTyped ==
    ASSUME RowsFit, RowsInv, NEW p \in Path, NEW L \in SUBSET Line
    PROVE  LET R == NewLines(p, L) IN
           /\ R \in SUBSET Rows /\ IsFiniteSet(R) /\ Unique(R)
           /\ \A r \in R : r.t = "lines" /\ r.path = p /\ r.at = now /\ r.k \in L
<1> DEFINE R == NewLines(p, L)
           f == [l \in L |-> Row("lines", p, l)]
<1> USE DEF NewLines
<1>1. \A l \in L : /\ Row("lines", p, l) \in Rows /\ Row("lines", p, l).t = "lines"
                   /\ Row("lines", p, l).path = p /\ Row("lines", p, l).k = l
                   /\ Row("lines", p, l).at = now
      BY RowTyped DEF Table, Key
<1>2. IsFiniteSet(L)
      BY FS_Subset DEF RowsFit
<1>3. f \in Surjection(L, R)
      BY DEF Surjection
<1>4. IsFiniteSet(R)
      <2> HIDE DEF f, R
      <2> QED BY <1>2, <1>3, FS_Surjection
<1>5. Unique(R)
      BY <1>1 DEF Unique, SameKey
<1>6. R \in SUBSET Rows /\ \A r \in R : r.t = "lines" /\ r.path = p /\ r.at = now /\ r.k \in L
      BY <1>1
<1> QED BY <1>4, <1>5, <1>6

\* What the composed statements of the anchors leave of the other rows, and the meta
\* row that ends or begins them.
AnchorsPut(was, rows, p) ==
    /\ \A o \in rows : o \in was \/ (o.t # "undo" /\ o.path = p /\ o.at = now)
    /\ \A o \in was : o.path # p => o \in rows
    /\ \E m \in rows : m.t = "meta" /\ m.path = p

LEMMA SoundAnchors ==
    ASSUME RowsFit, RowsInv, NEW p \in Path, NEW L \in SUBSET Line, NEW D \in SUBSET Line
    PROVE  /\ Sound(WithAnchors(db, p, L, D))
           /\ AnchorsPut(db.rows, WithAnchors(db, p, L, D).rows, p)
<1> DEFINE R == {r \in Of(db.rows, "lines", p) : r.k \in D}
           e == DeleteAll(R, db)
           new == {Row("lines", p, l) : l \in L}
           f == UpsertAll(new, e)
           meta == Row("meta", p, 0)
<1>1. R \in SUBSET db.rows
      BY DEF Of
<1>2. Sound(e) /\ e.rows = db.rows \ R
      BY <1>1, SoundDelete DEF RowsInv
<1>3. /\ new \in SUBSET Rows /\ IsFiniteSet(new) /\ Unique(new)
      /\ \A r \in new : r.t # "undo" /\ r.path = p /\ r.at = now
      <2>1. new = NewLines(p, L)
            BY DEF NewLines
      <2> HIDE DEF new
      <2>2. /\ new \in SUBSET Rows /\ IsFiniteSet(new) /\ Unique(new)
            /\ \A r \in new : r.t = "lines" /\ r.path = p /\ r.at = now
            BY <2>1, LinesTyped
      <2> QED BY <2>2
<1>4. meta \in Rows /\ meta.t = "meta" /\ meta.path = p /\ meta.at = now
      BY RowTyped DEF Table, Key, RowsFit
<1>0. \A r \in R : r.path = p
      BY DEF Of
<1> HIDE DEF R, e, new, meta
<1>5. Sound(f) /\ f.rows = Replaced(e.rows, new)
      BY <1>2, <1>3, SoundUpserts
<1> HIDE DEF f
<1> DEFINE c == Upsert(meta, f)
<1>6. Sound(c) /\ c.rows = Replaced(f.rows, {meta})
      BY <1>4, <1>5, SoundUpsert
<1> HIDE DEF c
<1>7. \A o \in c.rows : o \in db.rows \/ (o.t # "undo" /\ o.path = p /\ o.at = now)
      BY <1>2, <1>3, <1>4, <1>5, <1>6 DEF Replaced
<1>8. \A o \in db.rows : o.path # p => o \in c.rows
      BY <1>0, <1>2, <1>3, <1>4, <1>5, <1>6 DEF Replaced, SameKey
<1>9. meta \in c.rows
      BY <1>6 DEF Replaced
<1>10. AnchorsPut(db.rows, c.rows, p)
       BY <1>4, <1>7, <1>8, <1>9 DEF AnchorsPut
<1> QED BY <1>6, <1>10 DEF WithAnchors, c, meta, f, new, e, R

LEMMA SoundHealed ==
    ASSUME RowsFit, RowsInv, NEW p \in Path, NEW L \in SUBSET Line
    PROVE  LET c == UpsertAll({Row("lines", p, l) : l \in L},
                      DeleteAll(Of(db.rows, "lines", p), Upsert(Row("meta", p, 0), db))) IN
           Sound(c) /\ AnchorsPut(db.rows, c.rows, p)
<1> DEFINE new == {Row("lines", p, l) : l \in L}
           meta == Row("meta", p, 0)
           e == Upsert(meta, db)
           R == Of(db.rows, "lines", p)
           f == DeleteAll(R, e)
<1>1. meta \in Rows /\ meta.t = "meta" /\ meta.path = p /\ meta.at = now
      BY RowTyped DEF Table, Key, RowsFit
<1>2. /\ new \in SUBSET Rows /\ IsFiniteSet(new) /\ Unique(new)
      /\ \A r \in new : r.t = "lines" /\ r.path = p /\ r.at = now
      <2>1. new = NewLines(p, L)
            BY DEF NewLines
      <2> HIDE DEF new
      <2>2. /\ new \in SUBSET Rows /\ IsFiniteSet(new) /\ Unique(new)
            /\ \A r \in new : r.t = "lines" /\ r.path = p /\ r.at = now
            BY <2>1, LinesTyped
      <2> QED BY <2>2
<1>0. \A r \in R : r.path = p /\ r.t = "lines"
      BY DEF Of
<1> HIDE DEF meta, new
<1>3. Sound(e) /\ e.rows = Replaced(db.rows, {meta})
      BY <1>1, SoundUpsert DEF RowsInv
<1>4. R \in SUBSET e.rows
      BY <1>1, <1>3 DEF Replaced, Of, SameKey
<1> HIDE DEF e, R
<1>5. Sound(f) /\ f.rows = e.rows \ R
      BY <1>3, <1>4, SoundDelete
<1> HIDE DEF f
<1> DEFINE c == UpsertAll(new, f)
<1>6. Sound(c) /\ c.rows = Replaced(f.rows, new)
      BY <1>2, <1>5, SoundUpserts
<1> HIDE DEF c
<1>7. \A o \in c.rows : o \in db.rows \/ (o.t # "undo" /\ o.path = p /\ o.at = now)
      BY <1>1, <1>2, <1>3, <1>5, <1>6 DEF Replaced
<1>8. \A o \in db.rows : o.path # p => o \in c.rows
      BY <1>0, <1>1, <1>2, <1>3, <1>5, <1>6 DEF Replaced, SameKey
<1>9. meta \in c.rows
      BY <1>0, <1>1, <1>2, <1>3, <1>5, <1>6 DEF Replaced, SameKey
<1>10. AnchorsPut(db.rows, c.rows, p)
       BY <1>1, <1>7, <1>8, <1>9 DEF AnchorsPut
<1> QED BY <1>6, <1>10 DEF c, f, R, e, new, meta

\* A statement that only deletes.
LEMMA Deletes ==
    ASSUME RowsFit, RowsInv, NEW R \in SUBSET db.rows, db' = DeleteAll(R, db), now' = now
    PROVE  RowsInv'
BY SoundDelete DEF RowsInv

LEMMA StepRows ==
    ASSUME RowsFit, RowsInv, [Next]_vars
    PROVE  RowsInv'
<1>0. Sound(db) /\ now \in Nat
      BY DEF RowsInv
<1>1. ASSUME NEW p \in Path, PushUndo(p)
      PROVE  RowsInv'
      <2> DEFINE r == Row("undo", p, Top(db.rows, p) + 1)
      <2>1. /\ db' = DeleteAll(TooDeep(Insert(r, db).rows, p), Insert(r, db)) /\ now' = now
            /\ Top(db.rows, p) < MaxDepth
            BY <1>1 DEF PushUndo, Wrote
      <2>2. Top(db.rows, p) \in Nat
            BY <1>0, TopNat DEF Sound
      <2>3. Top(db.rows, p) + 1 \in Key
            BY <2>1, <2>2 DEF Key, RowsFit
      <2>4. r \in Rows /\ r.t = "undo" /\ r.path = p /\ r.k = Top(db.rows, p) + 1
            BY <2>3, RowTyped DEF Table
      <2> HIDE DEF r
      <2> QED BY <1>0, <2>1, <2>4, SoundPush DEF RowsInv
<1>2. ASSUME NEW p \in Path, PopUndo(p)
      PROVE  RowsInv'
      BY <1>2, Deletes DEF PopUndo, Wrote, Of
<1>3. ASSUME NEW p \in Path, DeleteUndo(p)
      PROVE  RowsInv'
      BY <1>3, Deletes DEF DeleteUndo, Wrote, Of
<1>4. ASSUME NEW p \in Path, HealAnchors(p)
      PROVE  RowsInv'
      BY <1>0, <1>4 DEF HealAnchors, RowsInv
<1>5. ASSUME NEW p \in Path, PurgePath(p)
      PROVE  RowsInv'
      BY <1>5, Deletes DEF PurgePath, Purged, Wrote
<1>6. ASSUME NEW p \in Path, NEW s \in Session, UpsertServed(s, p) \/ UpsertServedReported(s, p)
      PROVE  RowsInv'
      <2> DEFINE r == Row("served", p, s)
      <2>1. db' = Upsert(r, db) /\ now' = now
            BY <1>6 DEF UpsertServed, UpsertServedReported, Wrote
      <2>2. r \in Rows /\ r.t # "undo"
            BY RowTyped DEF Table, Key
      <2> HIDE DEF r
      <2> QED BY <1>0, <2>1, <2>2, SoundUpsert DEF RowsInv
<1>7. ASSUME NEW p \in Path, NEW L \in SUBSET Line, ForeignPut(p, L)
      PROVE  RowsInv'
      <2>1. db' = WithAnchors(db, p, L, {}) /\ now' = now
            BY <1>7 DEF ForeignPut
      <2> QED BY <1>0, <2>1, SoundAnchors DEF RowsInv
<1>8. ASSUME NEW p \in Path, NEW L \in SUBSET Line, PutHealed(p, L)
      PROVE  RowsInv'
      <2>1. /\ db' = UpsertAll({Row("lines", p, l) : l \in L},
                               DeleteAll(Of(db.rows, "lines", p), Upsert(Row("meta", p, 0), db)))
            /\ now' = now
            BY <1>8 DEF PutHealed, Wrote
      <2>2. Sound(db')
            BY <2>1, SoundHealed
      <2> QED BY <1>0, <2>1, <2>2 DEF RowsInv
<1>9. ASSUME NEW p \in Path, NEW L \in SUBSET Line, NEW D \in SUBSET Line, PutAnchors(p, L, D)
      PROVE  RowsInv'
      <2>1. db' = WithAnchors(db, p, L, D) /\ now' = now
            BY <1>9 DEF PutAnchors, Wrote
      <2> QED BY <1>0, <2>1, SoundAnchors DEF RowsInv
<1>10. ASSUME NEW p \in Path, NEW q \in Path, RenamePath(p, q)
       PROVE  RowsInv'
       <2>1. db' = Moved(p, q) /\ now' = now /\ p # q
             BY <1>10 DEF RenamePath, Wrote
       <2> QED BY <1>0, <2>1, SoundMoved DEF RowsInv
<1>11. CASE DropServed
       <2>1. PICK R \in SUBSET db.rows : db' = DeleteAll(R, db)
             BY <1>11 DEF DropServed, Wrote, Of
       <2>2. now' = now
             BY <1>11 DEF DropServed, Wrote
       <2> QED BY <2>1, <2>2, Deletes
<1>12. CASE PurgeStep
       <2> DEFINE R == UNION {Of(db.rows, Head(job.fams), p) : p \in job.victim}
       <2>1. db' = DeleteAll(R, db) /\ now' = now
             BY <1>12 DEF PurgeStep, Step
       <2>2. R \in SUBSET db.rows
             BY DEF Of
       <2> HIDE DEF R
       <2> QED BY <2>1, <2>2, Deletes
<1>13. CASE SweepNext
       <2>1. CASE TtlStep \/ LruStep \/ ExtraStep
             BY <1>0, <2>1 DEF TtlStep, LruStep, ExtraStep, Step, RowsInv
       <2>2. CASE SlimStep
             <3> DEFINE R == UNION {Slimmed(db.rows, job.pool[i].path) : i \in DOMAIN job.pool}
             <3>1. db' = DeleteAll(R, db) /\ now' = now
                   BY <2>2 DEF SlimStep, Step
             <3>2. R \in SUBSET db.rows
                   BY DEF Slimmed, OverCap, Of
             <3> HIDE DEF R
             <3> QED BY <3>1, <3>2, Deletes
       <2>3. CASE OrphanStep
             BY <2>3, Deletes DEF OrphanStep, Orphans, Step
       <2> QED BY <1>13, <2>1, <2>2, <2>3 DEF SweepNext
<1>14. CASE PruneStep
       <2>1. PICK R \in SUBSET db.rows : db' = DeleteAll(R, db) /\ now' = now
             BY <1>14 DEF PruneStep, Step, OldRows
       <2> QED BY <2>1, Deletes
<1>15. CASE Crash \/ Open \/ Publish
       BY <1>0, <1>15 DEF Crash, Open, Publish, RowsInv
<1>16. CASE Tick
       BY <1>0, <1>16 DEF Tick, RowsInv
<1>17. CASE UNCHANGED vars
       BY <1>0, <1>17 DEF vars, RowsInv
<1> QED BY <1>1, <1>2, <1>3, <1>4, <1>5, <1>6, <1>7, <1>8, <1>9, <1>10, <1>11, <1>12, <1>13,
           <1>14, <1>15, <1>16, <1>17 DEF Next

\* Whatever writes the tables - the tools, another process, a sweep, a prune, a heal -
\* and wherever a death cuts it, the two maintained counts are what counting the rows
\* would give, and a path has no more undo layers than the stack holds.
THEOREM RowsCounted ==
    ASSUME RowsFit
    PROVE  Spec => [](CountsExact /\ UndoBounded)
<1>1. Init => RowsInv
      BY InitRows
<1>2. RowsInv /\ [Next]_vars => RowsInv'
      BY StepRows
<1>3. RowsInv => CountsExact /\ UndoBounded
      BY DEF RowsInv, Sound, Exact, UndosFit, CountsExact, UndoBounded, LineRows
<1> QED BY <1>1, <1>2, <1>3, PTL DEF Spec

\* ------------------------------------------------------------------------
\* Ages, and the line rows' meta rows.

\* A row is dated when it is written, a deeper layer of a stack no later than one above.
Dated(rows, t) == \A r \in rows : r.at \in 1 .. t
UndoAged(rows) ==
    \A r, o \in rows : r.t = "undo" /\ o.t = "undo" /\ r.path = o.path /\ r.k <= o.k => r.at <= o.at

\* Every line row has its meta row, but for those of the paths V.
Covered(rows, V) ==
    \A r \in rows : r.t = "lines" /\ r.path \notin V => \E m \in rows : m.t = "meta" /\ m.path = r.path

\* What a statement of the tools may do.
Gentle(rows) ==
    /\ Dated(rows, now) /\ UndoAged(rows)
    /\ Covered(db.rows, {}) => Covered(rows, {})

Aged == Dated(db.rows, now) /\ UndoAged(db.rows)

LEMMA GentleDrop ==
    ASSUME Aged, NEW R \in SUBSET db.rows, NEW rows, rows = db.rows \ R,
           \/ \A r \in R : r.t # "meta"
           \/ \E p \in Path : R = {r \in db.rows : r.path = p}
    PROVE  Gentle(rows)
<1>1. Dated(rows, now) /\ UndoAged(rows)
      BY DEF Aged, Dated, UndoAged
<1>2. ASSUME \A r \in R : r.t # "meta"
      PROVE  Covered(db.rows, {}) => Covered(rows, {})
      BY <1>2 DEF Covered
<1>3. ASSUME NEW p \in Path, R = {r \in db.rows : r.path = p}
      PROVE  Covered(db.rows, {}) => Covered(rows, {})
      BY <1>3 DEF Covered
<1> QED BY <1>1, <1>2, <1>3 DEF Gentle

LEMMA GentlePut ==
    ASSUME Aged, now \in Nat \ {0}, NEW p \in Path, NEW rows, AnchorsPut(db.rows, rows, p)
    PROVE  Gentle(rows) /\ \A V : Covered(db.rows, V) => Covered(rows, V)
<1>1. Dated(rows, now)
      <2> SUFFICES ASSUME NEW r \in rows PROVE r.at \in 1 .. now
          BY DEF Dated
      <2>1. r.at \in 1 .. now \/ r.at = now
            BY DEF AnchorsPut, Aged, Dated
      <2> QED BY <2>1
<1>2. UndoAged(rows)
      BY DEF AnchorsPut, Aged, UndoAged
<1>3. \A V : Covered(db.rows, V) => Covered(rows, V)
      BY DEF Covered, AnchorsPut
<1> QED BY <1>1, <1>2, <1>3 DEF Gentle

LEMMA GentleServed ==
    ASSUME Aged, now \in Nat \ {0}, NEW r, r.t = "served", r.at = now,
           NEW rows, rows = Replaced(db.rows, {r})
    PROVE  Gentle(rows)
<1>1. Dated(rows, now)
      <2> SUFFICES ASSUME NEW o \in rows PROVE o.at \in 1 .. now
          BY DEF Dated
      <2>1. o.at \in 1 .. now \/ o.at = now
            BY DEF Replaced, Aged, Dated
      <2> QED BY <2>1
<1>2. UndoAged(rows)
      BY DEF Replaced, Aged, UndoAged
<1>3. Covered(db.rows, {}) => Covered(rows, {})
      BY DEF Covered, Replaced, SameKey
<1> QED BY <1>1, <1>2, <1>3 DEF Gentle

LEMMA GentlePush ==
    ASSUME Aged, now \in Nat \ {0}, Sound(db), NEW p \in Path, NEW r, r.t = "undo", r.at = now,
           r.path = p, r.k = Top(db.rows, p) + 1,
           NEW rows, rows \subseteq db.rows \cup {r}, \A o \in db.rows : o.t # "undo" => o \in rows
    PROVE  Gentle(rows)
<1>0. /\ Top(db.rows, p) \in Nat
      /\ \A o \in db.rows : o.t = "undo" /\ o.path = p => o.k \in Nat /\ o.k <= Top(db.rows, p)
      BY TopNat DEF Sound, Of, UndoNumbered
<1>1. Dated(rows, now)
      <2> SUFFICES ASSUME NEW o \in rows PROVE o.at \in 1 .. now
          BY DEF Dated
      <2>1. o.at \in 1 .. now \/ o.at = now
            BY DEF Aged, Dated
      <2> QED BY <2>1
<1>2. UndoAged(rows)
      <2> SUFFICES ASSUME NEW o \in rows, NEW x \in rows, o.t = "undo", x.t = "undo",
                          o.path = x.path, o.k <= x.k
                   PROVE  o.at <= x.at
          BY DEF UndoAged
      <2>1. o.at \in 1 .. now /\ x.at \in 1 .. now
            BY <1>1 DEF Dated
      <2>2. CASE x = r
            BY <2>1, <2>2
      <2>3. CASE x # r /\ o # r
            BY <2>3 DEF Aged, UndoAged
      <2>4. CASE x # r /\ o = r
            <3>1. x.k \in Nat /\ x.k <= Top(db.rows, p) /\ o.k = Top(db.rows, p) + 1
                  BY <1>0, <2>4
            <3>2. ~(o.k <= x.k)
                  BY <1>0, <3>1
            <3> QED BY <3>2
      <2> QED BY <2>2, <2>3, <2>4
<1>3. Covered(db.rows, {}) => Covered(rows, {})
      BY DEF Covered
<1> QED BY <1>1, <1>2, <1>3 DEF Gentle

LEMMA GentleMoved ==
    ASSUME RowsFit, Sound(db), Aged, NEW p \in Path, NEW q \in Path, p # q
    PROVE  Gentle(Moved(p, q).rows)
<1> DEFINE rows == Moved(p, q).rows
           As(r) == [t |-> r.t, path |-> q, k |-> r.k, at |-> r.at]
<1>1. /\ \A o \in rows : \/ o \in db.rows /\ o.path # p /\ o.path # q
                         \/ \E r \in db.rows : r.path = p /\ o = As(r)
      /\ \A r \in db.rows : r.path # p /\ r.path # q => r \in rows
      /\ \A r \in db.rows : r.path = p => As(r) \in rows
      BY SoundMoved
<1> HIDE DEF rows
<1>2. Dated(rows, now)
      BY <1>1 DEF Aged, Dated
<1>3. UndoAged(rows)
      <2> SUFFICES ASSUME NEW o \in rows, NEW x \in rows, o.t = "undo", x.t = "undo",
                          o.path = x.path, o.k <= x.k
                   PROVE  o.at <= x.at
          BY DEF UndoAged
      <2>1. CASE o.path # q
            BY <1>1, <2>1 DEF Aged, UndoAged
      <2>2. CASE o.path = q
            <3>1. PICK r \in db.rows : r.path = p /\ o = As(r)
                  BY <1>1, <2>2
            <3>2. PICK s \in db.rows : s.path = p /\ x = As(s)
                  BY <1>1, <2>2
            <3>3. r.t = "undo" /\ s.t = "undo" /\ r.k <= s.k /\ o.at = r.at /\ x.at = s.at
                  BY <3>1, <3>2
            <3> QED BY <3>1, <3>2, <3>3 DEF Aged, UndoAged
      <2> QED BY <2>1, <2>2
<1>4. ASSUME Covered(db.rows, {})
      PROVE  Covered(rows, {})
      <2> SUFFICES ASSUME NEW o \in rows, o.t = "lines"
                   PROVE  \E m \in rows : m.t = "meta" /\ m.path = o.path
          BY DEF Covered
      <2>1. CASE o.path # q
            BY <1>1, <1>4, <2>1 DEF Covered
      <2>2. CASE o.path = q
            <3>1. PICK r \in db.rows : r.path = p /\ o = As(r)
                  BY <1>1, <2>2
            <3>2. PICK m \in db.rows : m.t = "meta" /\ m.path = p
                  BY <1>4, <3>1 DEF Covered
            <3>3. As(m) \in rows /\ As(m).t = "meta" /\ As(m).path = q
                  BY <1>1, <3>2
            <3> QED BY <2>2, <3>3
      <2> QED BY <2>1, <2>2
<1> QED BY <1>2, <1>3, <1>4 DEF Gentle, rows

\* ------------------------------------------------------------------------
\* The job under way, and the pool of a sweep.
Entries == [path : Path, ts : Nat]
FamsLeft == {<<>>, <<"lines">>, <<"meta", "lines">>, <<"served", "meta", "lines">>, Families}
Pcs == {"none", "ttl", "slim", "lru", "extra", "orphans", "heal", "served", "meta", "lines"}
Jobs == [pc : Pcs, pool : Seq(Entries), victim : SUBSET Path, fams : FamsLeft,
         dropped : Nat, extra : Nat]

\* The pool has paths that are there, each once, with the time of its latest row, the
\* oldest first.
Pooled(rows, q) ==
    /\ \A i, j \in 1 .. Len(q) : i < j => q[i].ts <= q[j].ts /\ q[i].path # q[j].path
    /\ \A i \in 1 .. Len(q) : q[i].path \in Held(rows) /\ q[i].ts = Recency(rows, q[i].path)
InPool(q, p) == \E i \in 1 .. Len(q) : q[i].path = p

LEMMA RecencyNat ==
    ASSUME NEW d, Exact(d), now \in Nat, Dated(d.rows, now), NEW p \in Held(d.rows)
    PROVE  /\ Recency(d.rows, p) \in Nat
           /\ \A r \in d.rows : r.path = p /\ r.t \in PathTable => r.at <= Recency(d.rows, p)
           /\ \E r \in d.rows : r.path = p /\ r.t \in PathTable /\ r.at = Recency(d.rows, p)
<1> DEFINE X == {x \in d.rows : x.path = p /\ x.t \in PathTable}
           ats == {r.at : r \in X}
           f == [r \in X |-> r.at]
<1>1. IsFiniteSet(X)
      BY FS_Subset DEF Exact
<1>2. f \in Surjection(X, ats)
      BY DEF Surjection
<1>3. IsFiniteSet(ats)
      <2> HIDE DEF f, ats, X
      <2> QED BY <1>1, <1>2, FS_Surjection
<1>4. ats \in SUBSET Nat
      BY DEF Dated
<1>5. X # {}
      BY DEF Held, Holds, Of
<1>6. ats # {}
      BY <1>5
<1>7. Recency(d.rows, p) = Max(ats)
      BY DEF Recency
<1>8. Max(ats) \in ats /\ \A n \in ats : Max(ats) >= n
      <2> HIDE DEF ats
      <2> QED BY <1>3, <1>4, <1>6, MaxNat
<1>9. \A r \in X : r.at \in ats /\ r.at \in Nat
      BY <1>4
<1>10. Max(ats) \in Nat
      <2> HIDE DEF ats
      <2> QED BY <1>4, <1>8
<1>11. \A r \in X : r.at <= Max(ats)
      <2> SUFFICES ASSUME NEW r \in X PROVE r.at <= Max(ats)
          OBVIOUS
      <2>1. r.at \in ats /\ r.at \in Nat
            BY <1>9
      <2> HIDE DEF ats, X
      <2> QED BY <1>8, <1>10, <2>1
<1>12. \E r \in X : r.at = Max(ats)
      BY <1>8
<1> QED BY <1>7, <1>10, <1>11, <1>12

LEMMA SweepsTyped ==
    ASSUME NEW d, Exact(d), now \in Nat, Dated(d.rows, now), NEW j \in Sweeps(d)
    PROVE  /\ j \in Jobs /\ j.pc = "ttl" /\ j.fams = <<>> /\ j.victim = {}
           /\ Pooled(d.rows, j.pool) /\ \A p \in Held(d.rows) : InPool(j.pool, p)
<1> DEFINE held0 == Held(d.rows)
           En(p) == [path |-> p, ts |-> Recency(d.rows, p)]
           S == {En(p) : p \in held0}
           n == Cardinality(S)
           f == [p \in held0 |-> En(p)]
<1>1. IsFiniteSet(held0)
      BY HeldFinite DEF Exact, Db
<1>2. f \in Surjection(held0, S)
      BY DEF Surjection
<1>3. IsFiniteSet(S) /\ n \in Nat
      <2>1. IsFiniteSet(S)
            <3> HIDE DEF f, S, held0
            <3> QED BY <1>1, <1>2, FS_Surjection
      <2> HIDE DEF S
      <2> QED BY <2>1, FS_CardinalityType
<1>4. \A p \in held0 : En(p) \in Entries
      <2> SUFFICES ASSUME NEW p \in held0 PROVE En(p) \in Entries
          OBVIOUS
      <2>1. Recency(d.rows, p) \in Nat
            BY RecencyNat
      <2>2. p \in Path
            BY DEF Held
      <2> QED BY <2>1, <2>2 DEF Entries
<1>5. PICK q \in OldestFirst(d.rows) : j = [NoJob EXCEPT !.pc = "ttl", !.pool = q]
      BY DEF Sweeps
<1>6. q \in SetToSeqs(S) /\ \A i, k \in DOMAIN q : i < k => q[i].ts <= q[k].ts
      BY <1>5 DEF OldestFirst
<1>7. q \in [1 .. n -> S] /\ \A i, k \in 1 .. n : i # k => q[i] # q[k]
      <2> HIDE DEF S
      <2> QED BY <1>6 DEF SetToSeqs
<1>8. \A e \in S : e.path \in held0 /\ e = En(e.path) /\ e \in Entries
      BY <1>4
<1> HIDE DEF S, n
<1>9. q \in Seq(Entries) /\ Len(q) = n /\ DOMAIN q = 1 .. n
      <2>1. q \in [1 .. n -> Entries]
            BY <1>7, <1>8
      <2> QED BY <1>3, <2>1
<1>10. Pooled(d.rows, q)
      <2>1. \A i \in 1 .. n : q[i].path \in held0 /\ q[i] = En(q[i].path)
            BY <1>7, <1>8
      <2>2. \A i, k \in 1 .. n : i < k => q[i].path # q[k].path
            <3> SUFFICES ASSUME NEW i \in 1 .. n, NEW k \in 1 .. n, i < k, q[i].path = q[k].path
                         PROVE  FALSE
                OBVIOUS
            <3>1. q[i] = q[k]
                  BY <2>1
            <3>2. i # k
                  BY <1>3
            <3> QED BY <1>7, <3>1, <3>2
      <2> QED BY <1>6, <1>9, <2>1, <2>2 DEF Pooled
<1>11. \A p \in held0 : InPool(q, p)
      <2>1. q \in Injection(1 .. n, S)
            BY <1>7 DEF Injection, IsInjective
      <2>2. IsFiniteSet(1 .. n) /\ Cardinality(1 .. n) = n
            BY <1>3, FS_Interval
      <2>3. q \in Surjection(1 .. n, S)
            BY <1>3, <2>1, <2>2, FS_Injection DEF n
      <2>4. \A e \in S : \E i \in 1 .. n : q[i] = e
            BY <2>3 DEF Surjection
      <2>5. \A p \in held0 : En(p) \in S /\ En(p).path = p
            BY DEF S
      <2> QED BY <1>9, <2>4, <2>5, ZenonT(60) DEF InPool
<1>12. /\ j.pc = "ttl" /\ j.pool = q /\ j.fams = <<>> /\ j.victim = {}
       /\ j.dropped = 0 /\ j.extra = 0
       /\ j = [pc |-> "ttl", pool |-> q, victim |-> {}, fams |-> <<>>, dropped |-> 0, extra |-> 0]
      BY <1>5 DEF NoJob
<1>13. j \in Jobs
      <2>1. <<>> \in FamsLeft /\ "ttl" \in Pcs
            BY DEF FamsLeft, Pcs
      <2> QED BY <1>9, <1>12, <2>1 DEF Jobs
<1> QED BY <1>10, <1>11, <1>12, <1>13

\* ------------------------------------------------------------------------
\* What is so in every state, whoever else writes.
JobInv ==
    /\ job \in Jobs
    /\ job.pc \in {"none", "served", "meta", "lines", "slim", "orphans"} => job.fams = <<>>
    /\ job.pc = "heal" => job.fams \in {<<"meta", "lines">>, <<"lines">>}
ScalarInv ==
    /\ limits \in LimitSet /\ held \in LimitSet /\ counter \in 0 .. MaxWrites
    /\ up \in BOOLEAN /\ now \in 1 .. MaxNow
StateInv == RowsInv /\ Aged /\ JobInv /\ ScalarInv

Healing(p) == [NoJob EXCEPT !.pc = "heal", !.victim = {p}, !.fams = HealedFamilies]

\* The statements of the tools, which find no job under way.
Tools ==
    \/ \E p \in Path : PushUndo(p) \/ PopUndo(p) \/ DeleteUndo(p) \/ HealAnchors(p) \/ PurgePath(p)
    \/ \E p \in Path, s \in Session : UpsertServed(s, p) \/ UpsertServedReported(s, p)
    \/ \E p \in Path, L \in SUBSET Line : PutHealed(p, L)
    \/ \E p \in Path, L, D \in SUBSET Line : PutAnchors(p, L, D)
    \/ \E p, q \in Path : RenamePath(p, q)
    \/ DropServed

Unmoved == UNCHANGED <<limits, held, up, now>> /\ counter' \in 0 .. MaxWrites
NextJob ==
    \/ job' = job
    \/ job' \in Sweeps(db')
    \/ db' = db /\ \E p \in Path : job' = Healing(p)

LEMMA WroteStep ==
    ASSUME RowsFit, ScalarInv, NEW d, NEW n \in Nat, Wrote(d, n)
    PROVE  db' = d /\ Unmoved
<1>1. counter \in Nat /\ counter + n <= MaxWrites /\ counter' = counter + n
      BY DEF ScalarInv, Wrote
<1>2. counter' \in 0 .. MaxWrites
      BY <1>1 DEF RowsFit
<1> QED BY <1>2 DEF Wrote, Unmoved

LEMMA ToolSteps ==
    ASSUME RowsFit, StateInv, Tools
    PROVE  /\ up /\ job.pc = "none" /\ Unmoved /\ NextJob /\ Gentle(db'.rows)
<1>0. /\ Sound(db) /\ Exact(db) /\ RowsInv /\ Aged /\ ScalarInv
      /\ now \in Nat \ {0}
      BY DEF StateInv, RowsInv, Sound, ScalarInv, RowsFit
<1>1. ASSUME NEW p \in Path, PushUndo(p)
      PROVE  up /\ job.pc = "none" /\ Unmoved /\ NextJob /\ Gentle(db'.rows)
      <2> DEFINE r == Row("undo", p, Top(db.rows, p) + 1)
                 e == DeleteAll(TooDeep(Insert(r, db).rows, p), Insert(r, db))
      <2>1. Wrote(e, 1) /\ up /\ job.pc = "none" /\ SweepIfDue /\ Top(db.rows, p) < MaxDepth
            BY <1>1 DEF PushUndo, AtRest
      <2>2. Top(db.rows, p) \in Nat
            BY <1>0, TopNat DEF Sound
      <2>3. Top(db.rows, p) + 1 \in Key
            BY <2>1, <2>2 DEF Key, RowsFit
      <2>4. /\ r \in Rows /\ r.t = "undo" /\ r.path = p /\ r.k = Top(db.rows, p) + 1
            /\ r.at = now
            BY <1>0, <2>3, RowTyped DEF Table
      <2> HIDE DEF r
      <2>5. e.rows \subseteq db.rows \cup {r} /\ \A o \in db.rows : o.t # "undo" => o \in e.rows
            BY <1>0, <2>4, SoundPush
      <2> HIDE DEF e
      <2>6. db' = e /\ Unmoved
            BY <1>0, <2>1, WroteStep
      <2>7. Gentle(db'.rows)
            BY <1>0, <2>4, <2>5, <2>6, GentlePush
      <2> QED BY <2>1, <2>6, <2>7 DEF SweepIfDue, NextJob
<1>2. ASSUME NEW R \in SUBSET db.rows, Wrote(DeleteAll(R, db), 0), UNCHANGED job, AtRest,
             \/ \A r \in R : r.t # "meta"
             \/ \E p \in Path : R = {r \in db.rows : r.path = p}
      PROVE  up /\ job.pc = "none" /\ Unmoved /\ NextJob /\ Gentle(db'.rows)
      <2> DEFINE e == DeleteAll(R, db)
      <2>1. e.rows = db.rows \ R
            BY <1>0, SoundDelete
      <2>2. Wrote(e, 0)
            BY <1>2
      <2> HIDE DEF e
      <2>3. db' = e /\ Unmoved
            BY <1>0, <2>2, WroteStep
      <2>4. Gentle(e.rows)
            BY <1>0, <1>2, <2>1, GentleDrop
      <2> QED BY <1>2, <2>3, <2>4 DEF AtRest, NextJob
<1>3. ASSUME NEW p \in Path, PopUndo(p) \/ DeleteUndo(p)
      PROVE  up /\ job.pc = "none" /\ Unmoved /\ NextJob /\ Gentle(db'.rows)
      <2>1. PICK R \in SUBSET Of(db.rows, "undo", p) :
                 Wrote(DeleteAll(R, db), 0) /\ UNCHANGED job /\ AtRest
            BY <1>3 DEF PopUndo, DeleteUndo
      <2>2. R \in SUBSET db.rows /\ \A r \in R : r.t # "meta"
            BY DEF Of
      <2> QED BY <1>2, <2>1, <2>2
<1>4. ASSUME NEW p \in Path, HealAnchors(p)
      PROVE  up /\ job.pc = "none" /\ Unmoved /\ NextJob /\ Gentle(db'.rows)
      <2>1. /\ up /\ job.pc = "none" /\ db' = db /\ job' = Healing(p)
            /\ UNCHANGED <<limits, held, counter, up, now>>
            BY <1>4 DEF HealAnchors, AtRest, Healing
      <2>2. Gentle(db.rows)
            BY <1>0 DEF Gentle, Aged
      <2>3. Unmoved
            BY <1>0, <2>1 DEF Unmoved, ScalarInv
      <2> QED BY <2>1, <2>2, <2>3 DEF NextJob
<1>5. ASSUME NEW p \in Path, PurgePath(p)
      PROVE  up /\ job.pc = "none" /\ Unmoved /\ NextJob /\ Gentle(db'.rows)
      <2> DEFINE R == {r \in db.rows : r.path = p}
      <2>1. Wrote(DeleteAll(R, db), 0) /\ UNCHANGED job /\ AtRest
            BY <1>5 DEF PurgePath, Purged
      <2>2. R \in SUBSET db.rows /\ \E q \in Path : R = {r \in db.rows : r.path = q}
            OBVIOUS
      <2> HIDE DEF R
      <2> QED BY <1>2, <2>1, <2>2
<1>6. ASSUME NEW p \in Path, NEW s \in Session, UpsertServed(s, p) \/ UpsertServedReported(s, p)
      PROVE  up /\ job.pc = "none" /\ Unmoved /\ NextJob /\ Gentle(db'.rows)
      <2> DEFINE r == Row("served", p, s)
                 e == Upsert(r, db)
      <2>1. r \in Rows /\ r.t = "served" /\ r.at = now
            BY <1>0, RowTyped DEF Table, Key
      <2>2. /\ Wrote(e, 1) \/ Wrote(e, 0)
            /\ up /\ job.pc = "none" /\ (SweepIfDue \/ UNCHANGED job)
            BY <1>6 DEF UpsertServed, UpsertServedReported, AtRest
      <2> HIDE DEF r
      <2>3. e.rows = Replaced(db.rows, {r})
            BY <1>0, <2>1, SoundUpsert
      <2> HIDE DEF e
      <2>4. db' = e /\ Unmoved
            BY <1>0, <2>2, WroteStep
      <2>5. Gentle(e.rows)
            BY <1>0, <2>1, <2>3, GentleServed
      <2> QED BY <2>2, <2>4, <2>5 DEF SweepIfDue, NextJob
<1>7. ASSUME NEW p \in Path, NEW L \in SUBSET Line, PutHealed(p, L)
      PROVE  up /\ job.pc = "none" /\ Unmoved /\ NextJob /\ Gentle(db'.rows)
      <2> DEFINE e == UpsertAll({Row("lines", p, l) : l \in L},
                        DeleteAll(Of(db.rows, "lines", p), Upsert(Row("meta", p, 0), db)))
      <2>1. Wrote(e, 1) /\ up /\ job.pc = "none" /\ UNCHANGED job
            BY <1>7 DEF PutHealed, AtRest
      <2>2. AnchorsPut(db.rows, e.rows, p)
            BY <1>0, SoundHealed
      <2> HIDE DEF e
      <2>3. db' = e /\ Unmoved
            BY <1>0, <2>1, WroteStep
      <2>4. Gentle(e.rows)
            BY <1>0, <2>2, GentlePut
      <2> QED BY <2>1, <2>3, <2>4 DEF NextJob
<1>8. ASSUME NEW p \in Path, NEW L \in SUBSET Line, NEW D \in SUBSET Line, PutAnchors(p, L, D)
      PROVE  up /\ job.pc = "none" /\ Unmoved /\ NextJob /\ Gentle(db'.rows)
      <2> DEFINE e == WithAnchors(db, p, L, D)
                 n == Cardinality(D) + (IF L = {} THEN 0 ELSE 1) + 1
      <2>1. Wrote(e, n) /\ up /\ job.pc = "none" /\ UNCHANGED job
            BY <1>8 DEF PutAnchors, AtRest
      <2>2. n \in Nat
            <3>1. Cardinality(D) \in Nat
                  BY FS_Subset, FS_CardinalityType DEF RowsFit
            <3> QED BY <3>1
      <2>3. AnchorsPut(db.rows, e.rows, p)
            BY <1>0, SoundAnchors
      <2> HIDE DEF e, n
      <2>4. db' = e /\ Unmoved
            BY <1>0, <2>1, <2>2, WroteStep
      <2>5. Gentle(e.rows)
            BY <1>0, <2>3, GentlePut
      <2> QED BY <2>1, <2>4, <2>5 DEF NextJob
<1>9. ASSUME NEW p \in Path, NEW q \in Path, RenamePath(p, q)
      PROVE  up /\ job.pc = "none" /\ Unmoved /\ NextJob /\ Gentle(db'.rows)
      <2> DEFINE e == Moved(p, q)
      <2>1. Wrote(e, 0) /\ up /\ job.pc = "none" /\ UNCHANGED job /\ p # q
            BY <1>9 DEF RenamePath, AtRest
      <2>2. Gentle(e.rows)
            BY <1>0, <2>1, GentleMoved
      <2> HIDE DEF e
      <2>3. db' = e /\ Unmoved
            BY <1>0, <2>1, WroteStep
      <2> QED BY <2>1, <2>2, <2>3 DEF NextJob
<1>10. CASE DropServed
       <2>1. PICK R \in SUBSET db.rows :
                 /\ \A r \in R : r.t = "served"
                 /\ Wrote(DeleteAll(R, db), 0) /\ UNCHANGED job /\ AtRest
             BY <1>10 DEF DropServed, Of
       <2> QED BY <1>2, <2>1
<1> QED BY <1>1, <1>3, <1>4, <1>5, <1>6, <1>7, <1>8, <1>9, <1>10 DEF Tools

\* The steps of a job.
Runs == PurgeStep \/ SweepNext \/ PruneStep

LEMMA VictimJob ==
    ASSUME job \in Jobs, job.pool # <<>>
    PROVE  LET p == Head(job.pool).path IN
           /\ Head(job.pool) = job.pool[1] /\ job.pool[1] \in Entries /\ p \in Path
           /\ Victim(p) \in Jobs
           /\ Victim(p) = [pc |-> job.pc, pool |-> Tail(job.pool), victim |-> {p}, fams |-> Families,
                           dropped |-> job.dropped, extra |-> job.extra]
<1>1. job.pool \in Seq(Entries) /\ Head(job.pool) = job.pool[1] /\ Tail(job.pool) \in Seq(Entries)
      BY DEF Jobs
<1>2. job.pool[1] \in Entries
      BY <1>1
<1>3. Head(job.pool).path \in Path
      BY <1>1, <1>2 DEF Entries
<1>4. Families \in FamsLeft
      BY DEF FamsLeft
<1> DEFINE p == Head(job.pool).path
           v == [pc |-> job.pc, pool |-> Tail(job.pool), victim |-> {p}, fams |-> Families,
                 dropped |-> job.dropped, extra |-> job.extra]
<1>5. v \in Jobs
      BY <1>1, <1>3, <1>4 DEF Jobs
<1>6. Victim(p) = v
      <2> HIDE DEF p
      <2>1. job.pool = job.pool /\ Victim(p) = [job EXCEPT !.victim = {p}, !.fams = Families,
                                                           !.pool = Tail(job.pool)]
            BY DEF Victim
      <2> QED BY <2>1 DEF Jobs
<1> QED BY <1>1, <1>2, <1>3, <1>5, <1>6

LEMMA FamsStep ==
    ASSUME job \in Jobs, job.fams # <<>>
    PROVE  /\ FamiliesLeft \in FamsLeft
           /\ \/ job.fams = Families /\ Head(job.fams) = "undo"
                    /\ FamiliesLeft = <<"served", "meta", "lines">>
              \/ job.fams = <<"served", "meta", "lines">> /\ Head(job.fams) = "served"
                    /\ FamiliesLeft = <<"meta", "lines">>
              \/ job.fams = <<"meta", "lines">> /\ Head(job.fams) = "meta" /\ FamiliesLeft = <<"lines">>
              \/ job.fams = <<"lines">> /\ Head(job.fams) = "lines" /\ FamiliesLeft = <<>>
<1>1. job.fams \in FamsLeft
      BY DEF Jobs
<1>2. CASE job.fams = Families
      BY <1>2 DEF Families, FamiliesLeft, FamsLeft
<1>3. CASE job.fams = <<"served", "meta", "lines">>
      BY <1>3 DEF FamiliesLeft, FamsLeft
<1>4. CASE job.fams = <<"meta", "lines">>
      BY <1>4 DEF FamiliesLeft, FamsLeft
<1>5. CASE job.fams = <<"lines">>
      BY <1>5 DEF FamiliesLeft, FamsLeft
<1> QED BY <1>1, <1>2, <1>3, <1>4, <1>5 DEF FamsLeft

LEMMA NoJobs == NoJob \in Jobs /\ NoJob.pc = "none" /\ NoJob.fams = <<>> /\ NoJob.victim = {}
                /\ NoJob.pool = <<>>
BY DEF NoJob, Jobs, Pcs, FamsLeft

LEMMA RunSteps ==
    ASSUME RowsFit, StateInv, Runs
    PROVE  /\ UNCHANGED <<limits, held, counter, up, now>> /\ up
           /\ db'.rows \subseteq db.rows
           /\ JobInv'
<1>0. /\ Sound(db) /\ job \in Jobs /\ JobInv /\ Exact(db) /\ now \in Nat /\ Dated(db.rows, now)
      BY DEF StateInv, JobInv, RowsInv, Sound, Aged
<1> DEFINE Fine == UNCHANGED <<limits, held, counter, up, now>> /\ up /\ db'.rows \subseteq db.rows
<1>1. \A R \in SUBSET db.rows : DeleteAll(R, db).rows = db.rows \ R
      BY <1>0, SoundDelete
<1>2. CASE PurgeStep
      <2> DEFINE R == UNION {Of(db.rows, Head(job.fams), p) : p \in job.victim}
      <2>1. /\ job.fams # <<>> /\ up /\ db' = DeleteAll(R, db)
            /\ UNCHANGED <<limits, held, counter, up, now>>
            BY <1>2 DEF PurgeStep, Step
      <2>2. R \in SUBSET db.rows
            BY DEF Of
      <2>3. job' = IF FamiliesLeft # <<>> THEN [job EXCEPT !.fams = FamiliesLeft]
                   ELSE IF job.pc = "heal" THEN NoJob
                   ELSE [job EXCEPT !.fams = <<>>, !.victim = {}]
            BY <1>2 DEF PurgeStep, Step
      <2> HIDE DEF R
      <2>4. Fine
            BY <1>1, <2>1, <2>2
      <2>5. JobInv'
            <3>1. FamiliesLeft \in FamsLeft
                  BY <1>0, <2>1, FamsStep
            <3>2. CASE FamiliesLeft # <<>>
                  <4>1. job' \in Jobs /\ job'.pc = job.pc /\ job'.fams = FamiliesLeft
                        BY <1>0, <2>3, <3>1, <3>2 DEF Jobs
                  <4>2. job.pc = "heal" => FamiliesLeft = <<"lines">>
                        BY <1>0, <2>1, <3>2, FamsStep DEF JobInv, Families
                  <4> QED BY <1>0, <2>1, <4>1, <4>2 DEF JobInv
            <3>3. CASE FamiliesLeft = <<>> /\ job.pc = "heal"
                  BY <2>3, <3>3, NoJobs DEF JobInv
            <3>4. CASE FamiliesLeft = <<>> /\ job.pc # "heal"
                  <4>1. job' \in Jobs /\ job'.pc = job.pc /\ job'.fams = <<>>
                        BY <1>0, <2>3, <3>1, <3>4 DEF Jobs
                  <4> QED BY <3>4, <4>1 DEF JobInv
            <3> QED BY <3>2, <3>3, <3>4
      <2> QED BY <2>4, <2>5
<1>3. ASSUME NEW pc, At(pc), job.pool # <<>>, pc \in {"ttl", "lru", "extra"},
             \/ Step(Victim(Head(job.pool).path), db)
             \/ Step([Victim(Head(job.pool).path) EXCEPT !.dropped = @ + 1], db)
             \/ Step([Victim(Head(job.pool).path) EXCEPT !.extra = @ - 1], db) /\ job.extra > 0
      PROVE  Fine /\ JobInv'
      <2>1. up /\ job.pc = pc /\ db' = db /\ UNCHANGED <<limits, held, counter, up, now>>
            BY <1>3 DEF At, Step
      <2> DEFINE v == Victim(Head(job.pool).path)
      <2>2. v \in Jobs /\ v.pc = pc /\ v.extra = job.extra
            BY <1>0, <1>3, <2>1, VictimJob
      <2>5. \/ Step(v, db)
            \/ Step([v EXCEPT !.dropped = @ + 1], db)
            \/ Step([v EXCEPT !.extra = @ - 1], db) /\ v.extra > 0
            BY <1>3, <2>2
      <2> HIDE DEF v
      <2>3. \/ job' = v
            \/ job' = [v EXCEPT !.dropped = @ + 1]
            \/ job' = [v EXCEPT !.extra = @ - 1] /\ v.extra > 0
            BY <2>5 DEF Step
      <2>4. job' \in Jobs /\ job'.pc = pc
            BY <2>2, <2>3 DEF Jobs
      <2> QED BY <1>3, <2>1, <2>4 DEF JobInv
<1>4. ASSUME NEW pc, At(pc), NEW npc \in Pcs \ {"heal"}, NEW n \in Nat,
             \/ Step([job EXCEPT !.pc = npc], db)
             \/ Step([job EXCEPT !.pc = npc, !.extra = n], db)
             \/ \E R \in SUBSET db.rows : Step([job EXCEPT !.pc = npc], DeleteAll(R, db))
      PROVE  Fine /\ JobInv'
      <2>1. up /\ job.fams = <<>> /\ UNCHANGED <<limits, held, counter, up, now>>
            BY <1>4 DEF At, Step
      <2>2. db'.rows \subseteq db.rows
            BY <1>1, <1>4 DEF Step
      <2>3. job' = [job EXCEPT !.pc = npc] \/ job' = [job EXCEPT !.pc = npc, !.extra = n]
            BY <1>4 DEF Step
      <2>4. job' \in Jobs /\ job'.pc = npc /\ job'.fams = <<>>
            BY <1>0, <1>4, <2>1, <2>3 DEF Jobs
      <2> QED BY <1>4, <2>1, <2>2, <2>4 DEF JobInv
<1>5. CASE TtlStep
      <2>1. At("ttl") /\ \/ job.pool # <<>> /\ Step(Victim(Head(job.pool).path), db)
                         \/ Step([job EXCEPT !.pc = "slim"], db)
            BY <1>5 DEF TtlStep
      <2>2. "slim" \in Pcs \ {"heal"} /\ 0 \in Nat
            BY DEF Pcs
      <2> QED BY <1>3, <1>4, <2>1, <2>2
<1>6. CASE SlimStep
      <2> DEFINE R == UNION {Slimmed(db.rows, job.pool[i].path) : i \in DOMAIN job.pool}
      <2>1. At("slim") /\ Step([job EXCEPT !.pc = "lru"], DeleteAll(R, db))
            BY <1>6 DEF SlimStep
      <2>2. "lru" \in Pcs \ {"heal"} /\ 0 \in Nat
            BY DEF Pcs
      <2>3. R \in SUBSET db.rows
            BY DEF Slimmed, OverCap, Of
      <2> HIDE DEF R
      <2> QED BY <1>4, <2>1, <2>2, <2>3
<1>7. CASE LruStep
      <2>1. /\ At("lru")
            /\ \/ job.pool # <<>> /\ Step([Victim(Head(job.pool).path) EXCEPT !.dropped = @ + 1], db)
               \/ Step([job EXCEPT !.pc = "extra", !.extra = Tenth(job.dropped)], db)
            BY <1>7 DEF LruStep
      <2>2. "extra" \in Pcs \ {"heal"}
            BY DEF Pcs
      <2>3. job.dropped \in Nat
            BY <1>0 DEF Jobs
      <2>4. Tenth(job.dropped) \in Nat
            BY <2>3 DEF Tenth
      <2> QED BY <1>3, <1>4, <2>1, <2>2, <2>4
<1>8. CASE ExtraStep
      <2>1. /\ At("extra")
            /\ \/ /\ job.pool # <<>> /\ job.extra > 0
                  /\ Step([Victim(Head(job.pool).path) EXCEPT !.extra = @ - 1], db)
               \/ Step([job EXCEPT !.pc = "orphans"], db)
            BY <1>8 DEF ExtraStep
      <2>2. "orphans" \in Pcs \ {"heal"} /\ 0 \in Nat
            BY DEF Pcs
      <2> QED BY <1>3, <1>4, <2>1, <2>2
<1>9. CASE OrphanStep
      <2>1. /\ up /\ UNCHANGED <<limits, held, counter, up, now>> /\ job' = NoJob
            /\ db' = DeleteAll(Orphans(db.rows), db)
            BY <1>9 DEF OrphanStep, At, Step
      <2>2. Orphans(db.rows) \in SUBSET db.rows
            BY DEF Orphans
      <2> QED BY <1>1, <2>1, <2>2, NoJobs DEF JobInv
<1>10. CASE PruneStep
       <2>0. \A t, ttl : OldRows(t, ttl) \in SUBSET db.rows
             BY DEF OldRows
       <2>1. CASE At("served") /\ Step([job EXCEPT !.pc = "meta"],
                                       DeleteAll(OldRows("served", ServedTTL), db))
             <3>1. "meta" \in Pcs \ {"heal"} /\ 0 \in Nat
                   BY DEF Pcs
             <3> QED BY <1>4, <2>0, <2>1, <3>1
       <2>2. CASE At("meta") /\ Step([job EXCEPT !.pc = "lines"],
                                     DeleteAll(OldRows("meta", AnchorTTL), db))
             <3>1. "lines" \in Pcs \ {"heal"} /\ 0 \in Nat
                   BY DEF Pcs
             <3> QED BY <1>4, <2>0, <2>2, <3>1
       <2>3. CASE /\ At("lines")
                  /\ LET d == DeleteAll(OldRows("lines", AnchorTTL), db) IN
                       \E j \in IF job.extra = 1 THEN Sweeps(d) ELSE {NoJob} : Step(j, d)
             <3> DEFINE d == DeleteAll(OldRows("lines", AnchorTTL), db)
             <3>1. PICK j \in Sweeps(d) \cup {NoJob} : Step(j, d)
                   BY <2>3
             <3>2. d.rows \subseteq db.rows /\ Sound(d)
                   BY <1>0, <2>0, SoundDelete
             <3> HIDE DEF d
             <3>3. up /\ db' = d /\ job' = j /\ UNCHANGED <<limits, held, counter, up, now>>
                   BY <2>3, <3>1 DEF At, Step
             <3>4. Exact(d) /\ Dated(d.rows, now)
                   BY <1>0, <3>2 DEF Sound, Dated
             <3>5. j \in Jobs /\ j.pc \in {"ttl", "none"} /\ j.fams = <<>>
                   BY <1>0, <3>1, <3>4, NoJobs, SweepsTyped
             <3> QED BY <3>2, <3>3, <3>5 DEF JobInv
       <2> QED BY <1>10, <2>1, <2>2, <2>3 DEF PruneStep
<1> QED BY <1>2, <1>5, <1>6, <1>7, <1>8, <1>9, <1>10 DEF Runs, SweepNext

LEMMA InitState == RowsFit /\ Init => StateInv
<1> SUFFICES ASSUME RowsFit, Init PROVE StateInv
    OBVIOUS
<1>1. RowsInv
      BY InitRows
<1>2. Aged
      BY DEF Init, Aged, Dated, UndoAged
<1>3. JobInv
      BY NoJobs DEF Init, JobInv
<1>4. ScalarInv
      BY DEF Init, ScalarInv, RowsFit
<1> QED BY <1>1, <1>2, <1>3, <1>4 DEF StateInv

LEMMA NextKinds ==
    ASSUME [Next]_vars
    PROVE  \/ Tools \/ Runs \/ Crash \/ Open \/ Publish \/ Tick \/ UNCHANGED vars
           \/ \E p \in Path, L \in SUBSET Line : ForeignPut(p, L)
BY DEF Next, Tools, Runs

\* A statement of another process on a path's anchors.
LEMMA ForeignStep ==
    ASSUME RowsFit, StateInv, NEW p \in Path, NEW L \in SUBSET Line, ForeignPut(p, L)
    PROVE  /\ Gentle(db'.rows) /\ AnchorsPut(db.rows, db'.rows, p)
           /\ UNCHANGED <<limits, held, counter, job, up, now>>
<1>1. AnchorsPut(db.rows, db'.rows, p) /\ UNCHANGED <<limits, held, counter, job, up, now>>
      BY SoundAnchors DEF StateInv, ForeignPut
<1>2. Aged /\ now \in Nat \ {0}
      BY DEF StateInv, ScalarInv, RowsFit
<1>3. Gentle(db'.rows)
      BY <1>1, <1>2, GentlePut
<1> QED BY <1>1, <1>3

LEMMA JobKept ==
    ASSUME JobInv, UNCHANGED job PROVE JobInv'
BY DEF JobInv

LEMMA StepState ==
    ASSUME RowsFit, StateInv, [Next]_vars
    PROVE  StateInv'
<1>0. RowsInv /\ Aged /\ JobInv /\ ScalarInv /\ now \in Nat \ {0} /\ RowsInv'
      BY StepRows DEF StateInv, ScalarInv, RowsFit
<1>1. CASE Tools
      <2>1. Unmoved /\ NextJob /\ Gentle(db'.rows)
            BY <1>1, ToolSteps
      <2>2. Aged'
            BY <2>1 DEF Unmoved, Gentle, Aged
      <2>3. ScalarInv'
            BY <1>0, <2>1 DEF Unmoved, ScalarInv
      <2>4. JobInv'
            <3>1. CASE job' = job
                  BY <1>0, <3>1, JobKept
            <3>2. CASE job' \in Sweeps(db')
                  <4>1. Exact(db') /\ Dated(db'.rows, now)
                        BY <1>0, <2>1 DEF RowsInv, Sound, Gentle
                  <4>2. job' \in Jobs /\ job'.pc = "ttl"
                        BY <1>0, <3>2, <4>1, SweepsTyped
                  <4> QED BY <4>2 DEF JobInv
            <3>3. ASSUME NEW p \in Path, job' = Healing(p)
                  PROVE  JobInv'
                  <4>1. job' \in Jobs /\ job'.pc = "heal" /\ job'.fams = <<"meta", "lines">>
                        BY <3>3, NoJobs DEF Jobs, Healing, HealedFamilies, Pcs, FamsLeft
                  <4> QED BY <4>1 DEF JobInv
            <3> QED BY <2>1, <3>1, <3>2, <3>3 DEF NextJob
      <2> QED BY <1>0, <2>2, <2>3, <2>4 DEF StateInv
<1>2. CASE Runs
      <2>1. /\ UNCHANGED <<limits, held, counter, up, now>>
            /\ db'.rows \subseteq db.rows /\ JobInv'
            BY <1>2, RunSteps
      <2>2. Aged'
            BY <1>0, <2>1 DEF Aged, Dated, UndoAged
      <2>3. ScalarInv'
            BY <1>0, <2>1 DEF ScalarInv
      <2> QED BY <1>0, <2>1, <2>2, <2>3 DEF StateInv
<1>3. ASSUME NEW p \in Path, NEW L \in SUBSET Line, ForeignPut(p, L)
      PROVE  StateInv'
      <2>1. Gentle(db'.rows) /\ UNCHANGED <<limits, held, counter, job, up, now>>
            BY <1>3, ForeignStep
      <2>2. Aged' /\ ScalarInv' /\ JobInv'
            BY <1>0, <2>1, JobKept DEF Gentle, Aged, ScalarInv
      <2> QED BY <1>0, <2>2 DEF StateInv
<1>4. CASE Crash
      <2>1. db' = db /\ now' = now /\ job' = NoJob
            BY <1>4 DEF Crash
      <2>2. ScalarInv'
            <3>1. counter' \in 0 .. MaxWrites
                  BY <1>4 DEF Crash, RowsFit
            <3>2. up' \in BOOLEAN
                  BY <1>4 DEF Crash
            <3> QED BY <1>0, <1>4, <3>1, <3>2 DEF Crash, ScalarInv
      <2>3. Aged' /\ JobInv'
            BY <1>0, <2>1, NoJobs DEF Aged, JobInv
      <2> QED BY <1>0, <2>2, <2>3 DEF StateInv
<1>5. CASE Open
      <2>1. db' = db /\ now' = now
            BY <1>5 DEF Open
      <2>2. ScalarInv'
            BY <1>0, <1>5 DEF Open, ScalarInv
      <2>3. job' \in Jobs /\ job'.pc = "served" /\ job'.fams = <<>>
            <3> DEFINE n == IF OverEvict(db, limits) THEN 1 ELSE 0
            <3>1. n \in Nat
                  OBVIOUS
            <3>2. job' = [NoJob EXCEPT !.pc = "served", !.extra = n]
                  BY <1>5 DEF Open
            <3> HIDE DEF n
            <3>3. "served" \in Pcs
                  BY DEF Pcs
            <3> QED BY <3>1, <3>2, <3>3, NoJobs DEF Jobs
      <2>4. Aged' /\ JobInv'
            BY <1>0, <2>1, <2>3 DEF Aged, JobInv
      <2> QED BY <1>0, <2>2, <2>4 DEF StateInv
<1>6. CASE Publish \/ UNCHANGED vars
      <2>1. db' = db /\ now' = now /\ job' = job
            BY <1>6 DEF Publish, vars
      <2>2. ScalarInv'
            BY <1>0, <1>6 DEF Publish, ScalarInv, vars
      <2>3. Aged' /\ JobInv'
            BY <1>0, <2>1, JobKept DEF Aged
      <2> QED BY <1>0, <2>2, <2>3 DEF StateInv
<1>7. CASE Tick
      <2>1. db' = db /\ now' = now + 1 /\ job' = job /\ now < MaxNow
            /\ UNCHANGED <<limits, held, counter, up>>
            BY <1>7 DEF Tick
      <2>2. now' \in 1 .. MaxNow
            BY <1>0, <2>1 DEF RowsFit
      <2>3. ScalarInv'
            BY <1>0, <2>1, <2>2 DEF ScalarInv
      <2>4. Dated(db.rows, now + 1)
            <3> SUFFICES ASSUME NEW r \in db.rows PROVE r.at \in 1 .. now + 1
                BY DEF Dated
            <3>1. r.at \in 1 .. now
                  BY <1>0 DEF Aged, Dated
            <3> QED BY <1>0, <3>1
      <2>5. Aged' /\ JobInv'
            BY <1>0, <2>1, <2>4, JobKept DEF Aged
      <2> QED BY <1>0, <2>3, <2>5 DEF StateInv
<1> QED BY <1>1, <1>2, <1>3, <1>4, <1>5, <1>6, <1>7, NextKinds

LEMMA StateHolds == RowsFit => (Spec => []StateInv)
<1> SUFFICES ASSUME RowsFit PROVE Spec => []StateInv
    OBVIOUS
<1>1. Init => StateInv
      BY InitState
<1>2. StateInv /\ [Next]_vars => StateInv'
      BY StepState
<1> QED BY <1>1, <1>2, PTL DEF Spec

\* Every row has the columns of its table and a key of its own, and the job under way
\* is one the code has, whatever interleaves with it and wherever a death cut one.
THEOREM RowsTyped ==
    ASSUME RowsFit
    PROVE  Spec => []TypeOK
<1>1. Spec => []StateInv
      BY StateHolds
<1>2. ASSUME StateInv PROVE TypeOK
      <2>0. Sound(db) /\ Aged /\ JobInv /\ ScalarInv /\ now \in 1 .. MaxNow
            BY <1>2 DEF StateInv, RowsInv, ScalarInv
      <2>1. db.rows \subseteq [t : Table, path : Path, k : Key, at : 1 .. MaxNow]
            <3> SUFFICES ASSUME NEW r \in db.rows
                         PROVE  r \in [t : Table, path : Path, k : Key, at : 1 .. MaxNow]
                OBVIOUS
            <3>1. r \in Rows /\ r.at \in 1 .. now
                  BY <2>0 DEF Sound, Exact, Db, Aged, Dated
            <3>2. r.at \in 1 .. MaxNow
                  BY <2>0, <3>1 DEF RowsFit
            <3> QED BY <3>1, <3>2 DEF Rows
      <2>2. \A r, o \in db.rows : r.t = o.t /\ r.path = o.path /\ r.k = o.k => r = o
            BY <2>0 DEF Sound, Unique, SameKey
      <2>3. job.pc \in Pcs /\ job.victim \in SUBSET Path
            BY <2>0 DEF JobInv, Jobs
      <2> QED BY <2>0, <2>1, <2>2, <2>3 DEF TypeOK, ScalarInv, Pcs
<1> QED BY <1>1, <1>2, PTL

\* ------------------------------------------------------------------------
\* Line rows without a meta row, when no death interrupts.
ToGo(fams) ==
    IF fams = Families THEN Table
    ELSE IF fams = <<"served", "meta", "lines">> THEN {"served", "meta", "lines"}
    ELSE IF fams = <<"meta", "lines">> THEN {"meta", "lines"}
    ELSE IF fams = <<"lines">> THEN {"lines"}
    ELSE {}

LEMMA ToGoes ==
    /\ ToGo(Families) = Table
    /\ ToGo(<<"served", "meta", "lines">>) = {"served", "meta", "lines"}
    /\ ToGo(<<"meta", "lines">>) = {"meta", "lines"}
    /\ ToGo(<<"lines">>) = {"lines"}
    /\ ToGo(<<>>) = {}
<1>1. /\ Len(Families) = 4 /\ Len(<<"served", "meta", "lines">>) = 3
      /\ Len(<<"meta", "lines">>) = 2 /\ Len(<<"lines">>) = 1 /\ Len(<<>>) = 0
      BY DEF Families
<1> QED BY <1>1 DEF ToGo

LEMMA ToGoStep ==
    ASSUME job \in Jobs, job.fams # <<>>
    PROVE  ToGo(FamiliesLeft) = ToGo(job.fams) \ {Head(job.fams)}
<1>1. Table = {"undo", "served", "meta", "lines"}
      BY DEF Table
<1> QED BY <1>1, FamsStep, ToGoes

\* What a job's statement deletes of the victims' rows.
LEMMA PurgeRows ==
    ASSUME RowsFit, StateInv, PurgeStep
    PROVE  /\ job.fams # <<>> /\ job \in Jobs
           /\ db'.rows = {r \in db.rows : r.t # Head(job.fams) \/ r.path \notin job.victim}
           /\ FamiliesLeft # <<>> => job' = [job EXCEPT !.fams = FamiliesLeft]
           /\ FamiliesLeft = <<>> => \/ job.pc = "heal" /\ job' = NoJob
                                     \/ job.pc # "heal" /\ job' = [job EXCEPT !.fams = <<>>, !.victim = {}]
<1> DEFINE R == UNION {Of(db.rows, Head(job.fams), p) : p \in job.victim}
<1>1. job.fams # <<>> /\ job \in Jobs /\ Sound(db)
      BY DEF PurgeStep, StateInv, JobInv, RowsInv
<1>2. R = {r \in db.rows : r.t = Head(job.fams) /\ r.path \in job.victim}
      BY DEF Of
<1>3. db' = DeleteAll(R, db)
      BY DEF PurgeStep, Step
<1>4. job' = IF FamiliesLeft # <<>> THEN [job EXCEPT !.fams = FamiliesLeft]
             ELSE IF job.pc = "heal" THEN NoJob
             ELSE [job EXCEPT !.fams = <<>>, !.victim = {}]
      BY DEF PurgeStep, Step
<1>5. db'.rows = db.rows \ R
      BY <1>1, <1>2, <1>3, SoundDelete
<1> HIDE DEF R
<1>6. db'.rows = {r \in db.rows : r.t # Head(job.fams) \/ r.path \notin job.victim}
      BY <1>2, <1>5
<1> QED BY <1>1, <1>4, <1>6

Undressed == IF job.fams = <<"lines">> THEN job.victim ELSE {}
OrphanInv == /\ StateInv /\ up /\ job.pc \notin {"served", "meta", "lines"}
             /\ Covered(db.rows, Undressed)

LEMMA OrphanStep1 ==
    ASSUME RowsFit, OrphanInv, PurgeStep
    PROVE  Covered(db'.rows, Undressed') /\ job'.pc \in {job.pc, "none"}
<1>0. StateInv /\ Covered(db.rows, Undressed)
      BY DEF OrphanInv
<1>1. /\ job.fams # <<>> /\ job \in Jobs
      /\ db'.rows = {r \in db.rows : r.t # Head(job.fams) \/ r.path \notin job.victim}
      BY <1>0, PurgeRows
<1>2. \/ job' = [job EXCEPT !.fams = FamiliesLeft] /\ FamiliesLeft # <<>>
      \/ job' = NoJob /\ FamiliesLeft = <<>>
      \/ job' = [job EXCEPT !.fams = <<>>, !.victim = {}] /\ FamiliesLeft = <<>>
      BY <1>0, PurgeRows
<1>3. job'.pc \in {job.pc, "none"}
      BY <1>1, <1>2, NoJobs DEF Jobs
<1>4. \/ FamiliesLeft # <<>> /\ job'.fams = FamiliesLeft /\ job'.victim = job.victim
      \/ FamiliesLeft = <<>> /\ job'.fams = <<>>
      BY <1>1, <1>2, NoJobs DEF Jobs
<1>6. /\ Len(Families) = 4 /\ Len(<<"served", "meta", "lines">>) = 3
      /\ Len(<<"meta", "lines">>) = 2 /\ Len(<<"lines">>) = 1 /\ Len(<<>>) = 0
      BY DEF Families
<1>7. CASE job.fams \in {Families, <<"served", "meta", "lines">>}
      <2>1. Head(job.fams) \in {"undo", "served"} /\ job.fams # <<"lines">> /\ job'.fams # <<"lines">>
            BY <1>1, <1>4, <1>6, <1>7, FamsStep
      <2>2. Covered(db.rows, {}) /\ Undressed' = {}
            BY <1>0, <2>1 DEF Undressed
      <2>3. /\ \A m \in db.rows : m.t \in {"meta", "lines"} => m \in db'.rows
            /\ db'.rows \subseteq db.rows
            BY <1>1, <2>1
      <2>4. Covered(db'.rows, {})
            BY <2>2, <2>3 DEF Covered
      <2> QED BY <1>3, <2>2, <2>4
<1>8. CASE job.fams = <<"meta", "lines">>
      <2>1. Head(job.fams) = "meta" /\ FamiliesLeft = <<"lines">> /\ job.fams # <<"lines">>
            BY <1>1, <1>6, <1>8, FamsStep
      <2>2. job'.fams = <<"lines">> /\ job'.victim = job.victim
            BY <1>4, <1>6, <2>1
      <2>3. Covered(db.rows, {}) /\ Undressed' = job.victim
            BY <1>0, <2>1, <2>2 DEF Undressed
      <2>4. /\ \A m \in db.rows : m.path \notin job.victim => m \in db'.rows
            /\ db'.rows \subseteq db.rows
            BY <1>1
      <2>5. Covered(db'.rows, job.victim)
            BY <2>3, <2>4 DEF Covered
      <2> QED BY <1>3, <2>3, <2>5
<1>9. CASE job.fams = <<"lines">>
      <2>1. Head(job.fams) = "lines" /\ FamiliesLeft = <<>>
            BY <1>1, <1>6, <1>9, FamsStep
      <2>2. job'.fams = <<>>
            BY <1>4, <2>1
      <2>3. Undressed' = {} /\ Undressed = job.victim
            BY <1>6, <1>9, <2>2 DEF Undressed
      <2>4. /\ \A m \in db.rows : m.t = "meta" => m \in db'.rows
            /\ \A r \in db'.rows : r \in db.rows /\ (r.t = "lines" => r.path \notin job.victim)
            BY <1>1, <2>1
      <2>5. Covered(db.rows, job.victim)
            BY <1>0, <2>3
      <2>6. Covered(db'.rows, {})
            BY <2>4, <2>5 DEF Covered
      <2> QED BY <1>3, <2>3, <2>6
<1> QED BY <1>1, <1>3, <1>7, <1>8, <1>9, FamsStep

LEMMA OrphanKept ==
    ASSUME RowsFit, "crash" \notin Event, OrphanInv, [Next]_vars
    PROVE  OrphanInv'
<1>0. /\ StateInv /\ StateInv' /\ up /\ job.pc \notin {"served", "meta", "lines"}
      /\ Covered(db.rows, Undressed) /\ JobInv /\ job \in Jobs /\ Sound(db)
      /\ now \in Nat /\ Exact(db')
      BY StepState DEF OrphanInv, StateInv, JobInv, RowsInv, Sound
<1>6. Len(<<"lines">>) = 1 /\ Len(<<"meta", "lines">>) = 2 /\ Len(<<>>) = 0
      OBVIOUS
<1>1. CASE Tools
      <2>1. up /\ job.pc = "none" /\ Unmoved /\ NextJob /\ Gentle(db'.rows)
            BY <1>0, <1>1, ToolSteps
      <2>2. job.fams = <<>>
            BY <1>0, <2>1 DEF JobInv
      <2>3. Covered(db'.rows, {})
            BY <1>0, <1>6, <2>1, <2>2 DEF Undressed, Gentle
      <2>4. job'.fams # <<"lines">> /\ job'.pc \in {"none", "ttl", "heal"}
            <3>1. CASE job' = job
                  BY <1>6, <2>1, <2>2, <3>1
            <3>2. CASE job' \in Sweeps(db')
                  <4>1. job'.pc = "ttl" /\ job'.fams = <<>>
                        BY <1>0, <2>1, <3>2, SweepsTyped DEF Gentle
                  <4> QED BY <1>6, <4>1
            <3>3. ASSUME NEW p \in Path, job' = Healing(p)
                  PROVE  job'.fams # <<"lines">> /\ job'.pc \in {"none", "ttl", "heal"}
                  <4>1. job'.pc = "heal" /\ job'.fams = <<"meta", "lines">>
                        BY <3>3 DEF Healing, NoJob, HealedFamilies
                  <4> QED BY <1>6, <4>1
            <3> QED BY <2>1, <3>1, <3>2, <3>3 DEF NextJob
      <2> QED BY <1>0, <2>1, <2>3, <2>4 DEF OrphanInv, Undressed, Unmoved
<1>2. CASE PurgeStep
      <2>1. up' = up
            BY <1>2 DEF PurgeStep, Step
      <2> QED BY <1>0, <1>2, <2>1, OrphanStep1 DEF OrphanInv
<1>3. CASE TtlStep \/ LruStep \/ ExtraStep
      <2>1. db' = db /\ up' = up /\ job.fams = <<>>
            BY <1>3 DEF TtlStep, LruStep, ExtraStep, Step, At
      <2>2. \/ job' = Victim(Head(job.pool).path) /\ job.pool # <<>>
            \/ job' = [Victim(Head(job.pool).path) EXCEPT !.dropped = @ + 1] /\ job.pool # <<>>
            \/ job' = [Victim(Head(job.pool).path) EXCEPT !.extra = @ - 1] /\ job.pool # <<>>
            \/ \E n : job' = [job EXCEPT !.pc = "slim"] \/ job' = [job EXCEPT !.pc = "orphans"]
                      \/ job' = [job EXCEPT !.pc = "extra", !.extra = n]
            BY <1>3 DEF TtlStep, LruStep, ExtraStep, Step
      <2>3. /\ job'.fams \in {Families, job.fams}
            /\ job'.pc \in {job.pc, "slim", "orphans", "extra"}
            <3> DEFINE v == Victim(Head(job.pool).path)
            <3>1. job.pool # <<>> => v \in Jobs /\ v.fams = Families /\ v.pc = job.pc
                  BY <1>0, VictimJob
            <3> HIDE DEF v
            <3>2. \/ job' \in {v, [v EXCEPT !.dropped = @ + 1], [v EXCEPT !.extra = @ - 1]}
                        /\ job.pool # <<>>
                  \/ \E n : job' \in {[job EXCEPT !.pc = "slim"], [job EXCEPT !.pc = "orphans"],
                                      [job EXCEPT !.pc = "extra", !.extra = n]}
                  BY <2>2 DEF v
            <3> QED BY <1>0, <3>1, <3>2 DEF Jobs
      <2>4. job'.fams # <<"lines">> /\ job.fams # <<"lines">>
            BY <1>6, <2>1, <2>3 DEF Families
      <2>5. job'.pc \notin {"served", "meta", "lines"}
            BY <1>0, <2>3
      <2>6. Undressed' = {} /\ Undressed = {}
            BY <2>4 DEF Undressed
      <2>7. Covered(db'.rows, Undressed')
            BY <1>0, <2>1, <2>6
      <2> QED BY <1>0, <2>1, <2>5, <2>7 DEF OrphanInv
<1>4. CASE SlimStep
      <2> DEFINE R == UNION {Slimmed(db.rows, job.pool[i].path) : i \in DOMAIN job.pool}
      <2>1. /\ db' = DeleteAll(R, db) /\ up' = up /\ job.fams = <<>>
            /\ job' = [job EXCEPT !.pc = "lru"]
            BY <1>4 DEF SlimStep, Step, At
      <2>2. R \in SUBSET db.rows /\ \A r \in R : r.t = "undo"
            BY DEF Slimmed, OverCap, Of
      <2> HIDE DEF R
      <2>3. db'.rows = db.rows \ R
            BY <1>0, <2>1, <2>2, SoundDelete
      <2>4. job'.fams = <<>> /\ job'.pc = "lru"
            BY <1>0, <2>1 DEF Jobs
      <2>5. Undressed' = {} /\ Undressed = {}
            BY <1>6, <2>1, <2>4 DEF Undressed
      <2>6. Covered(db'.rows, {})
            BY <1>0, <2>2, <2>3, <2>5 DEF Covered
      <2> QED BY <1>0, <2>1, <2>4, <2>5, <2>6 DEF OrphanInv
<1>5. CASE OrphanStep
      <2>1. /\ db' = DeleteAll(Orphans(db.rows), db) /\ up' = up /\ job.fams = <<>> /\ job' = NoJob
            BY <1>5 DEF OrphanStep, Step, At
      <2>2. Orphans(db.rows) \in SUBSET db.rows /\ \A r \in Orphans(db.rows) : r.t = "lines"
            BY DEF Orphans
      <2>3. db'.rows = db.rows \ Orphans(db.rows)
            BY <1>0, <2>1, <2>2, SoundDelete
      <2>4. Undressed' = {} /\ Undressed = {} /\ job'.pc = "none"
            BY <1>6, <2>1, NoJobs DEF Undressed
      <2>5. Covered(db'.rows, {})
            BY <1>0, <2>2, <2>3, <2>4 DEF Covered
      <2> QED BY <1>0, <2>1, <2>4, <2>5 DEF OrphanInv
<1>7. CASE PruneStep
      BY <1>0, <1>7 DEF PruneStep, At
<1>8. ASSUME NEW p \in Path, NEW L \in SUBSET Line, ForeignPut(p, L)
      PROVE  OrphanInv'
      <2>1. AnchorsPut(db.rows, db'.rows, p) /\ job' = job /\ up' = up
            BY <1>0, <1>8, ForeignStep
      <2>2. \A V : Covered(db.rows, V) => Covered(db'.rows, V)
            BY <2>1 DEF Covered, AnchorsPut
      <2> QED BY <1>0, <2>1, <2>2 DEF OrphanInv, Undressed
<1>9. CASE Crash \/ Open
      BY <1>0, <1>9 DEF Crash, Open
<1>10. CASE Publish \/ Tick \/ UNCHANGED vars
       <2>1. db' = db /\ job' = job /\ up' = up
             BY <1>10 DEF Publish, Tick, vars
       <2> QED BY <1>0, <2>1 DEF OrphanInv, Undressed
<1> QED BY <1>1, <1>2, <1>3, <1>4, <1>5, <1>7, <1>8, <1>9, <1>10, NextKinds DEF Runs, SweepNext

\* While no process dies, and whatever another writes meanwhile, a line row is without
\* its meta row only between the two statements that delete both.
THEOREM NoOrphansLeft ==
    ASSUME RowsFit, "crash" \notin Event
    PROVE  Spec => []OrphansOnlyMidway
<1>1. Init => OrphanInv
      <2> SUFFICES ASSUME Init PROVE OrphanInv
          OBVIOUS
      <2>1. StateInv
            BY InitState
      <2>2. up /\ job.pc = "none" /\ db.rows = {}
            BY NoJobs DEF Init
      <2> QED BY <2>1, <2>2 DEF OrphanInv, Covered
<1>2. OrphanInv /\ [Next]_vars => OrphanInv'
      BY OrphanKept
<1>3. ASSUME OrphanInv PROVE OrphansOnlyMidway
      <2> SUFFICES ASSUME job.pc = "none", NEW r \in Orphans(db.rows)
                   PROVE  FALSE
          BY DEF OrphansOnlyMidway
      <2>1. job.fams = <<>>
            BY <1>3 DEF OrphanInv, StateInv, JobInv
      <2>2. Len(<<"lines">>) = 1 /\ Len(<<>>) = 0
            OBVIOUS
      <2>3. Covered(db.rows, {})
            BY <1>3, <2>1, <2>2 DEF OrphanInv, Undressed
      <2> QED BY <2>3 DEF Covered, Orphans, Of
<1> QED BY <1>1, <1>2, <1>3, PTL DEF Spec

\* ------------------------------------------------------------------------
\* The pool of a sweep, when no other process writes.
LEMMA RecencyKept ==
    ASSUME NEW d, NEW e, Exact(d), Exact(e), e.rows \subseteq d.rows, now \in Nat,
           Dated(d.rows, now), NEW p \in Held(d.rows),
           \A r \in d.rows : r.path = p /\ r.t \in PathTable =>
               \E o \in e.rows : o.path = p /\ o.t \in PathTable /\ o.at >= r.at
    PROVE  p \in Held(e.rows) /\ Recency(e.rows, p) = Recency(d.rows, p)
<1>1. Dated(e.rows, now)
      BY DEF Dated
<1>2. PICK r \in d.rows : r.path = p /\ r.t \in PathTable /\ r.at = Recency(d.rows, p)
      BY RecencyNat
<1>3. PICK o \in e.rows : o.path = p /\ o.t \in PathTable /\ o.at >= r.at
      BY <1>2
<1>4. p \in Held(e.rows)
      BY <1>3 DEF Held, Holds, Of
<1>5. PICK x \in e.rows : x.path = p /\ x.t \in PathTable /\ x.at = Recency(e.rows, p)
      BY <1>1, <1>4, RecencyNat
<1>6. /\ Recency(e.rows, p) \in Nat /\ o.at <= Recency(e.rows, p)
      /\ Recency(d.rows, p) \in Nat /\ x.at <= Recency(d.rows, p)
      BY <1>1, <1>3, <1>4, <1>5, RecencyNat
<1>7. o.at \in Nat
      BY <1>1 DEF Dated
<1> QED BY <1>2, <1>3, <1>4, <1>5, <1>6, <1>7

LEMMA PooledKept ==
    ASSUME NEW d, NEW e, Exact(d), Exact(e), e.rows \subseteq d.rows, now \in Nat,
           Dated(d.rows, now), NEW q, Pooled(d.rows, q),
           \A i \in 1 .. Len(q), r \in d.rows : r.path = q[i].path /\ r.t \in PathTable =>
               \E o \in e.rows : o.path = q[i].path /\ o.t \in PathTable /\ o.at >= r.at
    PROVE  Pooled(e.rows, q)
<1>1. ASSUME NEW i \in 1 .. Len(q)
      PROVE  q[i].path \in Held(e.rows) /\ q[i].ts = Recency(e.rows, q[i].path)
      <2> DEFINE p == q[i].path
      <2>1. p \in Held(d.rows) /\ q[i].ts = Recency(d.rows, p)
            BY DEF Pooled
      <2>2. \A r \in d.rows : r.path = p /\ r.t \in PathTable =>
               \E o \in e.rows : o.path = p /\ o.t \in PathTable /\ o.at >= r.at
            OBVIOUS
      <2> HIDE DEF p
      <2>3. p \in Held(e.rows) /\ Recency(e.rows, p) = Recency(d.rows, p)
            BY <2>1, <2>2, RecencyKept
      <2> QED BY <2>1, <2>3 DEF p
<1> QED BY <1>1 DEF Pooled

LEMMA PooledTail ==
    ASSUME NEW rows, NEW q \in Seq(Entries), q # <<>>, Pooled(rows, q)
    PROVE  /\ Pooled(rows, Tail(q))
           /\ \A p : InPool(q, p) <=> p = q[1].path \/ InPool(Tail(q), p)
           /\ ~InPool(Tail(q), q[1].path)
<1> DEFINE n == Len(q)
           t == Tail(q)
<1>1. n \in Nat /\ n > 0 /\ Len(t) = n - 1 /\ \A i \in 1 .. n - 1 : t[i] = q[i + 1]
      OBVIOUS
<1> HIDE DEF t, n
<1>2. \A i \in 1 .. n - 1 : i + 1 \in 1 .. n
      BY <1>1
<1>3. Pooled(rows, t)
      <2>1. \A i, j \in 1 .. n : i < j => q[i].ts <= q[j].ts /\ q[i].path # q[j].path
            BY DEF Pooled, n
      <2>2. \A i \in 1 .. n : q[i].path \in Held(rows) /\ q[i].ts = Recency(rows, q[i].path)
            BY DEF Pooled, n
      <2>3. ASSUME NEW i \in 1 .. n - 1, NEW j \in 1 .. n - 1, i < j
            PROVE  t[i].ts <= t[j].ts /\ t[i].path # t[j].path
            <3>1. i + 1 \in 1 .. n /\ j + 1 \in 1 .. n /\ i + 1 < j + 1
                  BY <1>1, <1>2, <2>3
            <3> QED BY <1>1, <2>1, <3>1
      <2>4. \A i \in 1 .. n - 1 : t[i].path \in Held(rows) /\ t[i].ts = Recency(rows, t[i].path)
            BY <1>1, <1>2, <2>2
      <2> QED BY <1>1, <2>3, <2>4 DEF Pooled
<1>4. ASSUME NEW p, InPool(q, p)
      PROVE  p = q[1].path \/ InPool(t, p)
      <2>1. PICK i \in 1 .. n : q[i].path = p
            BY <1>4 DEF InPool, n
      <2>2. CASE i = 1
            BY <2>1, <2>2
      <2>3. CASE i # 1
            <3>1. i - 1 \in 1 .. n - 1 /\ (i - 1) + 1 = i
                  BY <1>1, <2>3
            <3>2. t[i - 1] = q[i]
                  BY <1>1, <3>1
            <3> QED BY <1>1, <2>1, <3>1, <3>2 DEF InPool
      <2> QED BY <2>2, <2>3
<1>5. ASSUME NEW p, p = q[1].path \/ InPool(t, p)
      PROVE  InPool(q, p)
      <2>1. 1 \in 1 .. n
            BY <1>1
      <2>2. CASE p = q[1].path
            BY <2>1, <2>2 DEF InPool, n
      <2>3. CASE InPool(t, p)
            <3>1. PICK i \in 1 .. n - 1 : t[i].path = p
                  BY <1>1, <2>3 DEF InPool
            <3> QED BY <1>1, <1>2, <3>1 DEF InPool, n
      <2> QED BY <1>5, <2>2, <2>3
<1>6. ~InPool(t, q[1].path)
      <2> SUFFICES ASSUME NEW i \in 1 .. n - 1, t[i].path = q[1].path
                   PROVE  FALSE
          BY <1>1 DEF InPool
      <2>1. 1 \in 1 .. n /\ i + 1 \in 1 .. n /\ 1 < i + 1 /\ t[i] = q[i + 1]
            BY <1>1, <1>2
      <2> QED BY <2>1 DEF Pooled, n
<1> QED BY <1>3, <1>4, <1>5, <1>6 DEF t

\* Deleting rows raises no metric.
LEMMA OverLess ==
    ASSUME NEW d, NEW e, Exact(d), Exact(e), e.rows \subseteq d.rows,
           NEW l \in [bytes : Nat, paths : Nat, rows : Nat], Over(e, l)
    PROVE  Over(d, l)
<1> DEFINE a == Cardinality(d.rows)
           b == Cardinality(e.rows)
<1>1. b <= a /\ a \in Nat /\ b \in Nat
      BY FS_Subset, FS_CardinalityType DEF Exact
<1>2. e.nLines <= d.nLines /\ e.nLines \in Nat /\ d.nLines \in Nat
      <2>1. LineRows(e.rows) \subseteq LineRows(d.rows) /\ LineRows(d.rows) \subseteq d.rows
            BY DEF LineRows
      <2>2. IsFiniteSet(LineRows(d.rows)) /\ IsFiniteSet(LineRows(e.rows))
            BY <2>1, FS_Subset DEF Exact
      <2>3. /\ Cardinality(LineRows(e.rows)) <= Cardinality(LineRows(d.rows))
            /\ Cardinality(LineRows(e.rows)) \in Nat /\ Cardinality(LineRows(d.rows)) \in Nat
            BY <2>1, <2>2, FS_Subset, FS_CardinalityType
      <2> QED BY <2>3 DEF Exact
<1>3. e.nPaths <= d.nPaths /\ e.nPaths \in Nat /\ d.nPaths \in Nat
      <2>1. Held(e.rows) \subseteq Held(d.rows)
            BY DEF Held, Holds, Of
      <2>2. IsFiniteSet(Held(d.rows)) /\ IsFiniteSet(Held(e.rows))
            BY HeldFinite DEF Exact, Db
      <2>3. /\ Cardinality(Held(e.rows)) <= Cardinality(Held(d.rows))
            /\ Cardinality(Held(e.rows)) \in Nat /\ Cardinality(Held(d.rows)) \in Nat
            BY <2>1, <2>2, FS_Subset, FS_CardinalityType
      <2> QED BY <2>3 DEF Exact
<1>4. l.bytes \in Nat /\ l.paths \in Nat /\ l.rows \in Nat
      OBVIOUS
<1>5. b > l.bytes \/ e.nPaths > l.paths \/ e.nLines > l.rows
      BY DEF Over
<1> HIDE DEF a, b
<1>6. a > l.bytes \/ d.nPaths > l.paths \/ d.nLines > l.rows
      BY <1>1, <1>2, <1>3, <1>4, <1>5
<1> QED BY <1>6 DEF Over, a

PoolOf(rows, q, V, fams) ==
    /\ Pooled(rows, q)
    /\ \A p \in Held(rows) : InPool(q, p) \/ p \in V
    /\ \A p \in V : ~InPool(q, p)
    /\ \A r \in rows : r.path \in V => r.t \in ToGo(fams)
    /\ fams = <<>> => V = {}

Sweeping == {"ttl", "slim", "lru", "extra"}
SweepInv ==
    /\ StateInv
    /\ job.pc \in Sweeping => PoolOf(db.rows, job.pool, job.victim, job.fams)
    /\ job.pc = "extra" => ~Over(db, held) \/ job.pool = <<>>
    /\ job.pc = "orphans" => ~Over(db, held) \/ Held(db.rows) = {}

LEMMA HeldLess ==
    ASSUME NEW rows, NEW less, less \subseteq rows
    PROVE  Held(less) \subseteq Held(rows)
BY DEF Held, Holds, Of

\* A purge leaves the pool's paths alone.
LEMMA SweepPurge ==
    ASSUME RowsFit, SweepInv, PurgeStep, StateInv'
    PROVE  SweepInv'
<1>0. /\ StateInv /\ JobInv /\ job \in Jobs /\ Exact(db) /\ Exact(db') /\ now \in Nat
      /\ Dated(db.rows, now) /\ held \in LimitSet
      BY DEF SweepInv, StateInv, JobInv, RowsInv, Sound, Aged, ScalarInv
<1>1. /\ job.fams # <<>>
      /\ db'.rows = {r \in db.rows : r.t # Head(job.fams) \/ r.path \notin job.victim}
      /\ FamiliesLeft # <<>> => job' = [job EXCEPT !.fams = FamiliesLeft]
      /\ FamiliesLeft = <<>> => \/ job.pc = "heal" /\ job' = NoJob
                                \/ job.pc # "heal" /\ job' = [job EXCEPT !.fams = <<>>, !.victim = {}]
      BY <1>0, PurgeRows
<1>2. CASE job' = NoJob
      BY <1>2, NoJobs DEF SweepInv, Sweeping
<1>3. CASE job' # NoJob
      <2>1. /\ job'.pc = job.pc /\ job'.pool = job.pool /\ job'.fams = FamiliesLeft
            /\ FamiliesLeft # <<>> => job'.victim = job.victim
            /\ FamiliesLeft = <<>> => job'.victim = {}
            BY <1>0, <1>1, <1>3 DEF Jobs
      <2>2. held' = held /\ db'.rows \subseteq db.rows
            BY <1>1 DEF PurgeStep, Step
      <2>3. ASSUME job.pc \in Sweeping
            PROVE  PoolOf(db'.rows, job'.pool, job'.victim, job'.fams)
            <3> DEFINE q == job.pool
                       V == job.victim
            <3>1. PoolOf(db.rows, q, V, job.fams)
                  BY <2>3 DEF SweepInv
            <3>2. \A r \in db.rows : r.path \notin V => r \in db'.rows
                  BY <1>1
            <3> HIDE DEF q, V
            <3>3. \A i \in 1 .. Len(q), r \in db.rows : r.path = q[i].path /\ r.t \in PathTable =>
                     \E o \in db'.rows : o.path = q[i].path /\ o.t \in PathTable /\ o.at >= r.at
                  <4> SUFFICES ASSUME NEW i \in 1 .. Len(q), NEW r \in db.rows,
                                      r.path = q[i].path, r.t \in PathTable
                               PROVE  \E o \in db'.rows : /\ o.path = q[i].path /\ o.t \in PathTable
                                                          /\ o.at >= r.at
                      OBVIOUS
                  <4>1. r.path \notin V
                        BY <3>1 DEF PoolOf, InPool
                  <4>2. r \in db'.rows /\ r.at >= r.at
                        BY <1>0, <3>2, <4>1 DEF Dated
                  <4> QED BY <4>2
            <3>4. Pooled(db'.rows, q)
                  BY <1>0, <2>2, <3>1, <3>3, PooledKept DEF PoolOf
            <3>5. ToGo(FamiliesLeft) = ToGo(job.fams) \ {Head(job.fams)}
                  BY <1>0, <1>1, ToGoStep
            <3>6. \A r \in db'.rows : r.path \in V => r.t \in ToGo(FamiliesLeft)
                  BY <1>1, <3>1, <3>5 DEF PoolOf, V
            <3>7. \A p \in Held(db'.rows) : InPool(q, p) \/ p \in V
                  BY <2>2, <3>1, HeldLess DEF PoolOf
            <3>8. CASE FamiliesLeft # <<>>
                  <4>1. PoolOf(db'.rows, q, V, FamiliesLeft)
                        BY <3>1, <3>4, <3>6, <3>7, <3>8 DEF PoolOf
                  <4> QED BY <2>1, <3>8, <4>1 DEF q, V
            <3>9. CASE FamiliesLeft = <<>>
                  <4>1. \A r \in db'.rows : r.path \notin V
                        BY <3>6, <3>9, ToGoes
                  <4>2. \A p \in Held(db'.rows) : p \notin V
                        BY <4>1 DEF Held, Holds, Of
                  <4>3. PoolOf(db'.rows, q, {}, <<>>)
                        BY <3>4, <3>7, <4>2 DEF PoolOf
                  <4> QED BY <2>1, <3>9, <4>3 DEF q
            <3> QED BY <3>8, <3>9
      <2>4. job.pc # "orphans"
            BY <1>0, <1>1 DEF JobInv
      <2>5. job.pc = "extra" => ~Over(db', held') \/ job'.pool = <<>>
            <3>1. held \in [bytes : Nat, paths : Nat, rows : Nat]
                  BY <1>0 DEF RowsFit
            <3>2. Over(db', held) => Over(db, held)
                  BY <1>0, <2>2, <3>1, OverLess
            <3> QED BY <2>1, <2>2, <3>2 DEF SweepInv
      <2> QED BY <2>1, <2>3, <2>4, <2>5 DEF SweepInv
<1> QED BY <1>2, <1>3

\* The next victim is the head of the pool.
LEMMA PoolVictim ==
    ASSUME SweepInv, job \in Jobs, job.pc \in Sweeping, job.fams = <<>>, job.pool # <<>>
    PROVE  PoolOf(db.rows, Tail(job.pool), {Head(job.pool).path}, Families)
<1> DEFINE q == job.pool
           p == Head(q).path
<1>1. PoolOf(db.rows, q, job.victim, <<>>)
      BY DEF SweepInv
<1>2. q \in Seq(Entries) /\ q # <<>> /\ Head(q) = q[1]
      BY VictimJob DEF Jobs
<1> HIDE DEF q
<1>3. Pooled(db.rows, q) /\ \A x \in Held(db.rows) : InPool(q, x)
      BY <1>1 DEF PoolOf
<1>4. /\ Pooled(db.rows, Tail(q)) /\ ~InPool(Tail(q), q[1].path)
      /\ \A x : InPool(q, x) <=> x = q[1].path \/ InPool(Tail(q), x)
      BY <1>2, <1>3, PooledTail
<1>5. p = q[1].path
      BY <1>2
<1> HIDE DEF p
<1>6. \A r \in db.rows : r.path \in {p} => r.t \in ToGo(Families)
      <2> SUFFICES ASSUME SweepInv, NEW r \in db.rows PROVE r.t \in Table
          BY ToGoes
      <2> QED BY DEF SweepInv, StateInv, RowsInv, Sound, Exact, Db, Rows
<1>7. Families # <<>>
      <2>1. Len(Families) = 4 /\ Len(<<>>) = 0
            BY DEF Families
      <2> QED BY <2>1
<1> QED BY <1>3, <1>4, <1>5, <1>6, <1>7 DEF PoolOf, p, q

\* Slimming leaves each stack its newest layer, which is its latest.
LEMMA SlimRows ==
    ASSUME RowsFit, StateInv, SlimStep
    PROVE  /\ db'.rows \subseteq db.rows
           /\ job' = [job EXCEPT !.pc = "lru"] /\ job.pc = "slim" /\ held' = held
           /\ \A r \in db.rows : r.t # "undo" \/ r.k = Top(db.rows, r.path) => r \in db'.rows
<1>1. Sound(db)
      BY DEF StateInv, RowsInv
<1> DEFINE R == UNION {Slimmed(db.rows, job.pool[i].path) : i \in DOMAIN job.pool}
<1>2. /\ db' = DeleteAll(R, db) /\ job' = [job EXCEPT !.pc = "lru"] /\ job.pc = "slim"
      /\ held' = held
      BY DEF SlimStep, Step, At
<1>3. R \in SUBSET db.rows /\ \A r \in R : r.t = "undo" /\ r.k # Top(db.rows, r.path)
      BY DEF Slimmed, OverCap, Of
<1> HIDE DEF R
<1>4. db'.rows = db.rows \ R
      BY <1>1, <1>2, <1>3, SoundDelete
<1> QED BY <1>2, <1>3, <1>4

LEMMA TopLayer ==
    ASSUME StateInv, NEW r \in db.rows, r.t = "undo"
    PROVE  \E o \in db.rows : /\ o.t = "undo" /\ o.path = r.path
                              /\ o.k = Top(db.rows, r.path) /\ o.at >= r.at
<1>1. Exact(db) /\ UndoNumbered(db.rows) /\ UndoAged(db.rows) /\ Dated(db.rows, now) /\ now \in Nat
      BY DEF StateInv, RowsInv, Sound, Aged
<1> DEFINE p == r.path
<1>2. r \in Of(db.rows, "undo", p) /\ r.k \in Nat
      BY <1>1 DEF Of, UndoNumbered
<1>3. /\ Top(db.rows, p) \in Nat /\ r.k <= Top(db.rows, p)
      /\ Top(db.rows, p) = 0 \/ \E o \in Of(db.rows, "undo", p) : o.k = Top(db.rows, p)
      BY <1>1, <1>2, TopNat
<1>4. PICK o \in Of(db.rows, "undo", p) : o.k = Top(db.rows, p)
      <2>1. CASE Top(db.rows, p) = 0
            <3>1. r.k = Top(db.rows, p)
                  BY <1>2, <1>3, <2>1
            <3> QED BY <1>2, <3>1
      <2> QED BY <1>3, <2>1
<1>5. o \in db.rows /\ o.t = "undo" /\ o.path = r.path
      BY DEF Of
<1>6. r.at <= o.at /\ r.at \in Nat /\ o.at \in Nat
      BY <1>1, <1>3, <1>4, <1>5 DEF UndoAged, Dated
<1>7. o.at >= r.at
      BY <1>6
<1> QED BY <1>4, <1>5, <1>7

LEMMA SweepSlim ==
    ASSUME RowsFit, SweepInv, SlimStep, StateInv'
    PROVE  SweepInv'
<1>0. /\ StateInv /\ job \in Jobs /\ Exact(db) /\ Exact(db') /\ now \in Nat
      /\ Dated(db.rows, now)
      BY DEF SweepInv, StateInv, JobInv, RowsInv, Sound, Aged
<1>1. /\ db'.rows \subseteq db.rows
      /\ job' = [job EXCEPT !.pc = "lru"] /\ job.pc = "slim"
      /\ \A r \in db.rows : r.t # "undo" \/ r.k = Top(db.rows, r.path) => r \in db'.rows
      BY <1>0, SlimRows
<1>2. /\ job'.pc = "lru" /\ job'.pool = job.pool /\ job'.victim = job.victim /\ job'.fams = job.fams
      BY <1>0, <1>1 DEF Jobs
<1> DEFINE q == job.pool
           V == job.victim
<1>3. PoolOf(db.rows, q, V, job.fams)
      BY <1>1 DEF SweepInv, Sweeping
<1> HIDE DEF q, V
<1>4. \A i \in 1 .. Len(q), r \in db.rows : r.path = q[i].path /\ r.t \in PathTable =>
         \E o \in db'.rows : o.path = q[i].path /\ o.t \in PathTable /\ o.at >= r.at
      <2> SUFFICES ASSUME NEW i \in 1 .. Len(q), NEW r \in db.rows, r.path = q[i].path,
                          r.t \in PathTable
                   PROVE  \E o \in db'.rows : o.path = q[i].path /\ o.t \in PathTable /\ o.at >= r.at
          OBVIOUS
      <2>1. CASE r.t # "undo"
            <3>1. r \in db'.rows /\ r.at >= r.at
                  BY <1>0, <1>1, <2>1 DEF Dated
            <3> QED BY <3>1
      <2>2. CASE r.t = "undo"
            <3>1. PICK o \in db.rows : /\ o.t = "undo" /\ o.path = r.path
                                       /\ o.k = Top(db.rows, r.path) /\ o.at >= r.at
                  BY <1>0, <2>2, TopLayer
            <3>2. o \in db'.rows
                  BY <1>1, <3>1
            <3> QED BY <3>1, <3>2 DEF PathTable
      <2> QED BY <2>1, <2>2
<1>5. Pooled(db'.rows, q)
      BY <1>0, <1>1, <1>3, <1>4, PooledKept DEF PoolOf
<1>6. PoolOf(db'.rows, q, V, job.fams)
      BY <1>1, <1>3, <1>5, HeldLess DEF PoolOf
<1>7. PoolOf(db'.rows, job'.pool, job'.victim, job'.fams)
      BY <1>2, <1>6 DEF q, V
<1> QED BY <1>2, <1>7 DEF SweepInv

LEMMA SweepKept ==
    ASSUME RowsFit, "foreign" \notin Event, SweepInv, [Next]_vars
    PROVE  SweepInv'
<1>0. /\ StateInv /\ StateInv' /\ JobInv /\ job \in Jobs /\ Sound(db) /\ Exact(db) /\ Exact(db')
      /\ now \in Nat /\ Dated(db.rows, now)
      BY StepState DEF SweepInv, StateInv, JobInv, RowsInv, Sound, Aged
<1>1. ASSUME NEW d, db' = d, Exact(d), Dated(d.rows, now), job' \in Sweeps(d)
      PROVE  SweepInv'
      <2>1. /\ job'.pc = "ttl" /\ job'.fams = <<>> /\ job'.victim = {}
            /\ Pooled(d.rows, job'.pool) /\ \A p \in Held(d.rows) : InPool(job'.pool, p)
            BY <1>0, <1>1, SweepsTyped
      <2>2. PoolOf(db'.rows, job'.pool, job'.victim, job'.fams)
            BY <1>1, <2>1 DEF PoolOf
      <2> QED BY <1>0, <2>1, <2>2 DEF SweepInv
<1>2. ASSUME job'.pc \notin Sweeping \cup {"orphans"}
      PROVE  SweepInv'
      BY <1>0, <1>2 DEF SweepInv, Sweeping
<1>3. CASE Tools
      <2>1. job.pc = "none" /\ NextJob /\ Gentle(db'.rows)
            BY <1>0, <1>3, ToolSteps
      <2>2. CASE job' = job
            BY <1>2, <2>1, <2>2 DEF Sweeping
      <2>3. CASE job' \in Sweeps(db')
            <3> DEFINE d == db'
            <3>1. Exact(d) /\ Dated(d.rows, now) /\ job' \in Sweeps(d) /\ db' = d
                  BY <1>0, <2>1, <2>3 DEF Gentle
            <3> HIDE DEF d
            <3> QED BY <1>1, <3>1
      <2>4. ASSUME NEW p \in Path, job' = Healing(p)
            PROVE  SweepInv'
            <3>1. job'.pc = "heal"
                  BY <2>4 DEF Healing, NoJob
            <3> QED BY <1>2, <3>1 DEF Sweeping
      <2> QED BY <2>1, <2>2, <2>3, <2>4 DEF NextJob
<1>4. CASE PurgeStep
      BY <1>0, <1>4, SweepPurge
<1>5. ASSUME job.pc \in {"ttl", "lru", "extra"}, job.fams = <<>>, job.pool # <<>>,
             db' = db, held' = held,
             \/ job' = Victim(Head(job.pool).path)
             \/ job' = [Victim(Head(job.pool).path) EXCEPT !.dropped = @ + 1]
             \/ job' = [Victim(Head(job.pool).path) EXCEPT !.extra = @ - 1]
      PROVE  SweepInv'
      <2>1. PoolOf(db.rows, Tail(job.pool), {Head(job.pool).path}, Families)
            BY <1>0, <1>5, PoolVictim DEF Sweeping
      <2> DEFINE v == Victim(Head(job.pool).path)
      <2>2. /\ v \in Jobs /\ v.pc = job.pc /\ v.pool = Tail(job.pool)
            /\ v.victim = {Head(job.pool).path} /\ v.fams = Families
            <3>1. /\ v \in Jobs
                  /\ v = [pc |-> job.pc, pool |-> Tail(job.pool), victim |-> {Head(job.pool).path},
                          fams |-> Families, dropped |-> job.dropped, extra |-> job.extra]
                  BY <1>0, <1>5, VictimJob
            <3> HIDE DEF v
            <3> QED BY <3>1
      <2>3. \/ job' = v
            \/ job' = [v EXCEPT !.dropped = @ + 1]
            \/ job' = [v EXCEPT !.extra = @ - 1]
            BY <1>5
      <2> HIDE DEF v
      <2>4. /\ job'.pc = job.pc /\ job'.pool = v.pool /\ job'.victim = v.victim
            /\ job'.fams = v.fams
            BY <2>2, <2>3 DEF Jobs
      <2>5. PoolOf(db'.rows, job'.pool, job'.victim, job'.fams)
            BY <1>5, <2>1, <2>2, <2>4
      <2>6. job.pc = "extra" => ~Over(db', held')
            BY <1>5 DEF SweepInv
      <2> QED BY <1>0, <1>5, <2>4, <2>5, <2>6 DEF SweepInv
<1>6. ASSUME job.pc \in Sweeping, db' = db, held' = held, job'.pc \in {"slim", "extra"},
             job'.pool = job.pool, job'.victim = job.victim, job'.fams = job.fams,
             job'.pc = "extra" => ~Over(db, held) \/ job.pool = <<>>
      PROVE  SweepInv'
      <2>1. PoolOf(db.rows, job.pool, job.victim, job.fams)
            BY <1>6 DEF SweepInv
      <2>2. PoolOf(db'.rows, job'.pool, job'.victim, job'.fams)
            BY <1>6, <2>1
      <2>3. job'.pc = "extra" => ~Over(db', held') \/ job'.pool = <<>>
            BY <1>6
      <2> QED BY <1>0, <1>6, <2>2, <2>3 DEF SweepInv
<1>7. CASE TtlStep
      <2>1. job.pc = "ttl" /\ job.fams = <<>> /\ db' = db /\ held' = held
            BY <1>7 DEF TtlStep, At, Step
      <2>2. CASE job.pool # <<>> /\ job' = Victim(Head(job.pool).path)
            BY <1>5, <2>1, <2>2
      <2>3. CASE job' = [job EXCEPT !.pc = "slim"]
            <3>1. /\ job'.pc = "slim" /\ job'.pool = job.pool /\ job'.victim = job.victim
                  /\ job'.fams = job.fams
                  BY <1>0, <2>3 DEF Jobs
            <3> QED BY <1>6, <2>1, <3>1 DEF Sweeping
      <2> QED BY <1>7, <2>2, <2>3 DEF TtlStep, Step
<1>8. CASE SlimStep
      BY <1>0, <1>8, SweepSlim
<1>9. CASE LruStep
      <2>1. job.pc = "lru" /\ job.fams = <<>> /\ db' = db /\ held' = held
            BY <1>9 DEF LruStep, At, Step
      <2>2. CASE job.pool # <<>> /\ job' = [Victim(Head(job.pool).path) EXCEPT !.dropped = @ + 1]
            BY <1>5, <2>1, <2>2
      <2>3. CASE /\ ~(job.pool # <<>> /\ StillOver(db, held))
                 /\ job' = [job EXCEPT !.pc = "extra", !.extra = Tenth(job.dropped)]
            <3> DEFINE n == Tenth(job.dropped)
            <3>0. job' = [job EXCEPT !.pc = "extra", !.extra = n]
                  BY <2>3
            <3> HIDE DEF n
            <3>1. /\ job'.pc = "extra" /\ job'.pool = job.pool /\ job'.victim = job.victim
                  /\ job'.fams = job.fams
                  BY <1>0, <3>0 DEF Jobs
            <3>2. ~Over(db, held) \/ job.pool = <<>>
                  BY <2>3 DEF StillOver
            <3> QED BY <1>6, <2>1, <3>1, <3>2 DEF Sweeping
      <2> QED BY <1>9, <2>2, <2>3 DEF LruStep, Step
<1>10. CASE ExtraStep
      <2>1. job.pc = "extra" /\ job.fams = <<>> /\ db' = db /\ held' = held
            BY <1>10 DEF ExtraStep, At, Step
      <2>2. CASE job.pool # <<>> /\ job' = [Victim(Head(job.pool).path) EXCEPT !.extra = @ - 1]
            BY <1>5, <2>1, <2>2
      <2>3. CASE job' = [job EXCEPT !.pc = "orphans"]
            <3>1. job'.pc = "orphans"
                  BY <1>0, <2>3 DEF Jobs
            <3>2. PoolOf(db.rows, job.pool, job.victim, job.fams)
                  BY <2>1 DEF SweepInv, Sweeping
            <3>3. \A p \in Held(db.rows) : InPool(job.pool, p)
                  BY <2>1, <3>2 DEF PoolOf
            <3>4. job.pool = <<>> => Held(db.rows) = {}
                  <4>1. Len(<<>>) = 0 /\ \A i \in 1 .. 0 : FALSE
                        OBVIOUS
                  <4> QED BY <3>3, <4>1 DEF InPool
            <3>5. ~Over(db', held') \/ Held(db'.rows) = {}
                  BY <2>1, <3>4 DEF SweepInv
            <3> QED BY <1>0, <3>1, <3>5 DEF SweepInv, Sweeping
      <2> QED BY <1>10, <2>2, <2>3 DEF ExtraStep, Step
<1>11. CASE OrphanStep \/ Crash
       <2>1. job'.pc = "none"
             BY <1>11, NoJobs DEF OrphanStep, Crash, Step
       <2> QED BY <1>2, <2>1 DEF Sweeping
<1>12. CASE PruneStep
       <2>1. CASE Step([job EXCEPT !.pc = "meta"], DeleteAll(OldRows("served", ServedTTL), db))
             <3>1. job'.pc = "meta"
                   BY <1>0, <2>1 DEF Step, Jobs
             <3> QED BY <1>2, <3>1 DEF Sweeping
       <2>2. CASE Step([job EXCEPT !.pc = "lines"], DeleteAll(OldRows("meta", AnchorTTL), db))
             <3>1. job'.pc = "lines"
                   BY <1>0, <2>2 DEF Step, Jobs
             <3> QED BY <1>2, <3>1 DEF Sweeping
       <2>3. ASSUME LET d == DeleteAll(OldRows("lines", AnchorTTL), db) IN
                       \E j \in IF job.extra = 1 THEN Sweeps(d) ELSE {NoJob} : Step(j, d)
             PROVE  SweepInv'
             <3> DEFINE d == DeleteAll(OldRows("lines", AnchorTTL), db)
             <3>1. db' = d /\ (job' \in Sweeps(d) \/ job' = NoJob)
                   BY <2>3 DEF Step
             <3>2. OldRows("lines", AnchorTTL) \in SUBSET db.rows
                   BY DEF OldRows
             <3>3. Sound(d) /\ d.rows \subseteq db.rows
                   BY <1>0, <3>2, SoundDelete
             <3> HIDE DEF d
             <3>4. Exact(d) /\ Dated(d.rows, now)
                   BY <1>0, <3>3 DEF Sound, Dated
             <3>5. CASE job' = NoJob
                   BY <1>2, <3>5, NoJobs DEF Sweeping
             <3>6. CASE job' \in Sweeps(d)
                   BY <1>1, <3>1, <3>4, <3>6
             <3> QED BY <3>1, <3>5, <3>6
       <2> QED BY <1>12, <2>1, <2>2, <2>3 DEF PruneStep
<1>13. CASE Open
       <2>1. job'.pc = "served"
             BY <1>13 DEF Open, NoJob
       <2> QED BY <1>2, <2>1 DEF Sweeping
<1>14. CASE Publish \/ Tick \/ UNCHANGED vars
       <2>1. db' = db /\ job' = job /\ held' = held
             BY <1>14 DEF Publish, Tick, vars
       <2> QED BY <1>0, <2>1 DEF SweepInv
<1>15. ASSUME NEW p \in Path, NEW L \in SUBSET Line, ForeignPut(p, L)
       PROVE  FALSE
       BY <1>15 DEF ForeignPut
<1> QED BY <1>3, <1>4, <1>7, <1>8, <1>9, <1>10, <1>11, <1>12, <1>13, <1>14, <1>15, NextKinds
        DEF Runs, SweepNext

LEMMA InitSweep == RowsFit /\ Init => SweepInv
<1> SUFFICES ASSUME RowsFit, Init PROVE SweepInv
    OBVIOUS
<1>1. StateInv
      BY InitState
<1>2. job.pc = "none"
      BY NoJobs DEF Init
<1> QED BY <1>1, <1>2 DEF SweepInv, Sweeping

\* What a step does to the job under way: only a purge, a choice of victim or an end
\* touches the victims, and only the orphans' statement ends a sweep.
LEMMA EvictStep ==
    ASSUME RowsFit, SweepInv, [Next]_vars
    PROVE  EvictsOldest
<1>0. StateInv /\ JobInv /\ job \in Jobs
      BY DEF SweepInv, StateInv, JobInv
<1> SUFFICES ASSUME job.pc \in {"ttl", "lru", "extra"}, job'.victim # job.victim,
                    NEW p \in job'.victim, NEW x \in Held(db.rows)
             PROVE  Recency(db.rows, p) <= Recency(db.rows, x)
    BY DEF EvictsOldest
<1>1. ASSUME job.fams = <<>>, job.pool # <<>>, job'.victim = {Head(job.pool).path}
      PROVE  Recency(db.rows, p) <= Recency(db.rows, x)
      <2> DEFINE q == job.pool
      <2>1. PoolOf(db.rows, q, job.victim, job.fams)
            BY DEF SweepInv, Sweeping
      <2>2. Head(q) = q[1] /\ q \in Seq(Entries) /\ Len(q) \in Nat
            BY <1>0, <1>1, VictimJob DEF Jobs
      <2>3. p = q[1].path
            BY <1>1, <2>2
      <2> HIDE DEF q
      <2>4. PICK i \in 1 .. Len(q) : q[i].path = x
            BY <1>1, <2>1 DEF PoolOf, InPool
      <2>5. 1 \in 1 .. Len(q) /\ (i = 1 \/ 1 < i)
            BY <2>2, <2>4
      <2>6. /\ \A k \in 1 .. Len(q) : q[k].ts = Recency(db.rows, q[k].path) /\ q[k] \in Entries
            /\ \A k, m \in 1 .. Len(q) : k < m => q[k].ts <= q[m].ts
            BY <2>1, <2>2 DEF PoolOf, Pooled
      <2>7. q[1].ts <= q[i].ts
            BY <2>5, <2>6 DEF Entries
      <2> QED BY <2>3, <2>4, <2>5, <2>6, <2>7
<1>2. CASE TtlStep \/ LruStep \/ ExtraStep
      <2>1. job.fams = <<>>
            BY <1>2 DEF TtlStep, LruStep, ExtraStep, At
      <2> DEFINE v == Victim(Head(job.pool).path)
      <2>2. \/ job' = v /\ job.pool # <<>>
            \/ job' = [v EXCEPT !.dropped = @ + 1] /\ job.pool # <<>>
            \/ job' = [v EXCEPT !.extra = @ - 1] /\ job.pool # <<>>
            \/ \E n : job' = [job EXCEPT !.pc = "slim"] \/ job' = [job EXCEPT !.pc = "orphans"]
                      \/ job' = [job EXCEPT !.pc = "extra", !.extra = n]
            BY <1>2 DEF TtlStep, LruStep, ExtraStep, Step
      <2>3. job.pool # <<>> => v \in Jobs /\ v.victim = {Head(job.pool).path}
            BY <1>0, VictimJob
      <2> HIDE DEF v
      <2>4. job.pool # <<>> /\ job'.victim = {Head(job.pool).path}
            BY <1>0, <2>2, <2>3 DEF Jobs
      <2> QED BY <1>1, <2>1, <2>4
<1>3. CASE PurgeStep
      <2>1. job' = [job EXCEPT !.fams = FamiliesLeft] \/ job'.victim = {}
            <3>1. \/ job' = [job EXCEPT !.fams = FamiliesLeft]
                  \/ job' = NoJob
                  \/ job' = [job EXCEPT !.fams = <<>>, !.victim = {}]
                  BY <1>0, <1>3, PurgeRows
            <3> QED BY <1>0, <3>1, NoJobs DEF Jobs
      <2> QED BY <1>0, <2>1 DEF Jobs
<1>4. CASE Tools
      BY <1>0, <1>4, ToolSteps
<1>5. CASE SlimStep \/ OrphanStep \/ PruneStep
      BY <1>5 DEF SlimStep, OrphanStep, PruneStep, At
<1>6. CASE Crash
      BY <1>6, NoJobs DEF Crash
<1>7. CASE Open
      BY <1>7 DEF Open, NoJob
<1>8. CASE Publish \/ Tick \/ UNCHANGED vars \/ \E y \in Path, L \in SUBSET Line : ForeignPut(y, L)
      BY <1>8 DEF Publish, Tick, vars, ForeignPut
<1> QED BY <1>2, <1>3, <1>4, <1>5, <1>6, <1>7, <1>8, NextKinds DEF Runs, SweepNext

LEMMA WithinStep ==
    ASSUME RowsFit, SweepInv, SweepInv', [Next]_vars
    PROVE  SweepWithin
<1>0. /\ StateInv /\ JobInv /\ job \in Jobs /\ Sound(db) /\ Exact(db) /\ Exact(db')
      /\ held \in LimitSet
      BY DEF SweepInv, StateInv, JobInv, RowsInv, Sound, ScalarInv
<1> SUFFICES ASSUME job.pc = "orphans", job'.pc = "none", up'
             PROVE  ~Over(db', held) \/ Held(db'.rows) = {}
    BY DEF SweepWithin
<1>1. ~Over(db, held) \/ Held(db.rows) = {}
      BY DEF SweepInv
<1>2. CASE db'.rows \subseteq db.rows
      <2>1. held \in [bytes : Nat, paths : Nat, rows : Nat]
            BY <1>0 DEF RowsFit
      <2>2. Over(db', held) => Over(db, held)
            BY <1>0, <1>2, <2>1, OverLess
      <2>3. Held(db'.rows) \subseteq Held(db.rows)
            BY <1>2, HeldLess
      <2> QED BY <1>1, <2>2, <2>3
<1>3. CASE Runs
      BY <1>0, <1>2, <1>3, RunSteps
<1>4. CASE Tools
      BY <1>0, <1>4, ToolSteps
<1>5. CASE Crash \/ Open
      BY <1>5 DEF Crash, Open, NoJob
<1>6. CASE Publish \/ Tick \/ UNCHANGED vars \/ \E y \in Path, L \in SUBSET Line : ForeignPut(y, L)
      BY <1>6 DEF Publish, Tick, vars, ForeignPut
<1> QED BY <1>3, <1>4, <1>5, <1>6, NextKinds

LEMMA NewestStep ==
    ASSUME RowsFit, StateInv, [Next]_vars
    PROVE  NewestUndoStays
<1> SUFFICES ASSUME job.pc = "slim", job'.pc = "lru",
                    NEW p \in Path, Of(db.rows, "undo", p) # {}
             PROVE  Of(db'.rows, "undo", p) # {} /\ Top(db'.rows, p) = Top(db.rows, p)
    BY DEF NewestUndoStays
<1>0. JobInv /\ job \in Jobs /\ job.fams = <<>> /\ Exact(db) /\ UndoNumbered(db.rows)
      BY DEF StateInv, JobInv, RowsInv, Sound
<1>1. SlimStep
      <2>1. CASE Tools
            BY <2>1, ToolSteps
      <2>2. CASE PurgeStep
            BY <1>0, <2>2 DEF PurgeStep
      <2>3. CASE TtlStep \/ LruStep \/ ExtraStep \/ OrphanStep \/ PruneStep
            BY <2>3 DEF TtlStep, LruStep, ExtraStep, OrphanStep, PruneStep, At
      <2>4. CASE Crash
            BY <2>4, NoJobs DEF Crash
      <2>6. CASE Open
            BY <2>6 DEF Open, NoJob
      <2>5. CASE Publish \/ Tick \/ UNCHANGED vars \/ \E y \in Path, L \in SUBSET Line : ForeignPut(y, L)
            BY <2>5 DEF Publish, Tick, vars, ForeignPut
      <2> QED BY <2>1, <2>2, <2>3, <2>4, <2>5, <2>6, NextKinds DEF Runs, SweepNext
<1>2. /\ db'.rows \subseteq db.rows
      /\ \A r \in db.rows : r.t # "undo" \/ r.k = Top(db.rows, r.path) => r \in db'.rows
      BY <1>1, SlimRows
<1>3. PICK r \in Of(db.rows, "undo", p) : TRUE
      OBVIOUS
<1>4. PICK o \in db.rows : o.t = "undo" /\ o.path = p /\ o.k = Top(db.rows, p)
      BY <1>3, TopLayer DEF Of
<1>5. o \in Of(db'.rows, "undo", p)
      BY <1>2, <1>4 DEF Of
<1>6. Exact(db') /\ UndoNumbered(db'.rows)
      BY StepState DEF StateInv, RowsInv, Sound
<1>7. /\ Top(db'.rows, p) \in Nat /\ Top(db.rows, p) \in Nat /\ o.k <= Top(db'.rows, p)
      /\ Top(db'.rows, p) = 0 \/ \E x \in Of(db'.rows, "undo", p) : x.k = Top(db'.rows, p)
      BY <1>0, <1>5, <1>6, TopNat
<1>8. Top(db'.rows, p) <= Top(db.rows, p)
      <2>1. CASE Top(db'.rows, p) = 0
            BY <1>7, <2>1
      <2>2. ASSUME NEW x \in Of(db'.rows, "undo", p), x.k = Top(db'.rows, p)
            PROVE  Top(db'.rows, p) <= Top(db.rows, p)
            <3>1. x \in Of(db.rows, "undo", p)
                  BY <1>2 DEF Of
            <3> QED BY <1>0, <2>2, <3>1, TopNat
      <2> QED BY <1>7, <2>1, <2>2
<1> QED BY <1>4, <1>5, <1>7, <1>8

\* A sweep no other process writes into ends with every metric in range, or with
\* nothing left to evict; one that a death cuts short is none that ended.
THEOREM SweepsWithin ==
    ASSUME RowsFit, "foreign" \notin Event
    PROVE  Spec => [][SweepWithin]_vars
<1>1. Init => SweepInv
      BY InitSweep
<1>2. SweepInv /\ [Next]_vars => SweepInv'
      BY SweepKept
<1>3. ASSUME SweepInv, SweepInv', [Next]_vars
      PROVE  [SweepWithin]_vars
      BY <1>3, WithinStep
<1> QED BY <1>1, <1>2, <1>3, PTL DEF Spec

\* A sweep no other process writes into evicts a path only when none it keeps is older,
\* whichever order it met the paths in that are as old as each other.
THEOREM SweepsOldestFirst ==
    ASSUME RowsFit, "foreign" \notin Event
    PROVE  Spec => [][EvictsOldest]_vars
<1>1. Init => SweepInv
      BY InitSweep
<1>2. SweepInv /\ [Next]_vars => SweepInv'
      BY SweepKept
<1>3. ASSUME SweepInv, [Next]_vars
      PROVE  [EvictsOldest]_vars
      BY <1>3, EvictStep
<1> QED BY <1>1, <1>2, <1>3, PTL DEF Spec

\* Slimming a path's undo stack leaves its newest layer, whoever writes meanwhile.
THEOREM SlimKeepsNewest ==
    ASSUME RowsFit
    PROVE  Spec => [][NewestUndoStays]_vars
<1>1. Spec => []StateInv
      BY StateHolds
<1>2. ASSUME StateInv, [Next]_vars
      PROVE  [NewestUndoStays]_vars
      BY <1>2, NewestStep
<1> QED BY <1>1, <1>2, PTL DEF Spec
=============================================================================
