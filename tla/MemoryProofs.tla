----------------------------- MODULE MemoryProofs -----------------------------
(***************************************************************************)
(* Proofs about the parts of the memory, for any number of sources,        *)
(* values, messages and workers: what is current and what it rests on,     *)
(* what stays deleted, pages that are one list, answers that are grounded, *)
(* and days of which nothing is lost.                                      *)
(***************************************************************************)
EXTENDS Memory, FiniteSetTheorems, FunctionTheorems, WellFoundedInduction, TLAPS

-----------------------------------------------------------------------------
(* Numbers: a set that begins at 0 and goes on has them all, and sets of   *)
(* numbers have ends.                                                      *)

LEMMA SmallestNumber ==
    ASSUME NEW S \in SUBSET Nat, S # {}
    PROVE  \E x \in S : \A y \in S : x <= y
  <1> DEFINE Less == {ss \in Nat \X Nat : ss[1] < ss[2]}
  <1>1. IsWellFoundedOn(Less, Nat)
    BY NatLessThanWellFounded DEF OpToRel
  <1>2. PICK x \in S : \A y \in S : ~(<<y, x>> \in Less)
    BY <1>1, WFMin
  <1>3. \A y \in S : ~(y < x)
    BY <1>2
  <1>4. QED
    BY <1>3

LEMMA GoingOn ==
    ASSUME NEW n \in Nat, NEW S, 0 \in S, \A k \in 0..n : k \in S /\ k < n => k + 1 \in S
    PROVE  \A k \in 0..n : k \in S
  <1> DEFINE Missing == {k \in 0..n : k \notin S}
  <1>1. SUFFICES ASSUME Missing # {}
                 PROVE  FALSE
    OBVIOUS
  <1>2. PICK k \in Missing : \A l \in Missing : k <= l
    <2>1. Missing \in SUBSET Nat
      OBVIOUS
    <2> HIDE DEF Missing
    <2>2. QED
      BY <1>1, <2>1, SmallestNumber
  <1>3. k # 0 /\ k \in 0..n
    BY <1>2
  <1>4. k - 1 \in 0..n /\ k - 1 < n /\ k - 1 \notin Missing
    BY <1>2, <1>3
  <1>5. k - 1 \in S
    BY <1>4
  <1>6. k - 1 + 1 \in S
    BY <1>4, <1>5
  <1>7. QED
    BY <1>2, <1>3, <1>6

LEMMA LargestNumber ==
    ASSUME NEW S \in SUBSET Nat, S # {}, IsFiniteSet(S)
    PROVE  \E x \in S : \A y \in S : x >= y
  <1> DEFINE Endless == {U \in SUBSET S : U # {} /\ ~\E x \in U : \A y \in U : x >= y}
  <1>1. SUFFICES ASSUME S \in Endless
                 PROVE  FALSE
    OBVIOUS
  <1>2. FiniteSubsetsOf(S) = SUBSET S
    BY FS_FiniteSubsetsOfFinite
  <1>3. IsWellFoundedOn(StrictSubsetOrdering(S), SUBSET S)
    BY <1>2, FS_StrictSubsetOrderingWellFounded
  <1>4. PICK U \in Endless : \A V \in Endless : ~(<<V, U>> \in StrictSubsetOrdering(S))
    <2>1. Endless \subseteq SUBSET S /\ Endless # {}
      BY <1>1
    <2> HIDE DEF Endless
    <2>2. QED
      BY <1>3, <2>1, WFMin
  <1>5. PICK x \in U : TRUE
    BY <1>4
  <1> DEFINE V == U \ {x}
  <1>6. V \in SUBSET S /\ <<V, U>> \in StrictSubsetOrdering(S)
    BY <1>4, <1>5 DEF StrictSubsetOrdering
  <1>7. V \notin Endless
    BY <1>4, <1>6
  <1>8. CASE V = {}
    BY <1>4, <1>5, <1>8
  <1>9. CASE V # {}
    <2>1. PICK m \in V : \A y \in V : m >= y
      BY <1>6, <1>7, <1>9
    <2>2. (IF x >= m THEN x ELSE m) \in U
      BY <1>5, <2>1
    <2>3. \A y \in U : (IF x >= m THEN x ELSE m) >= y
      BY <1>4, <1>5, <2>1
    <2>4. QED
      BY <1>4, <2>2, <2>3
  <1>10. QED
    BY <1>8, <1>9

-----------------------------------------------------------------------------
(* Sequences: a finite set with a total order is the range of one sequence *)
(* that has each of its members once, in that order.                       *)

Order(R, S) ==
    /\ \A x, y \in S : x # y => (<<x, y>> \in R \/ <<y, x>> \in R)
    /\ \A x, y, z \in S : <<x, y>> \in R /\ <<y, z>> \in R => <<x, z>> \in R
    /\ \A x \in S : <<x, x>> \notin R

LEMMA SortedSequence ==
    ASSUME NEW S, IsFiniteSet(S), NEW R, Order(R, S)
    PROVE  \E q \in [1..Cardinality(S) -> S] :
             /\ \A i, j \in 1..Cardinality(S) : i # j => q[i] # q[j]
             /\ \A i, j \in 1..Cardinality(S) : i < j => <<q[i], q[j]>> \in R
  <1> DEFINE n == Cardinality(S)
             Below(x) == {y \in S : y = x \/ <<y, x>> \in R}
             rank == [x \in S |-> Cardinality(Below(x))]
  <1>1. n \in Nat
    BY FS_CardinalityType
  <1>2. ASSUME NEW x \in S
        PROVE  IsFiniteSet(Below(x)) /\ Cardinality(Below(x)) \in 1..n
    <2>1. Below(x) \in SUBSET S /\ {x} \in SUBSET Below(x)
      OBVIOUS
    <2>2. IsFiniteSet(Below(x)) /\ Cardinality(Below(x)) <= n
      BY <2>1, FS_Subset
    <2>3. Cardinality({x}) <= Cardinality(Below(x))
      BY <2>1, <2>2, FS_Subset
    <2>4. Cardinality({x}) = 1 /\ Cardinality(Below(x)) \in Nat
      BY <2>2, FS_Singleton, FS_CardinalityType
    <2>5. QED
      BY <1>1, <2>2, <2>3, <2>4
  <1>3. ASSUME NEW x \in S, NEW y \in S, <<x, y>> \in R
        PROVE  Cardinality(Below(x)) < Cardinality(Below(y))
    <2>1. <<y, x>> \notin R /\ x # y
      BY <1>3 DEF Order
    <2>2. Below(x) \in SUBSET Below(y) /\ y \in Below(y) /\ y \notin Below(x)
      BY <1>3, <2>1 DEF Order
    <2>3. Cardinality(Below(x)) <= Cardinality(Below(y))
          /\ (Cardinality(Below(y)) = Cardinality(Below(x)) => Below(y) = Below(x))
      BY <1>2, <2>2, FS_Subset
    <2>4. Cardinality(Below(x)) \in 1..n /\ Cardinality(Below(y)) \in 1..n
      BY <1>2
    <2> HIDE DEF Below, n
    <2>5. QED
      BY <1>1, <2>2, <2>3, <2>4
  <1>4. rank \in [S -> 1..n] /\ \A x \in S : rank[x] = Cardinality(Below(x))
    BY <1>2
  <1> HIDE DEF Below, rank, n
  <1>5. \A x, y \in S : rank[x] = rank[y] => x = y
    <2>1. SUFFICES ASSUME NEW x \in S, NEW y \in S, rank[x] = rank[y], x # y
                   PROVE  FALSE
      OBVIOUS
    <2>2. <<x, y>> \in R \/ <<y, x>> \in R
      BY <2>1 DEF Order
    <2>3. rank[x] < rank[y] \/ rank[y] < rank[x]
      BY <1>3, <1>4, <2>2
    <2>4. QED
      BY <1>1, <1>4, <2>1, <2>3
  <1>6. rank \in Injection(S, 1..n)
    BY <1>4, <1>5, Fun_IsInj
  <1>7. IsFiniteSet(1..n) /\ Cardinality(1..n) = n
    BY <1>1, FS_Interval
  <1>8. rank \in Surjection(S, 1..n)
    BY <1>6, <1>7, FS_Injection DEF n
  <1>9. \A i \in 1..n : \E x \in S : rank[x] = i
    BY <1>8, Fun_SurjectionProperties
  <1> DEFINE q == [i \in 1..n |-> CHOOSE x \in S : rank[x] = i]
  <1>10. q \in [1..n -> S] /\ \A i \in 1..n : rank[q[i]] = i
    BY <1>9
  <1> HIDE DEF q
  <1>11. ASSUME NEW i \in 1..n, NEW j \in 1..n, i < j
         PROVE  <<q[i], q[j]>> \in R
    <2>1. q[i] \in S /\ q[j] \in S /\ q[i] # q[j]
      BY <1>1, <1>10, <1>11
    <2>2. <<q[j], q[i]>> \in R => rank[q[j]] < rank[q[i]]
      BY <1>3, <1>4, <2>1
    <2>3. QED
      BY <1>1, <1>10, <1>11, <2>1, <2>2 DEF Order
  <1>12. \A i, j \in 1..n : i # j => q[i] # q[j]
    BY <1>10
  <1>13. QED
    BY <1>10, <1>11, <1>12 DEF n

LEMMA EveryMember ==
    ASSUME NEW S, IsFiniteSet(S), NEW q \in [1..Cardinality(S) -> S],
           \A i, j \in 1..Cardinality(S) : i # j => q[i] # q[j]
    PROVE  \A x \in S : \E i \in 1..Cardinality(S) : q[i] = x
  <1> DEFINE n == Cardinality(S)
  <1>1. n \in Nat /\ IsFiniteSet(1..n) /\ Cardinality(1..n) = n
    BY FS_CardinalityType, FS_Interval
  <1>2. q \in Injection(1..n, S)
    BY Fun_IsInj
  <1>3. q \in Surjection(1..n, S)
    BY <1>1, <1>2, FS_Injection
  <1>4. \A x \in S : \E i \in 1..n : q[i] = x
    <2> HIDE DEF n
    <2>1. QED
      BY <1>3 DEF Surjection
  <1>5. QED
    BY <1>4

-----------------------------------------------------------------------------
(* Facts.  A deletion forgets facts one after the other: the fold of the   *)
(* model is the last of a sequence of ledgers, each made from the one      *)
(* before it.                                                              *)

Ledgers(h, base, q, n, left) ==
    /\ h[0] = base
    /\ \A k \in 1..n : h[k] = AnyLedger!Forget(h[k - 1], q[k], left)
    /\ AnyLedger!ForgetAll(base, q, left) = h[n]

LEMMA OneByOne ==
    ASSUME NEW base, NEW left, NEW n \in Nat, NEW q, DOMAIN q = 1..n
    PROVE  \E h : Ledgers(h, base, q, n, left)
  <1> DEFINE D == 1..n
             top(s) == CHOOSE x \in s : \A y \in s : x >= y
             Step(v, i) == AnyLedger!Forget(v, q[i], left)
             Fold(g, s) == IF s = {} THEN base ELSE Step(g[s \ {top(s)}], top(s))
             Folds(g, U) == g = [s \in SUBSET U |-> Fold(g, s)]
             G(U) == CHOOSE g : Folds(g, U)
  <1>1. AnyLedger!ForgetAll(base, q, left) = G(D)[D]
    BY DEF AnyLedger!ForgetAll, AnyLedger!FoldLeft, AnyLedger!MapThenFoldSet, AnyLedger!Max
  <1>2. ASSUME NEW s \in SUBSET D, s # {}
        PROVE  top(s) \in s /\ \A y \in s : top(s) >= y
    <2>1. s \in SUBSET Nat /\ IsFiniteSet(D)
      BY FS_Interval
    <2>2. IsFiniteSet(s)
      BY <2>1, FS_Subset
    <2>3. QED
      BY <1>2, <2>1, <2>2, LargestNumber
  <1>3. IsWellFoundedOn(StrictSubsetOrdering(D), SUBSET D)
    <2>1. IsFiniteSet(D)
      BY FS_Interval
    <2>2. FiniteSubsetsOf(D) = SUBSET D
      BY <2>1, FS_FiniteSubsetsOfFinite
    <2>3. QED
      BY <2>2, FS_StrictSubsetOrderingWellFounded
  <1> HIDE DEF Step, top
  <1>4. ASSUME NEW U \in SUBSET D, NEW g, NEW h, Folds(g, U), Folds(h, U)
        PROVE  g = h
    <2> DEFINE Apart == {s \in SUBSET U : g[s] # h[s]}
    <2>1. SUFFICES ASSUME Apart # {}
                   PROVE  FALSE
      BY <1>4
    <2>2. PICK s \in Apart : \A r \in Apart : ~(<<r, s>> \in StrictSubsetOrdering(D))
      <3>1. Apart \subseteq SUBSET D
        OBVIOUS
      <3> HIDE DEF Apart
      <3>2. QED
        BY <1>3, <2>1, <3>1, WFMin
    <2>3. g[s] = Fold(g, s) /\ h[s] = Fold(h, s) /\ s # {}
      BY <1>4, <2>2
    <2>4. top(s) \in s /\ s \ {top(s)} \in SUBSET U
      BY <1>2, <2>2, <2>3
    <2>5. <<s \ {top(s)}, s>> \in StrictSubsetOrdering(D)
      BY <2>2, <2>4 DEF StrictSubsetOrdering
    <2>6. g[s \ {top(s)}] = h[s \ {top(s)}]
      BY <2>2, <2>4, <2>5
    <2>7. QED
      BY <2>2, <2>3, <2>6
  <1>5. ASSUME NEW U \in SUBSET D
        PROVE  \E g : Folds(g, U)
    <2> DEFINE Without == {V \in SUBSET D : ~\E g : Folds(g, V)}
    <2>1. SUFFICES ASSUME Without # {}
                   PROVE  FALSE
      OBVIOUS
    <2>2. PICK V \in Without : \A W \in Without : ~(<<W, V>> \in StrictSubsetOrdering(D))
      <3>1. Without \subseteq SUBSET D
        OBVIOUS
      <3> HIDE DEF Without
      <3>2. QED
        BY <1>3, <2>1, <3>1, WFMin
    <2>3. ASSUME NEW W \in SUBSET V, W # V
          PROVE  Folds(G(W), W)
      <3>1. W \in SUBSET D /\ <<W, V>> \in StrictSubsetOrdering(D)
        BY <2>2, <2>3 DEF StrictSubsetOrdering
      <3>2. \E g : Folds(g, W)
        BY <2>2, <3>1
      <3> HIDE DEF Folds
      <3>3. QED
        BY <3>2
    <2> DEFINE below(s) == s \ {top(s)}
               g == [s \in SUBSET V |->
                        IF s = {} THEN base ELSE Step(G(below(s))[below(s)], top(s))]
    <2>4. ASSUME NEW W \in SUBSET V, W # V
          PROVE  g[W] = G(W)[W]
      <3>1. G(W)[W] = Fold(G(W), W)
        <4>1. Folds(G(W), W) /\ W \in SUBSET W
          BY <2>3, <2>4
        <4> HIDE DEF G
        <4>2. QED
          BY <4>1
      <3>2. CASE W = {}
        BY <3>1, <3>2
      <3>3. CASE W # {}
        <4>1. below(W) \in SUBSET W /\ below(W) # W /\ below(W) \in SUBSET V /\ below(W) # V
          BY <1>2, <2>2, <3>3
        <4>2. Folds(G(W), W) /\ Folds(G(below(W)), below(W))
          BY <2>3, <2>4, <4>1
        <4> DEFINE r == [s \in SUBSET below(W) |-> G(W)[s]]
        <4>3. ASSUME NEW s \in SUBSET below(W)
              PROVE  r[s] = Fold(r, s)
          <5>1. s \in SUBSET W /\ s \in SUBSET D
            BY <2>2, <4>1
          <5>2. G(W)[s] = Fold(G(W), s)
            BY <4>2, <5>1
          <5>3. s # {} => s \ {top(s)} \in SUBSET below(W)
            OBVIOUS
          <5>4. QED
            BY <5>2, <5>3
        <4>4. Folds(r, below(W))
          <5>1. r = [s \in SUBSET below(W) |-> r[s]]
            OBVIOUS
          <5> HIDE DEF r, below
          <5>2. QED
            BY <4>3, <5>1
        <4>5. r = G(below(W))
          <5>1. below(W) \in SUBSET D
            BY <2>2, <4>1
          <5> HIDE DEF Folds, r, below, G
          <5>2. QED
            BY <1>4, <4>2, <4>4, <5>1
        <4>6. G(W)[below(W)] = G(below(W))[below(W)]
          BY <4>5
        <4>7. QED
          BY <3>1, <3>3, <4>6
      <3>4. QED
        BY <3>2, <3>3
    <2>5. ASSUME NEW s \in SUBSET V
          PROVE  g[s] = Fold(g, s)
      <3>1. CASE s = {}
        BY <3>1
      <3>2. CASE s # {}
        <4>1. below(s) \in SUBSET V /\ below(s) # V
          BY <1>2, <2>2, <3>2
        <4>2. g[below(s)] = G(below(s))[below(s)]
          BY <2>4, <4>1
        <4>3. QED
          BY <3>2, <4>2
      <3>3. QED
        BY <3>1, <3>2
    <2>6. Folds(g, V)
      <3>1. g = [s \in SUBSET V |-> g[s]]
        OBVIOUS
      <3> HIDE DEF g
      <3>2. QED
        BY <2>5, <3>1
    <2>7. QED
      <3> HIDE DEF Folds, g
      <3>1. QED
        BY <2>2, <2>6
  <1>6. Folds(G(D), D)
    <2>1. \E g : Folds(g, D)
      BY <1>5
    <2> HIDE DEF Folds
    <2>2. QED
      BY <2>1
  <1> HIDE DEF G
  <1> DEFINE h == [k \in 0..n |-> G(D)[1..k]]
  <1>7. h[0] = base
    <2>1. 1..0 = {} /\ {} \in SUBSET D
      OBVIOUS
    <2>2. G(D)[{}] = base
      BY <1>6
    <2>3. QED
      BY <2>1, <2>2
  <1>8. ASSUME NEW k \in 1..n
        PROVE  h[k] = AnyLedger!Forget(h[k - 1], q[k], left)
    <2>1. 1..k \in SUBSET D /\ k \in 1..k
      OBVIOUS
    <2>2. top(1..k) = k
      <3>1. top(1..k) \in 1..k /\ \A y \in 1..k : top(1..k) >= y
        BY <1>2, <2>1
      <3>2. QED
        BY <2>1, <3>1
    <2>3. (1..k) \ {k} = 1..(k - 1)
      OBVIOUS
    <2>4. G(D)[1..k] = Step(G(D)[1..(k - 1)], k)
      BY <1>6, <2>1, <2>2, <2>3
    <2>5. QED
      BY <2>4 DEF Step
  <1>9. AnyLedger!ForgetAll(base, q, left) = h[n]
    BY <1>1
  <1>10. QED
    <2> HIDE DEF h
    <2>1. Ledgers(h, base, q, n, left)
      BY <1>7, <1>8, <1>9 DEF Ledgers
    <2>2. QED
      BY <2>1

LEMMA Counts ==
    ASSUME NEW S
    PROVE  /\ AnyLedger!Cardinality(S) = Cardinality(S)
           /\ AnyLedger!IsFiniteSet(S) <=> IsFiniteSet(S)
  BY DEF AnyLedger!Cardinality, Cardinality, AnyLedger!IsFiniteSet, IsFiniteSet

LEMMA FactsAreFinite ==
    /\ IsFiniteSet(AnyLedger!FactIds)
    /\ Replacements \cap AnyLedger!Extracted = {}
    /\ Nobody \notin AnyLedger!FactIds
    /\ AnyLedger!FactIds = AnyLedger!Extracted \cup Replacements
    /\ \A f \in AnyLedger!Extracted : f[1] = "works_at"
  <1>1. IsFiniteSet({"works_at"}) /\ IsFiniteSet(Values) /\ IsFiniteSet(Replacements)
    BY MemoryAssumptions, Counts, FS_Singleton DEF AnyLedger!LedgerAssumption
  <1>2. IsFiniteSet({"works_at"} \X Values)
    BY <1>1, FS_Product
  <1>3. IsFiniteSet(({"works_at"} \X Values) \cup Replacements)
    BY <1>1, <1>2, FS_Union
  <1>4. QED
    BY <1>3, MemoryAssumptions
       DEF AnyLedger!LedgerAssumption, AnyLedger!FactIds, AnyLedger!Extracted

(* Of facts of one predicate one is current at most.                       *)
OneOf(rows) ==
    \A f, g \in AnyLedger!FactIds :
        rows[f].status = "current" /\ rows[g].status = "current" => f = g

Stands(r) == r.status \notin {"none", "deleted"}

(* What the deletion of a source may do to the facts.                      *)
Fades(rows, after) ==
    /\ after \in [AnyLedger!FactIds -> AnyLedger!FactRow]
    /\ \A f \in AnyLedger!FactIds :
        /\ after[f].predicate = rows[f].predicate
        /\ after[f].supersedes = rows[f].supersedes
        /\ after[f].age = rows[f].age
        /\ after[f].status = "none" <=> rows[f].status = "none"
        /\ rows[f].status = "deleted" => after[f].status = "deleted"
        /\ Stands(after[f]) => Stands(rows[f])
    /\ OneOf(rows) => OneOf(after)

OnePredicate(rows) ==
    \A f \in AnyLedger!FactIds : rows[f].status # "none" => rows[f].predicate = "works_at"

LEMMA ForgetOne ==
    ASSUME NEW rows \in [AnyLedger!FactIds -> AnyLedger!FactRow], OnePredicate(rows),
           NEW f \in AnyLedger!FactIds, rows[f].status # "none", NEW left
    PROVE  /\ Fades(rows, AnyLedger!Forget(rows, f, left))
           /\ \/ AnyLedger!Forget(rows, f, left)[f].status = "deleted"
              \/ \E s \in Sources : <<f, s>> \in left
  <1> DEFINE gone == [rows EXCEPT ![f].status = "deleted"]
             p == gone[f].supersedes
             after == AnyLedger!Forget(rows, f, left)
  <1>1. CASE \E s \in Sources : <<f, s>> \in left
    <2>1. after = rows
      BY <1>1 DEF AnyLedger!Forget
    <2>2. QED
      BY <1>1, <2>1 DEF Fades
  <1>2. CASE ~\E s \in Sources : <<f, s>> \in left
    <2>1. /\ gone \in [AnyLedger!FactIds -> AnyLedger!FactRow]
          /\ gone[f] = [rows[f] EXCEPT !.status = "deleted"]
          /\ \A g \in AnyLedger!FactIds : g # f => gone[g] = rows[g]
      BY DEF AnyLedger!FactRow
    <2>2. Fades(rows, gone) /\ gone[f].status = "deleted"
      BY <2>1 DEF Fades, Stands, OneOf, AnyLedger!FactRow
    <2>3. CASE after = gone
      BY <2>2, <2>3
    <2>4. CASE after # gone
      <3>1. after = AnyLedger!Restore(gone, f) /\ rows[f].status = "current"
        BY <1>2, <2>4 DEF AnyLedger!Forget
      <3> HIDE DEF gone, after
      <3>2. /\ p # Nobody /\ gone[p].status = "superseded"
            /\ AnyLedger!Current(gone, gone[f].predicate) = {}
            /\ after = [gone EXCEPT ![p].status = "current"]
        BY <2>4, <3>1 DEF AnyLedger!Restore
      <3>3. p \in AnyLedger!FactIds
        BY <2>1, <3>2 DEF AnyLedger!FactRow
      <3>4. p # f /\ after[f].status = "deleted"
        BY <2>1, <2>2, <3>2, <3>3 DEF AnyLedger!FactRow
      <3>5. \A g \in AnyLedger!FactIds : gone[g].status # "current"
        <4>1. \A g \in AnyLedger!FactIds : gone[g].status = "current" => gone[g].predicate = gone[f].predicate
          BY <2>1, <3>1 DEF OnePredicate, AnyLedger!FactRow
        <4>2. QED
          BY <3>2, <4>1 DEF AnyLedger!Current
      <3>6. /\ after \in [AnyLedger!FactIds -> AnyLedger!FactRow]
            /\ after[p] = [gone[p] EXCEPT !.status = "current"]
            /\ \A g \in AnyLedger!FactIds : g # p => after[g] = gone[g]
        <4>1. gone[p] \in AnyLedger!FactRow
          BY <2>1, <3>3
        <4>2. [gone[p] EXCEPT !.status = "current"] \in AnyLedger!FactRow
          BY <4>1 DEF AnyLedger!FactRow
        <4> HIDE DEF p
        <4>3. after = [gone EXCEPT ![p] = [gone[p] EXCEPT !.status = "current"]]
          BY <3>2
        <4>4. QED
          BY <2>1, <3>3, <4>2, <4>3
      <3>7. OneOf(after)
        BY <3>5, <3>6 DEF OneOf
      <3>8. Fades(gone, after)
        BY <2>1, <3>2, <3>3, <3>6, <3>7 DEF Fades, Stands, AnyLedger!FactRow
      <3>9. Fades(rows, after)
        BY <2>2, <3>7, <3>8 DEF Fades
      <3>10. QED
        BY <3>4, <3>9 DEF after
    <2>5. QED
      BY <2>3, <2>4
  <1>3. QED
    BY <1>1, <1>2

LEMMA ForgetMany ==
    ASSUME NEW rows \in [AnyLedger!FactIds -> AnyLedger!FactRow], OnePredicate(rows),
           NEW n \in Nat, NEW q \in [1..n -> AnyLedger!FactIds], NEW left,
           \A i \in 1..n : rows[q[i]].status # "none"
    PROVE  /\ Fades(rows, AnyLedger!ForgetAll(rows, q, left))
           /\ \A i \in 1..n :
                \/ AnyLedger!ForgetAll(rows, q, left)[q[i]].status = "deleted"
                \/ \E s \in Sources : <<q[i], s>> \in left
  <1>0. PICK h : Ledgers(h, rows, q, n, left)
    <2>1. DOMAIN q = 1..n
      OBVIOUS
    <2>2. QED
      BY <2>1, OneByOne
  <1>1. /\ h[0] = rows
        /\ \A k \in 1..n : h[k] = AnyLedger!Forget(h[k - 1], q[k], left)
        /\ AnyLedger!ForgetAll(rows, q, left) = h[n]
    BY <1>0 DEF Ledgers
  <1> DEFINE Forgotten(k) ==
                \A i \in 1..k : h[k][q[i]].status = "deleted" \/ \E s \in Sources : <<q[i], s>> \in left
             S == {k \in 0..n : Fades(rows, h[k]) /\ Forgotten(k)}
  <1>2. 0 \in S
    BY <1>1 DEF Fades
  <1>3. ASSUME NEW k \in 0..n, k \in S, k < n
        PROVE  k + 1 \in S
    <2>1. k + 1 \in 1..n /\ k + 1 - 1 = k
      BY <1>3
    <2>2. h[k + 1] = AnyLedger!Forget(h[k], q[k + 1], left)
      BY <1>1, <2>1
    <2>3. Fades(rows, h[k]) /\ q[k + 1] \in AnyLedger!FactIds
      BY <1>3, <2>1
    <2>4. /\ h[k] \in [AnyLedger!FactIds -> AnyLedger!FactRow] /\ OnePredicate(h[k])
          /\ h[k][q[k + 1]].status # "none"
      BY <2>1, <2>3 DEF Fades, OnePredicate
    <2>5. /\ Fades(h[k], h[k + 1])
          /\ h[k + 1][q[k + 1]].status = "deleted" \/ \E s \in Sources : <<q[k + 1], s>> \in left
      BY <2>2, <2>3, <2>4, ForgetOne
    <2>6. Fades(rows, h[k + 1])
      BY <2>3, <2>5 DEF Fades
    <2>7. ASSUME NEW i \in 1..(k + 1)
          PROVE  h[k + 1][q[i]].status = "deleted" \/ \E s \in Sources : <<q[i], s>> \in left
      <3>1. CASE i = k + 1
        BY <2>5, <3>1
      <3>2. CASE i # k + 1
        <4>1. i \in 1..k /\ q[i] \in AnyLedger!FactIds
          BY <1>3, <3>2
        <4>2. QED
          BY <1>3, <2>5, <4>1 DEF Fades
      <3>3. QED
        BY <3>1, <3>2
    <2>8. Forgotten(k + 1)
      BY <2>7
    <2> HIDE DEF Forgotten
    <2>9. QED
      BY <2>1, <2>6, <2>8
  <1>4. n \in S
    <2> HIDE DEF S
    <2>1. \A k \in 0..n : k \in S /\ k < n => k + 1 \in S
      BY <1>3
    <2>2. \A k \in 0..n : k \in S
      BY <1>2, <2>1, GoingOn
    <2>3. QED
      BY <2>2
  <1>5. QED
    BY <1>1, <1>4

(* What every step keeps of the facts.  While an extraction is under way   *)
(* nobody else acts, so what it has read is still so when it commits.      *)
StoredFacts == {f \in AnyLedger!FactIds : fact[f].status # "none"}

AgesAreOrder ==
    /\ \A f \in StoredFacts : fact[f].age \in 1..Cardinality(StoredFacts)
    /\ \A f, g \in StoredFacts : fact[f].age = fact[g].age => f = g

ReadingHolds ==
    \A s \in Sources : lSource[s] = "processing" =>
        /\ \A q \in Sources : lSource[q] = "processing" => q = s
        /\ reading[s].fact \in AnyLedger!Extracted
        /\ reading[s].known <=> reading[s].fact \in StoredFacts
        /\ reading[s].previous # Nobody =>
              /\ reading[s].previous \in StoredFacts
              /\ fact[reading[s].previous].status = "current"
        /\ ~reading[s].confident => reading[s].previous = Nobody
        /\ reading[s].confident /\ reading[s].previous = Nobody /\ ~reading[s].known =>
              \A f \in AnyLedger!FactIds : fact[f].status # "current"

LedgerInv ==
    /\ AnyLedger!TypeOK
    /\ OnePredicate(fact)
    /\ AgesAreOrder
    /\ AnyLedger!Provenance
    /\ \A e \in lEvidence : e[1] \in StoredFacts
    /\ ReadingHolds

LEMMA NewAgeFits ==
    ASSUME AnyLedger!TypeOK, NEW f \in AnyLedger!FactIds, f \notin StoredFacts
    PROVE  /\ AnyLedger!NewAge \in 1..AnyLedger!Cardinality(AnyLedger!FactIds)
           /\ AnyLedger!NewAge = Cardinality(StoredFacts) + 1
           /\ Cardinality(StoredFacts \cup {f}) = AnyLedger!NewAge
           /\ Cardinality(StoredFacts) \in Nat
  <1>1. AnyLedger!NewAge = 1 + Cardinality(StoredFacts)
    BY Counts DEF AnyLedger!NewAge, AnyLedger!Stored, StoredFacts
  <1>2. IsFiniteSet(AnyLedger!FactIds) /\ StoredFacts \in SUBSET AnyLedger!FactIds
    BY FactsAreFinite DEF StoredFacts
  <1>3. IsFiniteSet(StoredFacts) /\ Cardinality(StoredFacts) \in Nat
    BY <1>2, FS_Subset, FS_CardinalityType
  <1>4. Cardinality(StoredFacts \cup {f}) = Cardinality(StoredFacts) + 1
    BY <1>3, FS_AddElement
  <1>5. Cardinality(StoredFacts \cup {f}) <= Cardinality(AnyLedger!FactIds)
    <2>1. StoredFacts \cup {f} \in SUBSET AnyLedger!FactIds
      BY <1>2
    <2>2. QED
      BY <1>2, <2>1, FS_Subset
  <1>6. AnyLedger!Cardinality(AnyLedger!FactIds) = Cardinality(AnyLedger!FactIds)
        /\ Cardinality(AnyLedger!FactIds) \in Nat
    BY <1>2, Counts, FS_CardinalityType
  <1>7. QED
    BY <1>1, <1>3, <1>4, <1>5, <1>6

LEMMA NewestFirstIsOrder ==
    ASSUME AgesAreOrder, NEW those \in SUBSET StoredFacts
    PROVE  \E n \in Nat :
             /\ AnyLedger!NewestFirst(those) \in [1..n -> those]
             /\ \A f \in those : \E i \in 1..n : AnyLedger!NewestFirst(those)[i] = f
  <1> DEFINE n == Cardinality(those)
             Seqs == {q \in [1..n -> those] : \A i, j \in 1..n : i # j => q[i] # q[j]}
             Older == {ff \in those \X those : fact[ff[1]].age > fact[ff[2]].age}
             Sorted(q) == \A i, j \in DOMAIN q : i < j => fact[q[i]].age > fact[q[j]].age
             newest == AnyLedger!NewestFirst(those)
  <1>1. IsFiniteSet(those) /\ n \in Nat
    <2>1. those \in SUBSET AnyLedger!FactIds
      BY DEF StoredFacts
    <2>2. QED
      BY <2>1, FactsAreFinite, FS_Subset, FS_CardinalityType
  <1>2. \A f \in those : fact[f].age \in Nat
    <2>1. IsFiniteSet(StoredFacts)
      <3>1. StoredFacts \in SUBSET AnyLedger!FactIds
        BY DEF StoredFacts
      <3>2. QED
        BY <3>1, FactsAreFinite, FS_Subset
    <2>2. Cardinality(StoredFacts) \in Nat
      BY <2>1, FS_CardinalityType
    <2>3. QED
      BY <2>2 DEF AgesAreOrder
  <1>3. Order(Older, those)
    BY <1>2 DEF AgesAreOrder, Order
  <1>4. \E q \in [1..n -> those] :
            /\ \A i, j \in 1..n : i # j => q[i] # q[j]
            /\ \A i, j \in 1..n : i < j => <<q[i], q[j]>> \in Older
    <2> HIDE DEF Older
    <2>1. QED
      BY <1>1, <1>3, SortedSequence
  <1>5. AnyLedger!SetToSeqs(those) = Seqs
    BY Counts DEF AnyLedger!SetToSeqs
  <1>6. newest = CHOOSE q \in Seqs : Sorted(q)
    BY <1>5 DEF AnyLedger!NewestFirst
  <1>7. \E q \in Seqs : Sorted(q)
    BY <1>4
  <1> HIDE DEF Sorted, newest, n
  <1>8. newest \in Seqs
    BY <1>6, <1>7
  <1>9. newest \in [1..n -> those] /\ \A i, j \in 1..n : i # j => newest[i] # newest[j]
    BY <1>8
  <1>10. \A f \in those : \E i \in 1..n : newest[i] = f
    BY <1>1, <1>9, EveryMember DEF n
  <1>11. QED
    BY <1>1, <1>9, <1>10 DEF newest

LEMMA LedgerBegins == AnyLedger!Init => LedgerInv
  <1>1. SUFFICES ASSUME AnyLedger!Init
                 PROVE  LedgerInv
    OBVIOUS
  <1>2. StoredFacts = {}
    BY <1>1 DEF AnyLedger!Init, AnyLedger!NoRow, StoredFacts
  <1>3. AnyLedger!Cardinality(AnyLedger!FactIds) \in Nat
    BY FactsAreFinite, Counts, FS_CardinalityType
  <1>4. AnyLedger!TypeOK
    BY <1>1, <1>3 DEF AnyLedger!Init, AnyLedger!TypeOK, AnyLedger!NoRow, AnyLedger!FactRow,
           AnyLedger!Reading, AnyLedger!NothingRead
  <1>5. QED
    BY <1>1, <1>2, <1>4 DEF LedgerInv, AnyLedger!Init, AnyLedger!NoRow, OnePredicate, AgesAreOrder,
       AnyLedger!Provenance, ReadingHolds, AnyLedger!Extracted, AnyLedger!FactIds

(* Rows keep their predicate and age, and none is added, or one is.        *)
LEMMA SameFacts ==
    ASSUME OnePredicate(fact), AgesAreOrder,
           \A g \in AnyLedger!FactIds :
               /\ fact'[g].predicate = fact[g].predicate /\ fact'[g].age = fact[g].age
               /\ fact'[g].status = "none" <=> fact[g].status = "none"
    PROVE  OnePredicate(fact') /\ AgesAreOrder' /\ StoredFacts' = StoredFacts
  <1>1. StoredFacts' = StoredFacts
    BY DEF StoredFacts
  <1>2. \A f \in StoredFacts : fact'[f].age = fact[f].age
    BY DEF StoredFacts
  <1>3. AgesAreOrder'
    BY <1>1, <1>2 DEF AgesAreOrder
  <1>4. QED
    BY <1>1, <1>3 DEF OnePredicate

LEMMA OneMoreFact ==
    ASSUME AnyLedger!TypeOK, OnePredicate(fact), AgesAreOrder,
           NEW f \in AnyLedger!FactIds, f \notin StoredFacts,
           fact'[f].status # "none", fact'[f].predicate = "works_at",
           fact'[f].age = AnyLedger!NewAge,
           \A g \in AnyLedger!FactIds : g # f =>
               /\ fact'[g].predicate = fact[g].predicate /\ fact'[g].age = fact[g].age
               /\ fact'[g].status = "none" <=> fact[g].status = "none"
    PROVE  OnePredicate(fact') /\ AgesAreOrder' /\ StoredFacts' = StoredFacts \cup {f}
  <1>1. StoredFacts' = StoredFacts \cup {f}
    BY DEF StoredFacts
  <1>2. \A g \in StoredFacts : g # f /\ fact'[g].age = fact[g].age
    BY DEF StoredFacts
  <1>3. Cardinality(StoredFacts') = Cardinality(StoredFacts) + 1
        /\ fact'[f].age = Cardinality(StoredFacts) + 1 /\ Cardinality(StoredFacts) \in Nat
    BY <1>1, NewAgeFits
  <1>4. \A g \in StoredFacts' : fact'[g].age \in 1..Cardinality(StoredFacts')
    <2>1. CASE StoredFacts' = StoredFacts \cup {f}
      <3>1. fact'[f].age \in 1..(Cardinality(StoredFacts) + 1)
        BY <1>3
      <3>2. \A g \in StoredFacts : fact'[g].age \in 1..(Cardinality(StoredFacts) + 1)
        BY <1>2, <1>3 DEF AgesAreOrder
      <3>3. QED
        BY <1>3, <2>1, <3>1, <3>2
    <2>2. QED
      BY <1>1, <2>1
  <1>5. \A g, h \in StoredFacts' : fact'[g].age = fact'[h].age => g = h
    <2>1. \A g \in StoredFacts : fact'[g].age # fact'[f].age
      BY <1>2, <1>3 DEF AgesAreOrder
    <2>2. \A g, h \in StoredFacts : fact'[g].age = fact'[h].age => g = h
      BY <1>2 DEF AgesAreOrder
    <2>3. QED
      BY <1>1, <2>1, <2>2
  <1>6. AgesAreOrder'
    BY <1>4, <1>5 DEF AgesAreOrder
  <1>7. QED
    BY <1>1, <1>6 DEF OnePredicate

LEMMA NobodyReads ==
    ASSUME AnyLedger!UserMayAct
    PROVE  \A s \in Sources : lSource[s] # "processing"
  BY DEF AnyLedger!UserMayAct

LEMMA LatestIsCurrent ==
    ASSUME LedgerInv, NEW over, AnyLedger!Current(fact, over) # {}
    PROVE  AnyLedger!Latest(over) \in AnyLedger!Current(fact, over)
  <1> DEFINE C == AnyLedger!Current(fact, over)
             Newer(g) == \A h \in C : fact[h].age <= fact[g].age
             ages == {fact[g].age : g \in C}
  <1>1. C \in SUBSET AnyLedger!FactIds /\ C \in SUBSET StoredFacts /\ C # {}
    BY DEF AnyLedger!Current, StoredFacts
  <1>2. IsFiniteSet(C)
    BY <1>1, FactsAreFinite, FS_Subset
  <1>3. IsFiniteSet(ages)
    <2> DEFINE n == Cardinality(StoredFacts)
    <2>1. n \in Nat
      <3>1. StoredFacts \in SUBSET AnyLedger!FactIds
        BY DEF StoredFacts
      <3>2. QED
        BY <3>1, FactsAreFinite, FS_Subset, FS_CardinalityType
    <2>2. ages \in SUBSET (1..n)
      BY <1>1 DEF LedgerInv, AgesAreOrder
    <2>3. IsFiniteSet(1..n)
      BY <2>1, FS_Interval
    <2> HIDE DEF ages, n
    <2>4. QED
      BY <2>2, <2>3, FS_Subset
  <1>4. \A g \in C : fact[g].age \in Nat
    <2>1. Cardinality(StoredFacts) \in Nat
      <3>1. StoredFacts \in SUBSET AnyLedger!FactIds
        BY DEF StoredFacts
      <3>2. QED
        BY <3>1, FactsAreFinite, FS_Subset, FS_CardinalityType
    <2>2. QED
      BY <1>1, <2>1 DEF LedgerInv, AgesAreOrder
  <1>5. ages \in SUBSET Nat /\ ages # {}
    BY <1>1, <1>4
  <1>6. PICK top \in ages : \A y \in ages : top >= y
    <2> HIDE DEF ages
    <2>1. QED
      BY <1>3, <1>5, LargestNumber
  <1>7. PICK g \in C : fact[g].age = top
    BY <1>6
  <1>8. Newer(g)
    BY <1>4, <1>6, <1>7
  <1>9. AnyLedger!Latest(over) = CHOOSE h \in C : Newer(h)
    BY DEF AnyLedger!Latest
  <1> HIDE DEF Newer, C
  <1>10. QED
    BY <1>7, <1>8, <1>9 DEF C

LEMMA ReadKeeps ==
    ASSUME LedgerInv, NEW s \in Sources, NEW f \in AnyLedger!Extracted, NEW confident \in BOOLEAN,
           AnyLedger!ReadFacts(s, f, confident, "works_at")
    PROVE  LedgerInv'
  <1>1. \A q \in Sources : lSource[q] # "processing"
    <2> DEFINE busy == {q \in Sources : lSource[q] = "processing"}
    <2>1. Cardinality(busy) < 1
      BY Counts DEF AnyLedger!ReadFacts
    <2>2. IsFiniteSet(busy)
      <3>1. IsFiniteSet(Sources) /\ busy \in SUBSET Sources
        BY MemoryAssumptions, Counts DEF AnyLedger!LedgerAssumption
      <3>2. QED
        BY <3>1, FS_Subset
    <2>3. Cardinality(busy) \in Nat
      BY <2>2, FS_CardinalityType
    <2>4. busy = {}
      <3> HIDE DEF busy
      <3>1. Cardinality(busy) = 0
        BY <2>1, <2>3
      <3>2. QED
        BY <2>2, <3>1, FS_EmptySet
    <2>5. QED
      BY <2>4
  <1> DEFINE C == AnyLedger!Current(fact, "works_at")
             previous == IF AnyLedger!Stored(f) \/ ~confident THEN Nobody
                         ELSE AnyLedger!Latest("works_at")
             read == [fact |-> f, confident |-> confident, known |-> AnyLedger!Stored(f),
                      previous |-> previous]
  <1>2. /\ lSource \in [Sources -> {"received", "processing", "processed", "deleted"}]
        /\ reading \in [Sources -> AnyLedger!Reading]
        /\ fact \in [AnyLedger!FactIds -> AnyLedger!FactRow]
        /\ lEvidence \subseteq AnyLedger!FactIds \X Sources
    BY DEF LedgerInv, AnyLedger!TypeOK
  <1>3. C = {g \in AnyLedger!FactIds : fact[g].status = "current"}
    BY DEF LedgerInv, OnePredicate, AnyLedger!Current
  <1>4. /\ previous \in C \cup {Nobody}
        /\ ~confident => previous = Nobody
        /\ confident /\ previous = Nobody /\ ~AnyLedger!Stored(f) => C = {}
    <2>1. CASE AnyLedger!Stored(f) \/ ~confident
      BY <2>1
    <2>2. CASE ~(AnyLedger!Stored(f) \/ ~confident) /\ C = {}
      BY <2>2 DEF AnyLedger!Latest
    <2>3. CASE ~(AnyLedger!Stored(f) \/ ~confident) /\ C # {}
      <3>1. previous \in C
        BY <2>3, LatestIsCurrent
      <3>2. previous # Nobody
        BY <1>3, <3>1, FactsAreFinite
      <3>3. QED
        BY <2>3, <3>1, <3>2
    <2>4. QED
      BY <2>1, <2>2, <2>3
  <1>5. /\ lSource' = [lSource EXCEPT ![s] = "processing"] /\ lSource[s] = "received"
        /\ reading' = [reading EXCEPT ![s] = read]
        /\ fact' = fact /\ lEvidence' = lEvidence
    BY DEF AnyLedger!ReadFacts
  <1> HIDE DEF previous, C
  <1>6. AnyLedger!TypeOK'
    <2>1. previous \in AnyLedger!FactIds \cup {Nobody}
      BY <1>3, <1>4
    <2>2. read \in AnyLedger!Reading
      BY <2>1 DEF AnyLedger!Reading, AnyLedger!Stored
    <2> HIDE DEF read
    <2>3. QED
      BY <1>2, <1>5, <2>2 DEF AnyLedger!TypeOK
  <1>7. ReadingHolds'
    <2>1. StoredFacts' = StoredFacts
      BY <1>5 DEF StoredFacts
    <2>2. ASSUME NEW q \in Sources, lSource'[q] = "processing"
          PROVE  q = s /\ reading'[q] = read
      BY <1>1, <1>2, <1>5, <2>2
    <2>3. f \in AnyLedger!FactIds /\ (AnyLedger!Stored(f) <=> f \in StoredFacts)
      BY DEF StoredFacts, AnyLedger!Stored, AnyLedger!FactIds
    <2>4. previous # Nobody => previous \in StoredFacts /\ fact[previous].status = "current"
      BY <1>3, <1>4 DEF StoredFacts
    <2>5. confident /\ previous = Nobody /\ ~AnyLedger!Stored(f) =>
            \A g \in AnyLedger!FactIds : fact[g].status # "current"
      BY <1>3, <1>4
    <2>6. \A q \in Sources : lSource'[q] = "processing" =>
            /\ \A q2 \in Sources : lSource'[q2] = "processing" => q2 = q
            /\ reading'[q].fact = f /\ reading'[q].confident = confident
            /\ reading'[q].known = AnyLedger!Stored(f) /\ reading'[q].previous = previous
      BY <2>2
    <2> HIDE DEF read
    <2>7. QED
      BY <1>4, <1>5, <2>1, <2>3, <2>4, <2>5, <2>6 DEF ReadingHolds
  <1>8. OnePredicate(fact)' /\ AgesAreOrder' /\ StoredFacts' = StoredFacts
    BY <1>5 DEF LedgerInv, OnePredicate, AgesAreOrder, StoredFacts
  <1>9. AnyLedger!Provenance'
    <2>1. \A q \in Sources : lSource[q] = "processed" => lSource'[q] = "processed"
      BY <1>2, <1>5
    <2>2. QED
      BY <1>2, <1>5, <2>1 DEF LedgerInv, AnyLedger!Provenance
  <1>10. QED
    BY <1>5, <1>6, <1>7, <1>8, <1>9 DEF LedgerInv

LEMMA StoreKeeps ==
    ASSUME LedgerInv, NEW s \in Sources, AnyLedger!StoreFacts(s)
    PROVE  LedgerInv'
  <1> DEFINE f == reading[s].fact
             previous == reading[s].previous
             old == AnyLedger!Supersede(fact, previous)
             new == AnyLedger!NewFact(s)
  <1>1. /\ lSource \in [Sources -> {"received", "processing", "processed", "deleted"}]
        /\ reading \in [Sources -> AnyLedger!Reading]
        /\ fact \in [AnyLedger!FactIds -> AnyLedger!FactRow]
        /\ lEvidence \subseteq AnyLedger!FactIds \X Sources
    BY DEF LedgerInv, AnyLedger!TypeOK
  <1>2. /\ lSource[s] = "processing" /\ lSource' = [lSource EXCEPT ![s] = "processed"]
        /\ reading' = [reading EXCEPT ![s] = AnyLedger!NothingRead]
        /\ lEvidence' = lEvidence \cup {<<f, s>>}
        /\ fact' = IF reading[s].known THEN fact ELSE [old EXCEPT ![f] = new]
        /\ reading[s].known \/ ~AnyLedger!Stored(f)
    BY DEF AnyLedger!StoreFacts
  <1>3. /\ f \in AnyLedger!Extracted /\ f \in AnyLedger!FactIds
        /\ reading[s].known <=> f \in StoredFacts
        /\ previous # Nobody => previous \in StoredFacts /\ fact[previous].status = "current"
    BY <1>2 DEF LedgerInv, ReadingHolds, AnyLedger!FactIds
  <1>4. \A q \in Sources : lSource'[q] # "processing"
    BY <1>1, <1>2 DEF LedgerInv, ReadingHolds
  <1>5. ReadingHolds'
    BY <1>4 DEF ReadingHolds
  <1>6. AnyLedger!NothingRead \in AnyLedger!Reading
    BY DEF AnyLedger!NothingRead, AnyLedger!Reading
  <1>7. \A q \in Sources : lSource[q] = "processed" \/ q = s => lSource'[q] = "processed"
    BY <1>1, <1>2
  <1> HIDE DEF old, new
  <1>8. CASE reading[s].known
    <2>1. fact' = fact /\ StoredFacts' = StoredFacts
      BY <1>2, <1>8 DEF StoredFacts
    <2>2. AnyLedger!TypeOK'
      <3>1. /\ lEvidence' \subseteq AnyLedger!FactIds \X Sources
            /\ lSource' \in [Sources -> {"received", "processing", "processed", "deleted"}]
            /\ reading' \in [Sources -> AnyLedger!Reading]
        BY <1>1, <1>2, <1>3, <1>6
      <3>2. QED
        BY <1>1, <2>1, <3>1 DEF AnyLedger!TypeOK
    <2>3. AnyLedger!Provenance'
      <3>1. \A g \in AnyLedger!Extracted : fact'[g].status \notin {"none", "deleted"} =>
                \E q \in Sources : <<g, q>> \in lEvidence'
        BY <1>2, <2>1 DEF LedgerInv, AnyLedger!Provenance
      <3>2. \A e \in lEvidence' : lSource'[e[2]] = "processed"
        BY <1>1, <1>2, <1>7 DEF LedgerInv, AnyLedger!Provenance
      <3>3. QED
        BY <3>1, <3>2 DEF AnyLedger!Provenance
    <2>4. \A e \in lEvidence' : e[1] \in StoredFacts'
      BY <1>2, <1>3, <1>8, <2>1 DEF LedgerInv
    <2>5. OnePredicate(fact') /\ AgesAreOrder'
      BY <2>1, SameFacts DEF LedgerInv
    <2>6. QED
      BY <1>5, <2>2, <2>3, <2>4, <2>5 DEF LedgerInv
  <1>9. CASE ~reading[s].known
    <2>1. f \notin StoredFacts /\ fact[f].status = "none"
      BY <1>3, <1>9 DEF StoredFacts
    <2>2. /\ old \in [AnyLedger!FactIds -> AnyLedger!FactRow]
          /\ \A g \in AnyLedger!FactIds :
                /\ old[g].predicate = fact[g].predicate /\ old[g].age = fact[g].age
                /\ old[g].status = "none" <=> fact[g].status = "none"
                /\ old[g].status = "deleted" <=> fact[g].status = "deleted"
      <3>1. CASE previous = Nobody
        BY <1>1, <3>1 DEF old, AnyLedger!Supersede
      <3>2. CASE previous # Nobody
        <4>1. previous \in AnyLedger!FactIds
          BY <1>3, <3>2 DEF StoredFacts
        <4>2. old = [fact EXCEPT ![previous] = [fact[previous] EXCEPT !.status = "superseded"]]
          BY <3>2 DEF old, AnyLedger!Supersede
        <4>3. [fact[previous] EXCEPT !.status = "superseded"] \in AnyLedger!FactRow
          BY <1>1, <4>1 DEF AnyLedger!FactRow
        <4>4. QED
          BY <1>1, <1>3, <3>2, <4>1, <4>2, <4>3 DEF AnyLedger!FactRow
      <3>3. QED
        BY <3>1, <3>2
    <2>3. new.status # "none" /\ new.status # "deleted" /\ new.predicate = "works_at"
          /\ new.age = AnyLedger!NewAge /\ new \in AnyLedger!FactRow
      <3>1. f[1] = "works_at" /\ previous \in AnyLedger!FactIds \cup {Nobody}
        BY <1>1, <1>3, FactsAreFinite DEF AnyLedger!Reading
      <3>2. AnyLedger!NewAge \in 0..AnyLedger!Cardinality(AnyLedger!FactIds)
        <4>1. AnyLedger!NewAge \in 1..AnyLedger!Cardinality(AnyLedger!FactIds)
          BY <1>3, <2>1, NewAgeFits DEF LedgerInv
        <4>2. QED
          BY <4>1
      <3>3. QED
        BY <3>1, <3>2 DEF new, AnyLedger!NewFact, AnyLedger!FactRow
    <2>4. fact' = [old EXCEPT ![f] = new]
      BY <1>2, <1>9
    <2>5. /\ fact' \in [AnyLedger!FactIds -> AnyLedger!FactRow]
          /\ fact'[f] = new /\ \A g \in AnyLedger!FactIds : g # f => fact'[g] = old[g]
      BY <1>3, <2>2, <2>3, <2>4
    <2>6. OnePredicate(fact') /\ AgesAreOrder' /\ StoredFacts' = StoredFacts \cup {f}
      <3>1. /\ fact'[f].status # "none" /\ fact'[f].predicate = "works_at"
            /\ fact'[f].age = AnyLedger!NewAge
            /\ \A g \in AnyLedger!FactIds : g # f =>
                  /\ fact'[g].predicate = fact[g].predicate /\ fact'[g].age = fact[g].age
                  /\ fact'[g].status = "none" <=> fact[g].status = "none"
        BY <2>2, <2>3, <2>5
      <3> HIDE DEF f
      <3>2. QED
        BY <1>3, <2>1, <3>1, OneMoreFact DEF LedgerInv
    <2>7. AnyLedger!TypeOK'
      BY <1>1, <1>2, <1>3, <1>6, <2>5 DEF AnyLedger!TypeOK
    <2>8. AnyLedger!Provenance'
      <3>1. \A g \in AnyLedger!Extracted : g \in AnyLedger!FactIds
        BY DEF AnyLedger!FactIds
      <3>2. \A g \in AnyLedger!Extracted : fact'[g].status \notin {"none", "deleted"} =>
                \E q \in Sources : <<g, q>> \in lEvidence'
        BY <1>2, <2>2, <2>5, <3>1 DEF LedgerInv, AnyLedger!Provenance
      <3>3. \A e \in lEvidence' : lSource'[e[2]] = "processed"
        BY <1>1, <1>2, <1>7 DEF LedgerInv, AnyLedger!Provenance
      <3>4. QED
        BY <3>2, <3>3 DEF AnyLedger!Provenance
    <2>9. QED
      BY <1>2, <1>5, <2>6, <2>7, <2>8 DEF LedgerInv
  <1>10. QED
    BY <1>8, <1>9

LEMMA FailKeeps ==
    ASSUME LedgerInv, NEW s \in Sources, AnyLedger!FailToStore(s)
    PROVE  LedgerInv'
  <1>1. /\ lSource \in [Sources -> {"received", "processing", "processed", "deleted"}]
        /\ reading \in [Sources -> AnyLedger!Reading]
        /\ lEvidence \subseteq AnyLedger!FactIds \X Sources
    BY DEF LedgerInv, AnyLedger!TypeOK
  <1>2. /\ lSource[s] = "processing" /\ lSource' = [lSource EXCEPT ![s] = "received"]
        /\ reading' = [reading EXCEPT ![s] = AnyLedger!NothingRead]
        /\ fact' = fact /\ lEvidence' = lEvidence
    BY DEF AnyLedger!FailToStore
  <1>3. \A q \in Sources : lSource'[q] # "processing"
    BY <1>1, <1>2 DEF LedgerInv, ReadingHolds
  <1>4. AnyLedger!NothingRead \in AnyLedger!Reading
    BY DEF AnyLedger!NothingRead, AnyLedger!Reading
  <1>5. AnyLedger!TypeOK'
    BY <1>1, <1>2, <1>4 DEF LedgerInv, AnyLedger!TypeOK
  <1>6. AnyLedger!Provenance'
    <2>1. \A q \in Sources : lSource[q] = "processed" => lSource'[q] = "processed"
      BY <1>1, <1>2
    <2>2. QED
      BY <1>1, <1>2, <2>1 DEF LedgerInv, AnyLedger!Provenance
  <1>7. OnePredicate(fact') /\ AgesAreOrder' /\ StoredFacts' = StoredFacts
    BY <1>2, SameFacts DEF LedgerInv
  <1>8. ReadingHolds'
    BY <1>3 DEF ReadingHolds
  <1>9. QED
    BY <1>2, <1>5, <1>6, <1>7, <1>8 DEF LedgerInv

LEMMA ReplaceKeeps ==
    ASSUME LedgerInv, NEW f \in AnyLedger!FactIds, NEW r \in Replacements, AnyLedger!Replace(f, r)
    PROVE  LedgerInv'
  <1> DEFINE new == [status |-> "current", predicate |-> fact[f].predicate,
                     supersedes |-> f, age |-> AnyLedger!NewAge]
             old == [fact EXCEPT ![f].status = "superseded"]
  <1>1. /\ lSource \in [Sources -> {"received", "processing", "processed", "deleted"}]
        /\ fact \in [AnyLedger!FactIds -> AnyLedger!FactRow]
        /\ lEvidence \subseteq AnyLedger!FactIds \X Sources
    BY DEF LedgerInv, AnyLedger!TypeOK
  <1>2. /\ fact[f].status # "none" /\ fact[f].status # "deleted" /\ fact[r].status = "none"
        /\ fact' = [old EXCEPT ![r] = new]
        /\ lEvidence' = lEvidence /\ lSource' = lSource /\ reading' = reading
        /\ r \in AnyLedger!FactIds /\ r \notin AnyLedger!Extracted /\ f # r
        /\ \A s \in Sources : lSource[s] # "processing"
    <2>1. fact[f].status \in {"proposed", "current", "superseded", "disputed"}
      BY DEF AnyLedger!Replace, AnyLedger!Correctable
    <2>2. AnyLedger!UserMayAct
      BY DEF AnyLedger!Replace, AnyLedger!Correctable
    <2>3. QED
      BY <2>1, <2>2, FactsAreFinite, NobodyReads DEF AnyLedger!Replace, AnyLedger!Stored
  <1>3. r \notin StoredFacts /\ f \in StoredFacts
    BY <1>2 DEF StoredFacts
  <1>4. new.predicate = "works_at" /\ new \in AnyLedger!FactRow
    <2>1. AnyLedger!NewAge \in 1..AnyLedger!Cardinality(AnyLedger!FactIds)
      BY <1>2, <1>3, NewAgeFits DEF LedgerInv
    <2>2. AnyLedger!NewAge \in 0..AnyLedger!Cardinality(AnyLedger!FactIds)
      BY <2>1
    <2>3. fact[f].predicate = "works_at"
      BY <1>2 DEF LedgerInv, OnePredicate
    <2>4. QED
      BY <2>2, <2>3 DEF AnyLedger!FactRow
  <1>5. /\ old \in [AnyLedger!FactIds -> AnyLedger!FactRow]
        /\ \A g \in AnyLedger!FactIds :
              /\ old[g].predicate = fact[g].predicate /\ old[g].age = fact[g].age
              /\ old[g].status = "none" <=> fact[g].status = "none"
              /\ old[g].status = "deleted" <=> fact[g].status = "deleted"
    <2>1. old = [fact EXCEPT ![f] = [fact[f] EXCEPT !.status = "superseded"]]
      OBVIOUS
    <2>2. [fact[f] EXCEPT !.status = "superseded"] \in AnyLedger!FactRow
      BY <1>1 DEF AnyLedger!FactRow
    <2>3. QED
      BY <1>1, <1>2, <2>1, <2>2 DEF AnyLedger!FactRow
  <1> HIDE DEF old
  <1>6. /\ fact' \in [AnyLedger!FactIds -> AnyLedger!FactRow]
        /\ fact'[r] = new /\ \A g \in AnyLedger!FactIds : g # r => fact'[g] = old[g]
    BY <1>2, <1>4, <1>5
  <1>7. OnePredicate(fact') /\ AgesAreOrder' /\ StoredFacts' = StoredFacts \cup {r}
    <2>1. /\ fact'[r].status # "none" /\ fact'[r].predicate = "works_at"
          /\ fact'[r].age = AnyLedger!NewAge
          /\ \A g \in AnyLedger!FactIds : g # r =>
                /\ fact'[g].predicate = fact[g].predicate /\ fact'[g].age = fact[g].age
                /\ fact'[g].status = "none" <=> fact[g].status = "none"
      BY <1>4, <1>5, <1>6
    <2>2. QED
      BY <1>2, <1>3, <2>1, OneMoreFact DEF LedgerInv
  <1>8. AnyLedger!TypeOK'
    BY <1>2, <1>6 DEF LedgerInv, AnyLedger!TypeOK
  <1>9. AnyLedger!Provenance'
    <2>1. \A g \in AnyLedger!Extracted : g \in AnyLedger!FactIds
      BY DEF AnyLedger!FactIds
    <2>2. \A g \in AnyLedger!Extracted : fact'[g].status \notin {"none", "deleted"} =>
              fact[g].status \notin {"none", "deleted"}
      BY <1>2, <1>5, <1>6, <2>1
    <2>3. QED
      BY <1>2, <2>2 DEF LedgerInv, AnyLedger!Provenance
  <1>10. QED
    BY <1>2, <1>7, <1>8, <1>9 DEF LedgerInv, ReadingHolds

(* A dispute and the deletion of a fact change the status of one.          *)
LEMMA OneStatus ==
    ASSUME LedgerInv, NEW f \in AnyLedger!FactIds, NEW status2 \in {"disputed", "deleted"},
           fact[f].status # "none", fact' = [fact EXCEPT ![f].status = status2]
    PROVE  /\ fact' \in [AnyLedger!FactIds -> AnyLedger!FactRow]
           /\ OnePredicate(fact') /\ AgesAreOrder' /\ StoredFacts' = StoredFacts
           /\ fact'[f].status = status2
           /\ \A g \in AnyLedger!FactIds : g # f => fact'[g] = fact[g]
  <1>1. fact \in [AnyLedger!FactIds -> AnyLedger!FactRow]
    BY DEF LedgerInv, AnyLedger!TypeOK
  <1>2. fact' = [fact EXCEPT ![f] = [fact[f] EXCEPT !.status = status2]]
    OBVIOUS
  <1>3. [fact[f] EXCEPT !.status = status2] \in AnyLedger!FactRow
    BY <1>1 DEF AnyLedger!FactRow
  <1>4. fact' \in [AnyLedger!FactIds -> AnyLedger!FactRow]
    BY <1>1, <1>2, <1>3
  <1>5. /\ fact'[f].status = status2 /\ \A g \in AnyLedger!FactIds : g # f => fact'[g] = fact[g]
        /\ fact'[f].predicate = fact[f].predicate /\ fact'[f].age = fact[f].age
    BY <1>1, <1>2 DEF AnyLedger!FactRow
  <1>6. \A g \in AnyLedger!FactIds :
            /\ fact'[g].predicate = fact[g].predicate /\ fact'[g].age = fact[g].age
            /\ fact'[g].status = "none" <=> fact[g].status = "none"
    BY <1>5
  <1>7. OnePredicate(fact') /\ AgesAreOrder' /\ StoredFacts' = StoredFacts
    BY <1>6, SameFacts DEF LedgerInv
  <1>8. QED
    BY <1>4, <1>5, <1>7

LEMMA CorrectKeeps ==
    ASSUME LedgerInv, NEW f \in AnyLedger!FactIds, AnyLedger!Correct(f)
    PROVE  LedgerInv'
  <1>1. CASE \E r \in Replacements : AnyLedger!Replace(f, r)
    BY <1>1, ReplaceKeeps
  <1>2. ASSUME AnyLedger!Correctable(f)
        PROVE  /\ fact[f].status \notin {"none", "deleted"}
               /\ \A s \in Sources : lSource[s] # "processing"
    <2>1. fact[f].status \in {"proposed", "current", "superseded", "disputed"}
      BY <1>2 DEF AnyLedger!Correctable
    <2>2. QED
      BY <1>2, <2>1, NobodyReads DEF AnyLedger!Correctable
  <1>3. CASE AnyLedger!Dispute(f)
    <2>1. /\ AnyLedger!Correctable(f) /\ fact' = [fact EXCEPT ![f].status = "disputed"]
          /\ lEvidence' = lEvidence /\ lSource' = lSource /\ reading' = reading
      BY <1>3 DEF AnyLedger!Dispute
    <2>2. /\ fact' \in [AnyLedger!FactIds -> AnyLedger!FactRow]
          /\ OnePredicate(fact') /\ AgesAreOrder' /\ StoredFacts' = StoredFacts
          /\ fact'[f].status = "disputed"
          /\ \A g \in AnyLedger!FactIds : g # f => fact'[g] = fact[g]
      BY <1>2, <2>1, OneStatus
    <2>3. AnyLedger!Provenance'
      <3>1. \A g \in AnyLedger!Extracted : g \in AnyLedger!FactIds
        BY DEF AnyLedger!FactIds
      <3>2. QED
        BY <1>2, <2>1, <2>2, <3>1 DEF LedgerInv, AnyLedger!Provenance
    <2>4. AnyLedger!TypeOK'
      BY <2>1, <2>2 DEF LedgerInv, AnyLedger!TypeOK
    <2>5. ReadingHolds'
      BY <1>2, <2>1 DEF ReadingHolds
    <2>6. QED
      BY <2>1, <2>2, <2>3, <2>4, <2>5 DEF LedgerInv
  <1>4. CASE AnyLedger!DeleteFact(f)
    <2>1. /\ AnyLedger!Correctable(f) /\ fact' = [fact EXCEPT ![f].status = "deleted"]
          /\ lEvidence' = {e \in lEvidence : e[1] # f} /\ lSource' = lSource
          /\ reading' = reading
      BY <1>4 DEF AnyLedger!DeleteFact
    <2>2. /\ fact' \in [AnyLedger!FactIds -> AnyLedger!FactRow]
          /\ OnePredicate(fact') /\ AgesAreOrder' /\ StoredFacts' = StoredFacts
          /\ fact'[f].status = "deleted"
          /\ \A g \in AnyLedger!FactIds : g # f => fact'[g] = fact[g]
      BY <1>2, <2>1, OneStatus
    <2>3. AnyLedger!Provenance'
      <3>1. \A g \in AnyLedger!Extracted : g \in AnyLedger!FactIds
        BY DEF AnyLedger!FactIds
      <3>2. \A g \in AnyLedger!Extracted : fact'[g].status \notin {"none", "deleted"} =>
                \E q \in Sources : <<g, q>> \in lEvidence'
        BY <2>1, <2>2, <3>1 DEF LedgerInv, AnyLedger!Provenance
      <3>3. \A e \in lEvidence' : lSource'[e[2]] = "processed"
        BY <2>1 DEF LedgerInv, AnyLedger!Provenance
      <3>4. QED
        BY <3>2, <3>3 DEF AnyLedger!Provenance
    <2>4. AnyLedger!TypeOK'
      BY <2>1, <2>2 DEF LedgerInv, AnyLedger!TypeOK
    <2>5. ReadingHolds'
      BY <1>2, <2>1 DEF ReadingHolds
    <2>6. QED
      BY <2>1, <2>2, <2>3, <2>4, <2>5 DEF LedgerInv
  <1>5. QED
    BY <1>1, <1>3, <1>4 DEF AnyLedger!Correct

(* The deletion of a source.                                               *)
LEMMA DeletionForgets ==
    ASSUME LedgerInv, NEW s \in Sources, AnyLedger!DeleteSource(s)
    PROVE  /\ Fades(fact, fact')
           /\ \A f \in AnyLedger!FactIds : <<f, s>> \in lEvidence =>
                \/ fact'[f].status = "deleted"
                \/ \E q \in Sources : <<f, q>> \in lEvidence'
  <1> DEFINE linked == AnyLedger!Linked(s)
             q == AnyLedger!NewestFirst(linked)
             left == {e \in lEvidence : e[2] # s}
  <1>1. fact \in [AnyLedger!FactIds -> AnyLedger!FactRow] /\ OnePredicate(fact)
    BY DEF LedgerInv, AnyLedger!TypeOK
  <1>2. linked \in SUBSET StoredFacts /\ linked = {f \in AnyLedger!FactIds : <<f, s>> \in lEvidence}
    BY DEF LedgerInv, AnyLedger!Linked
  <1>3. PICK n \in Nat : /\ q \in [1..n -> linked]
                         /\ \A f \in linked : \E i \in 1..n : q[i] = f
    <2> HIDE DEF linked
    <2>1. QED
      BY <1>2, NewestFirstIsOrder DEF LedgerInv
  <1>4. fact' = AnyLedger!ForgetAll(fact, q, left) /\ lEvidence' = left
    BY DEF AnyLedger!DeleteSource
  <1>5. q \in [1..n -> AnyLedger!FactIds] /\ \A i \in 1..n : fact[q[i]].status # "none"
    BY <1>2, <1>3 DEF StoredFacts
  <1> HIDE DEF q, linked, left
  <1>6. /\ Fades(fact, fact')
        /\ \A i \in 1..n : \/ fact'[q[i]].status = "deleted"
                           \/ \E p \in Sources : <<q[i], p>> \in left
    BY <1>1, <1>4, <1>5, ForgetMany
  <1>7. QED
    BY <1>2, <1>3, <1>4, <1>6

LEMMA DeleteSourceKeeps ==
    ASSUME LedgerInv, NEW s \in Sources, AnyLedger!DeleteSource(s)
    PROVE  LedgerInv'
  <1>1. /\ lSource \in [Sources -> {"received", "processing", "processed", "deleted"}]
        /\ lEvidence \subseteq AnyLedger!FactIds \X Sources
    BY DEF LedgerInv, AnyLedger!TypeOK
  <1>2. /\ lEvidence' = {e \in lEvidence : e[2] # s}
        /\ lSource' = [lSource EXCEPT ![s] = "deleted"] /\ reading' = reading
        /\ AnyLedger!UserMayAct
    BY DEF AnyLedger!DeleteSource
  <1>3. \A q \in Sources : lSource'[q] # "processing"
    BY <1>1, <1>2, NobodyReads
  <1>4. /\ Fades(fact, fact')
        /\ \A f \in AnyLedger!FactIds : <<f, s>> \in lEvidence =>
              fact'[f].status = "deleted" \/ \E q \in Sources : <<f, q>> \in lEvidence'
    BY DeletionForgets
  <1>5. OnePredicate(fact') /\ AgesAreOrder' /\ StoredFacts' = StoredFacts
    <2>1. \A g \in AnyLedger!FactIds :
            /\ fact'[g].predicate = fact[g].predicate /\ fact'[g].age = fact[g].age
            /\ fact'[g].status = "none" <=> fact[g].status = "none"
      BY <1>4 DEF Fades
    <2>2. QED
      BY <2>1, SameFacts DEF LedgerInv
  <1>6. AnyLedger!TypeOK'
    BY <1>1, <1>2, <1>4 DEF LedgerInv, AnyLedger!TypeOK, Fades
  <1>7. AnyLedger!Provenance'
    <2>1. ASSUME NEW g \in AnyLedger!Extracted, fact'[g].status \notin {"none", "deleted"}
          PROVE  \E q \in Sources : <<g, q>> \in lEvidence'
      <3>1. g \in AnyLedger!FactIds
        BY DEF AnyLedger!FactIds
      <3>2. fact[g].status \notin {"none", "deleted"}
        BY <1>4, <2>1, <3>1 DEF Fades, Stands
      <3>3. PICK q \in Sources : <<g, q>> \in lEvidence
        BY <3>2 DEF LedgerInv, AnyLedger!Provenance
      <3>4. QED
        BY <1>2, <1>4, <2>1, <3>1, <3>3
    <2>2. \A e \in lEvidence' : lSource'[e[2]] = "processed"
      BY <1>1, <1>2 DEF LedgerInv, AnyLedger!Provenance
    <2>3. QED
      BY <2>1, <2>2 DEF AnyLedger!Provenance
  <1>8. ReadingHolds'
    BY <1>3 DEF ReadingHolds
  <1>9. QED
    BY <1>2, <1>5, <1>6, <1>7, <1>8 DEF LedgerInv

LEMMA LedgerGoesOn == LedgerInv /\ [AnyLedger!Next]_(AnyLedger!vars) => LedgerInv'
  <1>1. SUFFICES ASSUME LedgerInv, [AnyLedger!Next]_(AnyLedger!vars)
                 PROVE  LedgerInv'
    OBVIOUS
  <1>2. CASE UNCHANGED AnyLedger!vars
    BY <1>1, <1>2 DEF LedgerInv, AnyLedger!vars, AnyLedger!TypeOK, OnePredicate, AgesAreOrder,
       StoredFacts, AnyLedger!Provenance, ReadingHolds
  <1>3. ASSUME NEW s \in Sources, AnyLedger!Extract(s)
        PROVE  LedgerInv'
    <2>1. CASE AnyLedger!StoreFacts(s)
      BY <1>1, <2>1, StoreKeeps
    <2>2. CASE AnyLedger!FailToStore(s)
      BY <1>1, <2>2, FailKeeps
    <2>3. CASE \E f \in AnyLedger!Extracted, confident \in BOOLEAN :
                   AnyLedger!ReadFacts(s, f, confident, "works_at")
      BY <1>1, <2>3, ReadKeeps
    <2>4. QED
      BY <1>3, <2>1, <2>2, <2>3 DEF AnyLedger!Extract
  <1>4. QED
    BY <1>1, <1>2, <1>3, CorrectKeeps, DeleteSourceKeeps DEF AnyLedger!Next

(* The two kinds of users differ only in the facts they correct.           *)
LEMMA LedgersAlike ==
    /\ Ledger!Init => AnyLedger!Init
    /\ Ledger!Next => AnyLedger!Next
    /\ Ledger!TypeOK <=> AnyLedger!TypeOK
    /\ Ledger!Provenance <=> AnyLedger!Provenance
    /\ Ledger!vars = AnyLedger!vars
    /\ Ledger!FactIds = AnyLedger!FactIds
    /\ \A s : Ledger!Extract(s) <=> AnyLedger!Extract(s)
    /\ \A s : Ledger!DeleteSource(s) <=> AnyLedger!DeleteSource(s)
  <1>1. /\ Ledger!FactIds = AnyLedger!FactIds /\ Ledger!Extracted = AnyLedger!Extracted
        /\ Ledger!NoRow = AnyLedger!NoRow /\ Ledger!NothingRead = AnyLedger!NothingRead
        /\ Ledger!Reading = AnyLedger!Reading
    BY DEF Ledger!FactIds, AnyLedger!FactIds, Ledger!Extracted, AnyLedger!Extracted, Ledger!NoRow,
           AnyLedger!NoRow, Ledger!NothingRead, AnyLedger!NothingRead, Ledger!Reading,
           AnyLedger!Reading
  <1>2. \A S : Ledger!Cardinality(S) = AnyLedger!Cardinality(S)
    BY DEF Ledger!Cardinality, AnyLedger!Cardinality, Ledger!IsFiniteSet, AnyLedger!IsFiniteSet
  <1>3. Ledger!FactRow = AnyLedger!FactRow
    BY <1>1, <1>2 DEF Ledger!FactRow, AnyLedger!FactRow
  <1>5. Ledger!NewAge = AnyLedger!NewAge
    BY <1>1, <1>2 DEF Ledger!NewAge, AnyLedger!NewAge, Ledger!Stored, AnyLedger!Stored
  <1>6. \A s, f, over : \A confident \in BOOLEAN :
            Ledger!ReadFacts(s, f, confident, over) <=> AnyLedger!ReadFacts(s, f, confident, over)
    <2>1. \A over : Ledger!Latest(over) = AnyLedger!Latest(over)
      BY DEF Ledger!Latest, AnyLedger!Latest, Ledger!Current, AnyLedger!Current,
             Ledger!FactIds, AnyLedger!FactIds, Ledger!Extracted, AnyLedger!Extracted
    <2>2. \A f : Ledger!Stored(f) = AnyLedger!Stored(f)
      BY DEF Ledger!Stored, AnyLedger!Stored
    <2>3. QED
      BY <1>2, <2>1, <2>2 DEF Ledger!ReadFacts, AnyLedger!ReadFacts
  <1>7. \A s : Ledger!StoreFacts(s) <=> AnyLedger!StoreFacts(s)
    BY <1>1, <1>5 DEF Ledger!StoreFacts, AnyLedger!StoreFacts, Ledger!Supersede, AnyLedger!Supersede,
       Ledger!NewFact, AnyLedger!NewFact, Ledger!Stored, AnyLedger!Stored
  <1>8. \A s : Ledger!FailToStore(s) <=> AnyLedger!FailToStore(s)
    BY <1>1 DEF Ledger!FailToStore, AnyLedger!FailToStore
  <1>9. Ledger!UserMayAct <=> AnyLedger!UserMayAct
    BY DEF Ledger!UserMayAct, AnyLedger!UserMayAct
  <1>10. \A f : Ledger!Correctable(f) => AnyLedger!Correctable(f)
    BY <1>9 DEF Ledger!Correctable, AnyLedger!Correctable
  <1>11. \A f : Ledger!Correct(f) => AnyLedger!Correct(f)
    BY <1>5, <1>10 DEF Ledger!Correct, AnyLedger!Correct, Ledger!Replace, AnyLedger!Replace,
       Ledger!Dispute, AnyLedger!Dispute, Ledger!DeleteFact, AnyLedger!DeleteFact, Ledger!Stored,
       AnyLedger!Stored
  <1>12. \A rows, q, left : Ledger!ForgetAll(rows, q, left) = AnyLedger!ForgetAll(rows, q, left)
    BY DEF Ledger!ForgetAll, Ledger!FoldLeft, Ledger!MapThenFoldSet, Ledger!Max,
         AnyLedger!ForgetAll, AnyLedger!FoldLeft, AnyLedger!MapThenFoldSet, AnyLedger!Max,
         Ledger!Forget, AnyLedger!Forget, Ledger!Restore, AnyLedger!Restore, Ledger!Current,
         AnyLedger!Current, Ledger!FactIds, AnyLedger!FactIds, Ledger!Extracted,
         AnyLedger!Extracted
  <1>13. \A S : Ledger!NewestFirst(S) = AnyLedger!NewestFirst(S)
    BY <1>2 DEF Ledger!NewestFirst, AnyLedger!NewestFirst, Ledger!SetToSeqs, AnyLedger!SetToSeqs
  <1>14. \A s : Ledger!Linked(s) = AnyLedger!Linked(s)
    BY <1>1 DEF Ledger!Linked, AnyLedger!Linked
  <1>15. \A s : Ledger!DeleteSource(s) <=> AnyLedger!DeleteSource(s)
    BY <1>9, <1>12, <1>13, <1>14 DEF Ledger!DeleteSource, AnyLedger!DeleteSource
  <1>16. \A s : Ledger!Extract(s) <=> AnyLedger!Extract(s)
    BY <1>1, <1>6, <1>7, <1>8 DEF Ledger!Extract, AnyLedger!Extract
  <1>17. Ledger!Next => AnyLedger!Next
    BY <1>1, <1>11, <1>15, <1>16 DEF Ledger!Next, AnyLedger!Next
  <1>18. Ledger!Init => AnyLedger!Init
    BY <1>1 DEF Ledger!Init, AnyLedger!Init
  <1>19. Ledger!TypeOK <=> AnyLedger!TypeOK
    BY <1>1, <1>3 DEF Ledger!TypeOK, AnyLedger!TypeOK
  <1>20. Ledger!Provenance <=> AnyLedger!Provenance
    BY <1>1 DEF Ledger!Provenance, AnyLedger!Provenance
  <1>21. QED
    BY <1>1, <1>15, <1>16, <1>17, <1>18, <1>19, <1>20 DEF Ledger!vars, AnyLedger!vars

(* Users who correct what is current leave one current fact at most.       *)
LEMMA OneStaysOne ==
    ASSUME LedgerInv, OneOf(fact), [Ledger!Next]_(Ledger!vars)
    PROVE  OneOf(fact')
  <1>1. fact \in [AnyLedger!FactIds -> AnyLedger!FactRow]
    BY DEF LedgerInv, AnyLedger!TypeOK
  <1>2. ASSUME fact' = fact
        PROVE  OneOf(fact')
    BY <1>2
  <1>3. ASSUME NEW s \in Sources, AnyLedger!StoreFacts(s)
        PROVE  OneOf(fact')
    <2> DEFINE f == reading[s].fact
               previous == reading[s].previous
    <2>1. CASE reading[s].known
      BY <1>2, <1>3, <2>1 DEF AnyLedger!StoreFacts
    <2>2. CASE ~reading[s].known
      <3>1. /\ f \in AnyLedger!FactIds
            /\ previous # Nobody => previous \in AnyLedger!FactIds /\ fact[previous].status = "current"
            /\ previous = Nobody /\ reading[s].confident =>
                  \A g \in AnyLedger!FactIds : fact[g].status # "current"
            /\ ~reading[s].confident => previous = Nobody
        <4>1. lSource[s] = "processing"
          BY <1>3 DEF AnyLedger!StoreFacts
        <4>2. QED
          BY <2>2, <4>1 DEF LedgerInv, ReadingHolds, AnyLedger!FactIds, StoredFacts
      <3>2. fact' = [AnyLedger!Supersede(fact, previous) EXCEPT ![f] = AnyLedger!NewFact(s)]
        BY <1>3, <2>2 DEF AnyLedger!StoreFacts
      <3> DEFINE old == AnyLedger!Supersede(fact, previous)
      <3>3. old \in [AnyLedger!FactIds -> AnyLedger!FactRow]
            /\ (\A g \in AnyLedger!FactIds : old[g].status = "current" => fact[g].status = "current")
            /\ (previous # Nobody => \A g \in AnyLedger!FactIds : old[g].status # "current")
        <4>1. CASE previous = Nobody
          BY <1>1, <4>1 DEF AnyLedger!Supersede
        <4>2. CASE previous # Nobody
          <5>1. old = [fact EXCEPT ![previous] = [fact[previous] EXCEPT !.status = "superseded"]]
            BY <4>2 DEF AnyLedger!Supersede
          <5>2. [fact[previous] EXCEPT !.status = "superseded"] \in AnyLedger!FactRow
            BY <1>1, <3>1, <4>2 DEF AnyLedger!FactRow
          <5> HIDE DEF old
          <5>3. old[previous].status = "superseded"
                /\ \A g \in AnyLedger!FactIds : g # previous => old[g] = fact[g]
            BY <1>1, <3>1, <4>2, <5>1, <5>2 DEF AnyLedger!FactRow
          <5>4. \A g \in AnyLedger!FactIds : g # previous => fact[g].status # "current"
            BY <3>1, <4>2 DEF OneOf
          <5>5. QED
            BY <1>1, <3>1, <4>2, <5>1, <5>2, <5>3, <5>4
        <4>3. QED
          BY <4>1, <4>2
      <3> HIDE DEF old
      <3>4. fact'[f] = AnyLedger!NewFact(s) /\ \A g \in AnyLedger!FactIds : g # f => fact'[g] = old[g]
        BY <3>1, <3>2, <3>3 DEF old
      <3>5. CASE reading[s].confident
        <4>1. \A g \in AnyLedger!FactIds : g # f => fact'[g].status # "current"
          BY <3>1, <3>3, <3>4, <3>5
        <4>2. QED
          BY <4>1 DEF OneOf
      <3>6. CASE ~reading[s].confident
        <4>1. fact'[f].status = "proposed"
          BY <3>4, <3>6 DEF AnyLedger!NewFact
        <4>2. QED
          BY <3>3, <3>4, <4>1 DEF OneOf
      <3>7. QED
        BY <3>5, <3>6
    <2>3. QED
      BY <2>1, <2>2
  <1>4. ASSUME NEW s \in Sources, AnyLedger!DeleteSource(s)
        PROVE  OneOf(fact')
    BY <1>4, DeletionForgets DEF Fades
  <1>5. ASSUME NEW f \in AnyLedger!FactIds, Ledger!Correct(f)
        PROVE  OneOf(fact')
    <2>1. fact[f].status = "current"
      BY <1>5 DEF Ledger!Correct, Ledger!Replace, Ledger!Dispute, Ledger!DeleteFact,
         Ledger!Correctable
    <2>2. \A g \in AnyLedger!FactIds : g # f => fact[g].status # "current"
      BY <2>1 DEF OneOf
    <2>3. ASSUME NEW status2 \in {"disputed", "deleted"}, fact' = [fact EXCEPT ![f].status = status2]
          PROVE  OneOf(fact')
      BY <2>1, <2>2, <2>3, OneStatus DEF OneOf
    <2>4. ASSUME NEW r \in Replacements, Ledger!Replace(f, r)
          PROVE  OneOf(fact')
      <3> DEFINE old == [fact EXCEPT ![f].status = "superseded"]
                 new == [status |-> "current", predicate |-> fact[f].predicate,
                         supersedes |-> f, age |-> Ledger!NewAge]
      <3>1. fact' = [old EXCEPT ![r] = new]
        BY <2>4 DEF Ledger!Replace
      <3>2. \A g \in AnyLedger!FactIds : old[g].status # "current"
        <4>1. old = [fact EXCEPT ![f] = [fact[f] EXCEPT !.status = "superseded"]]
          OBVIOUS
        <4>2. QED
          BY <1>1, <2>2, <4>1 DEF AnyLedger!FactRow
      <3>3. DOMAIN old = AnyLedger!FactIds
        BY <1>1
      <3> HIDE DEF old, new
      <3>4. \A g \in AnyLedger!FactIds : g # r => fact'[g].status # "current"
        BY <3>1, <3>2, <3>3
      <3>5. QED
        BY <3>4 DEF OneOf
    <2>5. QED
      BY <1>5, <2>3, <2>4 DEF Ledger!Correct, Ledger!Dispute, Ledger!DeleteFact
  <1>6. CASE UNCHANGED Ledger!vars
    BY <1>2, <1>6 DEF Ledger!vars
  <1>7. ASSUME NEW s \in Sources, AnyLedger!Extract(s)
        PROVE  OneOf(fact')
    <2>1. CASE AnyLedger!StoreFacts(s)
      BY <1>3, <2>1
    <2>2. CASE ~AnyLedger!StoreFacts(s)
      <3>1. fact' = fact
        BY <1>7, <2>2 DEF AnyLedger!Extract, AnyLedger!FailToStore, AnyLedger!ReadFacts
      <3>2. QED
        BY <1>2, <3>1
    <2>3. QED
      BY <2>1, <2>2
  <1>8. CASE Ledger!Next
    BY <1>4, <1>5, <1>7, <1>8, LedgersAlike DEF Ledger!Next
  <1>9. QED
    BY <1>6, <1>8

(* The two actions that are about more than one state.                     *)
LEMMA DeletedFactsStay ==
    ASSUME LedgerInv, AnyLedger!Next
    PROVE  \A f \in AnyLedger!FactIds : fact[f].status = "deleted" => fact'[f].status = "deleted"
  <1>1. fact \in [AnyLedger!FactIds -> AnyLedger!FactRow]
    BY DEF LedgerInv, AnyLedger!TypeOK
  <1>2. SUFFICES ASSUME NEW f \in AnyLedger!FactIds, fact[f].status = "deleted"
                 PROVE  fact'[f].status = "deleted"
    OBVIOUS
  <1>3. CASE fact' = fact
    BY <1>2, <1>3
  <1>4. ASSUME NEW s \in Sources, AnyLedger!StoreFacts(s)
        PROVE  fact'[f].status = "deleted"
    <2>1. CASE reading[s].known
      BY <1>3, <1>4, <2>1 DEF AnyLedger!StoreFacts
    <2>2. CASE ~reading[s].known
      <3>1. f # reading[s].fact
        BY <1>2, <1>4, <2>2 DEF AnyLedger!StoreFacts, AnyLedger!Stored
      <3>2. f # reading[s].previous \/ reading[s].previous = Nobody
        BY <1>2, <1>4 DEF LedgerInv, ReadingHolds, AnyLedger!StoreFacts
      <3> DEFINE old == AnyLedger!Supersede(fact, reading[s].previous)
                 new == AnyLedger!NewFact(s)
      <3>3. DOMAIN old = AnyLedger!FactIds /\ old[f] = fact[f]
        BY <1>1, <3>2 DEF AnyLedger!Supersede
      <3>4. fact' = [old EXCEPT ![reading[s].fact] = new]
        BY <1>4, <2>2 DEF AnyLedger!StoreFacts
      <3> HIDE DEF old, new
      <3>5. QED
        BY <1>2, <3>1, <3>3, <3>4
    <2>3. QED
      BY <2>1, <2>2
  <1>5. ASSUME NEW s \in Sources, AnyLedger!DeleteSource(s)
        PROVE  fact'[f].status = "deleted"
    BY <1>2, <1>5, DeletionForgets DEF Fades
  <1>6. ASSUME NEW g \in AnyLedger!FactIds, AnyLedger!Correct(g)
        PROVE  fact'[f].status = "deleted"
    <2>1. fact[g].status # "deleted"
      BY <1>6 DEF AnyLedger!Correct, AnyLedger!Replace, AnyLedger!Dispute, AnyLedger!DeleteFact,
         AnyLedger!Correctable
    <2>2. ASSUME NEW r \in Replacements, AnyLedger!Replace(g, r)
          PROVE  fact'[f] = fact[f]
      <3> DEFINE old == [fact EXCEPT ![g].status = "superseded"]
                 new == [status |-> "current", predicate |-> fact[g].predicate,
                         supersedes |-> g, age |-> AnyLedger!NewAge]
      <3>1. fact' = [old EXCEPT ![r] = new] /\ fact[r].status = "none"
        BY <2>2 DEF AnyLedger!Replace, AnyLedger!Stored
      <3>2. DOMAIN old = AnyLedger!FactIds /\ old[f] = fact[f] /\ f # r
        BY <1>1, <1>2, <2>1, <3>1
      <3> HIDE DEF old, new
      <3>3. QED
        BY <3>1, <3>2
    <2>3. ASSUME AnyLedger!Dispute(g) \/ AnyLedger!DeleteFact(g)
          PROVE  fact'[f] = fact[f]
      BY <1>1, <1>2, <2>1, <2>3 DEF AnyLedger!Dispute, AnyLedger!DeleteFact
    <2>4. QED
      BY <1>2, <1>6, <2>2, <2>3 DEF AnyLedger!Correct
  <1>7. ASSUME NEW s \in Sources, AnyLedger!Extract(s)
        PROVE  fact'[f].status = "deleted"
    <2>1. AnyLedger!StoreFacts(s) \/ fact' = fact
      BY <1>7 DEF AnyLedger!Extract, AnyLedger!FailToStore, AnyLedger!ReadFacts
    <2>2. QED
      BY <1>3, <1>4, <2>1
  <1>8. QED
    BY <1>5, <1>6, <1>7 DEF AnyLedger!Next

LEMMA UncertainIsProposed ==
    ASSUME LedgerInv, AnyLedger!Next, NEW s \in Sources,
           lSource'[s] = "processed", lSource[s] = "processing", ~reading[s].confident
    PROVE  \A p \in {"works_at"} : AnyLedger!Current(fact', p) = AnyLedger!Current(fact, p)
  <1>1. /\ fact \in [AnyLedger!FactIds -> AnyLedger!FactRow]
        /\ lSource \in [Sources -> {"received", "processing", "processed", "deleted"}]
    BY DEF LedgerInv, AnyLedger!TypeOK
  <1>2. AnyLedger!StoreFacts(s)
    <2>1. ASSUME NEW q \in Sources, AnyLedger!Extract(q)
          PROVE  AnyLedger!StoreFacts(s)
      <3>1. CASE AnyLedger!StoreFacts(q)
        <4>1. q = s
          BY <1>1, <3>1 DEF AnyLedger!StoreFacts
        <4>2. QED
          BY <3>1, <4>1
      <3>2. CASE ~AnyLedger!StoreFacts(q)
        <4>1. lSource' = [lSource EXCEPT ![q] = "processing"]
              \/ lSource' = [lSource EXCEPT ![q] = "received"]
          BY <2>1, <3>2 DEF AnyLedger!Extract, AnyLedger!FailToStore, AnyLedger!ReadFacts
        <4>2. QED
          BY <1>1, <4>1
      <3>3. QED
        BY <3>1, <3>2
    <2>2. ASSUME NEW q \in Sources, AnyLedger!DeleteSource(q)
          PROVE  FALSE
      <3>1. lSource' = [lSource EXCEPT ![q] = "deleted"]
        BY <2>2 DEF AnyLedger!DeleteSource
      <3>2. QED
        BY <1>1, <3>1
    <2>3. ASSUME NEW g \in AnyLedger!FactIds, AnyLedger!Correct(g)
          PROVE  FALSE
      <3>1. lSource' = lSource
        BY <2>3 DEF AnyLedger!Correct, AnyLedger!Replace, AnyLedger!Dispute, AnyLedger!DeleteFact
      <3>2. QED
        BY <3>1
    <2>4. QED
      BY <2>1, <2>2, <2>3 DEF AnyLedger!Next
  <1>3. CASE reading[s].known
    BY <1>2, <1>3 DEF AnyLedger!StoreFacts
  <1>4. CASE ~reading[s].known
    <2> DEFINE f == reading[s].fact
               new == AnyLedger!NewFact(s)
    <2>1. reading[s].previous = Nobody /\ fact[f].status = "none" /\ f \in AnyLedger!FactIds
      BY <1>2, <1>4 DEF LedgerInv, ReadingHolds, AnyLedger!StoreFacts, AnyLedger!Stored,
         AnyLedger!FactIds
    <2>2. fact' = [fact EXCEPT ![f] = new]
      BY <1>2, <1>4, <2>1 DEF AnyLedger!StoreFacts, AnyLedger!Supersede
    <2>3. new.status = "proposed"
      BY DEF AnyLedger!NewFact
    <2> HIDE DEF f, new
    <2>4. fact'[f].status = "proposed" /\ \A g \in AnyLedger!FactIds : g # f => fact'[g] = fact[g]
      BY <1>1, <2>1, <2>2, <2>3
    <2>5. QED
      BY <2>1, <2>4 DEF AnyLedger!Current
  <1>5. QED
    BY <1>3, <1>4

-----------------------------------------------------------------------------
(* Commitments.                                                            *)

PromisesInv == Promises!TypeOK /\ Promises!CommitmentBacked

LEMMA PromisesGoOn ==
    PromisesInv /\ [Promises!Next]_(Promises!vars) => PromisesInv'
  <1>1. SUFFICES ASSUME PromisesInv, [Promises!Next]_(Promises!vars)
                 PROVE  PromisesInv'
    OBVIOUS
  <1>2. /\ commitment \in [Agreements -> Promises!CommitmentRow]
        /\ cEvidence \subseteq Agreements \X Sources
        /\ cSource \in [Sources -> {"received", "processed", "deleted"}]
        /\ closedBy \in [Agreements -> Sources \cup {Nobody}]
        /\ \A c \in Agreements : commitment[c].status \notin {"none", "deleted"} =>
              \E s \in Sources : <<c, s>> \in cEvidence
    BY <1>1 DEF PromisesInv, Promises!TypeOK, Promises!CommitmentBacked, Promises!Kept,
       Promises!Status, Promises!Backed
  <1>3. ASSUME commitment' \in [Agreements -> Promises!CommitmentRow],
               cEvidence' \subseteq Agreements \X Sources,
               cSource' \in [Sources -> {"received", "processed", "deleted"}],
               closedBy' \in [Agreements -> Sources \cup {Nobody}],
               \A c \in Agreements : commitment'[c].status \notin {"none", "deleted"} =>
                  \E s \in Sources : <<c, s>> \in cEvidence'
        PROVE  PromisesInv'
    BY <1>3 DEF PromisesInv, Promises!TypeOK, Promises!CommitmentBacked, Promises!Kept,
       Promises!Status, Promises!Backed
  <1>4. ASSUME NEW s \in Sources, Promises!Processed(s)
        PROVE  cSource' \in [Sources -> {"received", "processed", "deleted"}]
    BY <1>2, <1>4 DEF Promises!Processed
  <1>5. ASSUME NEW c \in Agreements, NEW s \in Sources, Promises!Complete(c, s)
        PROVE  /\ commitment' \in [Agreements -> Promises!CommitmentRow]
               /\ closedBy' \in [Agreements -> Sources \cup {Nobody}]
               /\ \A a \in Agreements : commitment'[a].status \notin {"none", "deleted"} =>
                     commitment[a].status \notin {"none", "deleted"}
    <2>1. CASE commitment[c].status = "open"
      <3>1. commitment' = [commitment EXCEPT ![c] = [commitment[c] EXCEPT !.status = "completed"]]
            /\ closedBy' = [closedBy EXCEPT ![c] = s]
        BY <1>5, <2>1 DEF Promises!Complete, Promises!Status
      <3>2. [commitment[c] EXCEPT !.status = "completed"] \in Promises!CommitmentRow
        BY <1>2 DEF Promises!CommitmentRow
      <3>3. QED
        BY <1>2, <2>1, <3>1, <3>2
    <2>2. CASE commitment[c].status # "open"
      BY <1>2, <1>5, <2>2 DEF Promises!Complete, Promises!Status
    <2>3. QED
      BY <2>1, <2>2
  <1>6. CASE UNCHANGED Promises!vars
    BY <1>2, <1>3, <1>6 DEF Promises!vars
  <1>7. ASSUME NEW s \in Sources, NEW c \in Agreements, Promises!MentionAgain(s, c)
        PROVE  PromisesInv'
    <2>1. /\ cEvidence' = cEvidence \cup {<<c, s>>} /\ commitment' = commitment
          /\ closedBy' = closedBy /\ cSource' \in [Sources -> {"received", "processed", "deleted"}]
      BY <1>4, <1>7 DEF Promises!MentionAgain
    <2>2. cEvidence' \subseteq Agreements \X Sources
      BY <1>2, <2>1
    <2>3. \A a \in Agreements : commitment'[a].status \notin {"none", "deleted"} =>
              \E q \in Sources : <<a, q>> \in cEvidence'
      BY <1>2, <2>1
    <2>4. QED
      BY <1>2, <1>3, <2>1, <2>2, <2>3
  <1>8. ASSUME NEW s \in Sources, NEW c \in Agreements,
               NEW new \in {"open", "completed", "cancelled"}, NEW match \in Promises!Matches,
               Promises!Mention(s, c, new, match)
        PROVE  PromisesInv'
    <2>1. cSource' \in [Sources -> {"received", "processed", "deleted"}]
      BY <1>4, <1>8 DEF Promises!Mention
    <2>2. CASE match = Nobody
      <3>1. /\ commitment' = [commitment EXCEPT ![c] = [commitment[c] EXCEPT !.status = new]]
            /\ cEvidence' = cEvidence \cup {<<c, s>>}
            /\ closedBy' = [closedBy EXCEPT ![c] = IF new = "completed" THEN s ELSE @]
        BY <1>8, <2>2 DEF Promises!Mention
      <3>2. [commitment[c] EXCEPT !.status = new] \in Promises!CommitmentRow
        BY <1>2 DEF Promises!CommitmentRow
      <3>3. /\ commitment' \in [Agreements -> Promises!CommitmentRow]
            /\ cEvidence' \subseteq Agreements \X Sources
            /\ closedBy' \in [Agreements -> Sources \cup {Nobody}]
            /\ \A a \in Agreements : a # c => commitment'[a] = commitment[a]
        BY <1>2, <3>1, <3>2
      <3>4. ASSUME NEW a \in Agreements, commitment'[a].status \notin {"none", "deleted"}
            PROVE  \E q \in Sources : <<a, q>> \in cEvidence'
        <4>1. CASE a = c
          BY <3>1, <4>1
        <4>2. CASE a # c
          <5>1. PICK q \in Sources : <<a, q>> \in cEvidence
            BY <1>2, <3>3, <3>4, <4>2
          <5>2. QED
            BY <3>1, <5>1
        <4>3. QED
          BY <4>1, <4>2
      <3>5. QED
        BY <1>3, <2>1, <3>3, <3>4
    <2>3. CASE match # Nobody
      <3>1. match \in Agreements /\ Promises!Complete(match, s)
            /\ cEvidence' = cEvidence \cup {<<match, s>>}
        BY <1>8, <2>3 DEF Promises!Mention, Promises!Matches
      <3>2. /\ commitment' \in [Agreements -> Promises!CommitmentRow]
            /\ closedBy' \in [Agreements -> Sources \cup {Nobody}]
            /\ \A a \in Agreements : commitment'[a].status \notin {"none", "deleted"} =>
                  commitment[a].status \notin {"none", "deleted"}
        BY <1>5, <3>1
      <3>3. cEvidence' \subseteq Agreements \X Sources
        BY <1>2, <3>1
      <3>4. ASSUME NEW a \in Agreements, commitment'[a].status \notin {"none", "deleted"}
            PROVE  \E q \in Sources : <<a, q>> \in cEvidence'
        <4>1. PICK q \in Sources : <<a, q>> \in cEvidence
          BY <1>2, <3>2, <3>4
        <4>2. QED
          BY <3>1, <4>1
      <3>5. QED
        BY <1>3, <2>1, <3>2, <3>3, <3>4
    <2>4. QED
      BY <2>2, <2>3
  <1>9. ASSUME NEW s \in Sources, NEW match \in Promises!Matches, Promises!CompletionFact(s, match)
        PROVE  PromisesInv'
    <2>1. match \in Agreements /\ Promises!Complete(match, s) /\ cEvidence' = cEvidence
          /\ Promises!Processed(s)
      BY <1>9 DEF Promises!CompletionFact, Promises!Matches
    <2>2. QED
      BY <1>2, <1>3, <1>4, <1>5, <2>1
  <1>10. ASSUME NEW c \in Agreements, Promises!Correct(c)
         PROVE  PromisesInv'
    <2>1. CASE Promises!Reword(c)
      <3>1. commitment' = [commitment EXCEPT ![c] = [commitment[c] EXCEPT !.reworded = TRUE]]
            /\ UNCHANGED <<cEvidence, cSource, closedBy>>
        BY <2>1 DEF Promises!Reword
      <3>2. [commitment[c] EXCEPT !.reworded = TRUE] \in Promises!CommitmentRow
            /\ [commitment[c] EXCEPT !.reworded = TRUE].status = commitment[c].status
        BY <1>2 DEF Promises!CommitmentRow
      <3>3. QED
        BY <1>2, <1>3, <3>1, <3>2
    <2>2. ASSUME NEW new \in {"cancelled", "deleted"}, Promises!Kept(c),
                 commitment' = [commitment EXCEPT ![c].status = new],
                 \A e \in cEvidence : e[1] # c => e \in cEvidence',
                 cEvidence' = cEvidence \/ new = "deleted", cEvidence' \subseteq cEvidence,
                 UNCHANGED <<cSource, closedBy>>
          PROVE  PromisesInv'
      <3>1. commitment' = [commitment EXCEPT ![c] = [commitment[c] EXCEPT !.status = new]]
        BY <2>2
      <3>2. [commitment[c] EXCEPT !.status = new] \in Promises!CommitmentRow
        BY <1>2 DEF Promises!CommitmentRow
      <3>3. \A a \in Agreements : a # c => commitment'[a] = commitment[a]
        BY <1>2, <3>1
      <3>4. commitment[c].status \notin {"none", "deleted"} /\ commitment'[c].status = new
        BY <1>2, <2>2, <3>1 DEF Promises!Kept, Promises!Status, Promises!CommitmentRow
      <3>5. ASSUME NEW a \in Agreements, commitment'[a].status \notin {"none", "deleted"}
            PROVE  \E s \in Sources : <<a, s>> \in cEvidence'
        <4>1. PICK s \in Sources : <<a, s>> \in cEvidence
          BY <1>2, <3>3, <3>4, <3>5
        <4>2. QED
          BY <2>2, <3>4, <3>5, <4>1
      <3>6. QED
        BY <1>2, <1>3, <2>2, <3>1, <3>2, <3>5
    <2>3. QED
      BY <1>10, <2>1, <2>2 DEF Promises!Correct, Promises!CancelCommitment, Promises!DeleteCommitment
  <1>11. ASSUME NEW s \in Sources, Promises!DeleteSource(s)
         PROVE  PromisesInv'
    <2>1. /\ cSource' = [cSource EXCEPT ![s] = "deleted"]
          /\ cEvidence' = {e \in cEvidence : e[2] # s} /\ closedBy' = closedBy
          /\ commitment' = [c \in Agreements |->
                IF <<c, s>> \in cEvidence /\ ~\E q \in Sources : <<c, q>> \in cEvidence'
                THEN [commitment[c] EXCEPT !.status = "deleted"] ELSE commitment[c]]
      BY <1>11 DEF Promises!DeleteSource, Promises!Backed
    <2>2. \A c \in Agreements : [commitment[c] EXCEPT !.status = "deleted"] \in Promises!CommitmentRow
              /\ [commitment[c] EXCEPT !.status = "deleted"].status = "deleted"
      BY <1>2 DEF Promises!CommitmentRow
    <2>3. ASSUME NEW c \in Agreements, commitment'[c].status \notin {"none", "deleted"}
          PROVE  \E q \in Sources : <<c, q>> \in cEvidence'
      <3>1. CASE <<c, s>> \in cEvidence
        BY <2>1, <2>2, <2>3, <3>1
      <3>2. CASE <<c, s>> \notin cEvidence
        <4>1. commitment'[c] = commitment[c]
          BY <2>1, <3>2
        <4>2. PICK q \in Sources : <<c, q>> \in cEvidence
          BY <1>2, <2>3, <4>1
        <4>3. QED
          BY <2>1, <3>2, <4>2
      <3>3. QED
        BY <3>1, <3>2
    <2>4. commitment' \in [Agreements -> Promises!CommitmentRow]
      BY <1>2, <2>1, <2>2
    <2>5. QED
      BY <1>2, <1>3, <2>1, <2>3, <2>4
  <1>12. QED
    BY <1>1, <1>6, <1>7, <1>8, <1>9, <1>10, <1>11 DEF Promises!Next, Promises!Extract

LEMMA LastWordKept ==
    ASSUME Promises!TypeOK, [Promises!Next]_(Promises!vars)
    PROVE  \A c \in Agreements : Promises!Status(c) \in {"cancelled", "deleted"} =>
               commitment'[c].status \in {"cancelled", "deleted"}
  <1>1. commitment \in [Agreements -> Promises!CommitmentRow]
    BY DEF Promises!TypeOK
  <1>2. ASSUME NEW c \in Agreements, NEW s \in Sources, Promises!Complete(c, s)
        PROVE  \A a \in Agreements : commitment[a].status \in {"cancelled", "deleted"} =>
                   commitment'[a] = commitment[a]
    BY <1>1, <1>2 DEF Promises!Complete, Promises!Status
  <1>3. ASSUME NEW s \in Sources, Promises!Extract(s)
        PROVE  \A a \in Agreements : commitment[a].status \in {"cancelled", "deleted"} =>
                   commitment'[a] = commitment[a]
    <2>1. ASSUME NEW c \in Agreements, NEW new, NEW match \in Promises!Matches,
                 Promises!Mention(s, c, new, match)
          PROVE  \A a \in Agreements : commitment[a].status \in {"cancelled", "deleted"} =>
                     commitment'[a] = commitment[a]
      BY <1>1, <1>2, <2>1 DEF Promises!Mention, Promises!Status, Promises!Matches
    <2>2. QED
      BY <1>2, <1>3, <2>1 DEF Promises!Extract, Promises!MentionAgain, Promises!CompletionFact,
         Promises!Matches
  <1>4. ASSUME NEW s \in Sources, Promises!DeleteSource(s)
        PROVE  \A a \in Agreements : commitment[a].status \in {"cancelled", "deleted"} =>
                   commitment'[a].status \in {"cancelled", "deleted"}
    BY <1>1, <1>4 DEF Promises!DeleteSource, Promises!CommitmentRow
  <1>5. ASSUME NEW c \in Agreements, Promises!Correct(c)
        PROVE  \A a \in Agreements : commitment[a].status \in {"cancelled", "deleted"} =>
                   commitment'[a].status \in {"cancelled", "deleted"}
    BY <1>1, <1>5 DEF Promises!Correct, Promises!Reword, Promises!CancelCommitment,
       Promises!DeleteCommitment, Promises!CommitmentRow
  <1>6. QED
    BY <1>3, <1>4, <1>5 DEF Promises!Next, Promises!vars, Promises!Status

-----------------------------------------------------------------------------
(* Entities.                                                               *)

LEMMA EntitiesGoOn ==
    Entities!TypeOK /\ [Entities!Next]_(Entities!vars) => Entities!TypeOK'
  <1>1. SUFFICES ASSUME Entities!TypeOK, [Entities!Next]_(Entities!vars)
                 PROVE  Entities!TypeOK'
    OBVIOUS
  <1>2. ASSUME NEW s \in Sources, NEW name \in Names, NEW aliases \in SUBSET Names,
               NEW confident \in BOOLEAN, NEW states \in BOOLEAN,
               Entities!Mention(s, name, aliases, confident, states)
        PROVE  Entities!TypeOK'
    <2> DEFINE matches == Entities!AliasMatches({name} \cup aliases)
               e == Entities!Resolve(name, aliases, confident)
    <2>1. e \in Names
      <3>1. matches \in SUBSET Names
        BY DEF Entities!AliasMatches, Entities!Active
      <3>2. CASE e = name
        BY <3>2
      <3>3. CASE e # name
        <4>1. Entities!Cardinality(matches) = 1 /\ e = CHOOSE n \in matches : TRUE
          BY <3>3 DEF Entities!Resolve
        <4>2. matches # {}
          <5>1. Entities!Cardinality(matches) = Cardinality(matches)
            BY DEF Entities!Cardinality, Cardinality, Entities!IsFiniteSet, IsFiniteSet
          <5> HIDE DEF matches
          <5>2. QED
            BY <4>1, <5>1, FS_EmptySet
        <4>3. QED
          BY <3>1, <4>1, <4>2
      <3>4. QED
        BY <3>2, <3>3
    <2>2. Entities!Mentioned(e, aliases) \in Entities!EntityRow
      BY <1>1, <2>1 DEF Entities!TypeOK, Entities!Mentioned, Entities!EntityRow
    <2>3. /\ entity' = [entity EXCEPT ![e] = Entities!Mentioned(e, aliases)]
          /\ eEvidence' = eEvidence \cup {<<e, s>>}
          /\ facts' = IF states THEN facts \cup {<<e, s>>} ELSE facts
          /\ told' = [told EXCEPT ![s] = aliases]
          /\ eSource' = [eSource EXCEPT ![s] = "processed"]
      BY <1>2 DEF Entities!Mention
    <2> HIDE DEF e
    <2>4. QED
      BY <1>1, <2>1, <2>2, <2>3 DEF Entities!TypeOK
  <1>3. ASSUME NEW s \in Sources, Entities!DeleteSource(s)
        PROVE  Entities!TypeOK'
    BY <1>1, <1>3 DEF Entities!DeleteSource, Entities!TypeOK, Entities!EntityRow
  <1>4. ASSUME NEW f \in facts, Entities!ReplaceFact(f) \/ Entities!DeleteFact(f)
        PROVE  Entities!TypeOK'
    BY <1>1, <1>4 DEF Entities!ReplaceFact, Entities!DeleteFact, Entities!TypeOK
  <1>5. CASE UNCHANGED Entities!vars
    BY <1>1, <1>5 DEF Entities!vars, Entities!TypeOK
  <1>6. QED
    BY <1>1, <1>2, <1>3, <1>4, <1>5 DEF Entities!Next

LEMMA BackedStaysVisible ==
    ASSUME Entities!TypeOK, [Entities!Next]_(Entities!vars)
    PROVE  \A n \in Names : entity[n].status = "active" /\ entity'[n].status = "deleted" =>
               ~\E p \in eEvidence' \cup facts' : p[1] = n
  <1>1. SUFFICES ASSUME NEW n \in Names, entity[n].status = "active", entity'[n].status = "deleted"
                 PROVE  ~\E p \in eEvidence' \cup facts' : p[1] = n
    OBVIOUS
  <1>2. entity' # entity
    BY <1>1
  <1>3. ASSUME NEW s \in Sources, NEW name \in Names, NEW aliases \in SUBSET Names,
               NEW confident \in BOOLEAN, NEW states \in BOOLEAN,
               Entities!Mention(s, name, aliases, confident, states)
        PROVE  FALSE
    <2> DEFINE e == Entities!Resolve(name, aliases, confident)
    <2>1. entity' = [entity EXCEPT ![e] = Entities!Mentioned(e, aliases)]
      BY <1>3 DEF Entities!Mention
    <2> HIDE DEF e
    <2>2. QED
      BY <1>1, <2>1 DEF Entities!Mentioned, Entities!TypeOK, Entities!EntityRow
  <1>4. ASSUME NEW s \in Sources, Entities!DeleteSource(s)
        PROVE  ~\E p \in eEvidence' \cup facts' : p[1] = n
    <2>1. Entities!Unbacked(n)
      BY <1>1, <1>4 DEF Entities!DeleteSource, Entities!TypeOK, Entities!EntityRow
    <2>2. eEvidence' \subseteq Names \X Sources /\ facts' \subseteq Names \X (Sources \cup {Nobody})
      BY <1>4 DEF Entities!DeleteSource, Entities!TypeOK
    <2>3. QED
      BY <2>1, <2>2 DEF Entities!Unbacked
  <1>5. QED
    BY <1>2, <1>3, <1>4 DEF Entities!Next, Entities!vars, Entities!ReplaceFact, Entities!DeleteFact

-----------------------------------------------------------------------------
(* Answers.  What the model is shown is evidence of the facts that were    *)
(* selected, and a source that was gone before has none left.              *)

AnswersInv ==
    /\ Answers!TypeOK
    /\ \A e \in aEvidence : aSource[e[2]] = "processed"
    /\ \A s \in question.gone : aSource[s] = "deleted"
    /\ \A e \in question.shown \cup question.cited :
          e[1] \in question.facts /\ e[2] \notin question.gone
    /\ question.phase \in {"asking", "selected"} => question.shown = {} /\ question.cited = {}
    /\ question.phase = "thinking" => question.shown # {}
    /\ question.phase = "answered" => question.cited # {}

LEMMA AnswersGoOn ==
    AnswersInv /\ [Answers!Next]_(Answers!vars) => AnswersInv'
  <1>1. SUFFICES ASSUME AnswersInv, [Answers!Next]_(Answers!vars)
                 PROVE  AnswersInv'
    OBVIOUS
  <1> DEFINE All == Claims \cup Corrections
             Statuses == {"none", "current", "superseded", "deleted"}
             Phases == {"asking", "selected", "thinking", "answered", "unknown"}
  <1>2. /\ status \in [All -> Statuses] /\ aEvidence \subseteq All \X Sources
        /\ aSource \in [Sources -> {"received", "processed", "deleted"}]
        /\ question \in [phase : Phases, facts : SUBSET All, shown : SUBSET (All \X Sources),
                         cited : SUBSET (All \X Sources), gone : SUBSET Sources]
    BY <1>1 DEF AnswersInv, Answers!TypeOK, Answers!Known, Answers!Question
  <1>3. MatchingClaims \in SUBSET All /\ Corrections \subseteq All /\ Claims \subseteq All
    BY MemoryAssumptions DEF Answers!AnswerAssumption
  <1>4. ASSUME status' \in [All -> Statuses], aEvidence' \subseteq All \X Sources,
               aSource' \in [Sources -> {"received", "processed", "deleted"}],
               question' = question,
               \A e \in aEvidence' : aSource'[e[2]] = "processed",
               \A s \in Sources : aSource[s] = "deleted" => aSource'[s] = "deleted"
        PROVE  AnswersInv'
    BY <1>1, <1>2, <1>4 DEF AnswersInv, Answers!TypeOK, Answers!Known, Answers!Question
  <1>5. CASE Answers!SelectFacts
    <2> DEFINE gone == {s \in Sources : aSource[s] = "deleted"}
    <2>1. PICK some \in SUBSET All :
              question' = [question EXCEPT !.phase = "selected", !.facts = some, !.gone = gone]
      BY <1>3, <1>5 DEF Answers!SelectFacts, Answers!kSubset, Answers!Relevant
    <2>2. question.phase = "asking" /\ question.shown = {} /\ question.cited = {}
          /\ UNCHANGED <<status, aEvidence, aSource>>
      BY <1>1, <1>5 DEF Answers!SelectFacts, AnswersInv
    <2>3. /\ question'.phase = "selected" /\ question'.shown = {} /\ question'.cited = {}
          /\ question'.gone = gone
          /\ question' \in [phase : Phases, facts : SUBSET All, shown : SUBSET (All \X Sources),
                            cited : SUBSET (All \X Sources), gone : SUBSET Sources]
      BY <1>2, <2>1, <2>2
    <2>4. QED
      BY <1>1, <1>2, <2>2, <2>3 DEF AnswersInv, Answers!TypeOK, Answers!Known, Answers!Question
  <1>6. CASE Answers!EvidenceMap
    <2> DEFINE shown == {e \in aEvidence : e[1] \in question.facts}
               next == IF shown = {} THEN "unknown" ELSE "thinking"
    <2>1. /\ question' = [question EXCEPT !.shown = shown, !.phase = next]
          /\ question.cited = {} /\ UNCHANGED <<status, aEvidence, aSource>>
      BY <1>1, <1>6 DEF Answers!EvidenceMap, AnswersInv
    <2>2. /\ question'.phase = next /\ question'.shown = shown /\ question'.cited = {}
          /\ question'.gone = question.gone /\ question'.facts = question.facts
          /\ question' \in [phase : Phases, facts : SUBSET All, shown : SUBSET (All \X Sources),
                            cited : SUBSET (All \X Sources), gone : SUBSET Sources]
      BY <1>2, <2>1
    <2>3. \A e \in shown : e[1] \in question.facts /\ e[2] \notin question.gone
      BY <1>1, <1>2 DEF AnswersInv
    <2> HIDE DEF shown
    <2>4. QED
      BY <1>1, <1>2, <2>1, <2>2, <2>3 DEF AnswersInv, Answers!TypeOK, Answers!Known, Answers!Question
  <1>7. ASSUME NEW draft \in SUBSET (All \X Sources), Answers!Answer(draft)
        PROVE  AnswersInv'
    <2> DEFINE cited == Answers!Selected(draft)
    <2>1. /\ question' = [question EXCEPT !.phase = "answered", !.cited = cited]
          /\ question.shown # {} /\ UNCHANGED <<status, aEvidence, aSource>>
      BY <1>1, <1>7 DEF Answers!Answer, AnswersInv
    <2>2. cited # {} /\ cited \subseteq question.shown
      BY <2>1 DEF Answers!Selected
    <2> HIDE DEF cited
    <2>3. /\ question'.phase = "answered" /\ question'.shown = question.shown
          /\ question'.cited = cited
          /\ question'.gone = question.gone /\ question'.facts = question.facts
          /\ question' \in [phase : Phases, facts : SUBSET All, shown : SUBSET (All \X Sources),
                            cited : SUBSET (All \X Sources), gone : SUBSET Sources]
      BY <1>2, <2>1, <2>2
    <2>4. QED
      BY <1>1, <1>2, <2>1, <2>2, <2>3 DEF AnswersInv, Answers!TypeOK, Answers!Known, Answers!Question
  <1>8. ASSUME NEW s \in Sources, NEW f \in Claims, Answers!Extract(s, f)
        PROVE  AnswersInv'
    BY <1>1, <1>2, <1>3, <1>4, <1>8 DEF Answers!Extract, AnswersInv
  <1>9. ASSUME NEW f \in All, NEW c \in Corrections, Answers!ReplaceFact(f, c)
        PROVE  AnswersInv'
    BY <1>1, <1>2, <1>3, <1>4, <1>9 DEF Answers!ReplaceFact, AnswersInv
  <1>10. ASSUME NEW s \in Sources, Answers!DeleteSource(s)
         PROVE  AnswersInv'
    BY <1>1, <1>2, <1>4, <1>10 DEF Answers!DeleteSource, Answers!Known, AnswersInv
  <1>11. CASE UNCHANGED Answers!vars
    BY <1>1, <1>2, <1>4, <1>11 DEF Answers!vars, AnswersInv
  <1>12. QED
    BY <1>1, <1>5, <1>6, <1>7, <1>8, <1>9, <1>10, <1>11 DEF Answers!Next, Answers!Known

-----------------------------------------------------------------------------
(* Searches.  What a page leaves out is older than all that it has, and    *)
(* then it is full.                                                        *)

LEMMA NewestFill ==
    ASSUME NEW S \in SUBSET Nat, IsFiniteSet(S), NEW n \in Nat
    PROVE  /\ Pages!Newest(S, n) \in SUBSET S
           /\ \A r \in S : r \in Pages!Newest(S, n) <=> Cardinality({q \in S : q > r}) < n
           /\ \A r \in S : r \notin Pages!Newest(S, n) =>
                /\ \A q \in Pages!Newest(S, n) : q > r
                /\ Cardinality(Pages!Newest(S, n)) >= n
  <1> DEFINE Ahead(r) == {q \in S : q > r}
             newest == Pages!Newest(S, n)
  <1>1. newest = {r \in S : Cardinality(Ahead(r)) < n}
    <2>1. \A r : Pages!Cardinality({q \in S : q > r}) = Cardinality({q \in S : q > r})
      BY DEF Pages!Cardinality, Cardinality, Pages!IsFiniteSet, IsFiniteSet
    <2>2. QED
      BY <2>1 DEF Pages!Newest
  <1>2. ASSUME NEW U \in SUBSET S
        PROVE  IsFiniteSet(U) /\ Cardinality(U) \in Nat
    BY FS_Subset, FS_CardinalityType
  <1>3. ASSUME NEW r \in S, NEW q \in S, q <= r
        PROVE  Cardinality(Ahead(r)) <= Cardinality(Ahead(q))
    <2>1. Ahead(r) \in SUBSET Ahead(q) /\ Ahead(q) \in SUBSET S
      <3>1. \A x \in S : x \in Nat
        OBVIOUS
      <3>2. \A x \in S : x > r => x > q
        BY <1>3, <3>1
      <3>3. QED
        BY <3>2
    <2>2. QED
      BY <1>2, <2>1, FS_Subset
  <1>4. \A r \in S : Cardinality(Ahead(r)) \in Nat
    <2>1. \A r \in S : Ahead(r) \in SUBSET S
      OBVIOUS
    <2> HIDE DEF Ahead
    <2>2. QED
      BY <1>2, <2>1
  <1> HIDE DEF newest
  <1>5. ASSUME NEW r \in S, r \notin newest
        PROVE  (\A q \in newest : q > r) /\ Cardinality(newest) >= n
    <2>1. ASSUME NEW q \in newest
          PROVE  q > r
      <3>1. SUFFICES ASSUME ~(q > r)
                     PROVE  FALSE
        OBVIOUS
      <3>2. q \in S /\ r \in S /\ q <= r
        BY <1>1, <2>1, <3>1
      <3>3. Cardinality(Ahead(r)) <= Cardinality(Ahead(q))
        BY <1>3, <3>2
      <3>4. Cardinality(Ahead(q)) < n /\ ~(Cardinality(Ahead(r)) < n)
        BY <1>1, <1>5, <2>1
      <3> HIDE DEF Ahead
      <3>5. QED
        BY <1>4, <3>2, <3>3, <3>4
    <2> DEFINE old == S \ newest
    <2>2. old \in SUBSET Nat /\ old # {} /\ IsFiniteSet(old)
      BY <1>2, <1>5
    <2>3. PICK m \in old : \A y \in old : m >= y
      <3> HIDE DEF old
      <3>1. QED
        BY <2>2, LargestNumber
    <2>4. Ahead(m) \in SUBSET newest /\ newest \in SUBSET S
      <3>1. \A x \in S : x \in Nat
        OBVIOUS
      <3>2. \A x \in S : x > m => x \notin old
        BY <2>3, <3>1
      <3>3. QED
        BY <1>1, <3>2
    <2>5. Cardinality(Ahead(m)) <= Cardinality(newest)
      <3> HIDE DEF Ahead
      <3>1. QED
        BY <1>2, <2>4, FS_Subset
    <2>6. ~(Cardinality(Ahead(m)) < n) /\ Cardinality(Ahead(m)) \in Nat
      BY <1>1, <1>4, <2>3
    <2>7. Cardinality(newest) \in Nat
      BY <1>2, <2>4
    <2> HIDE DEF Ahead
    <2>8. QED
      BY <2>1, <2>5, <2>6, <2>7
  <1>6. QED
    BY <1>1, <1>5 DEF newest

LEMMA NewestEnds ==
    ASSUME NEW S \in SUBSET Nat, IsFiniteSet(S), S # {}, NEW n \in Nat \ {0}
    PROVE  \E m \in Pages!Newest(S, n) : \A r \in Pages!Newest(S, n) : m <= r
  <1> DEFINE newest == Pages!Newest(S, n)
             Ahead(r) == {q \in S : q > r}
  <1>1. PICK top \in S : \A y \in S : top >= y
    BY LargestNumber
  <1>2. Ahead(top) = {}
    <2>1. \A q \in S : q \in Nat
      OBVIOUS
    <2>2. \A q \in S : ~(q > top)
      BY <1>1, <2>1
    <2>3. QED
      BY <2>2
  <1>3. newest \in SUBSET S /\ (top \in newest <=> Cardinality(Ahead(top)) < n)
    BY <1>1, NewestFill
  <1>4. Cardinality(Ahead(top)) = 0
    <2> HIDE DEF Ahead
    <2>1. QED
      BY <1>2, FS_EmptySet
  <1> HIDE DEF newest
  <1>5. newest \in SUBSET Nat /\ newest # {}
    BY <1>3, <1>4
  <1>6. \E m \in newest : \A r \in newest : m <= r
    BY <1>5, SmallestNumber
  <1>7. QED
    BY <1>6 DEF newest

(* A page of two kinds of rows, each looked up one beyond the limit, is    *)
(* the page of all of them.                                                *)
PageOf(page, both, A, limit) ==
    /\ both \in SUBSET A /\ page \in SUBSET both
    /\ ~(Cardinality(both) > limit) => page = A
    /\ Cardinality(both) > limit =>
          \E m \in page : (\A r \in page : m <= r) /\ \A r \in A : r >= m => r \in page

LEMMA PageOfBoth ==
    ASSUME NEW A \in SUBSET Nat, IsFiniteSet(A), NEW kind, NEW limit \in Nat \ {0},
           NEW both, both = Pages!Newest(A \cap kind, limit + 1)
                            \cup Pages!Newest(A \ kind, limit + 1)
    PROVE  PageOf(Pages!Newest(both, limit), both, A, limit)
  <1> DEFINE page == Pages!Newest(both, limit)
             part1 == Pages!Newest(A \cap kind, limit + 1)
             part2 == Pages!Newest(A \ kind, limit + 1)
  <1>1. ASSUME NEW U \in SUBSET A
        PROVE  IsFiniteSet(U) /\ Cardinality(U) \in Nat /\ U \in SUBSET Nat
    BY FS_Subset, FS_CardinalityType
  <1>2. limit + 1 \in Nat /\ A \cap kind \in SUBSET A /\ A \ kind \in SUBSET A
    OBVIOUS
  <1>3. /\ part1 \in SUBSET (A \cap kind)
        /\ \A r \in A \cap kind : r \notin part1 =>
              (\A q \in part1 : q > r) /\ Cardinality(part1) >= limit + 1
    BY <1>1, <1>2, NewestFill
  <1>4. /\ part2 \in SUBSET (A \ kind)
        /\ \A r \in A \ kind : r \notin part2 =>
              (\A q \in part2 : q > r) /\ Cardinality(part2) >= limit + 1
    BY <1>1, <1>2, NewestFill
  <1> HIDE DEF part1, part2
  <1>5. both = part1 \cup part2
    BY DEF part1, part2
  <1>6. both \in SUBSET A /\ IsFiniteSet(both) /\ Cardinality(both) \in Nat /\ both \in SUBSET Nat
    BY <1>1, <1>3, <1>4, <1>5
  <1>7. /\ page \in SUBSET both
        /\ \A r \in both : r \in page <=> Cardinality({q \in both : q > r}) < limit
    BY <1>6, NewestFill
  <1> HIDE DEF page
  <1>8. ASSUME NEW r \in A, r \notin both
        PROVE  \E some \in SUBSET both :
                  (\A q \in some : q > r) /\ Cardinality(some) >= limit + 1
    <2>1. CASE r \in kind
      BY <1>3, <1>5, <1>8, <2>1
    <2>2. CASE r \notin kind
      BY <1>4, <1>5, <1>8, <2>2
    <2>3. QED
      BY <2>1, <2>2
  <1>9. ASSUME ~(Cardinality(both) > limit)
        PROVE  page = A
    <2>1. ASSUME NEW r \in A, r \notin both
          PROVE  FALSE
      <3>1. PICK some \in SUBSET both : Cardinality(some) >= limit + 1
        BY <1>8, <2>1
      <3>2. Cardinality(some) <= Cardinality(both) /\ Cardinality(some) \in Nat
        BY <1>6, FS_Subset, FS_CardinalityType
      <3>3. QED
        BY <1>6, <1>9, <3>1, <3>2
    <2>2. ASSUME NEW r \in both
          PROVE  r \in page
      <3> DEFINE ahead == {q \in both : q > r}
      <3>1. ahead \in SUBSET both /\ ahead # both
        BY <1>6, <2>2
      <3>2. Cardinality(ahead) <= Cardinality(both) /\ Cardinality(ahead) \in Nat
            /\ Cardinality(ahead) # Cardinality(both)
        <4> HIDE DEF ahead
        <4>1. QED
          BY <1>6, <3>1, FS_Subset, FS_CardinalityType
      <3>3. Cardinality(ahead) < limit
        <4> HIDE DEF ahead
        <4>1. QED
          BY <1>6, <1>9, <3>2
      <3>4. QED
        BY <1>7, <2>2, <3>3
    <2>3. QED
      BY <1>6, <1>7, <2>1, <2>2
  <1>10. ASSUME Cardinality(both) > limit
         PROVE  \E m \in page : /\ \A r \in page : m <= r
                                /\ \A r \in A : r >= m => r \in page
    <2>1. both # {}
      BY <1>10, FS_EmptySet
    <2>4. page \in SUBSET Nat
      BY <1>6, <1>7
    <2>5. PICK m \in page : \A y \in page : m <= y
      BY <1>6, <2>1, NewestEnds DEF page
    <2> DEFINE ahead(r) == {q \in both : q > r}
    <2>6. m \in both /\ Cardinality(ahead(m)) < limit /\ IsFiniteSet(ahead(m))
          /\ Cardinality(ahead(m)) \in Nat
      <3>1. ahead(m) \in SUBSET A
        BY <1>6
      <3>2. QED
        BY <1>1, <1>7, <2>5, <3>1
    <2>7. ASSUME NEW r \in A, r >= m
          PROVE  r \in page
      <3>1. \A U \in SUBSET both : (\A q \in U : q > r) => U \in SUBSET ahead(m)
        <4>1. \A q \in A : q \in Nat
          OBVIOUS
        <4>2. m \in Nat /\ \A q \in both : q \in Nat
          BY <1>6, <2>6, <4>1
        <4>3. \A q \in both : q > r => q > m
          BY <2>7, <4>1, <4>2
        <4>4. QED
          BY <4>3
      <3>2. \A U \in SUBSET both : (\A q \in U : q > r) =>
                Cardinality(U) <= Cardinality(ahead(m)) /\ Cardinality(U) \in Nat
        <4> HIDE DEF ahead
        <4>1. QED
          BY <2>6, <3>1, FS_Subset, FS_CardinalityType
      <3>3. CASE r \in both
        <4>1. ahead(r) \in SUBSET both /\ \A q \in ahead(r) : q > r
          OBVIOUS
        <4>2. Cardinality(ahead(r)) <= Cardinality(ahead(m)) /\ Cardinality(ahead(r)) \in Nat
          <5> HIDE DEF ahead
          <5>1. QED
            BY <3>2, <4>1
        <4>3. Cardinality(ahead(r)) < limit
          <5> HIDE DEF ahead
          <5>1. QED
            BY <2>6, <4>2
        <4>4. QED
          BY <1>7, <3>3, <4>3
      <3>4. CASE r \notin both
        <4>1. PICK some \in SUBSET both :
                  (\A q \in some : q > r) /\ Cardinality(some) >= limit + 1
          BY <1>8, <3>4
        <4>2. Cardinality(some) <= Cardinality(ahead(m)) /\ Cardinality(some) \in Nat
          BY <3>2, <4>1
        <4> HIDE DEF ahead
        <4>3. QED
          BY <2>6, <4>1, <4>2
      <3>5. QED
        BY <3>3, <3>4
    <2>8. QED
      BY <2>5, <2>7
  <1>11. QED
    BY <1>6, <1>7, <1>9, <1>10 DEF page, PageOf

PagesInv ==
    /\ Pages!TypeOK
    /\ search.due \subseteq Pages!Live
    /\ search.phase = "idle" =>
          search.seen = {} /\ search.due = {} /\ search.cursor = Pages!Start /\ ~search.repeats
    /\ search.due \subseteq Pages!Matching(search.query)
    /\ ~search.fellBack =>
          /\ ~search.repeats
          /\ search.phase = "open" =>
                /\ \A r \in search.seen : r >= search.cursor
                /\ \A r \in search.due : r >= search.cursor => r \in search.seen
          /\ search.phase = "done" => search.due \subseteq search.seen

LEMMA RowsAreNumbers ==
    /\ Rows \in SUBSET Nat /\ Rows # {} /\ IsFiniteSet(Rows) /\ RowsOfFacts \in SUBSET Rows
    /\ Limit \in Nat \ {0}
    /\ Pages!Start \in Nat /\ Rows \in SUBSET (1..Pages!Start)
    /\ \A r \in Rows : r < Pages!Start
    /\ Pages!Start \in 1..Pages!Start
  <1>1. /\ Rows \in SUBSET (Nat \ {0}) /\ Rows # {} /\ RowsOfFacts \in SUBSET Rows
        /\ Limit \in Nat \ {0} /\ Pages!IsFiniteSet(Rows)
    BY MemoryAssumptions DEF Pages!SearchAssumption
  <1>2. IsFiniteSet(Rows) /\ Rows \in SUBSET Nat
    BY <1>1 DEF Pages!IsFiniteSet, IsFiniteSet
  <1>3. \E x \in Rows : \A y \in Rows : x >= y
    BY <1>1, <1>2, LargestNumber
  <1>4. Pages!Max(Rows) \in Rows /\ \A y \in Rows : Pages!Max(Rows) >= y
    BY <1>3 DEF Pages!Max
  <1>5. \A x \in Rows : x \in Nat \ {0}
    BY <1>1
  <1>6. Pages!Start = 1 + Pages!Max(Rows) /\ Pages!Max(Rows) \in Nat
    BY <1>4, <1>5 DEF Pages!Start
  <1>7. Pages!Start \in Nat /\ Pages!Start \in 1..Pages!Start /\ \A r \in Rows : r < Pages!Start
    BY <1>4, <1>5, <1>6
  <1>8. \A r \in Rows : r \in 1..Pages!Start
    BY <1>5, <1>7
  <1>9. QED
    BY <1>1, <1>2, <1>7, <1>8

LEMMA PagesBegin == Pages!Init => PagesInv
  BY RowsAreNumbers DEF Pages!Init, PagesInv, Pages!TypeOK, Pages!Search, Pages!Live

LEMMA PageGoesOn ==
    ASSUME PagesInv, Pages!SearchMemory
    PROVE  PagesInv' /\ \A r \in Rows : row[r] = "deleted" /\ r \in search'.seen => r \in search.seen
  <1> DEFINE q == search.query
             cursor == search.cursor
             A == {r \in Pages!Matching(q) : r < cursor}
             T(kind) == Pages!ByTerms(kind, q, cursor)
  <1>1. /\ row \in [Rows -> {"none", "live", "deleted"}]
        /\ search \in [query : Queries, cursor : 1..Pages!Start, seen : SUBSET Rows,
                       due : SUBSET Rows, repeats : BOOLEAN, found : BOOLEAN,
                       fellBack : BOOLEAN, phase : {"idle", "open", "done"}]
    BY DEF PagesInv, Pages!TypeOK, Pages!Search
  <1>2. /\ Pages!Matching(q) \in SUBSET Rows /\ Pages!Matching(q) \in SUBSET Pages!Live
        /\ A \in SUBSET Rows /\ A \in SUBSET Nat /\ A \in SUBSET Pages!Live /\ IsFiniteSet(A)
        /\ Pages!Live \in SUBSET Rows /\ Pages!Live \in SUBSET Nat
    <2>1. Pages!Matching(q) \in SUBSET Pages!Live /\ Pages!Live \in SUBSET Rows
      BY DEF Pages!Matching, Pages!Live
    <2>2. A \in SUBSET Rows /\ Rows \in SUBSET Nat /\ IsFiniteSet(Rows)
      BY <2>1, RowsAreNumbers
    <2>3. QED
      BY <2>1, <2>2, FS_Subset
  <1>3. /\ T(RowsOfFacts) = Pages!Newest(A \cap RowsOfFacts, Limit + 1)
        /\ T(Rows \ RowsOfFacts) = Pages!Newest(A \ RowsOfFacts, Limit + 1)
    <2>1. {r \in Pages!Matching(q) \cap RowsOfFacts : r < cursor} = A \cap RowsOfFacts
      OBVIOUS
    <2>2. {r \in Pages!Matching(q) \cap (Rows \ RowsOfFacts) : r < cursor} = A \ RowsOfFacts
      BY <1>2
    <2>3. QED
      BY <2>1, <2>2 DEF Pages!ByTerms
  <1>4. PICK found \in Pages!FactRows(q, cursor) :
            Pages!Deliver(found.rows \cup T(Rows \ RowsOfFacts), found)
    BY DEF Pages!SearchMemory
  <1>5. row' = row /\ search.phase # "done"
    BY DEF Pages!SearchMemory
  <1> DEFINE both == found.rows \cup T(Rows \ RowsOfFacts)
             page == Pages!Newest(both, Limit)
             more == Cardinality(both) > Limit
  <1>6. /\ found.fellBack \in BOOLEAN /\ found.rows \in SUBSET Pages!Live
        /\ ~found.fellBack => found.rows = T(RowsOfFacts)
    <2>1. T(RowsOfFacts) \in SUBSET Pages!Live
      <3>1. A \cap RowsOfFacts \in SUBSET Nat /\ IsFiniteSet(A \cap RowsOfFacts) /\ Limit + 1 \in Nat
        BY <1>2, RowsAreNumbers, FS_Subset
      <3> HIDE DEF A
      <3>2. Pages!Newest(A \cap RowsOfFacts, Limit + 1) \in SUBSET (A \cap RowsOfFacts)
        BY <3>1, NewestFill
      <3>3. QED
        BY <1>2, <1>3, <3>2
    <2> HIDE DEF T
    <2>2. CASE T(RowsOfFacts) = {} /\ q # {}
      <3>1. found \in {[rows |-> near, fellBack |-> near # {}] : near \in Pages!ByEmbedding}
        BY <1>4, <2>2 DEF Pages!FactRows, T
      <3>2. PICK near \in Pages!ByEmbedding : found = [rows |-> near, fellBack |-> near # {}]
        BY <3>1
      <3>3. near \in SUBSET Pages!Live
        BY <3>2 DEF Pages!ByEmbedding, Pages!kSubset
      <3>4. QED
        BY <2>2, <3>2, <3>3
    <2>3. CASE ~(T(RowsOfFacts) = {} /\ q # {})
      <3>1. found = [rows |-> T(RowsOfFacts), fellBack |-> FALSE]
        BY <1>4, <2>3 DEF Pages!FactRows, T
      <3>2. QED
        BY <2>1, <3>1
    <2>4. QED
      BY <2>2, <2>3
  <1>7. both \in SUBSET Pages!Live
    <2>1. A \ RowsOfFacts \in SUBSET Nat /\ IsFiniteSet(A \ RowsOfFacts) /\ Limit + 1 \in Nat
      BY <1>2, RowsAreNumbers, FS_Subset
    <2> HIDE DEF A, T
    <2>2. Pages!Newest(A \ RowsOfFacts, Limit + 1) \in SUBSET (A \ RowsOfFacts)
      BY <2>1, NewestFill
    <2>3. QED
      BY <1>2, <1>3, <1>6, <2>2
  <1>8. page \in SUBSET both /\ IsFiniteSet(both) /\ Cardinality(both) \in Nat
        /\ \A r \in both : r \in page <=> Cardinality({x \in both : x > r}) < Limit
    <2>1. both \in SUBSET Rows /\ both \in SUBSET Nat /\ Limit \in Nat
      BY <1>2, <1>7, RowsAreNumbers
    <2> HIDE DEF both
    <2>2. IsFiniteSet(both)
      BY <2>1, RowsAreNumbers, FS_Subset
    <2>3. QED
      BY <2>1, <2>2, NewestFill, FS_CardinalityType
  <1>9. page \in SUBSET Rows /\ page \in SUBSET Pages!Live
    BY <1>2, <1>7, <1>8
  <1> DEFINE due2 == IF search.phase = "idle" THEN Pages!Matching(q) ELSE search.due
             cursor2 == IF more THEN Pages!Min(page) ELSE search.cursor
             seen2 == search.seen \cup page
             repeats2 == search.repeats \/ page \cap search.seen # {}
             found2 == search.found \/ (found.rows # {} /\ ~found.fellBack)
             fellBack2 == search.fellBack \/ found.fellBack
             phase2 == IF more THEN "open" ELSE "done"
  <1>10. search' = [search EXCEPT !.due = due2, !.cursor = cursor2, !.seen = seen2,
                        !.repeats = repeats2, !.found = found2, !.fellBack = fellBack2,
                        !.phase = phase2]
    <2>1. Pages!Cardinality(both) = Cardinality(both)
      BY DEF Pages!Cardinality, Cardinality, Pages!IsFiniteSet, IsFiniteSet
    <2> HIDE DEF both
    <2>2. QED
      BY <1>4, <2>1 DEF both, Pages!Deliver, Pages!Page
  <1>11. more => Pages!Min(page) \in page /\ \A r \in page : Pages!Min(page) <= r
    <2>1. SUFFICES ASSUME more
                   PROVE  Pages!Min(page) \in page /\ \A r \in page : Pages!Min(page) <= r
      OBVIOUS
    <2>2. both # {} /\ both \in SUBSET Nat
      <3>1. Limit \in Nat
        BY RowsAreNumbers
      <3> HIDE DEF both
      <3>2. QED
        BY <1>2, <1>7, <2>1, <3>1, FS_EmptySet
    <2> HIDE DEF both
    <2>6. \E m \in page : \A y \in page : m <= y
      BY <1>8, <2>2, NewestEnds, RowsAreNumbers
    <2> HIDE DEF page
    <2>7. QED
      BY <2>6 DEF Pages!Min
  <1> HIDE DEF page, both, A, T
  <1>12. /\ search'.query = q /\ search'.seen = seen2 /\ search'.due = due2
         /\ search'.cursor = cursor2 /\ search'.repeats = repeats2
         /\ search'.fellBack = fellBack2 /\ search'.phase = phase2
    <2> HIDE DEF due2, cursor2, seen2, repeats2, found2, fellBack2, phase2
    <2>1. QED
      BY <1>1, <1>10
  <1>13. search'.due \in SUBSET Rows /\ search'.due \in SUBSET Pages!Matching(q)
    BY <1>1, <1>2, <1>12 DEF PagesInv
  <1>14. Pages!TypeOK'
    <2>1. more => Pages!Min(page) \in 1..Pages!Start
      BY <1>9, <1>11, RowsAreNumbers
    <2>2. /\ due2 \in SUBSET Rows /\ cursor2 \in 1..Pages!Start /\ seen2 \in SUBSET Rows
          /\ repeats2 \in BOOLEAN /\ found2 \in BOOLEAN /\ fellBack2 \in BOOLEAN
          /\ phase2 \in {"idle", "open", "done"}
      BY <1>1, <1>6, <1>9, <1>12, <1>13, <2>1
    <2> HIDE DEF due2, cursor2, seen2, repeats2, found2, fellBack2, phase2
    <2>4. search' \in [query : Queries, cursor : 1..Pages!Start, seen : SUBSET Rows,
                       due : SUBSET Rows, repeats : BOOLEAN, found : BOOLEAN,
                       fellBack : BOOLEAN, phase : {"idle", "open", "done"}]
      BY <1>1, <1>10, <2>2
    <2>3. QED
      BY <1>1, <1>5, <2>4 DEF Pages!TypeOK, Pages!Search
  <1>15. search'.due \subseteq Pages!Live' /\ search'.due \subseteq Pages!Matching(search.query)'
    <2>1. Pages!Live' = Pages!Live
      BY <1>5 DEF Pages!Live
    <2>3. Pages!Matching(search.query)' = Pages!Matching(q)
      BY <1>12, <2>1 DEF Pages!Matching, Pages!SearchTerms
    <2>2. QED
      BY <1>2, <1>13, <2>1, <2>3
  <1>16. ASSUME ~search'.fellBack
         PROVE  /\ ~search'.repeats
                /\ search'.phase = "open" =>
                      /\ \A r \in search'.seen : r >= search'.cursor
                      /\ \A r \in search'.due : r >= search'.cursor => r \in search'.seen
                /\ search'.phase = "done" => search'.due \subseteq search'.seen
    <2>1. ~search.fellBack /\ ~found.fellBack
      BY <1>1, <1>6, <1>12, <1>16
    <2>2. both = Pages!Newest(A \cap RowsOfFacts, Limit + 1) \cup Pages!Newest(A \ RowsOfFacts, Limit + 1)
      BY <1>3, <1>6, <2>1 DEF both
    <2>3. /\ both \in SUBSET A
          /\ ~more => page = A
          /\ more => \E m \in page : /\ \A r \in page : m <= r
                                     /\ \A r \in A : r >= m => r \in page
      <3>1. A \in SUBSET Nat /\ IsFiniteSet(A) /\ Limit \in Nat \ {0}
        BY <1>2, RowsAreNumbers
      <3>2. PageOf(Pages!Newest(both, Limit), both, A, Limit)
        BY <2>2, <3>1, PageOfBoth
      <3>3. QED
        BY <3>2 DEF page, PageOf
    <2>4. /\ \A r \in search.seen : r >= cursor
          /\ \A r \in search'.due : r >= cursor => r \in search.seen
          /\ ~search.repeats
      <3>1. CASE search.phase = "idle"
        <4>1. search.seen = {} /\ cursor = Pages!Start /\ ~search.repeats
          BY <3>1 DEF PagesInv
        <4>2. \A r \in Rows : ~(r >= Pages!Start)
          <5>1. \A r \in Rows : r \in Nat
            BY RowsAreNumbers
          <5>2. QED
            BY <5>1, RowsAreNumbers
        <4>3. QED
          BY <1>13, <4>1, <4>2
      <3>2. CASE search.phase = "open"
        BY <1>12, <2>1, <3>2 DEF PagesInv
      <3>3. QED
        BY <1>1, <1>5, <3>1, <3>2
    <2>5. \A r \in A : r < cursor /\ r \in Nat /\ r \in Pages!Matching(q)
      BY <1>2 DEF A
    <2>6. /\ cursor \in Nat /\ \A r \in search.seen : r \in Nat
          /\ \A r \in search'.due : r \in Nat
      <3>1. cursor \in 1..Pages!Start
        BY <1>1
      <3>2. cursor \in Nat
        BY <3>1, RowsAreNumbers
      <3>3. \A r \in Rows : r \in Nat
        BY RowsAreNumbers
      <3>4. QED
        BY <1>1, <1>13, <3>2, <3>3
    <2>7. page \cap search.seen = {}
      <3>1. \A r \in page : r < cursor /\ r \in Nat
        BY <1>8, <2>3, <2>5
      <3>2. QED
        BY <2>4, <2>6, <3>1
    <2>8. \A r \in search'.due : r < cursor => r \in A
      BY <1>13 DEF A
    <2>9. CASE more
      <3> DEFINE m == Pages!Min(page)
      <3>1. m \in page /\ (\A r \in page : m <= r) /\ m \in Nat /\ m < cursor
        BY <1>8, <1>9, <1>11, <2>3, <2>5, <2>9
      <3>2. \A r \in A : r >= m => r \in page
        <4>1. PICK k \in page : (\A r \in page : k <= r) /\ \A r \in A : r >= k => r \in page
          BY <2>3, <2>9
        <4>2. k = m
          <5>1. k \in Nat /\ k <= m /\ m <= k
            BY <1>8, <2>3, <2>5, <3>1, <4>1
          <5>2. QED
            BY <3>1, <5>1
        <4>3. QED
          BY <4>1, <4>2
      <3> HIDE DEF m
      <3>3. search'.cursor = m /\ search'.phase = "open" /\ ~search'.repeats
        <4>1. cursor2 = m /\ phase2 = "open" /\ repeats2 = FALSE
          BY <2>4, <2>7, <2>9 DEF m
        <4> HIDE DEF cursor2, phase2, repeats2
        <4>2. QED
          BY <1>12, <4>1
      <3>4. \A r \in search'.seen : r >= m
        <4>1. \A r \in search.seen : r >= m
          BY <2>4, <2>6, <3>1
        <4>2. \A r \in page : r >= m
          <5>1. \A r \in page : r \in Nat
            BY <1>8, <2>3, <2>5
          <5>2. QED
            BY <3>1, <5>1
        <4>3. search'.seen = search.seen \cup page
          BY <1>12
        <4>4. QED
          BY <4>1, <4>2, <4>3
      <3>5. ASSUME NEW r \in search'.due, r >= m
            PROVE  r \in search'.seen
        <4>1. CASE r >= cursor
          BY <1>12, <2>4, <4>1
        <4>2. CASE r < cursor
          BY <1>12, <2>8, <3>2, <3>5, <4>2
        <4>3. QED
          BY <2>6, <4>1, <4>2
      <3>6. QED
        BY <3>3, <3>4, <3>5
    <2>10. CASE ~more
      <3>1. search'.phase = "done" /\ ~search'.repeats
        BY <1>12, <2>4, <2>7, <2>10
      <3>2. ASSUME NEW r \in search'.due
            PROVE  r \in search'.seen
        <4>1. CASE r >= cursor
          BY <1>12, <2>4, <4>1
        <4>2. CASE r < cursor
          BY <1>12, <2>3, <2>8, <2>10, <4>2
        <4>3. QED
          BY <2>6, <4>1, <4>2
      <3>3. QED
        BY <3>1, <3>2
    <2>11. QED
      BY <2>9, <2>10
  <1>17. search'.phase # "idle"
    BY <1>12
  <1>18. PagesInv'
    BY <1>14, <1>15, <1>16, <1>17 DEF PagesInv
  <1>19. \A r \in Rows : row[r] = "deleted" /\ r \in search'.seen => r \in search.seen
    BY <1>9, <1>12 DEF Pages!Live
  <1>20. QED
    BY <1>18, <1>19

LEMMA PagesGoOn ==
    PagesInv /\ [Pages!Next]_(Pages!vars) =>
        PagesInv' /\ \A r \in Rows : row[r] = "deleted" /\ r \in search'.seen => r \in search.seen
  <1>1. SUFFICES ASSUME PagesInv, [Pages!Next]_(Pages!vars)
                 PROVE  PagesInv' /\ \A r \in Rows : row[r] = "deleted" /\ r \in search'.seen =>
                                         r \in search.seen
    OBVIOUS
  <1>2. /\ row \in [Rows -> {"none", "live", "deleted"}]
        /\ search \in [query : Queries, cursor : 1..Pages!Start, seen : SUBSET Rows,
                       due : SUBSET Rows, repeats : BOOLEAN, found : BOOLEAN,
                       fellBack : BOOLEAN, phase : {"idle", "open", "done"}]
    BY <1>1 DEF PagesInv, Pages!TypeOK, Pages!Search
  <1>3. ASSUME NEW r \in Rows, Pages!AddRow(r)
        PROVE  PagesInv' /\ search' = search
    <2>1. row' = [row EXCEPT ![r] = "live"] /\ search' = search
      BY <1>3 DEF Pages!AddRow
    <2>2. Pages!Live \subseteq Pages!Live'
      BY <1>2, <2>1 DEF Pages!Live
    <2>3. Pages!Matching(search.query) \subseteq Pages!Matching(search.query)'
      BY <2>1, <2>2 DEF Pages!Matching, Pages!SearchTerms
    <2>4. Pages!TypeOK'
      BY <1>1, <1>2, <2>1 DEF PagesInv, Pages!TypeOK
    <2>5. QED
      BY <1>1, <2>1, <2>2, <2>3, <2>4 DEF PagesInv
  <1>4. ASSUME NEW r \in Rows, Pages!DeleteRow(r)
        PROVE  PagesInv' /\ search'.seen = search.seen
    <2>1. row' = [row EXCEPT ![r] = "deleted"] /\ search' = [search EXCEPT !.due = @ \ {r}]
      BY <1>4 DEF Pages!DeleteRow
    <2>2. /\ search'.due = search.due \ {r} /\ search'.query = search.query
          /\ search'.seen = search.seen /\ search'.cursor = search.cursor
          /\ search'.repeats = search.repeats /\ search'.fellBack = search.fellBack
          /\ search'.phase = search.phase
      BY <1>2, <2>1
    <2>3. \A x \in Pages!Live : x # r => x \in Pages!Live'
      BY <1>2, <2>1 DEF Pages!Live
    <2>4. \A x \in Pages!Matching(search.query) : x # r => x \in Pages!Matching(search.query)'
      BY <2>2, <2>3 DEF Pages!Matching, Pages!SearchTerms
    <2>5. Pages!TypeOK'
      BY <1>2, <2>1 DEF Pages!TypeOK, Pages!Search
    <2>6. QED
      BY <1>1, <2>2, <2>3, <2>4, <2>5 DEF PagesInv
  <1>5. CASE UNCHANGED Pages!vars
    <2>1. row' = row /\ search' = search
      BY <1>5 DEF Pages!vars
    <2>2. QED
      BY <1>1, <2>1 DEF PagesInv, Pages!TypeOK, Pages!Live, Pages!Matching, Pages!SearchTerms
  <1>6. QED
    BY <1>1, <1>3, <1>4, <1>5, PageGoesOn DEF Pages!Next, Pages!vars

-----------------------------------------------------------------------------
(* Days.  The messages of a day in their order, and how they are cut: the  *)
(* message at position j is in the chunk whose bounds it is between, and   *)
(* in no other.                                                            *)

Between(i, j) == Capacity * (i - 1) + 1 <= j /\ j <= Capacity * i

LEMMA OneChunk ==
    ASSUME NEW n \in Nat, NEW j \in 1..n
    PROVE  /\ (n + Capacity - 1) \div Capacity \in Nat
           /\ \E i \in 1..((n + Capacity - 1) \div Capacity) : Between(i, j)
           /\ \A i, k \in Nat : Between(i, j) /\ Between(k, j) => i = k
  <1>1. Capacity \in Nat \ {0}
    BY MemoryAssumptions DEF Daily!DailyAssumption
  <1> DEFINE a == j - 1
             b == n + Capacity - 1
  <1>2. a \in Nat /\ b \in Nat /\ a + Capacity <= b
    BY <1>1
  <1>3. /\ a \div Capacity \in Nat /\ b \div Capacity \in Nat
        /\ Capacity * (a \div Capacity) <= a
        /\ a < Capacity * (a \div Capacity) + Capacity
        /\ b < Capacity * (b \div Capacity) + Capacity
    <2> HIDE DEF a, b
    <2>1. QED
      BY <1>1, <1>2
  <1> DEFINE i == a \div Capacity + 1
             m == b \div Capacity
  <1>4. i \in Nat /\ i >= 1 /\ m \in Nat
    BY <1>3
  <1>5. Capacity * (i - 1) <= a /\ a < Capacity * (i - 1) + Capacity
    <2>1. i - 1 = a \div Capacity
      BY <1>3
    <2> HIDE DEF i, a
    <2>2. QED
      BY <1>3, <2>1
  <1>6. Capacity * i = Capacity * (i - 1) + Capacity
    <2> HIDE DEF i
    <2>1. QED
      BY <1>1, <1>4
  <1>7. Between(i, j)
    <2> HIDE DEF i
    <2>1. QED
      BY <1>1, <1>4, <1>5, <1>6 DEF Between
  <1>8. i <= m
    <2>1. SUFFICES ASSUME m < i
                   PROVE  FALSE
      BY <1>4
    <2>2. Capacity * m <= Capacity * (i - 1)
      <3>1. m <= i - 1
        BY <1>4, <2>1
      <3> HIDE DEF m, i
      <3>2. QED
        BY <1>1, <1>4, <3>1
    <2>3. b < Capacity * m + Capacity
      BY <1>3
    <2> HIDE DEF m, i, a, b
    <2>4. QED
      BY <1>1, <1>2, <1>4, <1>5, <2>2, <2>3
  <1>9. ASSUME NEW x \in Nat, NEW y \in Nat, Between(x, j), Between(y, j), x < y
        PROVE  FALSE
    <2>1. Capacity * x <= Capacity * (y - 1)
      BY <1>1, <1>9
    <2>2. QED
      BY <1>1, <1>9, <2>1 DEF Between
  <1>10. \A x, y \in Nat : Between(x, j) /\ Between(y, j) => x = y
    BY <1>9
  <1>11. i \in 1..m
    <2> HIDE DEF i, m
    <2>1. QED
      BY <1>4, <1>8
  <1>12. QED
    <2> HIDE DEF i
    <2>1. m = (n + Capacity - 1) \div Capacity
      OBVIOUS
    <2> HIDE DEF m
    <2>2. QED
      BY <1>4, <1>7, <1>10, <1>11, <2>1

LEMMA ChunksAreParts ==
    ASSUME NEW T, NEW lines \in Seq(T)
    PROVE  /\ Daily!Chunks(lines) \in Seq(SUBSET T)
           /\ Len(Daily!Chunks(lines)) = (Len(lines) + Capacity - 1) \div Capacity
           /\ \A i \in 1..Len(Daily!Chunks(lines)) : \A x :
                x \in Daily!Chunks(lines)[i]
                    <=> \E j \in 1..Len(lines) : Between(i, j) /\ x = lines[j]
           /\ Len(Daily!Chunks(lines)) = 0 => lines = <<>>
  <1>1. Capacity \in Nat \ {0} /\ Len(lines) \in Nat
    BY MemoryAssumptions DEF Daily!DailyAssumption
  <1> DEFINE n == (Len(lines) + Capacity - 1) \div Capacity
             low(i) == Capacity * (i - 1) + 1
             high(i) == Daily!Min({Capacity * i, Len(lines)})
             piece(i) == SubSeq(lines, low(i), high(i))
             chunks == Daily!Chunks(lines)
  <1>2. n \in Nat
    BY <1>1
  <1>3. chunks = [i \in 1..n |-> Daily!Range(piece(i))]
    BY DEF Daily!Chunks
  <1> HIDE DEF n, chunks
  <1>4. ASSUME NEW i \in 1..n
        PROVE  /\ low(i) \in Nat /\ low(i) >= 1 /\ high(i) \in Nat /\ high(i) <= Len(lines)
               /\ high(i) <= Capacity * i
               /\ high(i) = Capacity * i \/ high(i) = Len(lines)
    <2>1. i \in Nat /\ i >= 1
      BY <1>2
    <2>2. Capacity * i \in Nat /\ Capacity * (i - 1) \in Nat
      BY <1>1, <2>1
    <2>3. \E x \in {Capacity * i, Len(lines)} : \A y \in {Capacity * i, Len(lines)} : x <= y
      BY <1>1, <2>2
    <2>4. high(i) \in {Capacity * i, Len(lines)} /\ high(i) <= Capacity * i /\ high(i) <= Len(lines)
      BY <2>3 DEF Daily!Min
    <2>5. QED
      BY <1>1, <2>2, <2>4
  <1>5. ASSUME NEW i \in 1..n, NEW x
        PROVE  x \in Daily!Range(piece(i)) <=> \E j \in 1..Len(lines) : Between(i, j) /\ x = lines[j]
    <2> DEFINE l == low(i)
               h == high(i)
    <2>1. l \in Nat /\ l >= 1 /\ h \in Nat /\ h <= Len(lines)
      BY <1>4
    <2>2. \A j \in 1..Len(lines) : Between(i, j) <=> (l <= j /\ j <= h)
      <3>1. i \in Nat /\ Capacity * i \in Nat
        BY <1>1, <1>2
      <3>2. h <= Capacity * i /\ (h = Capacity * i \/ h = Len(lines)) /\ l = Capacity * (i - 1) + 1
        BY <1>4
      <3> HIDE DEF h, l
      <3>3. QED
        BY <1>1, <2>1, <3>1, <3>2 DEF Between
    <2> HIDE DEF l, h
    <2> DEFINE s == SubSeq(lines, l, h)
    <2>3. /\ DOMAIN s = 1..(h - l + 1)
          /\ \A k \in 1..(h - l + 1) : s[k] = lines[l + k - 1]
      BY <1>1, <2>1
    <2> HIDE DEF s
    <2>4. Daily!Range(s) = {s[k] : k \in 1..(h - l + 1)}
      BY <2>3 DEF Daily!Range
    <2>5. ASSUME x \in Daily!Range(s)
          PROVE  \E j \in 1..Len(lines) : Between(i, j) /\ x = lines[j]
      <3>1. PICK k \in 1..(h - l + 1) : x = lines[l + k - 1]
        BY <2>3, <2>4, <2>5
      <3>2. l + k - 1 \in 1..Len(lines) /\ l <= l + k - 1 /\ l + k - 1 <= h
        BY <1>1, <2>1, <3>1
      <3>3. QED
        BY <2>2, <3>1, <3>2
    <2>6. ASSUME NEW j \in 1..Len(lines), Between(i, j), x = lines[j]
          PROVE  x \in Daily!Range(s)
      <3>1. l <= j /\ j <= h
        BY <2>2, <2>6
      <3>2. j - l + 1 \in 1..(h - l + 1) /\ l + (j - l + 1) - 1 = j
        BY <1>1, <2>1, <3>1
      <3>3. QED
        BY <2>3, <2>4, <2>6, <3>2
    <2>7. Daily!Range(piece(i)) = Daily!Range(s)
      BY DEF s, l, h
    <2>8. QED
      BY <2>5, <2>6, <2>7
  <1>6. chunks \in Seq(SUBSET T) /\ Len(chunks) = n
    <2>1. \A i \in 1..n : Daily!Range(piece(i)) \in SUBSET T
      <3>1. \A j \in 1..Len(lines) : lines[j] \in T
        OBVIOUS
      <3> HIDE DEF piece
      <3>2. QED
        BY <1>5, <3>1
    <2> HIDE DEF piece
    <2>2. QED
      BY <1>2, <1>3, <2>1
  <1>7. n = 0 => lines = <<>>
    <2>1. ASSUME Len(lines) # 0
          PROVE  n # 0
      <3>1. 1 \in 1..Len(lines)
        BY <1>1, <2>1
      <3>2. PICK i \in 1..n : Between(i, 1)
        BY <1>1, <3>1, OneChunk DEF n
      <3>3. QED
        BY <1>2, <3>2
    <2>2. QED
      BY <2>1
  <1>8. QED
    <2> HIDE DEF piece
    <2>1. \A i \in 1..n : chunks[i] = Daily!Range(piece(i))
      BY <1>3
    <2>2. \A i \in 1..n : \A x :
            x \in chunks[i] <=> \E j \in 1..Len(lines) : Between(i, j) /\ x = lines[j]
      BY <1>5, <2>1
    <2>3. QED
      BY <1>6, <1>7, <2>2 DEF chunks, n

Dialogue(d) == Daily!Human(d) \cup Daily!Replies(d)

Ordered(q, S) ==
    /\ q \in Seq(S)
    /\ \A i, j \in 1..Len(q) : i # j => q[i] # q[j]
    /\ \A m \in S : \E i \in 1..Len(q) : q[i] = m

LEMMA InOrderIsOrdered ==
    ASSUME NEW S \in SUBSET Messages
    PROVE  Ordered(Daily!InOrder(S), S)
  <1> DEFINE n == Cardinality(S)
             R == {p \in S \X S : p[1] < p[2]}
             q == Daily!InOrder(S)
  <1>1. IsFiniteSet(S) /\ S \in SUBSET Nat
    <2>1. IsFiniteSet(Messages) /\ Messages \in SUBSET Nat
      BY MemoryAssumptions DEF Daily!DailyAssumption, Daily!IsFiniteSet, IsFiniteSet
    <2>2. QED
      BY <2>1, FS_Subset
  <1>2. n \in Nat /\ Daily!Cardinality(S) = n
    BY <1>1, FS_CardinalityType DEF Daily!Cardinality, Cardinality
  <1> HIDE DEF n
  <1>3. PICK p \in [1..n -> S] :
             /\ \A i, j \in 1..n : i # j => p[i] # p[j]
             /\ \A i, j \in 1..n : i < j => p[i] < p[j]
    <2>1. Order(R, S)
      BY <1>1 DEF Order
    <2> HIDE DEF R
    <2>2. PICK p \in [1..n -> S] :
             /\ \A i, j \in 1..n : i # j => p[i] # p[j]
             /\ \A i, j \in 1..n : i < j => <<p[i], p[j]>> \in R
      BY <1>1, <2>1, SortedSequence DEF n
    <2>3. \A i, j \in 1..n : i < j => p[i] < p[j]
      BY <2>2 DEF R
    <2>4. QED
      BY <2>2, <2>3
  <1>4. p \in Daily!SetToSeqs(S) /\ \A i, j \in DOMAIN p : i < j => p[i] < p[j]
    BY <1>2, <1>3 DEF Daily!SetToSeqs
  <1>5. q \in Daily!SetToSeqs(S)
    BY <1>4 DEF Daily!InOrder
  <1> HIDE DEF q
  <1>6. q \in [1..n -> S] /\ \A i, j \in 1..n : i # j => q[i] # q[j]
    BY <1>2, <1>5 DEF Daily!SetToSeqs
  <1>7. \A m \in S : \E i \in 1..n : q[i] = m
    BY <1>1, <1>6, EveryMember DEF n
  <1>8. q \in Seq(S) /\ Len(q) = n
    BY <1>2, <1>6
  <1>9. QED
    BY <1>6, <1>7, <1>8 DEF Ordered, q

LEMMA LinesAreTheDialogue ==
    ASSUME NEW d \in Days
    PROVE  /\ Daily!Lines(d) \in Seq(Daily!Line)
           /\ \A j \in 1..Len(Daily!Lines(d)) :
                /\ Daily!Lines(d)[j].message \in Dialogue(d)
                /\ Daily!Lines(d)[j].eligible = Daily!Eligible(Daily!Lines(d)[j].message)
           /\ \A m \in Dialogue(d) :
                \E j \in 1..Len(Daily!Lines(d)) : Daily!Lines(d)[j].message = m
           /\ \A i, j \in 1..Len(Daily!Lines(d)) :
                Daily!Lines(d)[i].message = Daily!Lines(d)[j].message => i = j
  <1> DEFINE S == Dialogue(d)
             q == Daily!InOrder(S)
             lines == Daily!Lines(d)
  <1>1. S \in SUBSET Messages
    BY DEF Dialogue, Daily!Human, Daily!Replies
  <1>2. Ordered(q, S)
    BY <1>1, InOrderIsOrdered
  <1>3. lines = [i \in DOMAIN q |-> [message |-> q[i], eligible |-> Daily!Eligible(q[i])]]
    BY DEF Daily!Lines, Dialogue
  <1> HIDE DEF q, lines, S
  <1>4. q \in Seq(S) /\ Len(q) \in Nat /\ DOMAIN q = 1..Len(q)
    BY <1>2 DEF Ordered
  <1>5. \A i \in 1..Len(q) : q[i] \in S
    BY <1>4
  <1>6. \A m : Daily!Eligible(m) \in BOOLEAN
    BY DEF Daily!Eligible
  <1>7. \A i \in 1..Len(q) :
            lines[i] = [message |-> q[i], eligible |-> Daily!Eligible(q[i])]
    BY <1>3, <1>4
  <1>8. lines \in Seq(Daily!Line) /\ Len(lines) = Len(q)
    <2>1. \A i \in 1..Len(q) :
            [message |-> q[i], eligible |-> Daily!Eligible(q[i])] \in Daily!Line
      BY <1>1, <1>5, <1>6 DEF Daily!Line
    <2>2. QED
      BY <1>3, <1>4, <2>1
  <1>9. /\ \A j \in 1..Len(lines) :
             lines[j].message \in S /\ lines[j].eligible = Daily!Eligible(lines[j].message)
        /\ \A m \in S : \E j \in 1..Len(lines) : lines[j].message = m
        /\ \A i, j \in 1..Len(lines) : lines[i].message = lines[j].message => i = j
    <2>1. \A i \in 1..Len(q) :
            lines[i].message = q[i] /\ lines[i].eligible = Daily!Eligible(q[i])
      <3>1. SUFFICES ASSUME NEW i \in 1..Len(q)
                     PROVE  /\ lines[i].message = q[i]
                            /\ lines[i].eligible = Daily!Eligible(q[i])
        OBVIOUS
      <3> DEFINE e == Daily!Eligible(q[i])
      <3>2. e \in BOOLEAN
        BY <1>6
      <3>3. lines[i] = [message |-> q[i], eligible |-> e]
        BY <1>7
      <3> HIDE DEF e
      <3>4. lines[i].message = q[i]
        BY <3>3
      <3>5. lines[i].eligible = e
        BY <3>2, <3>3
      <3>6. QED
        BY <3>4, <3>5 DEF e
    <2>2. \A j \in 1..Len(lines) :
            lines[j].message \in S /\ lines[j].eligible = Daily!Eligible(lines[j].message)
      BY <1>5, <1>8, <2>1
    <2>3. /\ \A m \in S : \E j \in 1..Len(lines) : lines[j].message = m
          /\ \A i, j \in 1..Len(lines) : lines[i].message = lines[j].message => i = j
      BY <1>2, <1>8, <2>1 DEF Ordered
    <2>4. QED
      BY <2>2, <2>3
  <1>10. QED
    BY <1>8, <1>9 DEF lines, S

(* What every step keeps of the days: a day is closed once, in the chunks  *)
(* that its dialogue, which is over, still has, and one that is not closed *)
(* is as old as the outage is long.                                        *)
Cut(d) == Daily!Chunks(Daily!Lines(d))

ClosedOnce ==
    \A d \in Days : dSource[d] # <<>> =>
        /\ d < today /\ Len(dSource[d]) = Len(Cut(d))
        /\ \A i \in 1..Len(dSource[d]) : dSource[d][i].lines = Cut(d)[i]

PlansHold ==
    \A w \in Workers : plan[w] # Daily!NoPlan =>
        \E d \in Days : /\ plan[w].day = d /\ d < today
                        /\ plan[w].chunks = Cut(d) /\ plan[w].known = 0

LateAsOutage ==
    \A d \in Days : d < today /\ Daily!ToClose(d) => outage >= today - d - 1

WordsHold ==
    \A m \in learnt : ReplyTo[m] = 0 /\ m \notin delegated /\ message[m] = "completed"

DailyInv ==
    /\ Daily!TypeOK
    /\ dSource \in [Days -> Seq(Daily!SourceRow)]
    /\ plan \in [Workers -> [day: Days \cup {0}, chunks: Seq(SUBSET Daily!Line), known: Nat]]
    /\ ClosedOnce /\ PlansHold /\ LateAsOutage /\ WordsHold

LEMMA CutsAreChunks ==
    ASSUME NEW d \in Days
    PROVE  /\ Cut(d) \in Seq(SUBSET Daily!Line)
           /\ \A i \in 1..Len(Cut(d)) : \A l \in Cut(d)[i] :
                /\ l.message \in Dialogue(d) /\ l.eligible = Daily!Eligible(l.message)
           /\ \A m \in Dialogue(d) :
                /\ \E i \in 1..Len(Cut(d)) : \E l \in Cut(d)[i] : l.message = m
                /\ \A i, k \in 1..Len(Cut(d)) : \A l \in Cut(d)[i], o \in Cut(d)[k] :
                     l.message = m /\ o.message = m => i = k
  <1> DEFINE lines == Daily!Lines(d)
             cut == Cut(d)
             n == Len(cut)
  <1>1. lines \in Seq(Daily!Line) /\ Len(lines) \in Nat
    BY LinesAreTheDialogue
  <1>2. /\ \A j \in 1..Len(lines) :
             lines[j].message \in Dialogue(d) /\ lines[j].eligible = Daily!Eligible(lines[j].message)
        /\ \A m \in Dialogue(d) : \E j \in 1..Len(lines) : lines[j].message = m
        /\ \A i, j \in 1..Len(lines) : lines[i].message = lines[j].message => i = j
    BY LinesAreTheDialogue
  <1> HIDE DEF lines
  <1>3. /\ cut \in Seq(SUBSET Daily!Line) /\ n = (Len(lines) + Capacity - 1) \div Capacity
        /\ \A i \in 1..n : \A x :
             x \in cut[i] <=> \E j \in 1..Len(lines) : Between(i, j) /\ x = lines[j]
    BY <1>1, ChunksAreParts DEF Cut, lines
  <1> HIDE DEF cut
  <1>4. n \in Nat
    BY <1>3
  <1>5. /\ \A j \in 1..Len(lines) : \E i \in 1..n : Between(i, j)
        /\ \A j \in 1..Len(lines) : \A i, k \in Nat : Between(i, j) /\ Between(k, j) => i = k
    BY <1>1, <1>3, OneChunk
  <1> HIDE DEF n
  <1>6. \A i \in 1..n : \A l \in cut[i] :
          l.message \in Dialogue(d) /\ l.eligible = Daily!Eligible(l.message)
    BY <1>2, <1>3
  <1>7. ASSUME NEW m \in Dialogue(d)
        PROVE  /\ \E i \in 1..n : \E l \in cut[i] : l.message = m
               /\ \A i, k \in 1..n : \A l \in cut[i], o \in cut[k] :
                     l.message = m /\ o.message = m => i = k
    <2>1. PICK j \in 1..Len(lines) : lines[j].message = m
      BY <1>2
    <2>2. PICK i \in 1..n : Between(i, j)
      BY <1>5
    <2>3. lines[j] \in cut[i]
      BY <1>3, <2>2
    <2>4. ASSUME NEW h \in 1..n, NEW k \in 1..n, NEW l \in cut[h], NEW o \in cut[k],
                 l.message = m, o.message = m
          PROVE  h = k
      <3>1. PICK x \in 1..Len(lines) : Between(h, x) /\ l = lines[x]
        BY <1>3
      <3>2. PICK y \in 1..Len(lines) : Between(k, y) /\ o = lines[y]
        BY <1>3
      <3>3. x = y
        BY <1>2, <2>4, <3>1, <3>2
      <3>4. h \in Nat /\ k \in Nat
        BY <1>4
      <3>5. QED
        BY <1>5, <3>1, <3>2, <3>3, <3>4
    <2>5. QED
      BY <2>1, <2>3, <2>4
  <1>8. QED
    BY <1>3, <1>6, <1>7 DEF cut, n

LEMMA DailyBegins == Daily!Init => DailyInv
  <1> SUFFICES ASSUME Daily!Init
               PROVE  DailyInv
    OBVIOUS
  <1>1. /\ Days \in SUBSET Nat /\ 1 \in Days /\ MaxOutage \in Nat /\ \A d \in Days : d >= 1
        /\ today = 1
    BY MemoryAssumptions DEF Daily!DailyAssumption, Daily!Init
  <1>2. Daily!TypeOK
    <2>1. \A w \in Workers : plan[w].day \in Days \cup {0} /\ plan[w].known \in Nat
      BY DEF Daily!Init, Daily!NoPlan
    <2>2. \A d \in Days : \A i \in DOMAIN dSource[d] : dSource[d][i] \in Daily!SourceRow
      BY DEF Daily!Init
    <2>3. message \in [Messages -> {"none", "processing", "completed"}] /\ open \in BOOLEAN
      BY DEF Daily!Init
    <2>4. delegated \subseteq Messages /\ learnt \subseteq Messages /\ outage \in 0..MaxOutage
      BY <1>1 DEF Daily!Init
    <2>5. QED
      BY <1>1, <2>1, <2>2, <2>3, <2>4 DEF Daily!TypeOK
  <1>3. dSource \in [Days -> Seq(Daily!SourceRow)] /\ ClosedOnce
    BY DEF Daily!Init, ClosedOnce
  <1>4. plan \in [Workers -> [day: Days \cup {0}, chunks: Seq(SUBSET Daily!Line), known: Nat]]
        /\ PlansHold
    BY DEF Daily!Init, Daily!NoPlan, PlansHold
  <1>5. LateAsOutage
    BY <1>1 DEF LateAsOutage
  <1>6. WordsHold
    BY DEF Daily!Init, WordsHold
  <1>7. QED
    BY <1>2, <1>3, <1>4, <1>5, <1>6 DEF DailyInv

(* What is said on a day is over when the day is.                          *)
LEMMA PastStays ==
    ASSUME Daily!TypeOK, [Daily!Next]_(Daily!vars)
    PROVE  /\ \A m \in Messages : DayOf[m] # today =>
                message'[m] = message[m] /\ (m \in delegated' <=> m \in delegated)
           /\ today' \in Days /\ (today' = today \/ today' = today + 1)
           /\ today' = today \/ Daily!NewDay
  <1>1. CASE UNCHANGED <<message, delegated>>
    <2>1. today' = today \/ Daily!NewDay
      BY DEF Daily!Next, Daily!vars, Daily!Hour, Daily!Receive, Daily!Complete, Daily!PlanDay,
             Daily!Ingest, Daily!GiveUp, Daily!Learn, Daily!DeleteSource
    <2>2. QED
      BY <1>1, <2>1 DEF Daily!NewDay, Daily!TypeOK
  <1>2. ASSUME NEW m \in Messages, Daily!Receive(m) \/ Daily!Complete(m)
        PROVE  /\ today' = today
               /\ \A n \in Messages : DayOf[n] # today =>
                    message'[n] = message[n] /\ (n \in delegated' <=> n \in delegated)
    BY <1>2 DEF Daily!Receive, Daily!Complete, Daily!TypeOK
  <1>3. (\E m \in Messages : Daily!Receive(m) \/ Daily!Complete(m)) \/ UNCHANGED <<message, delegated>>
    BY DEF Daily!Next, Daily!vars, Daily!NewDay, Daily!Hour, Daily!PlanDay,
           Daily!Ingest, Daily!GiveUp, Daily!Learn, Daily!DeleteSource
  <1>4. QED
    BY <1>1, <1>2, <1>3 DEF Daily!TypeOK

LEMMA DialogueStays ==
    ASSUME Daily!TypeOK, [Daily!Next]_(Daily!vars), NEW d \in Days, d < today
    PROVE  Dialogue(d)' = Dialogue(d) /\ Cut(d)' = Cut(d)
  <1>1. /\ Messages \in SUBSET Nat /\ 0 \notin Messages /\ Days \in SUBSET Nat
        /\ DayOf \in [Messages -> Days]
    BY MemoryAssumptions DEF Daily!DailyAssumption
  <1>2. today \in Days /\ d # today
    BY <1>1 DEF Daily!TypeOK
  <1>3. \A m \in Messages : DayOf[m] = d =>
            message'[m] = message[m] /\ (m \in delegated' <=> m \in delegated)
    BY <1>2, PastStays
  <1>4. Daily!Human(d)' = Daily!Human(d)
    BY <1>3 DEF Daily!Human
  <1>5. \A m \in Messages : ReplyTo[m] \in Daily!Human(d) => DayOf[m] = d
    BY <1>1, DaysAssumption DEF Daily!Human
  <1>6. Daily!Replies(d)' = Daily!Replies(d)
    BY <1>3, <1>4, <1>5 DEF Daily!Replies
  <1>7. Dialogue(d)' = Dialogue(d)
    BY <1>4, <1>6 DEF Dialogue
  <1>8. \A m \in Dialogue(d) : m \in Messages /\ DayOf[m] = d
    BY <1>5 DEF Dialogue, Daily!Human, Daily!Replies
  <1> DEFINE q == Daily!InOrder(Dialogue(d))
  <1>9. \A i \in DOMAIN q : q[i] \in Dialogue(d)
    <2>1. Dialogue(d) \in SUBSET Messages
      BY <1>8
    <2>2. Ordered(q, Dialogue(d))
      BY <2>1, InOrderIsOrdered
    <2> HIDE DEF q
    <2>3. QED
      BY <2>2 DEF Ordered
  <1>10. q' = q
    BY <1>7
  <1>11. /\ Daily!Lines(d) = [i \in DOMAIN q |-> [message |-> q[i], eligible |-> Daily!Eligible(q[i])]]
         /\ Daily!Lines(d)' = [i \in DOMAIN q' |->
                [message |-> q'[i], eligible |-> ReplyTo[q'[i]] = 0 /\ q'[i] \notin delegated']]
    BY DEF Daily!Lines, Dialogue, Daily!Eligible
  <1>12. \A m \in Dialogue(d) : (ReplyTo[m] = 0 /\ m \notin delegated') = Daily!Eligible(m)
    BY <1>3, <1>8 DEF Daily!Eligible
  <1> HIDE DEF q
  <1>13. Daily!Lines(d)' = Daily!Lines(d)
    <2>1. \A i \in DOMAIN q :
            [message |-> q[i], eligible |-> ReplyTo[q[i]] = 0 /\ q[i] \notin delegated']
                = [message |-> q[i], eligible |-> Daily!Eligible(q[i])]
      BY <1>9, <1>12, Zenon
    <2>2. QED
      BY <1>10, <1>11, <2>1, Zenon
  <1>14. QED
    BY <1>7, <1>13 DEF Cut

(* The sources of the days: those of a closed day stay, and what is added  *)
(* is all of a day that was not closed.                                    *)
SourcesMove ==
    /\ dSource' \in [Days -> Seq(Daily!SourceRow)]
    /\ \A d \in Days :
        \/ /\ Len(dSource'[d]) = Len(dSource[d])
           /\ \A i \in 1..Len(dSource[d]) :
                /\ dSource'[d][i].lines = dSource[d][i].lines
                /\ dSource[d][i].status = "deleted" => dSource'[d][i].status = "deleted"
        \/ /\ dSource[d] = <<>> /\ d < today /\ today' = today
           /\ Len(dSource'[d]) = Len(Cut(d))
           /\ \A i \in 1..Len(Cut(d)) : dSource'[d][i].lines = Cut(d)[i]

LEMMA IngestMoves ==
    ASSUME DailyInv, NEW w \in Workers, Daily!Ingest(w)
    PROVE  SourcesMove
  <1> DEFINE e == plan[w].day
             n == Len(Cut(e))
             Row(lines) == [status |-> "stored", lines |-> lines]
             rows == [i \in 1..n |-> Row(Cut(e)[i])]
  <1>1. /\ e \in Days /\ e < today /\ plan[w].chunks = Cut(e) /\ plan[w].known = 0
        /\ dSource \in [Days -> Seq(Daily!SourceRow)]
    BY DEF Daily!Ingest, DailyInv, PlansHold
  <1>2. dSource[e] \in Seq(Daily!SourceRow) /\ Len(dSource[e]) = 0
    BY <1>1 DEF Daily!Ingest, Daily!Known
  <1>3. dSource[e] = <<>>
    BY <1>2
  <1>4. Cut(e) \in Seq(SUBSET Daily!Line) /\ n \in Nat
    BY <1>1, CutsAreChunks
  <1>5. rows \in Seq(Daily!SourceRow) /\ Len(rows) = n /\ \A i \in 1..n : rows[i].lines = Cut(e)[i]
    <2>1. \A i \in 1..n : Cut(e)[i] \in SUBSET Daily!Line
      BY <1>4
    <2>2. \A i \in 1..n : Row(Cut(e)[i]) \in Daily!SourceRow /\ Row(Cut(e)[i]).lines = Cut(e)[i]
      BY <2>1 DEF Daily!SourceRow
    <2> HIDE DEF Row, n
    <2>3. QED
      BY <1>4, <2>2
  <1>6. Daily!Stored(w) = rows
    <2>1. SubSeq(dSource[e], 1, 0) = <<>>
      BY <1>3
    <2>2. Daily!Stored(w) = SubSeq(dSource[e], 1, plan[w].known)
            \o [i \in 1..Len(plan[w].chunks) - plan[w].known |-> Row(plan[w].chunks[plan[w].known + i])]
      BY DEF Daily!Stored
    <2>3. n - 0 = n /\ \A i \in 1..n : 0 + i = i
      BY <1>4
    <2>4. Daily!Stored(w) = <<>> \o [i \in 1..(n - 0) |-> Row(Cut(e)[0 + i])]
      BY <1>1, <2>1, <2>2
    <2>5. [i \in 1..(n - 0) |-> Row(Cut(e)[0 + i])] = rows
      BY <2>3
    <2> HIDE DEF rows
    <2>6. QED
      BY <1>5, <2>4, <2>5
  <1>7. dSource' = [dSource EXCEPT ![e] = rows] /\ today' = today
    BY <1>6 DEF Daily!Ingest
  <1> HIDE DEF rows, n
  <1>8. dSource' \in [Days -> Seq(Daily!SourceRow)] /\ dSource'[e] = rows
        /\ \A d \in Days : d # e => dSource'[d] = dSource[d]
    BY <1>1, <1>5, <1>7
  <1>9. QED
    BY <1>1, <1>3, <1>5, <1>7, <1>8 DEF SourcesMove, n

LEMMA DeletionMoves ==
    ASSUME DailyInv, NEW d \in Days, NEW i \in 1..Cardinality(Messages), Daily!DeleteSource(d, i)
    PROVE  SourcesMove
  <1> DEFINE rows == dSource[d]
             gone == [rows EXCEPT ![i].status = "deleted"]
  <1>1. dSource \in [Days -> Seq(Daily!SourceRow)] /\ i \in DOMAIN rows
    BY DEF Daily!DeleteSource, DailyInv
  <1>2. rows \in Seq(Daily!SourceRow)
    BY <1>1
  <1>3. dSource' = [dSource EXCEPT ![d] = gone]
    BY DEF Daily!DeleteSource
  <1> HIDE DEF rows
  <1> DEFINE r == [rows[i] EXCEPT !.status = "deleted"]
  <1>4. r \in Daily!SourceRow /\ r.lines = rows[i].lines /\ r.status = "deleted"
    <2>1. rows[i] \in Daily!SourceRow
      BY <1>1, <1>2
    <2>2. QED
      BY <2>1 DEF Daily!SourceRow
  <1>5. gone = [rows EXCEPT ![i] = r]
    OBVIOUS
  <1> HIDE DEF gone, r
  <1>6. /\ gone \in Seq(Daily!SourceRow) /\ Len(gone) = Len(rows)
        /\ gone[i] = r /\ \A k \in 1..Len(rows) : k # i => gone[k] = rows[k]
    BY <1>1, <1>2, <1>4, <1>5
  <1>7. dSource' \in [Days -> Seq(Daily!SourceRow)] /\ dSource'[d] = gone
        /\ \A e \in Days : e # d => dSource'[e] = dSource[e]
    BY <1>1, <1>3, <1>6
  <1>8. \A k \in 1..Len(rows) : /\ gone[k].lines = rows[k].lines
                                /\ rows[k].status = "deleted" => gone[k].status = "deleted"
    BY <1>4, <1>6
  <1>9. QED
    BY <1>6, <1>7, <1>8 DEF SourcesMove, rows

LEMMA SourcesGoOn ==
    ASSUME DailyInv, [Daily!Next]_(Daily!vars)
    PROVE  SourcesMove
  <1>1. CASE dSource' = dSource
    BY <1>1 DEF DailyInv, SourcesMove
  <1>2. CASE \E w \in Workers : Daily!Ingest(w)
    BY <1>2, IngestMoves
  <1>3. CASE \E d \in Days, i \in 1..Cardinality(Messages) : Daily!DeleteSource(d, i)
    BY <1>3, DeletionMoves
  <1>4. QED
    <2>1. Daily!Cardinality(Messages) = Cardinality(Messages)
      BY DEF Daily!Cardinality, Cardinality
    <2>2. QED
      BY <1>1, <1>2, <1>3, <2>1
         DEF Daily!Next, Daily!vars, Daily!NewDay, Daily!Hour, Daily!Receive, Daily!Complete,
             Daily!PlanDay, Daily!GiveUp, Daily!Learn

LEMMA ClosedStaysClosed ==
    ASSUME DailyInv, [Daily!Next]_(Daily!vars)
    PROVE  ClosedOnce'
  <1>1. SUFFICES ASSUME NEW d \in Days, dSource'[d] # <<>>
                 PROVE  /\ d < today' /\ Len(dSource'[d]) = Len(Cut(d)')
                        /\ \A i \in 1..Len(dSource'[d]) : dSource'[d][i].lines = Cut(d)'[i]
    BY DEF ClosedOnce
  <1>2. Daily!TypeOK /\ ClosedOnce /\ SourcesMove /\ dSource \in [Days -> Seq(Daily!SourceRow)]
    BY SourcesGoOn DEF DailyInv
  <1>3. today \in Nat /\ today' \in Nat /\ today <= today' /\ d \in Nat
    BY <1>2, PastStays, MemoryAssumptions DEF Daily!DailyAssumption, Daily!TypeOK
  <1>4. /\ dSource[d] \in Seq(Daily!SourceRow) /\ dSource'[d] \in Seq(Daily!SourceRow)
        /\ Len(dSource'[d]) # 0
    <2>1. dSource'[d] \in Seq(Daily!SourceRow)
      BY <1>2 DEF SourcesMove
    <2>2. QED
      BY <1>1, <1>2, <2>1
  <1>5. CASE dSource[d] = <<>>
    <2>1. /\ d < today /\ Len(dSource'[d]) = Len(Cut(d))
          /\ \A i \in 1..Len(Cut(d)) : dSource'[d][i].lines = Cut(d)[i]
      BY <1>2, <1>4, <1>5 DEF SourcesMove
    <2>2. Cut(d)' = Cut(d)
      BY <1>2, <2>1, DialogueStays
    <2>3. QED
      BY <1>3, <2>1, <2>2
  <1>6. CASE dSource[d] # <<>>
    <2>1. /\ d < today /\ Len(dSource[d]) = Len(Cut(d))
          /\ \A i \in 1..Len(dSource[d]) : dSource[d][i].lines = Cut(d)[i]
      BY <1>2, <1>6 DEF ClosedOnce
    <2>2. Cut(d)' = Cut(d)
      BY <1>2, <2>1, DialogueStays
    <2>3. /\ Len(dSource'[d]) = Len(dSource[d])
          /\ \A i \in 1..Len(dSource[d]) : dSource'[d][i].lines = dSource[d][i].lines
      BY <1>2, <1>6 DEF SourcesMove
    <2>4. QED
      BY <1>3, <2>1, <2>2, <2>3
  <1>7. QED
    BY <1>5, <1>6

LEMMA PlansGoOn ==
    ASSUME DailyInv, [Daily!Next]_(Daily!vars)
    PROVE  /\ plan' \in [Workers -> [day: Days \cup {0}, chunks: Seq(SUBSET Daily!Line), known: Nat]]
           /\ PlansHold'
  <1> DEFINE Plans == [day: Days \cup {0}, chunks: Seq(SUBSET Daily!Line), known: Nat]
             Holds(p) == /\ p.day \in Days /\ p.day < today
                         /\ p.chunks = Cut(p.day) /\ p.known = 0
  <1>1. /\ Daily!TypeOK /\ ClosedOnce /\ plan \in [Workers -> Plans]
        /\ \A w \in Workers : plan[w] # Daily!NoPlan => Holds(plan[w])
        /\ dSource \in [Days -> Seq(Daily!SourceRow)]
    BY DEF DailyInv, PlansHold
  <1>2. Daily!NoPlan \in Plans
    BY DEF Daily!NoPlan
  <1>3. /\ today \in Nat /\ today' \in Nat /\ today <= today' /\ Days \in SUBSET Nat
    BY <1>1, PastStays, MemoryAssumptions DEF Daily!DailyAssumption, Daily!TypeOK
  <1>4. ASSUME NEW w \in Workers, Daily!PlanDay(w)
        PROVE  plan'[w] \in Plans /\ Holds(plan'[w])
               /\ plan' \in [Workers -> Plans] /\ \A v \in Workers : v # w => plan'[v] = plan[v]
    <2> DEFINE due == {d \in Daily!Window \cap Days : Daily!ToClose(d)}
               d == Daily!Min(due)
               p == [day |-> d, known |-> Daily!Known(d), chunks |-> Daily!Chunks(Daily!Lines(d))]
    <2>1. due # {} /\ due \in SUBSET Nat
      BY <1>3, <1>4 DEF Daily!PlanDay
    <2>2. d \in due
      <3> HIDE DEF due
      <3>1. \E x \in due : \A y \in due : x <= y
        BY <2>1, SmallestNumber
      <3>2. QED
        BY <3>1 DEF Daily!Min
    <2>3. plan' = [plan EXCEPT ![w] = p]
      BY <1>4 DEF Daily!PlanDay
    <2>4. d \in Days /\ d < today /\ Daily!ToClose(d)
      BY <1>3, <2>2, MemoryAssumptions DEF Daily!Window, Daily!DailyAssumption
    <2> HIDE DEF d
    <2>5. Cut(d) \in Seq(SUBSET Daily!Line) /\ Len(Cut(d)) > Len(dSource[d])
      BY <2>4, CutsAreChunks DEF Daily!ToClose, Daily!Known, Cut
    <2>6. dSource[d] \in Seq(Daily!SourceRow)
      BY <1>1, <2>4
    <2>7. dSource[d] = <<>>
      BY <1>1, <2>4, <2>5, <2>6 DEF ClosedOnce
    <2>8. p \in Plans /\ Holds(p)
      <3>1. Daily!Known(d) = 0
        BY <2>7 DEF Daily!Known
      <3>2. QED
        BY <2>4, <2>5, <3>1 DEF Cut
    <2> HIDE DEF p, Holds, Plans
    <2>9. QED
      BY <1>1, <2>3, <2>8
  <1>5. ASSUME NEW w \in Workers, plan' = [plan EXCEPT ![w] = Daily!NoPlan]
        PROVE  plan' \in [Workers -> Plans] /\ plan'[w] = Daily!NoPlan
               /\ \A v \in Workers : v # w => plan'[v] = plan[v]
    <2> HIDE DEF Plans
    <2>1. QED
      BY <1>1, <1>2, <1>5
  <1>6. /\ plan' \in [Workers -> Plans]
        /\ \A w \in Workers : plan'[w] # Daily!NoPlan => Holds(plan'[w])
    <2>1. CASE plan' = plan
      BY <1>1, <2>1
    <2>2. CASE \E w \in Workers : Daily!PlanDay(w)
      <3> HIDE DEF Plans, Holds
      <3>1. QED
        BY <1>1, <1>4, <2>2
    <2>3. CASE \E w \in Workers : plan' = [plan EXCEPT ![w] = Daily!NoPlan]
      <3> HIDE DEF Plans, Holds
      <3>1. QED
        BY <1>1, <1>5, <2>3
    <2>4. QED
      <3> HIDE DEF Plans, Holds
      <3>1. QED
        BY <2>1, <2>2, <2>3
           DEF Daily!Next, Daily!vars, Daily!NewDay, Daily!Hour, Daily!Receive, Daily!Complete,
               Daily!GiveUp, Daily!Ingest, Daily!Learn, Daily!DeleteSource
  <1>7. \A d \in Days : d < today => d < today' /\ Cut(d)' = Cut(d)
    <2>1. \A d \in Days : d < today => Cut(d)' = Cut(d)
      BY <1>1, DialogueStays
    <2>2. QED
      BY <1>3, <2>1
  <1>8. PlansHold'
    <2>1. SUFFICES ASSUME NEW w \in Workers, plan'[w] # Daily!NoPlan
                   PROVE  \E d \in Days : /\ plan'[w].day = d /\ d < today'
                                          /\ plan'[w].chunks = Cut(d)' /\ plan'[w].known = 0
      BY DEF PlansHold, Daily!NoPlan
    <2>2. Holds(plan'[w])
      BY <1>6, <2>1
    <2>3. QED
      BY <1>7, <2>2
  <1>9. QED
    BY <1>6, <1>8

LEMMA LatenessGoesOn ==
    ASSUME DailyInv, [Daily!Next]_(Daily!vars)
    PROVE  LateAsOutage' /\ outage' \in 0..MaxOutage
  <1>1. /\ Daily!TypeOK /\ LateAsOutage /\ SourcesMove /\ dSource \in [Days -> Seq(Daily!SourceRow)]
    BY SourcesGoOn DEF DailyInv
  <1>2. /\ today \in Nat /\ today \in Days /\ outage \in 0..MaxOutage /\ Days \in SUBSET Nat
        /\ Lookback \in Nat /\ MaxOutage \in Nat /\ MaxOutage < Lookback
    BY <1>1, MemoryAssumptions, DaysAssumption DEF Daily!DailyAssumption, Daily!TypeOK
  <1>3. ASSUME NEW d \in Days, d < today, Daily!ToClose(d)'
        PROVE  Daily!ToClose(d)
    <2>1. Cut(d)' = Cut(d) /\ Cut(d) \in Seq(SUBSET Daily!Line)
      BY <1>1, <1>3, DialogueStays, CutsAreChunks
    <2>2. dSource[d] \in Seq(Daily!SourceRow) /\ dSource'[d] \in Seq(Daily!SourceRow)
      BY <1>1 DEF SourcesMove
    <2>3. Len(dSource[d]) <= Len(dSource'[d])
      BY <1>1, <2>2 DEF SourcesMove
    <2>4. Len(Cut(d)') > Len(dSource'[d])
      BY <1>3 DEF Daily!ToClose, Daily!Known, Cut
    <2>5. Len(Cut(d)) > Len(dSource[d])
      BY <2>1, <2>2, <2>3, <2>4
    <2>6. QED
      BY <2>5 DEF Daily!ToClose, Daily!Known, Cut
  <1>4. CASE today' = today /\ outage' = outage
    BY <1>1, <1>2, <1>3, <1>4 DEF LateAsOutage
  <1>5. CASE Daily!NewDay
    <2>1. /\ today' = today + 1 /\ outage' = (IF Daily!Behind THEN outage + 1 ELSE 0)
          /\ Daily!Behind => outage < MaxOutage
      BY <1>5 DEF Daily!NewDay
    <2>2. ASSUME NEW d \in Days, d < today + 1, Daily!ToClose(d)'
          PROVE  outage' >= today + 1 - d - 1
      <3>1. CASE d = today
        BY <1>2, <2>1, <3>1
      <3>2. CASE d # today
        <4>1. d < today /\ d \in Nat
          BY <1>2, <2>2, <3>2
        <4>2. Daily!ToClose(d) /\ outage >= today - d - 1
          BY <1>1, <1>3, <2>2, <4>1 DEF LateAsOutage
        <4>3. d \in Daily!Window
          BY <1>2, <4>1, <4>2 DEF Daily!Window
        <4>4. Daily!Behind
          BY <4>2, <4>3 DEF Daily!Behind
        <4>5. QED
          BY <1>2, <2>1, <4>1, <4>2, <4>4
      <3>3. QED
        BY <3>1, <3>2
    <2>3. LateAsOutage'
      <3>1. \A d \in Days : d < today' /\ Daily!ToClose(d)' => outage' >= today' - d - 1
        <4>1. today' = today + 1
          BY <2>1
        <4>2. TAKE d \in Days
        <4>3. HAVE d < today' /\ Daily!ToClose(d)'
        <4>4. outage' >= today + 1 - d - 1
          BY <2>2, <4>1, <4>3
        <4>5. QED
          BY <1>2, <4>1, <4>4
      <3>2. QED
        BY <3>1 DEF LateAsOutage
    <2>4. QED
      BY <1>2, <2>1, <2>3
  <1>6. QED
    BY <1>4, <1>5
       DEF Daily!Next, Daily!vars, Daily!Hour, Daily!Receive, Daily!Complete, Daily!PlanDay,
           Daily!Ingest, Daily!GiveUp, Daily!Learn, Daily!DeleteSource

LEMMA WordsGoOn ==
    ASSUME DailyInv, [Daily!Next]_(Daily!vars)
    PROVE  WordsHold' /\ learnt' \subseteq Messages
  <1>1. /\ Daily!TypeOK /\ WordsHold /\ ClosedOnce /\ dSource \in [Days -> Seq(Daily!SourceRow)]
        /\ learnt \subseteq Messages
    BY DEF DailyInv, Daily!TypeOK
  <1>2. CASE UNCHANGED <<message, delegated>> /\ learnt' \subseteq learnt
    BY <1>1, <1>2 DEF WordsHold
  <1>3. ASSUME NEW m \in Messages, Daily!Receive(m) \/ Daily!Complete(m)
        PROVE  WordsHold' /\ learnt' \subseteq Messages
    <2>1. /\ learnt' = learnt /\ message[m] # "completed"
          /\ \A n \in Messages : n # m =>
                message'[n] = message[n] /\ (n \in delegated' <=> n \in delegated)
      BY <1>1, <1>3 DEF Daily!Receive, Daily!Complete, Daily!TypeOK
    <2>2. QED
      BY <1>1, <2>1 DEF WordsHold
  <1>4. ASSUME NEW d \in Days, NEW i \in 1..Cardinality(Messages), Daily!Learn(d, i)
        PROVE  WordsHold' /\ learnt' \subseteq Messages
    <2>1. PICK cited \in SUBSET Messages :
            learnt' = learnt \cup Daily!FilterExtraction(dSource[d][i].lines, cited)
      BY <1>4 DEF Daily!Learn
    <2>2. dSource[d] \in Seq(Daily!SourceRow) /\ i \in 1..Len(dSource[d])
      BY <1>1, <1>4 DEF Daily!Learn
    <2>3. dSource[d][i].lines = Cut(d)[i] /\ i \in 1..Len(Cut(d))
      BY <1>1, <2>2 DEF ClosedOnce
    <2>4. \A l \in Cut(d)[i] : /\ l.message \in Dialogue(d)
                               /\ l.eligible = Daily!Eligible(l.message)
      BY <2>3, CutsAreChunks
    <2>5. ASSUME NEW m \in Daily!FilterExtraction(dSource[d][i].lines, cited)
          PROVE  /\ m \in Messages /\ ReplyTo[m] = 0 /\ m \notin delegated
                 /\ message[m] = "completed"
      <3>1. PICK l \in Cut(d)[i] : l.eligible /\ m = l.message
        BY <2>3, <2>5 DEF Daily!FilterExtraction
      <3>2. m \in Dialogue(d) /\ Daily!Eligible(m)
        BY <2>4, <3>1, Zenon
      <3>3. QED
        BY <3>2 DEF Dialogue, Daily!Human, Daily!Replies, Daily!Eligible
    <2>6. UNCHANGED <<message, delegated>>
      BY <1>4 DEF Daily!Learn
    <2>7. QED
      BY <1>1, <2>1, <2>5, <2>6 DEF WordsHold
  <1>5. QED
    <2>1. Daily!Cardinality(Messages) = Cardinality(Messages)
      BY DEF Daily!Cardinality, Cardinality
    <2>2. QED
      BY <1>2, <1>3, <1>4, <2>1
         DEF Daily!Next, Daily!vars, Daily!NewDay, Daily!Hour, Daily!PlanDay, Daily!Ingest,
             Daily!GiveUp, Daily!DeleteSource

LEMMA DaysGoOn ==
    DailyInv /\ [Daily!Next]_(Daily!vars) => DailyInv'
  <1> SUFFICES ASSUME DailyInv, [Daily!Next]_(Daily!vars)
               PROVE  DailyInv'
    OBVIOUS
  <1>1. Daily!TypeOK /\ SourcesMove
    BY SourcesGoOn DEF DailyInv
  <1>2. /\ message' \in [Messages -> {"none", "processing", "completed"}]
        /\ delegated' \subseteq Messages
    BY <1>1 DEF Daily!TypeOK, Daily!Next, Daily!vars, Daily!NewDay, Daily!Hour, Daily!Receive,
                Daily!Complete, Daily!PlanDay, Daily!Ingest, Daily!GiveUp, Daily!Learn,
                Daily!DeleteSource
  <1>3. today' \in Days /\ open' \in BOOLEAN
    <2>1. open' \in BOOLEAN
      BY <1>1 DEF Daily!TypeOK, Daily!Next, Daily!vars, Daily!NewDay, Daily!Hour, Daily!Receive,
                  Daily!Complete, Daily!PlanDay, Daily!Ingest, Daily!GiveUp, Daily!Learn,
                  Daily!DeleteSource
    <2>2. QED
      BY <1>1, <2>1, PastStays
  <1>4. \A d \in Days : \A i \in DOMAIN dSource'[d] : dSource'[d][i] \in Daily!SourceRow
    BY <1>1 DEF SourcesMove
  <1>5. /\ plan' \in [Workers -> [day: Days \cup {0}, chunks: Seq(SUBSET Daily!Line), known: Nat]]
        /\ PlansHold'
    BY PlansGoOn
  <1>6. \A w \in Workers : plan'[w].day \in Days \cup {0} /\ plan'[w].known \in Nat
    BY <1>5
  <1>7. Daily!TypeOK'
    BY <1>2, <1>3, <1>4, <1>6, LatenessGoesOn, WordsGoOn DEF Daily!TypeOK
  <1>8. QED
    BY <1>1, <1>5, <1>7, ClosedStaysClosed, LatenessGoesOn, WordsGoOn DEF DailyInv, SourcesMove

LEMMA ClosedDaysAreWhole ==
    ASSUME DailyInv
    PROVE  Daily!WholeDialogue /\ Daily!NoDayLost /\ Daily!OnlyOwnWords
  <1>1. /\ Daily!TypeOK /\ ClosedOnce /\ LateAsOutage /\ WordsHold
        /\ dSource \in [Days -> Seq(Daily!SourceRow)]
    BY DEF DailyInv
  <1>2. ASSUME NEW d \in Days, dSource[d] # <<>>, NEW m \in Dialogue(d)
        PROVE  \E i : Daily!ChunksWith(d, m) = {i}
    <2>1. /\ dSource[d] \in Seq(Daily!SourceRow) /\ Len(dSource[d]) = Len(Cut(d))
          /\ \A i \in 1..Len(dSource[d]) : dSource[d][i].lines = Cut(d)[i]
      BY <1>1, <1>2 DEF ClosedOnce
    <2>2. DOMAIN dSource[d] = 1..Len(Cut(d))
      BY <2>1
    <2>3. Daily!ChunksWith(d, m) = {i \in 1..Len(Cut(d)) : \E l \in Cut(d)[i] : l.message = m}
      BY <2>1, <2>2 DEF Daily!ChunksWith
    <2>4. PICK i \in 1..Len(Cut(d)) : \E l \in Cut(d)[i] : l.message = m
      BY CutsAreChunks
    <2>5. \A k \in 1..Len(Cut(d)) : (\E l \in Cut(d)[k] : l.message = m) => k = i
      BY <2>4, CutsAreChunks
    <2>6. QED
      BY <2>3, <2>4, <2>5
  <1>3. Daily!WholeDialogue
    <2>1. ASSUME NEW d \in Days, dSource[d] # <<>>,
                 NEW m \in Daily!Human(d) \cup Daily!Replies(d)
          PROVE  Daily!Cardinality(Daily!ChunksWith(d, m)) = 1
      <3>1. PICK i : Daily!ChunksWith(d, m) = {i}
        BY <1>2, <2>1 DEF Dialogue
      <3>2. Cardinality(Daily!ChunksWith(d, m)) = 1
        BY <3>1, FS_Singleton
      <3>3. QED
        BY <3>2 DEF Daily!Cardinality, Cardinality
    <2>2. QED
      BY <2>1 DEF Daily!WholeDialogue
  <1>4. Daily!NoDayLost
    <2>1. SUFFICES ASSUME NEW d \in Days, d < today - Lookback, NEW m \in Daily!Human(d)
                   PROVE  Daily!ChunksWith(d, m) # {}
      BY DEF Daily!NoDayLost
    <2>2. /\ d \in Nat /\ today \in Nat /\ outage \in Nat /\ Lookback \in Nat /\ MaxOutage \in Nat
          /\ outage <= MaxOutage /\ MaxOutage < Lookback
      BY <1>1, MemoryAssumptions, DaysAssumption DEF Daily!DailyAssumption, Daily!TypeOK
    <2>3. ~Daily!ToClose(d)
      BY <1>1, <2>1, <2>2 DEF LateAsOutage
    <2>4. m \in Dialogue(d)
      BY <2>1 DEF Dialogue
    <2>5. Len(Cut(d)) # 0 /\ Cut(d) \in Seq(SUBSET Daily!Line)
      <3>1. PICK i \in 1..Len(Cut(d)) : TRUE
        BY <2>4, CutsAreChunks
      <3>2. Cut(d) \in Seq(SUBSET Daily!Line)
        BY CutsAreChunks
      <3>3. QED
        BY <3>1, <3>2
    <2>6. dSource[d] # <<>>
      <3>1. dSource[d] \in Seq(Daily!SourceRow)
        BY <1>1
      <3>2. Len(Cut(d)) <= Len(dSource[d])
        BY <2>3, <2>5, <3>1 DEF Daily!ToClose, Daily!Known, Cut
      <3>3. QED
        BY <2>5, <3>2
    <2>7. QED
      BY <1>2, <2>4, <2>6
  <1>5. QED
    BY <1>1, <1>3, <1>4 DEF Daily!OnlyOwnWords, WordsHold

LEMMA DeletedDayStays ==
    ASSUME DailyInv, [Daily!Next]_(Daily!vars)
    PROVE  \A d \in Days, m \in Messages :
            (Daily!ChunksWith(d, m) # {}
                /\ \A i \in Daily!ChunksWith(d, m) : dSource[d][i].status = "deleted")
            => \A i \in Daily!ChunksWith(d, m)' : dSource'[d][i].status = "deleted"
  <1>1. SourcesMove /\ dSource \in [Days -> Seq(Daily!SourceRow)]
    BY SourcesGoOn DEF DailyInv
  <1>2. SUFFICES ASSUME NEW d \in Days, NEW m \in Messages, Daily!ChunksWith(d, m) # {},
                        \A i \in Daily!ChunksWith(d, m) : dSource[d][i].status = "deleted"
                 PROVE  \A i \in Daily!ChunksWith(d, m)' : dSource'[d][i].status = "deleted"
    OBVIOUS
  <1>3. dSource[d] \in Seq(Daily!SourceRow) /\ dSource'[d] \in Seq(Daily!SourceRow)
    BY <1>1 DEF SourcesMove
  <1>4. dSource[d] # <<>>
    BY <1>2 DEF Daily!ChunksWith
  <1>5. /\ Len(dSource'[d]) = Len(dSource[d])
        /\ \A i \in 1..Len(dSource[d]) :
                /\ dSource'[d][i].lines = dSource[d][i].lines
                /\ dSource[d][i].status = "deleted" => dSource'[d][i].status = "deleted"
    BY <1>1, <1>4 DEF SourcesMove
  <1>6. DOMAIN dSource[d] = 1..Len(dSource[d]) /\ DOMAIN dSource'[d] = 1..Len(dSource[d])
    BY <1>3, <1>5
  <1>7. Daily!ChunksWith(d, m)' = Daily!ChunksWith(d, m)
    BY <1>5, <1>6 DEF Daily!ChunksWith
  <1>8. QED
    BY <1>2, <1>5, <1>6, <1>7 DEF Daily!ChunksWith

-----------------------------------------------------------------------------
(* The memory.  Every part keeps what it keeps, in the part that runs and  *)
(* in those that stay as they begin.                                       *)

MemoryInv ==
    /\ part \in Parts
    /\ LedgerInv /\ (part = "facts" => OneOf(fact))
    /\ PromisesInv /\ Entities!TypeOK /\ PagesInv /\ AnswersInv /\ DailyInv

LEMMA MemoryBegins == Init => MemoryInv
  <1> SUFFICES ASSUME Init
               PROVE  MemoryInv
    OBVIOUS
  <1>1. part \in Parts
    BY DEF Init
  <1>2. LedgerInv /\ OneOf(fact)
    <2>1. AnyLedger!Init
      BY LedgersAlike DEF Init
    <2>2. \A f \in AnyLedger!FactIds : fact[f].status = "none"
      BY <2>1 DEF AnyLedger!Init, AnyLedger!NoRow
    <2>3. QED
      BY <2>1, <2>2, LedgerBegins DEF OneOf
  <1>3. PromisesInv
    <2>1. Promises!Init
      BY DEF Init
    <2>2. [status |-> "none", reworded |-> FALSE] \in Promises!CommitmentRow
      BY DEF Promises!CommitmentRow
    <2>3. \A c \in Agreements : Promises!Status(c) = "none"
      BY <2>1 DEF Promises!Init, Promises!Status
    <2>4. QED
      BY <2>1, <2>2, <2>3
         DEF PromisesInv, Promises!Init, Promises!TypeOK, Promises!CommitmentBacked, Promises!Kept
  <1>4. Entities!TypeOK
    <2>1. [status |-> "none", aliases |-> {}] \in Entities!EntityRow
      BY DEF Entities!EntityRow
    <2>2. QED
      BY <2>1 DEF Init, Entities!Init, Entities!TypeOK
  <1>5. PagesInv
    BY PagesBegin DEF Init
  <1>6. AnswersInv
    <2>1. Answers!Init
      BY DEF Init
    <2>2. [phase |-> "asking", facts |-> {}, shown |-> {}, cited |-> {}, gone |-> {}]
            \in Answers!Question
      BY DEF Answers!Question
    <2>3. QED
      BY <2>1, <2>2 DEF AnswersInv, Answers!Init, Answers!TypeOK
  <1>7. DailyInv
    BY DailyBegins DEF Init
  <1>8. QED
    BY <1>1, <1>2, <1>3, <1>4, <1>5, <1>6, <1>7 DEF MemoryInv

(* A step of the whole is one of each part, or leaves it as it is.         *)
LEMMA PartsStep ==
    ASSUME [Next]_vars
    PROVE  /\ part' = part
           /\ [AnyLedger!Next]_(AnyLedger!vars)
           /\ part = "facts" => [Ledger!Next]_(Ledger!vars)
           /\ [Promises!Next]_(Promises!vars)
           /\ [Entities!Next]_(Entities!vars)
           /\ [Pages!Next]_(Pages!vars)
           /\ [Answers!Next]_(Answers!vars)
           /\ [Daily!Next]_(Daily!vars)
  <1>1. part' = part
    BY DEF Next, vars, Facts, Commitments, People, Searching, Asking, Closing
  <1>2. [AnyLedger!Next]_(AnyLedger!vars) /\ (part = "facts" => [Ledger!Next]_(Ledger!vars))
    BY LedgersAlike DEF Next, vars, Facts, Commitments, People, Searching, Asking, Closing,
           ledgerVars, AnyLedger!vars, Ledger!vars
  <1>3. [Promises!Next]_(Promises!vars)
    BY DEF Next, vars, Facts, Commitments, People, Searching, Asking, Closing,
           promisesVars, Promises!vars
  <1>4. [Entities!Next]_(Entities!vars)
    BY DEF Next, vars, Facts, Commitments, People, Searching, Asking, Closing,
           entitiesVars, Entities!vars
  <1>5. [Pages!Next]_(Pages!vars)
    BY DEF Next, vars, Facts, Commitments, People, Searching, Asking, Closing,
           pagesVars, Pages!vars
  <1>6. [Answers!Next]_(Answers!vars)
    BY DEF Next, vars, Facts, Commitments, People, Searching, Asking, Closing,
           answersVars, Answers!vars
  <1>7. [Daily!Next]_(Daily!vars)
    BY DEF Next, vars, Facts, Commitments, People, Searching, Asking, Closing,
           dailyVars, Daily!vars
  <1>8. QED
    BY <1>1, <1>2, <1>3, <1>4, <1>5, <1>6, <1>7

LEMMA MemoryGoesOn == MemoryInv /\ [Next]_vars => MemoryInv'
  <1> SUFFICES ASSUME MemoryInv, [Next]_vars
               PROVE  MemoryInv'
    OBVIOUS
  <1>1. /\ part \in Parts /\ LedgerInv /\ (part = "facts" => OneOf(fact))
        /\ PromisesInv /\ Entities!TypeOK /\ PagesInv /\ AnswersInv /\ DailyInv
    BY DEF MemoryInv
  <1>2. part' \in Parts
    BY <1>1, PartsStep
  <1>3. LedgerInv'
    BY <1>1, PartsStep, LedgerGoesOn
  <1>4. part' = "facts" => OneOf(fact)'
    <2>1. ASSUME part = "facts"
          PROVE  OneOf(fact')
      BY <1>1, <2>1, PartsStep, OneStaysOne
    <2>2. OneOf(fact') => OneOf(fact)'
      BY DEF OneOf
    <2>3. QED
      BY <2>1, <2>2, PartsStep
  <1>5. PromisesInv' /\ Entities!TypeOK'
    BY <1>1, PartsStep, PromisesGoOn, EntitiesGoOn
  <1>6. PagesInv' /\ AnswersInv' /\ DailyInv'
    BY <1>1, PartsStep, PagesGoOn, AnswersGoOn, DaysGoOn
  <1>7. QED
    BY <1>2, <1>3, <1>4, <1>5, <1>6 DEF MemoryInv

LEMMA MemoryHolds == Spec => []MemoryInv
  <1>1. QED
    BY MemoryBegins, MemoryGoesOn, PTL DEF Spec

-----------------------------------------------------------------------------
(* The theorems.                                                           *)

(* The rows of facts, commitments, entities, searches, questions and days  *)
(* that memory/service.py, memory/mutations.py, retrieval/service.py and   *)
(* memory/daily_conversations.py write have the values they are given.     *)
THEOREM MemoryTypes == Spec => []TypeOK
  <1>1. MemoryInv => TypeOK
    <2> SUFFICES ASSUME MemoryInv
                 PROVE  TypeOK
      OBVIOUS
    <2>1. Ledger!TypeOK
      BY LedgersAlike DEF MemoryInv, LedgerInv
    <2>2. Promises!TypeOK /\ Entities!TypeOK /\ Pages!TypeOK /\ Answers!TypeOK /\ Daily!TypeOK
      BY DEF MemoryInv, PromisesInv, PagesInv, AnswersInv, DailyInv
    <2>3. part \in Parts
      BY DEF MemoryInv
    <2>4. QED
      BY <2>1, <2>2, <2>3 DEF TypeOK, Parts
  <1>2. QED
    BY <1>1, MemoryHolds, PTL

(* Whatever the order of sources, corrections and deletions, one fact of a *)
(* predicate is current at most: consolidate_extraction supersedes what it *)
(* replaces, and delete_source restores only when nothing else is current. *)
THEOREM OneAnswer == Spec => []OneCurrent
  <1>1. MemoryInv => OneCurrent
    <2> SUFFICES ASSUME MemoryInv, part = "facts", NEW p \in {"works_at"}
                 PROVE  Ledger!Cardinality(Ledger!Current(fact, p)) <= 1
      BY DEF OneCurrent, Ledger!OneCurrent
    <2> DEFINE C == Ledger!Current(fact, p)
    <2>1. \A f, g \in C : f = g
      BY LedgersAlike DEF MemoryInv, OneOf, Ledger!Current
    <2> HIDE DEF C
    <2>2. C = {} \/ \E f : C = {f}
      BY <2>1
    <2>3. IsFiniteSet(C) /\ (Cardinality(C) = 0 \/ Cardinality(C) = 1)
      <3>1. CASE C = {}
        <4>1. IsFiniteSet({}) /\ Cardinality({}) = 0
          BY FS_EmptySet
        <4>2. QED
          BY <3>1, <4>1
      <3>2. ASSUME NEW f, C = {f}
            PROVE  IsFiniteSet(C) /\ Cardinality(C) = 1
        BY <3>2, FS_Singleton
      <3>3. QED
        BY <2>2, <3>1, <3>2
    <2>4. Ledger!Cardinality(C) = Cardinality(C)
      BY DEF Ledger!Cardinality, Cardinality
    <2>5. QED
      BY <2>3, <2>4 DEF C
  <1>2. QED
    BY <1>1, MemoryHolds, PTL

(* A fact that is not deleted and that its user did not write, and a       *)
(* commitment that is kept, are backed by a source that is still there:    *)
(* delete_source goes through all that a source had backed.                *)
THEOREM StaysBacked == Spec => []EverythingIsBacked
  <1>1. MemoryInv => EverythingIsBacked
    BY LedgersAlike DEF MemoryInv, LedgerInv, PromisesInv, EverythingIsBacked
  <1>2. QED
    BY <1>1, MemoryHolds, PTL

(* The pages of a search are one list: the cursor of search_memory goes    *)
(* down over rows of every kind, however full each kind's page was.        *)
THEOREM OneList == Spec => []PagesAreOneList
  <1>1. PagesInv => Pages!PagesAreOneList
    BY DEF PagesInv, Pages!PagesAreOneList, Pages!TypeOK, Pages!Search
  <1>2. MemoryInv => PagesAreOneList
    BY <1>1 DEF MemoryInv, PagesAreOneList
  <1>3. QED
    BY <1>2, MemoryHolds, PTL

(* Answers cite evidence of what was selected and there, and what is       *)
(* learnt from a day is what its user said: the filters of the answer and  *)
(* of filter_daily_conversation_extraction, whatever the model cites.      *)
THEOREM StaysGrounded == Spec => []Grounded
  <1>1. AnswersInv => Answers!Grounded
    BY DEF AnswersInv, Answers!Grounded
  <1>2. MemoryInv => Grounded
    BY <1>1, ClosedDaysAreWhole DEF MemoryInv, Grounded
  <1>3. QED
    BY <1>2, MemoryHolds, PTL

(* A closed day has every message of its dialogue in one chunk, and none   *)
(* is lost to an outage shorter than the window: what is planned by two    *)
(* workers is ingested once, and a day is as late as the outage is long.   *)
THEOREM DaysAreKept == Spec => []EveryDayKept
  <1>1. MemoryInv => EveryDayKept
    BY ClosedDaysAreWhole DEF MemoryInv, EveryDayKept
  <1>2. QED
    BY <1>1, MemoryHolds, PTL

(* What was deleted, or settled by its user, stays so: facts, commitments, *)
(* the rows of a search and days, and a candidate below the threshold      *)
(* replaces nothing.                                                       *)
THEOREM UserIsNotOverruled == Spec => NotOverruled
  <1> DEFINE Deleted == \A f \in Ledger!FactIds :
                            fact[f].status = "deleted" => fact'[f].status = "deleted"
             Proposed == \A s \in Sources :
                            lSource'[s] = "processed" /\ lSource[s] = "processing"
                                /\ ~reading[s].confident =>
                            \A p \in {"works_at"} : Ledger!Current(fact', p) = Ledger!Current(fact, p)
             Settled == \A c \in Agreements : Promises!Status(c) \in {"cancelled", "deleted"} =>
                            commitment'[c].status \in {"cancelled", "deleted"}
             Found == \A r \in Rows : row[r] = "deleted" /\ r \in search'.seen => r \in search.seen
             Kept == \A d \in Days, m \in Messages :
                        (Daily!ChunksWith(d, m) # {}
                            /\ \A i \in Daily!ChunksWith(d, m) : dSource[d][i].status = "deleted")
                        => \A i \in Daily!ChunksWith(d, m)' : dSource'[d][i].status = "deleted"
  <1>1. MemoryInv /\ [Next]_vars => [Deleted /\ Proposed]_(Ledger!vars)
    <2> SUFFICES ASSUME MemoryInv, [Next]_vars, Ledger!vars' # Ledger!vars
                 PROVE  Deleted /\ Proposed
      OBVIOUS
    <2>1. LedgerInv /\ AnyLedger!Next
      BY PartsStep, LedgersAlike DEF MemoryInv, AnyLedger!vars, Ledger!vars
    <2>2. Deleted
      BY <2>1, DeletedFactsStay, LedgersAlike
    <2>3. \A rows, p : Ledger!Current(rows, p) = AnyLedger!Current(rows, p)
      BY LedgersAlike DEF Ledger!Current, AnyLedger!Current
    <2>4. Proposed
      BY <2>1, <2>3, UncertainIsProposed
    <2>5. QED
      BY <2>2, <2>4
  <1>2. MemoryInv /\ [Next]_vars => [Settled]_(Promises!vars)
    BY PartsStep, LastWordKept DEF MemoryInv, PromisesInv
  <1>3. MemoryInv /\ [Next]_vars => [Found]_(Pages!vars)
    BY PartsStep, PagesGoOn DEF MemoryInv
  <1>4. MemoryInv /\ [Next]_vars => [Kept]_(Daily!vars)
    BY PartsStep, DeletedDayStays DEF MemoryInv
  <1>5. QED
    BY <1>1, <1>2, <1>3, <1>4, MemoryHolds, PTL
       DEF Spec, NotOverruled, Ledger!DeletedIsFinal, Ledger!ProposedChangesNothing,
           Promises!UserHasLastWord, Pages!DeletedNotFound, Daily!DeletedStaysDeleted

(* A deletion, of a source or of an entity, hides no entity that another   *)
(* source still mentions or that some fact is about.                       *)
THEOREM BackedIsNotHidden == Spec => OnlyUnbackedHidden
  <1> DEFINE Seen == \A n \in Names :
                        entity[n].status = "active" /\ entity'[n].status = "deleted" =>
                            ~\E p \in eEvidence' \cup facts' : p[1] = n
  <1>1. MemoryInv /\ [Next]_vars => [Seen]_(Entities!vars)
    BY PartsStep, BackedStaysVisible DEF MemoryInv
  <1>2. QED
    BY <1>1, MemoryHolds, PTL DEF Spec, OnlyUnbackedHidden, Entities!OnlyUnbackedHidden
=============================================================================
