------------------------ MODULE GraphQueriesProofs -------------------------
(***************************************************************************)
(* Theorems about GraphQueries, for any files, documents and queries: what *)
(* is stored agrees, the two lookups of a symbol agree, and no answer is   *)
(* cut short without a word.  Lemmas about the operators of RelationQueries*)
(* come first: positions taken in order, enumerations of finite sets,      *)
(* selections and cuts of a list.                                          *)
(***************************************************************************)
EXTENDS GraphQueries, FiniteSetTheorems, SequenceTheorems, TLAPS

-----------------------------------------------------------------------------
(* Numbers and counting *)

\* A set of numbers that is not empty has a least one.
LEMMA LeastNumber ==
  ASSUME NEW T \in SUBSET Nat, T # {}
  PROVE  \E m \in T : \A n \in T : m <= n
<1> DEFINE R == OpToRel(<, Nat)
<1>1. IsWellFoundedOn(R, Nat)
  BY NatLessThanWellFounded
<1>2. \E m \in T : \A n \in T : ~ (<<n, m>> \in R)
  BY <1>1, WFMin
<1>3. \A m, n \in T : <<n, m>> \notin R => m <= n
  BY DEF OpToRel
<1> QED
  BY <1>2, <1>3

\* How many elements of P come before i, and i itself, in the order.
Down(P, order, i) == {j \in P : <<j, i>> \in order}
TotalOrder(P, order) ==
  /\ \A i \in P : <<i, i>> \in order
  /\ \A i, j \in P : <<i, j>> \in order \/ <<j, i>> \in order
  /\ \A i, j \in P : <<i, j>> \in order /\ <<j, i>> \in order => i = j
  /\ \A i, j, k \in P :
       <<i, j>> \in order /\ <<j, k>> \in order => <<i, k>> \in order

\* In a total order of finitely many elements each has a rank of its own, and
\* each number is the rank of one.
LEMMA RanksOnce ==
  ASSUME NEW P, NEW order, IsFiniteSet(P), TotalOrder(P, order)
  PROVE  /\ Cardinality(P) \in Nat
         /\ \A i \in P : Cardinality(Down(P, order, i)) \in 1..Cardinality(P)
         /\ \A i, j \in P : Cardinality(Down(P, order, i))
                              = Cardinality(Down(P, order, j)) => i = j
         /\ \A n \in 1..Cardinality(P) : \E i \in P :
              Cardinality(Down(P, order, i)) = n
<1> DEFINE size == Cardinality(P)
           rank(i) == Cardinality(Down(P, order, i))
<1>1. size \in Nat
  BY FS_CardinalityType
<1>2. \A i \in P : /\ IsFiniteSet(Down(P, order, i))
                   /\ rank(i) \in Nat /\ rank(i) <= size
  <2> SUFFICES ASSUME NEW i \in P
               PROVE  /\ IsFiniteSet(Down(P, order, i))
                      /\ rank(i) \in Nat /\ rank(i) <= size
    OBVIOUS
  <2>1. Down(P, order, i) \in SUBSET P
    BY DEF Down
  <2> HIDE DEF rank
  <2>2. IsFiniteSet(Down(P, order, i))
    BY <2>1, FS_Subset
  <2> QED
    BY <2>1, <2>2, FS_Subset, FS_CardinalityType DEF rank
<1>3. \A i \in P : rank(i) # 0
  <2> SUFFICES ASSUME NEW i \in P PROVE rank(i) # 0
    OBVIOUS
  <2>1. i \in Down(P, order, i)
    BY DEF Down, TotalOrder
  <2> QED
    BY <1>2, <2>1, FS_EmptySet
<1>4. \A i, j \in P : rank(i) = rank(j) => i = j
  <2> SUFFICES ASSUME NEW i \in P, NEW j \in P, rank(i) = rank(j),
                      <<i, j>> \in order
               PROVE  i = j
    BY DEF TotalOrder
  <2>1. Down(P, order, i) \in SUBSET Down(P, order, j)
    BY DEF Down, TotalOrder
  <2>2. Down(P, order, i) = Down(P, order, j)
    BY <1>2, <2>1, FS_Subset
  <2>3. <<j, i>> \in order
    BY <2>2 DEF Down, TotalOrder
  <2> QED
    BY <2>3 DEF TotalOrder
<1>5. \A n \in 1..size : \E i \in P : rank(i) = n
  <2> DEFINE f == [i \in P |-> rank(i)]
  <2>1. IsFiniteSet(1..size) /\ Cardinality(1..size) = size
    BY <1>1, FS_Interval
  <2>2. f \in [P -> 1..size]
    BY <1>1, <1>2, <1>3
  <2>3. \A i, j \in P : f[i] = f[j] => i = j
    BY <1>4
  <2> HIDE DEF f
  <2>4. f \in Injection(P, 1..size)
    BY <2>2, <2>3 DEF Injection, IsInjective
  <2>5. f \in Surjection(P, 1..size)
    BY <2>1, <2>4, FS_Injection
  <2>6. \A n \in 1..size : \E i \in P : f[i] = n
    BY <2>5 DEF Surjection
  <2> QED
    BY <2>6 DEF f
<1> QED
  BY <1>1, <1>2, <1>3, <1>4, <1>5

\* Every rank is taken.
LEMMA RanksTaken ==
  ASSUME NEW P, NEW order, IsFiniteSet(P), TotalOrder(P, order)
  PROVE  \A n \in 1..Cardinality(P) : \E i \in P :
           Cardinality(Down(P, order, i)) = n
BY RanksOnce

-----------------------------------------------------------------------------
(* Positions in order *)

\* A function on 1..n is a sequence of length n.
LEMMA ListIs ==
  ASSUME NEW S, NEW n \in Nat, NEW s \in [1..n -> S]
  PROVE  s \in Seq(S) /\ Len(s) = n /\ DOMAIN s = 1..n
<1>1. s \in Seq(S)
  BY SeqDef
<1> QED
  BY <1>1, LenProperties

\* InOrder takes what is at the positions, each once, in their order.
LEMMA InOrderTakes ==
  ASSUME NEW records, NEW P \in SUBSET Nat, IsFiniteSet(P)
  PROVE  /\ Cardinality(P) \in Nat
         /\ InOrder(records, P) \in Seq({records[i] : i \in P})
         /\ Len(InOrder(records, P)) = Cardinality(P)
         /\ ToSet(InOrder(records, P)) = {records[i] : i \in P}
<1> DEFINE down(i) == {j \in P : j <= i}
           at(n) == CHOOSE i \in P : Cardinality(down(i)) = n
           r == InOrder(records, P)
<1>1. PICK order : /\ TotalOrder(P, order)
                   /\ \A i \in P : Down(P, order, i) = down(i)
  <2> DEFINE order == {pair \in P \X P : pair[1] <= pair[2]}
  <2>1. TotalOrder(P, order)
    BY DEF TotalOrder
  <2>2. \A i \in P : Down(P, order, i) = down(i)
    BY DEF Down
  <2> HIDE DEF order, down
  <2> QED
    BY <2>1, <2>2
<1>3. r = [n \in 1..Cardinality(P) |-> records[at(n)]]
  BY DEF InOrder
<1> HIDE DEF down, r
<1>4. /\ Cardinality(P) \in Nat
      /\ \A i \in P : Cardinality(down(i)) \in 1..Cardinality(P)
      /\ \A i, k \in P : Cardinality(down(i)) = Cardinality(down(k)) => i = k
      /\ \A n \in 1..Cardinality(P) : \E i \in P : Cardinality(down(i)) = n
  <2>1. Cardinality(P) \in Nat
    BY FS_CardinalityType
  <2>2. \A i \in P : Cardinality(Down(P, order, i)) \in 1..Cardinality(P)
    BY <1>1, RanksOnce
  <2>3. \A i, j \in P : Cardinality(Down(P, order, i))
                            = Cardinality(Down(P, order, j)) => i = j
    BY <1>1, RanksOnce
  <2>4. \A n \in 1..Cardinality(P) : \E i \in P :
          Cardinality(Down(P, order, i)) = n
    BY <1>1, RanksTaken
  <2>5. \A i \in P : Cardinality(Down(P, order, i)) = Cardinality(down(i))
    BY <1>1
  <2> QED
    BY <2>1, <2>2, <2>3, <2>4, <2>5
<1>5. \A n \in 1..Cardinality(P) : at(n) \in P /\ Cardinality(down(at(n))) = n
  BY <1>4
<1>6. \A i \in P : at(Cardinality(down(i))) = i
  BY <1>4, <1>5
<1> HIDE DEF at
<1>7. r \in [1..Cardinality(P) -> {records[i] : i \in P}]
  BY <1>3, <1>5
<1>8. r \in Seq({records[i] : i \in P}) /\ Len(r) = Cardinality(P)
        /\ DOMAIN r = 1..Cardinality(P)
  BY <1>4, <1>7, ListIs
<1>9. ToSet(r) = {records[i] : i \in P}
  <2>1. ToSet(r) = {r[n] : n \in 1..Cardinality(P)}
    BY <1>8 DEF ToSet
  <2> QED
    BY <1>3, <1>4, <1>5, <1>6, <2>1
<1> QED
  BY <1>4, <1>8, <1>9 DEF r

\* A selection keeps the records of a kind, and only them.
LEMMA SelectionKeeps ==
  ASSUME NEW S, NEW records \in Seq(S), NEW K
  PROVE  LET r == InOrder(records, {i \in DOMAIN records : records[i] \in K})
         IN /\ r \in Seq(S)
            /\ ToSet(r) = ToSet(records) \cap K
<1> DEFINE P == {i \in DOMAIN records : records[i] \in K}
<1>1. Len(records) \in Nat /\ DOMAIN records = 1..Len(records)
        /\ \A i \in DOMAIN records : records[i] \in S
  OBVIOUS
<1>2. P \in SUBSET (1..Len(records))
  BY <1>1
<1>3. IsFiniteSet(P) /\ P \in SUBSET Nat
  <2>1. IsFiniteSet(1..Len(records))
    BY <1>1, FS_Interval
  <2>2. P \in SUBSET Nat
    BY <1>1, <1>2
  <2> HIDE DEF P
  <2> QED
    BY <1>2, <2>1, <2>2, FS_Subset
<1>4. {records[i] : i \in P} = ToSet(records) \cap K
  BY DEF ToSet
<1>5. {records[i] : i \in P} \subseteq S
  BY <1>1
<1> HIDE DEF P
<1>6. InOrder(records, P) \in Seq({records[i] : i \in P})
        /\ ToSet(InOrder(records, P)) = {records[i] : i \in P}
  BY <1>3, InOrderTakes
<1>7. InOrder(records, P) \in Seq(S)
  BY <1>5, <1>6, SeqMonotonic
<1> QED
  BY <1>4, <1>6, <1>7 DEF P

\* A cut list is shorter than the cut only if it is the whole list.
LEMMA CutKeeps ==
  ASSUME NEW S, NEW records \in Seq(S), NEW n \in Nat
  PROVE  /\ Cut(records, n) \in Seq(S)
         /\ Len(Cut(records, n)) <= n
         /\ Len(Cut(records, n)) < n => Cut(records, n) = records
<1>1. Len(records) \in Nat
  OBVIOUS
<1>2. CASE Len(records) < n
  <2>1. Cut(records, n) = records
    BY <1>2, SubSeqFull DEF Cut
  <2> QED
    BY <1>1, <1>2, <2>1
<1>3. CASE ~(Len(records) < n)
  <2>1. Cut(records, n) = SubSeq(records, 1, n)
    BY <1>3 DEF Cut
  <2>2. Cut(records, n) \in Seq(S) /\ Len(Cut(records, n)) = n
    BY <1>1, <1>3, <2>1, SubSeqProperties
  <2> QED
    BY <2>2
<1> QED
  BY <1>2, <1>3

\* What a function takes finitely many elements to.
LEMMA ImageFinite ==
  ASSUME NEW S, IsFiniteSet(S), NEW g
  PROVE  IsFiniteSet({g[x] : x \in S})
<1> DEFINE h == [x \in S |-> g[x]]
           T == {g[x] : x \in S}
<1>1. h \in Surjection(S, T)
  BY DEF Surjection
<1> HIDE DEF h, T
<1>2. IsFiniteSet(T)
  BY <1>1, FS_Surjection
<1> QED
  BY <1>2 DEF T

\* Finitely many finite sets.
LEMMA UnionFinite ==
  ASSUME NEW S, IsFiniteSet(S), NEW g, \A x \in S : IsFiniteSet(g[x])
  PROVE  IsFiniteSet(UNION {g[x] : x \in S})
<1>1. IsFiniteSet({g[x] : x \in S})
  BY ImageFinite
<1>2. \A y \in {g[x] : x \in S} : IsFiniteSet(y)
  OBVIOUS
<1> QED
  BY <1>1, <1>2, FS_UNION

-----------------------------------------------------------------------------
(* Enumerations *)

\* The equation by which Enumerated is defined, for the subsets in D.
Lists(f, D) ==
  f = [rest \in D |->
         IF rest = {} THEN <<>>
         ELSE LET x == CHOOSE x \in rest : TRUE
              IN <<x>> \o f[rest \ {x}]]

\* It has a solution: that for the subsets of up to n elements is extended to
\* those of one more.
LEMMA ListsExists ==
  ASSUME NEW S, IsFiniteSet(S)
  PROVE  \E f : Lists(f, SUBSET S)
<1> DEFINE Upto(n) == {T \in SUBSET S : Cardinality(T) <= n}
           Has(n) == \E f : Lists(f, Upto(n))
           B == {n \in Nat : ~Has(n)}
<1>1. \A T \in SUBSET S : IsFiniteSet(T) /\ Cardinality(T) \in Nat
        /\ Cardinality(T) <= Cardinality(S)
  BY FS_Subset, FS_CardinalityType
<1>2. ASSUME B # {} PROVE FALSE
  <2>1. PICK n \in B : \A k \in B : n <= k
    <3>1. B \in SUBSET Nat
      OBVIOUS
    <3> HIDE DEF B
    <3> QED
      BY <1>2, <3>1, LeastNumber
  <2>2. n \in Nat /\ ~Has(n)
    BY <2>1
  <2>3. CASE n = 0
    <3> DEFINE f == [rest \in Upto(0) |-> <<>>]
    <3>1. \A T \in Upto(0) : T = {}
      BY <1>1, FS_EmptySet
    <3>2. Lists(f, Upto(0))
      BY <3>1 DEF Lists
    <3> QED
      BY <2>2, <2>3, <3>2
  <2>4. CASE n > 0
    <3>1. n - 1 \in Nat /\ n - 1 \notin B
      <4> HIDE DEF B
      <4> QED
        BY <2>1, <2>2, <2>4
    <3>2. PICK g : Lists(g, Upto(n - 1))
      BY <3>1
    <3> DEFINE Of(T) == IF T = {} THEN <<>>
                        ELSE LET x == CHOOSE x \in T : TRUE
                             IN <<x>> \o g[T \ {x}]
               f == [T \in Upto(n) |-> Of(T)]
    <3>3. \A T \in Upto(n - 1) : T \in Upto(n) /\ g[T] = Of(T)
      <4>1. \A T \in Upto(n - 1) : T \in Upto(n)
        BY <1>1, <2>2
      <4> HIDE DEF Upto
      <4>2. \A T \in Upto(n - 1) : g[T] = Of(T)
        BY <3>2 DEF Lists
      <4> QED
        BY <4>1, <4>2
    <3>4. \A T \in Upto(n - 1) : f[T] = g[T]
      <4> HIDE DEF Of, Upto
      <4> QED
        BY <3>3
    <3>5. \A T \in Upto(n) : T # {} =>
            T \ {CHOOSE x \in T : TRUE} \in Upto(n - 1)
      <4> SUFFICES ASSUME NEW T \in Upto(n), T # {}
                   PROVE  T \ {CHOOSE x \in T : TRUE} \in Upto(n - 1)
        OBVIOUS
      <4> DEFINE x == CHOOSE x \in T : TRUE
      <4>1. x \in T
        OBVIOUS
      <4> HIDE DEF x
      <4>2. Cardinality(T \ {x}) = Cardinality(T) - 1
        BY <1>1, <4>1, FS_RemoveElement
      <4>3. T \ {x} \in Upto(n - 1)
        BY <1>1, <2>2, <4>2
      <4> QED
        BY <4>3 DEF x
    <3> DEFINE On(T) == IF T = {} THEN <<>>
                        ELSE LET x == CHOOSE x \in T : TRUE
                             IN <<x>> \o f[T \ {x}]
    <3> HIDE DEF Upto, f
    <3>6. \A T \in Upto(n) : Of(T) = On(T)
      <4> SUFFICES ASSUME NEW T \in Upto(n), T # {}
                   PROVE  Of(T) = On(T)
        OBVIOUS
      <4>1. f[T \ {CHOOSE x \in T : TRUE}] = g[T \ {CHOOSE x \in T : TRUE}]
        BY <3>4, <3>5
      <4> QED
        BY <4>1
    <3>7. f = [T \in Upto(n) |-> On(T)]
      <4>1. f = [T \in Upto(n) |-> Of(T)]
        BY DEF f
      <4> HIDE DEF Of, On
      <4> QED
        BY <3>6, <4>1
    <3>8. Lists(f, Upto(n))
      BY <3>7 DEF Lists
    <3> HIDE DEF Of, On
    <3> QED
      BY <2>2, <3>8 DEF Upto
  <2> QED
    BY <2>2, <2>3, <2>4
<1>3. Cardinality(S) \in Nat /\ Upto(Cardinality(S)) = SUBSET S
  BY <1>1, FS_CardinalityType
<1> QED
  BY <1>2, <1>3

\* An enumeration lists the elements of a finite set.
LEMMA EnumeratedLists ==
  ASSUME NEW S, IsFiniteSet(S)
  PROVE  Enumerated(S) \in Seq(S) /\ ToSet(Enumerated(S)) = S
<1> DEFINE f == CHOOSE f : Lists(f, SUBSET S)
           Good(T) == f[T] \in Seq(S) /\ ToSet(f[T]) = T
           B == {n \in Nat : \E T \in SUBSET S :
                   Cardinality(T) = n /\ ~Good(T)}
<1>1. Lists(f, SUBSET S)
  BY ListsExists
<1>2. Enumerated(S) = f[S]
  BY DEF Enumerated, Lists
<1> HIDE DEF f
<1>3. \A T \in SUBSET S : IsFiniteSet(T) /\ Cardinality(T) \in Nat
  BY FS_Subset, FS_CardinalityType
<1>4. ASSUME B # {} PROVE FALSE
  <2>1. PICK n \in B : \A k \in B : n <= k
    <3>1. B \in SUBSET Nat
      OBVIOUS
    <3> HIDE DEF B
    <3> QED
      BY <1>4, <3>1, LeastNumber
  <2>2. PICK T \in SUBSET S : Cardinality(T) = n /\ ~Good(T)
    BY <2>1
  <2>3. f[T] = IF T = {} THEN <<>>
               ELSE LET x == CHOOSE x \in T : TRUE
                    IN <<x>> \o f[T \ {x}]
    BY <1>1 DEF Lists
  <2>4. CASE T = {}
    BY <2>2, <2>3, <2>4 DEF ToSet
  <2>5. CASE T # {}
    <3> DEFINE x == CHOOSE x \in T : TRUE
               rest == T \ {x}
    <3>1. x \in T /\ f[T] = <<x>> \o f[rest]
      BY <2>3, <2>5
    <3> HIDE DEF x
    <3>2. rest \in SUBSET S /\ Cardinality(rest) = n - 1 /\ n - 1 \in Nat
      <4>1. IsFiniteSet(T) /\ Cardinality(T) \in Nat /\ T # {}
        BY <1>3, <2>5
      <4>2. Cardinality(T \ {x}) = Cardinality(T) - 1
        BY <3>1, <4>1, FS_RemoveElement
      <4>3. Cardinality(T) # 0
        BY <4>1, FS_EmptySet
      <4> HIDE DEF B
      <4> QED
        BY <2>2, <4>1, <4>2, <4>3
    <3>3. n - 1 \notin B
      <4> HIDE DEF B
      <4>1. n \in Nat /\ n - 1 \in Nat /\ ~(n <= n - 1)
        BY <1>3, <2>2, <3>2
      <4> QED
        BY <2>1, <4>1
    <3>4. Good(rest)
      BY <3>2, <3>3
    <3>5. x \in S
      BY <3>1
    <3> HIDE DEF rest
    <3>6. <<x>> \in Seq(S) /\ Len(<<x>>) = 1 /\ <<x>>[1] = x
      BY <3>5
    <3>7. /\ f[T] \in Seq(S) /\ Len(f[T]) = 1 + Len(f[rest])
          /\ \A i \in 1..(1 + Len(f[rest])) :
               f[T][i] = IF i <= 1 THEN <<x>>[i] ELSE f[rest][i - 1]
      BY <3>1, <3>4, <3>6, ConcatProperties
    <3>8. Len(f[rest]) \in Nat /\ DOMAIN f[rest] = 1..Len(f[rest])
            /\ DOMAIN f[T] = 1..(1 + Len(f[rest]))
      BY <3>4, <3>7
    <3>9. ToSet(f[T]) = {x} \cup ToSet(f[rest])
      <4>1. ASSUME NEW y \in ToSet(f[T]) PROVE y \in {x} \cup ToSet(f[rest])
        <5>1. PICK i \in 1..(1 + Len(f[rest])) : y = f[T][i]
          BY <3>8 DEF ToSet
        <5>2. CASE i <= 1
          BY <3>6, <3>7, <3>8, <5>1, <5>2
        <5>3. CASE ~(i <= 1)
          <6>1. i - 1 \in DOMAIN f[rest] /\ y = f[rest][i - 1]
            BY <3>7, <3>8, <5>1, <5>3
          <6> QED
            BY <6>1 DEF ToSet
        <5> QED
          BY <5>2, <5>3
      <4>2. x \in ToSet(f[T])
        <5>1. 1 \in DOMAIN f[T] /\ f[T][1] = x
          BY <3>6, <3>7, <3>8
        <5> QED
          BY <5>1 DEF ToSet
      <4>3. ASSUME NEW y \in ToSet(f[rest]) PROVE y \in ToSet(f[T])
        <5>1. PICK i \in 1..Len(f[rest]) : y = f[rest][i]
          BY <3>8 DEF ToSet
        <5>2. i + 1 \in DOMAIN f[T] /\ f[T][i + 1] = y
          BY <3>7, <3>8, <5>1
        <5> QED
          BY <5>2 DEF ToSet
      <4> QED
        BY <4>1, <4>2, <4>3
    <3> QED
      BY <2>2, <3>1, <3>4, <3>7, <3>9 DEF rest
  <2> QED
    BY <2>4, <2>5
<1>5. S \in SUBSET S /\ Cardinality(S) \in Nat
  BY <1>3
<1> QED
  BY <1>2, <1>4, <1>5

-----------------------------------------------------------------------------
(* Impact, slices and the relations of a symbol *)

\* Which facts touch an anchor in a direction.
Touches(f, anchor, direction) ==
  LET matched == DetectRelationEndpointMatch(f, anchor)
  IN matched # "none" /\ RelationMatchesDirection(matched, direction)

\* Touching finds the facts that touch the anchor in the direction.
LEMMA TouchingKeeps ==
  ASSUME NEW S, NEW facts \in Seq(S), NEW anchor, NEW direction
  PROVE  /\ Touching(facts, anchor, direction) \in Seq(S)
         /\ ToSet(Touching(facts, anchor, direction))
              = {f \in ToSet(facts) : Touches(f, anchor, direction)}
<1> DEFINE K == {f \in S : Touches(f, anchor, direction)}
           P == {i \in DOMAIN facts : facts[i] \in K}
<1>1. /\ \A i \in DOMAIN facts : facts[i] \in S
      /\ ToSet(facts) \subseteq S
  BY DEF ToSet
<1>2. P = {i \in DOMAIN facts : Touches(facts[i], anchor, direction)}
  BY <1>1
<1>3. Touching(facts, anchor, direction) = InOrder(facts, P)
  BY <1>2 DEF Touching, Selected, Touches
<1>4. InOrder(facts, P) \in Seq(S) /\ ToSet(InOrder(facts, P)) = ToSet(facts) \cap K
  BY SelectionKeeps
<1> QED
  BY <1>1, <1>3, <1>4

\* The matches of an impact are those that touch, of a kind of the mode and as
\* sure as is asked.
LEMMA ImpactMatchesKeeps ==
  ASSUME NEW S, NEW facts \in Seq(S), NEW anchor, NEW c
  PROVE  /\ ImpactMatches(facts, anchor, c) \in Seq(S)
         /\ ToSet(ImpactMatches(facts, anchor, c))
              = {f \in ToSet(facts) :
                   /\ Touches(f, anchor, ModeToDirection(c.mode))
                   /\ f.kind \in ModeRelationKinds[c.mode]
                   /\ f.confidence >= c.confidenceMin}
<1> DEFINE touching == Touching(facts, anchor, ModeToDirection(c.mode))
           K == {f \in S : /\ f.kind \in ModeRelationKinds[c.mode]
                           /\ f.confidence >= c.confidenceMin}
           P == {i \in DOMAIN touching : touching[i] \in K}
<1>1. /\ touching \in Seq(S)
      /\ ToSet(touching) = {f \in ToSet(facts) :
           Touches(f, anchor, ModeToDirection(c.mode))}
  BY TouchingKeeps
<1>2. ImpactMatches(facts, anchor, c) =
        InOrder(touching, {i \in DOMAIN touching :
                             /\ touching[i].kind \in ModeRelationKinds[c.mode]
                             /\ touching[i].confidence >= c.confidenceMin})
  BY DEF ImpactMatches, Selected
<1> HIDE DEF touching
<1>3. \A i \in DOMAIN touching : touching[i] \in S
  BY <1>1
<1>4. P = {i \in DOMAIN touching :
             /\ touching[i].kind \in ModeRelationKinds[c.mode]
             /\ touching[i].confidence >= c.confidenceMin}
  BY <1>3
<1>5. InOrder(touching, P) \in Seq(S)
        /\ ToSet(InOrder(touching, P)) = ToSet(touching) \cap K
  BY <1>1, SelectionKeeps
<1>6. ToSet(facts) \subseteq S
  BY DEF ToSet
<1> QED
  BY <1>1, <1>2, <1>4, <1>5, <1>6

\* The matches of a slice are those that touch, of what it includes.
LEMMA SliceMatchesKeeps ==
  ASSUME NEW S, NEW facts \in Seq(S), NEW anchor, NEW c
  PROVE  /\ SliceMatches(facts, anchor, c) \in Seq(S)
         /\ ToSet(SliceMatches(facts, anchor, c))
              = {f \in ToSet(facts) : /\ Touches(f, anchor, c.direction)
                                      /\ RelationUsesInclude(f.kind, c.include)}
<1> DEFINE touching == Touching(facts, anchor, c.direction)
           K == {f \in S : RelationUsesInclude(f.kind, c.include)}
           P == {i \in DOMAIN touching : touching[i] \in K}
<1>1. /\ touching \in Seq(S)
      /\ ToSet(touching) = {f \in ToSet(facts) : Touches(f, anchor, c.direction)}
  BY TouchingKeeps
<1>2. SliceMatches(facts, anchor, c) =
        InOrder(touching, {i \in DOMAIN touching :
                             RelationUsesInclude(touching[i].kind, c.include)})
  BY DEF SliceMatches, Selected
<1> HIDE DEF touching
<1>3. \A i \in DOMAIN touching : touching[i] \in S
  BY <1>1
<1>4. P = {i \in DOMAIN touching :
             RelationUsesInclude(touching[i].kind, c.include)}
  BY <1>3
<1>5. InOrder(touching, P) \in Seq(S)
        /\ ToSet(InOrder(touching, P)) = ToSet(touching) \cap K
  BY <1>1, SelectionKeeps
<1>6. ToSet(facts) \subseteq S
  BY DEF ToSet
<1> QED
  BY <1>1, <1>2, <1>4, <1>5, <1>6

\* The callers and the callees that are told of a symbol.
LEMMA ToRelationsKeeps ==
  ASSUME NEW S, NEW facts \in Seq(S), NEW id
  PROVE  /\ ToSet(ToRelations(facts, id, "fromId")) =
              {f \in ToSet(facts) : f.kind = "caller-callee-candidate"
                                      /\ f.from.id = id}
         /\ ToSet(ToRelations(facts, id, "toId")) =
              {f \in ToSet(facts) : f.kind = "caller-callee-candidate"
                                      /\ f.to.id = id}
<1> DEFINE Of(end) == {f \in S : f.kind = "caller-callee-candidate"
                         /\ (IF end = "fromId" THEN f.from.id ELSE f.to.id) = id}
           P(end) == {i \in DOMAIN facts : facts[i] \in Of(end)}
<1>1. /\ \A i \in DOMAIN facts : facts[i] \in S
      /\ ToSet(facts) \subseteq S
  BY DEF ToSet
<1>2. ASSUME NEW end
      PROVE  ToSet(ToRelations(facts, id, end)) = ToSet(facts) \cap Of(end)
  <2>1. P(end) = {i \in DOMAIN facts :
          facts[i].kind = "caller-callee-candidate"
            /\ (IF end = "fromId" THEN facts[i].from.id ELSE facts[i].to.id) = id}
    BY <1>1
  <2>2. ToRelations(facts, id, end) = InOrder(facts, P(end))
    BY <2>1 DEF ToRelations, Selected
  <2> HIDE DEF Of
  <2> QED
    BY <2>2, SelectionKeeps
<1>3. ToSet(ToRelations(facts, id, "fromId")) = ToSet(facts) \cap Of("fromId")
  BY <1>2
<1>4. ToSet(ToRelations(facts, id, "toId")) = ToSet(facts) \cap Of("toId")
  BY <1>2
<1> QED
  BY <1>1, <1>3, <1>4

\* One more element is at most one more.
LEMMA AddOne ==
  ASSUME NEW T, IsFiniteSet(T), NEW x
  PROVE  Cardinality(T \cup {x}) <= Cardinality(T) + 1
<1>1. Cardinality(T) \in Nat
  BY FS_CardinalityType
<1>2. Cardinality(T \cup {x}) = IF x \in T THEN Cardinality(T)
                                ELSE Cardinality(T) + 1
  BY FS_AddElement
<1> QED
  BY <1>1, <1>2

\* The limit of files keeps every fact, or those of as many files.
LEMMA FilesWithin ==
  ASSUME NEW S, NEW facts \in Seq(S), NEW m \in Nat
  PROVE  /\ WithinFiles(facts, m) \in Seq(S)
         /\ \/ ToSet(WithinFiles(facts, m)) = ToSet(facts)
            \/ Cardinality({f.path : f \in ToSet(WithinFiles(facts, m))}) = m
<1> DEFINE n == Len(facts)
           First(i) == {facts[j].path : j \in 1..i}
           kept == FilesKept(facts, m)
           K == {f \in S : f.path \in kept}
           P == {i \in DOMAIN facts : facts[i] \in K}
           Over == {i \in 1..n : Cardinality(First(i)) > m}
<1>1. n \in Nat /\ DOMAIN facts = 1..n /\ ToSet(facts) \subseteq S
        /\ \A i \in 1..n : facts[i] \in S
  BY DEF ToSet
<1>2. CASE m = 0
  BY <1>2 DEF WithinFiles
<1>3. CASE m # 0
  <2>1. kept = {facts[i].path : i \in {i \in 1..n : Cardinality(First(i)) <= m}}
    BY <1>1 DEF FilesKept
  <2>2. WithinFiles(facts, m) = InOrder(facts, P)
    <3>1. P = {i \in DOMAIN facts : facts[i].path \in kept}
      BY <1>1
    <3> QED
      BY <1>3, <3>1 DEF WithinFiles, Selected
  <2>3. /\ WithinFiles(facts, m) \in Seq(S)
        /\ ToSet(WithinFiles(facts, m)) = {f \in ToSet(facts) : f.path \in kept}
    <3> HIDE DEF kept
    <3>1. InOrder(facts, P) \in Seq(S)
            /\ ToSet(InOrder(facts, P)) = ToSet(facts) \cap K
      BY SelectionKeeps
    <3> QED
      BY <1>1, <2>2, <3>1
  <2>4. \A i \in 1..n : IsFiniteSet(First(i)) /\ Cardinality(First(i)) \in Nat
    <3> SUFFICES ASSUME NEW i \in 1..n
                 PROVE  IsFiniteSet(First(i)) /\ Cardinality(First(i)) \in Nat
      OBVIOUS
    <3> DEFINE g == [j \in 1..i |-> facts[j].path]
    <3>1. g \in Surjection(1..i, First(i))
      BY DEF Surjection
    <3>2. IsFiniteSet(1..i)
      BY <1>1, FS_Interval
    <3> HIDE DEF g, First
    <3> QED
      BY <3>1, <3>2, FS_Surjection, FS_CardinalityType
  <2>5. CASE Over = {}
    <3>1. \A i \in 1..n : Cardinality(First(i)) <= m
      <4> HIDE DEF First
      <4> QED
        BY <2>4, <2>5
    <3> HIDE DEF First
    <3>2. \A f \in ToSet(facts) : f.path \in kept
      BY <1>1, <2>1, <3>1 DEF ToSet
    <3> QED
      BY <2>3, <3>2
  <2>6. CASE Over # {}
    <3>1. PICK i \in Over : \A k \in Over : i <= k
      <4>1. Over \in SUBSET Nat
        BY <1>1
      <4> HIDE DEF Over
      <4> QED
        BY <2>6, <4>1, LeastNumber
    <3>2. i \in 1..n /\ i \in Nat /\ Cardinality(First(i)) > m
      BY <1>1, <3>1
    <3>3. \A k \in 1..n : k < i => Cardinality(First(k)) <= m
      <4> HIDE DEF First
      <4> SUFFICES ASSUME NEW k \in 1..n, k < i
                   PROVE  Cardinality(First(k)) <= m
        OBVIOUS
      <4>1. k \notin Over
        BY <1>1, <3>1, <3>2
      <4> QED
        BY <2>4, <4>1
    <3>4. i # 1
      <4>1. First(1) = {facts[1].path}
        OBVIOUS
      <4>2. Cardinality(First(1)) = 1
        BY <4>1, FS_Singleton
      <4> HIDE DEF First
      <4> QED
        BY <1>3, <3>2, <4>2
    <3>5. i - 1 \in 1..n
      BY <3>2, <3>4
    <3>6. First(i) = First(i - 1) \cup {facts[i].path}
      <4>1. 1..i = (1..(i - 1)) \cup {i}
        BY <3>2
      <4> QED
        BY <4>1
    <3>7. Cardinality(First(i - 1)) = m
      <4>1. Cardinality(First(i)) <= Cardinality(First(i - 1)) + 1
        <5> HIDE DEF First
        <5> QED
          BY <2>4, <3>5, <3>6, AddOne
      <4> HIDE DEF First
      <4>2. Cardinality(First(i - 1)) <= m
        <5>1. i - 1 < i
          BY <3>2
        <5> QED
          BY <3>3, <3>5, <5>1
      <4> QED
        BY <2>4, <3>2, <3>5, <4>1, <4>2
    <3>8. kept = First(i - 1)
      <4>1. ASSUME NEW k \in 1..n, Cardinality(First(k)) <= m PROVE k < i
        <5> SUFFICES ASSUME ~(k < i) PROVE FALSE
          OBVIOUS
        <5>1. First(i) \in SUBSET First(k)
          BY <3>2
        <5>2. Cardinality(First(i)) <= Cardinality(First(k))
          <6> HIDE DEF First
          <6> QED
            BY <2>4, <5>1, FS_Subset
        <5> HIDE DEF First
        <5> QED
          BY <2>4, <3>2, <4>1, <5>2
      <4>2. {k \in 1..n : Cardinality(First(k)) <= m} = 1..(i - 1)
        <5> HIDE DEF First
        <5>1. 1..(i - 1) \subseteq 1..n
          BY <1>1, <3>2
        <5>2. \A k \in 1..n : Cardinality(First(k)) <= m => k \in 1..(i - 1)
          BY <3>2, <4>1
        <5>3. \A k \in 1..(i - 1) : k \in 1..n /\ k < i
          BY <3>2, <5>1
        <5> QED
          BY <3>3, <5>2, <5>3
      <4> QED
        BY <2>1, <4>2
    <3>9. {f.path : f \in ToSet(WithinFiles(facts, m))} = kept
      <4>1. \A path \in kept : \E f \in ToSet(facts) : f.path = path
        BY <1>1, <2>1 DEF ToSet
      <4> HIDE DEF kept
      <4> QED
        BY <2>3, <4>1
    <3> QED
      BY <2>3, <3>7, <3>8, <3>9
  <2> QED
    BY <2>5, <2>6
<1> QED
  BY <1>2, <1>3

\* An impact that is not marked as truncated is whole.
LEMMA ImpactReported ==
  ASSUME NEW F, NEW facts \in Seq(F), NEW a, NEW c, c.maxResults \in Nat
  PROVE  LET answer == AnalyzeImpact(facts, a, c)
         IN \/ answer.truncated
            \/ ToSet(answer.facts) = ToSet(ImpactMatches(facts, a, c))
<1> DEFINE matches == ImpactMatches(facts, a, c)
           kept == Cut(matches, c.maxResults)
           answer == AnalyzeImpact(facts, a, c)
<1>1. matches \in Seq(F)
  BY ImpactMatchesKeeps
<1>2. answer.facts = kept /\ answer.truncated = (Len(kept) >= c.maxResults)
  BY DEF AnalyzeImpact
<1> HIDE DEF matches, answer
<1>3. kept \in Seq(F)
  BY <1>1, CutKeeps
<1>4. Len(kept) < c.maxResults => kept = matches
  BY <1>1, CutKeeps
<1>5. Len(kept) \in Nat
  BY <1>3
<1> HIDE DEF kept
<1>6. CASE Len(kept) >= c.maxResults
  BY <1>2, <1>6 DEF answer
<1>7. CASE kept = matches
  BY <1>2, <1>7 DEF answer, matches
<1> QED
  BY <1>4, <1>5, <1>6, <1>7

\* So is a slice, within its limit of files.
LEMMA SliceReported ==
  ASSUME NEW F, NEW facts \in Seq(F), NEW a, NEW c, c.maxItems \in Nat,
         c.maxFiles \in Nat
  PROVE  LET answer == ComputeSlice(facts, a, c)
         IN \/ answer.truncated
            \/ ToSet(answer.facts) = ToSet(SliceMatches(facts, a, c))
            \/ Cardinality({f.path : f \in ToSet(answer.facts)}) = c.maxFiles
<1> DEFINE matches == SliceMatches(facts, a, c)
           within == WithinFiles(matches, c.maxFiles)
           kept == Cut(within, c.maxItems)
           answer == ComputeSlice(facts, a, c)
<1>1. matches \in Seq(F)
  BY SliceMatchesKeeps
<1>2. answer.facts = kept /\ answer.truncated = (Len(kept) >= c.maxItems)
  BY DEF ComputeSlice
<1> HIDE DEF matches, answer
<1>3. within \in Seq(F)
  BY <1>1, FilesWithin
<1>4. \/ ToSet(within) = ToSet(matches)
      \/ Cardinality({f.path : f \in ToSet(within)}) = c.maxFiles
  BY <1>1, FilesWithin
<1> HIDE DEF within
<1>5. kept \in Seq(F)
  BY <1>3, CutKeeps
<1>6. Len(kept) < c.maxItems => kept = within
  BY <1>3, CutKeeps
<1>7. Len(kept) \in Nat
  BY <1>5
<1> HIDE DEF kept
<1>8. CASE Len(kept) >= c.maxItems
  BY <1>2, <1>8 DEF answer
<1>9. CASE kept = within
  BY <1>2, <1>4, <1>9 DEF answer, matches
<1> QED
  BY <1>6, <1>7, <1>8, <1>9

-----------------------------------------------------------------------------
(* Entry points *)

\* What makes two entry points one.
EntryKey(e) == <<e.kind, e.path, e.name>>

\* One entry point of each key stays.
LEMMA DedupeKeeps ==
  ASSUME NEW S, NEW entries \in Seq(S)
  PROVE  /\ DedupeEntrypoints(entries) \in Seq(S)
         /\ \A e \in ToSet(entries) : \E d \in ToSet(DedupeEntrypoints(entries)) :
              EntryKey(d) = EntryKey(e)
<1> DEFINE n == Len(entries)
           P == {i \in DOMAIN entries : \A j \in DOMAIN entries :
                   EntryKey(entries[j]) = EntryKey(entries[i]) => i <= j}
<1>1. n \in Nat /\ DOMAIN entries = 1..n /\ \A i \in 1..n : entries[i] \in S
  OBVIOUS
<1>2. DedupeEntrypoints(entries) = InOrder(entries, P)
  BY DEF DedupeEntrypoints, EntryKey
<1>3. IsFiniteSet(P) /\ P \in SUBSET Nat
  <2>1. P \in SUBSET (1..n) /\ P \in SUBSET Nat
    BY <1>1
  <2>2. IsFiniteSet(1..n)
    BY <1>1, FS_Interval
  <2> HIDE DEF P
  <2> QED
    BY <2>1, <2>2, FS_Subset
<1>4. \A i \in P : i \in 1..n
  BY <1>1
<1>5. ASSUME NEW e \in ToSet(entries)
      PROVE  \E i \in P : EntryKey(entries[i]) = EntryKey(e)
  <2> DEFINE same == {j \in 1..n : EntryKey(entries[j]) = EntryKey(e)}
  <2>1. same # {} /\ same \in SUBSET Nat
    BY <1>1 DEF ToSet
  <2>2. PICK i \in same : \A j \in same : i <= j
    <3> HIDE DEF same
    <3> QED
      BY <2>1, LeastNumber
  <2>3. i \in P
    BY <1>1, <2>2
  <2> QED
    BY <2>2, <2>3
<1> HIDE DEF P
<1>6. /\ InOrder(entries, P) \in Seq({entries[i] : i \in P})
      /\ ToSet(InOrder(entries, P)) = {entries[i] : i \in P}
  BY <1>3, InOrderTakes
<1>7. {entries[i] : i \in P} \subseteq S
  BY <1>1, <1>4
<1>8. InOrder(entries, P) \in Seq(S)
  BY <1>6, <1>7, SeqMonotonic
<1> QED
  BY <1>2, <1>5, <1>6, <1>8

\* The order by confidence loses no entry point.
LEMMA ByConfidenceKeeps ==
  ASSUME NEW S, NEW entries \in Seq(S),
         \A e \in S : e.confidence \in Nat
  PROVE  /\ ByConfidence(entries) \in Seq(S)
         /\ Len(ByConfidence(entries)) = Len(entries)
         /\ ToSet(ByConfidence(entries)) = ToSet(entries)
<1> DEFINE n == Len(entries)
           P == 1..n
           conf(i) == entries[i].confidence
           down(i) == {j \in P : \/ conf(j) > conf(i)
                                 \/ conf(j) = conf(i) /\ j <= i}
           at(k) == CHOOSE i \in P : Cardinality(down(i)) = k
           r == ByConfidence(entries)
<1>1. n \in Nat /\ DOMAIN entries = P /\ \A i \in P : entries[i] \in S
  OBVIOUS
<1>2. \A i \in P : conf(i) \in Nat
  BY <1>1
<1>3. r = [k \in P |-> entries[at(k)]]
  BY <1>1 DEF ByConfidence
<1>4. PICK order : /\ TotalOrder(P, order)
                   /\ \A i \in P : Down(P, order, i) = down(i)
  <2> HIDE DEF conf
  <2> DEFINE order == {pair \in P \X P :
                \/ conf(pair[1]) > conf(pair[2])
                \/ conf(pair[1]) = conf(pair[2]) /\ pair[1] <= pair[2]}
  <2>1. \A i, j \in P : <<i, j>> \in order <=>
          (conf(i) > conf(j) \/ (conf(i) = conf(j) /\ i <= j))
    OBVIOUS
  <2> HIDE DEF order
  <2>2. P \in SUBSET Nat
    BY <1>1
  <2> HIDE DEF P
  <2>3. TotalOrder(P, order)
    BY <1>2, <2>1, <2>2 DEF TotalOrder
  <2>4. \A i \in P : Down(P, order, i) = down(i)
    BY <2>1 DEF Down
  <2> HIDE DEF down
  <2> QED
    BY <2>3, <2>4
<1>5. IsFiniteSet(P) /\ Cardinality(P) = n
  <2> HIDE DEF n, conf
  <2>1. /\ IsFiniteSet(1..n)
        /\ Cardinality(1..n) = IF 1 > n THEN 0 ELSE n - 1 + 1
    BY <1>1, FS_Interval
  <2> QED
    BY <1>1, <2>1
<1> HIDE DEF down, r
<1>6. /\ \A i \in P : Cardinality(down(i)) \in 1..n
      /\ \A i, j \in P : Cardinality(down(i)) = Cardinality(down(j)) => i = j
      /\ \A k \in 1..n : \E i \in P : Cardinality(down(i)) = k
  <2> HIDE DEF P
  <2>1. \A i \in P : Cardinality(Down(P, order, i)) \in 1..Cardinality(P)
    BY <1>4, <1>5, RanksOnce
  <2>2. \A i, j \in P : Cardinality(Down(P, order, i))
                            = Cardinality(Down(P, order, j)) => i = j
    BY <1>4, <1>5, RanksOnce
  <2>3. \A k \in 1..Cardinality(P) : \E i \in P :
          Cardinality(Down(P, order, i)) = k
    BY <1>4, <1>5, RanksTaken
  <2>4. \A i \in P : Cardinality(Down(P, order, i)) = Cardinality(down(i))
    BY <1>4
  <2> QED
    BY <1>5, <2>1, <2>2, <2>3, <2>4
<1>7. \A k \in P : at(k) \in P /\ Cardinality(down(at(k))) = k
  BY <1>6
<1>8. \A i \in P : Cardinality(down(i)) \in P /\ at(Cardinality(down(i))) = i
  BY <1>6, <1>7
<1> HIDE DEF at
<1>9. r \in [P -> S]
  BY <1>1, <1>3, <1>7
<1>10. r \in Seq(S) /\ Len(r) = n /\ DOMAIN r = P
  BY <1>1, <1>9, ListIs
<1>11. ToSet(r) = ToSet(entries)
  <2> HIDE DEF P
  <2>1. ToSet(r) = {r[k] : k \in P} /\ ToSet(entries) = {entries[i] : i \in P}
    BY <1>1, <1>10 DEF ToSet
  <2>2. \A k \in P : at(k) \in P /\ r[k] = entries[at(k)]
    BY <1>3, <1>7
  <2>3. \A i \in P : \E k \in P : r[k] = entries[i]
    BY <1>8, <2>2
  <2> HIDE DEF n, conf
  <2> QED
    BY <2>1, <2>2, <2>3
<1> QED
  BY <1>10, <1>11 DEF r

\* The entry points come with the confidences of facts.
LEMMA EntrypointsAre ==
  ASSUME NEW S, NEW canonical \in Seq(S), NEW symbols, NEW c,
         \A f \in S : f.confidence \in Nat
  PROVE  \E E : /\ Entrypoints(canonical, symbols, c) \in Seq(E)
                /\ \A e \in E : e.confidence \in Nat
<1> DEFINE Wanted(f) ==
             LET kind == MapCanonicalEntrypointKind(f.kind)
             IN /\ kind # "none"
                /\ c.path \in {"", f.path}
                /\ f.confidence >= c.confidenceMin
                /\ c.entryKind \in {"", kind}
           K == {f \in S : Wanted(f)}
           P == {i \in DOMAIN canonical : canonical[i] \in K}
           wanted == InOrder(canonical, P)
           Of(f) == [kind |-> MapCanonicalEntrypointKind(f.kind),
                     path |-> f.path, name |-> EntrypointName(f),
                     confidence |-> f.confidence, evidenceId |-> f.evidenceId,
                     hasSymbol |-> \E s \in symbols : s.path = f.path]
           E == {Of(f) : f \in S}
<1>1. P = {i \in DOMAIN canonical : Wanted(canonical[i])}
  <2>1. \A i \in DOMAIN canonical : canonical[i] \in S
    BY ElementOfSeq
  <2> HIDE DEF Wanted
  <2> QED
    BY <2>1
<1>2. Entrypoints(canonical, symbols, c)
        = [i \in DOMAIN wanted |-> Of(wanted[i])]
  BY <1>1 DEF Entrypoints, Selected
<1> HIDE DEF K
<1>3. wanted \in Seq(S)
  BY SelectionKeeps
<1> HIDE DEF wanted
<1>4. \A e \in E : e.confidence \in Nat
  OBVIOUS
<1> HIDE DEF Of
<1>5. [i \in DOMAIN wanted |-> Of(wanted[i])] \in Seq(E)
  <2>1. Len(wanted) \in Nat /\ DOMAIN wanted = 1..Len(wanted)
          /\ \A i \in 1..Len(wanted) : wanted[i] \in S
    BY <1>3
  <2>2. [i \in DOMAIN wanted |-> Of(wanted[i])] \in [1..Len(wanted) -> E]
    BY <2>1
  <2> QED
    BY <2>1, <2>2, ListIs
<1> QED
  BY <1>2, <1>4, <1>5

\* A list of entry points is as long as its limit, or has one of each key.
LEMMA EntrypointsReported ==
  ASSUME NEW S, NEW canonical \in Seq(S), NEW symbols, NEW c,
         \A f \in S : f.confidence \in Nat, c.limit \in Nat
  PROVE  LET entries == Entrypoints(canonical, symbols, c)
             answer == DetectEntrypoints(canonical, symbols, c)
         IN \/ Len(answer) = c.limit
            \/ \A e \in ToSet(entries) : \E a \in ToSet(answer) :
                 EntryKey(a) = EntryKey(e)
<1> DEFINE entries == Entrypoints(canonical, symbols, c)
           deduped == DedupeEntrypoints(entries)
           sorted == ByConfidence(deduped)
           answer == DetectEntrypoints(canonical, symbols, c)
<1>1. PICK E : entries \in Seq(E) /\ \A e \in E : e.confidence \in Nat
  BY EntrypointsAre
<1>2. answer = Cut(sorted, c.limit)
  BY DEF DetectEntrypoints
<1> HIDE DEF entries, answer
<1>3. /\ deduped \in Seq(E)
      /\ \A e \in ToSet(entries) : \E d \in ToSet(deduped) :
           EntryKey(d) = EntryKey(e)
  BY <1>1, DedupeKeeps
<1> HIDE DEF deduped
<1>4. sorted \in Seq(E) /\ ToSet(sorted) = ToSet(deduped)
  BY <1>1, <1>3, ByConfidenceKeeps
<1> HIDE DEF sorted
<1>5. Len(answer) <= c.limit /\ Len(answer) \in Nat
        /\ (Len(answer) < c.limit => answer = sorted)
  <2>1. answer \in Seq(E)
    BY <1>2, <1>4, CutKeeps
  <2> QED
    BY <1>2, <1>4, <2>1, CutKeeps
<1>6. CASE Len(answer) = c.limit
  BY <1>6 DEF entries, answer
<1>7. CASE Len(answer) < c.limit
  BY <1>3, <1>4, <1>5, <1>7 DEF entries, answer
<1> QED
  BY <1>5, <1>6, <1>7

-----------------------------------------------------------------------------
(* The graph and the overlays of a document *)

\* What OnePerKey keeps of records with ids.
OnePerId(records) ==
  {CHOOSE r \in records : r.id = k : k \in {r.id : r \in records}}

\* It keeps one record for each id.
LEMMA OnePerIdKeeps ==
  ASSUME NEW records
  PROVE  /\ OnePerId(records) \subseteq records
         /\ \A r \in records : \E s \in OnePerId(records) : s.id = r.id
<1> DEFINE Of(k) == CHOOSE r \in records : r.id = k
<1>1. \A r \in records : Of(r.id) \in records /\ Of(r.id).id = r.id
  OBVIOUS
<1>2. OnePerId(records) = {Of(k) : k \in {r.id : r \in records}}
  BY DEF OnePerId
<1> HIDE DEF Of
<1> QED
  BY <1>1, <1>2

\* Later keeps the later records, and of the earlier ones one with each id.
LEMMA LaterKeeps ==
  ASSUME NEW earlier, NEW later
  PROVE  /\ later \subseteq Later(earlier, later)
         /\ Later(earlier, later) \subseteq earlier \cup later
         /\ \A r \in earlier : \E s \in Later(earlier, later) : s.id = r.id
BY DEF Later

\* The records of a document, in the order in which later ones replace others.
LEMMA ProjectIs ==
  ASSUME NEW doc
  PROVE  LET symbols == Symbols(doc)
             canonical == CanonicalFacts(doc)
             derived == DerivedFacts(doc)
         IN Project(doc) =
              [nodes |-> Later(Later(OnePerId(SymbolNodes(symbols)),
                                     OnePerId(FactNodes(canonical))),
                               OnePerId(RelationNodes(derived))),
               edges |-> Later(Later(SymbolEdges(symbols),
                                     OnePerId(FactEdges(canonical))),
                               OnePerId(RelationEdges(derived)))]
BY DEF Project, OnePerKey, OnePerId

\* The nodes include one for each that the three sources name.
LEMMA NodesNamed ==
  ASSUME NEW doc,
         NEW n \in SymbolNodes(Symbols(doc)) \cup FactNodes(CanonicalFacts(doc))
                     \cup RelationNodes(DerivedFacts(doc))
  PROVE  \E m \in Project(doc).nodes : m.id = n.id
<1> DEFINE first == SymbolNodes(Symbols(doc))
           second == FactNodes(CanonicalFacts(doc))
           third == RelationNodes(DerivedFacts(doc))
           two == Later(OnePerId(first), OnePerId(second))
           all == Later(two, OnePerId(third))
<1>1. Project(doc).nodes = all
  BY ProjectIs
<1> HIDE DEF first, second, third
<1>2. n \in first \cup second \cup third
  BY DEF first, second, third
<1>3. \A r \in two : \E s \in all : s.id = r.id
  BY LaterKeeps
<1>4. CASE n \in first
  <2>1. PICK r \in OnePerId(first) : r.id = n.id
    BY <1>4, OnePerIdKeeps
  <2>2. PICK s \in two : s.id = r.id
    BY LaterKeeps
  <2> HIDE DEF two, all
  <2> QED
    BY <1>1, <1>3, <2>1, <2>2
<1>5. CASE n \in second
  <2>1. PICK r \in OnePerId(second) : r.id = n.id
    BY <1>5, OnePerIdKeeps
  <2>2. r \in two
    BY LaterKeeps
  <2> HIDE DEF two, all
  <2> QED
    BY <1>1, <1>3, <2>1, <2>2
<1>6. CASE n \in third
  <2>1. PICK r \in OnePerId(third) : r.id = n.id
    BY <1>6, OnePerIdKeeps
  <2>2. r \in all
    BY LaterKeeps
  <2> HIDE DEF two, all
  <2> QED
    BY <1>1, <2>1, <2>2
<1> QED
  BY <1>2, <1>4, <1>5, <1>6

\* The nodes of relations have one for each end.
LEMMA RelationNodesHave ==
  ASSUME NEW facts, NEW f \in facts, NEW end \in {f.from, f.to}
  PROVE  Node(EndNode(end), end.kind, f.path, {end.id, end.label})
           \in RelationNodes(facts)
<1> DEFINE Of(g, e) == Node(EndNode(e), e.kind, g.path, {e.id, e.label})
           Both(g) == {Of(g, e) : e \in {g.from, g.to}}
<1>1. RelationNodes(facts) = UNION {Both(g) : g \in facts}
  BY DEF RelationNodes
<1> HIDE DEF Of
<1>2. Of(f, end) \in Both(f)
  OBVIOUS
<1> HIDE DEF Both
<1>3. Of(f, end) \in RelationNodes(facts)
  BY <1>1, <1>2
<1> QED
  BY <1>3 DEF Of

\* A projected graph is closed.
LEMMA ProjectIsClosed ==
  ASSUME NEW doc
  PROVE  Closed(Project(doc))
<1> DEFINE symbols == Symbols(doc)
           canonical == CanonicalFacts(doc)
           derived == DerivedFacts(doc)
           graph == Project(doc)
           named == SymbolNodes(symbols) \cup FactNodes(canonical)
                      \cup RelationNodes(derived)
<1>1. graph.edges \subseteq SymbolEdges(symbols) \cup FactEdges(canonical)
                              \cup RelationEdges(derived)
  <2>1. graph.edges = Later(Later(SymbolEdges(symbols),
                                  OnePerId(FactEdges(canonical))),
                            OnePerId(RelationEdges(derived)))
    BY ProjectIs
  <2> QED
    BY <2>1, LaterKeeps, OnePerIdKeeps
<1>2. \A n \in named : \E m \in graph.nodes : m.id = n.id
  BY NodesNamed
<1> SUFFICES ASSUME NEW e \in graph.edges
             PROVE  \E n, m \in named : n.id = e.fromNodeId /\ m.id = e.toNodeId
  BY <1>2 DEF Closed
<1> HIDE DEF graph, symbols, canonical, derived
<1>3. CASE e \in SymbolEdges(symbols)
  <2>1. PICK s \in symbols :
          /\ e.fromNodeId = NodeId("File", <<s.path>>)
          /\ e.toNodeId = NodeId("SymbolCandidate", s.evidenceId)
    BY <1>3 DEF SymbolEdges, Edge
  <2> DEFINE n == Node(NodeId("File", <<s.path>>), "File", s.path, {<<s.path>>})
             m == Node(NodeId("SymbolCandidate", s.evidenceId),
                       "SymbolCandidate", s.path, {s.name, <<s.kind>>})
  <2>2. n \in named /\ m \in named
    BY DEF SymbolNodes
  <2>3. n.id = e.fromNodeId /\ m.id = e.toNodeId
    BY <2>1 DEF Node
  <2> QED
    BY <2>2, <2>3
<1>4. CASE e \in FactEdges(canonical)
  <2>1. PICK f \in canonical : /\ e.fromNodeId = FactNode(f)
                               /\ e.toNodeId = DomainNode(f)
    BY <1>4 DEF FactEdges, Edge
  <2> DEFINE n == Node(FactNode(f), "CanonicalFact", f.path, PayloadValues(f))
             m == Node(DomainNode(f), DescriptorKind(f), f.path,
                       PayloadValues(f))
  <2>2. n \in named /\ m \in named
    BY DEF FactNodes
  <2>3. n.id = e.fromNodeId /\ m.id = e.toNodeId
    BY <2>1 DEF Node
  <2> QED
    BY <2>2, <2>3
<1>5. CASE e \in RelationEdges(derived)
  <2>1. PICK f \in derived : /\ e.fromNodeId = EndNode(f.from)
                             /\ e.toNodeId = EndNode(f.to)
    BY <1>5 DEF RelationEdges, Edge
  <2> DEFINE Of(end) == Node(EndNode(end), end.kind, f.path,
                             {end.id, end.label})
  <2>2. Of(f.from) \in named /\ Of(f.to) \in named
    BY RelationNodesHave
  <2>3. Of(f.from).id = e.fromNodeId /\ Of(f.to).id = e.toNodeId
    BY <2>1 DEF Node
  <2> QED
    BY <2>2, <2>3
<1> QED
  BY <1>1, <1>3, <1>4, <1>5 DEF graph, symbols, canonical, derived

\* The node of an end, in any graph of derived facts, holds the end's id.
LEMMA EndNodeHolds ==
  ASSUME NEW facts, NEW end,
         NEW f \in facts, end \in {f.from, f.to}
  PROVE  \E n \in OnePerId(RelationNodes(facts)) :
           n.id = EndNode(end) /\ end.id \in n.values
<1> DEFINE own == Node(EndNode(end), end.kind, f.path, {end.id, end.label})
<1>1. own \in RelationNodes(facts) /\ own.id = EndNode(end)
  BY RelationNodesHave DEF Node
<1>2. PICK n \in OnePerId(RelationNodes(facts)) : n.id = EndNode(end)
  BY <1>1, OnePerIdKeeps
<1>3. n \in RelationNodes(facts)
  BY OnePerIdKeeps
<1>4. PICK g \in facts : \E e \in {g.from, g.to} :
        n = Node(EndNode(e), e.kind, g.path, {e.id, e.label})
  BY <1>3 DEF RelationNodes
<1> PICK e \in {g.from, g.to} :
        n = Node(EndNode(e), e.kind, g.path, {e.id, e.label})
  BY <1>4
<1>5. EndNode(e) = EndNode(end) /\ e.id \in n.values
  BY <1>2 DEF Node
<1>6. e.id = end.id
  BY <1>5 DEF EndNode, NodeId
<1> QED
  BY <1>2, <1>5, <1>6

\* Every derived fact is in the projected graph.
LEMMA ProjectHoldsFacts ==
  ASSUME NEW doc, NEW f \in DerivedFacts(doc)
  PROVE  InGraph(f, Project(doc))
<1> DEFINE derived == DerivedFacts(doc)
           graph == Project(doc)
           own == Edge(EndNode(f.from), f.kind, EndNode(f.to), f.path,
                       f.evidenceId, <<f.from, f.to>>)
<1>1. /\ OnePerId(RelationNodes(derived)) \subseteq graph.nodes
      /\ OnePerId(RelationEdges(derived)) \subseteq graph.edges
  <2>1. /\ graph.nodes = Later(Later(OnePerId(SymbolNodes(Symbols(doc))),
                                     OnePerId(FactNodes(CanonicalFacts(doc)))),
                               OnePerId(RelationNodes(derived)))
        /\ graph.edges = Later(Later(SymbolEdges(Symbols(doc)),
                                     OnePerId(FactEdges(CanonicalFacts(doc)))),
                               OnePerId(RelationEdges(derived)))
    BY ProjectIs
  <2> QED
    BY <2>1, LaterKeeps
<1>2. PICK n \in graph.nodes : n.id = EndNode(f.from) /\ f.from.id \in n.values
  BY <1>1, EndNodeHolds
<1>3. PICK m \in graph.nodes : m.id = EndNode(f.to) /\ f.to.id \in m.values
  BY <1>1, EndNodeHolds
<1>4. own \in RelationEdges(derived)
        /\ own.id = <<EndNode(f.from), f.kind, EndNode(f.to)>>
  BY DEF RelationEdges, Edge, EdgeId
<1>5. PICK e \in OnePerId(RelationEdges(derived)) : e.id = own.id
  BY <1>4, OnePerIdKeeps
<1> HIDE DEF derived, graph, own
<1>6. PICK g \in derived :
        e = Edge(EndNode(g.from), g.kind, EndNode(g.to), g.path,
                 g.evidenceId, <<g.from, g.to>>)
  BY <1>5, OnePerIdKeeps DEF RelationEdges
<1>7. /\ e.id = <<EndNode(g.from), g.kind, EndNode(g.to)>>
      /\ e.kind = g.kind /\ e.fromNodeId = EndNode(g.from)
      /\ e.toNodeId = EndNode(g.to)
  BY <1>6 DEF Edge, EdgeId
<1>8. /\ e.kind = f.kind /\ e.fromNodeId = EndNode(f.from)
      /\ e.toNodeId = EndNode(f.to)
  BY <1>4, <1>5, <1>7
<1> QED
  BY <1>1, <1>2, <1>3, <1>5, <1>8 DEF InGraph, graph

\* Every derived fact is in the overlays of its kind.
LEMMA OverlayHoldsFacts ==
  ASSUME NEW doc, NEW f \in DerivedFacts(doc), NEW k \in DOMAIN OverlayKinds,
         f.kind \in OverlayKinds[k]
  PROVE  InOverlay(f, Overlay(doc, k))
<1> DEFINE facts == {g \in DerivedFacts(doc) : g.kind \in OverlayKinds[k]}
           edge == [fromId |-> f.from.id, toId |-> f.to.id, fact |-> f.id]
<1>1. f \in facts
  OBVIOUS
<1>2. Overlay(doc, k) =
        [edges |-> {[fromId |-> g.from.id, toId |-> g.to.id, fact |-> g.id]
                      : g \in facts},
         nodes |-> UNION {{g.from.id, g.to.id} : g \in facts}]
  BY DEF Overlay
<1> HIDE DEF facts
<1>3. edge \in Overlay(doc, k).edges
        /\ {f.from.id, f.to.id} \subseteq Overlay(doc, k).nodes
  BY <1>1, <1>2
<1> QED
  BY <1>3 DEF InOverlay

-----------------------------------------------------------------------------
(* What the stores hold *)

\* The versions of all files that a store may hold, and a run's calls.
Kept == {v \in [Paths -> Nat] : \A p \in Paths : v[p] \in Versions(p)}
RunCalls == {c \in [path : Paths, store : Stores, version : Nat] :
               c.version \in Versions(c.path)}

StoresOK == /\ stored \in [Stores -> Kept]
            /\ agenda \in Seq(RunCalls)

\* The calls a are of other stores or files; the last one of store s for p is
\* of version w.
Its(call, s, p) == call.path = p /\ call.store = s
Untouched(a, s, p) == \A j \in DOMAIN a : ~Its(a[j], s, p)
LastIs(a, s, p, w) ==
  \E i \in DOMAIN a :
    /\ a[i] = [path |-> p, store |-> s, version |-> w]
    /\ \A j \in DOMAIN a : j > i => ~Its(a[j], s, p)

\* Once the calls on the agenda have been made, the store holds version w, or
\* its last call is known not to have been carried out.
Settles(s, p, w) ==
  \/ /\ Untouched(agenda, s, p)
     /\ stored[s][p] = w \/ <<s, p>> \in failed
  \/ LastIs(agenda, s, p, w)

\* The facts, the graph and the overlays of a file come to be of one version.
\* The overlays of a file that is gone are not purged.
StoresAgree ==
  \A p \in Paths : \E w \in Versions(p) :
    /\ Settles("derived", p, w) /\ Settles("graph", p, w)
    /\ w # 0 => Settles("overlays", p, w)

\* A file has versions, and may be gone.
LEMMA VersionsAre ==
  ASSUME NEW p \in Paths
  PROVE  /\ Len(Docs[p]) \in Nat \ {0}
         /\ Versions(p) = 0..Len(Docs[p])
         /\ {0, 1} \subseteq Versions(p)
         /\ Versions(p) \subseteq Nat
         /\ DOMAIN Docs[p] = 1..Len(Docs[p])
<1>1. Docs[p] \in Seq(ToSet(Docs[p])) \ {<<>>}
  BY QueriesAssumption
<1> HIDE DEF ToSet
<1> QED
  BY <1>1 DEF Versions

\* Where the elements of two sequences are in their concatenation.
LEMMA Joined ==
  ASSUME NEW S, NEW s \in Seq(S), NEW t \in Seq(S)
  PROVE  /\ s \o t \in Seq(S) /\ Len(s \o t) = Len(s) + Len(t)
         /\ \A i \in 1..Len(s) : (s \o t)[i] = s[i]
         /\ \A i \in 1..Len(t) : (s \o t)[Len(s) + i] = t[i]
<1>1. s \o t \in Seq(S) /\ Len(s \o t) = Len(s) + Len(t)
  OBVIOUS
<1>2. \A i \in 1..Len(s) + Len(t) :
        (s \o t)[i] = IF i <= Len(s) THEN s[i] ELSE t[i - Len(s)]
  OBVIOUS
<1>3. Len(s) \in Nat /\ Len(t) \in Nat
  OBVIOUS
<1>4. ASSUME NEW i \in 1..Len(s)
      PROVE  (s \o t)[i] = s[i]
  BY <1>2, <1>3
<1>5. ASSUME NEW i \in 1..Len(t)
      PROVE  (s \o t)[Len(s) + i] = t[i]
  <2>1. /\ Len(s) + i \in 1..Len(s) + Len(t) /\ ~(Len(s) + i <= Len(s))
        /\ (Len(s) + i) - Len(s) = i
    BY <1>3
  <2> QED
    BY <1>2, <2>1
<1> QED
  BY <1>1, <1>4, <1>5

\* The calls of some stores for a version of a file, one after the other.
LEMMA CallsAre ==
  ASSUME NEW names \in Seq(Stores), NEW p \in Paths, NEW v \in Versions(p)
  PROVE  LET a == StoreCalls(names, p, v)
         IN /\ a \in Seq(RunCalls) /\ DOMAIN a = 1..Len(names)
            /\ \A i \in 1..Len(names) :
                 a[i] = [path |-> p, store |-> names[i], version |-> v]
            /\ \A i \in DOMAIN a : a[i].path = p
<1> DEFINE n == Len(names)
           Call(s) == [path |-> p, store |-> s, version |-> v]
           a == [i \in 1..n |-> Call(names[i])]
<1>1. StoreCalls(names, p, v) = a
  BY DEF StoreCalls
<1>2. \A s \in Stores : Call(s) \in RunCalls
  BY VersionsAre DEF RunCalls
<1>3. n \in Nat /\ \A i \in 1..n : names[i] \in Stores
  OBVIOUS
<1> HIDE DEF Call, n
<1>4. a \in [1..n -> RunCalls]
  BY <1>2, <1>3
<1>5. a \in Seq(RunCalls)
  BY <1>3, <1>4, ListIs
<1>6. \A i \in DOMAIN a : a[i].path = p
  BY DEF Call
<1> QED
  BY <1>1, <1>5, <1>6 DEF Call, n

\* The last call of a store.
LEMMA LastCallIs ==
  ASSUME NEW names \in Seq(Stores), NEW p \in Paths, NEW v \in Versions(p),
         NEW i \in 1..Len(names),
         \A j \in 1..Len(names) : j > i => names[j] # names[i]
  PROVE  LastIs(StoreCalls(names, p, v), names[i], p, v)
<1> DEFINE a == StoreCalls(names, p, v)
<1>1. /\ DOMAIN a = 1..Len(names)
      /\ \A j \in 1..Len(names) :
           a[j] = [path |-> p, store |-> names[j], version |-> v]
  BY CallsAre
<1> HIDE DEF a
<1>2. \A j \in DOMAIN a : j > i => ~Its(a[j], names[i], p)
  BY <1>1 DEF Its
<1>3. LastIs(a, names[i], p, v)
  BY <1>1, <1>2 DEF LastIs
<1> QED
  BY <1>3 DEF a

\* The last call of a sequence is the last of what ends with it.
LEMMA LastOfJoined ==
  ASSUME NEW a \in Seq(RunCalls), NEW b \in Seq(RunCalls), NEW s, NEW p, NEW w,
         LastIs(b, s, p, w)
  PROVE  LastIs(a \o b, s, p, w)
<1> DEFINE m == Len(a)
           n == Len(b)
           c == a \o b
<1>1. /\ c \in Seq(RunCalls) /\ Len(c) = m + n
      /\ \A i \in 1..n : c[m + i] = b[i]
  BY Joined
<1>2. m \in Nat /\ n \in Nat /\ DOMAIN b = 1..n
  OBVIOUS
<1>3. DOMAIN c = 1..m + n
  BY <1>1
<1>4. PICK i \in 1..n : /\ b[i] = [path |-> p, store |-> s, version |-> w]
                        /\ \A j \in 1..n : j > i => ~Its(b[j], s, p)
  BY <1>2 DEF LastIs
<1> HIDE DEF m, n, c
<1>5. m + i \in 1..m + n
  BY <1>2
<1>6. ASSUME NEW j \in 1..m + n, j > m + i
      PROVE  ~Its(c[j], s, p)
  <2>1. j - m \in 1..n /\ j - m > i /\ j = m + (j - m)
    BY <1>2, <1>6
  <2>2. c[j] = b[j - m]
    BY <1>1, <2>1
  <2> QED
    BY <1>4, <2>1, <2>2
<1>7. c[m + i] = [path |-> p, store |-> s, version |-> w]
  BY <1>1, <1>4
<1>8. LastIs(c, s, p, w)
  BY <1>3, <1>5, <1>6, <1>7 DEF LastIs
<1> QED
  BY <1>8 DEF c

\* What is written of a file, and what is purged of one that is gone.
LEMMA WrittenAre ==
  ASSUME NEW p \in Paths, NEW v \in Versions(p)
  PROVE  LET a == StoreCalls(WrittenStores, p, v)
         IN /\ a \in Seq(RunCalls)
            /\ \A i \in DOMAIN a : a[i].path = p
            /\ LastIs(a, "derived", p, v) /\ LastIs(a, "graph", p, v)
            /\ LastIs(a, "overlays", p, v)
<1>1. WrittenStores \in Seq(Stores) /\ Len(WrittenStores) = 6
  BY DEF WrittenStores, Stores
<1>2. /\ WrittenStores[3] = "derived" /\ WrittenStores[4] = "graph"
      /\ WrittenStores[5] = "overlays" /\ WrittenStores[6] = "manifest"
  BY DEF WrittenStores
<1>3. \A j \in 1..6 : /\ j > 3 => j \in 4..6
                      /\ j > 4 => j \in 5..6
                      /\ j > 5 => j = 6
  OBVIOUS
<1>4. \A j \in 1..6 : /\ j > 3 => WrittenStores[j] # WrittenStores[3]
                      /\ j > 4 => WrittenStores[j] # WrittenStores[4]
                      /\ j > 5 => WrittenStores[j] # WrittenStores[5]
  <2>1. 4..6 = {4, 5, 6} /\ 5..6 = {5, 6}
    OBVIOUS
  <2> QED
    BY <1>2, <1>3, <2>1
<1>5. ASSUME NEW i \in {3, 4, 5}
      PROVE  LastIs(StoreCalls(WrittenStores, p, v), WrittenStores[i], p, v)
  <2>1. i \in 1..Len(WrittenStores)
    BY <1>1
  <2>2. \A j \in 1..Len(WrittenStores) : j > i =>
          WrittenStores[j] # WrittenStores[i]
    BY <1>1, <1>4
  <2> QED
    BY <1>1, <2>1, <2>2, LastCallIs
<1>6. LET a == StoreCalls(WrittenStores, p, v)
      IN a \in Seq(RunCalls) /\ \A i \in DOMAIN a : a[i].path = p
  BY <1>1, CallsAre
<1> QED
  BY <1>2, <1>5, <1>6

\* What is purged of a file.
LEMMA PurgedAre ==
  ASSUME NEW p \in Paths
  PROVE  /\ 0 \in Versions(p)
         /\ StoreCalls(PurgedStores, p, 0) \in Seq(RunCalls)
         /\ \A i \in DOMAIN StoreCalls(PurgedStores, p, 0) :
              StoreCalls(PurgedStores, p, 0)[i].path = p
         /\ LET a == StoreCalls(<<"manifest">> \o PurgedStores, p, 0)
            IN /\ a \in Seq(RunCalls)
               /\ \A i \in DOMAIN a : a[i].path = p
               /\ LastIs(a, "derived", p, 0) /\ LastIs(a, "graph", p, 0)
<1> DEFINE first == <<"manifest">>
           names == first \o PurgedStores
<1>1. /\ PurgedStores \in Seq(Stores) /\ Len(PurgedStores) = 4
      /\ PurgedStores[3] = "derived" /\ PurgedStores[4] = "graph"
  BY DEF PurgedStores, Stores
<1>2. first \in Seq(Stores) /\ Len(first) = 1
  BY DEF Stores
<1>3. 0 \in Versions(p)
  BY VersionsAre
<1> HIDE DEF first
<1>4. /\ names \in Seq(Stores) /\ Len(names) = Len(first) + Len(PurgedStores)
      /\ \A i \in 1..Len(PurgedStores) :
           names[Len(first) + i] = PurgedStores[i]
  <2>1. PurgedStores \in Seq(Stores) /\ first \in Seq(Stores)
    BY <1>1, <1>2
  <2> QED
    BY <2>1, Joined
<1> HIDE DEF names
<1>5. Len(names) = 5 /\ names[4] = "derived" /\ names[5] = "graph"
  <2>1. 3 \in 1..4 /\ 4 \in 1..4 /\ 1 + 3 = 4 /\ 1 + 4 = 5
    OBVIOUS
  <2> QED
    BY <1>1, <1>2, <1>4, <2>1
<1>6. \A j \in 1..5 : (j > 4 => j = 5) /\ ~(j > 5)
  OBVIOUS
<1>7. ASSUME NEW i \in {4, 5}
      PROVE  LastIs(StoreCalls(names, p, 0), names[i], p, 0)
  <2>1. i \in 1..Len(names)
    BY <1>5
  <2>2. \A j \in 1..Len(names) : j > i => names[j] # names[i]
    BY <1>5, <1>6
  <2> QED
    BY <1>3, <1>4, <2>1, <2>2, LastCallIs
<1>8. LET a == StoreCalls(names, p, 0)
      IN a \in Seq(RunCalls) /\ \A i \in DOMAIN a : a[i].path = p
  BY <1>3, <1>4, CallsAre
<1>9. LET a == StoreCalls(PurgedStores, p, 0)
      IN a \in Seq(RunCalls) /\ \A i \in DOMAIN a : a[i].path = p
  BY <1>1, <1>3, CallsAre
<1> QED
  BY <1>3, <1>5, <1>7, <1>8, <1>9 DEF names, first

\* The calls of an update are of its file, and the last ones write the facts,
\* the graph and the overlays.
LEMMA UpdateIs ==
  ASSUME NEW p \in Paths, NEW v \in Versions(p), NEW known \in BOOLEAN
  PROVE  LET a == UpdateCalls(p, v, known)
         IN /\ a \in Seq(RunCalls)
            /\ \A i \in DOMAIN a : a[i].path = p
            /\ LastIs(a, "derived", p, v) /\ LastIs(a, "graph", p, v)
            /\ v # 0 => LastIs(a, "overlays", p, v)
<1> DEFINE purge == StoreCalls(PurgedStores, p, 0)
           write == StoreCalls(WrittenStores, p, v)
           gone == StoreCalls(<<"manifest">> \o PurgedStores, p, 0)
           both == purge \o write
           first == <<>> \o write
           a == UpdateCalls(p, v, known)
<1>1. CASE v = 0
  <2>1. a = gone
    BY <1>1 DEF UpdateCalls
  <2> HIDE DEF a, gone
  <2>2. /\ gone \in Seq(RunCalls)
        /\ \A i \in DOMAIN gone : gone[i].path = p
        /\ LastIs(gone, "derived", p, 0) /\ LastIs(gone, "graph", p, 0)
    BY PurgedAre DEF gone
  <2> QED
    BY <1>1, <2>1, <2>2 DEF a
<1>2. /\ purge \in Seq(RunCalls)
      /\ \A i \in DOMAIN purge : purge[i].path = p
  BY PurgedAre
<1>3. /\ write \in Seq(RunCalls)
      /\ \A i \in DOMAIN write : write[i].path = p
      /\ LastIs(write, "derived", p, v) /\ LastIs(write, "graph", p, v)
      /\ LastIs(write, "overlays", p, v)
  BY WrittenAre
<1>4. CASE v # 0 /\ known
  <2>1. a = both
    BY <1>4 DEF UpdateCalls
  <2> HIDE DEF a, purge, write
  <2>2. /\ both \in Seq(RunCalls) /\ Len(both) = Len(purge) + Len(write)
        /\ \A i \in 1..Len(purge) : both[i] = purge[i]
        /\ \A i \in 1..Len(write) : both[Len(purge) + i] = write[i]
    BY <1>2, <1>3, Joined
  <2>3. /\ LastIs(both, "derived", p, v) /\ LastIs(both, "graph", p, v)
        /\ LastIs(both, "overlays", p, v)
    BY <1>2, <1>3, LastOfJoined
  <2> HIDE DEF both
  <2>4. ASSUME NEW i \in DOMAIN both
        PROVE  both[i].path = p
    <3>1. /\ Len(purge) \in Nat /\ DOMAIN purge = 1..Len(purge)
          /\ Len(write) \in Nat /\ DOMAIN write = 1..Len(write)
          /\ DOMAIN both = 1..Len(purge) + Len(write)
      BY <1>2, <1>3, <2>2
    <3>2. CASE i \in 1..Len(purge)
      BY <1>2, <2>2, <3>1, <3>2
    <3>3. CASE i \notin 1..Len(purge)
      <4>1. /\ i - Len(purge) \in 1..Len(write)
            /\ i = Len(purge) + (i - Len(purge))
        BY <3>1, <3>3
      <4>2. both[i] = write[i - Len(purge)]
        BY <2>2, <4>1
      <4> QED
        BY <1>3, <3>1, <4>1, <4>2
    <3> QED
      BY <3>2, <3>3
  <2> QED
    BY <1>4, <2>1, <2>2, <2>3, <2>4 DEF a
<1>5. CASE v # 0 /\ ~known
  <2>1. a = first
    BY <1>5 DEF UpdateCalls
  <2> HIDE DEF a, write
  <2>2. first = write
    BY <1>3, ConcatEmptySeq
  <2> HIDE DEF first
  <2> QED
    BY <1>3, <1>5, <2>1, <2>2 DEF a
<1> QED
  BY <1>1, <1>4, <1>5

\* The steps that move what the stores hold.
LEMMA StoresMove ==
  ASSUME [Next]_vars
  PROVE  \/ UNCHANGED <<stored, agenda, failed>>
         \/ StoreCall
         \/ Fails(AgendaAfter) \/ Fails(<<>>)
         \/ \E p \in Paths : \E v \in Versions(p) : StartUpdate(p, v)
BY DEF Next, vars, index, SourceChanges, CallFails, Stop, Ask, Read, Hop,
       TimeOut, EndTrace, Return

\* What an update does to them.
LEMMA UpdateMoves ==
  ASSUME NEW p, NEW v, StartUpdate(p, v)
  PROVE  /\ agenda = <<>> /\ UNCHANGED <<stored, failed>>
         /\ \E known \in BOOLEAN : agenda' = UpdateCalls(p, v, known)
<1> (stored.manifest[p] # 0) \in BOOLEAN
  OBVIOUS
<1> QED
  BY DEF StartUpdate

\* What a call leaves is its own version, or what was there.
LEMMA CallLeaves ==
  ASSUME NEW call
  PROVE  Left(call) \in {call.version, stored[call.store][call.path]}
BY DEF Left

\* A call is the first on the agenda.
LEMMA CallMoves ==
  ASSUME StoresOK, StoreCall
  PROVE  LET call == agenda[1]
         IN /\ agenda # <<>> /\ agenda' = Tail(agenda)
            /\ stored' = [stored EXCEPT ![call.store][call.path] = Left(call)]
            /\ failed' = (failed \ {<<call.store, call.path>>})
                           \cup IF Left(call) = call.version THEN {}
                                ELSE {<<call.store, call.path>>}
<1>1. agenda \in Seq(RunCalls) /\ agenda # <<>>
  BY DEF StoresOK, StoreCall
<1>2. Head(agenda) = agenda[1]
  BY <1>1
<1> QED
  BY <1>2 DEF StoreCall

\* Where the calls are when the first has been taken off.
LEMMA TailIs ==
  ASSUME NEW a \in Seq(RunCalls), a # <<>>
  PROVE  /\ Len(a) \in Nat \ {0} /\ DOMAIN a = 1..Len(a)
         /\ Tail(a) \in Seq(RunCalls) /\ DOMAIN Tail(a) = 1..Len(a) - 1
         /\ \A j \in 1..Len(a) - 1 :
              j + 1 \in 1..Len(a) /\ Tail(a)[j] = a[j + 1]
OBVIOUS

\* The last call of a store is the first of all, or is still there.
LEMMA LastOfTail ==
  ASSUME NEW a \in Seq(RunCalls), a # <<>>, NEW s, NEW p, NEW w
  PROVE  /\ Untouched(a, s, p) => Untouched(Tail(a), s, p) /\ ~Its(a[1], s, p)
         /\ LastIs(a, s, p, w) =>
              \/ LastIs(Tail(a), s, p, w)
              \/ /\ Untouched(Tail(a), s, p)
                 /\ a[1] = [path |-> p, store |-> s, version |-> w]
<1> DEFINE n == Len(a)
           b == Tail(a)
<1>1. /\ n \in Nat \ {0} /\ DOMAIN a = 1..n /\ DOMAIN b = 1..n - 1
      /\ \A j \in 1..n - 1 : j + 1 \in 1..n /\ b[j] = a[j + 1]
  BY TailIs
<1>2. 1 \in 1..n
  BY <1>1
<1> HIDE DEF n, b
<1>3. ASSUME Untouched(a, s, p)
      PROVE  Untouched(b, s, p) /\ ~Its(a[1], s, p)
  BY <1>1, <1>2, <1>3 DEF Untouched
<1>4. ASSUME LastIs(a, s, p, w)
      PROVE  \/ LastIs(b, s, p, w)
             \/ /\ Untouched(b, s, p)
                /\ a[1] = [path |-> p, store |-> s, version |-> w]
  <2>1. PICK i \in 1..n : /\ a[i] = [path |-> p, store |-> s, version |-> w]
                          /\ \A j \in 1..n : j > i => ~Its(a[j], s, p)
    BY <1>1, <1>4 DEF LastIs
  <2>2. \A j \in 1..n - 1 : j + 1 > i => ~Its(b[j], s, p)
    BY <1>1, <2>1
  <2>3. CASE i = 1
    <3>1. \A j \in 1..n - 1 : j + 1 > i
      BY <1>1, <2>3
    <3> QED
      BY <1>1, <2>1, <2>2, <2>3, <3>1 DEF Untouched
  <2>4. CASE i # 1
    <3>1. i - 1 \in 1..n - 1 /\ (i - 1) + 1 = i
      BY <1>1, <2>4
    <3>2. b[i - 1] = [path |-> p, store |-> s, version |-> w]
      BY <1>1, <2>1, <3>1
    <3>3. \A j \in 1..n - 1 : j > i - 1 => j + 1 > i
      BY <1>1
    <3> QED
      BY <1>1, <2>2, <3>1, <3>2, <3>3 DEF LastIs
  <2> QED
    BY <2>3, <2>4
<1> QED
  BY <1>3, <1>4 DEF b

\* A call settles what it is about, and leaves the rest.
LEMMA CallSettles ==
  ASSUME StoresOK, StoreCall, NEW s \in Stores, NEW p \in Paths, NEW w,
         Settles(s, p, w)
  PROVE  Settles(s, p, w)'
<1> DEFINE call == agenda[1]
           pair == <<call.store, call.path>>
<1>1. /\ agenda \in Seq(RunCalls) /\ stored \in [Stores -> Kept]
      /\ agenda # <<>> /\ agenda' = Tail(agenda)
      /\ stored' = [stored EXCEPT ![call.store][call.path] = Left(call)]
      /\ failed' = (failed \ {pair})
                     \cup IF Left(call) = call.version THEN {} ELSE {pair}
  BY CallMoves DEF StoresOK
<1>2. stored[s] \in [Paths -> Nat] /\ s \in DOMAIN stored
        /\ DOMAIN stored[s] = Paths
  BY <1>1 DEF Kept
<1>3. ASSUME ~Its(call, s, p)
      PROVE  /\ stored'[s][p] = stored[s][p]
             /\ <<s, p>> \in failed => <<s, p>> \in failed'
  <2>1. pair # <<s, p>>
    BY <1>3 DEF Its
  <2> QED
    BY <1>1, <1>2, <1>3, <2>1 DEF Its
<1>4. ASSUME Its(call, s, p)
      PROVE  stored'[s][p] = call.version \/ <<s, p>> \in failed'
  <2>1. pair = <<s, p>>
    BY <1>4 DEF Its
  <2>2. stored'[s][p] = Left(call)
    BY <1>1, <1>2, <1>4 DEF Its
  <2> QED
    BY <1>1, <2>1, <2>2
<1> HIDE DEF call, pair
<1>5. CASE /\ Untouched(agenda, s, p)
           /\ stored[s][p] = w \/ <<s, p>> \in failed
  <2>1. Untouched(Tail(agenda), s, p) /\ ~Its(call, s, p)
    BY <1>1, <1>5, LastOfTail DEF call
  <2>2. stored'[s][p] = w \/ <<s, p>> \in failed'
    BY <1>3, <1>5, <2>1
  <2> QED
    BY <1>1, <2>1, <2>2 DEF Settles
<1>6. CASE LastIs(agenda, s, p, w)
  <2>1. \/ LastIs(Tail(agenda), s, p, w)
        \/ /\ Untouched(Tail(agenda), s, p)
           /\ call = [path |-> p, store |-> s, version |-> w]
    BY <1>1, <1>6, LastOfTail DEF call
  <2>2. CASE LastIs(Tail(agenda), s, p, w)
    BY <1>1, <2>2 DEF Settles
  <2>3. CASE /\ Untouched(Tail(agenda), s, p)
             /\ call = [path |-> p, store |-> s, version |-> w]
    <3>1. Its(call, s, p) /\ call.version = w
      BY <2>3 DEF Its
    <3>2. stored'[s][p] = w \/ <<s, p>> \in failed'
      BY <1>4, <3>1
    <3> QED
      BY <1>1, <2>3, <3>2 DEF Settles
  <2> QED
    BY <2>1, <2>2, <2>3
<1> QED
  BY <1>5, <1>6 DEF Settles

\* What a failed call, or the end of the process, leaves of the agenda: all the
\* others, nothing, or the entry in the manifest.
LEMMA RestIs ==
  ASSUME StoresOK, NEW rest, rest \in {AgendaAfter, <<>>}, agenda # <<>>
  PROVE  /\ rest \in Seq(RunCalls)
         /\ \/ rest = Tail(agenda)
            \/ \A j \in DOMAIN rest : rest[j].store = "manifest"
<1> DEFINE call == Head(agenda)
           last == StoreCalls(<<"manifest">>, call.path, call.version)
<1>1. agenda \in Seq(RunCalls)
  BY DEF StoresOK
<1>2. call \in RunCalls /\ Tail(agenda) \in Seq(RunCalls)
  BY <1>1
<1>3. call.path \in Paths /\ call.version \in Versions(call.path)
  BY <1>2 DEF RunCalls
<1>4. /\ last \in Seq(RunCalls)
      /\ \A j \in DOMAIN last : last[j].store = "manifest"
  <2> DEFINE names == <<"manifest">>
  <2>1. /\ names \in Seq(Stores) /\ Len(names) = 1 /\ names[1] = "manifest"
        /\ 1..1 = {1}
    BY DEF Stores
  <2> HIDE DEF names, call
  <2>2. LET a == StoreCalls(names, call.path, call.version)
        IN /\ a \in Seq(RunCalls) /\ DOMAIN a = 1..Len(names)
           /\ \A i \in 1..Len(names) :
                a[i] = [path |-> call.path, store |-> names[i],
                        version |-> call.version]
    BY <1>3, <2>1, CallsAre
  <2>3. StoreCalls(names, call.path, call.version) = last
    BY DEF names, last
  <2> HIDE DEF last
  <2> QED
    BY <2>1, <2>2, <2>3
<1>5. AgendaAfter \in {last, Tail(agenda), <<>>}
  BY Zenon DEF AgendaAfter
<1>6. rest \in {last, Tail(agenda), <<>>}
  BY <1>5
<1> HIDE DEF last
<1>7. /\ <<>> \in Seq(RunCalls)
      /\ \A j \in DOMAIN <<>> : <<>>[j].store = "manifest"
  OBVIOUS
<1> QED
  BY <1>2, <1>4, <1>6, <1>7

\* A call that is not carried out is known of, and so is a store cut short.
LEMMA FailSettles ==
  ASSUME StoresOK, NEW rest, rest \in {AgendaAfter, <<>>}, Fails(rest),
         NEW s \in Stores \ {"manifest"}, NEW p \in Paths, NEW w,
         Settles(s, p, w)
  PROVE  Settles(s, p, w)'
<1> DEFINE call == Head(agenda)
           skipped == {<<c.store, c.path>> : c \in ToSet(agenda) \ ToSet(rest)}
<1>1. PICK torn \in BOOLEAN :
        /\ stored' = IF torn THEN [stored EXCEPT ![call.store] = Nowhere]
                     ELSE stored
        /\ failed' = failed \cup skipped
                       \cup IF torn THEN {call.store} \X Paths ELSE {}
  BY DEF Fails
<1>2. agenda # <<>> /\ agenda' = rest
  BY DEF Fails
<1>3. /\ rest \in Seq(RunCalls)
      /\ \/ rest = Tail(agenda)
         \/ \A j \in DOMAIN rest : rest[j].store = "manifest"
  BY <1>2, RestIs
<1>4. agenda \in Seq(RunCalls) /\ stored \in [Stores -> Kept]
  BY DEF StoresOK
<1>5. stored'[s][p] = stored[s][p] \/ <<s, p>> \in failed'
  BY <1>1, <1>4
<1>6. <<s, p>> \in failed => <<s, p>> \in failed'
  BY <1>1
<1>7. ASSUME NEW i \in DOMAIN agenda, Its(agenda[i], s, p),
             Untouched(rest, s, p)
      PROVE  <<s, p>> \in failed'
  <2>1. agenda[i] \in ToSet(agenda)
    BY <1>4 DEF ToSet
  <2>2. agenda[i] \notin ToSet(rest)
    BY <1>3, <1>7 DEF ToSet, Untouched
  <2>3. <<s, p>> \in skipped
    BY <1>7, <2>1, <2>2 DEF Its
  <2> QED
    BY <1>1, <2>3
<1> HIDE DEF call, skipped
<1>8. CASE Untouched(rest, s, p)
  <2>1. stored'[s][p] = w \/ <<s, p>> \in failed'
    <3>1. CASE /\ Untouched(agenda, s, p)
               /\ stored[s][p] = w \/ <<s, p>> \in failed
      BY <1>5, <1>6, <3>1
    <3>2. CASE LastIs(agenda, s, p, w)
      <4>1. PICK i \in DOMAIN agenda :
              agenda[i] = [path |-> p, store |-> s, version |-> w]
        BY <3>2 DEF LastIs
      <4>2. Its(agenda[i], s, p)
        BY <4>1 DEF Its
      <4> QED
        BY <1>7, <1>8, <4>2
    <3> QED
      BY <3>1, <3>2 DEF Settles
  <2> QED
    BY <1>2, <1>8, <2>1 DEF Settles
<1>9. CASE ~Untouched(rest, s, p)
  <2>1. rest = Tail(agenda)
    BY <1>3, <1>9 DEF Untouched, Its
  <2>2. ~Untouched(agenda, s, p)
    BY <1>2, <1>4, <1>9, <2>1, LastOfTail
  <2>3. LastIs(agenda, s, p, w)
    BY <2>2 DEF Settles
  <2>4. LastIs(rest, s, p, w)
    BY <1>2, <1>4, <1>9, <2>1, <2>3, LastOfTail
  <2> QED
    BY <1>2, <2>4 DEF Settles
<1> QED
  BY <1>8, <1>9

\* Every step keeps the stores to versions that the files have.
LEMMA StoresOKStep ==
  ASSUME StoresOK, [Next]_vars
  PROVE  StoresOK'
<1>1. CASE UNCHANGED <<stored, agenda, failed>>
  BY <1>1 DEF StoresOK
<1>2. CASE StoreCall
  <2> DEFINE call == agenda[1]
             left == Left(call)
  <2>1. /\ agenda \in Seq(RunCalls) /\ stored \in [Stores -> Kept]
        /\ agenda # <<>> /\ agenda' = Tail(agenda)
        /\ stored' = [stored EXCEPT ![call.store][call.path] = left]
    BY <1>2, CallMoves DEF StoresOK
  <2>2. call \in RunCalls
    BY <2>1
  <2>3. /\ call.store \in Stores /\ call.path \in Paths
        /\ call.version \in Nat /\ call.version \in Versions(call.path)
    BY <2>2 DEF RunCalls
  <2>4. left \in {call.version, stored[call.store][call.path]}
    BY CallLeaves
  <2> HIDE DEF call, left
  <2>5. stored[call.store] \in Kept
    BY <2>1, <2>3
  <2>6. left \in Nat /\ left \in Versions(call.path)
    BY <2>3, <2>4, <2>5 DEF Kept
  <2>7. [stored[call.store] EXCEPT ![call.path] = left] \in Kept
    BY <2>3, <2>5, <2>6 DEF Kept
  <2>8. stored' \in [Stores -> Kept]
    BY <2>1, <2>3, <2>7
  <2> QED
    BY <2>1, <2>8 DEF StoresOK
<1>3. ASSUME NEW rest \in {AgendaAfter, <<>>}, Fails(rest)
      PROVE  StoresOK'
  <2>1. agenda # <<>> /\ agenda' = rest
    BY <1>3 DEF Fails
  <2>2. rest \in Seq(RunCalls)
    BY <1>3, <2>1, RestIs
  <2>3. Nowhere \in Kept
    BY VersionsAre DEF Nowhere, Kept
  <2>4. stored' \in [Stores -> Kept]
    <3>1. stored \in [Stores -> Kept]
      BY DEF StoresOK
    <3>2. \/ stored' = stored
          \/ stored' = [stored EXCEPT ![Head(agenda).store] = Nowhere]
      BY <1>3 DEF Fails
    <3> QED
      BY <2>3, <3>1, <3>2
  <2> QED
    BY <2>1, <2>2, <2>4 DEF StoresOK
<1>4. CASE \E p \in Paths : \E v \in Versions(p) : StartUpdate(p, v)
  <2>1. PICK p \in Paths : \E v \in Versions(p) : StartUpdate(p, v)
    BY <1>4
  <2>2. PICK v \in Versions(p) : StartUpdate(p, v)
    BY <2>1
  <2>3. PICK known \in BOOLEAN :
          agenda' = UpdateCalls(p, v, known) /\ stored' = stored
    BY <2>2, UpdateMoves
  <2>4. UpdateCalls(p, v, known) \in Seq(RunCalls)
    BY UpdateIs
  <2> QED
    BY <2>3, <2>4 DEF StoresOK
<1> QED
  BY <1>1, <1>2, <1>3, <1>4, StoresMove

\* Every step keeps what the stores of a file come to be.
LEMMA StoresAgreeStep ==
  ASSUME StoresOK, StoresAgree, [Next]_vars
  PROVE  StoresAgree'
<1> SUFFICES ASSUME NEW q \in Paths
             PROVE  \E w \in Versions(q) :
                      /\ Settles("derived", q, w)' /\ Settles("graph", q, w)'
                      /\ w # 0 => Settles("overlays", q, w)'
  BY DEF StoresAgree, Versions
<1>1. PICK w \in Versions(q) :
        /\ Settles("derived", q, w) /\ Settles("graph", q, w)
        /\ w # 0 => Settles("overlays", q, w)
  BY DEF StoresAgree
<1>2. {"derived", "graph", "overlays"} \subseteq Stores \ {"manifest"}
  BY DEF Stores
<1>3. CASE UNCHANGED <<stored, agenda, failed>>
  BY <1>1, <1>3 DEF Settles
<1>4. CASE StoreCall
  BY <1>1, <1>2, <1>4, CallSettles
<1>5. ASSUME NEW rest \in {AgendaAfter, <<>>}, Fails(rest)
      PROVE  /\ Settles("derived", q, w)' /\ Settles("graph", q, w)'
             /\ w # 0 => Settles("overlays", q, w)'
  BY <1>1, <1>2, <1>5, FailSettles
<1>6. ASSUME NEW p \in Paths, NEW v \in Versions(p), StartUpdate(p, v)
      PROVE  \E x \in Versions(q) :
               /\ Settles("derived", q, x)' /\ Settles("graph", q, x)'
               /\ x # 0 => Settles("overlays", q, x)'
  <2>1. PICK known \in BOOLEAN : agenda' = UpdateCalls(p, v, known)
    BY <1>6, UpdateMoves
  <2>2. agenda = <<>> /\ UNCHANGED <<stored, failed>>
    BY <1>6, UpdateMoves
  <2> DEFINE a == UpdateCalls(p, v, known)
  <2>3. /\ \A i \in DOMAIN a : a[i].path = p
        /\ LastIs(a, "derived", p, v) /\ LastIs(a, "graph", p, v)
        /\ v # 0 => LastIs(a, "overlays", p, v)
    BY UpdateIs
  <2> HIDE DEF a
  <2>4. agenda' = a
    BY <2>1 DEF a
  <2>5. CASE q # p
    <3>1. \A s : Untouched(a, s, q)
      BY <2>3, <2>5 DEF Untouched, Its
    <3>2. \A s, x : ~LastIs(<<>>, s, q, x)
      BY DEF LastIs
    <3>3. \A s : Settles(s, q, w) => stored[s][q] = w \/ <<s, q>> \in failed
      BY <2>2, <3>2 DEF Settles
    <3>4. \A s : Settles(s, q, w) => Settles(s, q, w)'
      BY <2>2, <2>4, <3>1, <3>3 DEF Settles
    <3> QED
      BY <1>1, <3>4
  <2>6. CASE q = p
    <3>1. Settles("derived", q, v)' /\ Settles("graph", q, v)'
      BY <2>3, <2>4, <2>6 DEF Settles
    <3>2. v # 0 => Settles("overlays", q, v)'
      BY <2>3, <2>4, <2>6 DEF Settles
    <3> QED
      BY <2>6, <3>1, <3>2
  <2> QED
    BY <2>5, <2>6
<1> QED
  BY <1>1, <1>3, <1>4, <1>5, <1>6, StoresMove

\* The first index has all of every file.
LEMMA StoresInit ==
  ASSUME Init
  PROVE  StoresOK /\ StoresAgree
<1>1. stored = [s \in Stores |-> [p \in Paths |-> 1]] /\ agenda = <<>>
  BY DEF Init
<1>2. [p \in Paths |-> 1] \in Kept
  BY VersionsAre DEF Kept
<1>3. StoresOK
  BY <1>1, <1>2 DEF StoresOK
<1>4. \A s \in Stores : \A p \in Paths : Settles(s, p, 1)
  BY <1>1 DEF Settles, Untouched
<1>5. StoresAgree
  BY <1>4, VersionsAre DEF StoresAgree, Stores
<1> QED
  BY <1>3, <1>5

\* What is stored of a version of a file.
StoredOf(doc) ==
  [symbols |-> Symbols(doc), canonical |-> CanonicalFacts(doc),
   derived |-> DerivedFacts(doc), graph |-> Project(doc),
   overlays |-> [k \in DOMAIN OverlayKinds |-> Overlay(doc, k)]]

\* What is stored of a version is that of its document.
LEMMA TableIs ==
  ASSUME NEW p \in Paths, NEW v \in Versions(p), v # 0
  PROVE  Table[p][v] = StoredOf(Docs[p][v])
BY QueriesAssumption DEF AllRecords, Table, StoredOf

\* What is stored of a file that is gone.
LEMMA TableOfNone ==
  ASSUME NEW p \in Paths
  PROVE  /\ Table[p][0].symbols = {} /\ Table[p][0].canonical = {}
         /\ Table[p][0].derived = {} /\ Table[p][0].graph.edges = {}
<1>1. 0 \in Versions(p)
  BY VersionsAre
<1> QED
  BY <1>1, QueriesAssumption DEF AllRecords, Table

\* The graphs hold the facts whenever the stores come to agree.
LEMMA GraphsHold ==
  ASSUME StoresOK, StoresAgree
  PROVE  GraphHoldsFacts
<1> SUFFICES ASSUME NEW p \in Paths
    PROVE  LET graph == Table[p][stored.graph[p]].graph
               facts == Table[p][stored.derived[p]].derived
               overlays == Table[p][stored.overlays[p]].overlays
           IN /\ Closed(graph)
              /\ Whole("graph", p) => \A f \in facts : InGraph(f, graph)
              /\ Whole("overlays", p) =>
                   \A f \in facts : \A k \in DOMAIN OverlayKinds :
                     f.kind \in OverlayKinds[k] => InOverlay(f, overlays[k])
  BY DEF GraphHoldsFacts
<1>1. \A s \in Stores : stored[s][p] \in Versions(p)
  BY DEF StoresOK, Kept
<1>2. Closed(Table[p][stored.graph[p]].graph)
  <2> DEFINE v == stored.graph[p]
  <2>1. v \in Versions(p)
    BY <1>1 DEF Stores
  <2> HIDE DEF v
  <2>2. CASE v = 0
    <3>1. Table[p][v].graph.edges = {}
      BY <2>2, TableOfNone
    <3> QED
      BY <3>1 DEF Closed, v
  <2>3. CASE v # 0
    <3>1. Table[p][v].graph = Project(Docs[p][v])
      <4>1. Table[p][v] = StoredOf(Docs[p][v])
        BY <2>1, <2>3, TableIs
      <4> QED
        BY <4>1 DEF StoredOf
    <3> QED
      BY <3>1, ProjectIsClosed DEF v
  <2> QED
    BY <2>2, <2>3
<1>3. PICK w \in Versions(p) :
        /\ Settles("derived", p, w) /\ Settles("graph", p, w)
        /\ w # 0 => Settles("overlays", p, w)
  BY DEF StoresAgree
<1>4. ASSUME NEW s, Settles(s, p, w), \A c \in ToSet(agenda) : c.path # p,
             <<s, p>> \notin failed
      PROVE  stored[s][p] = w
  <2>1. \A i \in DOMAIN agenda : agenda[i].path # p
    BY <1>4 DEF ToSet
  <2>2. ~LastIs(agenda, s, p, w)
    BY <2>1 DEF LastIs
  <2> QED
    BY <1>4, <2>2 DEF Settles
<1>5. ASSUME stored["derived"][p] = w,
             NEW f \in Table[p][stored.derived[p]].derived
      PROVE  /\ w # 0 /\ f \in DerivedFacts(Docs[p][w])
             /\ Table[p][w].graph = Project(Docs[p][w])
             /\ Table[p][w].overlays =
                  [k \in DOMAIN OverlayKinds |-> Overlay(Docs[p][w], k)]
  <2>1. w # 0
    BY <1>5, TableOfNone
  <2>2. Table[p][w] = StoredOf(Docs[p][w])
    BY <2>1, TableIs
  <2> QED
    BY <1>5, <2>1, <2>2 DEF StoredOf
<1>6. ASSUME Whole("graph", p), NEW f \in Table[p][stored.derived[p]].derived
      PROVE  InGraph(f, Table[p][stored.graph[p]].graph)
  <2>1. stored["derived"][p] = w /\ stored["graph"][p] = w
    BY <1>3, <1>4, <1>6 DEF Whole
  <2> QED
    BY <1>5, <1>6, <2>1, ProjectHoldsFacts
<1>7. ASSUME Whole("overlays", p), NEW f \in Table[p][stored.derived[p]].derived,
             NEW k \in DOMAIN OverlayKinds, f.kind \in OverlayKinds[k]
      PROVE  InOverlay(f, Table[p][stored.overlays[p]].overlays[k])
  <2>1. stored["derived"][p] = w
    BY <1>3, <1>4, <1>7 DEF Whole
  <2>2. stored["overlays"][p] = w
    BY <1>3, <1>4, <1>5, <1>7, <2>1 DEF Whole
  <2>3. InOverlay(f, Overlay(Docs[p][w], k))
    BY <1>5, <1>7, <2>1, OverlayHoldsFacts
  <2> QED
    BY <1>5, <1>7, <2>1, <2>2, <2>3
<1> QED
  BY <1>2, <1>6, <1>7

\* Flow is traced over the graph and impact over the facts: the graph stored of
\* a file is whole at any time, and when no update of the file is in progress
\* it, and the overlays, hold every derived fact, whatever calls have failed
\* before and wherever the process has ended, unless the last call for the
\* facts or for the graph is one that was not carried out.
THEOREM GraphTellsTheFacts == Spec => []GraphHoldsFacts
<1>1. Init => StoresOK /\ StoresAgree
  BY StoresInit
<1>2. StoresOK /\ StoresAgree /\ [Next]_vars => StoresOK' /\ StoresAgree'
  BY StoresOKStep, StoresAgreeStep
<1>3. StoresOK /\ StoresAgree => GraphHoldsFacts
  BY GraphsHold
<1> QED
  BY <1>1, <1>2, <1>3, PTL DEF Spec

-----------------------------------------------------------------------------
(* Symbols and calls *)

\* Calls as they are derived: all alike sure, and of one symbol to another.
LEMMA CallsAreSure ==
  ASSUME NEW doc, NEW f \in DerivedFacts(doc),
         f.kind = "caller-callee-candidate"
  PROVE  f.confidence = 55 /\ f.from.id # f.to.id
<1> DEFINE facts == CanonicalFacts(doc)
           symbolic == SymbolRelations(doc)
           others == FileRelations(doc, facts) \cup WorkflowRelations(doc, facts)
                       \cup CommandRelations(facts)
<1>1. f \in symbolic \cup others
  <2>1. DerivedFacts(doc) = OnePerId(symbolic \cup FileRelations(doc, facts)
                              \cup WorkflowRelations(doc, facts)
                              \cup CommandRelations(facts))
    BY DEF DerivedFacts, OnePerKey, OnePerId
  <2> HIDE DEF symbolic
  <2> QED
    BY <2>1, OnePerIdKeeps
<1>2. \A g \in FileRelations(doc, facts) : g.kind # "caller-callee-candidate"
  BY DEF FileRelations, DerivedFrom, Relation
<1>3. \A g \in WorkflowRelations(doc, facts) :
        g.kind # "caller-callee-candidate"
  BY DEF WorkflowRelations, DerivedFrom, Relation
<1>4. \A g \in CommandRelations(facts) : g.kind # "caller-callee-candidate"
  BY DEF CommandRelations, DerivedFrom, Relation
<1>5. \A g \in symbolic : g.kind = "caller-callee-candidate"
                            => g.confidence = 55 /\ g.from.id # g.to.id
  BY DEF SymbolRelations, Relation, SymbolEnd, End
<1> HIDE DEF symbolic
<1> QED
  BY <1>1, <1>2, <1>3, <1>4, <1>5

\* What a store holds is what it holds of some file.
LEMMA StoredHas ==
  ASSUME NEW store, NEW versions \in Kept, NEW r \in Stored(store, versions)
  PROVE  \E p \in Paths : versions[p] \in Versions(p)
                            /\ r \in Table[p][versions[p]][store]
BY DEF Stored, Kept

\* The facts in a store are finitely many, and listed.
LEMMA FactsListed ==
  ASSUME NEW versions \in Kept, NEW store \in {"derived", "canonical"}
  PROVE  LET facts == Stored(store, versions)
         IN /\ IsFiniteSet(facts)
            /\ Listed(store, versions) \in Seq(facts)
            /\ ToSet(Listed(store, versions)) = facts
<1> DEFINE g == [p \in Paths |-> Table[p][versions[p]][store]]
           facts == Stored(store, versions)
<1>1. \A p \in Paths : IsFiniteSet(g[p])
  BY QueriesAssumption DEF Table, Kept
<1>2. facts = UNION {g[p] : p \in Paths}
  BY DEF Stored
<1> HIDE DEF g, facts
<1>3. IsFiniteSet(Paths)
  BY QueriesAssumption
<1>4. IsFiniteSet(facts)
  BY <1>1, <1>2, <1>3, UnionFinite
<1>5. Enumerated(facts) \in Seq(facts) /\ ToSet(Enumerated(facts)) = facts
  BY <1>4, EnumeratedLists
<1> QED
  BY <1>4, <1>5 DEF Listed, facts

\* So are the derived ones.
LEMMA DerivedListed ==
  ASSUME NEW versions \in Kept
  PROVE  LET facts == Stored("derived", versions)
         IN /\ IsFiniteSet(facts)
            /\ Listed("derived", versions) \in Seq(facts)
            /\ ToSet(Listed("derived", versions)) = facts
BY FactsListed

\* A stored symbol has a name and the path of its file.
LEMMA SymbolsNamed ==
  ASSUME NEW versions \in Kept, NEW s \in Stored("symbols", versions)
  PROVE  s.path # "" /\ s.name # None
<1>1. PICK p \in Paths : versions[p] \in Versions(p)
                           /\ s \in Table[p][versions[p]].symbols
  BY StoredHas
<1>2. versions[p] # 0
  BY <1>1, TableOfNone
<1>3. s \in Symbols(Docs[p][versions[p]])
  <2>1. Table[p][versions[p]] = StoredOf(Docs[p][versions[p]])
    BY <1>1, <1>2, TableIs
  <2> QED
    BY <1>1, <2>1 DEF StoredOf
<1>4. Docs[p][versions[p]].path = p
  <2>1. versions[p] \in DOMAIN Docs[p]
    BY <1>1, <1>2, VersionsAre
  <2> QED
    BY <2>1, QueriesAssumption
<1>5. s.path = p /\ s.name # None
  <2> DEFINE doc == Docs[p][versions[p]]
             Of(b) == [evidenceId |-> <<doc.path, b.kind>> \o b.name \o <<b.line>>,
                       path |-> doc.path, kind |-> b.kind, name |-> b.name,
                       line |-> b.line]
  <2>1. doc.sourceType = "code"
    BY <1>3 DEF Symbols
  <2>2. s \in {Of(b) : b \in {b \in ToSet(doc.blocks) : b.name # None}}
    BY <1>3, <2>1 DEF Symbols
  <2>3. \A b : Of(b).path = doc.path /\ Of(b).name = b.name
    OBVIOUS
  <2> HIDE DEF Of
  <2> QED
    BY <1>4, <2>2, <2>3
<1> QED
  BY <1>5, QueriesAssumption

\* The symbols of that name in that file.
NamedIn(symbols, path, name) ==
  {c \in symbols : c.path = path /\ c.name = name}

\* What a lookup finds of candidates that rank the same.
OnlyOne(C, notFound, ambiguous) ==
  LET c == CHOOSE c \in C : TRUE
  IN IF C = {} THEN Failed(notFound)
     ELSE IF Cardinality(C) > 1 THEN Failed(ambiguous)
     ELSE Found(c.evidenceId, c.path)

\* The best of candidates that rank the same are all of them.
RankedBest(C, best, notFound, ambiguous) ==
  CASE C = {} -> Failed(notFound)
    [] Cardinality(best) > 1 -> Failed(ambiguous)
    [] OTHER -> LET c == CHOOSE c \in best : TRUE
                IN Found(c.evidenceId, c.path)

\* When all rank alike the best is one that is the only one.
LEMMA EquallyRanked ==
  ASSUME NEW C, NEW notFound, NEW ambiguous
  PROVE  RankedBest(C, C, notFound, ambiguous)
           = OnlyOne(C, notFound, ambiguous)
<1>1. CASE C = {}
  <2>1. Cardinality(C) = 0
    BY <1>1, FS_EmptySet
  <2>2. ~(Cardinality(C) > 1)
    BY <2>1
  <2> QED
    BY <1>1, <2>2 DEF OnlyOne, RankedBest
<1>2. CASE C # {} /\ Cardinality(C) > 1
  BY <1>2 DEF OnlyOne, RankedBest
<1>3. CASE C # {} /\ ~(Cardinality(C) > 1)
  BY <1>3 DEF OnlyOne, RankedBest
<1> QED
  BY <1>1, <1>2, <1>3

\* All symbols of a name in a file rank the same, in both use cases.
LEMMA ScoresAre ==
  ASSUME NEW c, NEW path, NEW name, c.path = path, c.name = name
  PROVE  SymbolScore(c, path, name) = 1175 /\ AnchorScore(c, path) = 1175
<1>1. /\ (IF name = c.name THEN 1000 ELSE 0) = 1000
      /\ (IF path = c.path THEN 100 ELSE 0) = 100
  OBVIOUS
<1> QED
  BY <1>1 DEF SymbolScore, AnchorScore, InferConfidence

\* Symbols with one name in one file score alike, in either use case.
LEMMA BestAre ==
  ASSUME NEW symbols, NEW path, NEW name
  PROVE  LET C == NamedIn(symbols, path, name)
         IN /\ {c \in C : \A d \in C : SymbolScore(d, path, name)
                                         <= SymbolScore(c, path, name)} = C
            /\ {c \in C : \A d \in C : AnchorScore(d, path)
                                         <= AnchorScore(c, path)} = C
<1> DEFINE C == NamedIn(symbols, path, name)
<1>1. \A c \in C : SymbolScore(c, path, name) = 1175
                      /\ AnchorScore(c, path) = 1175
  BY ScoresAre DEF NamedIn
<1> HIDE DEF C
<1>2. \A c, d \in C : /\ SymbolScore(d, path, name)
                            <= SymbolScore(c, path, name)
                       /\ AnchorScore(d, path) <= AnchorScore(c, path)
  BY <1>1
<1> QED
  BY <1>2 DEF C

\* Both use cases find what there is one of.
LEMMA LookupIs ==
  ASSUME NEW symbols, NEW path, NEW name, path # ""
  PROVE  LookupSymbol(symbols, path, name) =
           OnlyOne(NamedIn(symbols, path, name), "SYMBOL_NOT_FOUND",
                   "AMBIGUOUS_SYMBOL")
<1> DEFINE C == NamedIn(symbols, path, name)
           best == {c \in C : \A d \in C : SymbolScore(d, path, name)
                                             <= SymbolScore(c, path, name)}
           r == LookupSymbol(symbols, path, name)
<1>1. {c \in ListSymbols(symbols, path, name) : c.name = name} = C
  BY DEF ListSymbols, MatchesQuery, NamedIn
<1>2. r = RankedBest(C, best, "SYMBOL_NOT_FOUND", "AMBIGUOUS_SYMBOL")
  BY <1>1 DEF LookupSymbol, TopRanked, RankedBest
<1>3. best = C
  BY BestAre
<1> HIDE DEF C, best, r
<1>4. r = OnlyOne(C, "SYMBOL_NOT_FOUND", "AMBIGUOUS_SYMBOL")
  BY <1>2, <1>3, EquallyRanked
<1> QED
  BY <1>4 DEF C, r

\* So the lookup of an anchor with a name and a path finds the only one.
LEMMA ResolveIs ==
  ASSUME NEW symbols, NEW path, NEW name, path # ""
  PROVE  ResolveAnalysisAnchor(Anchor("symbol", name, None, path), symbols) =
           OnlyOne(NamedIn(symbols, path, name), "ANCHOR_NOT_FOUND",
                   "AMBIGUOUS_ANCHOR")
<1> DEFINE C == NamedIn(symbols, path, name)
           best == {c \in C : \A d \in C : AnchorScore(d, path)
                                             <= AnchorScore(c, path)}
           anchor == Anchor("symbol", name, None, path)
           r == ResolveAnalysisAnchor(anchor, symbols)
<1>1. /\ anchor.kind = "symbol" /\ anchor.id = None
      /\ anchor.path = path /\ anchor.name = name
  BY DEF Anchor
<1>2. r = ResolveName(anchor, symbols)
  BY <1>1 DEF ResolveAnalysisAnchor
<1>3. {c \in symbols : anchor.path \in {"", c.path} /\ c.name = anchor.name}
        = C
  BY <1>1 DEF NamedIn
<1> HIDE DEF r, anchor
<1>4. r = RankedBest(C, best, "ANCHOR_NOT_FOUND", "AMBIGUOUS_ANCHOR")
  BY <1>1, <1>2, <1>3 DEF ResolveName, TopRanked, RankedBest
<1>5. best = C
  BY BestAre
<1> HIDE DEF C, best
<1>6. r = OnlyOne(C, "ANCHOR_NOT_FOUND", "AMBIGUOUS_ANCHOR")
  BY <1>4, <1>5, EquallyRanked
<1> QED
  BY <1>6 DEF C, r, anchor

\* A symbol found in its file is matched with the end that bears its id, the
\* first one if both do.
LEMMA IdTouches ==
  ASSUME NEW f, NEW a, a.kind = "symbol", a.path # ""
  PROVE  /\ Touches(f, a, "forward") <=> f.from.id = a.id
         /\ Touches(f, a, "backward") <=> f.to.id = a.id /\ f.from.id # a.id
<1>1. \A e : AnchorsEquivalent(a, RelationAnchor(e)) <=> a.id = e.id
  BY DEF AnchorsEquivalent, RelationAnchor, Anchor
<1>2. DetectRelationEndpointMatch(f, a)
        = IF a.id = f.from.id THEN "from"
          ELSE IF a.id = f.to.id THEN "to" ELSE "none"
  BY <1>1 DEF DetectRelationEndpointMatch
<1> QED
  BY <1>2 DEF Touches, RelationMatchesDirection

\* A stored fact that is a call.
IsCall(f) == f.kind = "caller-callee-candidate"

\* A stored call is as sure as any other, and of one symbol to another.
LEMMA StoredCallsAreSure ==
  ASSUME NEW versions \in Kept, NEW f \in Stored("derived", versions),
         IsCall(f)
  PROVE  f.confidence = 55 /\ f.from.id # f.to.id
<1>1. PICK p \in Paths : versions[p] \in Versions(p)
                           /\ f \in Table[p][versions[p]].derived
  BY StoredHas
<1>2. versions[p] # 0
  BY <1>1, TableOfNone
<1>3. Table[p][versions[p]] = StoredOf(Docs[p][versions[p]])
  BY <1>1, <1>2, TableIs
<1>4. StoredOf(Docs[p][versions[p]]).derived
        = DerivedFacts(Docs[p][versions[p]])
  BY DEF StoredOf
<1>5. f \in DerivedFacts(Docs[p][versions[p]])
  BY <1>1, <1>3, <1>4
<1> QED
  BY <1>5, CallsAreSure DEF IsCall

\* The calls in a store, with any confidence.
LEMMA ConfidentCalls ==
  ASSUME NEW versions \in Kept, NEW f \in Stored("derived", versions)
  PROVE  IsCall(f) /\ f.confidence >= 0 <=> IsCall(f)
<1>1. IsCall(f) => f.confidence = 55
  BY StoredCallsAreSure
<1> QED
  BY <1>1

\* The impact in the direction of callers or callees.
CallImpact(versions, a, mode) ==
  ToSet(ImpactMatches(Listed("derived", versions), a,
                      [mode |-> mode, confidenceMin |-> 0]))

\* The impact of calls in a mode is the calls that touch in its direction.
LEMMA CallImpactIs ==
  ASSUME NEW versions \in Kept, NEW a, NEW mode \in {"callers", "callees"}
  PROVE  CallImpact(versions, a, mode)
           = {f \in Stored("derived", versions) :
                Touches(f, a, ModeToDirection(mode)) /\ IsCall(f)}
<1> DEFINE F == Stored("derived", versions)
           facts == Listed("derived", versions)
           c == [mode |-> mode, confidenceMin |-> 0]
<1>1. facts \in Seq(F) /\ ToSet(facts) = F
  BY DerivedListed
<1>2. c.mode = mode /\ c.confidenceMin = 0
  OBVIOUS
<1>3. \A f : f.kind \in ModeRelationKinds[mode] <=> IsCall(f)
  BY DEF ModeRelationKinds, Calls, IsCall
<1>4. \A f \in F : IsCall(f) /\ f.confidence >= 0 <=> IsCall(f)
  BY ConfidentCalls
<1> HIDE DEF F, facts, c
<1>5. ToSet(ImpactMatches(facts, a, c))
        = {f \in ToSet(facts) : /\ Touches(f, a, ModeToDirection(c.mode))
                                /\ f.kind \in ModeRelationKinds[c.mode]
                                /\ f.confidence >= c.confidenceMin}
  BY <1>1, ImpactMatchesKeeps
<1>6. ToSet(ImpactMatches(facts, a, c))
        = {f \in F : /\ Touches(f, a, ModeToDirection(mode))
                     /\ IsCall(f) /\ f.confidence >= 0}
  BY <1>1, <1>2, <1>3, <1>5
<1>7. {f \in F : /\ Touches(f, a, ModeToDirection(mode))
                 /\ IsCall(f) /\ f.confidence >= 0}
        = {f \in F : Touches(f, a, ModeToDirection(mode)) /\ IsCall(f)}
  BY <1>4
<1> QED
  BY <1>6, <1>7 DEF F, facts, c, CallImpact

\* The same, in both modes.
LEMMA CallImpactsAre ==
  ASSUME NEW versions \in Kept, NEW a
  PROVE  LET F == Stored("derived", versions)
         IN /\ CallImpact(versions, a, "callers")
                 = {f \in F : Touches(f, a, "backward") /\ IsCall(f)}
            /\ CallImpact(versions, a, "callees")
                 = {f \in F : Touches(f, a, "forward") /\ IsCall(f)}
<1> DEFINE Of(mode) == {f \in Stored("derived", versions) :
                          Touches(f, a, ModeToDirection(mode)) /\ IsCall(f)}
<1>1. \A mode \in {"callers", "callees"} :
        CallImpact(versions, a, mode) = Of(mode)
  BY CallImpactIs
<1>2. /\ Of("callers") = {f \in Stored("derived", versions) :
                            Touches(f, a, "backward") /\ IsCall(f)}
      /\ Of("callees") = {f \in Stored("derived", versions) :
                            Touches(f, a, "forward") /\ IsCall(f)}
  BY DEF ModeToDirection
<1> HIDE DEF Of
<1> QED
  BY <1>1, <1>2

\* The calls that are told of the symbol with an id.
LEMMA ToldIs ==
  ASSUME NEW versions \in Kept, NEW id
  PROVE  LET F == Stored("derived", versions)
             told == GetSymbol(Listed("derived", versions), id)
         IN /\ ToSet(told.callers) = {f \in F : IsCall(f) /\ f.from.id = id}
            /\ ToSet(told.callees) = {f \in F : IsCall(f) /\ f.to.id = id}
<1> DEFINE F == Stored("derived", versions)
           facts == Listed("derived", versions)
           told == GetSymbol(facts, id)
<1>1. facts \in Seq(F) /\ ToSet(facts) = F
  BY DerivedListed
<1> HIDE DEF facts, F
<1>2. /\ told.callers = ToRelations(facts, id, "fromId")
      /\ told.callees = ToRelations(facts, id, "toId")
  BY DEF GetSymbol
<1>3. ToSet(ToRelations(facts, id, "fromId"))
        = {f \in ToSet(facts) : f.kind = "caller-callee-candidate"
                                  /\ f.from.id = id}
  BY <1>1, ToRelationsKeeps
<1>4. ToSet(ToRelations(facts, id, "toId"))
        = {f \in ToSet(facts) : f.kind = "caller-callee-candidate"
                                  /\ f.to.id = id}
  BY <1>1, ToRelationsKeeps
<1> HIDE DEF told
<1>5. /\ ToSet(told.callers) = {f \in F : IsCall(f) /\ f.from.id = id}
      /\ ToSet(told.callees) = {f \in F : IsCall(f) /\ f.to.id = id}
  BY <1>1, <1>2, <1>3, <1>4 DEF IsCall
<1> QED
  BY <1>5 DEF told, facts, F

\* What get_symbol tells of calls is what analyze_impact tells, the other way.
LEMMA CallsTold ==
  ASSUME NEW versions \in Kept, NEW a, a.kind = "symbol", a.path # ""
  PROVE  LET told == GetSymbol(Listed("derived", versions), a.id)
         IN /\ ToSet(told.callers) = CallImpact(versions, a, "callees")
            /\ ToSet(told.callees) = CallImpact(versions, a, "callers")
<1> DEFINE F == Stored("derived", versions)
           told == GetSymbol(Listed("derived", versions), a.id)
           from == ToSet(told.callers)
           to == ToSet(told.callees)
<1>1. /\ from = {f \in F : IsCall(f) /\ f.from.id = a.id}
      /\ to = {f \in F : IsCall(f) /\ f.to.id = a.id}
  BY ToldIs
<1>2. \A f \in F : IsCall(f) => f.from.id # f.to.id
  BY StoredCallsAreSure
<1> HIDE DEF F, from, to
<1>3. CallImpact(versions, a, "callers")
        = {f \in F : Touches(f, a, "backward") /\ IsCall(f)}
  BY CallImpactsAre DEF F
<1>4. CallImpact(versions, a, "callees")
        = {f \in F : Touches(f, a, "forward") /\ IsCall(f)}
  BY CallImpactsAre DEF F
<1>5. \A f : /\ Touches(f, a, "forward") <=> f.from.id = a.id
             /\ Touches(f, a, "backward") <=> f.to.id = a.id /\ f.from.id # a.id
  BY IdTouches
<1>6. from = CallImpact(versions, a, "callees")
  BY <1>1, <1>4, <1>5
<1>7. to = CallImpact(versions, a, "callers")
  <2>1. to = {f \in F : (f.to.id = a.id /\ f.from.id # a.id) /\ IsCall(f)}
    BY <1>1, <1>2
  <2> QED
    BY <1>3, <1>5, <2>1
<1> QED
  BY <1>6, <1>7 DEF from, to

\* One and the same is found, whatever failures are called.
LEMMA OnlyOneId ==
  ASSUME NEW C, NEW u, NEW v, NEW x, NEW y
  PROVE  OnlyOne(C, u, v).id = OnlyOne(C, x, y).id
<1>1. \A w : Failed(w).id = None
  BY DEF Failed
<1>2. CASE C = {}
  BY <1>1, <1>2 DEF OnlyOne
<1>3. CASE C # {} /\ Cardinality(C) > 1
  BY <1>1, <1>3 DEF OnlyOne
<1>4. CASE C # {} /\ ~(Cardinality(C) > 1)
  BY <1>4 DEF OnlyOne
<1> QED
  BY <1>2, <1>3, <1>4

\* Whether there is only one does not depend on the names of the failures.
LEMMA OnlyOneFound ==
  ASSUME NEW C, NEW x, NEW y,
         OnlyOne(C, "SYMBOL_NOT_FOUND", "AMBIGUOUS_SYMBOL").outcome = "found"
  PROVE  LET c == CHOOSE c \in C : TRUE
         IN C # {} /\ OnlyOne(C, x, y) = Found(c.evidenceId, c.path)
<1>1. \A w : Failed(w).outcome = w
  BY DEF Failed
<1>2. C # {}
  BY <1>1 DEF OnlyOne
<1>3. ~(Cardinality(C) > 1)
  BY <1>1 DEF OnlyOne
<1> QED
  BY <1>2, <1>3 DEF OnlyOne

\* Both lookups, and what follows from them, agree in any store.
LEMMA SymbolsFound ==
  ASSUME StoresOK
  PROVE  SymbolsAgree
<1> DEFINE symbols == Stored("symbols", stored.symbols)
           facts == Listed("derived", stored.derived)
           Anch(s) == Anchor("symbol", s.name, None, s.path)
           Look(s) == LookupSymbol(symbols, s.path, s.name)
           Find(s) == ResolveAnalysisAnchor(Anch(s), symbols)
           Impact(s, mode) == ImpactMatches(facts, Resolved(Anch(s), Find(s)),
                                [mode |-> mode, confidenceMin |-> 0])
           Told(s) == GetSymbol(facts, Look(s).id)
<1>1. stored.symbols \in Kept /\ stored.derived \in Kept
  BY DEF StoresOK, Stores
<1>2. ASSUME NEW s \in symbols
      PROVE  /\ Look(s).id = Find(s).id
             /\ Look(s).outcome = "found" =>
                  /\ ToSet(Told(s).callers) = ToSet(Impact(s, "callees"))
                  /\ ToSet(Told(s).callees) = ToSet(Impact(s, "callers"))
  <2>1. s.path # ""
    BY <1>1, SymbolsNamed
  <2> DEFINE C == NamedIn(symbols, s.path, s.name)
             c == CHOOSE c \in C : TRUE
             a == Resolved(Anch(s), Find(s))
  <2>2. /\ Look(s) = OnlyOne(C, "SYMBOL_NOT_FOUND", "AMBIGUOUS_SYMBOL")
        /\ Find(s) = OnlyOne(C, "ANCHOR_NOT_FOUND", "AMBIGUOUS_ANCHOR")
    BY <2>1, LookupIs, ResolveIs
  <2> HIDE DEF symbols, C, Look, Find
  <2>3. Look(s).id = Find(s).id
    BY <2>2, OnlyOneId
  <2>4. ASSUME Look(s).outcome = "found"
        PROVE  /\ ToSet(Told(s).callers) = ToSet(Impact(s, "callees"))
               /\ ToSet(Told(s).callees) = ToSet(Impact(s, "callers"))
    <3>1. C # {} /\ Find(s) = Found(c.evidenceId, c.path)
      <4>1. /\ C # {}
            /\ OnlyOne(C, "ANCHOR_NOT_FOUND", "AMBIGUOUS_ANCHOR")
                 = Found(c.evidenceId, c.path)
        BY <2>2, <2>4, OnlyOneFound
      <4> QED
        BY <2>2, <4>1
    <3>2. c \in C
      BY <3>1
    <3>3. c.path = s.path
      BY <3>2 DEF C, NamedIn
    <3>4. /\ a.kind = "symbol" /\ a.path = s.path /\ a.id = Find(s).id
      BY <3>1, <3>3 DEF Resolved, Anchor, Found
    <3> HIDE DEF a
    <3>5. a.kind = "symbol" /\ a.path # "" /\ a.id = Look(s).id
      BY <2>1, <2>3, <3>4
    <3>6. LET told == GetSymbol(facts, a.id)
          IN /\ ToSet(told.callers) = CallImpact(stored.derived, a, "callees")
             /\ ToSet(told.callees) = CallImpact(stored.derived, a, "callers")
      BY <1>1, <3>5, CallsTold
    <3> QED
      BY <3>5, <3>6 DEF a, CallImpact
  <2> QED
    BY <2>3, <2>4
<1> QED
  BY <1>2 DEF SymbolsAgree

\* Whatever the symbols, both use cases find the same one by name, or none, or
\* agree that there are several; and what get_symbol tells as callers of it are
\* exactly the callees of analyze_impact, and the other way round.
THEOREM LookupsAgree == Spec => []SymbolsAgree
<1>1. Init => StoresOK
  BY StoresInit
<1>2. StoresOK /\ [Next]_vars => StoresOK'
  BY StoresOKStep
<1>3. StoresOK => SymbolsAgree
  BY SymbolsFound
<1> QED
  BY <1>1, <1>2, <1>3, PTL DEF Spec

-----------------------------------------------------------------------------
(* The query in progress *)

\* The fields of a trace and of a query.
IsTrace(t) ==
  t = [queue |-> t.queue, nodes |-> t.nodes, edges |-> t.edges,
       segments |-> t.segments, stop |-> t.stop]
IsQuery(q) ==
  q = [pc |-> q.pc, command |-> q.command, reads |-> q.reads, saw |-> q.saw,
       trace |-> q.trace, disturbed |-> q.disturbed]

\* A read finds what its store held, or nothing.
LEMMA ReadsKept ==
  ASSUME StoresOK, NEW store \in Stores, NEW versions \in ReadsOf(store)
  PROVE  versions \in Kept
<1>1. Nowhere \in Kept
  BY VersionsAre DEF Nowhere, Kept
<1>2. stored[store] \in Kept
  BY DEF StoresOK
<1> QED
  BY <1>1, <1>2 DEF ReadsOf

\* What a read does to the query, before the lookup is looked at.
Reading(read, versions) ==
  LET left == Head(query.reads) \ {read}
  IN [query EXCEPT !.saw[read] = versions,
        !.reads = IF left = {} THEN Tail(@) ELSE <<left>> \o Tail(@)]

\* What a read does.
LEMMA ReadMoves ==
  ASSUME NEW read, Read(read)
  PROVE  /\ query.pc = "read" /\ read \in Head(query.reads)
         /\ \E versions \in ReadsOf(ReadStore[read]) :
              query' = AfterRead(Reading(read, versions), read)
BY DEF Read, Reading

\* A read changes the reads ahead and what was seen.
LEMMA ReadingIs ==
  ASSUME NEW read, NEW versions, IsQuery(query)
  PROVE  /\ IsQuery(Reading(read, versions))
         /\ Reading(read, versions).pc = query.pc
         /\ Reading(read, versions).command = query.command
         /\ Reading(read, versions).trace = query.trace
         /\ Reading(read, versions).disturbed = query.disturbed
         /\ Reading(read, versions).saw = [query.saw EXCEPT ![read] = versions]
<1> DEFINE left == Head(query.reads) \ {read}
           reads == IF left = {} THEN Tail(query.reads)
                    ELSE <<left>> \o Tail(query.reads)
           saw == [query.saw EXCEPT ![read] = versions]
<1>1. Reading(read, versions) = [query EXCEPT !.saw = saw, !.reads = reads]
  BY DEF Reading
<1> HIDE DEF reads, saw
<1>2. Reading(read, versions) =
        [pc |-> query.pc, command |-> query.command, reads |-> reads,
         saw |-> saw, trace |-> query.trace, disturbed |-> query.disturbed]
  BY <1>1 DEF IsQuery
<1> QED
  BY <1>2 DEF IsQuery, saw

\* What the lookup makes of it: a trace goes on from its start.
Starts(queue) == \E a : queue = <<[anchor |-> a, depth |-> 0]>>
Follows(r, q) ==
  /\ IsQuery(r) /\ IsTrace(r.trace)
  /\ r.command = q.command /\ r.saw = q.saw
  /\ r.pc \in {q.pc, "failed", "trace", "answered"}
  /\ \/ r.trace = q.trace
     \/ /\ r.trace.edges = q.trace.edges
        /\ r.trace.segments = q.trace.segments
        /\ Starts(r.trace.queue)

\* The lookup after a read moves the query so.
LEMMA AfterReadIs ==
  ASSUME NEW q, NEW read, IsQuery(q), IsTrace(q.trace)
  PROVE  Follows(AfterRead(q, read), q)
<1>1. CASE Lookups(q, read) # "found"
  BY <1>1 DEF AfterRead, IsQuery, Follows
<1>2. CASE Lookups(q, read) = "found" /\ q.reads # <<>>
  BY <1>2 DEF AfterRead, Follows
<1>3. CASE /\ Lookups(q, read) = "found" /\ q.reads = <<>>
           /\ q.command.kind = "trace"
  <2> DEFINE a == StartAnchor(q)
             queue == <<[anchor |-> a, depth |-> 0]>>
             trace == [q.trace EXCEPT !.queue = queue]
  <2>1. AfterRead(q, read) = [q EXCEPT !.pc = "trace", !.trace = trace]
    BY <1>3 DEF AfterRead
  <2>2. Starts(queue)
    BY DEF Starts
  <2> HIDE DEF queue
  <2>3. trace = [queue |-> queue, nodes |-> q.trace.nodes,
                 edges |-> q.trace.edges, segments |-> q.trace.segments,
                 stop |-> q.trace.stop]
    BY DEF IsTrace
  <2>4. /\ IsTrace(trace) /\ trace.queue = queue
        /\ trace.edges = q.trace.edges /\ trace.segments = q.trace.segments
    BY <2>3 DEF IsTrace
  <2> HIDE DEF trace
  <2>5. AfterRead(q, read) =
          [pc |-> "trace", command |-> q.command, reads |-> q.reads,
           saw |-> q.saw, trace |-> trace, disturbed |-> q.disturbed]
    BY <2>1 DEF IsQuery
  <2> DEFINE r == AfterRead(q, read)
  <2> HIDE DEF r, a
  <2>6. /\ IsQuery(r) /\ r.command = q.command /\ r.saw = q.saw
        /\ r.pc = "trace" /\ r.trace = trace
    BY <2>5 DEF IsQuery, r
  <2>7. Follows(r, q)
    BY <2>2, <2>4, <2>6 DEF Follows
  <2> QED
    BY <2>7 DEF r
<1>4. CASE /\ Lookups(q, read) = "found" /\ q.reads = <<>>
           /\ q.command.kind # "trace"
  BY <1>4 DEF AfterRead, IsQuery, Follows
<1> QED
  BY <1>1, <1>2, <1>3, <1>4

-----------------------------------------------------------------------------
(* One round of the trace *)

\* The equation by which After is defined in Expanded, for the sets in D.
Outcomes(f, D, from, depth, command, end) ==
  f = [some \in D |->
         IF some = {} THEN {from}
         ELSE UNION {{Taken(u, last, depth, command, end) : u \in f[some \ {last}]}
                       : last \in some}]

\* It has a solution: that for the sets of up to n steps is extended to those
\* of one more.
LEMMA OutcomesExist ==
  ASSUME NEW S, IsFiniteSet(S), NEW from, NEW depth, NEW command, NEW end
  PROVE  \E f : Outcomes(f, SUBSET S, from, depth, command, end)
<1> DEFINE Upto(n) == {T \in SUBSET S : Cardinality(T) <= n}
           Is(f, D) == Outcomes(f, D, from, depth, command, end)
           Has(n) == \E f : Is(f, Upto(n))
           B == {n \in Nat : ~Has(n)}
           Next1(g, T, last) ==
             {Taken(u, last, depth, command, end) : u \in g[T \ {last}]}
           Of(g, T) == IF T = {} THEN {from}
                       ELSE UNION {Next1(g, T, last) : last \in T}
<1>1. \A T \in SUBSET S : IsFiniteSet(T) /\ Cardinality(T) \in Nat
        /\ Cardinality(T) <= Cardinality(S)
  BY FS_Subset, FS_CardinalityType
<1>2. \A f, D : Is(f, D) <=> f = [T \in D |-> Of(f, T)]
  BY DEF Outcomes
<1> HIDE DEF Is, Next1
<1>3. ASSUME B # {} PROVE FALSE
  <2>1. PICK n \in B : \A k \in B : n <= k
    <3>1. B \in SUBSET Nat
      OBVIOUS
    <3> HIDE DEF B
    <3> QED
      BY <1>3, <3>1, LeastNumber
  <2>2. n \in Nat /\ ~Has(n)
    BY <2>1
  <2>3. CASE n = 0
    <3> DEFINE f == [T \in Upto(0) |-> {from}]
    <3>1. \A T \in Upto(0) : T = {}
      BY <1>1, FS_EmptySet
    <3>2. f = [T \in Upto(0) |-> Of(f, T)]
      BY <3>1
    <3> HIDE DEF f
    <3>3. Is(f, Upto(0))
      BY <1>2, <3>2
    <3> QED
      BY <2>2, <2>3, <3>3
  <2>4. CASE n > 0
    <3>1. n - 1 \in Nat /\ n - 1 \notin B
      <4> HIDE DEF B
      <4> QED
        BY <2>1, <2>2, <2>4
    <3>2. PICK g : Is(g, Upto(n - 1))
      BY <3>1
    <3> DEFINE f == [T \in Upto(n) |-> Of(g, T)]
    <3>3. \A T \in Upto(n - 1) : T \in Upto(n)
      BY <1>1, <2>2
    <3>4. \A T \in Upto(n) : \A last \in T : T \ {last} \in Upto(n - 1)
      <4> SUFFICES ASSUME NEW T \in Upto(n), NEW last \in T
                   PROVE  T \ {last} \in Upto(n - 1)
        OBVIOUS
      <4>1. Cardinality(T \ {last}) = Cardinality(T) - 1
        BY <1>1, FS_RemoveElement
      <4> QED
        BY <1>1, <2>2, <4>1
    <3> HIDE DEF Upto, Of
    <3>5. \A T \in Upto(n - 1) : f[T] = g[T]
      <4>1. g = [T \in Upto(n - 1) |-> Of(g, T)]
        BY <1>2, <3>2
      <4> QED
        BY <3>3, <4>1
    <3>6. \A T \in Upto(n) : \A last \in T : Next1(f, T, last) = Next1(g, T, last)
      <4> HIDE DEF f
      <4> SUFFICES ASSUME NEW T \in Upto(n), NEW last \in T
                   PROVE  Next1(f, T, last) = Next1(g, T, last)
        OBVIOUS
      <4>1. f[T \ {last}] = g[T \ {last}]
        BY <3>4, <3>5
      <4> QED
        BY <4>1 DEF Next1
    <3>7. \A T \in Upto(n) : Of(f, T) = Of(g, T)
      <4> HIDE DEF f
      <4> SUFFICES ASSUME NEW T \in Upto(n)
                   PROVE  Of(f, T) = Of(g, T)
        OBVIOUS
      <4>1. {Next1(f, T, last) : last \in T} = {Next1(g, T, last) : last \in T}
        BY <3>6
      <4> QED
        BY <4>1 DEF Of
    <3>8. f = [T \in Upto(n) |-> Of(f, T)]
      <4>1. f = [T \in Upto(n) |-> Of(g, T)]
        OBVIOUS
      <4> HIDE DEF f
      <4> QED
        BY <3>7, <4>1
    <3> HIDE DEF f
    <3>9. Is(f, Upto(n))
      BY <1>2, <3>8
    <3> QED
      BY <2>2, <3>9
  <2> QED
    BY <2>2, <2>3, <2>4
<1>4. Cardinality(S) \in Nat /\ Upto(Cardinality(S)) = SUBSET S
  BY <1>1, FS_CardinalityType
<1>5. Has(Cardinality(S))
  BY <1>3, <1>4
<1> QED
  BY <1>4, <1>5 DEF Is

\* Each step keeps what is in G of the steps so far and the trace.
EachKeeps(G, f, S, depth, command, end) ==
  \A T \in SUBSET S : \A last \in T : \A u \in f[T \ {last}] :
    <<T \ {last}, u>> \in G
      => <<T, Taken(u, last, depth, command, end)>> \in G

\* What holds of the trace before the steps, and is kept by each of them, holds
\* of whatever they lead to.
LEMMA OutcomesKeep ==
  ASSUME NEW S, IsFiniteSet(S), NEW from, NEW depth, NEW command, NEW end,
         NEW f, Outcomes(f, SUBSET S, from, depth, command, end),
         NEW G, <<{}, from>> \in G, EachKeeps(G, f, S, depth, command, end)
  PROVE  \A u \in f[S] : <<S, u>> \in G
<1> DEFINE Bad(T) == \E u \in f[T] : <<T, u>> \notin G
           B == {n \in Nat : \E T \in SUBSET S : Cardinality(T) = n /\ Bad(T)}
<1>1. \A T \in SUBSET S : IsFiniteSet(T) /\ Cardinality(T) \in Nat
  BY FS_Subset, FS_CardinalityType
<1>2. ASSUME B # {} PROVE FALSE
  <2>1. PICK n \in B : \A k \in B : n <= k
    <3>1. B \in SUBSET Nat
      OBVIOUS
    <3> HIDE DEF B
    <3> QED
      BY <1>2, <3>1, LeastNumber
  <2>2. PICK T \in SUBSET S : Cardinality(T) = n /\ Bad(T)
    BY <2>1
  <2>3. PICK u \in f[T] : <<T, u>> \notin G
    BY <2>2
  <2>4. f[T] = IF T = {} THEN {from}
               ELSE UNION {{Taken(v, last, depth, command, end)
                              : v \in f[T \ {last}]} : last \in T}
    BY DEF Outcomes
  <2>5. CASE T = {}
    BY <2>3, <2>4, <2>5
  <2>6. CASE T # {}
    <3>1. PICK last \in T : u \in {Taken(v, last, depth, command, end)
                                     : v \in f[T \ {last}]}
      BY <2>3, <2>4, <2>6
    <3>2. PICK v \in f[T \ {last}] : u = Taken(v, last, depth, command, end)
      BY <3>1
    <3>3. <<T \ {last}, v>> \notin G
      BY <2>3, <3>2 DEF EachKeeps
    <3>4. T \ {last} \in SUBSET S /\ Bad(T \ {last})
      BY <3>3
    <3> HIDE DEF Bad
    <3>5. Cardinality(T \ {last}) = n - 1 /\ n - 1 \in Nat /\ n \in Nat
      <4>1. IsFiniteSet(T) /\ Cardinality(T) \in Nat
        BY <1>1
      <4>2. Cardinality(T \ {last}) = Cardinality(T) - 1
        BY <4>1, FS_RemoveElement
      <4>3. Cardinality(T \ {last}) \in Nat
        BY <1>1, <3>4
      <4> HIDE DEF B
      <4> QED
        BY <2>2, <4>1, <4>2, <4>3
    <3>6. n - 1 \in B
      BY <3>4, <3>5
    <3> HIDE DEF B
    <3> QED
      BY <2>1, <3>5, <3>6
  <2> QED
    BY <2>5, <2>6
<1>3. S \in SUBSET S /\ Cardinality(S) \in Nat
  BY <1>1
<1>4. ~Bad(S)
  <2> HIDE DEF Bad
  <2> QED
    BY <1>2, <1>3
<1> QED
  BY <1>4

\* The trace before the steps of a round.
Begun(t) == [t EXCEPT !.queue = Tail(@)]
Visited(t, id) == [Begun(t) EXCEPT !.nodes = @ \cup {id}]

\* What a round leads to: the head of the queue is dropped, the budget of nodes
\* is hit, or the steps are taken.
LEMMA ExpandedIs ==
  ASSUME NEW q, NEW versions, NEW t \in Expanded(q, versions),
         IsFiniteSet(TraversalSteps(q, Head(q.trace.queue).anchor, versions))
  PROVE  LET current == Head(q.trace.queue)
             S == TraversalSteps(q, current.anchor, versions)
             from == Visited(q.trace, current.anchor.id)
         IN \/ t = Begun(q.trace) /\ current.depth >= q.command.maxDepth
            \/ t = [Begun(q.trace) EXCEPT !.stop = "truncated"]
            \/ /\ ~(current.depth >= q.command.maxDepth)
               /\ \E f : /\ Outcomes(f, SUBSET S, from, current.depth,
                                     q.command, EndAnchor(q))
                         /\ t \in f[S]
<1> DEFINE current == Head(q.trace.queue)
           S == TraversalSteps(q, current.anchor, versions)
           from == Visited(q.trace, current.anchor.id)
           end == EndAnchor(q)
           f == CHOOSE f : Outcomes(f, SUBSET S, from, current.depth,
                                    q.command, end)
<1>1. Outcomes(f, SUBSET S, from, current.depth, q.command, end)
  <2> HIDE DEF S, from, end
  <2> QED
    BY OutcomesExist DEF S
<1>2. \/ current.depth >= q.command.maxDepth /\ t \in {Begun(q.trace)}
      \/ t \in {[Begun(q.trace) EXCEPT !.stop = "truncated"]}
      \/ ~(current.depth >= q.command.maxDepth) /\ t \in f[S]
  BY DEF Expanded, Begun, Visited, Outcomes
<1> HIDE DEF f
<1> QED
  BY <1>1, <1>2

\* A sequence, whatever is in it.
IsSeq(s) == s \in Seq(ToSet(s))

\* A sequence over a set is one.
LEMMA SeqIs ==
  ASSUME NEW A, NEW s \in Seq(A)
  PROVE  IsSeq(s)
<1>1. s \in [1..Len(s) -> ToSet(s)] /\ Len(s) \in Nat
  BY DEF ToSet
<1> QED
  BY <1>1, ListIs DEF IsSeq

\* The tail of a sequence that is not empty.
LEMMA RestOfSeq ==
  ASSUME NEW s, IsSeq(s), s # <<>>
  PROVE  /\ IsSeq(Tail(s))
         /\ 1 \in DOMAIN s /\ Head(s) = s[1]
         /\ \A i \in DOMAIN Tail(s) : i + 1 \in DOMAIN s
                                        /\ Tail(s)[i] = s[i + 1]
<1> DEFINE A == ToSet(s)
<1>1. s \in Seq(A)
  BY DEF IsSeq
<1> HIDE DEF A
<1>2. Tail(s) \in Seq(A)
  BY <1>1
<1>3. IsSeq(Tail(s))
  BY <1>2, SeqIs
<1> QED
  BY <1>1, <1>3

\* A sequence with an element more.
LEMMA AppendIs ==
  ASSUME NEW s, IsSeq(s), NEW x
  PROVE  /\ IsSeq(Append(s, x))
         /\ \A i \in DOMAIN Append(s, x) :
              \/ i \in DOMAIN s /\ Append(s, x)[i] = s[i]
              \/ Append(s, x)[i] = x
<1> DEFINE A == ToSet(s) \cup {x}
<1>1. s \in Seq(A) /\ x \in A
  BY SeqMonotonic DEF IsSeq
<1> HIDE DEF A
<1>2. Append(s, x) \in Seq(A)
  BY <1>1
<1>3. IsSeq(Append(s, x))
  BY <1>2, SeqIs
<1>4. \A i \in DOMAIN Append(s, x) :
        \/ i \in DOMAIN s /\ Append(s, x)[i] = s[i]
        \/ Append(s, x)[i] = x
  BY <1>1
<1> QED
  BY <1>3, <1>4

\* An anchor waits in the queue at a depth within the budget, and has taken as
\* many segments to get there; a segment is an edge that was not taken before.
Waits(e, t, c) ==
  /\ e.depth \in Nat /\ e.depth < c.maxDepth
  /\ e.depth <= Cardinality(t.segments)
TraceOK(t, c) ==
  /\ IsTrace(t) /\ IsSeq(t.queue)
  /\ IsFiniteSet(t.segments)
  /\ t.edges = {s.edge : s \in t.segments}
  /\ \A i \in DOMAIN t.queue : Waits(t.queue[i], t, c)

\* A round begins with a good trace, and with a head that waits as it should.
LEMMA BegunKeeps ==
  ASSUME NEW t, NEW c, TraceOK(t, c), t.queue # <<>>
  PROVE  /\ TraceOK(Begun(t), c) /\ Begun(t).segments = t.segments
         /\ Waits(Head(t.queue), t, c)
<1> DEFINE left == Tail(t.queue)
<1>1. /\ IsSeq(left) /\ Head(t.queue) = t.queue[1] /\ 1 \in DOMAIN t.queue
      /\ \A i \in DOMAIN left : i + 1 \in DOMAIN t.queue
                                  /\ left[i] = t.queue[i + 1]
  BY RestOfSeq DEF TraceOK
<1>2. Begun(t) = [queue |-> left, nodes |-> t.nodes, edges |-> t.edges,
                  segments |-> t.segments, stop |-> t.stop]
  <2>1. IsTrace(t) /\ Begun(t) = [t EXCEPT !.queue = left]
    BY DEF Begun, TraceOK
  <2> HIDE DEF left
  <2> QED
    BY <2>1 DEF IsTrace
<1> HIDE DEF left
<1>3. /\ IsTrace(Begun(t)) /\ Begun(t).queue = left
      /\ Begun(t).segments = t.segments /\ Begun(t).edges = t.edges
  BY <1>2 DEF IsTrace
<1>4. \A i \in DOMAIN left : Waits(left[i], t, c)
  BY <1>1 DEF TraceOK
<1>5. \A e : Waits(e, t, c) => Waits(e, Begun(t), c)
  BY <1>3 DEF Waits
<1>6. Waits(Head(t.queue), t, c)
  BY <1>1 DEF TraceOK
<1>7. TraceOK(Begun(t), c)
  BY <1>1, <1>3, <1>4, <1>5 DEF TraceOK
<1> QED
  BY <1>3, <1>6, <1>7

\* A trace that differs in its nodes and its stop is as good.
LEMMA OthersKeep ==
  ASSUME NEW t, NEW c, TraceOK(t, c), NEW u, IsTrace(u), u.queue = t.queue,
         u.edges = t.edges, u.segments = t.segments
  PROVE  TraceOK(u, c)
<1>1. \A e : Waits(e, t, c) => Waits(e, u, c)
  BY DEF Waits
<1> QED
  BY <1>1 DEF TraceOK

\* A step at a depth that the segments account for keeps the trace good.
LEMMA TakenKeeps ==
  ASSUME NEW t, NEW step, NEW depth \in Nat, NEW c, c.maxDepth \in Nat, NEW end,
         TraceOK(t, c), depth <= Cardinality(t.segments)
  PROVE  LET u == Taken(t, step, depth, c, end)
         IN /\ TraceOK(u, c)
            /\ depth <= Cardinality(u.segments)
<1> DEFINE new == [edge |-> step.edge, from |-> step.from, to |-> step.next.id]
           u == [t EXCEPT !.edges = @ \cup {step.edge},
                          !.segments = @ \cup {new}]
           n == Cardinality(t.segments)
           entry == [anchor |-> step.next, depth |-> depth + 1]
           r == Taken(t, step, depth, c, end)
<1>1. r = IF t.stop # "no" \/ step.edge \in t.edges THEN t
          ELSE IF end # NoAnchor /\ AnchorsEquivalent(step.next, end)
          THEN [u EXCEPT !.stop = "reached"]
          ELSE IF Spent(u, c) THEN [u EXCEPT !.stop = "truncated"]
          ELSE IF step.next.id \in u.nodes THEN u
          ELSE [u EXCEPT !.queue = Append(@, entry)]
  BY DEF Taken
<1>2. new.edge = step.edge
  OBVIOUS
<1> HIDE DEF new, entry, r
<1>3. u = [queue |-> t.queue, nodes |-> t.nodes,
           edges |-> t.edges \cup {step.edge},
           segments |-> t.segments \cup {new}, stop |-> t.stop]
  <2> DEFINE edges == t.edges \cup {step.edge}
             segments == t.segments \cup {new}
  <2>1. IsTrace(t) /\ u = [t EXCEPT !.edges = edges, !.segments = segments]
    BY DEF TraceOK
  <2> HIDE DEF n, u, edges, segments
  <2>2. u = [queue |-> t.queue, nodes |-> t.nodes, edges |-> edges,
             segments |-> segments, stop |-> t.stop]
    BY <2>1 DEF IsTrace
  <2> QED
    BY <2>2 DEF edges, segments
<1> HIDE DEF u
<1>4. /\ IsTrace(u) /\ u.queue = t.queue /\ u.edges = t.edges \cup {step.edge}
      /\ u.segments = t.segments \cup {new}
  BY <1>3 DEF IsTrace
<1>5. n \in Nat /\ depth <= n
  BY FS_CardinalityType DEF TraceOK
<1>6. CASE t.stop # "no" \/ step.edge \in t.edges
  <2>1. r = t
    BY <1>1, <1>6
  <2> QED
    BY <1>5, <2>1 DEF r
<1>7. CASE ~(t.stop # "no" \/ step.edge \in t.edges)
  <2>1. new \notin t.segments
    BY <1>2, <1>7 DEF TraceOK
  <2>2. IsFiniteSet(u.segments) /\ Cardinality(u.segments) = n + 1
    BY <1>4, <2>1, FS_AddElement DEF TraceOK
  <2> HIDE DEF n
  <2>3. \A e : Waits(e, t, c) => Waits(e, u, c)
    BY <1>5, <2>2 DEF Waits, n
  <2>4. TraceOK(u, c)
    <3>1. u.edges = {s.edge : s \in u.segments}
      BY <1>2, <1>4 DEF TraceOK
    <3> QED
      BY <1>4, <2>2, <2>3, <3>1 DEF TraceOK
  <2>5. depth <= Cardinality(u.segments)
    BY <1>5, <2>2
  <2>6. \A stop : /\ TraceOK([u EXCEPT !.stop = stop], c)
                  /\ [u EXCEPT !.stop = stop].segments = u.segments
    <3> SUFFICES ASSUME NEW stop
                 PROVE  /\ TraceOK([u EXCEPT !.stop = stop], c)
                        /\ [u EXCEPT !.stop = stop].segments = u.segments
      OBVIOUS
    <3> DEFINE v == [u EXCEPT !.stop = stop]
    <3>1. v = [queue |-> u.queue, nodes |-> u.nodes, edges |-> u.edges,
               segments |-> u.segments, stop |-> stop]
      BY <1>4 DEF IsTrace
    <3> HIDE DEF v
    <3>2. /\ IsTrace(v) /\ v.queue = u.queue /\ v.edges = u.edges
          /\ v.segments = u.segments
      BY <3>1 DEF IsTrace
    <3>3. TraceOK(v, c)
      BY <2>4, <3>2, OthersKeep
    <3> QED
      BY <3>2, <3>3 DEF v
  <2>7. CASE end # NoAnchor /\ AnchorsEquivalent(step.next, end)
    <3>1. r = [u EXCEPT !.stop = "reached"]
      BY <1>1, <1>7, <2>7
    <3> QED
      BY <2>5, <2>6, <3>1 DEF r
  <2>8. CASE /\ ~(end # NoAnchor /\ AnchorsEquivalent(step.next, end))
             /\ Spent(u, c)
    <3>1. r = [u EXCEPT !.stop = "truncated"]
      BY <1>1, <1>7, <2>8
    <3> QED
      BY <2>5, <2>6, <3>1 DEF r
  <2>9. CASE /\ ~(end # NoAnchor /\ AnchorsEquivalent(step.next, end))
             /\ ~Spent(u, c) /\ step.next.id \in u.nodes
    <3>1. r = u
      BY <1>1, <1>7, <2>9
    <3> QED
      BY <2>4, <2>5, <3>1 DEF r
  <2>10. CASE /\ ~(end # NoAnchor /\ AnchorsEquivalent(step.next, end))
              /\ ~Spent(u, c) /\ step.next.id \notin u.nodes
    <3> DEFINE queue == Append(u.queue, entry)
    <3>1. r = [u EXCEPT !.queue = queue]
      BY <1>1, <1>7, <2>10
    <3>2. /\ IsSeq(queue)
          /\ \A i \in DOMAIN queue :
               \/ i \in DOMAIN u.queue /\ queue[i] = u.queue[i]
               \/ queue[i] = entry
      BY <2>4, AppendIs DEF TraceOK
    <3> HIDE DEF queue
    <3>3. r = [queue |-> queue, nodes |-> u.nodes, edges |-> u.edges,
               segments |-> u.segments, stop |-> u.stop]
      BY <1>4, <3>1 DEF IsTrace
    <3>4. /\ IsTrace(r) /\ r.queue = queue /\ r.edges = u.edges
          /\ r.segments = u.segments
      BY <3>3 DEF IsTrace
    <3>5. Waits(entry, u, c)
      <4>1. n + 1 < c.maxDepth
        BY <1>5, <2>2, <2>10 DEF Spent
      <4>2. entry.depth = depth + 1
        BY DEF entry
      <4> QED
        BY <1>5, <2>2, <4>1, <4>2 DEF Waits
    <3>6. \A e : Waits(e, u, c) => Waits(e, r, c)
      BY <3>4 DEF Waits
    <3>7. \A i \in DOMAIN queue : Waits(queue[i], r, c)
      BY <2>4, <3>2, <3>5, <3>6 DEF TraceOK
    <3>8. TraceOK(r, c)
      BY <2>4, <3>2, <3>4, <3>7 DEF TraceOK
    <3> QED
      BY <2>5, <3>4, <3>8 DEF r
  <2> QED
    BY <2>7, <2>8, <2>9, <2>10
<1> QED
  BY <1>6, <1>7

-----------------------------------------------------------------------------
(* The steps of a query *)

\* A query asks one of the commands, and its reads found versions that the
\* stores held.
GoodQuery(q) ==
  \/ q = NoQuery
  \/ /\ q.pc # "idle" /\ q.command \in Commands
     /\ IsQuery(q) /\ TraceOK(q.trace, q.command)
     /\ q.saw \in [DOMAIN ReadStore -> Kept]
QueryOK == GoodQuery(query)

\* A query in progress is one.
LEMMA InProgress ==
  ASSUME QueryOK, query.pc # "idle"
  PROVE  /\ query.command \in Commands
         /\ IsQuery(query) /\ TraceOK(query.trace, query.command)
         /\ query.saw \in [DOMAIN ReadStore -> Kept]
BY DEF QueryOK, GoodQuery, NoQuery

\* The edges of the graph are finitely many, and so are the steps over them.
LEMMA FlowEdgesFinite ==
  ASSUME NEW versions \in Kept, NEW form, NEW include
  PROVE  IsFiniteSet(FlowEdges(versions, form, include))
<1> DEFINE g == [p \in Paths |-> Table[p][versions[p]].graph.edges]
           all == UNION {g[p] : p \in Paths}
           some == {e \in all : e.kind \in Included(include)}
           h == [e \in some |-> Keyed(e, form)]
<1>1. \A p \in Paths : IsFiniteSet(g[p])
  BY QueriesAssumption DEF Table, Kept
<1>2. FlowEdges(versions, form, include) = {h[e] : e \in some}
  BY DEF FlowEdges
<1>3. some \subseteq all
  OBVIOUS
<1> HIDE DEF g, h, some
<1>4. IsFiniteSet(Paths)
  BY QueriesAssumption
<1>5. IsFiniteSet(all)
  BY <1>1, <1>4, UnionFinite
<1> HIDE DEF all
<1>6. IsFiniteSet(some)
  BY <1>3, <1>5, FS_Subset
<1> QED
  BY <1>2, <1>6, ImageFinite

\* So are the steps from an anchor.
LEMMA StepsFinite ==
  ASSUME NEW q, NEW anchor, NEW versions \in Kept
  PROVE  IsFiniteSet(TraversalSteps(q, anchor, versions))
<1> DEFINE all == FlowEdges(versions, keyed, q.command.include)
           edges == {e \in all :
                       MatchesDirection(e, anchor.id, q.command.direction)}
           h == [e \in edges |-> [edge |-> e.id, from |-> anchor.id,
                                  next |-> NextAnchor(q, e, anchor.id)]]
<1>1. TraversalSteps(q, anchor, versions) = {h[e] : e \in edges}
  BY DEF TraversalSteps
<1>2. IsFiniteSet(all)
  BY FlowEdgesFinite
<1>3. edges \subseteq all
  OBVIOUS
<1> HIDE DEF all, edges, h
<1>4. IsFiniteSet(edges)
  BY <1>2, <1>3, FS_Subset
<1> QED
  BY <1>1, <1>4, ImageFinite

\* The budgets of a query.
LEMMA Budgets ==
  ASSUME NEW c \in Commands
  PROVE  /\ {c.maxDepth, c.maxNodes, c.maxItems, c.maxResults, c.limit}
              \subseteq Nat \ {0}
         /\ {c.maxFiles, c.confidenceMin} \subseteq Nat
         /\ c.direction \in {"forward", "backward", "both"}
BY CommandsAssumption

\* A round keeps the trace good.
LEMMA ExpandedKeeps ==
  ASSUME StoresOK, QueryOK, Tracing, NEW versions \in ReadsOf("graph"),
         NEW t \in Expanded(query, versions)
  PROVE  TraceOK(t, query.command)
<1> DEFINE c == query.command
           old == query.trace
           current == Head(old.queue)
           S == TraversalSteps(query, current.anchor, versions)
           from == Visited(old, current.anchor.id)
           end == EndAnchor(query)
<1>1. /\ TraceOK(old, c) /\ old.queue # <<>> /\ c.maxDepth \in Nat
  BY InProgress, Budgets DEF Tracing
<1>2. IsFiniteSet(S)
  <2>1. versions \in Kept
    BY ReadsKept DEF Stores
  <2> QED
    BY <2>1, StepsFinite
<1>3. /\ TraceOK(Begun(old), c) /\ Begun(old).segments = old.segments
      /\ Waits(current, old, c)
  BY <1>1, BegunKeeps
<1>4. /\ current.depth \in Nat
      /\ current.depth <= Cardinality(Begun(old).segments)
  BY <1>3 DEF Waits
<1>5. \/ t = Begun(old) /\ current.depth >= c.maxDepth
      \/ t = [Begun(old) EXCEPT !.stop = "truncated"]
      \/ /\ ~(current.depth >= c.maxDepth)
         /\ \E f : /\ Outcomes(f, SUBSET S, from, current.depth, c, end)
                   /\ t \in f[S]
  BY <1>2, ExpandedIs
<1> DEFINE b == Begun(old)
<1>6. b = [queue |-> b.queue, nodes |-> b.nodes, edges |-> b.edges,
           segments |-> b.segments, stop |-> b.stop]
  BY <1>3 DEF TraceOK, IsTrace
<1> HIDE DEF c, old, current, S, end, b
<1>7. CASE t = Begun(old)
  BY <1>3, <1>7 DEF c
<1>8. CASE t = [Begun(old) EXCEPT !.stop = "truncated"]
  <2>1. t = [queue |-> b.queue, nodes |-> b.nodes, edges |-> b.edges,
             segments |-> b.segments, stop |-> "truncated"]
    BY <1>6, <1>8 DEF b
  <2>2. /\ IsTrace(t) /\ t.queue = b.queue /\ t.edges = b.edges
        /\ t.segments = b.segments
    BY <2>1 DEF IsTrace
  <2> QED
    BY <1>3, <2>2, OthersKeep DEF b, c
<1>9. CASE \E f : /\ Outcomes(f, SUBSET S, from, current.depth, c, end)
                 /\ t \in f[S]
  <2>1. PICK f : /\ Outcomes(f, SUBSET S, from, current.depth, c, end)
                 /\ t \in f[S]
    BY <1>9
  <2> DEFINE All == UNION {f[T] : T \in SUBSET S}
             Good(u) == TraceOK(u, c)
                          /\ current.depth <= Cardinality(u.segments)
             G == {x \in (SUBSET S) \X All : Good(x[2])}
  <2>2. TraceOK(from, c) /\ from.segments = Begun(old).segments
    <3> DEFINE nodes == b.nodes \cup {current.anchor.id}
    <3>1. from = [b EXCEPT !.nodes = nodes]
      BY DEF Visited, b
    <3> HIDE DEF from, nodes
    <3>2. from = [queue |-> b.queue, nodes |-> nodes, edges |-> b.edges,
                  segments |-> b.segments, stop |-> b.stop]
      BY <1>6, <3>1
    <3>3. /\ IsTrace(from) /\ from.queue = b.queue /\ from.edges = b.edges
          /\ from.segments = b.segments
      BY <3>2 DEF IsTrace
    <3> QED
      BY <1>3, <3>3, OthersKeep DEF b
  <2> HIDE DEF from
  <2>3. \A T \in SUBSET S :
          f[T] = IF T = {} THEN {from}
                 ELSE UNION {{Taken(u, last, current.depth, c, end)
                                : u \in f[T \ {last}]} : last \in T}
    BY <2>1 DEF Outcomes
  <2>4. <<{}, from>> \in G
    BY <1>4, <2>2, <2>3
  <2>5. ASSUME NEW T \in SUBSET S, NEW last \in T, NEW u \in f[T \ {last}],
               <<T \ {last}, u>> \in G
        PROVE  <<T, Taken(u, last, current.depth, c, end)>> \in G
    <3> DEFINE r == Taken(u, last, current.depth, c, end)
    <3>1. Good(u)
      BY <2>5
    <3>2. Good(r)
      BY <1>1, <1>4, <3>1, TakenKeeps DEF c
    <3>3. r \in f[T]
      <4> DEFINE Of(l) == {Taken(v, l, current.depth, c, end)
                             : v \in f[T \ {l}]}
      <4>1. r \in Of(last)
        OBVIOUS
      <4>2. f[T] = UNION {Of(l) : l \in T}
        BY <2>3
      <4> HIDE DEF Of, r
      <4> QED
        BY <4>1, <4>2
    <3> HIDE DEF r, Good
    <3> QED
      BY <3>2, <3>3 DEF r
  <2> HIDE DEF G
  <2>6. \A u \in f[S] : <<S, u>> \in G
    <3>1. EachKeeps(G, f, S, current.depth, c, end)
      BY <2>5 DEF EachKeeps
    <3> QED
      BY <1>2, <2>1, <2>4, <3>1, OutcomesKeep DEF S
  <2>7. Good(t)
    BY <2>1, <2>6 DEF G
  <2> QED
    BY <2>7 DEF c
<1> QED
  BY <1>5, <1>7, <1>8, <1>9

\* The read of a query finds what a store held; a trace that begins with it has
\* one anchor waiting.
LEMMA ReadKeeps ==
  ASSUME StoresOK, QueryOK, NEW read \in DOMAIN ReadStore, Read(read)
  PROVE  GoodQuery(query')
<1> DEFINE c == query.command
<1>1. query.pc = "read"
  BY ReadMoves
<1>2. PICK versions \in ReadsOf(ReadStore[read]) :
        query' = AfterRead(Reading(read, versions), read)
  BY ReadMoves
<1>3. versions \in Kept
  <2>1. ReadStore[read] \in Stores
    BY DEF ReadStore, Stores
  <2> HIDE DEF Kept
  <2> QED
    BY <2>1, ReadsKept
<1>4. /\ c \in Commands /\ IsQuery(query) /\ TraceOK(query.trace, c)
      /\ query.saw \in [DOMAIN ReadStore -> Kept]
  BY <1>1, InProgress
<1> DEFINE q == Reading(read, versions)
<1>5. /\ IsQuery(q) /\ q.pc = "read" /\ q.command = c
      /\ q.trace = query.trace
      /\ q.saw = [query.saw EXCEPT ![read] = versions]
  BY <1>1, <1>4, ReadingIs
<1>6. q.saw \in [DOMAIN ReadStore -> Kept]
  BY <1>3, <1>4, <1>5
<1> DEFINE r == AfterRead(q, read)
<1> HIDE DEF q, c
<1>7. Follows(r, q)
  BY <1>4, <1>5, AfterReadIs DEF TraceOK
<1>8. r = query'
  BY <1>2 DEF q
<1> HIDE DEF r
<1>9. TraceOK(r.trace, c)
  <2>1. CASE r.trace = q.trace
    BY <1>4, <1>5, <2>1
  <2>2. CASE /\ r.trace.edges = q.trace.edges
             /\ r.trace.segments = q.trace.segments
             /\ Starts(r.trace.queue)
    <3>1. PICK a : r.trace.queue = <<[anchor |-> a, depth |-> 0]>>
      BY <2>2 DEF Starts
    <3> DEFINE e == [anchor |-> a, depth |-> 0]
    <3>2. e.depth = 0
      OBVIOUS
    <3> HIDE DEF e
    <3>3. IsSeq(r.trace.queue) /\ \A i \in DOMAIN r.trace.queue :
                                    r.trace.queue[i] = e
      <4>1. r.trace.queue \in Seq({e})
        BY <3>1 DEF e
      <4>2. IsSeq(r.trace.queue)
        BY <4>1, SeqIs
      <4> QED
        BY <4>1, <4>2
    <3>4. c.maxDepth \in Nat \ {0}
      BY <1>4, Budgets
    <3>5. IsFiniteSet(r.trace.segments)
      BY <1>4, <1>5, <2>2 DEF TraceOK
    <3>6. Cardinality(r.trace.segments) \in Nat
      BY <3>5, FS_CardinalityType
    <3>7. 0 \in Nat /\ 0 < c.maxDepth /\ 0 <= Cardinality(r.trace.segments)
      BY <3>4, <3>6
    <3>8. Waits(e, r.trace, c)
      BY <3>2, <3>7 DEF Waits
    <3>9. r.trace.edges = {s.edge : s \in r.trace.segments}
      BY <1>4, <1>5, <2>2 DEF TraceOK
    <3> QED
      BY <1>7, <3>3, <3>5, <3>8, <3>9 DEF TraceOK, Follows
  <2> QED
    BY <1>7, <2>1, <2>2 DEF Follows
<1>10. r.pc # "idle"
  BY <1>5, <1>7 DEF Follows
<1>11. r.command \in Commands /\ r.saw \in [DOMAIN ReadStore -> Kept]
       /\ TraceOK(r.trace, r.command)
  BY <1>4, <1>5, <1>6, <1>7, <1>9 DEF Follows
<1> QED
  BY <1>7, <1>8, <1>10, <1>11 DEF GoodQuery, Follows

\* A query in progress stays good when its control moves, an update is noted,
\* or its trace is replaced by a good one.
LEMMA GoodQueryWith ==
  ASSUME QueryOK, query.pc # "idle", NEW pc, pc # "idle", NEW trace,
         TraceOK(trace, query.command), NEW disturbed, NEW q,
         q = [query EXCEPT !.pc = pc, !.trace = trace,
                           !.disturbed = disturbed]
  PROVE  GoodQuery(q)
<1>1. /\ query.command \in Commands /\ IsQuery(query)
      /\ query.saw \in [DOMAIN ReadStore -> Kept]
  BY InProgress
<1>2. q = [pc |-> pc, command |-> query.command, reads |-> query.reads,
           saw |-> query.saw, trace |-> trace, disturbed |-> disturbed]
  BY <1>1 DEF IsQuery
<1>3. /\ IsQuery(q) /\ q.pc = pc /\ q.command = query.command
      /\ q.saw = query.saw /\ q.trace = trace
  BY <1>2 DEF IsQuery
<1> QED
  BY <1>1, <1>3 DEF GoodQuery

\* A query that is asked has read nothing.
LEMMA AskedIs ==
  ASSUME NEW c \in Commands
  PROVE  GoodQuery(Asked(c))
<1> DEFINE q == Asked(c)
<1>1. Nowhere \in Kept
  BY VersionsAre DEF Nowhere, Kept
<1>2. TraceOK(NoTrace, c)
  <2>1. /\ IsTrace(NoTrace) /\ NoTrace.queue = <<>> /\ NoTrace.edges = {}
        /\ NoTrace.segments = {}
    BY DEF NoTrace, IsTrace
  <2>2. IsSeq(<<>>)
    BY DEF IsSeq
  <2>3. IsFiniteSet({})
    BY FS_EmptySet
  <2> HIDE DEF NoTrace
  <2> QED
    BY <2>1, <2>2, <2>3 DEF TraceOK
<1> DEFINE saw == [r \in DOMAIN ReadStore |-> Nowhere]
           reads == ReadsAhead(c)
           trace == NoTrace
           during == agenda # <<>>
<1>3. q = [pc |-> "read", command |-> c, reads |-> reads, saw |-> saw,
           trace |-> trace, disturbed |-> during]
  BY DEF Asked
<1>4. saw \in [DOMAIN ReadStore -> Kept]
  BY <1>1
<1> HIDE DEF saw, reads, trace, during, q
<1>5. /\ IsQuery(q) /\ q.pc = "read" /\ q.command = c /\ q.saw = saw
      /\ q.trace = trace
  BY <1>3 DEF IsQuery
<1>6. TraceOK(trace, c)
  BY <1>2 DEF trace
<1>7. GoodQuery(q)
  BY <1>4, <1>5, <1>6 DEF GoodQuery
<1> QED
  BY <1>7 DEF q

\* Every step keeps the query good.
LEMMA QueryOKStep ==
  ASSUME StoresOK, QueryOK, [Next]_vars
  PROVE  QueryOK'
<1> SUFFICES GoodQuery(query')
  BY DEF QueryOK
<1>1. CASE query' = query
  BY <1>1 DEF QueryOK
<1>2. ASSUME NEW p \in Paths, NEW v \in Versions(p), StartUpdate(p, v)
      PROVE  GoodQuery(query')
  <2>1. query' = [query EXCEPT !.disturbed = query.pc # "idle"]
    BY <1>2 DEF StartUpdate
  <2>2. CASE query = NoQuery
    <3>1. query' = NoQuery
      BY <2>1, <2>2 DEF NoQuery
    <3> QED
      BY <3>1 DEF GoodQuery
  <2>3. CASE query # NoQuery
    <3> DEFINE disturbed == query.pc # "idle"
               pc == query.pc
               trace == query.trace
    <3>1. pc # "idle"
      BY <2>3 DEF QueryOK, GoodQuery
    <3>2. IsQuery(query) /\ TraceOK(trace, query.command)
      BY <3>1, InProgress
    <3>3. query' = [query EXCEPT !.disturbed = disturbed]
      BY <2>1
    <3> HIDE DEF disturbed
    <3>4. query' = [query EXCEPT !.pc = pc, !.trace = trace,
                                 !.disturbed = disturbed]
      BY <3>2, <3>3 DEF IsQuery
    <3> HIDE DEF pc, trace
    <3> QED
      BY <3>1, <3>2, <3>4, GoodQueryWith DEF pc
  <2> QED
    BY <2>2, <2>3
<1>3. ASSUME NEW c \in Commands, Ask(c)
      PROVE  GoodQuery(query')
  <2>1. query' = Asked(c)
    BY <1>3 DEF Ask
  <2> QED
    BY <2>1, AskedIs
<1>4. ASSUME NEW read \in DOMAIN ReadStore, Read(read)
      PROVE  GoodQuery(query')
  BY <1>4, ReadKeeps
<1>5. CASE Hop
  <2>1. PICK versions \in ReadsOf("graph") : \E t \in Expanded(query, versions) :
          query' = [query EXCEPT !.trace = t]
    BY <1>5 DEF Hop
  <2>2. PICK t \in Expanded(query, versions) : query' = [query EXCEPT !.trace = t]
    BY <2>1
  <2>3. query.pc = "trace" /\ Tracing
    BY <1>5 DEF Hop, Tracing
  <2>4. TraceOK(t, query.command)
    BY <2>3, ExpandedKeeps
  <2>5. IsQuery(query)
    BY <2>3, InProgress
  <2>6. query' = [query EXCEPT !.pc = query.pc, !.trace = t,
                               !.disturbed = query.disturbed]
    BY <2>2, <2>5 DEF IsQuery
  <2> QED
    BY <2>3, <2>4, <2>6, GoodQueryWith
<1>6. CASE TimeOut
  <2>1. PICK t : t = [query.trace EXCEPT !.stop = "truncated"]
    OBVIOUS
  <2>2. query.pc # "idle" /\ query' = [query EXCEPT !.trace = t]
    BY <1>6, <2>1 DEF TimeOut, Tracing
  <2>3. /\ IsQuery(query) /\ TraceOK(query.trace, query.command)
        /\ IsTrace(query.trace)
    BY <2>2, InProgress DEF TraceOK
  <2>4. t = [queue |-> query.trace.queue, nodes |-> query.trace.nodes,
             edges |-> query.trace.edges, segments |-> query.trace.segments,
             stop |-> "truncated"]
    BY <2>1, <2>3 DEF IsTrace
  <2>5. /\ IsTrace(t) /\ t.queue = query.trace.queue
        /\ t.edges = query.trace.edges /\ t.segments = query.trace.segments
    BY <2>4 DEF IsTrace
  <2>6. TraceOK(t, query.command)
    BY <2>3, <2>5, OthersKeep
  <2>7. PICK pc, disturbed :
          pc = query.pc /\ disturbed = query.disturbed
    OBVIOUS
  <2>8. query' = [query EXCEPT !.pc = pc, !.trace = t,
                               !.disturbed = disturbed]
    BY <2>2, <2>3, <2>7 DEF IsQuery
  <2>9. query.pc # "idle" /\ pc # "idle"
    BY <2>2, <2>7
  <2> QED
    BY <2>6, <2>8, <2>9, GoodQueryWith
<1>7. CASE EndTrace
  <2>1. PICK pc : pc = "answered"
    OBVIOUS
  <2>2. /\ query.pc # "idle" /\ pc # "idle"
        /\ query' = [query EXCEPT !.pc = pc]
    BY <1>7, <2>1 DEF EndTrace
  <2>3. IsQuery(query) /\ TraceOK(query.trace, query.command)
    BY <2>2, InProgress
  <2>4. query' = [query EXCEPT !.pc = pc, !.trace = query.trace,
                               !.disturbed = query.disturbed]
    BY <2>2, <2>3 DEF IsQuery
  <2> QED
    BY <2>2, <2>3, <2>4, GoodQueryWith
<1>8. CASE Return
  BY <1>8 DEF Return, GoodQuery
<1>9. CASE SourceChanges \/ StoreCall \/ CallFails
  BY <1>1, <1>9 DEF SourceChanges, StoreCall, CallFails
<1>10. CASE Stop
  BY <1>10 DEF Stop, GoodQuery, NoQuery
<1>11. CASE UNCHANGED vars
  BY <1>1, <1>11 DEF vars
<1> QED
  BY <1>2, <1>3, <1>4, <1>5, <1>6, <1>7, <1>8, <1>9, <1>10, <1>11 DEF Next

\* When nothing has been asked there is no query.
LEMMA QueryInit ==
  ASSUME Init
  PROVE  QueryOK
BY DEF Init, QueryOK, GoodQuery

\* The queries of every behaviour are good.
LEMMA QueriesGood == Spec => [](StoresOK /\ QueryOK)
<1>1. Init => StoresOK /\ QueryOK
  BY StoresInit, QueryInit
<1>2. (StoresOK /\ QueryOK) /\ [Next]_vars => (StoresOK /\ QueryOK)'
  BY StoresOKStep, QueryOKStep
<1> QED
  BY <1>1, <1>2, PTL DEF Spec

\* The budgets of a trace are hit with a report of it: every anchor that waits
\* in the queue of trace-flow-use-case.ts is within the depth.
THEOREM NothingIsDropped == Spec => []NothingDropped
<1>1. QueryOK => NothingDropped
  <2> SUFFICES ASSUME QueryOK, NEW i \in DOMAIN query.trace.queue
               PROVE  query.trace.queue[i].depth < query.command.maxDepth
    BY DEF NothingDropped
  <2>1. query # NoQuery
    BY DEF NoQuery, NoTrace
  <2>2. TraceOK(query.trace, query.command)
    BY <2>1 DEF QueryOK, GoodQuery
  <2> QED
    BY <2>2 DEF TraceOK, Waits
<1> QED
  BY <1>1, QueriesGood, PTL

-----------------------------------------------------------------------------
(* What answers leave out *)

\* An end of a fact that touches the anchor in the direction is among the Ends.
LEMMA EndsAre ==
  ASSUME NEW facts, NEW anchor, NEW direction \in {"forward", "backward", "both"}
  PROVE  Ends(facts, anchor, direction)
           = {f \in ToSet(facts) : Touches(f, anchor, direction)}
<1> SUFFICES ASSUME NEW f \in ToSet(facts)
             PROVE  f \in Ends(facts, anchor, direction)
                      <=> Touches(f, anchor, direction)
  BY DEF Ends
<1> DEFINE from == AnchorsEquivalent(anchor, RelationAnchor(f.from))
           to == AnchorsEquivalent(anchor, RelationAnchor(f.to))
<1>1. f \in Ends(facts, anchor, direction)
        <=> \/ direction # "backward" /\ from
            \/ direction # "forward" /\ to /\ ~from
  BY DEF Ends
<1>2. Touches(f, anchor, direction)
        <=> LET matched == IF from THEN "from" ELSE IF to THEN "to" ELSE "none"
            IN /\ matched # "none"
               /\ direction = "both"
                    \/ matched = (IF direction = "forward" THEN "from" ELSE "to")
  BY DEF Touches, DetectRelationEndpointMatch, RelationMatchesDirection
<1> HIDE DEF from, to
<1> QED
  BY <1>1, <1>2

\* Every mode of an impact has one of the three directions.
LEMMA ModesHaveDirections ==
  ASSUME NEW mode
  PROVE  ModeToDirection(mode) \in {"forward", "backward", "both"}
<1>1. CASE mode = "callers"
  BY <1>1 DEF ModeToDirection
<1>2. CASE mode = "all"
  BY <1>2 DEF ModeToDirection
<1>3. CASE mode \notin {"callers", "all"}
  BY <1>3 DEF ModeToDirection
<1> QED
  BY <1>1, <1>2, <1>3

\* An impact that leaves out a fact is marked as truncated.
LEMMA ImpactCut ==
  ASSUME NEW F, NEW facts \in Seq(F), NEW a, NEW c, c.maxResults \in Nat
  PROVE  LET answer == AnalyzeImpact(facts, a, c)
             all == {f \in {f \in Ends(facts, a, ModeToDirection(c.mode)) :
                              f.kind \in ModeRelationKinds[c.mode]} :
                       f.confidence >= c.confidenceMin}
         IN all # ToSet(answer.facts) => answer.truncated
<1> DEFINE d == ModeToDirection(c.mode)
           kinds == ModeRelationKinds[c.mode]
           all == {f \in {f \in Ends(facts, a, d) : f.kind \in kinds} :
                     f.confidence >= c.confidenceMin}
           matches == {f \in ToSet(facts) : /\ Touches(f, a, d)
                                            /\ f.kind \in kinds
                                            /\ f.confidence >= c.confidenceMin}
<1>1. Ends(facts, a, d) = {f \in ToSet(facts) : Touches(f, a, d)}
  BY ModesHaveDirections, EndsAre
<1>2. ToSet(ImpactMatches(facts, a, c)) = matches
  BY ImpactMatchesKeeps
<1>3. all = matches
  <2> HIDE DEF d, kinds
  <2> QED
    BY <1>1
<1>4. \/ AnalyzeImpact(facts, a, c).truncated
      \/ ToSet(AnalyzeImpact(facts, a, c).facts)
           = ToSet(ImpactMatches(facts, a, c))
  BY ImpactReported
<1> HIDE DEF matches
<1> QED
  BY <1>2, <1>3, <1>4

\* A slice that leaves out a fact is marked as truncated, or has as many files
\* as it may have.
LEMMA SliceCut ==
  ASSUME NEW F, NEW facts \in Seq(F), NEW a, NEW c, c.maxItems \in Nat,
         c.maxFiles \in Nat, c.direction \in {"forward", "backward", "both"}
  PROVE  LET answer == ComputeSlice(facts, a, c)
             all == {f \in Ends(facts, a, c.direction) :
                       RelationUsesInclude(f.kind, c.include)}
         IN all # ToSet(answer.facts) =>
              \/ answer.truncated
              \/ Cardinality({f.path : f \in ToSet(answer.facts)}) = c.maxFiles
<1> DEFINE all == {f \in Ends(facts, a, c.direction) :
                     RelationUsesInclude(f.kind, c.include)}
           matches == {f \in ToSet(facts) :
                         /\ Touches(f, a, c.direction)
                         /\ RelationUsesInclude(f.kind, c.include)}
<1>1. Ends(facts, a, c.direction)
        = {f \in ToSet(facts) : Touches(f, a, c.direction)}
  BY EndsAre
<1>2. ToSet(SliceMatches(facts, a, c)) = matches
  BY SliceMatchesKeeps
<1>3. all = matches
  BY <1>1
<1> HIDE DEF all, matches
<1> DEFINE answer == ComputeSlice(facts, a, c)
<1>4. \/ answer.truncated
      \/ ToSet(answer.facts) = ToSet(SliceMatches(facts, a, c))
      \/ Cardinality({f.path : f \in ToSet(answer.facts)}) = c.maxFiles
  BY SliceReported
<1> HIDE DEF answer
<1>5. all # ToSet(answer.facts) =>
        \/ answer.truncated
        \/ Cardinality({f.path : f \in ToSet(answer.facts)}) = c.maxFiles
  BY <1>2, <1>3, <1>4
<1> QED
  BY <1>5 DEF all, answer

\* The canonical facts of a store have confidences.
LEMMA CanonicalSure ==
  ASSUME NEW versions \in Kept, NEW f \in Stored("canonical", versions)
  PROVE  f.confidence \in Nat
<1>1. PICK p \in Paths : f \in Table[p][versions[p]].canonical
  BY DEF Stored
<1>2. versions[p] \in Versions(p)
  BY DEF Kept
<1> QED
  BY <1>1, <1>2, QueriesAssumption DEF Table

\* An answer that leaves something out says so: that of an impact
\* (analyze-impact-use-case.ts), of a slice (compute-slice-use-case.ts), and a
\* list of entry points (detect-entrypoints-use-case.ts).
THEOREM CutsAreReported == Spec => []CutReported
<1>1. QueryOK => CutReported
  <2> SUFFICES ASSUME QueryOK, query.pc = "answered"
               PROVE  CutReported
    BY DEF CutReported, Answered
  <2> DEFINE c == query.command
             facts == Facts(query)
             a == StartAnchor(query)
             found == query.saw.canonical
             symbols == Stored("symbols", query.saw.symbols)
  <2>1. /\ c \in Commands
        /\ query.saw \in [DOMAIN ReadStore -> Kept]
    BY InProgress
  <2>2. query.saw.facts \in Kept /\ found \in Kept
    BY <2>1 DEF ReadStore
  <2>3. facts \in Seq(Stored("derived", query.saw.facts))
    BY <2>2, DerivedListed DEF Facts
  <2>4. /\ c.maxResults \in Nat /\ c.maxItems \in Nat /\ c.limit \in Nat
        /\ c.maxFiles \in Nat
        /\ c.direction \in {"forward", "backward", "both"}
    BY <2>1, Budgets
  <2> DEFINE canonical == Listed("canonical", found)
  <2>5. canonical \in Seq(Stored("canonical", found))
    BY <2>2, FactsListed
  <2>6. \A f \in Stored("canonical", found) : f.confidence \in Nat
    BY <2>2, CanonicalSure
  <2> HIDE DEF c, facts, a, found, symbols, canonical
  <2>7. LET answer == AnalyzeImpact(facts, a, c)
            all == {f \in {f \in Ends(facts, a, ModeToDirection(c.mode)) :
                             f.kind \in ModeRelationKinds[c.mode]} :
                      f.confidence >= c.confidenceMin}
        IN all # ToSet(answer.facts) => answer.truncated
    BY <2>3, <2>4, ImpactCut
  <2>8. LET answer == ComputeSlice(facts, a, c)
            all == {f \in Ends(facts, a, c.direction) :
                      RelationUsesInclude(f.kind, c.include)}
        IN all # ToSet(answer.facts) =>
             \/ answer.truncated
             \/ Cardinality({f.path : f \in ToSet(answer.facts)}) = c.maxFiles
    BY <2>3, <2>4, SliceCut
  <2>9. LET entries == Entrypoints(canonical, symbols, c)
            answer == DetectEntrypoints(canonical, symbols, c)
        IN \/ Len(answer) = c.limit
           \/ \A e \in ToSet(entries) : \E b \in ToSet(answer) :
                EntryKey(b) = EntryKey(e)
    BY <2>4, <2>5, <2>6, EntrypointsReported
  <2> QED
    BY <2>7, <2>8, <2>9
    DEF CutReported, EntryKey, c, facts, a, found, symbols, canonical
<1> QED
  BY <1>1, QueriesGood, PTL
=============================================================================
