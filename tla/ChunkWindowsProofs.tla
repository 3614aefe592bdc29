------------------------- MODULE ChunkWindowsProofs -------------------------
(***************************************************************************)
(* Theorems about ChunkWindows, for any documents, settings and sizes of   *)
(* batches: no text is lost on the way into the store, what comes there    *)
(* fits and is from the place it names, with the vector of its own text.   *)
(*                                                                         *)
(* A function of a list, a loop over windows or rounds of cutting is       *)
(* defined by an equation: for each of them first that the equation has a  *)
(* solution, then, by induction along a well-founded relation (as the      *)
(* least number that would break it), what every solution holds.           *)
(***************************************************************************)
EXTENDS ChunkWindows, FiniteSetTheorems, SequenceTheorems,
        WellFoundedInduction, TLAPS

-----------------------------------------------------------------------------
(* Numbers and positions *)

\* A set of numbers that is not empty has a least one.
LEMMA LeastNumber ==
  ASSUME NEW T \in SUBSET Nat, T # {}
  PROVE  \E m \in T : \A n \in T : m <= n
<1> DEFINE R == OpToRel(<, Nat)
<1>1. IsWellFoundedOn(R, Nat)
  BY NatLessThanWellFounded
<1>2. \E m \in T : \A n \in T : ~ (<<n, m>> \in R)
  BY <1>1, WFMin
<1>3. \A m, n \in T : <<n, m>> \notin R => m <= n
  BY DEF OpToRel
<1> QED
  BY <1>2, <1>3

\* Min takes it.
LEMMA MinIs ==
  ASSUME NEW T \in SUBSET Nat, T # {}
  PROVE  Min(T) \in T /\ \A n \in T : Min(T) <= n
BY LeastNumber DEF Min

\* Max takes the greatest of numbers that are bounded.
LEMMA MaxIs ==
  ASSUME NEW T \in SUBSET Nat, T # {}, NEW b \in Nat, \A n \in T : n <= b
  PROVE  Max(T) \in T /\ \A n \in T : n <= Max(T)
<1> DEFINE U == {b - n : n \in T}
<1>1. U \in SUBSET Nat /\ U # {}
  OBVIOUS
<1>2. PICK m \in U : \A n \in U : m <= n
  <2> HIDE DEF U
  <2> QED
    BY <1>1, LeastNumber
<1>3. PICK k \in T : m = b - k
  BY <1>2
<1>4. \A n \in T : n <= k
  <2> SUFFICES ASSUME NEW n \in T PROVE n <= k
    OBVIOUS
  <2>1. b - n \in U
    OBVIOUS
  <2>2. m <= b - n
    BY <1>2, <2>1
  <2> QED
    BY <1>3, <2>2
<1>5. \E x \in T : \A y \in T : x >= y
  BY <1>4
<1> HIDE DEF U
<1>6. Max(T) \in T /\ \A y \in T : Max(T) >= y
  BY <1>5 DEF Max
<1> QED
  BY <1>6

\* The elements of P up to i.
Upto(P, i) == {j \in P : j <= i}

\* Each of finitely many numbers has a rank of its own, and each rank is taken.
LEMMA RanksOnce ==
  ASSUME NEW P \in SUBSET Nat, IsFiniteSet(P)
  PROVE  /\ Cardinality(P) \in Nat
         /\ \A i \in P : Cardinality(Upto(P, i)) \in 1..Cardinality(P)
         /\ \A i, j \in P : Cardinality(Upto(P, i)) = Cardinality(Upto(P, j))
                              => i = j
         /\ \A n \in 1..Cardinality(P) : \E i \in P :
              Cardinality(Upto(P, i)) = n
<1> DEFINE size == Cardinality(P)
           rank(i) == Cardinality(Upto(P, i))
<1>1. size \in Nat
  BY FS_CardinalityType
<1>2. \A i \in P : /\ IsFiniteSet(Upto(P, i))
                   /\ rank(i) \in Nat /\ rank(i) <= size
  <2> SUFFICES ASSUME NEW i \in P
               PROVE  /\ IsFiniteSet(Upto(P, i))
                      /\ rank(i) \in Nat /\ rank(i) <= size
    OBVIOUS
  <2>1. Upto(P, i) \in SUBSET P
    BY DEF Upto
  <2> HIDE DEF rank
  <2>2. IsFiniteSet(Upto(P, i))
    BY <2>1, FS_Subset
  <2> QED
    BY <2>1, <2>2, FS_Subset, FS_CardinalityType DEF rank
<1>3. \A i \in P : rank(i) # 0
  <2> SUFFICES ASSUME NEW i \in P PROVE rank(i) # 0
    OBVIOUS
  <2>1. i \in Upto(P, i)
    BY DEF Upto
  <2> QED
    BY <1>2, <2>1, FS_EmptySet
<1>4. \A i, j \in P : rank(i) = rank(j) => i = j
  <2>1. ASSUME NEW i \in P, NEW j \in P, rank(i) = rank(j), i <= j
        PROVE  i = j
    <3>1. Upto(P, i) \in SUBSET Upto(P, j)
      <4>1. \A k \in P : k \in Nat
        OBVIOUS
      <4>2. \A k \in P : k <= i => k <= j
        BY <2>1, <4>1
      <4> QED
        BY <4>2 DEF Upto
    <3>2. Upto(P, i) = Upto(P, j)
      BY <1>2, <2>1, <3>1, FS_Subset
    <3>3. j \in Upto(P, i)
      BY <3>2 DEF Upto
    <3> QED
      BY <2>1, <3>3 DEF Upto
  <2> QED
    BY <2>1
<1>5. \A n \in 1..size : \E i \in P : rank(i) = n
  <2> DEFINE f == [i \in P |-> rank(i)]
  <2>1. IsFiniteSet(1..size) /\ Cardinality(1..size) = size
    BY <1>1, FS_Interval
  <2>2. f \in [P -> 1..size]
    BY <1>1, <1>2, <1>3
  <2>3. \A i, j \in P : f[i] = f[j] => i = j
    BY <1>4
  <2> HIDE DEF f
  <2>4. f \in Injection(P, 1..size)
    BY <2>2, <2>3 DEF Injection, IsInjective
  <2>5. f \in Surjection(P, 1..size)
    BY <2>1, <2>4, FS_Injection
  <2>6. \A n \in 1..size : \E i \in P : f[i] = n
    BY <2>5 DEF Surjection
  <2> QED
    BY <2>6 DEF f
<1> QED
  BY <1>1, <1>2, <1>3, <1>4, <1>5

\* A sequence, of whatever.
IsList(s) == s \in Seq(ToSet(s))

\* What is a list on 1..n.
LEMMA ListIs ==
  ASSUME NEW n \in Nat, NEW s, s = [i \in 1..n |-> s[i]]
  PROVE  /\ IsList(s) /\ Len(s) = n /\ DOMAIN s = 1..n
         /\ ToSet(s) = {s[i] : i \in 1..n}
<1>1. ToSet(s) = {s[i] : i \in 1..n}
  BY DEF ToSet
<1>2. s \in [1..n -> ToSet(s)]
  BY <1>1
<1>3. s \in Seq(ToSet(s))
  BY <1>2, SeqDef
<1> QED
  BY <1>1, <1>2, <1>3, LenProperties DEF IsList

\* InOrder takes what is at the positions, each at its rank.
LEMMA InOrderTakes ==
  ASSUME NEW records, NEW P \in SUBSET Nat, IsFiniteSet(P)
  PROVE  LET r == InOrder(records, P)
         IN /\ Cardinality(P) \in Nat
            /\ IsList(r) /\ Len(r) = Cardinality(P)
            /\ DOMAIN r = 1..Cardinality(P)
            /\ ToSet(r) = {records[i] : i \in P}
            /\ \A n \in 1..Cardinality(P) : \E i \in P :
                 r[n] = records[i] /\ Cardinality(Upto(P, i)) = n
            /\ \A i \in P : /\ Cardinality(Upto(P, i)) \in 1..Cardinality(P)
                            /\ r[Cardinality(Upto(P, i))] = records[i]
<1> DEFINE at(n) == CHOOSE i \in P : Cardinality(Upto(P, i)) = n
           r == InOrder(records, P)
<1>1. r = [n \in 1..Cardinality(P) |-> records[at(n)]]
  BY DEF InOrder, Upto
<1> HIDE DEF r
<1>2. /\ Cardinality(P) \in Nat
      /\ \A i \in P : Cardinality(Upto(P, i)) \in 1..Cardinality(P)
      /\ \A i, k \in P : Cardinality(Upto(P, i)) = Cardinality(Upto(P, k))
                           => i = k
      /\ \A n \in 1..Cardinality(P) : \E i \in P : Cardinality(Upto(P, i)) = n
  BY RanksOnce
<1>3. \A n \in 1..Cardinality(P) :
        at(n) \in P /\ Cardinality(Upto(P, at(n))) = n
  BY <1>2
<1>4. \A i \in P : at(Cardinality(Upto(P, i))) = i
  BY <1>2, <1>3
<1> HIDE DEF at
<1>5. r = [n \in 1..Cardinality(P) |-> r[n]]
  BY <1>1
<1>6. /\ IsList(r) /\ Len(r) = Cardinality(P) /\ DOMAIN r = 1..Cardinality(P)
      /\ ToSet(r) = {r[n] : n \in 1..Cardinality(P)}
  BY <1>2, <1>5, ListIs
<1>7. \A n \in 1..Cardinality(P) : \E i \in P :
        r[n] = records[i] /\ Cardinality(Upto(P, i)) = n
  BY <1>1, <1>3
<1>8. \A i \in P : /\ Cardinality(Upto(P, i)) \in 1..Cardinality(P)
                   /\ r[Cardinality(Upto(P, i))] = records[i]
  BY <1>1, <1>2, <1>4
<1>9. ToSet(r) = {records[i] : i \in P}
  <2>1. ASSUME NEW x \in ToSet(r) PROVE x \in {records[i] : i \in P}
    BY <1>6, <1>7
  <2>2. ASSUME NEW i \in P PROVE records[i] \in ToSet(r)
    BY <1>6, <1>8
  <2> QED
    BY <2>1, <2>2
<1> QED
  BY <1>2, <1>6, <1>7, <1>8, <1>9 DEF r

\* A selection of a list has what is at the positions selected.
LEMMA SelectionTakes ==
  ASSUME NEW records, NEW n \in Nat, NEW P \in SUBSET (1..n)
  PROVE  /\ IsList(InOrder(records, P))
         /\ ToSet(InOrder(records, P)) = {records[i] : i \in P}
<1>1. IsFiniteSet(1..n)
  BY FS_Interval
<1>2. IsFiniteSet(P)
  BY <1>1, FS_Subset
<1>3. P \in SUBSET Nat
  OBVIOUS
<1> QED
  BY <1>2, <1>3, InOrderTakes

-----------------------------------------------------------------------------
(* Spans *)

\* A span of n positions, perhaps empty.
IsSpan(n, s) ==
  \E a \in 1..n + 1, b \in 0..n : s = <<a, b>> /\ a <= b + 1
IsText(t) == t \in Seq(Character)
\* A span that is not empty, without blank ends.
Tight(t, s) ==
  /\ IsSpan(Len(t), s) /\ ~Empty(s)
  /\ s[1] \notin Blank(t) /\ s[2] \notin Blank(t)

\* What a span is.
LEMMA SpanIs ==
  ASSUME NEW n \in Nat, NEW s, IsSpan(n, s)
  PROVE  /\ s = <<s[1], s[2]>>
         /\ s[1] \in 1..n + 1 /\ s[2] \in 0..n /\ s[1] <= s[2] + 1
         /\ Span(s) \subseteq 1..n /\ Size(s) \in Nat
         /\ Empty(s) <=> Span(s) = {}
<1>1. PICK a \in 1..n + 1, b \in 0..n : s = <<a, b>> /\ a <= b + 1
  BY DEF IsSpan
<1>2. s[1] = a /\ s[2] = b
  BY <1>1
<1>3. Span(s) = a..b /\ Size(s) = b - a + 1 /\ (Empty(s) <=> a > b)
  BY <1>2 DEF Span, Size, Empty
<1>4. a..b \subseteq 1..n /\ (a > b <=> a..b = {}) /\ b - a + 1 \in Nat
  BY <1>1
<1>5. s = <<s[1], s[2]>>
  BY <1>1, <1>2
<1>6. s[1] \in 1..n + 1 /\ s[2] \in 0..n /\ s[1] <= s[2] + 1
  BY <1>1, <1>2
<1> QED
  BY <1>3, <1>4, <1>5, <1>6

\* Trimming takes blanks away, and leaves none at the ends.
LEMMA TrimmedIs ==
  ASSUME NEW t, IsText(t), NEW s, IsSpan(Len(t), s)
  PROVE  LET r == Trimmed(t, s)
         IN /\ IsSpan(Len(t), r) /\ Span(r) \subseteq Span(s)
            /\ Span(s) \ Blank(t) \subseteq Span(r)
            /\ ~Empty(r) => Tight(t, r)
            /\ Size(r) <= Size(s)
<1> DEFINE solid == Span(s) \ Blank(t)
           r == Trimmed(t, s)
           n == Len(t)
<1>1. n \in Nat /\ DOMAIN t = 1..n
  BY DEF IsText
<1>2. /\ s[1] \in 1..n + 1 /\ s[2] \in 0..n /\ s[1] <= s[2] + 1
      /\ Span(s) = s[1]..s[2] /\ Span(s) \subseteq 1..n
      /\ Size(s) = s[2] - s[1] + 1
  BY <1>1, SpanIs DEF Span, Size
<1>3. CASE solid = {}
  <2>1. PICK x : x = r /\ x = <<1, 0>>
    BY <1>3 DEF Trimmed
  <2>2. IsSpan(n, x) /\ Span(x) = {} /\ Empty(x) /\ Size(x) = 0
    <3>1. x[1] = 1 /\ x[2] = 0
      BY <2>1
    <3> QED
      BY <1>1, <2>1, <3>1 DEF IsSpan, Span, Empty, Size
  <2> QED
    BY <1>2, <1>3, <2>1, <2>2
<1>4. CASE solid # {}
  <2>1. PICK x, a, b : x = r /\ x = <<a, b>> /\ a = Min(solid) /\ b = Max(solid)
    BY <1>4 DEF Trimmed
  <2>2. solid \in SUBSET Nat /\ \A i \in solid : i <= n /\ i \in s[1]..s[2]
    BY <1>2
  <2> HIDE DEF solid
  <2>3. a \in solid /\ \A i \in solid : a <= i
    BY <1>4, <2>1, <2>2, MinIs
  <2>4. b \in solid /\ \A i \in solid : i <= b
    BY <1>1, <1>4, <2>1, <2>2, MaxIs
  <2>5. x[1] = a /\ x[2] = b
    BY <2>1
  <2>6. a \in 1..n /\ b \in 1..n /\ a <= b /\ s[1] <= a /\ b <= s[2]
    BY <1>1, <1>2, <2>2, <2>3, <2>4
  <2>7. IsSpan(n, x)
    BY <1>1, <2>1, <2>6 DEF IsSpan
  <2>8. Span(x) = a..b /\ Size(x) = b - a + 1 /\ ~Empty(x)
    BY <2>5, <2>6 DEF Span, Size, Empty
  <2>9. Tight(t, x)
    BY <2>3, <2>4, <2>5, <2>7, <2>8 DEF Tight, solid
  <2>10. solid \subseteq Span(x)
    BY <1>2, <2>2, <2>3, <2>4, <2>6, <2>8
  <2>11. Span(x) \subseteq Span(s) /\ Size(x) <= Size(s)
    BY <1>2, <2>6, <2>8
  <2> QED
    BY <2>1, <2>7, <2>9, <2>10, <2>11 DEF solid
<1> QED
  BY <1>3, <1>4

-----------------------------------------------------------------------------
(* Pieces *)

\* The positions where the pieces of a span begin, and where they end.
LEMMA PieceIs ==
  ASSUME NEW n \in Nat, NEW s, IsSpan(n, s), NEW at, NEW a \in Starts(s, at)
  PROVE  LET p == Piece(s, at, a)
         IN /\ IsSpan(n, p) /\ p[1] = a /\ p[2] + 1 >= a /\ p[2] <= s[2]
            /\ a \in s[1]..s[2] + 1
            /\ Span(p) \subseteq Span(s) \ at
            /\ p[2] + 1 \in (at \cap Span(s)) \cup {s[2] + 1}
<1> DEFINE ends == {i \in at \cap Span(s) : a <= i} \cup {s[2] + 1}
<1>1. /\ s[1] \in 1..n + 1 /\ s[2] \in 0..n /\ s[1] <= s[2] + 1
      /\ Span(s) = s[1]..s[2] /\ Span(s) \subseteq 1..n
  BY SpanIs DEF Span
<1>2. a \in Nat /\ s[1] <= a /\ a <= s[2] + 1
  BY <1>1 DEF Starts
<1>3. /\ ends \in SUBSET Nat /\ ends # {} /\ s[2] + 1 \in ends
      /\ \A i \in ends : a <= i
      /\ ends \subseteq (at \cap Span(s)) \cup {s[2] + 1}
      /\ \A i \in at \cap Span(s) : a <= i => i \in ends
  BY <1>1, <1>2
<1>4. PICK e : e = Min(ends)
  OBVIOUS
<1>5. PICK p : p = Piece(s, at, a) /\ p = <<a, e - 1>>
  BY <1>4 DEF Piece
<1> HIDE DEF ends
<1>6. e \in ends /\ \A i \in ends : e <= i
  BY <1>3, <1>4, MinIs
<1>7. p[1] = a /\ p[2] = e - 1
  BY <1>5
<1>8. e \in Nat /\ a <= e /\ e <= s[2] + 1
  BY <1>3, <1>6
<1>9. IsSpan(n, p)
  BY <1>1, <1>2, <1>5, <1>8 DEF IsSpan
<1>10. Span(p) = a..e - 1
  BY <1>7 DEF Span
<1>11. Span(p) \subseteq Span(s) \ at
  <2> SUFFICES ASSUME NEW i \in Span(p) PROVE i \in Span(s) \ at
    OBVIOUS
  <2>1. i \in Nat /\ a <= i /\ i < e
    BY <1>2, <1>8, <1>10
  <2>2. i \in Span(s)
    BY <1>1, <1>2, <1>8, <2>1
  <2>3. i \notin at
    BY <1>3, <1>6, <2>1, <2>2
  <2> QED
    BY <2>2, <2>3
<1>12. e \in (at \cap Span(s)) \cup {s[2] + 1} /\ p[2] + 1 = e
  BY <1>3, <1>6, <1>7, <1>8
<1> QED
  BY <1>1, <1>2, <1>5, <1>7, <1>8, <1>9, <1>11, <1>12

\* The starts are finitely many numbers.
LEMMA StartsAre ==
  ASSUME NEW n \in Nat, NEW s, IsSpan(n, s), NEW at
  PROVE  /\ Starts(s, at) \in SUBSET Nat /\ IsFiniteSet(Starts(s, at))
         /\ s[1] \in Starts(s, at)
         /\ \A a \in Starts(s, at) : s[1] <= a /\ a <= s[2] + 1
         /\ Cardinality(Starts(s, at)) \in Nat \ {0}
<1>1. /\ s[1] \in 1..n + 1 /\ s[2] \in 0..n /\ s[1] <= s[2] + 1
      /\ Span(s) = s[1]..s[2]
  BY SpanIs DEF Span
<1>2. Starts(s, at) \in SUBSET (s[1]..s[2] + 1)
  BY <1>1 DEF Starts
<1>3. IsFiniteSet(s[1]..s[2] + 1)
  <2>1. PICK a \in Int, b \in Int : a = s[1] /\ b = s[2] + 1
    BY <1>1
  <2> QED
    BY <2>1, FS_Interval
<1>4. IsFiniteSet(Starts(s, at))
  BY <1>2, <1>3, FS_Subset
<1>5. s[1] \in Starts(s, at)
  BY DEF Starts
<1>6. Starts(s, at) # {}
  BY <1>5
<1>7. Cardinality(Starts(s, at)) \in Nat \ {0}
  BY <1>4, <1>6, FS_EmptySet, FS_CardinalityType
<1> QED
  BY <1>1, <1>2, <1>4, <1>5, <1>7

\* Between the last start up to it and its end there is every position of a
\* span that it is not cut at.
LEMMA PieceHolds ==
  ASSUME NEW n \in Nat, NEW s, IsSpan(n, s), NEW at,
         NEW p \in Span(s) \ at
  PROVE  \E a \in Starts(s, at) :
           p \in Span(Piece(s, at, a)) /\ Upto(Starts(s, at), a) = Upto(Starts(s, at), p)
<1> DEFINE first == Upto(Starts(s, at), p)
<1>1. /\ s[1] \in 1..n + 1 /\ s[2] \in 0..n /\ Span(s) = s[1]..s[2]
      /\ p \in Nat /\ s[1] <= p /\ p <= s[2]
  BY SpanIs DEF Span
<1>2. first \in SUBSET Nat /\ s[1] \in first /\ \A a \in first : a <= p
  BY <1>1, StartsAre DEF Upto
<1>3. PICK a : a = Max(first)
  OBVIOUS
<1>4. first \subseteq Starts(s, at)
  BY DEF Upto
<1> HIDE DEF first
<1>5. a \in first /\ \A i \in first : i <= a
  BY <1>1, <1>2, <1>3, MaxIs
<1>6. a \in Starts(s, at) /\ a \in Nat /\ a <= p
  BY <1>2, <1>4, <1>5
<1>7. PICK e : e = Piece(s, at, a)[2] + 1
  OBVIOUS
<1>8. /\ IsSpan(n, Piece(s, at, a)) /\ Piece(s, at, a)[1] = a
      /\ e \in (at \cap Span(s)) \cup {s[2] + 1} /\ e >= a
  BY <1>6, <1>7, PieceIs
<1>9. p < e
  <2> SUFFICES ASSUME ~(p < e) PROVE FALSE
    OBVIOUS
  <2>1. e \in at \cap Span(s) /\ e \in Nat
    BY <1>1, <1>8
  <2>2. e # p /\ e + 1 <= p
    BY <1>1, <2>1
  <2>3. e + 1 \in Starts(s, at)
    BY <2>1 DEF Starts
  <2>4. e + 1 \in first
    BY <2>2, <2>3 DEF first, Upto
  <2> QED
    BY <1>5, <1>6, <1>8, <2>1, <2>4
<1>10. Piece(s, at, a)[2] \in Int
  BY <1>8, SpanIs
<1>11. p \in Span(Piece(s, at, a))
  BY <1>1, <1>6, <1>7, <1>8, <1>9, <1>10 DEF Span
<1>12. Upto(Starts(s, at), a) = first
  <2>1. \A i \in Starts(s, at) : i \in Nat
    BY StartsAre
  <2>2. \A i \in first : i \in Starts(s, at) /\ i <= a
    BY <1>4, <1>5
  <2>3. \A i \in Starts(s, at) : i <= a => i <= p
    BY <1>1, <1>6, <2>1
  <2> QED
    BY <2>2, <2>3 DEF Upto, first
<1> QED
  BY <1>6, <1>11, <1>12 DEF first

\* Cutting a span loses what it is cut at, and nothing else.
LEMMA CutIs ==
  ASSUME NEW n \in Nat, NEW s, IsSpan(n, s), NEW at
  PROVE  LET r == Cut(s, at)
         IN /\ IsList(r) /\ Len(r) = Cardinality(Starts(s, at)) /\ Len(r) \in Nat \ {0}
            /\ \A p \in ToSet(r) : IsSpan(n, p) /\ Span(p) \subseteq Span(s) \ at
            /\ \A i \in Span(s) \ at : \E p \in ToSet(r) : i \in Span(p)
            /\ \A k \in DOMAIN r : \E a \in Starts(s, at) :
                 r[k] = Piece(s, at, a) /\ Cardinality(Upto(Starts(s, at), a)) = k
            /\ \A i \in Span(s) \ at :
                 LET k == Cardinality(Upto(Starts(s, at), i))
                 IN k \in DOMAIN r /\ i \in Span(r[k])
<1> DEFINE starts == Starts(s, at)
           f == [a \in starts |-> Piece(s, at, a)]
           r == Cut(s, at)
<1>1. r = InOrder(f, starts)
  BY DEF Cut
<1>2. /\ starts \in SUBSET Nat /\ IsFiniteSet(starts)
      /\ Cardinality(starts) \in Nat \ {0}
  BY StartsAre
<1> HIDE DEF r
<1>3. \A a \in starts : f[a] = Piece(s, at, a)
  OBVIOUS
<1> HIDE DEF f, starts
<1>4. /\ IsList(r) /\ Len(r) = Cardinality(starts)
      /\ DOMAIN r = 1..Cardinality(starts)
      /\ ToSet(r) = {f[a] : a \in starts}
      /\ \A k \in 1..Cardinality(starts) : \E a \in starts :
           r[k] = f[a] /\ Cardinality(Upto(starts, a)) = k
      /\ \A a \in starts : /\ Cardinality(Upto(starts, a)) \in 1..Cardinality(starts)
                           /\ r[Cardinality(Upto(starts, a))] = f[a]
  BY <1>1, <1>2, InOrderTakes
<1>5. \A p \in ToSet(r) : IsSpan(n, p) /\ Span(p) \subseteq Span(s) \ at
  BY <1>3, <1>4, PieceIs DEF starts
<1>6. ASSUME NEW i \in Span(s) \ at
      PROVE  LET k == Cardinality(Upto(starts, i))
             IN k \in DOMAIN r /\ i \in Span(r[k])
  <2>1. PICK a \in starts : i \in Span(Piece(s, at, a))
                              /\ Upto(starts, a) = Upto(starts, i)
    BY PieceHolds DEF starts
  <2> QED
    BY <1>3, <1>4, <2>1
<1>7. ASSUME NEW i \in Span(s) \ at
      PROVE  \E p \in ToSet(r) : i \in Span(p)
  BY <1>6 DEF ToSet
<1> QED
  BY <1>2, <1>3, <1>4, <1>5, <1>6, <1>7 DEF r, starts

\* Parts of a text that is cut at blanks hold all of it but blanks.
LEMMA PartsAre ==
  ASSUME NEW t, IsText(t), NEW s, IsSpan(Len(t), s),
         NEW at, at \subseteq Blank(t)
  PROVE  LET r == Parts(t, s, at)
         IN /\ IsList(r)
            /\ \A p \in ToSet(r) : Tight(t, p) /\ Span(p) \subseteq Span(s) \ at
            /\ \A i \in Span(s) \ Blank(t) : \E p \in ToSet(r) : i \in Span(p)
<1> DEFINE pieces == Cut(s, at)
           trimmed == [k \in DOMAIN pieces |-> Trimmed(t, pieces[k])]
           P == {k \in DOMAIN pieces : ~Empty(trimmed[k])}
           r == Parts(t, s, at)
<1>1. r = InOrder(trimmed, P)
  BY DEF Parts
<1>2. Len(t) \in Nat
  BY DEF IsText
<1>3. /\ IsList(pieces) /\ Len(pieces) \in Nat
      /\ \A p \in ToSet(pieces) : IsSpan(Len(t), p) /\ Span(p) \subseteq Span(s) \ at
      /\ \A i \in Span(s) \ at : \E p \in ToSet(pieces) : i \in Span(p)
  BY <1>2, CutIs
<1> HIDE DEF pieces, r
<1>4. DOMAIN pieces = 1..Len(pieces)
        /\ ToSet(pieces) = {pieces[k] : k \in DOMAIN pieces}
  BY <1>3 DEF IsList, ToSet
<1>5. P \in SUBSET (1..Len(pieces))
  BY <1>4
<1>6. \A k \in DOMAIN pieces : trimmed[k] = Trimmed(t, pieces[k])
  OBVIOUS
<1>7. \A k \in DOMAIN pieces : k \in P <=> ~Empty(trimmed[k])
  OBVIOUS
<1> HIDE DEF trimmed, P
<1>8. IsList(r) /\ ToSet(r) = {trimmed[k] : k \in P}
  BY <1>1, <1>3, <1>5, SelectionTakes
<1>9. ASSUME NEW p \in ToSet(r)
      PROVE  Tight(t, p) /\ Span(p) \subseteq Span(s) \ at
  <2>1. PICK k \in P : p = trimmed[k]
    BY <1>8
  <2>2. k \in DOMAIN pieces /\ p = Trimmed(t, pieces[k]) /\ ~Empty(p)
    BY <1>4, <1>5, <1>6, <1>7, <2>1
  <2>3. IsSpan(Len(t), pieces[k]) /\ Span(pieces[k]) \subseteq Span(s) \ at
    BY <1>3, <1>4, <2>2
  <2> QED
    BY <2>2, <2>3, TrimmedIs
<1>10. ASSUME NEW i \in Span(s) \ Blank(t)
       PROVE  \E p \in ToSet(r) : i \in Span(p)
  <2>1. PICK k \in DOMAIN pieces : i \in Span(pieces[k])
    BY <1>3, <1>4
  <2>2. IsSpan(Len(t), pieces[k])
    BY <1>3, <1>4
  <2>3. /\ i \in Span(Trimmed(t, pieces[k]))
        /\ IsSpan(Len(t), Trimmed(t, pieces[k]))
    BY <2>1, <2>2, TrimmedIs
  <2>4. ~Empty(Trimmed(t, pieces[k]))
    BY <1>2, <2>3, SpanIs
  <2>5. k \in P /\ i \in Span(trimmed[k])
    BY <1>6, <1>7, <2>3, <2>4
  <2> QED
    BY <1>8, <2>5
<1> QED
  BY <1>8, <1>9, <1>10 DEF r

\* A mark of three characters begins with its first.
LEMMA MarkIs ==
  ASSUME NEW t, IsText(t), NEW low \in Nat, NEW high \in Nat,
         1 <= low, high <= Len(t), NEW i \in Nat, low <= i, i + 2 <= high,
         Text(t, <<i, i + 2>>) = <<"n", "h", "s">>
  PROVE  i \in Blank(t)
<1>1. t \in Seq(Character) /\ Len(t) \in Nat /\ DOMAIN t = 1..Len(t)
  BY DEF IsText
<1>2. i \in 1..Len(t) /\ \A k \in i..i + 2 : k \in 1..Len(t)
  BY <1>1
<1>3. PICK j \in Int : j = i + 2
  OBVIOUS
<1>4. \A k \in i..j : t[k] \in Character
  BY <1>1, <1>2, <1>3
<1>5. PICK w : w = SubSeq(t, i, j)
  OBVIOUS
<1>6. w = <<"n", "h", "s">>
  <2>1. PICK x : x = <<i, j>>
    OBVIOUS
  <2>2. x[1] = i /\ x[2] = j
    BY <2>1
  <2>3. Text(t, x) = <<"n", "h", "s">>
    BY <1>3, <2>1
  <2> QED
    BY <1>5, <2>2, <2>3 DEF Text
<1>7. w[1] = t[i]
  <2>1. \A k \in 1..j - i + 1 : w[k] = t[i + k - 1]
    BY <1>4, <1>5, SubSeqProperties
  <2>2. 1 \in 1..j - i + 1 /\ i + 1 - 1 = i
    BY <1>3
  <2> QED
    BY <2>1, <2>2
<1>8. t[i] = "n"
  BY <1>6, <1>7
<1> QED
  BY <1>1, <1>2, <1>8 DEF Blank

\* Sections and paragraphs are parts of a text that is cut at blanks.
LEMMA SectionsAre ==
  ASSUME NEW t, IsText(t), NEW s, IsSpan(Len(t), s), NEW r,
         r \in {SplitMarkdownSections(t, s), SplitByBlankLines(t, s)}
  PROVE  /\ IsList(r)
         /\ \A p \in ToSet(r) : Tight(t, p) /\ Span(p) \subseteq Span(s)
         /\ \A i \in Span(s) \ Blank(t) : \E p \in ToSet(r) : i \in Span(p)
<1>1. Len(t) \in Nat /\ DOMAIN t = 1..Len(t)
  BY DEF IsText
<1>2. /\ s[1] \in 1..Len(t) + 1 /\ s[2] \in 0..Len(t)
      /\ Span(s) = s[1]..s[2] /\ Span(s) \subseteq 1..Len(t)
  BY <1>1, SpanIs DEF Span
<1>3. PICK at : at \subseteq Blank(t) /\ r = Parts(t, s, at)
  <2>1. CASE r = SplitMarkdownSections(t, s)
    <3> DEFINE at == {i \in s[1]..s[2] - 2 :
                        Text(t, <<i, i + 2>>) = <<"n", "h", "s">>}
    <3>1. at \subseteq Blank(t)
      <4>1. ASSUME NEW i \in s[1]..s[2] - 2,
                   Text(t, <<i, i + 2>>) = <<"n", "h", "s">>
            PROVE  i \in Blank(t)
        <5>1. i \in Nat /\ s[1] <= i /\ i + 2 <= s[2] /\ 1 <= s[1]
                /\ s[1] \in Nat /\ s[2] \in Nat /\ s[2] <= Len(t)
          BY <1>1, <1>2
        <5> QED
          BY <4>1, <5>1, MarkIs
      <4> QED
        BY <4>1
    <3>2. r = Parts(t, s, at)
      BY <2>1 DEF SplitMarkdownSections
    <3> QED
      BY <3>1, <3>2
  <2>2. CASE r = SplitByBlankLines(t, s)
    <3> DEFINE at == {i \in Span(s) : \E a, b \in Span(s) :
                        /\ a < b /\ t[a] = "n" /\ t[b] = "n"
                        /\ a <= i /\ i <= b /\ a..b \subseteq Blank(t)}
    <3>1. at \subseteq Blank(t)
      <4> SUFFICES ASSUME NEW i \in at PROVE i \in Blank(t)
        OBVIOUS
      <4>1. PICK a, b \in Span(s) : a <= i /\ i <= b /\ a..b \subseteq Blank(t)
        OBVIOUS
      <4>2. i \in a..b
        BY <1>1, <1>2, <4>1
      <4> QED
        BY <4>1, <4>2
    <3>2. r = Parts(t, s, at)
      BY <2>2 DEF SplitByBlankLines
    <3> QED
      BY <3>1, <3>2
  <2> QED
    BY <2>1, <2>2
<1> QED
  BY <1>3, PartsAre
-----------------------------------------------------------------------------
(* Lines *)

\* No line ends in the span.
OneLine(t, s) == \A i \in Span(s) : t[i] # "n"

\* The lines of a span are spans in their order, and a character is in the line
\* of its number.
LEMMA LinesAre ==
  ASSUME NEW t, IsText(t), NEW s, IsSpan(Len(t), s)
  PROVE  LET lines == Lines(t, s)
             line(i) == LineIn(t, s, i) + 1
         IN /\ IsList(lines) /\ Len(lines) \in Nat \ {0}
            /\ DOMAIN lines = 1..Len(lines)
            /\ \A k \in DOMAIN lines :
                 IsSpan(Len(t), lines[k]) /\ Span(lines[k]) \subseteq Span(s)
                   /\ OneLine(t, lines[k])
                   /\ lines[k][1] >= s[1] /\ lines[k][2] <= s[2]
            /\ \A k, m \in DOMAIN lines : k < m => lines[k][2] < lines[m][1]
            /\ \A i \in Span(s) \ Blank(t) :
                 line(i) \in DOMAIN lines /\ i \in Span(lines[line(i)])
<1> DEFINE at == {i \in Span(s) : t[i] = "n"}
           starts == Starts(s, at)
           rank(i) == Cardinality(Upto(starts, i))
           lines == Lines(t, s)
<1>1. Len(t) \in Nat /\ DOMAIN t = 1..Len(t)
  BY DEF IsText
<1>2. /\ s[1] \in 1..Len(t) + 1 /\ s[2] \in 0..Len(t) /\ s[1] <= s[2] + 1
      /\ Span(s) = s[1]..s[2] /\ Span(s) \subseteq 1..Len(t)
  BY <1>1, SpanIs DEF Span
<1>3. lines = Cut(s, at)
  BY DEF Lines
<1>4. /\ starts \in SUBSET Nat /\ IsFiniteSet(starts) /\ s[1] \in starts
      /\ \A a \in starts : s[1] <= a /\ a <= s[2] + 1
  BY <1>1, StartsAre
<1>5. /\ at \subseteq Span(s) \cap Blank(t)
      /\ starts = {s[1]} \cup {i + 1 : i \in at}
  BY <1>1, <1>2 DEF Starts, Blank
<1>6. \A i \in at : i \in Nat /\ s[1] <= i /\ i <= s[2]
  BY <1>2, <1>5
<1>7. \A i \in Span(s) : t[i] = "n" <=> i \in at
  OBVIOUS
<1> HIDE DEF at, lines
<1>8. /\ IsList(lines) /\ Len(lines) \in Nat \ {0}
      /\ \A p \in ToSet(lines) : IsSpan(Len(t), p) /\ Span(p) \subseteq Span(s) \ at
      /\ \A k \in DOMAIN lines : \E a \in starts :
           lines[k] = Piece(s, at, a) /\ rank(a) = k
      /\ \A i \in Span(s) \ at :
           rank(i) \in DOMAIN lines /\ i \in Span(lines[rank(i)])
  BY <1>1, <1>3, CutIs
<1>9. DOMAIN lines = 1..Len(lines)
        /\ \A k \in DOMAIN lines : lines[k] \in ToSet(lines)
  BY <1>8 DEF IsList, ToSet
<1>10. ASSUME NEW k \in DOMAIN lines
       PROVE  /\ IsSpan(Len(t), lines[k]) /\ Span(lines[k]) \subseteq Span(s)
              /\ OneLine(t, lines[k])
              /\ lines[k][1] >= s[1] /\ lines[k][2] <= s[2]
  <2>1. PICK a \in starts : lines[k] = Piece(s, at, a)
    BY <1>8
  <2>2. Piece(s, at, a)[1] = a /\ Piece(s, at, a)[2] <= s[2]
          /\ a \in s[1]..s[2] + 1
    BY <1>1, PieceIs
  <2>3. OneLine(t, lines[k])
    BY <1>7, <1>8, <1>9 DEF OneLine
  <2> QED
    BY <1>2, <1>8, <1>9, <2>1, <2>2, <2>3
<1>11. ASSUME NEW k \in DOMAIN lines, NEW m \in DOMAIN lines, k < m
       PROVE  lines[k][2] < lines[m][1]
  <2>1. PICK a \in starts : lines[k] = Piece(s, at, a) /\ rank(a) = k
    BY <1>8
  <2>2. PICK b \in starts : lines[m] = Piece(s, at, b) /\ rank(b) = m
    BY <1>8
  <2>3. a \in Nat /\ b \in Nat /\ k \in Nat /\ m \in Nat
    BY <1>4, <1>8, <1>9
  <2>4. a < b
    <3> SUFFICES ASSUME b <= a PROVE FALSE
      BY <2>3
    <3>1. Upto(starts, b) \in SUBSET Upto(starts, a)
      BY <1>4, <2>3 DEF Upto
    <3>2. IsFiniteSet(Upto(starts, a))
      <4>1. Upto(starts, a) \in SUBSET starts
        BY DEF Upto
      <4> QED
        BY <1>4, <4>1, FS_Subset
    <3>3. rank(b) <= rank(a)
      BY <3>1, <3>2, FS_Subset
    <3> QED
      BY <1>11, <2>1, <2>2, <2>3, <3>3
  <2>5. PICK p : p = Piece(s, at, a)
    OBVIOUS
  <2>6. /\ p[1] = a /\ IsSpan(Len(t), p) /\ p[2] + 1 >= a
        /\ Span(p) \subseteq Span(s) \ at
    BY <1>1, <2>5, PieceIs
  <2>7. p[2] \in Int /\ Span(p) = a..p[2]
    BY <1>1, <2>6, SpanIs DEF Span
  <2>8. b # s[1]
    BY <1>2, <1>4, <2>3, <2>4
  <2>9. PICK i \in at : b = i + 1
    BY <1>5, <2>8
  <2>10. i \notin Span(p) /\ i >= a
    BY <1>6, <2>3, <2>4, <2>6, <2>9
  <2>11. p[2] < b
    BY <1>6, <2>3, <2>7, <2>9, <2>10
  <2>12. Piece(s, at, b)[1] = b
    BY <1>1, PieceIs
  <2> QED
    BY <2>1, <2>2, <2>5, <2>11, <2>12
<1>12. ASSUME NEW i \in Span(s) \ Blank(t)
       PROVE  /\ LineIn(t, s, i) + 1 \in DOMAIN lines
              /\ i \in Span(lines[LineIn(t, s, i) + 1])
  <2>1. i \in Span(s) \ at /\ i \in Nat /\ s[1] <= i /\ i <= s[2]
    BY <1>2, <1>5
  <2> DEFINE ends == {j \in s[1]..i - 1 : t[j] = "n"}
             later == {j \in starts : j <= i /\ j # s[1]}
             up == [j \in ends |-> j + 1]
  <2>2. LineIn(t, s, i) = Cardinality(ends)
    BY DEF LineIn
  <2>3. \A j : j \in ends <=> j \in at /\ j < i
    BY <1>2, <1>6, <1>7, <2>1
  <2>4. later = {j + 1 : j \in ends}
    <3>1. ASSUME NEW j \in later PROVE j \in {k + 1 : k \in ends}
      <4>1. PICK k \in at : j = k + 1
        BY <1>5
      <4>2. k \in ends
        BY <1>6, <2>1, <2>3, <4>1
      <4> QED
        BY <4>1, <4>2
    <3>2. ASSUME NEW k \in ends PROVE k + 1 \in later
      <4>1. k \in at /\ k < i /\ k \in Nat /\ s[1] <= k
        BY <1>6, <2>3
      <4> QED
        BY <1>2, <1>5, <2>1, <4>1
    <3> HIDE DEF later, ends
    <3> QED
      BY <3>1, <3>2
  <2>5. ends \in SUBSET (s[1]..i) /\ IsFiniteSet(s[1]..i)
    <3>1. PICK a \in Int, b \in Int : a = s[1] /\ b = i
      BY <1>2, <2>1
    <3>2. IsFiniteSet(a..b) /\ a..b - 1 \subseteq a..b
      BY FS_Interval
    <3> QED
      BY <3>1, <3>2
  <2>6. IsFiniteSet(ends) /\ Cardinality(ends) \in Nat
    BY <2>5, FS_Subset, FS_CardinalityType
  <2>7. \A j \in ends : j \in Nat
    BY <1>6, <2>3
  <2> HIDE DEF ends, later
  <2>8. up \in Bijection(ends, later)
    <3>1. up \in [ends -> later]
      BY <2>4
    <3>2. \A j, k \in ends : up[j] = up[k] => j = k
      BY <2>7
    <3>3. \A j \in later : \E k \in ends : up[k] = j
      BY <2>4
    <3> HIDE DEF up
    <3> QED
      BY <3>1, <3>2, <3>3 DEF Bijection, Injection, Surjection, IsInjective
  <2>9. Cardinality(later) = Cardinality(ends) /\ IsFiniteSet(later)
    <3>1. PICK x, y, f : x = ends /\ y = later /\ f = up
      OBVIOUS
    <3>2. IsFiniteSet(x) /\ f \in Bijection(x, y)
      BY <2>6, <2>8, <3>1
    <3>3. Cardinality(y) = Cardinality(x) /\ IsFiniteSet(y)
      BY <3>2, FS_Bijection DEF ExistsBijection
    <3> QED
      BY <3>1, <3>3
  <2>10. Upto(starts, i) = later \cup {s[1]} /\ s[1] \notin later
    <3>1. \A j : j \in later <=> j \in starts /\ j <= i /\ j # s[1]
      BY DEF later
    <3>2. \A j : j \in Upto(starts, i) <=> j \in starts /\ j <= i
      BY DEF Upto
    <3> HIDE DEF starts
    <3> QED
      BY <1>4, <2>1, <3>1, <3>2
  <2>11. rank(i) = Cardinality(later) + 1
    BY <2>9, <2>10, FS_AddElement
  <2> QED
    BY <1>8, <2>1, <2>2, <2>9, <2>11
<1> QED
  BY <1>8, <1>9, <1>10, <1>11, <1>12 DEF lines

-----------------------------------------------------------------------------
(* Lists one behind the other *)

\* What two lists make.
LEMMA ConcatIs ==
  ASSUME NEW r, NEW s, IsList(r), IsList(s)
  PROVE  IsList(r \o s) /\ ToSet(r \o s) = ToSet(r) \cup ToSet(s)
<1> DEFINE S == ToSet(r) \cup ToSet(s)
           q == r \o s
<1>1. r \in Seq(S) /\ s \in Seq(S)
  BY SeqMonotonic DEF IsList
<1> HIDE DEF S
<1>2. /\ q \in Seq(S) /\ Len(q) = Len(r) + Len(s)
      /\ \A i \in 1..Len(r) + Len(s) :
           q[i] = IF i <= Len(r) THEN r[i] ELSE s[i - Len(r)]
  BY <1>1, ConcatProperties
<1>3. /\ Len(r) \in Nat /\ Len(s) \in Nat
      /\ DOMAIN r = 1..Len(r) /\ DOMAIN s = 1..Len(s)
      /\ DOMAIN q = 1..Len(r) + Len(s)
  BY <1>1, <1>2
<1> HIDE DEF q
<1>4. q = [i \in 1..Len(r) + Len(s) |-> q[i]]
  BY <1>2, <1>3
<1>5. IsList(q) /\ ToSet(q) = {q[i] : i \in 1..Len(r) + Len(s)}
  BY <1>3, <1>4, ListIs
<1>6. ASSUME NEW x \in ToSet(q) PROVE x \in ToSet(r) \cup ToSet(s)
  <2>1. PICK i \in 1..Len(r) + Len(s) : x = q[i]
    BY <1>5
  <2>2. CASE i <= Len(r)
    <3>1. i \in DOMAIN r /\ x = r[i]
      BY <1>2, <1>3, <2>1, <2>2
    <3> QED
      BY <3>1 DEF ToSet
  <2>3. CASE ~(i <= Len(r))
    <3>1. i - Len(r) \in DOMAIN s /\ x = s[i - Len(r)]
      BY <1>2, <1>3, <2>1, <2>3
    <3> QED
      BY <3>1 DEF ToSet
  <2> QED
    BY <2>2, <2>3
<1>7. ASSUME NEW x \in ToSet(r) PROVE x \in ToSet(q)
  <2>1. PICK i \in DOMAIN r : x = r[i]
    BY DEF ToSet
  <2>2. i \in 1..Len(r) + Len(s) /\ x = q[i]
    BY <1>2, <1>3, <2>1
  <2> QED
    BY <1>5, <2>2
<1>8. ASSUME NEW x \in ToSet(s) PROVE x \in ToSet(q)
  <2>1. PICK i \in DOMAIN s : x = s[i]
    BY DEF ToSet
  <2>2. i + Len(r) \in 1..Len(r) + Len(s) /\ x = q[i + Len(r)]
    BY <1>2, <1>3, <2>1
  <2> QED
    BY <1>5, <2>2
<1> QED
  BY <1>5, <1>6, <1>7, <1>8 DEF q

\* No record, and one.
LEMMA ShortLists ==
  /\ IsList(<<>>) /\ ToSet(<<>>) = {}
  /\ \A x : IsList(<<x>>) /\ ToSet(<<x>>) = {x}
<1>1. ToSet(<<>>) = {}
  BY DEF ToSet
<1>2. IsList(<<>>)
  BY DEF IsList
<1>3. ASSUME NEW x PROVE IsList(<<x>>) /\ ToSet(<<x>>) = {x}
  <2>1. ToSet(<<x>>) = {x}
    BY DEF ToSet
  <2> QED
    BY <2>1 DEF IsList
<1> QED
  BY <1>1, <1>2, <1>3

-----------------------------------------------------------------------------
(* Chains: what a loop collects that goes from a number to a greater one *)

\* The equation of such a loop: head is what it adds, next where it goes on.
Chains(f, D, head, stop, next) ==
  f = [i \in D |-> head[i] \o IF i \in stop THEN <<>> ELSE f[next[i]]]

\* A loop goes on to greater numbers, up to a bound.
GoesOn(D, stop, next, b) ==
  \A i \in D : i \notin stop => next[i] \in D /\ i < next[i] /\ i <= b

\* The equation has a solution: that for the numbers from m + 1 on is extended
\* to m.
LEMMA ChainsExists ==
  ASSUME NEW D \in SUBSET Nat, NEW head, NEW stop, NEW next, NEW b \in Nat,
         GoesOn(D, stop, next, b)
  PROVE  \E f : Chains(f, D, head, stop, next)
<1> DEFINE From(m) == {i \in D : i >= m}
           Has(m) == \E f : Chains(f, From(m), head, stop, next)
           B == {n \in 0..b + 1 : ~Has(b + 1 - n)}
<1>1. ASSUME B # {} PROVE FALSE
  <2>1. PICK n \in B : \A k \in B : n <= k
    <3>1. B \in SUBSET Nat
      OBVIOUS
    <3> HIDE DEF B
    <3> QED
      BY <1>1, <3>1, LeastNumber
  <2>2. n \in Nat /\ n <= b + 1 /\ ~Has(b + 1 - n)
    BY <2>1
  <2>3. CASE n = 0
    <3> DEFINE f == [i \in From(b + 1) |-> head[i] \o <<>>]
    <3>1. \A i \in From(b + 1) : i \in stop
      BY DEF GoesOn
    <3> HIDE DEF From
    <3>2. Chains(f, From(b + 1), head, stop, next)
      BY <3>1 DEF Chains
    <3> QED
      BY <2>2, <2>3, <3>2
  <2>4. CASE n > 0
    <3>1. PICK m : m = b + 1 - n /\ m \in Nat
      BY <2>2
    <3>2. n - 1 \notin B /\ n - 1 \in 0..b + 1 /\ b + 1 - (n - 1) = m + 1
      <4>1. n - 1 \in 0..b + 1 /\ ~(n <= n - 1) /\ b + 1 - (n - 1) = m + 1
        BY <2>2, <2>4, <3>1
      <4> HIDE DEF B
      <4> QED
        BY <2>1, <4>1
    <3>3. Has(m + 1)
      <4>1. Has(b + 1 - (n - 1))
        BY <3>2
      <4> HIDE DEF Has
      <4> QED
        BY <3>2, <4>1
    <3>4. PICK g : Chains(g, From(m + 1), head, stop, next)
      BY <3>3
    <3> DEFINE Of(i) == head[i] \o IF i \in stop THEN <<>> ELSE g[next[i]]
               f == [i \in From(m) |-> Of(i)]
               On(i) == head[i] \o IF i \in stop THEN <<>> ELSE f[next[i]]
    <3>5. \A i \in From(m + 1) : g[i] = Of(i)
      <4> HIDE DEF From
      <4> QED
        BY <3>4 DEF Chains
    <3>6. \A i \in From(m + 1) : i \in From(m) /\ f[i] = g[i]
      <4>1. \A i \in From(m + 1) : i \in From(m)
        BY <3>1
      <4> HIDE DEF From, Of
      <4> QED
        BY <3>5, <4>1
    <3>7. \A i \in From(m) : i \notin stop => next[i] \in From(m + 1)
      <4> SUFFICES ASSUME NEW i \in From(m), i \notin stop
                   PROVE  next[i] \in From(m + 1)
        OBVIOUS
      <4>1. i \in D /\ i >= m /\ i \in Nat
        OBVIOUS
      <4>2. next[i] \in D /\ i < next[i]
        BY <4>1 DEF GoesOn
      <4>3. next[i] \in Nat
        BY <4>2
      <4>4. next[i] >= m + 1
        BY <3>1, <4>1, <4>2, <4>3
      <4> QED
        BY <4>2, <4>4
    <3>8. f = [i \in From(m) |-> On(i)]
      <4>1. \A i \in From(m) : Of(i) = On(i)
        <5> HIDE DEF From, f
        <5> QED
          BY <3>6, <3>7
      <4>2. f = [i \in From(m) |-> Of(i)]
        OBVIOUS
      <4> HIDE DEF f, Of, On, From
      <4> QED
        BY <4>1, <4>2
    <3> HIDE DEF f
    <3>9. Chains(f, From(m), head, stop, next)
      BY <3>8 DEF Chains
    <3> QED
      BY <2>2, <3>1, <3>9
  <2> QED
    BY <2>2, <2>3, <2>4
<1>2. From(0) = D /\ b + 1 \in 0..b + 1 /\ b + 1 - (b + 1) = 0
  <2>1. \A i \in D : i >= 0
    OBVIOUS
  <2>2. From(0) = D
    BY <2>1
  <2> HIDE DEF From
  <2> QED
    BY <2>2
<1>3. Has(0)
  <2>1. Has(b + 1 - (b + 1))
    BY <1>1, <1>2
  <2> HIDE DEF Has
  <2> QED
    BY <1>2, <2>1
<1> QED
  BY <1>2, <1>3

\* What the loop collects from i on is what it adds at some of the numbers; up
\* to each number x there is one, the last, from which it goes on behind x.
Collects(f, D, head, stop, next, i) ==
  /\ IsList(f[i])
  /\ \A w \in ToSet(f[i]) : \E j \in D : w \in ToSet(head[j])
  /\ \A x \in Nat : i <= x =>
       \E j \in D : /\ j <= x /\ ToSet(head[j]) \subseteq ToSet(f[i])
                    /\ j \in stop \/ x < next[j]

\* Every solution of the equation collects so, from every number on.
LEMMA ChainCollects ==
  ASSUME NEW D \in SUBSET Nat, NEW head, NEW stop, NEW next, NEW b \in Nat,
         GoesOn(D, stop, next, b), \A i \in D : IsList(head[i]),
         NEW f, Chains(f, D, head, stop, next)
  PROVE  \A i \in D : Collects(f, D, head, stop, next, i)
<1> DEFINE Good(i) == Collects(f, D, head, stop, next, i)
           B == {i \in D : ~Good(i)}
<1>1. \A i \in D : f[i] = head[i] \o IF i \in stop THEN <<>> ELSE f[next[i]]
  BY DEF Chains
<1>2. ASSUME NEW i \in D, i \in stop PROVE Good(i)
  <2>1. f[i] = head[i] \o <<>>
    BY <1>1, <1>2
  <2>2. IsList(f[i]) /\ ToSet(f[i]) = ToSet(head[i])
    BY <2>1, ConcatIs, ShortLists
  <2> QED
    BY <1>2, <2>2 DEF Collects
<1>3. ASSUME NEW i \in D, i \notin stop, Good(next[i]) PROVE Good(i)
  <2>1. f[i] = head[i] \o f[next[i]]
    BY <1>1, <1>3
  <2>2. PICK k : k = next[i] /\ k \in D /\ i < k
    BY <1>3 DEF GoesOn
  <2>3. IsList(f[i]) /\ ToSet(f[i]) = ToSet(head[i]) \cup ToSet(f[k])
    BY <1>3, <2>1, <2>2, ConcatIs DEF Collects
  <2>4. \A w \in ToSet(f[i]) : \E j \in D : w \in ToSet(head[j])
    BY <1>3, <2>2, <2>3 DEF Collects
  <2>5. ASSUME NEW x \in Nat, i <= x
        PROVE  \E j \in D : /\ j <= x /\ ToSet(head[j]) \subseteq ToSet(f[i])
                            /\ j \in stop \/ x < next[j]
    <3>1. CASE x < k
      BY <2>2, <2>3, <2>5, <3>1
    <3>2. CASE ~(x < k)
      <4>1. k <= x
        BY <2>2, <2>5, <3>2
      <4>2. PICK j \in D : /\ j <= x /\ ToSet(head[j]) \subseteq ToSet(f[k])
                           /\ j \in stop \/ x < next[j]
        BY <1>3, <2>2, <4>1 DEF Collects
      <4> QED
        BY <2>3, <4>2
    <3> QED
      BY <3>1, <3>2
  <2> QED
    BY <2>3, <2>4, <2>5 DEF Collects
<1>4. ASSUME B # {} PROVE FALSE
  <2>1. \A i \in B : i \in D /\ ~Good(i) /\ i \notin stop /\ i <= b
    <3> SUFFICES ASSUME NEW i \in B
                 PROVE  i \in D /\ ~Good(i) /\ i \notin stop /\ i <= b
      OBVIOUS
    <3>1. i \in D /\ ~Good(i)
      OBVIOUS
    <3>2. i \notin stop
      BY <1>2, <3>1
    <3> QED
      BY <3>1, <3>2 DEF GoesOn
  <2>2. \A i \in D : ~Good(i) => i \in B
    OBVIOUS
  <2> HIDE DEF B, Good
  <2>3. Max(B) \in B /\ \A i \in B : i <= Max(B)
    <3>1. B \in SUBSET Nat
      BY <2>1
    <3> QED
      BY <1>4, <2>1, <3>1, MaxIs
  <2>4. PICK k : k = Max(B)
    OBVIOUS
  <2>5. k \in D /\ ~Good(k) /\ k \notin stop /\ next[k] \in D /\ k < next[k]
    BY <2>1, <2>3, <2>4 DEF GoesOn
  <2>6. next[k] \notin B
    <3>1. k \in Nat /\ next[k] \in Nat
      BY <2>5
    <3> QED
      BY <2>3, <2>4, <2>5, <3>1
  <2>7. Good(next[k])
    BY <2>2, <2>5, <2>6
  <2> QED
    BY <1>3, <2>5, <2>7
<1> QED
  BY <1>4

-----------------------------------------------------------------------------
(* Windows of lines *)

\* The greater of two numbers, and the smaller.
LEMMA PairIs ==
  ASSUME NEW a \in Int, NEW b \in Int
  PROVE  /\ Max({a, b}) = IF a >= b THEN a ELSE b
         /\ Min({a, b}) = IF a <= b THEN a ELSE b
<1>1. \E x \in {a, b} : \A y \in {a, b} : x >= y
  OBVIOUS
<1>2. Max({a, b}) \in {a, b} /\ \A y \in {a, b} : Max({a, b}) >= y
  BY <1>1 DEF Max
<1>3. \E x \in {a, b} : \A y \in {a, b} : x <= y
  OBVIOUS
<1>4. Min({a, b}) \in {a, b} /\ \A y \in {a, b} : Min({a, b}) <= y
  BY <1>3 DEF Min
<1> QED
  BY <1>2, <1>4

\* A window has a line at least, and ends by the last.
LEMMA WindowEndIs ==
  ASSUME NEW lines, NEW n \in Nat, Len(lines) = n, NEW i \in 1..n, NEW max
  PROVE  LET e == WindowEnd(lines, i, max)
         IN /\ e \in i + 1..n + 1
            /\ e = i + 1 \/ 2 * (Length(lines, i, e) + e - i) <= max
<1> DEFINE T == {e \in i + 1..n + 1 :
                   e = i + 1 \/ 2 * (Length(lines, i, e) + e - i) <= max}
<1>1. T \in SUBSET Nat /\ i + 1 \in T /\ \A e \in T : e <= n + 1
  OBVIOUS
<1>2. WindowEnd(lines, i, max) = Max(T)
  BY DEF WindowEnd
<1>3. /\ T \subseteq i + 1..n + 1
      /\ \A e \in T : e = i + 1 \/ 2 * (Length(lines, i, e) + e - i) <= max
  OBVIOUS
<1> HIDE DEF T
<1>4. T # {} /\ n + 1 \in Nat
  BY <1>1
<1>5. Max(T) \in T
  BY <1>1, <1>4, MaxIs
<1> QED
  BY <1>2, <1>3, <1>5

\* The overlap of a window begins in it, or there is none.
LEMMA OverlapIs ==
  ASSUME NEW lines, NEW e \in Nat, e >= 2, NEW overlap
  PROVE  ComputeOverlappedLineStart(lines, e, overlap) \in 1..e
<1> DEFINE T == {s \in 1..e - 1 : \/ Length(lines, s + 1, e) = 0
                                  \/ 2 * Length(lines, s, e) <= overlap}
<1>1. CASE overlap = 0
  BY <1>1 DEF ComputeOverlappedLineStart
<1>2. CASE overlap # 0
  <2>1. ComputeOverlappedLineStart(lines, e, overlap) = Min(T)
    BY <1>2 DEF ComputeOverlappedLineStart
  <2>2. e - 1 \in T
    <3>1. (e - 1) + 1 = e /\ e - 1 \in 1..e - 1
      OBVIOUS
    <3>2. Length(lines, e, e) = 0
      BY DEF Length
    <3> QED
      BY <3>1, <3>2
  <2>3. T \in SUBSET Nat /\ T \subseteq 1..e - 1
    OBVIOUS
  <2> HIDE DEF T
  <2>4. Min(T) \in T
    BY <2>2, <2>3, MinIs
  <2>5. PICK m : m = Min(T)
    OBVIOUS
  <2>6. m \in 1..e - 1
    BY <2>3, <2>4, <2>5
  <2>7. m \in 1..e
    BY <2>6
  <2> QED
    BY <2>1, <2>5, <2>7
<1> QED
  BY <1>1, <1>2

\* What a window of lines cuts, adds to the list, and where the next begins.
LineCut(t, lines, o, i) == Trimmed(t, Joined(lines, i, WindowEnd(lines, i, o.max)))
LineWindow(t, lines, o, i) ==
  [span |-> LineCut(t, lines, o, i),
   lines |-> <<i, WindowEnd(lines, i, o.max) - 1>>]
LineHead(t, lines, o) ==
  [i \in 1..Len(lines) |-> IF Empty(LineCut(t, lines, o, i)) THEN <<>>
                           ELSE <<LineWindow(t, lines, o, i)>>]
LineStop(lines, o) ==
  {i \in 1..Len(lines) : WindowEnd(lines, i, o.max) > Len(lines)}
LineNext(lines, o) ==
  [i \in 1..Len(lines) |->
     Max({i + 1, ComputeOverlappedLineStart(lines, WindowEnd(lines, i, o.max),
                                            o.overlap)})]

\* The equation by which SplitCodeByLineWindows is defined.
LineWindows(f, t, lines, o) ==
  f = [i \in 1..Len(lines) |->
         LET e == WindowEnd(lines, i, o.max)
             cut == Trimmed(t, Joined(lines, i, e))
             next == ComputeOverlappedLineStart(lines, e, o.overlap)
         IN (IF Empty(cut) THEN <<>> ELSE <<[span |-> cut, lines |-> <<i, e - 1>>]>>)
              \o IF e > Len(lines) THEN <<>> ELSE f[Max({i + 1, next})]]

\* It is a chain, which goes on.
LEMMA LineWindowsChain ==
  ASSUME NEW t, NEW lines, Len(lines) \in Nat, NEW o
  PROVE  /\ GoesOn(1..Len(lines), LineStop(lines, o), LineNext(lines, o), Len(lines))
         /\ \A i \in 1..Len(lines) : i \notin LineStop(lines, o) =>
              LineNext(lines, o)[i] <= WindowEnd(lines, i, o.max)
         /\ \A f : LineWindows(f, t, lines, o)
                     <=> Chains(f, 1..Len(lines), LineHead(t, lines, o),
                                LineStop(lines, o), LineNext(lines, o))
<1>1. PICK n : n = Len(lines) /\ n \in Nat
  OBVIOUS
<1>2. ASSUME NEW i \in 1..n, i \notin LineStop(lines, o)
      PROVE  /\ LineNext(lines, o)[i] \in 1..n /\ i < LineNext(lines, o)[i]
             /\ LineNext(lines, o)[i] <= WindowEnd(lines, i, o.max)
  <2>1. PICK e, v : /\ e = WindowEnd(lines, i, o.max)
                    /\ v = ComputeOverlappedLineStart(lines, e, o.overlap)
    OBVIOUS
  <2>2. e \in i + 1..n + 1 /\ ~(e > n)
    BY <1>1, <1>2, <2>1, WindowEndIs DEF LineStop
  <2>3. v \in 1..e
    BY <2>1, <2>2, OverlapIs
  <2>4. LineNext(lines, o)[i] = Max({i + 1, v})
    BY <1>1, <2>1 DEF LineNext
  <2>5. Max({i + 1, v}) = IF i + 1 >= v THEN i + 1 ELSE v
    <3>1. i + 1 \in Int /\ v \in Int
      BY <2>2, <2>3
    <3> QED
      BY <3>1, PairIs
  <2>6. PICK m : m = LineNext(lines, o)[i] /\ m = IF i + 1 >= v THEN i + 1 ELSE v
    BY <2>4, <2>5
  <2>7. m \in 1..n /\ i < m /\ m <= e
    BY <1>1, <2>2, <2>3, <2>6
  <2> QED
    BY <2>1, <2>6, <2>7
<1>3. GoesOn(1..n, LineStop(lines, o), LineNext(lines, o), n)
  BY <1>1, <1>2 DEF GoesOn
<1>4. ASSUME NEW f
      PROVE  LineWindows(f, t, lines, o)
               <=> Chains(f, 1..Len(lines), LineHead(t, lines, o),
                          LineStop(lines, o), LineNext(lines, o))
  <2> DEFINE Of(i) ==
               LET e == WindowEnd(lines, i, o.max)
                   cut == Trimmed(t, Joined(lines, i, e))
                   next == ComputeOverlappedLineStart(lines, e, o.overlap)
               IN (IF Empty(cut) THEN <<>> ELSE <<[span |-> cut, lines |-> <<i, e - 1>>]>>)
                    \o IF e > Len(lines) THEN <<>> ELSE f[Max({i + 1, next})]
             On(i) == LineHead(t, lines, o)[i] \o
                        IF i \in LineStop(lines, o) THEN <<>>
                        ELSE f[LineNext(lines, o)[i]]
  <2>1. \A i \in 1..Len(lines) : Of(i) = On(i)
    <3> SUFFICES ASSUME NEW i \in 1..Len(lines) PROVE Of(i) = On(i)
      OBVIOUS
    <3>1. LineHead(t, lines, o)[i] =
            IF Empty(Trimmed(t, Joined(lines, i, WindowEnd(lines, i, o.max)))) THEN <<>>
            ELSE <<[span |-> Trimmed(t, Joined(lines, i, WindowEnd(lines, i, o.max))),
                    lines |-> <<i, WindowEnd(lines, i, o.max) - 1>>]>>
      BY DEF LineHead, LineCut, LineWindow
    <3>2. i \in LineStop(lines, o) <=> WindowEnd(lines, i, o.max) > Len(lines)
      BY DEF LineStop
    <3>3. LineNext(lines, o)[i] =
            Max({i + 1, ComputeOverlappedLineStart(lines,
                          WindowEnd(lines, i, o.max), o.overlap)})
      BY DEF LineNext
    <3> QED
      BY <3>1, <3>2, <3>3
  <2>2. LineWindows(f, t, lines, o) <=> f = [i \in 1..Len(lines) |-> Of(i)]
    BY DEF LineWindows
  <2>3. Chains(f, 1..Len(lines), LineHead(t, lines, o),
               LineStop(lines, o), LineNext(lines, o))
          <=> f = [i \in 1..Len(lines) |-> On(i)]
    BY DEF Chains
  <2> HIDE DEF Of, On
  <2>4. [i \in 1..Len(lines) |-> Of(i)] = [i \in 1..Len(lines) |-> On(i)]
    BY <2>1
  <2> QED
    BY <2>2, <2>3, <2>4
<1> QED
  BY <1>1, <1>2, <1>3, <1>4

\* A window of lines quotes only its lines, without blank ends.
LEMMA LineCutIs ==
  ASSUME NEW t, IsText(t), NEW s, IsSpan(Len(t), s), NEW lines, lines = Lines(t, s),
         NEW o, NEW i \in 1..Len(lines)
  PROVE  LET e == WindowEnd(lines, i, o.max)
             r == LineCut(t, lines, o, i)
         IN /\ e \in i + 1..Len(lines) + 1 /\ e - 1 \in DOMAIN lines
            /\ IsSpan(Len(t), Joined(lines, i, e))
            /\ Span(Joined(lines, i, e)) \subseteq Span(s)
            /\ Joined(lines, i, e)[1] = lines[i][1]
            /\ Joined(lines, i, e)[2] = lines[e - 1][2]
            /\ IsSpan(Len(t), r)
            /\ ~Empty(r) => Tight(t, r)
            /\ Span(r) \subseteq Span(Joined(lines, i, e))
            /\ Span(Joined(lines, i, e)) \ Blank(t) \subseteq Span(r)
<1>1. Len(t) \in Nat
  BY DEF IsText
<1>2. /\ Len(lines) \in Nat \ {0} /\ DOMAIN lines = 1..Len(lines)
      /\ \A k \in DOMAIN lines :
           IsSpan(Len(t), lines[k]) /\ lines[k][1] >= s[1] /\ lines[k][2] <= s[2]
      /\ \A k, m \in DOMAIN lines : k < m => lines[k][2] < lines[m][1]
  BY LinesAre
<1>3. PICK e : e = WindowEnd(lines, i, o.max)
  OBVIOUS
<1>4. e \in i + 1..Len(lines) + 1
  BY <1>2, <1>3, WindowEndIs
<1>5. i \in DOMAIN lines /\ e - 1 \in DOMAIN lines /\ i <= e - 1
  BY <1>2, <1>4
<1>6. \A k \in DOMAIN lines :
        /\ lines[k][1] \in 1..Len(t) + 1 /\ lines[k][2] \in 0..Len(t)
        /\ lines[k][1] <= lines[k][2] + 1
  BY <1>1, <1>2, SpanIs
<1>7. PICK k : k = e - 1
  OBVIOUS
<1>8. PICK a, b, c, d : /\ a = lines[i][1] /\ b = lines[k][2]
                        /\ c = lines[i][2] /\ d = lines[k][1]
  OBVIOUS
<1>9. s[1] \in Nat /\ s[2] \in Nat /\ Span(s) = s[1]..s[2]
  BY <1>1, SpanIs DEF Span
<1>10. i \in Nat /\ k \in Nat /\ i <= k /\ i \in DOMAIN lines /\ k \in DOMAIN lines
  BY <1>2, <1>5, <1>7
<1>11. /\ a \in 1..Len(t) + 1 /\ c \in 0..Len(t) /\ a <= c + 1 /\ a >= s[1]
       /\ d \in 1..Len(t) + 1 /\ b \in 0..Len(t) /\ d <= b + 1 /\ b <= s[2]
       /\ i < k => c < d
  BY <1>2, <1>6, <1>8, <1>10
<1>12. i = k => c = b
  BY <1>8
<1>13. a \in Nat /\ b \in Nat /\ c \in Nat /\ d \in Nat
  BY <1>1, <1>11
<1>14. a <= b + 1
  <2>1. CASE i = k
    BY <1>11, <1>12, <1>13, <2>1
  <2>2. CASE i < k
    BY <1>11, <1>13, <2>2
  <2> QED
    BY <1>10, <2>1, <2>2
<1>15. PICK j : j = Joined(lines, i, e) /\ j = <<a, b>>
  BY <1>7, <1>8 DEF Joined
<1>16. j[1] = a /\ j[2] = b /\ IsSpan(Len(t), j) /\ Span(j) = a..b
  BY <1>15, <1>11, <1>14 DEF IsSpan, Span
<1>17. Span(j) \subseteq Span(s)
  BY <1>16, <1>9, <1>11, <1>13
<1>18. LineCut(t, lines, o, i) = Trimmed(t, j)
  BY <1>3, <1>15 DEF LineCut
<1>19. /\ IsSpan(Len(t), Trimmed(t, j))
       /\ ~Empty(Trimmed(t, j)) => Tight(t, Trimmed(t, j))
       /\ Span(Trimmed(t, j)) \subseteq Span(j)
       /\ Span(j) \ Blank(t) \subseteq Span(Trimmed(t, j))
  BY <1>16, TrimmedIs
<1> QED
  BY <1>3, <1>4, <1>5, <1>7, <1>8, <1>15, <1>16, <1>17, <1>18, <1>19

\* Windows of lines: each quotes a part of its lines without blank ends, and
\* all that is not blank is quoted by one.
IsWindow(t, s, w) ==
  \E i, k \in DOMAIN Lines(t, s) :
    /\ i <= k /\ w.lines = <<i, k>> /\ Tight(t, w.span)
    /\ Span(w.span) \subseteq Span(s)
    /\ IsSpan(Len(t), <<Lines(t, s)[i][1], Lines(t, s)[k][2]>>)
    /\ LET joined == Lines(t, s)[i][1]..Lines(t, s)[k][2]
       IN /\ Span(w.span) \subseteq joined
          /\ joined \ Blank(t) \subseteq Span(w.span)

\* A piece that begins with another or ends before it begins before what is
\* in the other.
LEMMA BeginsBefore ==
  ASSUME NEW a \in Nat, NEW b \in Nat, NEW c \in Nat, NEW p \in Nat,
         a <= b + 1, c <= p, b < c \/ a = c
  PROVE  a <= p
OBVIOUS

\* Likewise for its end.
LEMMA EndsBehind ==
  ASSUME NEW d \in Nat, NEW u \in Nat, NEW v \in Nat, NEW p \in Nat,
         u <= v + 1, p <= d, d < u \/ d = v
  PROVE  p <= v
OBVIOUS

\* What SplitCodeByLineWindows answers: windows, and no character is lost.
LEMMA LineWindowsAre ==
  ASSUME NEW t, IsText(t), NEW s, IsSpan(Len(t), s), NEW o
  PROVE  LET r == SplitCodeByLineWindows(t, s, o)
         IN /\ IsList(r) /\ \A w \in ToSet(r) : IsWindow(t, s, w)
            /\ \A w \in ToSet(r) : \E i \in 1..Len(Lines(t, s)) :
                 w = LineWindow(t, Lines(t, s), o, i)
            /\ \A p \in Span(s) \ Blank(t) : \E w \in ToSet(r) : p \in Span(w.span)
<1> DEFINE r == SplitCodeByLineWindows(t, s, o)
<1>1. PICK lines : lines = Lines(t, s)
  OBVIOUS
<1>2. Len(t) \in Nat
  BY DEF IsText
<1>3. /\ IsList(lines) /\ Len(lines) \in Nat \ {0}
      /\ DOMAIN lines = 1..Len(lines)
      /\ \A k \in DOMAIN lines : IsSpan(Len(t), lines[k])
      /\ \A k, m \in DOMAIN lines : k < m => lines[k][2] < lines[m][1]
      /\ \A p \in Span(s) \ Blank(t) :
           /\ LineIn(t, s, p) + 1 \in DOMAIN lines
           /\ p \in Span(lines[LineIn(t, s, p) + 1])
  BY <1>1, LinesAre
<1>4. PICK D, head, stop, next :
        /\ D = 1..Len(lines) /\ head = LineHead(t, lines, o)
        /\ stop = LineStop(lines, o) /\ next = LineNext(lines, o)
  OBVIOUS
<1>5. /\ GoesOn(D, stop, next, Len(lines))
      /\ \A i \in D : i \notin stop => next[i] <= WindowEnd(lines, i, o.max)
      /\ \A f : LineWindows(f, t, lines, o) <=> Chains(f, D, head, stop, next)
  BY <1>3, <1>4, LineWindowsChain
<1>6. D \in SUBSET Nat /\ 1 \in D /\ Len(lines) \in Nat
  BY <1>3, <1>4
<1> DEFINE g == CHOOSE f : LineWindows(f, t, lines, o)
<1>7. LineWindows(g, t, lines, o)
  <2>1. \E f : Chains(f, D, head, stop, next)
    BY <1>5, <1>6, ChainsExists
  <2> QED
    BY <1>5, <2>1
<1>8. r = g[1]
  BY <1>1 DEF SplitCodeByLineWindows, LineWindows
<1> HIDE DEF g, r
<1>9. Chains(g, D, head, stop, next)
  BY <1>5, <1>7
<1>10. \A i \in D : head[i] = IF Empty(LineCut(t, lines, o, i)) THEN <<>>
                              ELSE <<LineWindow(t, lines, o, i)>>
  BY <1>4 DEF LineHead
<1>11. \A i \in D : IsList(head[i])
  BY <1>10, ShortLists
<1>12. Collects(g, D, head, stop, next, 1)
  BY <1>5, <1>6, <1>9, <1>11, ChainCollects
<1>13. ASSUME NEW i \in D, ~Empty(LineCut(t, lines, o, i))
       PROVE  /\ IsWindow(t, s, LineWindow(t, lines, o, i))
              /\ LineWindow(t, lines, o, i).span = LineCut(t, lines, o, i)
  <2>1. PICK e, c : /\ e = WindowEnd(lines, i, o.max)
                    /\ c = LineCut(t, lines, o, i)
    OBVIOUS
  <2>2. PICK w : w = LineWindow(t, lines, o, i)
                   /\ w = [span |-> c, lines |-> <<i, e - 1>>]
    BY <2>1 DEF LineWindow
  <2>3. PICK j : j = Joined(lines, i, e) /\ j = <<lines[i][1], lines[e - 1][2]>>
    BY DEF Joined
  <2>4. /\ e \in i + 1..Len(lines) + 1 /\ e - 1 \in DOMAIN lines
        /\ IsSpan(Len(t), j) /\ Span(j) \subseteq Span(s)
        /\ j[1] = lines[i][1] /\ j[2] = lines[e - 1][2]
        /\ Tight(t, c) /\ Span(c) \subseteq Span(j)
        /\ Span(j) \ Blank(t) \subseteq Span(c)
    <3>1. i \in 1..Len(lines)
      BY <1>4
    <3>2. LET y == WindowEnd(lines, i, o.max)
              v == LineCut(t, lines, o, i)
          IN /\ y \in i + 1..Len(lines) + 1 /\ y - 1 \in DOMAIN lines
             /\ IsSpan(Len(t), Joined(lines, i, y))
             /\ Span(Joined(lines, i, y)) \subseteq Span(s)
             /\ Joined(lines, i, y)[1] = lines[i][1]
             /\ Joined(lines, i, y)[2] = lines[y - 1][2]
             /\ IsSpan(Len(t), v)
             /\ ~Empty(v) => Tight(t, v)
             /\ Span(v) \subseteq Span(Joined(lines, i, y))
             /\ Span(Joined(lines, i, y)) \ Blank(t) \subseteq Span(v)
      BY <1>1, <3>1, LineCutIs
    <3> QED
      BY <1>13, <2>1, <2>3, <3>2
  <2>5. w.span = c /\ w.lines = <<i, e - 1>>
    BY <2>2
  <2>6. i \in DOMAIN lines /\ i <= e - 1 /\ Span(c) \subseteq Span(s)
    BY <1>3, <1>4, <2>4
  <2>7. Span(j) = lines[i][1]..lines[e - 1][2]
    BY <2>4 DEF Span
  <2>8. IsWindow(t, s, w)
    BY <1>1, <2>3, <2>4, <2>5, <2>6, <2>7 DEF IsWindow
  <2> QED
    BY <2>1, <2>2, <2>5, <2>8
<1>14. ASSUME NEW w \in ToSet(r)
       PROVE  /\ IsWindow(t, s, w)
              /\ \E i \in D : w = LineWindow(t, lines, o, i)
  <2>1. PICK i \in D : w \in ToSet(head[i])
    BY <1>8, <1>12 DEF Collects
  <2>2. ~Empty(LineCut(t, lines, o, i))
    BY <1>10, <2>1, ShortLists
  <2>3. w = LineWindow(t, lines, o, i)
    BY <1>10, <2>1, <2>2, ShortLists
  <2> QED
    BY <1>13, <2>2, <2>3
<1>15. ASSUME NEW p \in Span(s) \ Blank(t)
       PROVE  \E w \in ToSet(r) : p \in Span(w.span)
  <2>1. PICK x : x = LineIn(t, s, p) + 1 /\ x \in DOMAIN lines /\ p \in Span(lines[x])
    BY <1>3
  <2>2. x \in Nat /\ 1 <= x /\ x <= Len(lines)
    BY <1>3, <2>1
  <2>3. PICK j \in D : /\ j <= x /\ ToSet(head[j]) \subseteq ToSet(g[1])
                       /\ j \in stop \/ x < next[j]
    BY <1>12, <2>2 DEF Collects
  <2>4. PICK e : e = WindowEnd(lines, j, o.max)
    OBVIOUS
  <2>5. e \in j + 1..Len(lines) + 1
    BY <1>3, <1>4, <2>4, WindowEndIs
  <2>6. x < e
    <3>1. CASE j \in stop
      <4>1. e > Len(lines)
        BY <1>4, <2>4, <3>1 DEF LineStop
      <4>2. e \in Nat
        BY <1>6, <2>5
      <4> QED
        BY <1>6, <2>2, <4>1, <4>2
    <3>2. CASE j \notin stop
      <4>1. next[j] \in D /\ next[j] <= e /\ x < next[j]
        BY <1>5, <2>3, <2>4, <3>2 DEF GoesOn
      <4>2. next[j] \in Nat /\ e \in Nat
        <5>1. next[j] \in Nat
          BY <1>6, <4>1
        <5>2. j \in Nat
          BY <1>6
        <5> QED
          BY <1>6, <2>5, <5>1, <5>2
      <4> QED
        BY <2>2, <4>1, <4>2
    <3> QED
      BY <3>1, <3>2
  <2>7. j \in DOMAIN lines /\ e - 1 \in DOMAIN lines /\ j <= x /\ x <= e - 1
    BY <1>3, <1>4, <2>2, <2>3, <2>5, <2>6
  <2>8. \A k \in DOMAIN lines :
          /\ lines[k][1] \in Nat /\ lines[k][2] \in Nat
          /\ lines[k][1] <= lines[k][2] + 1 /\ Span(lines[k]) = lines[k][1]..lines[k][2]
    BY <1>2, <1>3, SpanIs DEF Span
  <2>9. p \in Nat /\ lines[x][1] <= p /\ p <= lines[x][2]
    BY <2>1, <2>8
  <2>10. PICK k : k = e - 1
    OBVIOUS
  <2>11. PICK a, b, c, d, u, v :
           /\ a = lines[j][1] /\ b = lines[j][2] /\ c = lines[x][1]
           /\ d = lines[x][2] /\ u = lines[k][1] /\ v = lines[k][2]
    OBVIOUS
  <2>12. j \in DOMAIN lines /\ x \in DOMAIN lines /\ k \in DOMAIN lines
    BY <2>1, <2>7, <2>10
  <2>13. /\ a \in Nat /\ b \in Nat /\ c \in Nat /\ d \in Nat /\ u \in Nat /\ v \in Nat
         /\ a <= b + 1 /\ u <= v + 1 /\ c <= p /\ p <= d
         /\ j < x => b < c
         /\ x < k => d < u
    BY <1>3, <2>8, <2>9, <2>11, <2>12
  <2>14. j \in Nat /\ k \in Nat /\ j <= x /\ x <= k
    BY <1>6, <2>2, <2>5, <2>7, <2>10
  <2>15. (j = x => a = c) /\ (x = k => d = v)
    BY <2>11
  <2>16. (j = x \/ j < x) /\ (x = k \/ x < k)
    BY <2>2, <2>14
  <2>17. (b < c \/ a = c) /\ (d < u \/ d = v)
    BY <2>13, <2>15, <2>16, Zenon
  <2>18. p \in Nat
    BY <2>9
  <2>19. a <= p
    BY <2>13, <2>17, <2>18, BeginsBefore
  <2>20. p <= v
    BY <2>13, <2>17, <2>18, EndsBehind
  <2>21. a <= p /\ p <= v
    BY <2>19, <2>20
  <2>22. PICK z : z = LineCut(t, lines, o, j)
    OBVIOUS
  <2>23. p \in lines[j][1]..lines[e - 1][2]
    BY <2>9, <2>10, <2>11, <2>13, <2>21
  <2>24. PICK q : q = Joined(lines, j, e)
    OBVIOUS
  <2>25. /\ q[1] = lines[j][1] /\ q[2] = lines[e - 1][2]
         /\ IsSpan(Len(t), z) /\ Span(q) \ Blank(t) \subseteq Span(z)
    BY <1>1, <1>4, <2>4, <2>22, <2>24, LineCutIs
  <2>26. p \in Span(z)
    BY <2>23, <2>25 DEF Span
  <2>27. ~Empty(z)
    BY <1>2, <2>25, <2>26, SpanIs
  <2>28. LineWindow(t, lines, o, j).span = z
    BY <1>13, <2>22, <2>27
  <2>29. LineWindow(t, lines, o, j) \in ToSet(head[j])
    BY <1>10, <2>22, <2>27, ShortLists
  <2> QED
    BY <1>8, <2>3, <2>26, <2>28, <2>29
<1>16. IsList(r)
  BY <1>8, <1>12 DEF Collects
<1> QED
  BY <1>1, <1>4, <1>14, <1>15, <1>16 DEF r

-----------------------------------------------------------------------------
(* What two rounds leave whole: one line *)

\* No blank line divides the span.
OneParagraph(t, s) ==
  ~ \E a, b \in Span(s) : /\ a < b /\ t[a] = "n" /\ t[b] = "n"
                          /\ a..b \subseteq Blank(t)

\* What is in one line is in one paragraph, and a part of either is.
LEMMA WithinOne ==
  ASSUME NEW t, IsText(t), NEW s, IsSpan(Len(t), s), OneLine(t, s)
  PROVE  OneParagraph(t, s)
BY DEF OneLine, OneParagraph

\* So is a part of it.
LEMMA PartOfOne ==
  ASSUME NEW t, NEW s, NEW p, Span(p) \subseteq Span(s)
  PROVE  /\ OneLine(t, s) => OneLine(t, p)
         /\ OneParagraph(t, s) => OneParagraph(t, p)
BY DEF OneLine, OneParagraph

\* Where a span is cut between paragraphs.
Gaps(t, s) ==
  {i \in Span(s) : \E a, b \in Span(s) :
     /\ a < b /\ t[a] = "n" /\ t[b] = "n"
     /\ a <= i /\ i <= b /\ a..b \subseteq Blank(t)}

\* SplitByBlankLines cuts there.
LEMMA ParagraphCuts ==
  ASSUME NEW t, IsText(t), NEW s, IsSpan(Len(t), s)
  PROVE  /\ SplitByBlankLines(t, s) = Parts(t, s, Gaps(t, s))
         /\ Gaps(t, s) \subseteq Blank(t)
<1>1. Len(t) \in Nat /\ Span(s) \subseteq 1..Len(t)
  <2>1. Len(t) \in Nat
    BY DEF IsText
  <2> QED
    BY <2>1, SpanIs
<1>2. ASSUME NEW i \in Gaps(t, s) PROVE i \in Blank(t)
  <2>1. PICK a, b \in Span(s) : /\ i \in Span(s) /\ a <= i /\ i <= b
                                /\ a..b \subseteq Blank(t)
    BY DEF Gaps
  <2>2. i \in a..b
    BY <1>1, <2>1
  <2> QED
    BY <2>1, <2>2
<1> QED
  BY <1>2 DEF SplitByBlankLines, Gaps

\* Each part is one paragraph.
LEMMA ParagraphsAreOne ==
  ASSUME NEW t, IsText(t), NEW s, IsSpan(Len(t), s),
         NEW p \in ToSet(SplitByBlankLines(t, s))
  PROVE  OneParagraph(t, p)
<1>1. Span(p) \subseteq Span(s) \ Gaps(t, s)
  <2>1. PICK at : at = Gaps(t, s)
    OBVIOUS
  <2>2. SplitByBlankLines(t, s) = Parts(t, s, at) /\ at \subseteq Blank(t)
    BY <2>1, ParagraphCuts
  <2> QED
    BY <2>1, <2>2, PartsAre
<1>2. Span(s) \subseteq Nat
  <2>1. Len(t) \in Nat
    BY DEF IsText
  <2> QED
    BY <2>1, SpanIs
<1> SUFFICES ASSUME NEW a \in Span(p), NEW b \in Span(p), a < b,
                    t[a] = "n", t[b] = "n", a..b \subseteq Blank(t)
             PROVE  FALSE
  BY DEF OneParagraph
<1>3. a \in Span(s) /\ b \in Span(s) /\ a <= a /\ a <= b
  BY <1>1, <1>2
<1>4. a \in Gaps(t, s)
  BY <1>3 DEF Gaps
<1> QED
  BY <1>1, <1>4

\* One paragraph is not divided.
LEMMA OneIsNotDivided ==
  ASSUME NEW t, IsText(t), NEW s, IsSpan(Len(t), s), OneParagraph(t, s)
  PROVE  ~(Len(SplitByBlankLines(t, s)) > 1)
<1>1. Len(t) \in Nat
  BY DEF IsText
<1>2. SplitByBlankLines(t, s) = Parts(t, s, {})
  <2>1. Gaps(t, s) = {}
    BY DEF OneParagraph, Gaps
  <2> QED
    BY <2>1, ParagraphCuts
<1> DEFINE pieces == Cut(s, {})
           trimmed == [k \in DOMAIN pieces |-> Trimmed(t, pieces[k])]
           P == {k \in DOMAIN pieces : ~Empty(trimmed[k])}
<1>3. Starts(s, {}) = {s[1]}
  BY DEF Starts
<1>4. IsList(pieces) /\ Len(pieces) = 1
  <2>1. IsList(pieces) /\ Len(pieces) = Cardinality(Starts(s, {}))
    BY <1>1, CutIs
  <2>2. Cardinality({s[1]}) = 1
    BY FS_Singleton
  <2> HIDE DEF pieces
  <2> QED
    BY <1>3, <2>1, <2>2
<1>5. Parts(t, s, {}) = InOrder(trimmed, P)
  BY DEF Parts
<1>6. DOMAIN pieces = {1}
  <2> HIDE DEF pieces
  <2> QED
    BY <1>4 DEF IsList
<1>7. P = {} \/ P = {1}
  BY <1>6
<1> HIDE DEF pieces, trimmed, P
<1>8. P \in SUBSET Nat /\ IsFiniteSet(P) /\ Cardinality(P) \in {0, 1}
  <2>1. IsFiniteSet({}) /\ Cardinality({}) = 0
    BY FS_EmptySet
  <2>2. IsFiniteSet({1}) /\ Cardinality({1}) = 1
    BY FS_Singleton
  <2>3. IsFiniteSet(P) /\ Cardinality(P) \in {0, 1}
    <3>1. Cardinality({}) \in {0, 1} /\ Cardinality({1}) \in {0, 1}
      BY <2>1, <2>2
    <3> QED
      BY <1>7, <2>1, <2>2, <3>1, Zenon
  <2>4. P \in SUBSET Nat
    BY <1>7
  <2> QED
    BY <2>3, <2>4
<1>9. Len(InOrder(trimmed, P)) = Cardinality(P)
  BY <1>8, InOrderTakes
<1>10. PICK n \in {0, 1} : n = Len(InOrder(trimmed, P))
  BY <1>8, <1>9
<1>11. ~(n > 1)
  OBVIOUS
<1> QED
  BY <1>2, <1>5, <1>10, <1>11

\* A window of lines fits, or it is one line.
LEMMA WindowsAreShort ==
  ASSUME NEW t, IsText(t), NEW s, IsSpan(Len(t), s), NEW o, o.max \in Nat,
         NEW w \in ToSet(SplitCodeByLineWindows(t, s, o))
  PROVE  2 * Size(w.span) <= o.max \/ OneLine(t, w.span)
<1>1. PICK lines : lines = Lines(t, s)
  OBVIOUS
<1>2. PICK i \in 1..Len(lines) : w = LineWindow(t, lines, o, i)
  BY <1>1, LineWindowsAre
<1>3. PICK e, c, j : /\ e = WindowEnd(lines, i, o.max) /\ j = Joined(lines, i, e)
                     /\ c = LineCut(t, lines, o, i)
  OBVIOUS
<1>4. w.span = c /\ c = Trimmed(t, j)
  BY <1>2, <1>3 DEF LineWindow, LineCut
<1>5. Len(lines) \in Nat /\ DOMAIN lines = 1..Len(lines)
        /\ \A k \in DOMAIN lines : OneLine(t, lines[k])
  BY <1>1, LinesAre
<1>6. /\ e \in i + 1..Len(lines) + 1 /\ e - 1 \in DOMAIN lines
      /\ IsSpan(Len(t), j) /\ j[1] = lines[i][1] /\ j[2] = lines[e - 1][2]
      /\ Span(c) \subseteq Span(j)
  BY <1>1, <1>3, LineCutIs
<1>7. e = i + 1 \/ 2 * (Length(lines, i, e) + e - i) <= o.max
  BY <1>3, <1>5, WindowEndIs
<1>8. CASE e = i + 1
  <2>1. e - 1 = i
    BY <1>5, <1>8
  <2>2. Span(j) = Span(lines[i])
    BY <1>6, <2>1 DEF Span
  <2>3. OneLine(t, lines[i])
    BY <1>5
  <2> QED
    BY <1>4, <1>6, <2>2, <2>3 DEF OneLine
<1>9. CASE e # i + 1
  <2>1. PICK x, y : x = Size(j) /\ y = Size(c)
    OBVIOUS
  <2>2. x \in Nat /\ y \in Nat /\ y <= x
    <3>1. Len(t) \in Nat
      BY DEF IsText
    <3>2. IsSpan(Len(t), c) /\ Size(c) <= Size(j)
      BY <1>4, <1>6, TrimmedIs
    <3> QED
      BY <1>6, <2>1, <3>1, <3>2, SpanIs
  <2>3. i \in Nat /\ e \in Nat /\ i # e
    BY <1>5, <1>6
  <2>4. Length(lines, i, e) = x - (e - i - 1)
    BY <1>3, <2>1, <2>3 DEF Length
  <2>5. 2 * (x - (e - i - 1) + e - i) <= o.max
    BY <1>7, <1>9, <2>4
  <2>6. 2 * y <= o.max
    BY <2>2, <2>3, <2>5
  <2> QED
    BY <1>4, <2>1, <2>6
<1> QED
  BY <1>7, <1>8, <1>9

-----------------------------------------------------------------------------
(* Windows of characters *)

\* Whole characters in halves of one.
LEMMA HalfIs ==
  ASSUME NEW n \in Nat
  PROVE  /\ n \div 2 \in Nat /\ 2 * (n \div 2) <= n
         /\ n <= 2 * (n \div 2) + 1
OBVIOUS

\* A character of a span begins before the last half of it.
LEMMA HalfBefore ==
  ASSUME NEW p \in Nat, NEW u \in Nat, NEW v \in Nat, NEW z \in Nat, NEW q \in Nat,
         NEW x \in Nat, q = p - u, z = v - u + 1, p <= v, x = 2 * q + 1
  PROVE  q < z /\ x < 2 * z
OBVIOUS

\* The length of a window does not depend on where its span begins.
LEMMA SameLength ==
  ASSUME NEW u \in Nat, NEW h \in Nat, NEW k \in Nat, NEW a, NEW b,
         a = u + h, b = u + k - 1
  PROVE  b - a + 1 = k - h
OBVIOUS

\* Neither does what is in it.
LEMMA Between ==
  ASSUME NEW u \in Nat, NEW h \in Nat, NEW k \in Nat, NEW q \in Nat, NEW a, NEW b,
         NEW p, p = u + q, a = u + h, b = u + k - 1, h <= q, q < k
  PROVE  a <= p /\ p <= b
OBVIOUS

\* Options that have been normalized.
IsOptions(o) ==
  /\ o.max \in Nat /\ o.max >= 2 /\ o.overlap \in Nat /\ o.depth \in Nat

\* What a window of characters cuts, adds to the list, and where the next one
\* begins.
CharacterEnd(s, o, start) == Min({2 * Size(s), start + o.max})
CharacterCut(t, s, o, start) ==
  Trimmed(t, <<s[1] + start \div 2, s[1] + CharacterEnd(s, o, start) \div 2 - 1>>)
CharacterHead(t, s, o) ==
  [start \in Nat |-> IF Empty(CharacterCut(t, s, o, start)) THEN <<>>
                     ELSE <<CharacterCut(t, s, o, start)>>]
CharacterStop(s, o) == {start \in Nat : CharacterEnd(s, o, start) >= 2 * Size(s)}
CharacterNext(s, o) ==
  [start \in Nat |-> WindowStart(start, CharacterEnd(s, o, start), o)]

\* The equation by which SplitByCharacterWindow is defined.
CharacterWindows(f, t, s, o) ==
  f = [start \in Nat |->
         LET end == Min({2 * Size(s), start + o.max})
             cut == Trimmed(t, <<s[1] + start \div 2, s[1] + end \div 2 - 1>>)
         IN (IF Empty(cut) THEN <<>> ELSE <<cut>>)
              \o IF end >= 2 * Size(s) THEN <<>> ELSE f[WindowStart(start, end, o)]]

\* A window ends where its size or the text does.
LEMMA CharacterEndIs ==
  ASSUME NEW n \in Nat, NEW s, IsSpan(n, s), NEW o, IsOptions(o), NEW start \in Nat
  PROVE  LET end == CharacterEnd(s, o, start)
         IN /\ end \in Nat /\ end <= 2 * Size(s) /\ end <= start + o.max
            /\ start \in CharacterStop(s, o) <=> end = 2 * Size(s)
            /\ start \notin CharacterStop(s, o) =>
                 /\ end = start + o.max
                 /\ CharacterNext(s, o)[start] \in Nat
                 /\ start < CharacterNext(s, o)[start]
                 /\ CharacterNext(s, o)[start] <= end
<1>1. Size(s) \in Nat /\ o.max \in Nat /\ o.max >= 2 /\ o.overlap \in Nat
  BY SpanIs DEF IsOptions
<1>2. PICK size, end : size = 2 * Size(s) /\ end = CharacterEnd(s, o, start)
  OBVIOUS
<1>3. size \in Nat /\ start + o.max \in Nat
  BY <1>1, <1>2
<1>4. end = IF size <= start + o.max THEN size ELSE start + o.max
  <2>1. PICK x \in Int, y \in Int : x = size /\ y = start + o.max
    BY <1>3
  <2>2. end = Min({x, y})
    BY <1>2, <2>1 DEF CharacterEnd
  <2> QED
    BY <2>1, <2>2, PairIs
<1>5. start \in CharacterStop(s, o) <=> end >= size
  BY <1>2 DEF CharacterStop
<1>6. CharacterNext(s, o)[start] = Max({start + 2, end - o.overlap})
  BY <1>2 DEF CharacterNext, WindowStart
<1>7. Max({start + 2, end - o.overlap})
        = IF start + 2 >= end - o.overlap THEN start + 2 ELSE end - o.overlap
  BY <1>1, <1>3, <1>4, PairIs
<1> QED
  BY <1>1, <1>2, <1>3, <1>4, <1>5, <1>6, <1>7

\* It is a chain, which goes on.
LEMMA CharacterWindowsChain ==
  ASSUME NEW n \in Nat, NEW t, NEW s, IsSpan(n, s), NEW o, IsOptions(o)
  PROVE  /\ GoesOn(Nat, CharacterStop(s, o), CharacterNext(s, o), 2 * Size(s))
         /\ \A f : CharacterWindows(f, t, s, o)
                     <=> Chains(f, Nat, CharacterHead(t, s, o),
                                CharacterStop(s, o), CharacterNext(s, o))
<1>1. Size(s) \in Nat /\ o.max \in Nat
  BY SpanIs DEF IsOptions
<1>2. ASSUME NEW i \in Nat, i \notin CharacterStop(s, o)
      PROVE  /\ CharacterNext(s, o)[i] \in Nat /\ i < CharacterNext(s, o)[i]
             /\ i <= 2 * Size(s)
  <2>1. /\ CharacterNext(s, o)[i] \in Nat /\ i < CharacterNext(s, o)[i]
        /\ CharacterNext(s, o)[i] <= CharacterEnd(s, o, i)
        /\ CharacterEnd(s, o, i) <= 2 * Size(s) /\ CharacterEnd(s, o, i) \in Nat
    BY <1>2, CharacterEndIs
  <2> QED
    BY <1>1, <2>1
<1>3. GoesOn(Nat, CharacterStop(s, o), CharacterNext(s, o), 2 * Size(s))
  BY <1>2 DEF GoesOn
<1>4. ASSUME NEW f
      PROVE  CharacterWindows(f, t, s, o)
               <=> Chains(f, Nat, CharacterHead(t, s, o),
                          CharacterStop(s, o), CharacterNext(s, o))
  <2> DEFINE Of(start) ==
               LET end == Min({2 * Size(s), start + o.max})
                   cut == Trimmed(t, <<s[1] + start \div 2, s[1] + end \div 2 - 1>>)
               IN (IF Empty(cut) THEN <<>> ELSE <<cut>>)
                    \o IF end >= 2 * Size(s) THEN <<>> ELSE f[WindowStart(start, end, o)]
             On(start) == CharacterHead(t, s, o)[start] \o
                            IF start \in CharacterStop(s, o) THEN <<>>
                            ELSE f[CharacterNext(s, o)[start]]
  <2>1. \A start \in Nat : Of(start) = On(start)
    <3> SUFFICES ASSUME NEW start \in Nat PROVE Of(start) = On(start)
      OBVIOUS
    <3> DEFINE end == Min({2 * Size(s), start + o.max})
    <3>1. CharacterHead(t, s, o)[start] =
            IF Empty(Trimmed(t, <<s[1] + start \div 2, s[1] + end \div 2 - 1>>))
            THEN <<>>
            ELSE <<Trimmed(t, <<s[1] + start \div 2, s[1] + end \div 2 - 1>>)>>
      BY DEF CharacterHead, CharacterCut, CharacterEnd
    <3>2. start \in CharacterStop(s, o) <=> end >= 2 * Size(s)
      BY DEF CharacterStop, CharacterEnd
    <3>3. CharacterNext(s, o)[start] = WindowStart(start, end, o)
      BY DEF CharacterNext, CharacterEnd
    <3> QED
      BY <3>1, <3>2, <3>3
  <2>2. CharacterWindows(f, t, s, o) <=> f = [start \in Nat |-> Of(start)]
    BY DEF CharacterWindows
  <2>3. Chains(f, Nat, CharacterHead(t, s, o), CharacterStop(s, o), CharacterNext(s, o))
          <=> f = [start \in Nat |-> On(start)]
    BY DEF Chains
  <2> HIDE DEF Of, On
  <2>4. [start \in Nat |-> Of(start)] = [start \in Nat |-> On(start)]
    BY <2>1
  <2> QED
    BY <2>2, <2>3, <2>4
<1> QED
  BY <1>3, <1>4

\* A window of characters is at most as long as it may be, and has no blank
\* ends.
Fits(o, s) == 2 * Size(s) < o.max + 2

\* What is as long as a window in whole characters fits.
LEMMA HalvesFit ==
  ASSUME NEW x \in Nat, NEW h \in Nat, NEW k \in Nat, NEW start \in Nat,
         NEW end \in Nat, NEW m \in Nat, x <= k - h, start <= 2 * h + 1,
         2 * k <= end, end <= start + m
  PROVE  2 * x < m + 2
OBVIOUS

\* A window of characters fits, and quotes all of its halves that are not blank.
LEMMA CharacterCutIs ==
  ASSUME NEW t, IsText(t), NEW s, IsSpan(Len(t), s), NEW o, IsOptions(o),
         NEW start \in Nat
  PROVE  LET r == CharacterCut(t, s, o, start)
             end == CharacterEnd(s, o, start)
         IN /\ ~Empty(r) => Tight(t, r) /\ Fits(o, r) /\ Span(r) \subseteq Span(s)
            /\ \A p \in Span(s) \ Blank(t) :
                 start <= 2 * (p - s[1]) + 1 /\ 2 * (p - s[1]) + 1 < end
                   => p \in Span(r) /\ ~Empty(r)
<1>1. Len(t) \in Nat
  BY DEF IsText
<1>2. /\ s[1] \in 1..Len(t) + 1 /\ s[2] \in 0..Len(t) /\ s[1] <= s[2] + 1
      /\ Span(s) = s[1]..s[2] /\ Size(s) = s[2] - s[1] + 1 /\ Size(s) \in Nat
  BY <1>1, SpanIs DEF Span, Size
<1>3. PICK end, r, a, b, w :
        /\ end = CharacterEnd(s, o, start) /\ r = CharacterCut(t, s, o, start)
        /\ a = s[1] + start \div 2 /\ b = s[1] + end \div 2 - 1
        /\ w = <<a, b>> /\ r = Trimmed(t, w)
  BY DEF CharacterCut
<1>4. end \in Nat /\ end <= 2 * Size(s) /\ end <= start + o.max /\ o.max \in Nat
  BY <1>1, <1>3, CharacterEndIs DEF IsOptions
<1>5. PICK h, k : /\ h = start \div 2 /\ k = end \div 2
                  /\ h \in Nat /\ 2 * h <= start /\ start <= 2 * h + 1
                  /\ k \in Nat /\ 2 * k <= end /\ end <= 2 * k + 1
  BY <1>4, HalfIs
<1>6. /\ a = s[1] + h /\ b = s[1] + k - 1 /\ a \in Nat /\ b \in Nat
      /\ b <= s[2] /\ s[1] <= a /\ w[1] = a /\ w[2] = b /\ Span(w) = a..b
  <2>1. PICK u, v, z : u = s[1] /\ v = s[2] /\ z = Size(s)
    OBVIOUS
  <2>2. /\ u \in Nat /\ v \in Nat /\ z \in Nat /\ z = v - u + 1 /\ u >= 1
    BY <1>1, <1>2, <2>1
  <2>3. k <= z
    BY <1>4, <1>5, <2>1, <2>2
  <2>4. a = u + h /\ b = u + k - 1
    BY <1>3, <1>5, <2>1
  <2>5. a \in Nat /\ b \in Nat /\ b <= v /\ u <= a
    BY <1>5, <2>2, <2>3, <2>4
  <2>6. w[1] = a /\ w[2] = b
    BY <1>3
  <2> QED
    BY <2>1, <2>4, <2>5, <2>6 DEF Span
<1>7. PICK u, v : u = s[1] /\ v = s[2] /\ u \in Nat /\ v \in Nat
  BY <1>1, <1>2
<1>8. ASSUME NEW p \in Span(s), start <= 2 * (p - s[1]) + 1,
             2 * (p - s[1]) + 1 < end
      PROVE  p \in Nat /\ a <= p /\ p <= b
  <2>1. p \in Nat /\ u <= p
    BY <1>2, <1>7
  <2>2. PICK q \in Nat : q = p - u
    BY <1>7, <2>1
  <2>3. q = p - s[1] /\ p = u + q
    BY <1>7, <2>1, <2>2
  <2>4. start <= 2 * q + 1 /\ 2 * q + 1 < end
    BY <1>8, <2>3
  <2>5. h <= q /\ q < k
    BY <1>4, <1>5, <2>4
  <2> QED
    <3>1. a = u + h /\ b = u + k - 1
      BY <1>6, <1>7
    <3>2. h \in Nat /\ k \in Nat /\ u \in Nat /\ p = u + q
      BY <1>5, <1>7, <2>3
    <3>3. a <= p /\ p <= b
      BY <2>5, <3>1, <3>2, Between
    <3> QED
      BY <2>1, <3>3
<1>9. CASE a > b + 1
  <2>1. Span(w) = {}
    BY <1>6, <1>9
  <2>2. PICK x : x = r /\ x = <<1, 0>>
    BY <1>3, <2>1 DEF Trimmed
  <2>3. Empty(r)
    <3>1. x[1] = 1 /\ x[2] = 0
      BY <2>2
    <3> QED
      BY <2>2, <3>1 DEF Empty
  <2>4. ASSUME NEW p \in Span(s), start <= 2 * (p - s[1]) + 1,
               2 * (p - s[1]) + 1 < end
        PROVE  FALSE
    BY <1>6, <1>8, <1>9, <2>4
  <2> QED
    BY <1>3, <2>3, <2>4
<1>10. CASE a <= b + 1
  <2>1. IsSpan(Len(t), w)
    BY <1>1, <1>2, <1>3, <1>6, <1>10 DEF IsSpan
  <2>2. /\ IsSpan(Len(t), r) /\ Span(r) \subseteq Span(w)
        /\ Span(w) \ Blank(t) \subseteq Span(r)
        /\ ~Empty(r) => Tight(t, r)
        /\ Size(r) <= Size(w) /\ Size(w) = b - a + 1
    BY <1>3, <1>6, <2>1, TrimmedIs DEF Size
  <2>3. Size(r) \in Nat
    BY <1>1, <2>2, SpanIs
  <2>4. Fits(o, r)
    <3>1. PICK x \in Nat, m \in Nat : x = Size(r) /\ m = o.max
      BY <1>4, <2>3
    <3>2. x <= b - a + 1
      BY <2>2, <3>1
    <3>3. b - a + 1 = k - h
      <4>1. a = u + h /\ b = u + k - 1
        BY <1>6, <1>7
      <4>2. h \in Nat /\ k \in Nat /\ u \in Nat
        BY <1>5, <1>7
      <4> QED
        BY <4>1, <4>2, SameLength
    <3>4. x <= k - h /\ end <= start + m
      BY <1>4, <3>1, <3>2, <3>3
    <3>5. 2 * x < m + 2
      BY <1>4, <1>5, <3>4, HalvesFit
    <3> QED
      BY <3>1, <3>5 DEF Fits
  <2>5. a..b \subseteq u..v
    BY <1>6, <1>7
  <2>6. Span(s) = u..v /\ Span(w) = a..b
    BY <1>2, <1>6, <1>7
  <2>7. Span(r) \subseteq Span(s)
    BY <2>2, <2>5, <2>6
  <2>8. ASSUME NEW p \in Span(s) \ Blank(t), start <= 2 * (p - s[1]) + 1,
               2 * (p - s[1]) + 1 < end
        PROVE  p \in Span(r) /\ ~Empty(r)
    <3>1. p \in Span(w)
      BY <1>6, <1>8, <2>8
    <3>2. p \in Span(r)
      BY <2>2, <3>1
    <3> QED
      BY <1>1, <2>2, <3>2, SpanIs
  <2> QED
    BY <1>3, <2>2, <2>4, <2>7, <2>8
<1> QED
  BY <1>6, <1>9, <1>10

\* Windows of characters are not too long, have no blank ends, and quote all
\* that is not blank.
LEMMA CharacterWindowsAre ==
  ASSUME NEW t, IsText(t), NEW s, IsSpan(Len(t), s), NEW o, IsOptions(o)
  PROVE  LET r == SplitByCharacterWindow(t, s, o)
         IN /\ IsList(r)
            /\ \A w \in ToSet(r) : Tight(t, w) /\ Fits(o, w) /\ Span(w) \subseteq Span(s)
            /\ \A p \in Span(s) \ Blank(t) : \E w \in ToSet(r) : p \in Span(w)
<1> DEFINE r == SplitByCharacterWindow(t, s, o)
           g == CHOOSE f : CharacterWindows(f, t, s, o)
<1>1. Len(t) \in Nat
  BY DEF IsText
<1>2. /\ s[1] \in 1..Len(t) + 1 /\ s[2] \in 0..Len(t)
      /\ Span(s) = s[1]..s[2] /\ Size(s) = s[2] - s[1] + 1 /\ Size(s) \in Nat
  BY <1>1, SpanIs DEF Span, Size
<1>3. PICK head, stop, next :
        /\ head = CharacterHead(t, s, o)
        /\ stop = CharacterStop(s, o) /\ next = CharacterNext(s, o)
  OBVIOUS
<1>4. /\ GoesOn(Nat, stop, next, 2 * Size(s))
      /\ \A f : CharacterWindows(f, t, s, o) <=> Chains(f, Nat, head, stop, next)
  BY <1>1, <1>3, CharacterWindowsChain
<1>5. 2 * Size(s) \in Nat
  BY <1>2
<1>6. CharacterWindows(g, t, s, o)
  <2>1. \E f : Chains(f, Nat, head, stop, next)
    BY <1>4, <1>5, ChainsExists
  <2> QED
    BY <1>4, <2>1
<1>7. r = g[0]
  BY DEF SplitByCharacterWindow, CharacterWindows
<1> HIDE DEF g, r
<1>8. Chains(g, Nat, head, stop, next)
  BY <1>4, <1>6
<1>9. \A i \in Nat : head[i] = IF Empty(CharacterCut(t, s, o, i)) THEN <<>>
                               ELSE <<CharacterCut(t, s, o, i)>>
  BY <1>3 DEF CharacterHead
<1>10. \A i \in Nat : IsList(head[i])
  BY <1>9, ShortLists
<1>11. Collects(g, Nat, head, stop, next, 0)
  BY <1>4, <1>5, <1>8, <1>10, ChainCollects
<1>12. ASSUME NEW w \in ToSet(r)
       PROVE  Tight(t, w) /\ Fits(o, w) /\ Span(w) \subseteq Span(s)
  <2>1. PICK i \in Nat : w \in ToSet(head[i])
    BY <1>7, <1>11 DEF Collects
  <2>2. ~Empty(CharacterCut(t, s, o, i))
    BY <1>9, <2>1, ShortLists
  <2>3. w = CharacterCut(t, s, o, i)
    BY <1>9, <2>1, <2>2, ShortLists
  <2> QED
    BY <2>2, <2>3, CharacterCutIs
<1>13. ASSUME NEW p \in Span(s) \ Blank(t)
       PROVE  \E w \in ToSet(r) : p \in Span(w)
  <2>1. PICK u \in Nat, v \in Nat, z \in Nat :
          u = s[1] /\ v = s[2] /\ z = Size(s) /\ z = v - u + 1
    BY <1>1, <1>2
  <2>2. p \in Nat /\ u <= p /\ p <= v
    BY <1>2, <2>1
  <2>3. PICK q \in Nat : q = p - u
    BY <2>2
  <2>4. PICK x \in Nat : x = 2 * q + 1
    OBVIOUS
  <2>5. x = 2 * (p - s[1]) + 1
    BY <2>1, <2>3, <2>4
  <2>6. p \in Nat /\ x \in Nat /\ x < 2 * Size(s)
    <3>1. q < z /\ x < 2 * z
      BY <2>1, <2>2, <2>3, <2>4, HalfBefore
    <3> QED
      BY <2>1, <2>2, <3>1
  <2>7. PICK j \in Nat : /\ j <= x /\ ToSet(head[j]) \subseteq ToSet(g[0])
                         /\ j \in stop \/ x < next[j]
    <3>1. 0 <= x
      OBVIOUS
    <3> QED
      BY <1>11, <3>1 DEF Collects
  <2>8. PICK end : end = CharacterEnd(s, o, j)
    OBVIOUS
  <2>9. /\ end \in Nat
        /\ j \in stop => end = 2 * Size(s)
        /\ j \notin stop => next[j] \in Nat /\ next[j] <= end
    BY <1>1, <1>3, <2>8, CharacterEndIs
  <2>10. x < end
    BY <2>6, <2>7, <2>9
  <2>11. p \in Span(CharacterCut(t, s, o, j)) /\ ~Empty(CharacterCut(t, s, o, j))
    BY <2>5, <2>7, <2>8, <2>10, CharacterCutIs
  <2>12. CharacterCut(t, s, o, j) \in ToSet(head[j])
    BY <1>9, <2>11, ShortLists
  <2> QED
    BY <1>7, <2>7, <2>11, <2>12
<1>14. IsList(r)
  BY <1>7, <1>11 DEF Collects
<1> QED
  BY <1>12, <1>13, <1>14 DEF r

-----------------------------------------------------------------------------
(* Lists of lists *)

\* The equation by which FlattenSeq is defined.
Flattens(f, s, n) ==
  f = [i \in 1..n |-> IF i = 1 THEN s[i] ELSE f[i - 1] \o s[i]]

\* It has a solution.
LEMMA FlattensExists ==
  ASSUME NEW s, NEW size \in Nat, NEW n \in 1..size
  PROVE  \E f : Flattens(f, s, n)
<1> DEFINE Has(m) == \E f : Flattens(f, s, m)
           T == {m \in 1..size : ~Has(m)}
<1>1. SUFFICES ASSUME T # {} PROVE FALSE
  OBVIOUS
<1>2. PICK m \in T : \A k \in T : m <= k
  <2>1. T \in SUBSET Nat
    OBVIOUS
  <2> HIDE DEF T
  <2> QED
    BY <1>1, <2>1, LeastNumber
<1>3. m \in 1..size /\ ~Has(m) /\ m \in Nat
  BY <1>2
<1>4. CASE m = 1
  <2> DEFINE f == [i \in 1..1 |-> s[1]]
  <2>1. Flattens(f, s, 1)
    BY <1>3, <1>4 DEF Flattens
  <2> QED
    BY <1>3, <1>4, <2>1
<1>5. CASE m > 1
  <2>1. m - 1 \in 1..size
    BY <1>3, <1>5
  <2>2. Has(m - 1)
    <3>1. m - 1 \notin T
      <4> HIDE DEF T
      <4> QED
        BY <1>2, <1>3
    <3> QED
      BY <2>1, <3>1
  <2>3. PICK g : Flattens(g, s, m - 1)
    BY <2>2
  <2> DEFINE f == [i \in 1..m |-> IF i = m THEN g[m - 1] \o s[m] ELSE g[i]]
  <2> HIDE DEF Has, T
  <2>4. \A i \in 1..(m - 1) : g[i] = IF i = 1 THEN s[i] ELSE g[i - 1] \o s[i]
    BY <2>3 DEF Flattens
  <2>5. \A i \in 1..m : f[i] = IF i = 1 THEN s[i] ELSE f[i - 1] \o s[i]
    <3> SUFFICES ASSUME NEW i \in 1..m
                 PROVE  f[i] = IF i = 1 THEN s[i] ELSE f[i - 1] \o s[i]
      OBVIOUS
    <3>1. \A k \in 1..m : f[k] = IF k = m THEN g[m - 1] \o s[m] ELSE g[k]
      OBVIOUS
    <3> HIDE DEF f
    <3>2. CASE i = m
      <4>1. m - 1 \in 1..m /\ m - 1 # m /\ m # 1
        BY <1>3, <1>5
      <4> QED
        BY <3>1, <3>2, <4>1
    <3>3. CASE i # m
      <4>1. i \in 1..(m - 1) /\ (i # 1 => i - 1 \in 1..m /\ i - 1 # m)
        BY <1>3, <3>3
      <4> QED
        BY <2>4, <3>1, <3>3, <4>1
    <3> QED
      BY <3>2, <3>3
  <2>6. f = [i \in 1..m |-> f[i]]
    OBVIOUS
  <2> HIDE DEF f
  <2>7. Flattens(f, s, m)
    BY <2>5, <2>6 DEF Flattens
  <2> QED
    BY <1>3, <2>7 DEF Has
<1> QED
  BY <1>3, <1>4, <1>5

\* FlattenSeq puts them behind each other.
LEMMA FlattenIs ==
  ASSUME NEW s, NEW n \in Nat, Len(s) = n, DOMAIN s = 1..n,
         \A k \in 1..n : IsList(s[k])
  PROVE  /\ IsList(FlattenSeq(s))
         /\ ToSet(FlattenSeq(s)) = UNION {ToSet(s[k]) : k \in 1..n}
<1>1. CASE n = 0
  <2>1. FlattenSeq(s) = s
    BY <1>1 DEF FlattenSeq
  <2>2. ToSet(s) = {}
    BY <1>1 DEF ToSet
  <2>3. s = <<>>
    BY <1>1
  <2> QED
    BY <1>1, <2>1, <2>2, <2>3, ShortLists
<1>2. CASE n # 0
  <2> DEFINE g == CHOOSE f : Flattens(f, s, n)
  <2>1. n \in 1..n
    BY <1>2
  <2>2. Flattens(g, s, n)
    BY <2>1, FlattensExists
  <2>3. FlattenSeq(s) = g[n]
    BY <1>2 DEF FlattenSeq, Flattens
  <2> HIDE DEF g
  <2>4. \A i \in 1..n : g[i] = IF i = 1 THEN s[i] ELSE g[i - 1] \o s[i]
    BY <2>2 DEF Flattens
  <2> DEFINE Upto1(i) == UNION {ToSet(s[k]) : k \in 1..i}
             Good(i) == IsList(g[i]) /\ ToSet(g[i]) = Upto1(i)
             T == {i \in 1..n : ~Good(i)}
  <2>5. ASSUME T # {} PROVE FALSE
    <3>1. PICK m \in T : \A k \in T : m <= k
      <4>1. T \in SUBSET Nat
        OBVIOUS
      <4> HIDE DEF T
      <4> QED
        BY <2>5, <4>1, LeastNumber
    <3>2. m \in 1..n /\ ~Good(m) /\ m \in Nat
      BY <3>1
    <3>3. CASE m = 1
      <4>1. g[m] = s[m]
        BY <2>4, <3>2, <3>3
      <4>2. Upto1(m) = ToSet(s[m])
        <5>1. 1..m = {m}
          BY <3>3
        <5> QED
          BY <5>1
      <4> QED
        BY <3>2, <4>1, <4>2
    <3>4. CASE m # 1
      <4>1. m - 1 \in 1..n
        BY <3>2, <3>4
      <4>2. m - 1 \notin T
        <5> HIDE DEF T
        <5> QED
          BY <3>1, <3>2
      <4>3. Good(m - 1)
        BY <4>1, <4>2
      <4>4. PICK h, u : h = g[m - 1] /\ u = s[m]
        OBVIOUS
      <4>5. IsList(h) /\ IsList(u) /\ g[m] = h \o u
        BY <2>4, <3>2, <3>4, <4>3, <4>4
      <4>6. IsList(g[m]) /\ ToSet(g[m]) = ToSet(h) \cup ToSet(u)
        BY <4>5, ConcatIs
      <4>7. Upto1(m) = Upto1(m - 1) \cup ToSet(s[m])
        <5>1. \A k : k \in 1..m <=> k \in 1..(m - 1) \/ k = m
          BY <3>2, <3>4
        <5> QED
          BY <5>1
      <4>8. Good(m)
        BY <4>3, <4>4, <4>6, <4>7
      <4> QED
        BY <3>2, <4>8
    <3> QED
      BY <3>3, <3>4
  <2>6. Good(n)
    BY <2>1, <2>5
  <2> QED
    BY <2>3, <2>6
<1> QED
  BY <1>1, <1>2

\* The segments of parts have them as their spans.
LEMMA SegmentsOfParts ==
  ASSUME NEW parts, IsList(parts), NEW f,
         f = [k \in DOMAIN parts |-> f[k]], NEW spans,
         \A k \in DOMAIN parts : f[k].span = spans[k]
  PROVE  /\ IsList(f) /\ DOMAIN f = DOMAIN parts
         /\ \A q \in ToSet(f) : \E k \in DOMAIN parts : q = f[k] /\ q.span = spans[k]
         /\ \A k \in DOMAIN parts : f[k] \in ToSet(f)
<1>1. PICK n \in Nat : n = Len(parts) /\ DOMAIN parts = 1..n
  BY DEF IsList
<1>2. f = [k \in 1..n |-> f[k]]
  BY <1>1
<1>3. IsList(f) /\ DOMAIN f = 1..n /\ ToSet(f) = {f[k] : k \in 1..n}
  BY <1>2, ListIs
<1> QED
  BY <1>1, <1>3

-----------------------------------------------------------------------------
(* Segments *)

\* What a segment is cut into: spans of it without blank ends; all that is not
\* blank is in one of them; all of them fit.
IsCut(d, r, s, at) ==
  /\ IsList(r)
  /\ \A q \in ToSet(r) : /\ Tight(d.text, q.span) /\ Span(q.span) \subseteq Span(s)
                         /\ d.kind = "code" => q.at = at
Covers(d, r, s) ==
  \A p \in Span(s) \ Blank(d.text) : \E q \in ToSet(r) : p \in Span(q.span)
AllFit(r, o) == \A q \in ToSet(r) : Fits(o, q.span)

\* Parts of a span, of which the segments are made.
Divides(t, parts, s) ==
  /\ IsList(parts)
  /\ \A p \in ToSet(parts) : Tight(t, p) /\ Span(p) \subseteq Span(s)
  /\ \A i \in Span(s) \ Blank(t) : \E p \in ToSet(parts) : i \in Span(p)
Places(d, f, parts, at) ==
  /\ f = [k \in DOMAIN parts |-> f[k]]
  /\ \A k \in DOMAIN parts :
       f[k].span = parts[k] /\ (d.kind = "code" => f[k].at = at)
PartsFit(parts, o) == \A p \in ToSet(parts) : Fits(o, p)

\* It is so when the spans are.
LEMMA SegmentsAre ==
  ASSUME NEW d, NEW s, NEW at, NEW o, NEW parts, Divides(d.text, parts, s),
         NEW f, Places(d, f, parts, at)
  PROVE  /\ IsCut(d, f, s, at) /\ Covers(d, f, s)
         /\ PartsFit(parts, o) => AllFit(f, o)
<1>1. /\ IsList(f) /\ DOMAIN f = DOMAIN parts
      /\ \A q \in ToSet(f) : \E k \in DOMAIN parts : q = f[k] /\ q.span = parts[k]
      /\ \A k \in DOMAIN parts : f[k] \in ToSet(f)
  BY SegmentsOfParts DEF Divides, Places
<1>2. ToSet(parts) = {parts[k] : k \in DOMAIN parts}
  BY DEF ToSet
<1>3. ASSUME NEW q \in ToSet(f)
      PROVE  /\ q.span \in ToSet(parts)
             /\ d.kind = "code" => q.at = at
  BY <1>1, <1>2 DEF Places
<1>4. IsCut(d, f, s, at)
  BY <1>1, <1>3 DEF IsCut, Divides
<1>5. Covers(d, f, s)
  <2> SUFFICES ASSUME NEW i \in Span(s) \ Blank(d.text)
               PROVE  \E q \in ToSet(f) : i \in Span(q.span)
    BY DEF Covers
  <2>1. PICK k \in DOMAIN parts : i \in Span(parts[k])
    BY <1>2 DEF Divides
  <2> QED
    BY <1>1, <2>1 DEF Places
<1> QED
  BY <1>3, <1>4, <1>5 DEF AllFit, PartsFit

\* What is cut from the trimmed span is cut from the span.
LEMMA CutFromTrimmed ==
  ASSUME NEW d, IsText(d.text), NEW s, IsSpan(Len(d.text), s), NEW at, NEW r,
         IsCut(d, r, Trimmed(d.text, s), at)
  PROVE  /\ IsCut(d, r, s, at)
         /\ Covers(d, r, Trimmed(d.text, s)) => Covers(d, r, s)
<1>1. PICK z : z = Trimmed(d.text, s)
  OBVIOUS
<1>2. Span(z) \subseteq Span(s) /\ Span(s) \ Blank(d.text) \subseteq Span(z)
  BY <1>1, TrimmedIs
<1>3. IsCut(d, r, s, at)
  BY <1>1, <1>2 DEF IsCut
<1>4. Covers(d, r, z) => Covers(d, r, s)
  BY <1>2 DEF Covers
<1> QED
  BY <1>1, <1>3, <1>4

\* By characters they fit.
LEMMA SplitByTokensIs ==
  ASSUME NEW d, IsText(d.text), NEW s, IsSpan(Len(d.text), s), NEW at,
         NEW o, IsOptions(o)
  PROVE  LET r == SplitByTokens(d, Segment(s, at), o)
         IN IsCut(d, r, s, at) /\ Covers(d, r, s) /\ AllFit(r, o)
<1>1. PICK windows : windows = SplitByCharacterWindow(d.text, s, o)
  OBVIOUS
<1>2. Divides(d.text, windows, s) /\ PartsFit(windows, o)
  BY <1>1, CharacterWindowsAre DEF Divides, PartsFit
<1>3. Segment(s, at).span = s /\ Segment(s, at).at = at
  BY DEF Segment
<1>4. PICK f : f = SplitByTokens(d, Segment(s, at), o)
  OBVIOUS
<1>5. Places(d, f, windows, at)
  <2>1. CASE d.kind = "code"
    <3>1. f = [k \in DOMAIN windows |->
                 [Segment(windows[k], at) EXCEPT !.doc = IF k = 1 THEN None ELSE k - 1]]
      BY <1>1, <1>3, <1>4, <2>1 DEF SplitByTokens
    <3>2. ASSUME NEW k \in DOMAIN windows
          PROVE  f[k].span = windows[k] /\ f[k].at = at
      <4>1. PICK w, c, u : /\ w = windows[k] /\ u = Segment(w, at)
                           /\ c = IF k = 1 THEN None ELSE k - 1
        OBVIOUS
      <4>2. f[k] = [u EXCEPT !.doc = c]
        BY <3>1, <4>1
      <4> QED
        BY <4>1, <4>2 DEF Segment
    <3> QED
      BY <3>1, <3>2 DEF Places
  <2>2. CASE d.kind # "code"
    <3>1. f = Located(windows, at, NoTitles(windows))
      BY <1>1, <1>3, <1>4, <2>2 DEF SplitByTokens
    <3> QED
      BY <2>2, <3>1 DEF Located, Segment, Places
  <2> QED
    BY <2>1, <2>2
<1> QED
  BY <1>2, <1>4, <1>5, SegmentsAre

\* Code is cut into paragraphs or windows of lines.
LEMMA SplitCodeIs ==
  ASSUME NEW d, IsText(d.text), NEW s, IsSpan(Len(d.text), s), NEW at,
         NEW o, IsOptions(o)
  PROVE  LET r == SplitCodeContent(d.text, s, at, o)
         IN IsCut(d, r, s, at) /\ Covers(d, r, s)
<1>1. PICK paragraphs, windows, f :
        /\ paragraphs = SplitByBlankLines(d.text, s)
        /\ windows = SplitCodeByLineWindows(d.text, s, o)
        /\ f = SplitCodeContent(d.text, s, at, o)
  OBVIOUS
<1>2. CASE Len(paragraphs) > 1
  <2>1. f = [k \in DOMAIN paragraphs |-> Segment(paragraphs[k], at)]
    BY <1>1, <1>2 DEF SplitCodeContent
  <2>2. Places(d, f, paragraphs, at)
    BY <2>1 DEF Segment, Places
  <2>3. Divides(d.text, paragraphs, s)
    BY <1>1, SectionsAre DEF Divides
  <2> QED
    BY <1>1, <2>2, <2>3, SegmentsAre
<1>3. CASE ~(Len(paragraphs) > 1)
  <2>1. f = [k \in DOMAIN windows |-> Segment(windows[k].span, at)]
    BY <1>1, <1>3 DEF SplitCodeContent
  <2>2. /\ IsList(windows)
        /\ \A w \in ToSet(windows) : IsWindow(d.text, s, w)
        /\ \A p \in Span(s) \ Blank(d.text) :
             \E w \in ToSet(windows) : p \in Span(w.span)
    BY <1>1, LineWindowsAre
  <2>3. PICK n \in Nat : n = Len(windows) /\ DOMAIN windows = 1..n
    BY <2>2 DEF IsList
  <2>4. PICK spans : spans = [k \in 1..n |-> windows[k].span]
    OBVIOUS
  <2>5. /\ IsList(spans) /\ DOMAIN spans = 1..n
        /\ ToSet(spans) = {spans[k] : k \in 1..n}
    <3>1. spans = [k \in 1..n |-> spans[k]]
      BY <2>4
    <3> QED
      BY <3>1, ListIs
  <2>6. ToSet(windows) = {windows[k] : k \in 1..n}
    BY <2>3 DEF ToSet
  <2>7. \A w \in ToSet(windows) : Tight(d.text, w.span) /\ Span(w.span) \subseteq Span(s)
    BY <2>2 DEF IsWindow
  <2>8. \A p \in ToSet(spans) : Tight(d.text, p) /\ Span(p) \subseteq Span(s)
    BY <2>4, <2>5, <2>6, <2>7
  <2>9. \A i \in Span(s) \ Blank(d.text) : \E p \in ToSet(spans) : i \in Span(p)
    BY <2>2, <2>4, <2>5, <2>6
  <2>10. Places(d, f, spans, at)
    BY <2>1, <2>3, <2>4, <2>5 DEF Segment, Places
  <2>11. Divides(d.text, spans, s)
    BY <2>5, <2>8, <2>9 DEF Divides
  <2> QED
    BY <1>1, <2>10, <2>11, SegmentsAre
<1> QED
  BY <1>2, <1>3

\* A doc is cut into sections, paragraphs or windows of characters.
LEMMA SplitDocIs ==
  ASSUME NEW d, d.kind # "code", IsText(d.text), NEW s, IsSpan(Len(d.text), s),
         NEW at, NEW o, IsOptions(o)
  PROVE  LET r == SplitDocContent(d.text, s, at, o)
         IN IsCut(d, r, s, at) /\ Covers(d, r, s)
<1>1. PICK sections, paragraphs, windows, f :
        /\ sections = SplitMarkdownSections(d.text, s)
        /\ paragraphs = SplitByBlankLines(d.text, s)
        /\ windows = SplitByCharacterWindow(d.text, s, o)
        /\ f = SplitDocContent(d.text, s, at, o)
  OBVIOUS
<1>2. PICK parts, titles :
        /\ parts = sections \/ parts = paragraphs \/ parts = windows
        /\ f = Located(parts, at, titles)
  <2>1. CASE Len(sections) > 1
    <3>1. f = Located(sections, at, Titles(d.text, sections))
      BY <1>1, <2>1 DEF SplitDocContent
    <3> QED
      BY <3>1
  <2>2. CASE ~(Len(sections) > 1)
    <3>1. PICK parts : parts = IF Len(paragraphs) > 1 THEN paragraphs ELSE windows
      OBVIOUS
    <3>2. f = Located(parts, at, NoTitles(parts))
      BY <1>1, <2>2, <3>1 DEF SplitDocContent
    <3>3. parts = paragraphs \/ parts = windows
      BY <3>1
    <3> QED
      BY <3>2, <3>3
  <2> QED
    BY <2>1, <2>2
<1>3. Places(d, f, parts, at)
  BY <1>2 DEF Located, Segment, Places
<1>4. Divides(d.text, parts, s)
  <2>1. CASE parts = windows
    BY <1>1, <2>1, CharacterWindowsAre DEF Divides
  <2>2. CASE parts # windows
    <3>1. parts \in {SplitMarkdownSections(d.text, s), SplitByBlankLines(d.text, s)}
      BY <1>1, <1>2, <2>2
    <3> QED
      BY <3>1, SectionsAre DEF Divides
  <2> QED
    BY <2>1, <2>2
<1> QED
  BY <1>1, <1>3, <1>4, SegmentsAre

\* A segment is cut without a loss, unless it is skipped, and at the last depth
\* into segments that fit.
LEMMA SplitOnceIs ==
  ASSUME NEW d, d.kind \in {"code", "doc"}, IsText(d.text),
         NEW segment, IsSpan(Len(d.text), segment.span),
         NEW depth \in Nat, NEW o, IsOptions(o)
  PROVE  LET r == SplitOnce(d, segment, depth, o)
         IN /\ IsCut(d, r, segment.span, segment.at)
            /\ depth >= o.depth => AllFit(r, o)
            /\ o.policy # "skip" => Covers(d, r, segment.span)
<1>1. PICK s, at, f : /\ s = Trimmed(d.text, segment.span) /\ at = segment.at
                      /\ f = SplitOnce(d, segment, depth, o)
  OBVIOUS
<1>2. IsSpan(Len(d.text), s) /\ (~Empty(s) => Tight(d.text, s))
  BY <1>1, TrimmedIs
<1>3. PICK n : n = Len(d.text) /\ n \in Nat
  BY DEF IsText
<1>4. PICK z \in Nat : z = Size(s)
  BY <1>2, <1>3, SpanIs
<1>5. o.max \in Nat /\ o.depth \in Nat
  BY DEF IsOptions
<1>6. SUFFICES /\ IsCut(d, f, s, at)
               /\ depth >= o.depth => AllFit(f, o)
               /\ o.policy # "skip" => Covers(d, f, s)
  BY <1>1, CutFromTrimmed
<1>7. CASE Empty(s)
  <2>1. f = <<>>
    BY <1>1, <1>7 DEF SplitOnce
  <2>2. Span(s) = {}
    BY <1>2, <1>3, <1>7, SpanIs
  <2> QED
    BY <2>1, <2>2, ShortLists DEF IsCut, Covers, AllFit
<1>8. CASE ~Empty(s) /\ 2 * z <= o.max
  <2>1. PICK q : q = Segment(s, at)
    OBVIOUS
  <2>2. f = <<q>> /\ q.span = s /\ q.at = at
    <3>1. 2 * Size(s) <= o.max /\ ~(2 * Size(s) > o.max)
      BY <1>4, <1>5, <1>8
    <3>2. f = <<q>>
      BY <1>1, <1>8, <2>1, <3>1, Zenon DEF SplitOnce
    <3> QED
      BY <2>1, <3>2 DEF Segment
  <2>3. IsList(f) /\ ToSet(f) = {q}
    BY <2>2, ShortLists
  <2>4. Fits(o, s)
    BY <1>4, <1>5, <1>8 DEF Fits
  <2> QED
    BY <1>2, <1>8, <2>2, <2>3, <2>4 DEF IsCut, Covers, AllFit
<1>9. CASE ~Empty(s) /\ 2 * z > o.max
  <2>1. f = CASE o.policy = "skip" -> <<>>
              [] o.policy # "skip" /\ depth >= o.depth ->
                   SplitByTokens(d, Segment(s, at), o)
              [] OTHER -> IF d.kind = "code"
                          THEN SplitCodeContent(d.text, s, at, o)
                          ELSE SplitDocContent(d.text, s, at, o)
    <3>1. 2 * Size(s) > o.max /\ ~(2 * Size(s) <= o.max)
      BY <1>4, <1>5, <1>9
    <3> QED
      BY <1>1, <1>9, <3>1, Zenon DEF SplitOnce
  <2>2. CASE o.policy = "skip"
    <3>1. f = <<>>
      BY <2>1, <2>2
    <3> QED
      BY <2>2, <3>1, ShortLists DEF IsCut, AllFit
  <2>3. CASE o.policy # "skip" /\ depth >= o.depth
    <3>1. f = SplitByTokens(d, Segment(s, at), o)
      BY <2>1, <2>3
    <3> QED
      BY <1>2, <3>1, SplitByTokensIs
  <2>4. CASE o.policy # "skip" /\ ~(depth >= o.depth)
    <3>1. f = IF d.kind = "code" THEN SplitCodeContent(d.text, s, at, o)
              ELSE SplitDocContent(d.text, s, at, o)
      BY <2>1, <2>4
    <3>2. IsCut(d, f, s, at) /\ Covers(d, f, s)
      BY <1>2, <3>1, SplitCodeIs, SplitDocIs
    <3> QED
      BY <2>4, <3>2
  <2> QED
    BY <2>2, <2>3, <2>4
<1> QED
  BY <1>4, <1>5, <1>7, <1>8, <1>9

-----------------------------------------------------------------------------
(* What comes to the windows of characters *)

\* A segment before the round of this depth: the first round has left what fits
\* and paragraphs of code, the second one what fits and its lines.
Short(s, o) == 2 * Size(s) <= o.max
Leveled(d, q, o, depth) ==
  /\ q.doc = None
  /\ d.kind = "code" =>
       \/ Short(q.span, o)
       \/ /\ depth >= 1 => OneParagraph(d.text, q.span)
          /\ depth >= 2 => OneLine(d.text, q.span)

\* After the last round the search takes it, or it is of what could not be cut.
Explained(d, q, o) ==
  q.doc # None =>
    \E s \in (DOMAIN d.text) \X (DOMAIN d.text) :
      Span(q.span) \subseteq Span(s) /\ Uncut(d.text, s, o)

\* Paragraphs and windows of lines have no second location, and are what the
\* rounds are to leave.
LEMMA CodeIsLeveled ==
  ASSUME NEW d, IsText(d.text), NEW s, IsSpan(Len(d.text), s), NEW at,
         NEW o, IsOptions(o),
         NEW q \in ToSet(SplitCodeContent(d.text, s, at, o))
  PROVE  /\ q.doc = None
         /\ Short(q.span, o) \/ OneParagraph(d.text, q.span)
         /\ OneParagraph(d.text, s) =>
              Short(q.span, o) \/ OneLine(d.text, q.span)
<1>1. PICK paragraphs, windows, f :
        /\ paragraphs = SplitByBlankLines(d.text, s)
        /\ windows = SplitCodeByLineWindows(d.text, s, o)
        /\ f = SplitCodeContent(d.text, s, at, o)
  OBVIOUS
<1>2. CASE Len(paragraphs) > 1
  <2>1. f = [k \in DOMAIN paragraphs |-> Segment(paragraphs[k], at)]
    BY <1>1, <1>2 DEF SplitCodeContent
  <2>2. PICK k \in DOMAIN paragraphs : q = Segment(paragraphs[k], at)
    BY <1>1, <2>1 DEF ToSet
  <2>3. q.doc = None /\ q.span = paragraphs[k]
    BY <2>2 DEF Segment
  <2>4. paragraphs[k] \in ToSet(paragraphs)
    BY DEF ToSet
  <2>5. OneParagraph(d.text, q.span)
    BY <1>1, <2>3, <2>4, ParagraphsAreOne
  <2>6. ~OneParagraph(d.text, s)
    BY <1>1, <1>2, OneIsNotDivided
  <2> QED
    BY <2>3, <2>5, <2>6
<1>3. CASE ~(Len(paragraphs) > 1)
  <2>1. f = [k \in DOMAIN windows |-> Segment(windows[k].span, at)]
    BY <1>1, <1>3 DEF SplitCodeContent
  <2>2. PICK k \in DOMAIN windows : q = Segment(windows[k].span, at)
    BY <1>1, <2>1 DEF ToSet
  <2>3. PICK w : w = windows[k] /\ w \in ToSet(windows)
    BY DEF ToSet
  <2>4. q.doc = None /\ q.span = w.span
    BY <2>2, <2>3 DEF Segment
  <2>5. o.max \in Nat
    BY DEF IsOptions
  <2>6. Short(w.span, o) \/ OneLine(d.text, w.span)
    BY <1>1, <2>3, <2>5, WindowsAreShort DEF Short
  <2>7. IsSpan(Len(d.text), w.span)
    <3>1. IsWindow(d.text, s, w)
      BY <1>1, <2>3, LineWindowsAre
    <3> QED
      BY <3>1 DEF IsWindow, Tight
  <2>8. OneLine(d.text, w.span) => OneParagraph(d.text, w.span)
    BY <2>7, WithinOne
  <2> QED
    BY <2>4, <2>6, <2>8
<1> QED
  BY <1>2, <1>3

\* The parts of a doc have no second location.
LEMMA DocHasOnePlace ==
  ASSUME NEW d, NEW s, NEW at, NEW o,
         NEW q \in ToSet(SplitDocContent(d.text, s, at, o))
  PROVE  q.doc = None
<1>1. PICK parts, titles : SplitDocContent(d.text, s, at, o) = Located(parts, at, titles)
  <2>1. PICK sections, paragraphs, windows :
          /\ sections = SplitMarkdownSections(d.text, s)
          /\ paragraphs = SplitByBlankLines(d.text, s)
          /\ windows = SplitByCharacterWindow(d.text, s, o)
    OBVIOUS
  <2>2. CASE Len(sections) > 1
    <3>1. SplitDocContent(d.text, s, at, o)
            = Located(sections, at, Titles(d.text, sections))
      BY <2>1, <2>2 DEF SplitDocContent
    <3> QED
      BY <3>1
  <2>3. CASE ~(Len(sections) > 1)
    <3>1. PICK parts : parts = IF Len(paragraphs) > 1 THEN paragraphs ELSE windows
      OBVIOUS
    <3>2. SplitDocContent(d.text, s, at, o) = Located(parts, at, NoTitles(parts))
      BY <2>1, <2>3, <3>1 DEF SplitDocContent
    <3> QED
      BY <3>2
  <2> QED
    BY <2>2, <2>3
<1>2. PICK k \in DOMAIN parts :
        q = Segment(parts[k], AugmentDocLocation(at, k - 1, titles[k]))
  BY <1>1 DEF Located, ToSet
<1> QED
  BY <1>2 DEF Segment

\* A round brings a segment to the next level; the last one leaves what is
\* explained.
LEMMA SplitOnceLevels ==
  ASSUME NEW d, d.kind \in {"code", "doc"}, IsText(d.text),
         NEW segment, IsSpan(Len(d.text), segment.span),
         NEW depth \in Nat, NEW o, IsOptions(o), Leveled(d, segment, o, depth),
         NEW q \in ToSet(SplitOnce(d, segment, depth, o))
  PROVE  /\ depth < o.depth => Leveled(d, q, o, depth + 1)
         /\ Explained(d, q, o)
<1>1. PICK s, at, f : /\ s = Trimmed(d.text, segment.span) /\ at = segment.at
                      /\ f = SplitOnce(d, segment, depth, o)
  OBVIOUS
<1>2. /\ IsSpan(Len(d.text), s) /\ (~Empty(s) => Tight(d.text, s))
      /\ Span(s) \subseteq Span(segment.span) /\ Size(s) <= Size(segment.span)
  BY <1>1, TrimmedIs
<1>3. PICK n : n = Len(d.text) /\ n \in Nat /\ DOMAIN d.text = 1..n
  BY DEF IsText
<1>4. PICK z \in Nat, y \in Nat : z = Size(s) /\ y = Size(segment.span) /\ z <= y
  BY <1>2, <1>3, SpanIs
<1>5. o.max \in Nat /\ o.depth \in Nat
  BY DEF IsOptions
<1>6. SUFFICES ASSUME ~Empty(s)
               PROVE  /\ depth < o.depth => Leveled(d, q, o, depth + 1)
                      /\ Explained(d, q, o)
  <2>1. ASSUME Empty(s) PROVE FALSE
    <3>1. f = <<>>
      BY <1>1, <2>1 DEF SplitOnce
    <3> QED
      BY <1>1, <3>1, ShortLists
  <2> QED
    BY <2>1
<1>7. CASE 2 * z <= o.max
  <2>1. PICK u : u = Segment(s, at)
    OBVIOUS
  <2>2. f = <<u>> /\ u.span = s /\ u.doc = None
    <3>1. 2 * Size(s) <= o.max /\ ~(2 * Size(s) > o.max)
      BY <1>4, <1>5, <1>7
    <3>2. f = <<u>>
      BY <1>1, <1>6, <2>1, <3>1, Zenon DEF SplitOnce
    <3> QED
      BY <2>1, <3>2 DEF Segment
  <2>3. q = u
    BY <1>1, <2>2, ShortLists
  <2>4. Short(s, o)
    BY <1>4, <1>7 DEF Short
  <2> QED
    BY <2>2, <2>3, <2>4 DEF Leveled, Explained
<1>8. CASE 2 * z > o.max
  <2>1. f = CASE o.policy = "skip" -> <<>>
              [] o.policy # "skip" /\ depth >= o.depth ->
                   SplitByTokens(d, Segment(s, at), o)
              [] OTHER -> IF d.kind = "code"
                          THEN SplitCodeContent(d.text, s, at, o)
                          ELSE SplitDocContent(d.text, s, at, o)
    <3>1. 2 * Size(s) > o.max /\ ~(2 * Size(s) <= o.max)
      BY <1>4, <1>5, <1>8
    <3> QED
      BY <1>1, <1>6, <3>1, Zenon DEF SplitOnce
  <2>2. d.kind = "code" => /\ depth >= 1 => OneParagraph(d.text, s)
                           /\ depth >= 2 => OneLine(d.text, s)
    <3>1. ~Short(segment.span, o)
      <4>1. ~(2 * y <= o.max)
        BY <1>4, <1>5, <1>8
      <4> QED
        BY <1>4, <4>1 DEF Short
    <3>2. d.kind = "code" => /\ depth >= 1 => OneParagraph(d.text, segment.span)
                             /\ depth >= 2 => OneLine(d.text, segment.span)
      BY <3>1 DEF Leveled
    <3> QED
      BY <1>2, <3>2, PartOfOne
  <2>3. CASE o.policy = "skip"
    <3>1. f = <<>>
      BY <2>1, <2>3
    <3> QED
      BY <1>1, <3>1, ShortLists
  <2>4. CASE o.policy # "skip" /\ depth >= o.depth
    <3>1. f = SplitByTokens(d, Segment(s, at), o)
      BY <2>1, <2>4
    <3>2. Segment(s, at).span = s /\ Segment(s, at).at = at
      BY DEF Segment
    <3>3. Span(q.span) \subseteq Span(s)
      BY <1>1, <1>2, <3>1, SplitByTokensIs DEF IsCut
    <3>4. CASE d.kind = "code"
      <4>1. s \in (DOMAIN d.text) \X (DOMAIN d.text)
        <5>1. /\ s = <<s[1], s[2]>> /\ s[1] \in 1..n + 1 /\ s[2] \in 0..n
          BY <1>2, <1>3, SpanIs
        <5>2. s[1] <= s[2]
          BY <1>3, <1>6, <5>1 DEF Empty
        <5>3. s[1] \in 1..n /\ s[2] \in 1..n
          BY <1>3, <5>1, <5>2
        <5> QED
          BY <1>3, <5>1, <5>3
      <4>2. o.depth >= 2 => OneLine(d.text, s)
        BY <1>5, <2>2, <2>4, <3>4
      <4>3. Uncut(d.text, s, o)
        BY <1>4, <1>8, <4>2 DEF Uncut, OneLine
      <4>4. ~(depth < o.depth)
        BY <1>5, <2>4
      <4> QED
        BY <3>3, <4>1, <4>3, <4>4 DEF Explained
    <3>5. CASE d.kind # "code"
      <4>1. PICK windows : f = Located(windows, at, NoTitles(windows))
        BY <3>1, <3>2, <3>5 DEF SplitByTokens
      <4>2. PICK k \in DOMAIN windows :
              q = Segment(windows[k], AugmentDocLocation(at, k - 1, NoTitles(windows)[k]))
        BY <1>1, <4>1 DEF Located, ToSet
      <4>3. q.doc = None
        BY <4>2 DEF Segment
      <4> QED
        BY <3>5, <4>3 DEF Leveled, Explained
    <3> QED
      BY <3>4, <3>5
  <2>5. CASE o.policy # "skip" /\ ~(depth >= o.depth)
    <3>1. f = IF d.kind = "code" THEN SplitCodeContent(d.text, s, at, o)
              ELSE SplitDocContent(d.text, s, at, o)
      BY <2>1, <2>5
    <3>2. CASE d.kind = "code"
      <4>1. /\ q.doc = None
            /\ Short(q.span, o) \/ OneParagraph(d.text, q.span)
            /\ OneParagraph(d.text, s) =>
                 Short(q.span, o) \/ OneLine(d.text, q.span)
        <5>1. PICK r : r = SplitCodeContent(d.text, s, at, o) /\ r = f
          BY <3>1, <3>2
        <5>2. q \in ToSet(SplitCodeContent(d.text, s, at, o))
          BY <1>1, <5>1
        <5> QED
          BY <1>2, <5>2, CodeIsLeveled
      <4>2. depth + 1 >= 2 => depth >= 1
        OBVIOUS
      <4> QED
        BY <2>2, <3>2, <4>1, <4>2 DEF Leveled, Explained
    <3>3. CASE d.kind # "code"
      <4>1. q.doc = None
        BY <1>1, <3>1, <3>3, DocHasOnePlace
      <4> QED
        BY <3>3, <4>1 DEF Leveled, Explained
    <3> QED
      BY <3>2, <3>3
  <2> QED
    BY <2>3, <2>4, <2>5
<1> QED
  BY <1>4, <1>5, <1>7, <1>8

-----------------------------------------------------------------------------
(* Rounds of cutting *)

\* Segments that come from others, and hold all of them.
ComeFrom(d, r, from) ==
  /\ IsList(r)
  /\ \A q \in ToSet(r) :
       /\ IsSpan(Len(d.text), q.span)
       /\ \E g \in ToSet(from) : /\ Span(q.span) \subseteq Span(g.span)
                                 /\ d.kind = "code" => q.at = g.at
Hold(d, r, from) == \A g \in ToSet(from) : Covers(d, r, g.span)

\* They do in a further round.
LEMMA ComeFromFurther ==
  ASSUME NEW d, NEW r, NEW mid, NEW from
  PROVE  /\ ComeFrom(d, r, mid) /\ ComeFrom(d, mid, from) => ComeFrom(d, r, from)
         /\ Hold(d, r, mid) /\ Hold(d, mid, from) => Hold(d, r, from)
<1>1. ASSUME ComeFrom(d, r, mid), ComeFrom(d, mid, from) PROVE ComeFrom(d, r, from)
  <2> SUFFICES ASSUME NEW q \in ToSet(r)
               PROVE  \E g \in ToSet(from) : /\ Span(q.span) \subseteq Span(g.span)
                                             /\ d.kind = "code" => q.at = g.at
    BY <1>1 DEF ComeFrom
  <2>1. PICK m \in ToSet(mid) : /\ Span(q.span) \subseteq Span(m.span)
                                /\ d.kind = "code" => q.at = m.at
    BY <1>1 DEF ComeFrom
  <2>2. PICK g \in ToSet(from) : /\ Span(m.span) \subseteq Span(g.span)
                                 /\ d.kind = "code" => m.at = g.at
    BY <1>1 DEF ComeFrom
  <2> QED
    BY <2>1, <2>2
<1>2. ASSUME Hold(d, r, mid), Hold(d, mid, from) PROVE Hold(d, r, from)
  <2> SUFFICES ASSUME NEW g \in ToSet(from), NEW p \in Span(g.span) \ Blank(d.text)
               PROVE  \E q \in ToSet(r) : p \in Span(q.span)
    BY DEF Hold, Covers
  <2>1. PICK m \in ToSet(mid) : p \in Span(m.span)
    BY <1>2 DEF Hold, Covers
  <2> QED
    BY <1>2, <2>1 DEF Hold, Covers
<1> QED
  BY <1>1, <1>2

\* One round, and the equation by which they are defined.
Round(d, left, depth, o) ==
  FlattenSeq([k \in DOMAIN left |-> SplitOnce(d, left[k], depth, o)])
Rounds(f, d, segments, o, m) ==
  f = [n \in 0..m |-> IF n = 0 THEN segments ELSE Round(d, f[n - 1], n - 1, o)]

\* A round cuts every segment, the last one into segments that fit.
LEMMA RoundIs ==
  ASSUME NEW d, d.kind \in {"code", "doc"}, IsText(d.text), NEW left, IsList(left),
         \A q \in ToSet(left) : IsSpan(Len(d.text), q.span),
         NEW depth \in Nat, NEW o, IsOptions(o)
  PROVE  LET r == Round(d, left, depth, o)
         IN /\ ComeFrom(d, r, left)
            /\ \A q \in ToSet(r) : Tight(d.text, q.span)
            /\ depth >= o.depth => AllFit(r, o)
            /\ o.policy # "skip" => Hold(d, r, left)
<1>1. PICK n \in Nat : n = Len(left) /\ DOMAIN left = 1..n
  BY DEF IsList
<1>2. PICK f : f = [k \in 1..n |-> SplitOnce(d, left[k], depth, o)]
  OBVIOUS
<1>3. PICK r : r = Round(d, left, depth, o) /\ r = FlattenSeq(f)
  BY <1>1, <1>2 DEF Round
<1>4. ToSet(left) = {left[k] : k \in 1..n}
  BY <1>1 DEF ToSet
<1>5. ASSUME NEW k \in 1..n
      PROVE  /\ IsCut(d, f[k], left[k].span, left[k].at)
             /\ depth >= o.depth => AllFit(f[k], o)
             /\ o.policy # "skip" => Covers(d, f[k], left[k].span)
  <2>1. PICK q : q = left[k] /\ IsSpan(Len(d.text), q.span)
    BY <1>4
  <2>2. PICK u : u = SplitOnce(d, q, depth, o) /\ u = f[k]
    BY <1>2, <2>1
  <2>3. /\ IsCut(d, u, q.span, q.at)
        /\ depth >= o.depth => AllFit(u, o)
        /\ o.policy # "skip" => Covers(d, u, q.span)
    <3>1. IsSpan(Len(d.text), q.span) /\ d.kind \in {"code", "doc"}
      BY <2>1
    <3>2. LET v == SplitOnce(d, q, depth, o)
          IN /\ IsCut(d, v, q.span, q.at)
             /\ depth >= o.depth => AllFit(v, o)
             /\ o.policy # "skip" => Covers(d, v, q.span)
      BY <3>1, SplitOnceIs
    <3> QED
      BY <2>2, <3>2
  <2> QED
    BY <2>1, <2>2, <2>3
<1>6. Len(f) = n /\ DOMAIN f = 1..n
  <2>1. f = [k \in 1..n |-> f[k]]
    BY <1>2
  <2> QED
    BY <2>1, ListIs
<1>7. \A k \in 1..n : IsList(f[k])
  BY <1>5 DEF IsCut
<1>8. IsList(r) /\ ToSet(r) = UNION {ToSet(f[k]) : k \in 1..n}
  BY <1>3, <1>6, <1>7, FlattenIs
<1>9. ASSUME NEW q \in ToSet(r)
      PROVE  \E k \in 1..n : q \in ToSet(f[k])
  BY <1>8
<1>10. ASSUME NEW q \in ToSet(r)
       PROVE  /\ Tight(d.text, q.span) /\ IsSpan(Len(d.text), q.span)
              /\ \E g \in ToSet(left) : /\ Span(q.span) \subseteq Span(g.span)
                                        /\ d.kind = "code" => q.at = g.at
  <2>1. PICK k \in 1..n : q \in ToSet(f[k])
    BY <1>9
  <2>2. /\ Tight(d.text, q.span) /\ Span(q.span) \subseteq Span(left[k].span)
        /\ d.kind = "code" => q.at = left[k].at
    BY <1>5, <2>1 DEF IsCut
  <2>3. left[k] \in ToSet(left)
    BY <1>4
  <2>4. IsSpan(Len(d.text), q.span)
    BY <2>2 DEF Tight
  <2> QED
    BY <2>2, <2>3, <2>4
<1>11. ASSUME depth >= o.depth PROVE AllFit(r, o)
  <2> SUFFICES ASSUME NEW q \in ToSet(r) PROVE Fits(o, q.span)
    BY DEF AllFit
  <2>1. PICK k \in 1..n : q \in ToSet(f[k])
    BY <1>9
  <2> QED
    BY <1>5, <1>11, <2>1 DEF AllFit
<1>12. ASSUME o.policy # "skip" PROVE Hold(d, r, left)
  <2> SUFFICES ASSUME NEW k \in 1..n, NEW p \in Span(left[k].span) \ Blank(d.text)
               PROVE  \E q \in ToSet(r) : p \in Span(q.span)
    BY <1>4 DEF Hold, Covers
  <2>1. PICK q \in ToSet(f[k]) : p \in Span(q.span)
    BY <1>5, <1>12 DEF Covers
  <2>2. q \in ToSet(r)
    BY <1>8
  <2> QED
    BY <2>1, <2>2
<1> QED
  BY <1>3, <1>8, <1>10, <1>11, <1>12 DEF ComeFrom

\* A round brings all segments to the next level.
LEMMA RoundLevels ==
  ASSUME NEW d, d.kind \in {"code", "doc"}, IsText(d.text), NEW left, IsList(left),
         NEW depth \in Nat, NEW o, IsOptions(o),
         \A q \in ToSet(left) : /\ IsSpan(Len(d.text), q.span)
                                /\ Leveled(d, q, o, depth),
         NEW q \in ToSet(Round(d, left, depth, o))
  PROVE  /\ depth < o.depth => Leveled(d, q, o, depth + 1)
         /\ Explained(d, q, o)
<1>1. PICK n \in Nat : n = Len(left) /\ DOMAIN left = 1..n
  BY DEF IsList
<1>2. PICK f : f = [k \in 1..n |-> SplitOnce(d, left[k], depth, o)]
  OBVIOUS
<1>3. Round(d, left, depth, o) = FlattenSeq(f)
  BY <1>1, <1>2 DEF Round
<1>4. \A k \in 1..n : left[k] \in ToSet(left)
  BY <1>1 DEF ToSet
<1>5. ASSUME NEW k \in 1..n PROVE IsList(f[k])
  <2>1. PICK p : p = left[k] /\ IsSpan(Len(d.text), p.span)
    BY <1>4
  <2>2. f[k] = SplitOnce(d, p, depth, o)
    BY <1>2, <2>1
  <2> QED
    BY <2>1, <2>2, SplitOnceIs DEF IsCut
<1>6. Len(f) = n /\ DOMAIN f = 1..n
  <2>1. f = [k \in 1..n |-> f[k]]
    BY <1>2
  <2> QED
    BY <2>1, ListIs
<1>7. ToSet(FlattenSeq(f)) = UNION {ToSet(f[k]) : k \in 1..n}
  BY <1>5, <1>6, FlattenIs
<1>8. PICK k \in 1..n : q \in ToSet(f[k])
  BY <1>3, <1>7
<1>9. PICK p : p = left[k] /\ IsSpan(Len(d.text), p.span) /\ Leveled(d, p, o, depth)
  BY <1>4
<1>10. q \in ToSet(SplitOnce(d, p, depth, o))
  BY <1>2, <1>8, <1>9
<1> QED
  BY <1>9, <1>10, SplitOnceLevels

\* The equation has a solution.
LEMMA RoundsExist ==
  ASSUME NEW d, NEW segments, NEW o, NEW size \in Nat
  PROVE  \E f : Rounds(f, d, segments, o, size)
<1> DEFINE Has(m) == \E f : Rounds(f, d, segments, o, m)
           T == {m \in Nat : ~Has(m)}
<1>1. SUFFICES ASSUME T # {} PROVE FALSE
  OBVIOUS
<1>2. PICK m \in T : \A k \in T : m <= k
  <2>1. T \in SUBSET Nat
    OBVIOUS
  <2> HIDE DEF T
  <2> QED
    BY <1>1, <2>1, LeastNumber
<1>3. m \in Nat /\ ~Has(m)
  BY <1>2
<1>4. CASE m = 0
  <2> DEFINE f == [n \in 0..0 |-> segments]
  <2>1. Rounds(f, d, segments, o, 0)
    BY DEF Rounds
  <2> QED
    BY <1>3, <1>4, <2>1
<1>5. CASE m # 0
  <2>1. m - 1 \in Nat
    BY <1>3, <1>5
  <2>2. Has(m - 1)
    <3>1. m - 1 \notin T
      <4> HIDE DEF T
      <4> QED
        BY <1>2, <1>3
    <3> QED
      BY <2>1, <3>1
  <2>3. PICK g : Rounds(g, d, segments, o, m - 1)
    BY <2>2
  <2> DEFINE f == [n \in 0..m |-> IF n = m THEN Round(d, g[m - 1], m - 1, o) ELSE g[n]]
  <2> HIDE DEF Has, T
  <2>4. \A n \in 0..(m - 1) :
          g[n] = IF n = 0 THEN segments ELSE Round(d, g[n - 1], n - 1, o)
    BY <2>3 DEF Rounds
  <2>5. \A n \in 0..m :
          f[n] = IF n = 0 THEN segments ELSE Round(d, f[n - 1], n - 1, o)
    <3> SUFFICES ASSUME NEW n \in 0..m
                 PROVE  f[n] = IF n = 0 THEN segments ELSE Round(d, f[n - 1], n - 1, o)
      OBVIOUS
    <3>1. \A k \in 0..m : f[k] = IF k = m THEN Round(d, g[m - 1], m - 1, o) ELSE g[k]
      OBVIOUS
    <3> HIDE DEF f
    <3>2. CASE n = m
      <4>1. m - 1 \in 0..m /\ m - 1 # m
        BY <1>3, <1>5
      <4> QED
        BY <1>5, <3>1, <3>2, <4>1
    <3>3. CASE n # m
      <4>1. n \in 0..(m - 1) /\ (n # 0 => n - 1 \in 0..m /\ n - 1 # m)
        BY <1>3, <3>3
      <4> QED
        BY <2>4, <3>1, <3>3, <4>1
    <3> QED
      BY <3>2, <3>3
  <2>6. f = [n \in 0..m |-> f[n]]
    OBVIOUS
  <2> HIDE DEF f
  <2>7. Rounds(f, d, segments, o, m)
    BY <2>5, <2>6 DEF Rounds
  <2> QED
    BY <1>3, <2>7 DEF Has
<1> QED
  BY <1>4, <1>5

\* After the last round the segments fit, come from those at first, and hold
\* all of them.
LEMMA SplitSegmentsIs ==
  ASSUME NEW d, d.kind \in {"code", "doc"}, IsText(d.text),
         NEW segments, IsList(segments),
         \A q \in ToSet(segments) : IsSpan(Len(d.text), q.span) /\ q.doc = None,
         NEW o, IsOptions(o)
  PROVE  LET r == SplitSegments(d, segments, o)
         IN /\ ComeFrom(d, r, segments)
            /\ \A q \in ToSet(r) : Tight(d.text, q.span) /\ Explained(d, q, o)
            /\ AllFit(r, o)
            /\ o.policy # "skip" => Hold(d, r, segments)
<1>1. PICK m \in Nat : m = o.depth
  BY DEF IsOptions
<1> DEFINE g == CHOOSE f : Rounds(f, d, segments, o, m + 1)
<1>2. Rounds(g, d, segments, o, m + 1)
  BY RoundsExist
<1>3. SplitSegments(d, segments, o) = g[m + 1]
  BY <1>1 DEF SplitSegments, Rounds, Round
<1> HIDE DEF g
<1>4. \A n \in 0..m + 1 :
        g[n] = IF n = 0 THEN segments ELSE Round(d, g[n - 1], n - 1, o)
  BY <1>2 DEF Rounds
<1> DEFINE Good(n) == /\ ComeFrom(d, g[n], segments)
                      /\ o.policy # "skip" => Hold(d, g[n], segments)
                      /\ n <= m => \A q \in ToSet(g[n]) : Leveled(d, q, o, n)
           T == {n \in 0..m + 1 : ~Good(n)}
<1>5. ASSUME NEW n \in 0..m, Good(n)
      PROVE  /\ Good(n + 1)
             /\ \A q \in ToSet(g[n + 1]) : Tight(d.text, q.span) /\ Explained(d, q, o)
             /\ n = m => AllFit(g[n + 1], o)
  <2>1. PICK left, r : left = g[n] /\ r = g[n + 1]
    OBVIOUS
  <2>2. n + 1 \in 0..m + 1 /\ n + 1 # 0 /\ (n + 1) - 1 = n /\ n \in Nat
    OBVIOUS
  <2>3. r = Round(d, left, n, o)
    BY <1>4, <2>1, <2>2
  <2>4. /\ IsList(left) /\ \A q \in ToSet(left) : IsSpan(Len(d.text), q.span)
    BY <1>5, <2>1 DEF ComeFrom
  <2>5. /\ ComeFrom(d, r, left)
        /\ \A q \in ToSet(r) : Tight(d.text, q.span)
        /\ n >= o.depth => AllFit(r, o)
        /\ o.policy # "skip" => Hold(d, r, left)
    BY <2>2, <2>3, <2>4, RoundIs
  <2>6. n = m => n >= o.depth
    BY <1>1
  <2>7. ComeFrom(d, r, segments)
    BY <1>5, <2>1, <2>5, ComeFromFurther
  <2>8. o.policy # "skip" => Hold(d, r, segments)
    BY <1>5, <2>1, <2>5, ComeFromFurther
  <2>9. \A q \in ToSet(left) : IsSpan(Len(d.text), q.span) /\ Leveled(d, q, o, n)
    BY <1>5, <2>1, <2>4
  <2>10. ASSUME NEW q \in ToSet(r)
         PROVE  /\ n < o.depth => Leveled(d, q, o, n + 1)
                /\ Explained(d, q, o)
    <3>1. q \in ToSet(Round(d, left, n, o))
      BY <2>3
    <3> QED
      BY <2>2, <2>4, <2>9, <3>1, RoundLevels
  <2>11. n + 1 <= m => n < o.depth
    BY <1>1, <2>2
  <2>12. n + 1 <= m => \A q \in ToSet(r) : Leveled(d, q, o, n + 1)
    BY <2>10, <2>11
  <2>13. \A q \in ToSet(r) : Explained(d, q, o)
    BY <2>10
  <2> QED
    BY <2>1, <2>5, <2>6, <2>7, <2>8, <2>12, <2>13
<1>6. Good(0)
  <2>1. g[0] = segments
    BY <1>4
  <2>2. ComeFrom(d, segments, segments)
    BY DEF ComeFrom
  <2>3. Hold(d, segments, segments)
    BY DEF Hold, Covers
  <2>4. \A q \in ToSet(segments) : Leveled(d, q, o, 0)
    BY DEF Leveled
  <2> QED
    BY <2>1, <2>2, <2>3, <2>4
<1>7. ASSUME T # {} PROVE FALSE
  <2>1. PICK k \in T : \A j \in T : k <= j
    <3>1. T \in SUBSET Nat
      OBVIOUS
    <3> HIDE DEF T
    <3> QED
      BY <1>7, <3>1, LeastNumber
  <2>2. k \in 0..m + 1 /\ ~Good(k)
    BY <2>1
  <2>3. k # 0
    BY <1>6, <2>2
  <2>4. k - 1 \in 0..m + 1 /\ k - 1 \in 0..m /\ (k - 1) + 1 = k /\ ~(k <= k - 1)
    BY <2>2, <2>3
  <2>5. k - 1 \notin T
    <3> HIDE DEF T
    <3> QED
      BY <2>1, <2>4
  <2>6. Good(k - 1)
    BY <2>4, <2>5
  <2> HIDE DEF Good
  <2>7. Good((k - 1) + 1)
    BY <1>5, <2>4, <2>6
  <2> QED
    BY <2>2, <2>4, <2>7
<1>8. m \in 0..m /\ m \in 0..m + 1
  OBVIOUS
<1>9. Good(m)
  BY <1>7, <1>8
<1>10. /\ Good(m + 1) /\ AllFit(g[m + 1], o)
       /\ \A q \in ToSet(g[m + 1]) : Tight(d.text, q.span) /\ Explained(d, q, o)
  <2> HIDE DEF Good
  <2> QED
    BY <1>5, <1>8, <1>9
<1> QED
  BY <1>3, <1>10

-----------------------------------------------------------------------------
(* Documents and settings *)

\* Normalized options are options.
LEMMA SettingIs ==
  ASSUME NEW options \in Settings
  PROVE  IsOptions(NormalizeChunkingOptions(options))
<1>1. /\ options.context \in Nat /\ options.margin \in Nat /\ options.tokens \in Nat
      /\ options.overlap \in Nat /\ options.depth \in Nat
      /\ DefaultContext \in Nat \ {0}
  BY SettingsAssumption
<1>2. PICK context : context = IF options.context = None THEN DefaultContext
                               ELSE options.context
  OBVIOUS
<1>3. context \in Nat \ {0} /\ context - 1 \in Nat
  BY <1>1, <1>2 DEF None
<1>4. PICK margin : margin = Min({options.margin, context - 1})
  OBVIOUS
<1>5. margin \in Nat /\ margin <= context - 1
  <2>1. PICK x \in Int, y \in Int : x = options.margin /\ y = context - 1
    BY <1>1, <1>3
  <2>2. margin = Min({x, y})
    BY <1>4, <2>1
  <2>3. margin = IF x <= y THEN x ELSE y
    BY <2>2, PairIs
  <2> QED
    BY <1>1, <1>3, <2>1, <2>3
<1>6. PICK tokens : tokens = IF options.tokens = None THEN Max({1, context - margin})
                             ELSE options.tokens
  OBVIOUS
<1>7. tokens \in Nat \ {0}
  <2>1. CASE options.tokens = None
    <3>1. PICK x \in Int, y \in Int : x = 1 /\ y = context - margin
      BY <1>3, <1>5
    <3>2. tokens = Max({x, y})
      BY <1>6, <2>1, <3>1
    <3> QED
      BY <1>3, <1>5, <3>1, <3>2, PairIs
  <2>2. CASE options.tokens # None
    BY <1>1, <1>6, <2>2 DEF None
  <2> QED
    BY <2>1, <2>2
<1>8. PICK least : least = Max({0, tokens - 1})
  OBVIOUS
<1>9. least \in Nat
  <2>1. PICK x \in Int, y \in Int : x = 0 /\ y = tokens - 1
    BY <1>7
  <2>2. least = Max({x, y})
    BY <1>8, <2>1
  <2> QED
    BY <1>7, <2>1, <2>2, PairIs
<1>10. PICK overlap : overlap = Min({options.overlap, least})
  OBVIOUS
<1>11. overlap \in Nat
  <2>1. PICK x \in Int, y \in Int : x = options.overlap /\ y = least
    BY <1>1, <1>9
  <2>2. overlap = Min({x, y})
    BY <1>10, <2>1
  <2> QED
    BY <1>1, <1>9, <2>1, <2>2, PairIs
<1>12. PICK max : max = Max({2, 5 * tokens})
  OBVIOUS
<1>13. max \in Nat /\ max >= 2
  <2>1. PICK x \in Int, y \in Int : x = 2 /\ y = 5 * tokens
    BY <1>7
  <2>2. max = Max({x, y})
    BY <1>12, <2>1
  <2> QED
    BY <1>7, <2>1, <2>2, PairIs
<1>14. PICK o : /\ o = NormalizeChunkingOptions(options)
                /\ o = [max |-> max, overlap |-> 5 * overlap,
                        depth |-> options.depth, policy |-> options.policy]
  BY <1>2, <1>4, <1>6, <1>8, <1>10, <1>12 DEF NormalizeChunkingOptions
<1>15. o.max = max /\ o.overlap = 5 * overlap /\ o.depth = options.depth
  BY <1>14
<1>16. 5 * overlap \in Nat
  BY <1>11
<1> QED
  BY <1>1, <1>13, <1>14, <1>15, <1>16 DEF IsOptions

\* A document has a text and declarations in it.
LEMMA DocumentIs ==
  ASSUME NEW d \in Documents
  PROVE  /\ d.kind \in {"code", "doc"} /\ IsText(d.text)
         /\ Len(d.text) \in Nat /\ DOMAIN d.text = 1..Len(d.text)
         /\ IsSpan(Len(d.text), All(d.text)) /\ Span(All(d.text)) = DOMAIN d.text
         /\ Len(d.declared) \in Nat /\ DOMAIN d.declared = 1..Len(d.declared)
         /\ \A k \in DOMAIN d.declared :
              /\ IsSpan(Len(d.text), d.declared[k])
              /\ d.declared[k][1] \in 1..Len(d.text)
              /\ d.declared[k][2] \in 1..Len(d.text)
              /\ d.declared[k][1] <= d.declared[k][2]
<1> DEFINE S == {s \in (DOMAIN d.text) \X (DOMAIN d.text) : s[1] <= s[2]}
<1>1. /\ d.kind \in {"code", "doc"} /\ d.text \in Seq(Character)
      /\ d.declared \in Seq(S)
  BY ChunkAssumption
<1>2. Len(d.text) \in Nat /\ DOMAIN d.text = 1..Len(d.text)
  BY <1>1
<1>3. PICK n \in Nat : n = Len(d.text)
  BY <1>2
<1>4. All(d.text) = <<1, n>>
  BY <1>3 DEF All
<1>5. IsSpan(n, All(d.text)) /\ Span(All(d.text)) = 1..n
  <2>1. PICK x : x = <<1, n>>
    OBVIOUS
  <2>2. x[1] = 1 /\ x[2] = n
    BY <2>1
  <2>3. Span(x) = 1..n
    BY <2>2 DEF Span
  <2>4. IsSpan(n, x)
    <3>1. 1 \in 1..n + 1 /\ n \in 0..n /\ 1 <= n + 1
      OBVIOUS
    <3> QED
      BY <2>1, <3>1 DEF IsSpan
  <2> QED
    BY <1>4, <2>1, <2>3, <2>4
<1>6. ASSUME NEW s \in S
      PROVE  /\ IsSpan(n, s) /\ s[1] \in 1..n /\ s[2] \in 1..n /\ s[1] <= s[2]
  <2>1. PICK a \in 1..n, b \in 1..n : s = <<a, b>> /\ s[1] <= s[2]
    BY <1>2, <1>3
  <2>2. s[1] = a /\ s[2] = b
    BY <2>1
  <2>3. a \in 1..n + 1 /\ b \in 0..n /\ a <= b + 1
    BY <2>1, <2>2
  <2> QED
    BY <2>1, <2>2, <2>3 DEF IsSpan
<1> HIDE DEF S
<1>7. /\ Len(d.declared) \in Nat /\ DOMAIN d.declared = 1..Len(d.declared)
      /\ \A k \in DOMAIN d.declared : d.declared[k] \in S
  BY <1>1
<1> QED
  BY <1>1, <1>2, <1>3, <1>5, <1>6, <1>7 DEF IsText

-----------------------------------------------------------------------------
(* The numbers of lines *)

\* Lines are counted in two stretches as in one.
LEMMA LineInIs ==
  ASSUME NEW t, NEW s, NEW u, s[1] \in Nat, u[1] \in Nat, NEW i \in Nat,
         s[1] <= u[1], u[1] <= i
  PROVE  /\ LineIn(t, s, i) = LineIn(t, s, u[1]) + LineIn(t, u, i)
         /\ LineIn(t, s, i) \in Nat /\ LineIn(t, s, u[1]) \in Nat
         /\ LineIn(t, u, i) \in Nat
<1>1. PICK a \in Nat, b \in Nat : a = s[1] /\ b = u[1]
  OBVIOUS
<1> DEFINE ends(x, y) == {j \in x..y - 1 : t[j] = "n"}
<1>2. /\ LineIn(t, s, i) = Cardinality(ends(a, i))
      /\ LineIn(t, s, u[1]) = Cardinality(ends(a, b))
      /\ LineIn(t, u, i) = Cardinality(ends(b, i))
  BY <1>1 DEF LineIn
<1>3. \A x, y \in Nat : IsFiniteSet(ends(x, y))
  <2> SUFFICES ASSUME NEW x \in Nat, NEW y \in Nat PROVE IsFiniteSet(ends(x, y))
    OBVIOUS
  <2>1. y - 1 \in Int
    OBVIOUS
  <2>2. IsFiniteSet(x..y - 1)
    BY <2>1, FS_Interval
  <2>3. ends(x, y) \in SUBSET (x..y - 1)
    OBVIOUS
  <2> QED
    BY <2>2, <2>3, FS_Subset
<1>4. ends(a, i) = ends(a, b) \cup ends(b, i)
  BY <1>1
<1>5. ends(a, b) \cap ends(b, i) = {}
  BY <1>1
<1> HIDE DEF ends
<1>6. /\ IsFiniteSet(ends(a, b)) /\ IsFiniteSet(ends(b, i))
      /\ IsFiniteSet(ends(a, i))
  BY <1>3
<1>7. PICK P, Q : P = ends(a, b) /\ Q = ends(b, i)
  OBVIOUS
<1>8. Cardinality(P \cup Q) = Cardinality(P) + Cardinality(Q) - Cardinality(P \cap Q)
  BY <1>6, <1>7, FS_Union
<1>9. Cardinality(P \cap Q) = 0
  BY <1>5, <1>7, FS_EmptySet
<1>10. /\ Cardinality(P) \in Nat /\ Cardinality(Q) \in Nat
       /\ Cardinality(P \cup Q) \in Nat
  BY <1>4, <1>6, <1>7, FS_CardinalityType
<1> QED
  BY <1>2, <1>4, <1>7, <1>8, <1>9, <1>10

\* A character is between lines exactly if its line is.
LEMMA BetweenLines ==
  ASSUME NEW t, IsText(t), NEW s, IsSpan(Len(t), s), NEW lines, lines = Lines(t, s),
         NEW i \in DOMAIN lines, NEW k \in DOMAIN lines, i <= k,
         NEW p \in Span(s) \ Blank(t)
  PROVE  LET line == LineIn(t, s, p) + 1
         IN /\ line \in Nat /\ i \in Nat /\ k \in Nat
            /\ p \in lines[i][1]..lines[k][2] <=> i <= line /\ line <= k
<1>1. PICK x : x = LineIn(t, s, p) + 1
  OBVIOUS
<1>2. Len(t) \in Nat
  BY DEF IsText
<1>3. /\ Len(lines) \in Nat /\ DOMAIN lines = 1..Len(lines)
      /\ x \in DOMAIN lines /\ p \in Span(lines[x])
      /\ \A j \in DOMAIN lines : IsSpan(Len(t), lines[j])
      /\ \A j, m \in DOMAIN lines : j < m => lines[j][2] < lines[m][1]
  BY <1>1, LinesAre
<1>4. i \in Nat /\ k \in Nat /\ x \in Nat
  BY <1>3
<1>5. PICK a, b, c, e, u, v :
        /\ a = lines[i][1] /\ b = lines[i][2] /\ c = lines[x][1] /\ e = lines[x][2]
        /\ u = lines[k][1] /\ v = lines[k][2]
  OBVIOUS
<1>6. \A j \in DOMAIN lines :
        lines[j][1] \in Nat /\ lines[j][2] \in Nat /\ lines[j][1] <= lines[j][2] + 1
  <2> SUFFICES ASSUME NEW j \in DOMAIN lines
               PROVE  /\ lines[j][1] \in Nat /\ lines[j][2] \in Nat
                      /\ lines[j][1] <= lines[j][2] + 1
    OBVIOUS
  <2>1. PICK z, n : z = lines[j] /\ n = Len(t) /\ n \in Nat /\ IsSpan(n, z)
    BY <1>2, <1>3
  <2>2. z[1] \in 1..n + 1 /\ z[2] \in 0..n /\ z[1] <= z[2] + 1
    BY <2>1, SpanIs
  <2>3. z[1] \in Nat /\ z[2] \in Nat
    BY <2>1, <2>2
  <2> QED
    BY <2>1, <2>2, <2>3
<1>7. /\ a \in Nat /\ b \in Nat /\ c \in Nat /\ e \in Nat /\ u \in Nat /\ v \in Nat
      /\ a <= b + 1 /\ u <= v + 1
  BY <1>3, <1>5, <1>6
<1>8. (i < x => b < c) /\ (x < i => e < a) /\ (x < k => e < u) /\ (k < x => v < c)
  BY <1>3, <1>5
<1>9. (i = x => a = c) /\ (k = x => v = e)
  BY <1>5
<1>10. /\ a \in Nat /\ b \in Nat /\ c \in Nat /\ e \in Nat /\ u \in Nat /\ v \in Nat
       /\ a <= b + 1 /\ u <= v + 1
       /\ (i < x => b < c) /\ (x < i => e < a) /\ (x < k => e < u) /\ (k < x => v < c)
       /\ (i = x => a = c) /\ (k = x => v = e)
  BY <1>7, <1>8, <1>9
<1>11. p \in Nat /\ c <= p /\ p <= e
  <2>1. Span(lines[x]) = c..e
    BY <1>5 DEF Span
  <2> QED
    BY <1>3, <1>10, <2>1
<1>12. a <= p <=> i <= x
  <2>1. CASE i < x
    BY <1>4, <1>10, <1>11, <2>1
  <2>2. CASE x < i
    BY <1>4, <1>10, <1>11, <2>2
  <2>3. CASE i = x
    BY <1>4, <1>10, <1>11, <2>3
  <2> QED
    BY <1>4, <2>1, <2>2, <2>3
<1>13. p <= v <=> x <= k
  <2>1. CASE x < k
    BY <1>4, <1>10, <1>11, <2>1
  <2>2. CASE k < x
    BY <1>4, <1>10, <1>11, <2>2
  <2>3. CASE k = x
    BY <1>4, <1>10, <1>11, <2>3
  <2> QED
    BY <1>4, <2>1, <2>2, <2>3
<1>14. p \in a..v <=> a <= p /\ p <= v
  BY <1>10, <1>11
<1> QED
  BY <1>1, <1>4, <1>5, <1>12, <1>13, <1>14

-----------------------------------------------------------------------------
(* Partitions, declarations and the segments at first *)

\* One partition is the text; more are windows of lines; none loses a character.
LEMMA PartitionsAre ==
  ASSUME NEW d \in Documents
  PROVE  LET parts == CreatePartitions(d.text)
         IN /\ IsList(parts)
            /\ \A w \in ToSet(parts) : IsSpan(Len(d.text), w.span)
            /\ \A p \in DOMAIN d.text \ Blank(d.text) :
                 \E w \in ToSet(parts) : p \in Span(w.span)
            /\ Len(parts) # 1 =>
                 \A w \in ToSet(parts) : IsWindow(d.text, All(d.text), w)
<1>1. PICK t : t = d.text
  OBVIOUS
<1>2. /\ IsText(t) /\ IsSpan(Len(t), All(t)) /\ Span(All(t)) = DOMAIN t
  BY <1>1, DocumentIs
<1>3. PICK parts : parts = CreatePartitions(t)
  OBVIOUS
<1>4. CASE Len(t) <= PartitionMax
  <2>1. PICK w : w = [span |-> All(t), lines |-> <<1, Len(Lines(t, All(t)))>>]
    OBVIOUS
  <2>2. parts = <<w>>
    BY <1>3, <1>4, <2>1 DEF CreatePartitions
  <2>3. IsList(parts) /\ ToSet(parts) = {w} /\ Len(parts) = 1
    BY <2>2, ShortLists
  <2>4. w.span = All(t)
    BY <2>1
  <2> QED
    BY <1>1, <1>2, <1>3, <2>3, <2>4
<1>5. CASE ~(Len(t) <= PartitionMax)
  <2>1. PICK o : parts = SplitCodeByLineWindows(t, All(t), o)
    <3>1. PICK o : o = [max |-> 2 * PartitionMax, overlap |-> 0]
      OBVIOUS
    <3> QED
      BY <1>3, <1>5, <3>1 DEF CreatePartitions
  <2>2. /\ IsList(parts) /\ \A w \in ToSet(parts) : IsWindow(t, All(t), w)
        /\ \A p \in DOMAIN t \ Blank(t) : \E w \in ToSet(parts) : p \in Span(w.span)
    BY <1>2, <2>1, LineWindowsAre
  <2>3. \A w \in ToSet(parts) : IsSpan(Len(t), w.span)
    BY <2>2 DEF IsWindow, Tight
  <2> QED
    BY <1>1, <1>3, <2>2, <2>3
<1> QED
  BY <1>4, <1>5

\* A block is a declaration in a partition, with lines counted from its first.
IsBlock(d, part, b) ==
  \E k \in DOMAIN d.declared :
    /\ b.span = d.declared[k] /\ b.doc = None
    /\ part.span[1] <= b.span[1] /\ b.span[2] <= part.span[2]
    /\ b.at.lines = <<part.lines[1] + LineIn(d.text, part.span, b.span[1]),
                      part.lines[1] + LineIn(d.text, part.span, b.span[2])>>

\* What StructuralBlocks answers is such blocks.
LEMMA BlocksAre ==
  ASSUME NEW d \in Documents
  PROVE  /\ IsList(StructuralBlocks(d))
         /\ \A b \in ToSet(StructuralBlocks(d)) :
              \E part \in ToSet(CreatePartitions(d.text)) : IsBlock(d, part, b)
<1>1. PICK parts, n : /\ parts = CreatePartitions(d.text)
                      /\ n = Len(parts) /\ n \in Nat /\ DOMAIN parts = 1..n
                      /\ ToSet(parts) = {parts[k] : k \in 1..n}
  <2>1. IsList(CreatePartitions(d.text))
    BY PartitionsAre
  <2> QED
    BY <2>1 DEF IsList, ToSet
<1>2. PICK f : f = [k \in 1..n |-> ParseStructuralBlocks(d, parts[k])]
  OBVIOUS
<1>3. StructuralBlocks(d) = FlattenSeq(f)
  BY <1>1, <1>2 DEF StructuralBlocks
<1>4. ASSUME NEW part
      PROVE  /\ IsList(ParseStructuralBlocks(d, part))
             /\ \A b \in ToSet(ParseStructuralBlocks(d, part)) : IsBlock(d, part, b)
  <2> DEFINE P == {k \in DOMAIN d.declared : /\ part.span[1] <= d.declared[k][1]
                                             /\ d.declared[k][2] <= part.span[2]}
             line(i) == part.lines[1] + LineIn(d.text, part.span, i)
  <2>1. PICK inside : inside = InOrder(d.declared, P)
    OBVIOUS
  <2>2. PICK m \in Nat : m = Len(d.declared) /\ DOMAIN d.declared = 1..m
    BY DocumentIs
  <2>3. P \in SUBSET (1..m)
    BY <2>2
  <2>4. \A k \in P : /\ k \in DOMAIN d.declared /\ part.span[1] <= d.declared[k][1]
                     /\ d.declared[k][2] <= part.span[2]
    OBVIOUS
  <2>5. ParseStructuralBlocks(d, part) =
          [k \in DOMAIN inside |->
             Segment(inside[k], [lines |-> <<line(inside[k][1]), line(inside[k][2])>>])]
    BY <2>1 DEF ParseStructuralBlocks
  <2> HIDE DEF P, line
  <2>6. IsList(inside) /\ ToSet(inside) = {d.declared[i] : i \in P}
    BY <2>1, <2>3, SelectionTakes
  <2>7. PICK r : r = ParseStructuralBlocks(d, part)
    OBVIOUS
  <2>8. PICK size \in Nat : DOMAIN inside = 1..size
    BY <2>6 DEF IsList
  <2>9. IsList(r) /\ ToSet(r) = {r[k] : k \in 1..size}
    <3>1. r = [k \in 1..size |-> r[k]]
      BY <2>5, <2>7, <2>8
    <3> QED
      BY <3>1, ListIs
  <2>10. ASSUME NEW b \in ToSet(r) PROVE IsBlock(d, part, b)
    <3>1. PICK k \in 1..size : b = r[k]
      BY <2>9
    <3>2. PICK c : c = inside[k]
      OBVIOUS
    <3>3. b = Segment(c, [lines |-> <<line(c[1]), line(c[2])>>])
      BY <2>5, <2>7, <2>8, <3>1, <3>2
    <3>4. c \in ToSet(inside)
      BY <2>8, <3>2 DEF ToSet
    <3>5. PICK i \in P : c = d.declared[i]
      BY <2>6, <3>4
    <3>6. PICK x, y : x = line(c[1]) /\ y = line(c[2])
      OBVIOUS
    <3>7. b.span = c /\ b.at.lines = <<x, y>> /\ b.doc = None
      BY <3>3, <3>6 DEF Segment
    <3> QED
      BY <2>4, <3>5, <3>6, <3>7 DEF IsBlock, line
  <2> QED
    BY <2>7, <2>9, <2>10
<1>5. Len(f) = n /\ DOMAIN f = 1..n
  <2>1. f = [k \in 1..n |-> f[k]]
    BY <1>2
  <2>2. n \in Nat
    BY <1>1
  <2> QED
    BY <2>1, <2>2, ListIs
<1>6. \A k \in 1..n : /\ IsList(f[k])
                      /\ \A b \in ToSet(f[k]) : IsBlock(d, parts[k], b)
  BY <1>2, <1>4
<1>7. /\ IsList(FlattenSeq(f))
      /\ ToSet(FlattenSeq(f)) = UNION {ToSet(f[k]) : k \in 1..n}
  BY <1>5, <1>6, FlattenIs
<1>8. ASSUME NEW b \in ToSet(FlattenSeq(f))
      PROVE  \E part \in ToSet(parts) : IsBlock(d, part, b)
  <2>1. PICK k \in 1..n : b \in ToSet(f[k])
    BY <1>7
  <2> QED
    BY <1>1, <1>6, <2>1
<1> QED
  BY <1>1, <1>3, <1>7, <1>8

\* What is not blank in a segment is in the lines of its place.
Line(t, p) == LineIn(t, All(t), p) + 1
Placed(d, s, at) ==
  /\ at.lines[1] \in Nat /\ at.lines[2] \in Nat
  /\ \A p \in Span(s) \ Blank(d.text) :
       at.lines[1] <= Line(d.text, p) /\ Line(d.text, p) <= at.lines[2]

\* So it is in a block, if partitions begin with their first lines.
LEMMA BlockPlaced ==
  ASSUME NEW d \in Documents, ~Shifted(d),
         NEW part \in ToSet(CreatePartitions(d.text)), NEW b, IsBlock(d, part, b)
  PROVE  Placed(d, b.span, b.at)
<1>1. PICK t, n : t = d.text /\ n = Len(t) /\ n \in Nat
  BY DocumentIs
<1>2. /\ IsSpan(n, part.span) /\ IsSpan(n, All(t))
  BY <1>1, PartitionsAre, DocumentIs
<1>3. LineIn(t, All(t), part.span[1]) + 1 = part.lines[1]
  BY <1>1 DEF Shifted
<1>4. PICK c, x, y :
        /\ b.span = c /\ IsSpan(n, c) /\ c[1] \in 1..n /\ c[2] \in 1..n /\ c[1] <= c[2]
        /\ part.span[1] <= c[1]
        /\ x = part.lines[1] + LineIn(t, part.span, c[1])
        /\ y = part.lines[1] + LineIn(t, part.span, c[2])
        /\ b.at.lines = <<x, y>>
  <2>1. PICK k \in DOMAIN d.declared :
          /\ b.span = d.declared[k] /\ part.span[1] <= b.span[1]
          /\ b.at.lines = <<part.lines[1] + LineIn(d.text, part.span, b.span[1]),
                            part.lines[1] + LineIn(d.text, part.span, b.span[2])>>
    BY DEF IsBlock
  <2>2. PICK c, x, y : /\ c = b.span
                       /\ x = part.lines[1] + LineIn(t, part.span, c[1])
                       /\ y = part.lines[1] + LineIn(t, part.span, c[2])
    OBVIOUS
  <2>3. /\ IsSpan(n, c) /\ c[1] \in 1..n /\ c[2] \in 1..n /\ c[1] <= c[2]
    BY <1>1, <2>1, <2>2, DocumentIs
  <2>4. b.at.lines = <<x, y>>
    BY <1>1, <2>1, <2>2
  <2> QED
    BY <2>1, <2>2, <2>3, <2>4
<1>5. All(t)[1] = 1
  BY DEF All
<1>6. part.span[1] \in Nat /\ 1 <= part.span[1] /\ c[1] \in Nat /\ c[2] \in Nat
  <2>1. part.span[1] \in 1..n + 1
    BY <1>1, <1>2, SpanIs
  <2> QED
    BY <1>1, <1>4, <2>1
<1>7. ASSUME NEW i \in Nat, c[1] <= i
      PROVE  /\ LineIn(t, All(t), i)
                  = LineIn(t, All(t), part.span[1]) + LineIn(t, part.span, i)
             /\ LineIn(t, All(t), i) \in Nat /\ LineIn(t, part.span, i) \in Nat
             /\ LineIn(t, All(t), part.span[1]) \in Nat
  <2>1. PICK u, v : u = part.span[1] /\ v = c[1] /\ u \in Nat /\ v \in Nat
    BY <1>6
  <2>2. u <= v /\ v <= i
    BY <1>4, <1>7, <2>1
  <2>3. u <= i
    BY <2>1, <2>2
  <2>4. /\ part.span[1] \in Nat /\ All(t)[1] \in Nat
        /\ All(t)[1] <= part.span[1] /\ part.span[1] <= i
    BY <1>5, <1>6, <2>1, <2>3
  <2>5. PICK all, own : all = All(t) /\ own = part.span
    OBVIOUS
  <2>6. /\ all[1] \in Nat /\ own[1] \in Nat /\ i \in Nat
        /\ all[1] <= own[1] /\ own[1] <= i
    BY <1>7, <2>4, <2>5
  <2>7. /\ LineIn(t, all, i) = LineIn(t, all, own[1]) + LineIn(t, own, i)
        /\ LineIn(t, all, i) \in Nat /\ LineIn(t, all, own[1]) \in Nat
        /\ LineIn(t, own, i) \in Nat
    BY <2>6, LineInIs
  <2> QED
    BY <2>5, <2>7
<1>8. x = Line(t, c[1]) /\ y = Line(t, c[2]) /\ x \in Nat /\ y \in Nat
  <2>1. PICK u, v, w, lx, ly :
          /\ u = LineIn(t, All(t), part.span[1])
          /\ v = LineIn(t, part.span, c[1]) /\ w = LineIn(t, part.span, c[2])
          /\ lx = LineIn(t, All(t), c[1]) /\ ly = LineIn(t, All(t), c[2])
    OBVIOUS
  <2>2. c[1] <= c[1] /\ c[1] <= c[2]
    BY <1>4, <1>6
  <2>3. /\ u \in Nat /\ v \in Nat /\ w \in Nat /\ lx \in Nat /\ ly \in Nat
        /\ lx = u + v /\ ly = u + w
    BY <1>6, <1>7, <2>1, <2>2
  <2>4. x = u + 1 + v /\ y = u + 1 + w
    BY <1>3, <1>4, <2>1
  <2>5. x = lx + 1 /\ y = ly + 1 /\ x \in Nat /\ y \in Nat
    BY <2>3, <2>4
  <2> QED
    BY <2>1, <2>5 DEF Line
<1>9. ASSUME NEW i \in Nat, NEW j \in Nat, 1 <= i, i <= j
      PROVE  Line(t, i) <= Line(t, j)
  <2>1. PICK s : s = <<i, j>>
    OBVIOUS
  <2>2. s[1] = i
    BY <2>1
  <2>3. /\ All(t)[1] \in Nat /\ s[1] \in Nat
        /\ All(t)[1] <= s[1] /\ s[1] <= j
    BY <1>5, <1>9, <2>2
  <2>4. /\ LineIn(t, All(t), j) = LineIn(t, All(t), s[1]) + LineIn(t, s, j)
        /\ LineIn(t, All(t), s[1]) \in Nat /\ LineIn(t, s, j) \in Nat
    BY <2>3, LineInIs
  <2>5. /\ LineIn(t, All(t), j) = LineIn(t, All(t), i) + LineIn(t, s, j)
        /\ LineIn(t, All(t), i) \in Nat /\ LineIn(t, s, j) \in Nat
    BY <2>2, <2>4
  <2>6. PICK u \in Nat, v \in Nat : u = LineIn(t, All(t), i) /\ v = LineIn(t, s, j)
    BY <2>5
  <2> QED
    BY <2>5, <2>6 DEF Line
<1>10. ASSUME NEW p \in Span(c)
       PROVE  x <= Line(t, p) /\ Line(t, p) <= y
  <2>1. p \in Nat /\ c[1] <= p /\ p <= c[2] /\ 1 <= c[1] /\ 1 <= p
    BY <1>4, <1>6 DEF Span
  <2> QED
    BY <1>6, <1>8, <1>9, <2>1
<1>11. b.at.lines[1] = x /\ b.at.lines[2] = y
  <2>1. PICK l : l = b.at.lines /\ l = <<x, y>>
    BY <1>4
  <2>2. l[1] = x /\ l[2] = y
    BY <2>1
  <2> QED
    BY <2>1, <2>2
<1> QED
  BY <1>1, <1>4, <1>8, <1>10, <1>11 DEF Placed

\* And so it is in a window of lines.
LEMMA WindowPlaced ==
  ASSUME NEW d \in Documents, NEW w, IsWindow(d.text, All(d.text), w)
  PROVE  /\ w.lines[1] \in Nat /\ w.lines[2] \in Nat
         /\ Span(w.span) \subseteq DOMAIN d.text
         /\ \A p \in DOMAIN d.text \ Blank(d.text) :
              p \in Span(w.span)
                <=> w.lines[1] <= Line(d.text, p) /\ Line(d.text, p) <= w.lines[2]
<1>1. PICK t, s : /\ t = d.text /\ s = All(t) /\ IsText(t) /\ IsSpan(Len(t), s)
                  /\ Span(s) = DOMAIN t
  BY DocumentIs
<1>2. PICK lines : lines = Lines(t, s)
  OBVIOUS
<1>3. PICK i \in DOMAIN lines, k \in DOMAIN lines :
        /\ i <= k /\ w.lines = <<i, k>> /\ Span(w.span) \subseteq Span(s)
        /\ Span(w.span) \subseteq lines[i][1]..lines[k][2]
        /\ (lines[i][1]..lines[k][2]) \ Blank(t) \subseteq Span(w.span)
  BY <1>1, <1>2 DEF IsWindow
<1>4. w.lines[1] = i /\ w.lines[2] = k
  <2>1. PICK l : l = w.lines /\ l = <<i, k>>
    BY <1>3
  <2>2. l[1] = i /\ l[2] = k
    BY <2>1
  <2> QED
    BY <2>1, <2>2
<1>5. i \in Nat /\ k \in Nat
  <2>1. DOMAIN lines = 1..Len(lines) /\ Len(lines) \in Nat
    BY <1>1, <1>2, LinesAre
  <2> QED
    BY <2>1
<1>6. ASSUME NEW p \in Span(s) \ Blank(t)
      PROVE  p \in Span(w.span) <=> i <= Line(t, p) /\ Line(t, p) <= k
  <2>1. p \in lines[i][1]..lines[k][2]
          <=> i <= LineIn(t, s, p) + 1 /\ LineIn(t, s, p) + 1 <= k
    BY <1>1, <1>2, <1>3, BetweenLines
  <2>2. Line(t, p) = LineIn(t, s, p) + 1
    BY <1>1 DEF Line
  <2>3. p \in Span(w.span) <=> p \in lines[i][1]..lines[k][2]
    BY <1>3
  <2> QED
    BY <2>1, <2>2, <2>3
<1> QED
  BY <1>1, <1>3, <1>4, <1>5, <1>6

-----------------------------------------------------------------------------
(* Chunks *)

\* The ends of a tight span are in it and not blank.
LEMMA TightEnds ==
  ASSUME NEW d \in Documents, NEW s, Tight(d.text, s)
  PROVE  /\ s = <<s[1], s[2]>> /\ s[1] \in Nat /\ s[2] \in Nat
         /\ s[1] \in DOMAIN d.text /\ s[2] \in DOMAIN d.text
         /\ s[1] \in Span(s) \ Blank(d.text) /\ s[2] \in Span(s) \ Blank(d.text)
<1>1. Len(d.text) \in Nat /\ DOMAIN d.text = 1..Len(d.text)
  BY DocumentIs
<1>2. /\ IsSpan(Len(d.text), s) /\ ~Empty(s)
      /\ s[1] \notin Blank(d.text) /\ s[2] \notin Blank(d.text)
  BY DEF Tight
<1>3. /\ s = <<s[1], s[2]>> /\ Span(s) \subseteq 1..Len(d.text)
      /\ s[1] \in 1..Len(d.text) + 1 /\ s[2] \in 0..Len(d.text)
  BY <1>1, <1>2, SpanIs
<1>4. s[1] \in Nat /\ s[2] \in Nat /\ s[1] <= s[2]
  BY <1>1, <1>2, <1>3 DEF Empty
<1>5. s[1] \in Span(s) /\ s[2] \in Span(s)
  BY <1>4 DEF Span
<1> QED
  BY <1>1, <1>2, <1>3, <1>4, <1>5

\* The partition that resolvePartition finds for the lines of a text holds it.
LEMMA ResolvedHolds ==
  ASSUME NEW d \in Documents, d.kind = "code", NEW s, Tight(d.text, s),
         NEW at, Placed(d, s, at), ResolvePartition(d, at) # None
  PROVE  LET part == CreatePartitions(d.text)[ResolvePartition(d, at)]
         IN Span(s) \subseteq Span(part.span)
<1>1. PICK t, parts, n, K :
        /\ t = d.text /\ parts = CreatePartitions(t) /\ K = ResolvePartition(d, at)
        /\ n = Len(parts) /\ n \in Nat /\ DOMAIN parts = 1..n
        /\ ToSet(parts) = {parts[k] : k \in 1..n}
  <2>1. IsList(CreatePartitions(d.text))
    BY PartitionsAre
  <2> QED
    BY <2>1 DEF IsList, ToSet
<1>2. PICK a, b : /\ s = <<a, b>> /\ s[1] = a /\ s[2] = b /\ a \in Nat /\ b \in Nat
                  /\ a \in Span(s) \ Blank(t) /\ b \in Span(s) \ Blank(t)
                  /\ a \in DOMAIN t /\ b \in DOMAIN t
  <2>1. PICK a, b : a = s[1] /\ b = s[2]
    OBVIOUS
  <2> QED
    BY <1>1, <2>1, TightEnds
<1>3. K \in 1..n /\ a \in Span(parts[K].span) /\ b \in Span(parts[K].span)
  <2>1. d.kind # "doc"
    OBVIOUS
  <2>2. CASE n = 1
    <3>1. parts # <<>>
      BY <1>1, <2>2
    <3>2. K = 1
      BY <1>1, <2>1, <2>2, <3>1 DEF ResolvePartition
    <3>3. ToSet(parts) = {parts[1]}
      BY <1>1, <2>2
    <3>4. \A p \in DOMAIN t \ Blank(t) : \E w \in ToSet(parts) : p \in Span(w.span)
      BY <1>1, PartitionsAre
    <3>5. \A p \in DOMAIN t \ Blank(t) : p \in Span(parts[1].span)
      BY <3>3, <3>4
    <3> QED
      BY <1>2, <2>2, <3>2, <3>5
  <2>3. CASE n # 1
    <3>1. PICK holding :
            holding = {k \in DOMAIN parts : /\ parts[k].lines[1] <= at.lines[1]
                                            /\ at.lines[2] <= parts[k].lines[2]}
      OBVIOUS
    <3>2. parts # <<>>
      <4> SUFFICES ASSUME parts = <<>> PROVE FALSE
        OBVIOUS
      <4>1. /\ d.kind = "doc" \/ CreatePartitions(d.text) = <<>>
            /\ ~(d.kind = "code" /\ Len(CreatePartitions(d.text)) = 1)
        BY <1>1, <2>3
      <4>2. ResolvePartition(d, at) = None
        BY <4>1, Zenon DEF ResolvePartition
      <4> QED
        BY <4>2
    <3>3. /\ ~(d.kind = "doc" \/ CreatePartitions(d.text) = <<>>)
          /\ ~(d.kind = "code" /\ Len(CreatePartitions(d.text)) = 1)
      BY <1>1, <2>1, <2>3, <3>2
    <3>4. ResolvePartition(d, at)
            = LET held == {k \in DOMAIN CreatePartitions(d.text) :
                             /\ CreatePartitions(d.text)[k].lines[1] <= at.lines[1]
                             /\ at.lines[2] <= CreatePartitions(d.text)[k].lines[2]}
              IN IF held = {} THEN None ELSE Min(held)
      BY <3>3, Zenon DEF ResolvePartition
    <3>5. K = IF holding = {} THEN None ELSE Min(holding)
      BY <1>1, <3>1, <3>4
    <3>6. holding # {} /\ K = Min(holding) /\ holding \in SUBSET Nat
      BY <1>1, <3>1, <3>5
    <3>7. K \in holding
      BY <3>6, MinIs
    <3>8. K \in 1..n /\ parts[K].lines[1] <= at.lines[1] /\ at.lines[2] <= parts[K].lines[2]
      BY <1>1, <3>1, <3>7
    <3>9. PICK w : w = parts[K] /\ IsWindow(t, All(t), w)
      BY <1>1, <2>3, <3>8, PartitionsAre
    <3>10. /\ w.lines[1] \in Nat /\ w.lines[2] \in Nat
           /\ \A p \in DOMAIN t \ Blank(t) :
                p \in Span(w.span)
                  <=> w.lines[1] <= Line(t, p) /\ Line(t, p) <= w.lines[2]
      BY <1>1, <3>9, WindowPlaced
    <3>11. ASSUME NEW p \in DOMAIN t, p \in Span(s) \ Blank(t)
           PROVE  p \in Span(w.span)
      <4>1. /\ at.lines[1] \in Nat /\ at.lines[2] \in Nat
            /\ at.lines[1] <= Line(t, p) /\ Line(t, p) <= at.lines[2]
        BY <1>1, <3>11 DEF Placed
      <4>2. Line(t, p) \in Nat
        <5>1. All(t)[1] = 1
          BY DEF All
        <5>2. Len(t) \in Nat /\ DOMAIN t = 1..Len(t)
          BY <1>1, DocumentIs
        <5>3. p \in Nat /\ 1 <= p
          BY <5>2
        <5>4. All(t)[1] \in Nat /\ All(t)[1] <= All(t)[1] /\ All(t)[1] <= p
          BY <5>1, <5>3
        <5>5. LineIn(t, All(t), p) \in Nat
          BY <5>3, <5>4, LineInIs
        <5> QED
          BY <5>5 DEF Line
      <4>3. w.lines[1] <= Line(t, p) /\ Line(t, p) <= w.lines[2]
        <5>1. PICK l, h, u, v, x : /\ l = w.lines[1] /\ h = w.lines[2] /\ x = Line(t, p)
                                   /\ u = at.lines[1] /\ v = at.lines[2]
          OBVIOUS
        <5>2. /\ l \in Nat /\ h \in Nat /\ u \in Nat /\ v \in Nat /\ x \in Nat
              /\ l <= u /\ u <= x /\ x <= v /\ v <= h
          BY <3>8, <3>9, <3>10, <4>1, <4>2, <5>1
        <5>3. l <= x /\ x <= h
          BY <5>2
        <5> QED
          BY <5>1, <5>3
      <4> QED
        BY <3>10, <3>11, <4>3
    <3> QED
      BY <1>2, <3>8, <3>9, <3>11
  <2> QED
    BY <2>2, <2>3
<1>4. IsSpan(Len(t), parts[K].span) /\ Len(t) \in Nat
  BY <1>1, <1>3, PartitionsAre, DocumentIs
<1>5. PICK u, v : u = parts[K].span[1] /\ v = parts[K].span[2] /\ u \in Nat /\ v \in Nat
  <2>1. parts[K].span[1] \in 1..Len(t) + 1 /\ parts[K].span[2] \in 0..Len(t)
    BY <1>4, SpanIs
  <2> QED
    BY <1>4, <2>1
<1>6. u <= a /\ b <= v
  BY <1>2, <1>3, <1>5 DEF Span
<1>7. a..b \subseteq u..v
  BY <1>2, <1>5, <1>6
<1> QED
  BY <1>1, <1>2, <1>5, <1>7 DEF Span

\* The segments at first are in their places, and hold what is to be cut.
First(d, o) == IF d.kind = "code" THEN CodeSegments(d, o) ELSE DocSegments(d)
WellPlaced(d, s, at) == d.kind = "code" /\ ~Shifted(d) => Placed(d, s, at)
IsFirst(d, r) ==
  /\ IsList(r)
  /\ \A q \in ToSet(r) : /\ IsSpan(Len(d.text), q.span) /\ q.doc = None
                         /\ WellPlaced(d, q.span, q.at)
  /\ \A p \in Given(d) \ Blank(d.text) : \E q \in ToSet(r) : p \in Span(q.span)

\* They are, whether they are declarations, windows of lines or sections.
LEMMA FirstAre ==
  ASSUME NEW d \in Documents, NEW o
  PROVE  IsFirst(d, First(d, o))
<1>1. PICK t, n, r : /\ t = d.text /\ n = Len(t) /\ n \in Nat /\ IsText(t)
                     /\ r = First(d, o)
                     /\ IsSpan(n, All(t)) /\ Span(All(t)) = DOMAIN t
  BY DocumentIs
<1>2. CASE d.kind = "code" /\ StructuralBlocks(d) # <<>>
  <2>1. r = StructuralBlocks(d)
    BY <1>1, <1>2 DEF First, CodeSegments
  <2>2. /\ IsList(r)
        /\ \A b \in ToSet(r) :
             \E part \in ToSet(CreatePartitions(d.text)) : IsBlock(d, part, b)
    BY <2>1, BlocksAre
  <2>3. ASSUME NEW q \in ToSet(r)
        PROVE  IsSpan(n, q.span) /\ WellPlaced(d, q.span, q.at) /\ q.doc = None
    <3>1. PICK part \in ToSet(CreatePartitions(d.text)) : IsBlock(d, part, q)
      BY <2>2
    <3>2. PICK k \in DOMAIN d.declared : q.span = d.declared[k] /\ q.doc = None
      BY <3>1 DEF IsBlock
    <3>3. IsSpan(n, q.span)
      BY <1>1, <3>2, DocumentIs
    <3>4. ~Shifted(d) => Placed(d, q.span, q.at)
      BY <3>1, BlockPlaced
    <3> QED
      BY <3>2, <3>3, <3>4 DEF WellPlaced
  <2>4. ASSUME NEW p \in Given(d) \ Blank(t)
        PROVE  \E q \in ToSet(r) : p \in Span(q.span)
    BY <1>2, <2>1 DEF Given
  <2> QED
    BY <1>1, <2>2, <2>3, <2>4 DEF IsFirst
<1>3. CASE d.kind = "code" /\ StructuralBlocks(d) = <<>>
  <2>1. PICK windows : windows = SplitCodeByLineWindows(t, All(t), o)
    OBVIOUS
  <2>2. /\ IsList(windows) /\ \A w \in ToSet(windows) : IsWindow(t, All(t), w)
        /\ \A p \in DOMAIN t \ Blank(t) : \E w \in ToSet(windows) : p \in Span(w.span)
    BY <1>1, <2>1, LineWindowsAre
  <2>3. r = [k \in DOMAIN windows |->
               Segment(windows[k].span, [lines |-> windows[k].lines])]
    BY <1>1, <1>3, <2>1 DEF First, CodeSegments
  <2>4. ASSUME NEW k \in DOMAIN windows
        PROVE  /\ r[k].span = windows[k].span /\ r[k].at.lines = windows[k].lines
               /\ r[k].doc = None
    <3>1. PICK s, l : s = windows[k].span /\ l = windows[k].lines
      OBVIOUS
    <3>2. r[k] = Segment(s, [lines |-> l])
      BY <2>3, <3>1
    <3>3. r[k].span = s /\ r[k].at.lines = l /\ r[k].doc = None
      BY <3>2 DEF Segment
    <3> QED
      BY <3>1, <3>3
  <2>5. PICK spans : spans = [k \in DOMAIN windows |-> windows[k].span]
    OBVIOUS
  <2>6. r = [k \in DOMAIN windows |-> r[k]]
    BY <2>3
  <2>7. \A k \in DOMAIN windows : r[k].span = spans[k]
    BY <2>4, <2>5
  <2>8. /\ IsList(r)
        /\ \A q \in ToSet(r) : \E k \in DOMAIN windows : q = r[k] /\ q.span = spans[k]
        /\ \A k \in DOMAIN windows : r[k] \in ToSet(r)
    BY <2>2, <2>6, <2>7, SegmentsOfParts
  <2>9. ASSUME NEW q \in ToSet(r)
        PROVE  IsSpan(n, q.span) /\ WellPlaced(d, q.span, q.at) /\ q.doc = None
    <3>1. PICK k \in DOMAIN windows : q = r[k]
      BY <2>8
    <3>2. PICK w : w = windows[k]
      OBVIOUS
    <3>3. IsWindow(t, All(t), w)
      BY <2>2, <3>2 DEF ToSet
    <3>4. q.span = w.span /\ q.at.lines = w.lines /\ q.doc = None
      BY <2>4, <3>1, <3>2
    <3>5. IsSpan(n, q.span)
      BY <1>1, <3>3, <3>4 DEF IsWindow, Tight
    <3>6. Placed(d, q.span, q.at)
      <4>1. /\ w.lines[1] \in Nat /\ w.lines[2] \in Nat
            /\ Span(w.span) \subseteq DOMAIN d.text
            /\ \A p \in DOMAIN d.text \ Blank(d.text) :
                 p \in Span(w.span)
                   <=> w.lines[1] <= Line(d.text, p) /\ Line(d.text, p) <= w.lines[2]
        BY <1>1, <3>3, WindowPlaced
      <4> QED
        BY <3>4, <4>1 DEF Placed
    <3> QED
      BY <3>4, <3>5, <3>6 DEF WellPlaced
  <2>10. ASSUME NEW p \in Given(d) \ Blank(t)
         PROVE  \E q \in ToSet(r) : p \in Span(q.span)
    <3>1. p \in DOMAIN t \ Blank(t)
      BY <1>1, <1>3 DEF Given
    <3>2. PICK k \in DOMAIN windows : p \in Span(windows[k].span)
      BY <2>2, <3>1 DEF ToSet
    <3> QED
      BY <2>4, <2>8, <3>2
  <2> QED
    BY <1>1, <2>8, <2>9, <2>10 DEF IsFirst
<1>4. CASE d.kind # "code"
  <2>1. PICK sections : sections = SplitMarkdownSections(t, All(t))
    OBVIOUS
  <2>2. /\ IsList(sections) /\ \A p \in ToSet(sections) : Tight(t, p)
        /\ \A p \in DOMAIN t \ Blank(t) : \E q \in ToSet(sections) : p \in Span(q)
    <3>1. sections \in {SplitMarkdownSections(t, All(t)), SplitByBlankLines(t, All(t))}
      BY <2>1
    <3>2. /\ IsList(sections)
          /\ \A p \in ToSet(sections) : Tight(t, p) /\ Span(p) \subseteq Span(All(t))
          /\ \A p \in Span(All(t)) \ Blank(t) :
               \E q \in ToSet(sections) : p \in Span(q)
      BY <1>1, <3>1, SectionsAre
    <3> QED
      BY <1>1, <3>2
  <2>3. PICK title : title = [k \in DOMAIN sections |-> ReadSectionTitle(t, sections[k])]
    OBVIOUS
  <2>4. r = [k \in DOMAIN sections |->
               Segment(sections[k], [offset |-> k - 1, section |-> title[k]])]
    BY <1>1, <1>4, <2>1, <2>3 DEF First, DocSegments
  <2>5. r = [k \in DOMAIN sections |-> r[k]]
    BY <2>4
  <2>6. \A k \in DOMAIN sections : r[k].span = sections[k] /\ r[k].doc = None
    BY <2>4 DEF Segment
  <2>7. /\ IsList(r)
        /\ \A q \in ToSet(r) : \E k \in DOMAIN sections : q = r[k] /\ q.span = sections[k]
        /\ \A k \in DOMAIN sections : r[k] \in ToSet(r)
    BY <2>2, <2>5, <2>6, SegmentsOfParts
  <2>8. ASSUME NEW q \in ToSet(r)
        PROVE  IsSpan(n, q.span) /\ WellPlaced(d, q.span, q.at) /\ q.doc = None
    <3>1. PICK k \in DOMAIN sections : q.span = sections[k] /\ q.doc = None
      BY <2>6, <2>7
    <3>2. Tight(t, q.span)
      BY <2>2, <3>1 DEF ToSet
    <3> QED
      BY <1>1, <1>4, <3>1, <3>2 DEF Tight, WellPlaced
  <2>9. ASSUME NEW p \in Given(d) \ Blank(t)
        PROVE  \E q \in ToSet(r) : p \in Span(q.span)
    <3>1. p \in DOMAIN t \ Blank(t)
      BY <1>1, <1>4 DEF Given
    <3>2. PICK k \in DOMAIN sections : p \in Span(sections[k])
      BY <2>2, <3>1 DEF ToSet
    <3> QED
      BY <2>6, <2>7, <3>2
  <2> QED
    BY <1>1, <2>7, <2>8, <2>9 DEF IsFirst
<1> QED
  BY <1>1, <1>2, <1>3, <1>4

\* So are the chunks, which fit, and in the partitions they name; a text is in
\* one of them unless it may be skipped.
GoodChunk(d, o, c) ==
  /\ Tight(d.text, c.span) /\ Fits(o, c.span) /\ WellPlaced(d, c.span, c.at)
  /\ c.partition = ResolvePartition(d, c.at) /\ Explained(d, c, o)
GoodChunks(d, o, list) ==
  /\ \A k \in DOMAIN list : GoodChunk(d, o, list[k])
  /\ o.policy # "skip" => \A p \in Given(d) \ Blank(d.text) :
                            \E k \in DOMAIN list : p \in Span(list[k].span)

\* They are, for any normalized options.
LEMMA ChunksAre ==
  ASSUME NEW d \in Documents, NEW o, IsOptions(o)
  PROVE  GoodChunks(d, o, Chunks(d, o))
<1>1. d.kind \in {"code", "doc"} /\ IsText(d.text)
  BY DocumentIs
<1>2. PICK first : first = First(d, o) /\ IsFirst(d, first)
  BY FirstAre
<1>3. PICK r : r = SplitSegments(d, first, o)
  OBVIOUS
<1>4. /\ ComeFrom(d, r, first)
      /\ \A q \in ToSet(r) : Tight(d.text, q.span) /\ Explained(d, q, o)
      /\ AllFit(r, o)
      /\ o.policy # "skip" => Hold(d, r, first)
  <2>1. IsList(first) /\ \A q \in ToSet(first) : IsSpan(Len(d.text), q.span) /\ q.doc = None
    BY <1>2 DEF IsFirst
  <2> QED
    BY <1>1, <1>3, <2>1, SplitSegmentsIs
<1>5. PICK list : list = Chunks(d, o)
  OBVIOUS
<1>6. list = [k \in DOMAIN r |-> BuildChunk(d, r[k])]
  BY <1>2, <1>3, <1>5 DEF Chunks, First
<1>7. ASSUME NEW k \in DOMAIN r
      PROVE  /\ list[k].span = r[k].span /\ list[k].at = r[k].at
             /\ list[k].doc = r[k].doc
             /\ list[k].partition = ResolvePartition(d, r[k].at)
  <2>1. PICK s, at, doc, part : /\ s = r[k].span /\ at = r[k].at /\ doc = r[k].doc
                                /\ part = ResolvePartition(d, r[k].at)
    OBVIOUS
  <2>2. list[k] = [span |-> s, at |-> at, doc |-> doc, vector |-> <<>>,
                   partition |-> part]
    BY <1>6, <2>1 DEF BuildChunk
  <2> QED
    BY <2>1, <2>2
<1>8. DOMAIN list = DOMAIN r
  BY <1>6
<1>9. ASSUME NEW k \in DOMAIN r
      PROVE  GoodChunk(d, o, list[k])
  <2>1. PICK q : q = r[k] /\ q \in ToSet(r)
    BY DEF ToSet
  <2>2. PICK g \in ToSet(first) : /\ Span(q.span) \subseteq Span(g.span)
                                  /\ d.kind = "code" => q.at = g.at
    BY <1>4, <2>1 DEF ComeFrom
  <2>3. WellPlaced(d, g.span, g.at)
    BY <1>2 DEF IsFirst
  <2>4. WellPlaced(d, q.span, q.at)
    BY <2>2, <2>3 DEF WellPlaced, Placed
  <2>5. Tight(d.text, q.span) /\ Fits(o, q.span)
    BY <1>4, <2>1 DEF AllFit
  <2>6. Explained(d, list[k], o)
    <3>1. PICK c : c = list[k]
      OBVIOUS
    <3>2. c.span = q.span /\ c.doc = q.doc /\ Explained(d, q, o)
      BY <1>4, <1>7, <2>1, <3>1
    <3> QED
      BY <3>1, <3>2 DEF Explained
  <2> QED
    BY <1>7, <2>1, <2>4, <2>5, <2>6 DEF GoodChunk
<1>10. ASSUME o.policy # "skip", NEW p \in Given(d) \ Blank(d.text)
       PROVE  \E k \in DOMAIN r : p \in Span(list[k].span)
  <2>1. PICK g \in ToSet(first) : p \in Span(g.span)
    BY <1>2 DEF IsFirst
  <2>2. PICK q \in ToSet(r) : p \in Span(q.span)
    BY <1>4, <1>10, <2>1 DEF Hold, Covers
  <2>3. PICK k \in DOMAIN r : q = r[k]
    BY DEF ToSet
  <2> QED
    BY <1>7, <2>2, <2>3
<1> QED
  BY <1>5, <1>8, <1>9, <1>10 DEF GoodChunks

-----------------------------------------------------------------------------
(* Batches *)

(***************************************************************************)
(* A theorem about ChunkWindows, for any documents, settings and sizes of  *)
(* batches, and whatever the chunker makes of them: what is cut comes into *)
(* the store, with the vector of its own text.                             *)
(***************************************************************************)

IsChunk(c) ==
  c = [span |-> c.span, at |-> c.at, doc |-> c.doc, vector |-> c.vector,
       partition |-> c.partition]

\* The text of the chunk has a vector among these; the chunk has it; it has a
\* row with its place and its text, and the text is quoted.
HasVector(c, of, known) == \E v \in known : v.of = EvidenceId(of, c)
OwnVector(c, of) == c.vector = Text(of.text, c.span)
Quoted(c, of, table, quoted) ==
  /\ Span(c.span) \subseteq quoted
  /\ \E r \in table : EvidenceId(of, r) = EvidenceId(of, c)

\* A vector is of the text that its evidence id has.
VectorsOwn == \A v \in vectors : \E at : v.of = <<at, v.text>>

\* Batch after batch the chunks get their vectors, and then their rows; a row
\* is one of the chunks.
BatchesInv ==
  /\ pc \in {"next", "embed", "upsert", "stored"} /\ done \in Nat /\ VectorsOwn
  /\ \A k \in DOMAIN chunks : IsChunk(chunks[k])
  /\ pc \in {"next", "embed"} => rows = {}
  /\ pc = "next" => done = 0
  /\ pc = "embed" => \A k \in DOMAIN chunks \cap 1..done :
                       HasVector(chunks[k], file, vectors)
  /\ pc \in {"upsert", "stored"} =>
       \A k \in DOMAIN chunks : OwnVector(chunks[k], file)
  /\ \A r \in rows : \E k \in DOMAIN chunks : r = chunks[k]
  /\ pc = "upsert" => \A k \in DOMAIN chunks \cap 1..done :
                        Quoted(chunks[k], file, rows, found)
  /\ pc = "stored" => \A k \in DOMAIN chunks :
                        Quoted(chunks[k], file, rows, found)

\* An evidence id tells the text.
LEMMA IdsTellTexts ==
  ASSUME NEW d, NEW c, NEW at, NEW text, <<at, text>> = EvidenceId(d, c)
  PROVE  text = Text(d.text, c.span)
<1>1. PICK place, own : place = c.at /\ own = Text(d.text, c.span)
  OBVIOUS
<1>2. <<at, text>> = <<place, own>>
  BY <1>1 DEF EvidenceId
<1>3. text = own
  BY <1>2
<1> QED
  BY <1>1, <1>3

\* After a batch the positions up to the next one are those before it and it.
LEMMA NextBatch ==
  ASSUME done \in Nat, NEW size \in Nat, NEW k \in DOMAIN chunks,
         k \in 1..done + size
  PROVE  k \in DOMAIN chunks \cap 1..done \/ k \in Batch(size)
BY DEF Batch, Left

\* A file that is cut begins with no vector and no row.
LEMMA ChunkBatches ==
  ASSUME BatchesInv, NEW d, NEW options, Chunk(d, options)
  PROVE  BatchesInv'
<1> DEFINE o == NormalizeChunkingOptions(options)
<1>1. /\ pc = "next" /\ pc' = "embed" /\ file' = d /\ chunks' = Chunks(d, o)
      /\ done' = done /\ vectors' = vectors /\ rows' = rows
  BY DEF Chunk
<1>2. \A k \in DOMAIN chunks' : IsChunk(chunks'[k])
  <2>1. \A s : IsChunk(BuildChunk(d, s))
    BY DEF IsChunk, BuildChunk
  <2>2. PICK f, segments : /\ f = Chunks(d, o)
                           /\ f = [k \in DOMAIN segments |->
                                     BuildChunk(d, segments[k])]
    BY DEF Chunks
  <2>3. \A k \in DOMAIN f : f[k] = BuildChunk(d, segments[k])
    BY <2>2
  <2> QED
    BY <1>1, <2>1, <2>2, <2>3
<1>3. done' = 0 /\ 1..done' = {}
  BY <1>1 DEF BatchesInv
<1>4. VectorsOwn' /\ rows' = {}
  BY <1>1 DEF BatchesInv, VectorsOwn
<1> QED
  BY <1>1, <1>2, <1>3, <1>4 DEF BatchesInv

\* A batch that is embedded gets its vectors, and none of another text.
LEMMA EmbedBatches ==
  ASSUME ChunkAssumption, BatchesInv, EmbedBatch
  PROVE  BatchesInv'
<1> DEFINE New(k) == [of |-> EvidenceId(file, chunks[k]),
                      text |-> Text(file.text, chunks[k].span)]
<1>1. /\ pc = "embed" /\ UNCHANGED <<pc, file, chunks, rows, found>>
      /\ vectors' = vectors \cup {New(k) : k \in Batch(EmbedSize)}
      /\ done' = done + EmbedSize
  BY DEF EmbedBatch
<1>2. done \in Nat /\ EmbedSize \in Nat /\ done' \in Nat
  BY <1>1, ChunkAssumption DEF BatchesInv
<1>3. \A k : /\ New(k).of = <<chunks[k].at, New(k).text>>
             /\ New(k).of = EvidenceId(file, chunks[k])
  BY DEF EvidenceId
<1> HIDE DEF New
<1>4. VectorsOwn'
  BY <1>1, <1>3 DEF BatchesInv, VectorsOwn
<1>5. ASSUME NEW k \in DOMAIN chunks' \cap 1..done'
      PROVE  HasVector(chunks'[k], file', vectors')
  <2>1. k \in DOMAIN chunks \cap 1..done \/ k \in Batch(EmbedSize)
    BY <1>1, <1>2, NextBatch
  <2>2. CASE k \in DOMAIN chunks \cap 1..done
    BY <1>1, <2>2 DEF BatchesInv, HasVector
  <2>3. CASE k \in Batch(EmbedSize)
    BY <1>1, <1>3, <2>3 DEF HasVector
  <2> QED
    BY <2>1, <2>2, <2>3
<1> QED
  BY <1>1, <1>2, <1>4, <1>5 DEF BatchesInv

\* When all is embedded every chunk finds the vector of its text.
LEMMA RecordBatches ==
  ASSUME BatchesInv, ToPersistedRecords
  PROVE  BatchesInv'
<1>1. /\ pc = "embed" /\ pc' = "upsert" /\ Left = {} /\ done' = 0
      /\ UNCHANGED <<file, vectors, rows, found>>
      /\ chunks' = [k \in DOMAIN chunks |-> Record(chunks[k])]
  BY DEF ToPersistedRecords
<1>2. ASSUME NEW k \in DOMAIN chunks
      PROVE  IsChunk(chunks'[k]) /\ OwnVector(chunks'[k], file)
  <2>1. PICK c, text, own :
          /\ c = chunks[k] /\ text = Text(file.text, c.span)
          /\ own = {v \in vectors : v.of = EvidenceId(file, c)}
    OBVIOUS
  <2>2. own # {}
    <3>1. k \in DOMAIN chunks \cap 1..done
      BY <1>1 DEF Left
    <3> QED
      BY <1>1, <2>1, <3>1 DEF BatchesInv, HasVector
  <2>3. \A v \in own : v.text = text
    <3> SUFFICES ASSUME NEW v \in own PROVE v.text = text
      OBVIOUS
    <3>1. PICK at : v.of = <<at, v.text>>
      BY <2>1 DEF BatchesInv, VectorsOwn
    <3>2. <<at, v.text>> = EvidenceId(file, c)
      BY <2>1, <3>1
    <3> QED
      BY <2>1, <3>2, IdsTellTexts
  <2>4. (CHOOSE v \in own : TRUE).text = text
    BY <2>2, <2>3
  <2>5. Record(c) = [c EXCEPT !.vector = text]
    BY <2>1, <2>2, <2>4 DEF Record
  <2>6. IsChunk(c)
    BY <2>1 DEF BatchesInv
  <2>7. PICK r : r = Record(c)
    OBVIOUS
  <2>8. r = [span |-> c.span, at |-> c.at, doc |-> c.doc, vector |-> text,
             partition |-> c.partition]
    BY <2>5, <2>6, <2>7 DEF IsChunk
  <2>9. IsChunk(r) /\ r.vector = text /\ r.span = c.span
    BY <2>8 DEF IsChunk
  <2>10. chunks'[k] = r
    BY <1>1, <2>1, <2>7
  <2> QED
    BY <2>1, <2>9, <2>10 DEF OwnVector
<1>3. DOMAIN chunks' = DOMAIN chunks
  BY <1>1
<1>4. VectorsOwn' /\ rows' = {} /\ 1..done' = {} /\ done' \in Nat
  BY <1>1 DEF BatchesInv, VectorsOwn
<1> QED
  BY <1>1, <1>2, <1>3, <1>4 DEF BatchesInv

\* A batch that is stored gets its rows, and what a row gives way to quoted the
\* same text.
LEMMA UpsertBatches ==
  ASSUME ChunkAssumption, BatchesInv, UpsertBatch
  PROVE  BatchesInv'
<1>1. PICK batch, kept, quoted, lost :
        /\ batch = {chunks[k] : k \in Batch(UpsertSize)}
        /\ kept = {r \in rows : \A c \in batch :
                                  EvidenceId(file, c) # EvidenceId(file, r)}
        /\ quoted = UNION {Span(c.span) : c \in batch}
        /\ lost = UNION {Span(r.span) : r \in {r \in rows \ kept : \A c \in batch :
                     Text(file.text, c.span) # Text(file.text, r.span)}}
        /\ rows' = kept \cup batch
        /\ found' = (found \ lost) \cup quoted
  BY DEF UpsertBatch
<1>2. /\ pc = "upsert" /\ UNCHANGED <<pc, file, chunks, vectors>>
      /\ done' = done + UpsertSize
  BY DEF UpsertBatch
<1>3. done \in Nat /\ UpsertSize \in Nat /\ done' \in Nat
  BY <1>2, ChunkAssumption DEF BatchesInv
<1>4. lost = {}
  <2> SUFFICES ASSUME NEW r \in rows \ kept
               PROVE  \E c \in batch : Text(file.text, c.span) = Text(file.text, r.span)
    BY <1>1
  <2>1. PICK c \in batch : EvidenceId(file, c) = EvidenceId(file, r)
    BY <1>1
  <2>2. PICK at, text : at = c.at /\ text = Text(file.text, c.span)
    OBVIOUS
  <2>3. <<at, text>> = EvidenceId(file, r)
    BY <2>1, <2>2 DEF EvidenceId
  <2>4. text = Text(file.text, r.span)
    BY <2>3, IdsTellTexts
  <2> QED
    BY <2>2, <2>4
<1>5. found \subseteq found' /\ quoted \subseteq found'
  BY <1>1, <1>4
<1>6. ASSUME NEW r \in rows
      PROVE  \E s \in rows' : EvidenceId(file, s) = EvidenceId(file, r)
  BY <1>1
<1>7. ASSUME NEW k \in DOMAIN chunks' \cap 1..done'
      PROVE  Quoted(chunks'[k], file', rows', found')
  <2>1. k \in DOMAIN chunks \cap 1..done \/ k \in Batch(UpsertSize)
    BY <1>2, <1>3, NextBatch
  <2>2. CASE k \in DOMAIN chunks \cap 1..done
    <3>1. Quoted(chunks[k], file, rows, found)
      BY <1>2, <2>2 DEF BatchesInv
    <3>2. PICK r \in rows : EvidenceId(file, r) = EvidenceId(file, chunks[k])
      BY <3>1 DEF Quoted
    <3>3. \E s \in rows' : EvidenceId(file, s) = EvidenceId(file, chunks[k])
      BY <1>6, <3>2
    <3>4. Span(chunks[k].span) \subseteq found'
      BY <1>5, <3>1 DEF Quoted
    <3> QED
      BY <1>2, <3>3, <3>4 DEF Quoted
  <2>3. CASE k \in Batch(UpsertSize)
    <3>1. chunks[k] \in batch
      BY <1>1, <2>3
    <3>2. Span(chunks[k].span) \subseteq found'
      BY <1>1, <1>5, <3>1
    <3>3. chunks[k] \in rows'
      BY <1>1, <3>1
    <3> QED
      BY <1>2, <3>2, <3>3 DEF Quoted
  <2> QED
    BY <2>1, <2>2, <2>3
<1>8. ASSUME NEW r \in rows' PROVE \E k \in DOMAIN chunks' : r = chunks'[k]
  <2>1. CASE r \in rows
    BY <1>2, <2>1 DEF BatchesInv
  <2>2. CASE r \in batch
    BY <1>1, <1>2, <2>2 DEF Batch, Left
  <2> QED
    BY <1>1, <2>1, <2>2
<1>9. VectorsOwn' /\ \A k \in DOMAIN chunks' : IsChunk(chunks'[k])
  BY <1>2 DEF BatchesInv, VectorsOwn
<1>10. \A k \in DOMAIN chunks' : OwnVector(chunks'[k], file')
  BY <1>2 DEF BatchesInv
<1> QED
  BY <1>2, <1>3, <1>7, <1>8, <1>9, <1>10 DEF BatchesInv

\* At first there is no file.
LEMMA BatchesInit == Init => BatchesInv
<1> SUFFICES ASSUME Init PROVE BatchesInv
  OBVIOUS
<1>1. pc = "next" /\ chunks = <<>> /\ vectors = {} /\ done = 0 /\ rows = {}
  BY DEF Init
<1> QED
  BY <1>1 DEF BatchesInv, VectorsOwn

\* Every step keeps what the batches have done.
LEMMA BatchesStep ==
  ASSUME BatchesInv, [Next]_vars
  PROVE  BatchesInv'
<1>1. ASSUME NEW d, NEW options, Chunk(d, options) PROVE BatchesInv'
  BY <1>1, ChunkBatches
<1>2. CASE EmbedBatch
  BY <1>2, EmbedBatches, ChunkAssumption
<1>3. CASE ToPersistedRecords
  BY <1>3, RecordBatches
<1>4. CASE UpsertBatch
  BY <1>4, UpsertBatches, ChunkAssumption
<1>5. CASE Stored
  <2>1. /\ pc = "upsert" /\ pc' = "stored" /\ Left = {}
        /\ UNCHANGED <<file, chunks, vectors, done, rows, found>>
    BY <1>5 DEF Stored
  <2>2. \A k \in DOMAIN chunks : Quoted(chunks[k], file, rows, found)
    BY <2>1 DEF BatchesInv, Left
  <2> QED
    BY <2>1, <2>2 DEF BatchesInv, VectorsOwn
<1>6. CASE NextFile
  <2>1. /\ pc' = "next" /\ chunks' = <<>> /\ vectors' = {} /\ done' = 0
        /\ rows' = {}
    BY <1>6 DEF NextFile
  <2> QED
    BY <2>1 DEF BatchesInv, VectorsOwn
<1>7. CASE UNCHANGED vars
  BY <1>7 DEF vars, BatchesInv, VectorsOwn
<1> QED
  BY <1>1, <1>2, <1>3, <1>4, <1>5, <1>6, <1>7 DEF Next

\* Whatever is cut and whatever the sizes of the batches of
\* default-ingestion-pipeline.ts, a row has the vector of its own text, and no
\* chunk is left out of the store, though equal ones share a row.
THEOREM EveryChunkIsStored == Spec => []ChunksStored
<1>1. Init => BatchesInv
  BY BatchesInit
<1>2. BatchesInv /\ [Next]_vars => BatchesInv'
  BY BatchesStep
<1>3. BatchesInv => ChunksStored
  <2> SUFFICES ASSUME BatchesInv PROVE ChunksStored
    OBVIOUS
  <2>1. ASSUME NEW r \in rows PROVE r.vector = Text(file.text, r.span)
    <3>1. PICK k \in DOMAIN chunks : r = chunks[k]
      BY DEF BatchesInv
    <3>2. pc \in {"upsert", "stored"}
      BY <3>1 DEF BatchesInv
    <3> QED
      BY <3>1, <3>2 DEF BatchesInv, OwnVector
  <2>2. pc = "stored" => \A k \in DOMAIN chunks :
          Quoted(chunks[k], file, rows, found)
    BY DEF BatchesInv
  <2> QED
    BY <2>1, <2>2 DEF ChunksStored, Quoted
<1> QED
  BY <1>1, <1>2, <1>3, PTL DEF Spec

-----------------------------------------------------------------------------
(* What is stored of a file *)

\* While a file is stored its chunks are as the chunker has cut them.
CutInv == pc # "next" => file \in Documents /\ GoodChunks(file, setting, chunks)

\* The vector of a chunk changes nothing of it.
LEMMA RecordKeeps ==
  ASSUME NEW c, IsChunk(c)
  PROVE  LET r == Record(c)
         IN /\ r.span = c.span /\ r.at = c.at /\ r.partition = c.partition
            /\ r.doc = c.doc
<1>1. PICK v : Record(c) = [c EXCEPT !.vector = v]
  BY DEF Record
<1>2. PICK r : r = Record(c)
  OBVIOUS
<1>3. r = [span |-> c.span, at |-> c.at, doc |-> c.doc, vector |-> v,
           partition |-> c.partition]
  BY <1>1, <1>2 DEF IsChunk
<1>4. /\ r.span = c.span /\ r.at = c.at /\ r.partition = c.partition
      /\ r.doc = c.doc
  BY <1>3
<1> QED
  BY <1>2, <1>4

\* Chunks are cut once, and keep their spans and places.
LEMMA CutStep ==
  ASSUME BatchesInv, CutInv, [Next]_vars
  PROVE  CutInv'
<1>1. ASSUME NEW d \in Documents, NEW options \in Settings, Chunk(d, options)
      PROVE  CutInv'
  <2>1. PICK o : o = NormalizeChunkingOptions(options) /\ IsOptions(o)
    BY SettingIs
  <2>2. file' = d /\ setting' = o /\ chunks' = Chunks(d, o)
    BY <1>1, <2>1 DEF Chunk
  <2>3. GoodChunks(d, o, Chunks(d, o))
    BY <2>1, ChunksAre
  <2> QED
    BY <2>2, <2>3 DEF CutInv
<1>2. CASE EmbedBatch
  BY <1>2 DEF EmbedBatch, CutInv
<1>3. CASE ToPersistedRecords
  <2>1. /\ pc = "embed" /\ file' = file /\ setting' = setting
        /\ chunks' = [k \in DOMAIN chunks |-> Record(chunks[k])]
    BY <1>3 DEF ToPersistedRecords
  <2>2. file \in Documents /\ GoodChunks(file, setting, chunks)
    BY <2>1 DEF CutInv
  <2>3. ASSUME NEW k \in DOMAIN chunks
        PROVE  /\ chunks'[k].span = chunks[k].span /\ chunks'[k].at = chunks[k].at
               /\ chunks'[k].partition = chunks[k].partition
               /\ chunks'[k].doc = chunks[k].doc
    <3>1. PICK c : c = chunks[k] /\ IsChunk(c)
      BY DEF BatchesInv
    <3>2. PICK r : r = Record(c) /\ chunks'[k] = r
      BY <2>1, <3>1
    <3>3. /\ r.span = c.span /\ r.at = c.at /\ r.partition = c.partition
          /\ r.doc = c.doc
      BY <3>1, <3>2, RecordKeeps
    <3> QED
      BY <3>1, <3>2, <3>3
  <2>4. DOMAIN chunks' = DOMAIN chunks
    BY <2>1
  <2>5. ASSUME NEW k \in DOMAIN chunks PROVE GoodChunk(file, setting, chunks'[k])
    <3>1. GoodChunk(file, setting, chunks[k])
      BY <2>2 DEF GoodChunks
    <3>2. Explained(file, chunks'[k], setting)
      <4>1. PICK b, c : b = chunks[k] /\ c = chunks'[k]
        OBVIOUS
      <4>2. c.span = b.span /\ c.doc = b.doc /\ Explained(file, b, setting)
        BY <2>3, <3>1, <4>1 DEF GoodChunk
      <4> QED
        BY <4>1, <4>2 DEF Explained
    <3> QED
      BY <2>3, <3>1, <3>2 DEF GoodChunk
  <2>6. GoodChunks(file, setting, chunks')
    BY <2>2, <2>3, <2>4, <2>5 DEF GoodChunks
  <2> QED
    BY <2>1, <2>2, <2>6 DEF CutInv
<1>4. CASE UpsertBatch
  BY <1>4 DEF UpsertBatch, CutInv
<1>5. CASE Stored
  BY <1>5 DEF Stored, CutInv
<1>6. CASE NextFile
  BY <1>6 DEF NextFile, CutInv
<1>7. CASE UNCHANGED vars
  BY <1>7 DEF vars, CutInv
<1> QED
  BY <1>1, <1>2, <1>3, <1>4, <1>5, <1>6, <1>7 DEF Next

\* What the chunker cuts and the batches store, at every step.
LEMMA BatchesAndCut == Spec => [](BatchesInv /\ CutInv)
<1>1. Init => BatchesInv /\ CutInv
  BY BatchesInit DEF Init, CutInv
<1>2. BatchesInv /\ CutInv /\ [Next]_vars => (BatchesInv /\ CutInv)'
  BY BatchesStep, CutStep
<1> QED
  BY <1>1, <1>2, PTL DEF Spec

\* From the text of a file to its rows no character is lost: sections,
\* paragraphs, windows of lines and of characters, at any sizes, overlaps and
\* depths, and batches quote all that was to be cut and is not blank.
THEOREM NoTextIsLost == Spec => []TextFound
<1>1. BatchesInv /\ CutInv => TextFound
  <2> SUFFICES ASSUME BatchesInv, CutInv, pc = "stored", setting.policy = "split",
                      NEW p \in Given(file) \ Blank(file.text)
               PROVE  p \in found
    BY DEF TextFound
  <2>1. PICK k \in DOMAIN chunks : p \in Span(chunks[k].span)
    BY DEF CutInv, GoodChunks
  <2>2. Quoted(chunks[k], file, rows, found)
    BY DEF BatchesInv
  <2> QED
    BY <2>1, <2>2 DEF Quoted
<1> QED
  BY <1>1, BatchesAndCut, PTL

\* A row is never empty nor longer than a window; the search refuses none but
\* windows of what is longer and could not be cut, a single line with a
\* maxSplitDepth of two or more (the rounds of splitSegment in
\* default-chunker.ts); and one of code is from the lines and from the partition
\* that it names.
THEOREM RowsAlwaysFit == Spec => []RowsFit
<1>1. ASSUME BatchesInv, CutInv, NEW r \in rows
      PROVE  /\ ~Empty(r.span) /\ 2 * Size(r.span) < setting.max + 2
             /\ Explained(file, r, setting)
             /\ file.kind = "code" /\ ~Shifted(file) =>
                  LET line(i) == LineIn(file.text, All(file.text), i) + 1
                  IN /\ r.at.lines[1] <= line(r.span[1])
                     /\ line(r.span[2]) <= r.at.lines[2]
                     /\ r.partition # None =>
                          LET part == CreatePartitions(file.text)[r.partition]
                          IN Span(r.span) \subseteq Span(part.span)
  <2>1. PICK k \in DOMAIN chunks : r = chunks[k]
    BY <1>1 DEF BatchesInv
  <2>2. pc # "next"
    BY <1>1 DEF BatchesInv
  <2>3. file \in Documents /\ GoodChunk(file, setting, r)
    BY <1>1, <2>1, <2>2 DEF CutInv, GoodChunks
  <2>4. Tight(file.text, r.span)
    BY <2>3 DEF GoodChunk
  <2>5. ~Empty(r.span) /\ 2 * Size(r.span) < setting.max + 2
    BY <2>3, <2>4 DEF GoodChunk, Fits, Tight
  <2>6. ASSUME file.kind = "code", ~Shifted(file)
        PROVE  /\ r.at.lines[1] <= Line(file.text, r.span[1])
               /\ Line(file.text, r.span[2]) <= r.at.lines[2]
               /\ r.partition # None =>
                    Span(r.span) \subseteq
                      Span(CreatePartitions(file.text)[r.partition].span)
    <3>1. Placed(file, r.span, r.at)
      BY <2>3, <2>6 DEF GoodChunk, WellPlaced
    <3>2. /\ r.span[1] \in Span(r.span) \ Blank(file.text)
          /\ r.span[2] \in Span(r.span) \ Blank(file.text)
      BY <2>3, <2>4, TightEnds
    <3>3. r.partition = ResolvePartition(file, r.at)
      BY <2>3 DEF GoodChunk
    <3>4. r.partition # None =>
            Span(r.span) \subseteq
              Span(CreatePartitions(file.text)[ResolvePartition(file, r.at)].span)
      BY <2>3, <2>4, <2>6, <3>1, <3>3, ResolvedHolds
    <3> QED
      BY <3>1, <3>2, <3>3, <3>4 DEF Placed
  <2> QED
    BY <2>3, <2>5, <2>6 DEF Line, GoodChunk
<1>2. BatchesInv /\ CutInv => RowsFit
  BY <1>1 DEF RowsFit, Explained, Refused
<1> QED
  BY <1>2, BatchesAndCut, PTL
==============================================================================
