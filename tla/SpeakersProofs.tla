--------------------------- MODULE SpeakersProofs ---------------------------
(***************************************************************************)
(* What the analysis of clips computes, for every upload: that the preview *)
(* of a speaker leads back to that speaker and, if embeddings tell people  *)
(* apart, that a cluster is of one person in every reading. The way there  *)
(* goes through everything that happens to a turn: selecting and sorting,  *)
(* the fold that joins the speakers of all clips into clusters, the fold   *)
(* that cuts a preview, and the sums that are sorted by. FoldFacts says    *)
(* what a fold does; here it is instantiated with the operators that are   *)
(* folded.                                                                 *)
(***************************************************************************)
EXTENDS Speakers, FiniteSetTheorems, TLAPS

\* The operators that are folded, or added up over a set.
Lengths == INSTANCE FoldFacts WITH op <- LAMBDA sum, x : sum + Length(x), worth <- Length
Hearing == INSTANCE FoldFacts WITH op <- Hear, worth <- Length
Joining == INSTANCE FoldFacts WITH op <- Join, worth <- Duration
Crosswise == INSTANCE FoldFacts WITH op <- Hear, worth <- Across
Lengthwise == INSTANCE FoldFacts WITH op <- Hear, worth <- Along

\* What comes before x in an order R, with x itself.
UpTo(K, R, x) == {y \in K : <<y, x>> \in R}

IsOrder(R, K) ==
  /\ \A x \in K : <<x, x>> \in R
  /\ \A x, y \in K : <<x, y>> \in R \/ <<y, x>> \in R
  /\ \A x, y \in K : <<x, y>> \in R /\ <<y, x>> \in R => x = y
  /\ \A x, y, z \in K : <<x, y>> \in R /\ <<y, z>> \in R => <<x, z>> \in R

\* Counting what comes before it gives everything in a finite order its place, and every place
\* to something.
LEMMA Ranks ==
  ASSUME NEW K, IsFiniteSet(K), NEW R, IsOrder(R, K)
  PROVE  /\ Cardinality(K) \in Nat
         /\ \A x \in K : Cardinality(UpTo(K, R, x)) \in 1..Cardinality(K)
         /\ \A x, y \in K : <<x, y>> \in R /\ x # y =>
              Cardinality(UpTo(K, R, x)) < Cardinality(UpTo(K, R, y))
         /\ \A n \in 1..Cardinality(K) : \E x \in K : Cardinality(UpTo(K, R, x)) = n
<1> DEFINE rank == [x \in K |-> Cardinality(UpTo(K, R, x))]
           N == 1..Cardinality(K)
<1>1. Cardinality(K) \in Nat
  BY FS_CardinalityType
<1>2. ASSUME NEW x \in K
      PROVE  /\ IsFiniteSet(UpTo(K, R, x)) /\ UpTo(K, R, x) \subseteq K /\ x \in UpTo(K, R, x)
             /\ Cardinality(UpTo(K, R, x)) \in N
  <2>1. UpTo(K, R, x) \in SUBSET K /\ x \in UpTo(K, R, x)
    BY DEF UpTo, IsOrder
  <2>2. IsFiniteSet(UpTo(K, R, x)) /\ Cardinality(UpTo(K, R, x)) <= Cardinality(K)
    BY <2>1, FS_Subset
  <2>3. Cardinality(UpTo(K, R, x)) \in Nat /\ Cardinality(UpTo(K, R, x)) # 0
    BY <2>1, <2>2, FS_CardinalityType, FS_EmptySet
  <2> QED BY <1>1, <2>1, <2>2, <2>3
<1>3. ASSUME NEW x \in K, NEW y \in K, <<x, y>> \in R, x # y
      PROVE  Cardinality(UpTo(K, R, x)) < Cardinality(UpTo(K, R, y))
  <2>1. UpTo(K, R, x) \in SUBSET UpTo(K, R, y) /\ y \notin UpTo(K, R, x)
    BY <1>3 DEF UpTo, IsOrder
  <2>2. UpTo(K, R, x) # UpTo(K, R, y)
    BY <1>2, <2>1
  <2>3. /\ Cardinality(UpTo(K, R, x)) <= Cardinality(UpTo(K, R, y))
        /\ Cardinality(UpTo(K, R, x)) # Cardinality(UpTo(K, R, y))
    BY <1>2, <2>1, <2>2, FS_Subset
  <2> QED BY <1>1, <1>2, <2>3
<1>4. rank \in Injection(K, N)
  <2>1. rank \in [K -> N]
    BY <1>2
  <2>2. ASSUME NEW x \in K, NEW y \in K, rank[x] = rank[y] PROVE x = y
    <3>1. rank[x] \in Int /\ rank[y] \in Int
      BY <2>1, <1>1
    <3>2. <<x, y>> \in R \/ <<y, x>> \in R
      BY DEF IsOrder
    <3> QED BY <1>3, <2>2, <3>1, <3>2
  <2> HIDE DEF rank
  <2> QED BY <2>1, <2>2 DEF Injection, IsInjective
<1>5. IsFiniteSet(N) /\ Cardinality(N) = Cardinality(K)
  BY <1>1, FS_Interval
<1>6. rank \in Surjection(K, N)
  <2> HIDE DEF rank, N
  <2> QED BY <1>4, <1>5, FS_Injection
<1>7. \A n \in N : \E x \in K : rank[x] = n
  <2> HIDE DEF rank
  <2> QED BY <1>6 DEF Surjection
<1> QED BY <1>1, <1>2, <1>3, <1>7

\* The n-th smallest of some numbers.
Nth(I, n) == CHOOSE i \in I : Cardinality({j \in I : j <= i}) = n

\* Each of them is the n-th for some n.
LEMMA NthPlace ==
  ASSUME NEW I, IsFiniteSet(I), I \subseteq Int
  PROVE  /\ Cardinality(I) \in Nat
         /\ \A n \in 1..Cardinality(I) : Nth(I, n) \in I
         /\ \A m, n \in 1..Cardinality(I) : m < n => Nth(I, m) < Nth(I, n)
         /\ \A i \in I : \E n \in 1..Cardinality(I) : Nth(I, n) = i
<1> DEFINE R == {ji \in Int \X Int : ji[1] <= ji[2]}
           At(i) == Cardinality({j \in I : j <= i})
           N == 1..Cardinality(I)
<1>1. IsOrder(R, I)
  BY DEF IsOrder
<1>2. ASSUME NEW i \in I PROVE UpTo(I, R, i) = {j \in I : j <= i}
  BY DEF UpTo
<1>3. /\ Cardinality(I) \in Nat
      /\ \A i \in I : At(i) \in N
      /\ \A i, j \in I : i < j => At(i) < At(j)
      /\ \A n \in N : \E i \in I : At(i) = n
  <2>1. \A i, j \in I : i < j => <<i, j>> \in R /\ i # j
    OBVIOUS
  <2> HIDE DEF R, At
  <2>2. \A i \in I : At(i) = Cardinality(UpTo(I, R, i))
    BY <1>2 DEF At
  <2>3. /\ Cardinality(I) \in Nat
        /\ \A i \in I : Cardinality(UpTo(I, R, i)) \in N
        /\ \A i, j \in I : <<i, j>> \in R /\ i # j =>
             Cardinality(UpTo(I, R, i)) < Cardinality(UpTo(I, R, j))
        /\ \A n \in N : \E i \in I : Cardinality(UpTo(I, R, i)) = n
    BY <1>1, Ranks
  <2>4. ASSUME NEW i \in I, NEW j \in I, i < j PROVE At(i) < At(j)
    <3>1. Cardinality(UpTo(I, R, i)) < Cardinality(UpTo(I, R, j))
      BY <2>1, <2>3, <2>4, Zenon
    <3> QED BY <2>2, <3>1, Zenon
  <2>5. ASSUME NEW n \in N PROVE \E i \in I : At(i) = n
    BY <2>2, <2>3
  <2> HIDE DEF N
  <2> QED BY <2>2, <2>3, <2>4, <2>5
<1>4. \A n \in N : Nth(I, n) \in I /\ At(Nth(I, n)) = n
  <2> HIDE DEF N
  <2> QED BY <1>3, Zenon DEF Nth
<1> HIDE DEF At
<1>5. ASSUME NEW m \in N, NEW n \in N, m < n PROVE Nth(I, m) < Nth(I, n)
  <2>1. PICK i \in I, j \in I : i = Nth(I, m) /\ j = Nth(I, n) /\ At(i) = m /\ At(j) = n
    BY <1>4
  <2>2. ~(j < i) /\ i # j
    BY <1>3, <1>5, <2>1
  <2>3. i < j
    BY <2>2
  <2> QED BY <2>1, <2>3
<1>6. ASSUME NEW i \in I PROVE \E n \in N : Nth(I, n) = i
  <2>1. PICK j \in I : j = Nth(I, At(i)) /\ At(j) = At(i)
    BY <1>3, <1>4
  <2>2. ~(j < i) /\ ~(i < j)
    BY <1>3, <2>1
  <2>3. i = j
    BY <2>2
  <2> QED BY <1>3, <2>1, <2>3
<1> QED BY <1>3, <1>4, <1>5, <1>6

\* Some places, from the first to the last.
LEMMA PlacesInOrder ==
  ASSUME NEW L \in Nat, NEW I \in SUBSET (1..L)
  PROVE  /\ Cardinality(I) \in Nat /\ Places(I) \in [1..Cardinality(I) -> I]
         /\ \A m, n \in 1..Cardinality(I) : m < n => Places(I)[m] < Places(I)[n]
         /\ \A i \in I : \E n \in 1..Cardinality(I) : Places(I)[n] = i
<1>1. IsFiniteSet(I) /\ I \subseteq Int
  <2>1. IsFiniteSet(1..L)
    BY FS_Interval
  <2>2. IsFiniteSet(I)
    BY <2>1, FS_Subset, Zenon
  <2> QED BY <2>2
<1>2. Places(I) = [n \in 1..Cardinality(I) |-> Nth(I, n)]
  BY DEF Places, Nth
<1>3. /\ Cardinality(I) \in Nat
      /\ \A n \in 1..Cardinality(I) : Nth(I, n) \in I
      /\ \A m, n \in 1..Cardinality(I) : m < n => Nth(I, m) < Nth(I, n)
      /\ \A i \in I : \E n \in 1..Cardinality(I) : Nth(I, n) = i
  BY <1>1, NthPlace
<1> QED BY <1>2, <1>3

\* The n-th largest of some keys, the earlier place first where they are equal.
Ranking(K, n) == CHOOSE x \in K : Cardinality({y \in K : Ahead(y, x)}) = n

\* Each key has its rank, and ranks follow the order.
LEMMA RankPlace ==
  ASSUME NEW K, IsFiniteSet(K), K \subseteq [key : Int, place : Int],
         \A x, y \in K : x.place = y.place => x = y
  PROVE  /\ Cardinality(K) \in Nat
         /\ \A n \in 1..Cardinality(K) : Ranking(K, n) \in K
         /\ \A m, n \in 1..Cardinality(K) : m < n =>
              Ranking(K, m) # Ranking(K, n) /\ Ahead(Ranking(K, m), Ranking(K, n))
         /\ \A x \in K : \E n \in 1..Cardinality(K) : Ranking(K, n) = x
<1> DEFINE R == {yx \in K \X K : Ahead(yx[1], yx[2])}
           At(x) == Cardinality({y \in K : Ahead(y, x)})
           N == 1..Cardinality(K)
<1>1. \A x, y \in K : <<x, y>> \in R <=> Ahead(x, y)
  OBVIOUS
<1>2. IsOrder(R, K)
  <2>1. \A x \in K : x.key \in Int /\ x.place \in Int
    OBVIOUS
  <2>2. /\ \A x \in K : Ahead(x, x)
        /\ \A x, y \in K : Ahead(x, y) \/ Ahead(y, x)
        /\ \A x, y \in K : Ahead(x, y) /\ Ahead(y, x) => x.place = y.place
        /\ \A x, y, z \in K : Ahead(x, y) /\ Ahead(y, z) => Ahead(x, z)
    BY <2>1 DEF Ahead
  <2> HIDE DEF R
  <2> QED BY <1>1, <2>2 DEF IsOrder
<1>3. ASSUME NEW x \in K PROVE UpTo(K, R, x) = {y \in K : Ahead(y, x)}
  BY DEF UpTo
<1>4. /\ Cardinality(K) \in Nat
      /\ \A x \in K : At(x) \in N
      /\ \A x, y \in K : Ahead(x, y) /\ x # y => At(x) < At(y)
      /\ \A n \in N : \E x \in K : At(x) = n
  <2> HIDE DEF R, At
  <2>1. \A x \in K : At(x) = Cardinality(UpTo(K, R, x))
    BY <1>3 DEF At
  <2>2. /\ Cardinality(K) \in Nat
        /\ \A x \in K : Cardinality(UpTo(K, R, x)) \in N
        /\ \A x, y \in K : <<x, y>> \in R /\ x # y =>
             Cardinality(UpTo(K, R, x)) < Cardinality(UpTo(K, R, y))
        /\ \A n \in N : \E x \in K : Cardinality(UpTo(K, R, x)) = n
    BY <1>2, Ranks
  <2> QED BY <1>1, <2>1, <2>2
<1>5. \A n \in N : Ranking(K, n) \in K /\ At(Ranking(K, n)) = n
  <2> HIDE DEF N
  <2> QED BY <1>4, Zenon DEF Ranking
<1>6. \A x, y \in K : Ahead(x, y) \/ Ahead(y, x)
  <2> HIDE DEF R
  <2> QED BY <1>1, <1>2 DEF IsOrder
<1> HIDE DEF At
<1>7. ASSUME NEW m \in N, NEW n \in N, m < n
      PROVE  Ranking(K, m) # Ranking(K, n) /\ Ahead(Ranking(K, m), Ranking(K, n))
  BY <1>4, <1>5, <1>6, <1>7
<1>8. ASSUME NEW x \in K PROVE \E n \in N : Ranking(K, n) = x
  <2>1. PICK y \in K : y = Ranking(K, At(x)) /\ At(y) = At(x)
    BY <1>4, <1>5
  <2>2. x = y
    BY <1>4, <1>6, <2>1
  <2> QED BY <1>4, <2>1, <2>2
<1> QED BY <1>4, <1>5, <1>7, <1>8

\* Every place comes once in the order of some keys, those with larger keys first.
LEMMA OrderSorts ==
  ASSUME NEW L \in Nat, NEW keys \in [1..L -> Int]
  PROVE  /\ Order(keys) \in [1..L -> 1..L]
         /\ \A m, n \in 1..L : m < n =>
              /\ Order(keys)[m] # Order(keys)[n]
              /\ keys[Order(keys)[m]] >= keys[Order(keys)[n]]
         /\ \A i \in 1..L : \E n \in 1..L : Order(keys)[n] = i
<1> DEFINE D == 1..L
           K == {[key |-> keys[i], place |-> i] : i \in D}
           At(n) == Ranking(K, n).place
<1>1. Order(keys) = [n \in D |-> At(n)]
  <2>1. DOMAIN keys = D
    OBVIOUS
  <2>2. Order(keys) = [n \in DOMAIN keys |->
                         Ranking({[key |-> keys[i], place |-> i] : i \in DOMAIN keys}, n).place]
    BY Zenon DEF Order, Ranking
  <2> QED BY <2>1, <2>2, Zenon
<1>2. /\ K \subseteq [key : Int, place : Int]
      /\ \A x \in K : x.place \in D /\ x.key = keys[x.place]
      /\ \A x, y \in K : x.place = y.place => x = y
      /\ \A i \in D : \E x \in K : x.place = i
  <2>1. ASSUME NEW x \in K
        PROVE  \E i \in D : x = [key |-> keys[i], place |-> i] /\ keys[i] \in Int /\ i \in Int
    OBVIOUS
  <2>2. \A i \in D : [key |-> keys[i], place |-> i] \in K
    OBVIOUS
  <2>3. \A x \in K : x \in [key : Int, place : Int] /\ x.place \in D /\ x.key = keys[x.place]
    BY <2>1
  <2>4. \A x, y \in K : x.place = y.place => x = y
    BY <2>1
  <2> HIDE DEF D
  <2> QED BY <2>2, <2>3, <2>4
<1>3. IsFiniteSet(K) /\ Cardinality(K) = L
  <2> DEFINE f == [i \in D |-> [key |-> keys[i], place |-> i]]
  <2>1. f \in Bijection(D, K)
    <3>1. f \in [D -> K]
      OBVIOUS
    <3>2. \A i, j \in D : f[i] = f[j] => i = j
      OBVIOUS
    <3>3. \A x \in K : \E i \in D : f[i] = x
      OBVIOUS
    <3> HIDE DEF f
    <3> QED BY <3>1, <3>2, <3>3 DEF Bijection, Injection, Surjection, IsInjective
  <2>2. IsFiniteSet(1..L) /\ Cardinality(1..L) = L
    <3>1. L \in Nat /\ 1 \in Int /\ L \in Int
      OBVIOUS
    <3>2. IsFiniteSet(1..L) /\
          Cardinality(1..L) = IF 1 > L THEN 0 ELSE L - 1 + 1
      BY <3>1, FS_Interval, Zenon
    <3> QED BY <3>1, <3>2
  <2> HIDE DEF f
  <2> QED BY <2>1, <2>2, FS_Bijection DEF ExistsBijection
<1> HIDE DEF K
<1>4. /\ \A n \in D : Ranking(K, n) \in K
      /\ \A m, n \in D : m < n =>
           Ranking(K, m) # Ranking(K, n) /\ Ahead(Ranking(K, m), Ranking(K, n))
      /\ \A x \in K : \E n \in D : Ranking(K, n) = x
  <2>1. D = 1..Cardinality(K)
    BY <1>3
  <2> HIDE DEF D
  <2> QED BY <1>2, <1>3, <2>1, RankPlace
<1>5. \A n \in D : At(n) \in D
  BY ONLY <1>2, <1>4
<1>7. ASSUME NEW m \in D, NEW n \in D, m < n
      PROVE  At(m) # At(n) /\ keys[At(m)] >= keys[At(n)]
  <2>1. PICK x \in K, y \in K : x = Ranking(K, m) /\ y = Ranking(K, n)
    BY <1>4
  <2>2. x # y /\ Ahead(x, y)
    BY <1>4, <1>7, <2>1
  <2>3. x.key \in Int /\ y.key \in Int
    BY <1>2
  <2>4. x.key >= y.key
    BY <2>2, <2>3 DEF Ahead
  <2> QED BY <1>2, <2>1, <2>2, <2>4
<1>8. ASSUME NEW i \in D PROVE \E n \in D : At(n) = i
  <2>1. PICK x \in K : x.place = i
    BY <1>2
  <2>2. PICK n \in D : Ranking(K, n) = x
    BY <1>4
  <2> QED BY <2>1, <2>2
<1> HIDE DEF At
<1> QED BY <1>1, <1>5, <1>7, <1>8

\* What is selected is what was at the places in question, in its order.
LEMMA Selection ==
  ASSUME NEW S, NEW s \in Seq(S), NEW I \in SUBSET DOMAIN s
  PROVE  /\ Cardinality(I) \in Nat
         /\ Taken(s, Places(I)) \in Seq(S) /\ Len(Taken(s, Places(I))) = Cardinality(I)
         /\ \A n \in 1..Cardinality(I) :
              Places(I)[n] \in I /\ Taken(s, Places(I))[n] = s[Places(I)[n]]
         /\ \A m, n \in 1..Cardinality(I) : m < n => Places(I)[m] < Places(I)[n]
         /\ \A i \in I : \E n \in 1..Cardinality(I) : Places(I)[n] = i
<1>1. DOMAIN s = 1..Len(s) /\ Len(s) \in Nat /\ I \in SUBSET (1..Len(s))
  OBVIOUS
<1>2. /\ Cardinality(I) \in Nat /\ Places(I) \in [1..Cardinality(I) -> I]
      /\ \A m, n \in 1..Cardinality(I) : m < n => Places(I)[m] < Places(I)[n]
      /\ \A i \in I : \E n \in 1..Cardinality(I) : Places(I)[n] = i
  BY <1>1, PlacesInOrder
<1>3. Taken(s, Places(I)) = [n \in 1..Cardinality(I) |-> s[Places(I)[n]]]
  BY <1>2 DEF Taken
<1>4. \A n \in 1..Cardinality(I) : Places(I)[n] \in I /\ s[Places(I)[n]] \in S
  BY <1>1, <1>2
<1>5. /\ Taken(s, Places(I)) \in Seq(S) /\ Len(Taken(s, Places(I))) = Cardinality(I)
  BY <1>2, <1>3, <1>4
<1> QED BY <1>2, <1>3, <1>4, <1>5

\* Sorting only reorders a sequence; what comes first has the largest key.
LEMMA Sorting ==
  ASSUME NEW S, NEW s \in Seq(S), NEW keys \in [DOMAIN s -> Int]
  PROVE  /\ Taken(s, Order(keys)) \in Seq(S) /\ Len(Taken(s, Order(keys))) = Len(s)
         /\ \A n \in DOMAIN s :
              Order(keys)[n] \in DOMAIN s /\ Taken(s, Order(keys))[n] = s[Order(keys)[n]]
         /\ \A m, n \in DOMAIN s : m # n => Order(keys)[m] # Order(keys)[n]
<1>1. DOMAIN s = 1..Len(s) /\ Len(s) \in Nat /\ keys \in [1..Len(s) -> Int]
  OBVIOUS
<1>2. /\ Order(keys) \in [1..Len(s) -> 1..Len(s)]
      /\ \A m, n \in 1..Len(s) : m < n => Order(keys)[m] # Order(keys)[n]
  BY <1>1, OrderSorts
<1>3. Taken(s, Order(keys)) = [n \in 1..Len(s) |-> s[Order(keys)[n]]]
  BY <1>2 DEF Taken
<1>4. \A n \in 1..Len(s) : Order(keys)[n] \in DOMAIN s /\ s[Order(keys)[n]] \in S
  BY <1>1, <1>2
<1>5. Taken(s, Order(keys)) \in Seq(S) /\ Len(Taken(s, Order(keys))) = Len(s)
  BY <1>1, <1>3, <1>4
<1>6. ASSUME NEW m \in DOMAIN s, NEW n \in DOMAIN s, m # n
      PROVE  Order(keys)[m] # Order(keys)[n]
  <2>1. m < n \/ n < m
    BY <1>1, <1>6
  <2> QED BY <1>1, <1>2, <2>1
<1> QED BY <1>1, <1>3, <1>4, <1>5, <1>6

-----------------------------------------------------------------------------
(* Sums. *)

\* How much is spoken in some turns.
LEMMA SpeakingIsANumber ==
  ASSUME NEW S, NEW turns \in Seq(S), \A x \in S : Length(x) \in Int
  PROVE  Speaking(turns) \in Int
<1>1. Speaking(turns) = Lengths!FoldLeft(LAMBDA sum, x : sum + Length(x), 0, turns)
  BY Zenon DEF Speaking, Total, FoldLeft, Lengths!FoldLeft, MapThenFoldSet,
               Lengths!MapThenFoldSet, Max, Lengths!Max
<1>2. \A sum \in Int, x \in S : sum + Length(x) \in Int
  OBVIOUS
<1>3. 0 \in Int
  OBVIOUS
<1>4. Lengths!FoldLeft(LAMBDA sum, x : sum + Length(x), 0, turns) \in Int
  BY <1>2, <1>3, Lengths!FoldKeeps, Zenon
<1> QED BY <1>1, <1>4, Zenon

\* How much the speakers of a cluster speak: the fold over a set, whichever comes first.
LEMMA SpeechIsANumber ==
  ASSUME NEW C, IsFiniteSet(C), \A x \in C : Duration(x) \in Int
  PROVE  Speech(C) \in Int
<1>1. Speech(C) = Joining!SumOver(C)
  BY Zenon DEF Speech, MapThenSumSet, MapThenFoldSet, Joining!SumOver, Joining!MapThenSumSet,
               Joining!MapThenFoldSet
<1>2. Joining!IsFiniteSet(C)
  BY Zenon DEF IsFiniteSet, Joining!IsFiniteSet
<1>3. Joining!SumOver(C) \in Int
  BY <1>2, Joining!SumIsANumber
<1> QED BY <1>1, <1>3

-----------------------------------------------------------------------------
(* What is heard in a preview, and all clips in one sequence. *)

\* A preview with something in it is of a turn that is not too short.
LEMMA PreviewIsOfATurn ==
  ASSUME NEW S, NEW turns \in Seq(S), \A x \in S : Length(x) \in Int,
         PreviewParts(turns) # {}
  PROVE  \E i \in DOMAIN turns : Length(turns[i]) >= Crumb
<1> DEFINE keys == [i \in DOMAIN turns |-> Length(turns[i])]
           longest == Taken(turns, Order(keys))
           start == [parts |-> {}, left |-> PreviewTarget]
<1>1. keys \in [DOMAIN turns -> Int]
  OBVIOUS
<1>2. Descending(turns, Length) = longest
  BY DEF Descending
<1> HIDE DEF keys
<1>3. /\ longest \in Seq(S) /\ Len(longest) = Len(turns)
      /\ \A n \in DOMAIN turns :
           Order(keys)[n] \in DOMAIN turns /\ longest[n] = turns[Order(keys)[n]]
  BY <1>1, Sorting
<1> HIDE DEF longest
<1>4. PICK acc : /\ acc[0] = start
                 /\ \A n \in 1..Len(longest) : acc[n] = Hear(acc[n - 1], longest[n])
                 /\ acc[Len(longest)].parts = PreviewParts(turns)
  <2>1. PreviewParts(turns) = Hearing!FoldLeft(Hear, start, longest).parts
    BY <1>2, Zenon DEF PreviewParts, FoldLeft, Hearing!FoldLeft, MapThenFoldSet,
                       Hearing!MapThenFoldSet, Max, Hearing!Max
  <2>2. \E acc : /\ acc[0] = start
                 /\ \A n \in 1..Len(longest) : acc[n] = Hear(acc[n - 1], longest[n])
                 /\ acc[Len(longest)] = Hearing!FoldLeft(Hear, start, longest)
    <3> HIDE DEF start
    <3> QED BY <1>3, Hearing!FoldIsARun, Zenon
  <2> QED BY <2>1, <2>2, Zenon
<1> DEFINE Heard == \E i \in DOMAIN turns : Length(turns[i]) >= Crumb
           T == {n \in Nat : n <= Len(turns) /\ acc[n].parts # {} => Heard}
<1>5. 0 \in T
  BY <1>4
<1>6. ASSUME NEW n \in Nat, n \in T PROVE n + 1 \in T
  <2>1. SUFFICES ASSUME n + 1 <= Len(turns), acc[n + 1].parts # {} PROVE Heard
    OBVIOUS
  <2>2. n + 1 \in DOMAIN turns /\ n + 1 \in 1..Len(longest) /\ (n + 1) - 1 = n
    BY <1>3, <2>1
  <2>3. acc[n + 1] = Hear(acc[n], longest[n + 1])
    BY <1>4, <2>2
  <2>4. CASE acc[n].parts # {}
    BY <1>6, <2>1, <2>4
  <2>5. CASE acc[n].parts = {}
    <3>1. ~(Length(longest[n + 1]) < Crumb)
      BY <2>1, <2>3, <2>5 DEF Hear
    <3>2. PICK i \in DOMAIN turns : longest[n + 1] = turns[i]
      BY <1>3, <2>2
    <3>3. Length(turns[i]) \in Int
      OBVIOUS
    <3> QED BY <3>1, <3>2, <3>3 DEF Crumb
  <2> QED BY <2>4, <2>5
<1>7. Len(turns) \in T
  <2> HIDE DEF T
  <2> QED BY <1>5, <1>6, Hearing!SetInduction
<1> QED BY <1>3, <1>4, <1>7

\* Sequences are joined one after the other.
LEMMA Flattening ==
  ASSUME NEW seqs, NEW L \in Nat, L # 0, Len(seqs) = L
  PROVE  \E acc : /\ acc[1] = seqs[1]
                  /\ \A i \in 2..L : acc[i] = acc[i - 1] \o seqs[i]
                  /\ acc[L] = FlattenSeq(seqs)
<1> DEFINE Step(g, i) == IF i = 1 THEN seqs[i] ELSE g[i - 1] \o seqs[i]
           Flat(g) == [i \in 1..L |-> Step(g, i)]
           flatten == CHOOSE g : g = Flat(g)
           T == {m \in Nat : \E g : \A i \in 1..m : g[i] = Step(g, i)}
<1>1. FlattenSeq(seqs) = flatten[L]
  BY Zenon DEF FlattenSeq
<1>2. 0 \in T
  <2>1. \A i \in 1..0 : FALSE
    OBVIOUS
  <2> QED BY <2>1
<1>3. ASSUME NEW m \in Nat, m \in T PROVE m + 1 \in T
  <2>1. PICK g : \A i \in 1..m : g[i] = Step(g, i)
    BY <1>3
  <2> DEFINE h == [i \in 1..(m + 1) |-> Step(g, i)]
  <2>2. \A i \in 1..m : h[i] = g[i]
    BY <2>1
  <2>3. ASSUME NEW i \in 1..(m + 1) PROVE h[i] = Step(h, i)
    <3>1. h[i] = Step(g, i)
      OBVIOUS
    <3>2. CASE i = 1
      BY <3>1, <3>2
    <3>3. CASE i # 1
      <4>1. i - 1 \in 1..m
        BY <3>3
      <4>2. h[i - 1] = g[i - 1]
        <5> HIDE DEF h
        <5> QED BY <2>2, <4>1
      <4> HIDE DEF h
      <4> QED BY <3>1, <3>3, <4>2
    <3> QED BY <3>2, <3>3
  <2> HIDE DEF h, Step
  <2> QED BY <2>3
<1>4. L \in T
  <2> HIDE DEF T
  <2> QED BY <1>2, <1>3, Lengths!SetInduction
<1>5. \E g : g = Flat(g)
  <2>1. PICK g : \A i \in 1..L : g[i] = Step(g, i)
    <3> HIDE DEF Step
    <3> QED BY <1>4
  <2> DEFINE h == [i \in 1..L |-> g[i]]
  <2>2. ASSUME NEW i \in 1..L PROVE Step(h, i) = Step(g, i)
    <3>1. CASE i = 1
      BY <3>1
    <3>2. CASE i # 1
      <4>1. i - 1 \in 1..L
        BY <3>2
      <4>2. h[i - 1] = g[i - 1]
        BY <4>1
      <4> HIDE DEF h
      <4> QED BY <3>2, <4>2
    <3> QED BY <3>1, <3>2
  <2>3. h = Flat(h)
    <3> HIDE DEF Step
    <3> QED BY <2>1, <2>2
  <2> QED BY <2>3
<1>6. \A i \in 1..L : flatten[i] = Step(flatten, i)
  <2>1. flatten = Flat(flatten)
    BY <1>5
  <2> HIDE DEF flatten, Step
  <2> QED BY <2>1
<1> HIDE DEF flatten
<1>7. 1 \in 1..L /\ \A i \in 2..L : i \in 1..L /\ i # 1
  OBVIOUS
<1>8. flatten[1] = seqs[1] /\ \A i \in 2..L : flatten[i] = flatten[i - 1] \o seqs[i]
  BY <1>6, <1>7
<1> QED BY <1>1, <1>8

-----------------------------------------------------------------------------
(* The analysis. *)

\* What is noticed comes in the order it is spoken, and lasts.
LEMMA NoticedTurns ==
  ASSUME NEW clip \in Clips, NEW reading \in Readings
  PROVE  LET turns == Noticed(clip, reading)
         IN /\ turns \in Seq(Utterances)
            /\ \A n \in DOMAIN turns : turns[n].start + reading.late < turns[n].end
            /\ \A m, n \in DOMAIN turns : m < n => turns[m].end <= turns[n].start
<1> DEFINE Passes(turn) == /\ reading.faint \/ turn.quality # 1
                           /\ turn.start + reading.late < turn.end
           I == {i \in DOMAIN clip.turns : Passes(clip.turns[i])}
           t == Taken(clip.turns, Places(I))
<1>1. /\ clip.turns \in Seq(Utterances)
      /\ \A i, k \in DOMAIN clip.turns : i < k => clip.turns[i].end <= clip.turns[k].start
  BY DEF Clips
<1>2. Noticed(clip, reading) = t
  BY DEF Noticed, Select
<1>3. I \in SUBSET DOMAIN clip.turns
  OBVIOUS
<1>4. \A i \in I : clip.turns[i].start + reading.late < clip.turns[i].end
  OBVIOUS
<1> HIDE DEF I
<1>5. /\ Cardinality(I) \in Nat /\ t \in Seq(Utterances) /\ Len(t) = Cardinality(I)
      /\ \A n \in 1..Cardinality(I) : Places(I)[n] \in I /\ t[n] = clip.turns[Places(I)[n]]
      /\ \A m, n \in 1..Cardinality(I) : m < n => Places(I)[m] < Places(I)[n]
  BY <1>1, <1>3, Selection
<1> HIDE DEF t
<1>6. DOMAIN t = 1..Cardinality(I)
  BY <1>5
<1>7. ASSUME NEW n \in DOMAIN t PROVE t[n].start + reading.late < t[n].end
  BY <1>4, <1>5, <1>6
<1>8. ASSUME NEW m \in DOMAIN t, NEW n \in DOMAIN t, m < n PROVE t[m].end <= t[n].start
  <2>1. Places(I)[m] \in DOMAIN clip.turns /\ Places(I)[n] \in DOMAIN clip.turns
    BY <1>3, <1>5, <1>6
  <2>2. Places(I)[m] < Places(I)[n]
    BY <1>5, <1>6, <1>8
  <2> QED BY <1>1, <1>5, <1>6, <2>1, <2>2
<1> QED BY <1>2, <1>5, <1>7, <1>8

\* Segments last, and none overlaps another.
LEMMA SegmentsApart ==
  ASSUME NEW clip \in Clips, NEW reading \in Readings
  PROVE  LET segments == SegmentsOf(clip, reading)
         IN /\ \A s \in ToSet(segments) : s.start \in Nat /\ s.end \in Nat /\ s.start < s.end
            /\ \E S : segments \in Seq(S) /\ \A s \in S : Length(s) \in Int
            /\ \A m, n \in DOMAIN segments : m < n => segments[m].end <= segments[n].start
<1> DEFINE turns == Noticed(clip, reading)
           Segment(turn) == [start |-> turn.start + reading.late, end |-> turn.end,
                             label |-> LabelOf(clip, turn.voice, reading)]
           segments == [i \in DOMAIN turns |-> Segment(turns[i])]
<1>1. SegmentsOf(clip, reading) = segments
  BY DEF SegmentsOf
<1>2. /\ turns \in Seq(Utterances)
      /\ \A n \in DOMAIN turns : turns[n].start + reading.late < turns[n].end
      /\ \A m, n \in DOMAIN turns : m < n => turns[m].end <= turns[n].start
  BY NoticedTurns
<1>3. reading.late \in {0, 2}
  BY DEF Readings
<1> HIDE DEF turns
<1>5. DOMAIN segments = DOMAIN turns /\ DOMAIN turns = 1..Len(turns) /\ Len(turns) \in Nat
  BY <1>2
<1>4. ASSUME NEW n \in DOMAIN turns
      PROVE  /\ segments[n].start \in Nat /\ segments[n].end \in Nat
             /\ segments[n].start < segments[n].end
             /\ turns[n].start <= segments[n].start /\ segments[n].end = turns[n].end
  <2>1. turns[n] \in Utterances
    BY <1>2, <1>5
  <2>2. turns[n].start \in Nat /\ turns[n].end \in Nat
    BY <2>1 DEF Utterances
  <2> QED BY <1>2, <1>3, <2>2
<1>6. ASSUME NEW m \in DOMAIN turns, NEW n \in DOMAIN turns, m < n
      PROVE  segments[m].end <= segments[n].start
  <2>1. turns[m] \in Utterances /\ turns[n] \in Utterances
    BY <1>2, <1>5
  <2>2. turns[m].end <= turns[n].start
    BY <1>2, <1>6
  <2>3. turns[m].end \in Nat /\ turns[n].start \in Nat
    BY <2>1 DEF Utterances
  <2> HIDE DEF segments
  <2> QED BY <1>4, <2>2, <2>3
<1> DEFINE S == {segments[n] : n \in DOMAIN turns}
<1>7. segments \in Seq(S)
  BY <1>5
<1>8. ToSet(segments) = S
  BY <1>5 DEF ToSet
<1>9. \A s \in S : s.start \in Nat /\ s.end \in Nat /\ s.start < s.end /\ Length(s) \in Int
  <2> HIDE DEF segments
  <2> QED BY <1>4 DEF Length
<1> HIDE DEF segments, S
<1> QED BY <1>1, <1>5, <1>6, <1>7, <1>8, <1>9

\* The labels of one clip, and of all.
Known(scene, reading, c) == ToSet(SpeakersOf(scene, c, reading))
AllKnown(scene, reading) == UNION {Known(scene, reading, c) : c \in DOMAIN scene}

\* As many voices as there are turns, at most.
LEMMA FinitelyManySpeak ==
  ASSUME NEW clip \in Clips, NEW reading \in Readings
  PROVE  Cardinality(Present(clip, reading)) \in Nat
<1> DEFINE turns == Noticed(clip, reading)
           P == Present(clip, reading)
           voice == [i \in 1..Len(turns) |-> turns[i].voice]
<1>1. turns \in Seq(Utterances)
  BY NoticedTurns
<1>2. P = {turn.voice : turn \in ToSet(turns)}
  BY DEF Present
<1> HIDE DEF turns, P
<1>3. Len(turns) \in Nat /\ ToSet(turns) = {turns[i] : i \in 1..Len(turns)}
  BY <1>1 DEF ToSet
<1>4. voice \in Surjection(1..Len(turns), P)
  <2>1. voice \in [1..Len(turns) -> P]
    BY <1>2, <1>3
  <2>2. \A v \in P : \E i \in 1..Len(turns) : voice[i] = v
    BY <1>2, <1>3
  <2> HIDE DEF voice
  <2> QED BY <2>1, <2>2 DEF Surjection
<1>5. IsFiniteSet(P)
  <2> HIDE DEF voice
  <2>1. ExistsSurjection(1..Len(turns), P)
    BY <1>4 DEF ExistsSurjection
  <2> QED BY <1>3, <2>1, FS_NatSurjection
<1> QED BY <1>5, FS_CardinalityType DEF P

\* The speakers of a clip are listed in the order of their labels.
LEMMA SpeakersOfClip ==
  ASSUME NEW scene \in Seq(Clips), NEW reading \in Readings, NEW c \in DOMAIN scene
  PROVE  /\ SpeakersOf(scene, c, reading) \in Seq(Known(scene, reading, c))
         /\ \A x \in Known(scene, reading, c) :
              /\ x.clip = c /\ Duration(x) \in Int
              /\ x.label \in DOMAIN SpeakersOf(scene, c, reading)
              /\ SpeakersOf(scene, c, reading)[x.label] = x
         /\ \A n \in DOMAIN SpeakersOf(scene, c, reading) :
              SpeakersOf(scene, c, reading)[n].label = n
<1> DEFINE speakers == SpeakersOf(scene, c, reading)
           segments == SegmentsOf(scene[c], reading)
           L == Cardinality(Present(scene[c], reading))
           I(n) == {i \in DOMAIN segments : segments[i].label = n}
<1>1. scene[c] \in Clips
  OBVIOUS
<1>2. L \in Nat
  BY <1>1, FinitelyManySpeak
<1>3. /\ DOMAIN speakers = 1..L
      /\ \A n \in 1..L : /\ speakers[n].clip = c /\ speakers[n].label = n
                         /\ Duration(speakers[n]) = Speaking(Taken(segments, Places(I(n))))
  BY DEF SpeakersOf, Select, Duration
<1>4. PICK S : segments \in Seq(S) /\ \A s \in S : Length(s) \in Int
  BY <1>1, SegmentsApart
<1>5. ASSUME NEW n \in 1..L PROVE Duration(speakers[n]) \in Int
  <2>1. I(n) \in SUBSET DOMAIN segments
    OBVIOUS
  <2> HIDE DEF I, segments
  <2>2. Taken(segments, Places(I(n))) \in Seq(S)
    BY <1>4, <2>1, Selection
  <2>3. Speaking(Taken(segments, Places(I(n)))) \in Int
    BY <1>4, <2>2, SpeakingIsANumber
  <2> QED BY <1>3, <2>3
<1>6. Known(scene, reading, c) = {speakers[n] : n \in 1..L}
  BY <1>3 DEF Known, ToSet
<1>7. speakers \in Seq(Known(scene, reading, c))
  <2>1. speakers = [n \in 1..L |-> speakers[n]]
    BY <1>3 DEF SpeakersOf
  <2> HIDE DEF speakers, L
  <2> QED BY <1>2, <1>6, <2>1
<1> HIDE DEF speakers, L
<1>8. ASSUME NEW x \in Known(scene, reading, c)
      PROVE  /\ x.clip = c /\ Duration(x) \in Int
             /\ x.label \in DOMAIN speakers /\ speakers[x.label] = x
  <2>1. PICK n \in 1..L : x = speakers[n]
    BY <1>6
  <2> QED BY <1>3, <1>5, <2>1
<1> QED BY <1>3, <1>7, <1>8 DEF speakers

\* In all clips nobody is listed twice, and clip and label say who is meant.
LEMMA EverybodyOnce ==
  ASSUME NEW scene \in Seq(Clips), NEW reading \in Readings
  PROVE  LET speakers == Analysis(scene, reading).speakers
         IN /\ speakers \in Seq(AllKnown(scene, reading))
            /\ \A m, n \in DOMAIN speakers : speakers[m] = speakers[n] => m = n
<1> DEFINE L == Len(scene)
           seqs == [c \in DOMAIN scene |-> SpeakersOf(scene, c, reading)]
           All == AllKnown(scene, reading)
           Apart(s) == \A m, n \in DOMAIN s : s[m] = s[n] => m = n
<1>1. L \in Nat /\ DOMAIN scene = 1..L /\ Len(seqs) = L
  OBVIOUS
<1>2. Analysis(scene, reading).speakers = FlattenSeq(seqs)
  BY DEF Analysis
<1>3. ASSUME NEW c \in DOMAIN scene
      PROVE  /\ seqs[c] \in Seq(All) /\ Apart(seqs[c])
             /\ \A n \in DOMAIN seqs[c] : seqs[c][n].clip = c
  <2>1. /\ SpeakersOf(scene, c, reading) \in Seq(Known(scene, reading, c))
        /\ \A x \in Known(scene, reading, c) : x.clip = c
        /\ \A n \in DOMAIN SpeakersOf(scene, c, reading) :
             SpeakersOf(scene, c, reading)[n].label = n
    BY SpeakersOfClip
  <2>2. Known(scene, reading, c) \subseteq All
    BY DEF AllKnown
  <2>3. seqs[c] = SpeakersOf(scene, c, reading)
    OBVIOUS
  <2> HIDE DEF seqs, All
  <2>4. seqs[c] \in Seq(All) /\ \A n \in DOMAIN seqs[c] : seqs[c][n].clip = c
    BY <2>1, <2>2, <2>3
  <2>5. Apart(seqs[c])
    BY <2>1, <2>3
  <2> QED BY <2>4, <2>5
<1> HIDE DEF seqs, All, L
<1>4. CASE L = 0
  <2>1. FlattenSeq(seqs) = seqs
    BY <1>1, <1>4, Zenon DEF FlattenSeq
  <2>2. DOMAIN seqs = {} /\ seqs = <<>>
    BY <1>1, <1>4 DEF seqs
  <2> QED BY <1>2, <2>1, <2>2 DEF All
<1>5. CASE L # 0
  <2>1. PICK acc : /\ acc[1] = seqs[1]
                   /\ \A i \in 2..L : acc[i] = acc[i - 1] \o seqs[i]
                   /\ acc[L] = FlattenSeq(seqs)
    BY <1>1, <1>5, Flattening
  <2> DEFINE Fine(i) == /\ acc[i] \in Seq(All) /\ Apart(acc[i])
                        /\ \A n \in DOMAIN acc[i] : acc[i][n].clip \in 1..i
             T == {i \in Nat : 1 <= i /\ i <= L => Fine(i)}
  <2>2. 0 \in T
    OBVIOUS
  <2>3. ASSUME NEW i \in Nat, i \in T PROVE i + 1 \in T
    <3>1. SUFFICES ASSUME i + 1 <= L PROVE Fine(i + 1)
      OBVIOUS
    <3>2. i + 1 \in DOMAIN scene
      BY <1>1, <3>1
    <3>3. CASE i = 0
      BY <1>3, <2>1, <3>2, <3>3
    <3>4. CASE i # 0
      <4>1. Fine(i) /\ acc[i + 1] = acc[i] \o seqs[i + 1]
        <5>1. i + 1 \in 2..L /\ (i + 1) - 1 = i
          BY <1>1, <3>1, <3>4
        <5>2. 1 <= i /\ i <= L
          BY <1>1, <3>1, <3>4
        <5>3. Fine(i)
          BY <2>3, <5>2
        <5> HIDE DEF Fine
        <5> QED BY <2>1, <5>1, <5>3
      <4> DEFINE a == acc[i]
                 b == seqs[i + 1]
      <4>2. /\ a \in Seq(All) /\ Apart(a) /\ \A n \in DOMAIN a : a[n].clip \in 1..i
            /\ b \in Seq(All) /\ Apart(b) /\ \A n \in DOMAIN b : b[n].clip = i + 1
        BY <1>3, <3>2, <4>1
      <4> HIDE DEF a, b
      <4>3. /\ a \o b \in Seq(All) /\ DOMAIN (a \o b) = 1..(Len(a) + Len(b))
            /\ DOMAIN a = 1..Len(a) /\ DOMAIN b = 1..Len(b) /\ Len(a) \in Nat /\ Len(b) \in Nat
            /\ \A n \in DOMAIN (a \o b) :
                 (a \o b)[n] = IF n <= Len(a) THEN a[n] ELSE b[n - Len(a)]
        BY <4>2
      <4>4. ASSUME NEW n \in DOMAIN (a \o b)
            PROVE  \/ n \in DOMAIN a /\ (a \o b)[n] = a[n] /\ (a \o b)[n].clip \in 1..i
                   \/ /\ n > Len(a) /\ n - Len(a) \in DOMAIN b
                      /\ (a \o b)[n] = b[n - Len(a)] /\ (a \o b)[n].clip = i + 1
        <5>1. CASE n <= Len(a)
          BY <4>2, <4>3, <5>1
        <5>2. CASE ~(n <= Len(a))
          <6>1. n - Len(a) \in DOMAIN b /\ n > Len(a)
            BY <4>3, <5>2
          <6> QED BY <4>2, <4>3, <5>2, <6>1
        <5> QED BY <5>1, <5>2
      <4>5. ASSUME NEW m \in DOMAIN (a \o b), NEW n \in DOMAIN (a \o b),
                   (a \o b)[m] = (a \o b)[n]
            PROVE  m = n
        <5>1. i + 1 \notin 1..i
          OBVIOUS
        <5>2. CASE m \in DOMAIN a /\ n \in DOMAIN a /\ a[m] = a[n]
          BY <4>2, <5>2
        <5>3. CASE /\ m - Len(a) \in DOMAIN b /\ n - Len(a) \in DOMAIN b
                   /\ b[m - Len(a)] = b[n - Len(a)]
          <6>1. m - Len(a) = n - Len(a)
            BY <4>2, <5>3
          <6> QED BY <4>3, <6>1
        <5> QED BY <4>4, <4>5, <5>1, <5>2, <5>3
      <4>6. \A n \in DOMAIN (a \o b) : (a \o b)[n].clip \in 1..(i + 1)
        BY <4>4
      <4>7. acc[i + 1] = a \o b
        BY <4>1 DEF a, b
      <4> QED BY <4>3, <4>5, <4>6, <4>7
    <3> QED BY <3>3, <3>4
  <2>4. L \in T
    <3> HIDE DEF T
    <3> QED BY <1>1, <2>2, <2>3, Lengths!SetInduction
  <2> QED BY <1>1, <1>2, <1>5, <2>1, <2>4 DEF All
<1> QED BY <1>4, <1>5

\* A speaker is found in the list of his clip.
LEMMA WhoIsKnown ==
  ASSUME NEW scene \in Seq(Clips), NEW reading \in Readings
  PROVE  /\ \A x \in AllKnown(scene, reading) : Duration(x) \in Int
         /\ \A x, y \in AllKnown(scene, reading) :
              x.clip = y.clip /\ x.label = y.label => x = y
<1>1. ASSUME NEW x \in AllKnown(scene, reading)
      PROVE  /\ Duration(x) \in Int /\ x.clip \in DOMAIN scene
             /\ SpeakersOf(scene, x.clip, reading)[x.label] = x
  <2>1. PICK c \in DOMAIN scene : x \in Known(scene, reading, c)
    BY DEF AllKnown
  <2> QED BY <2>1, SpeakersOfClip
<1> QED BY <1>1

\* Nobody is joined to a cluster twice.
LEMMA NodesOnce ==
  ASSUME NEW scene \in Seq(Clips), NEW reading \in Readings
  PROVE  LET nodes == Nodes(Analysis(scene, reading))
         IN /\ nodes \in Seq(AllKnown(scene, reading))
            /\ \A m, n \in DOMAIN nodes : nodes[m] = nodes[n] => m = n
<1> DEFINE All == AllKnown(scene, reading)
           speakers == Analysis(scene, reading).speakers
           I == {i \in DOMAIN speakers : speakers[i].duration > 0}
           heard == Taken(speakers, Places(I))
           keys == [i \in DOMAIN heard |-> Duration(heard[i])]
           nodes == Taken(heard, Order(keys))
<1>1. Nodes(Analysis(scene, reading)) = nodes
  BY DEF Nodes, Descending, Select
<1>2. /\ speakers \in Seq(All)
      /\ \A m, n \in DOMAIN speakers : speakers[m] = speakers[n] => m = n
  BY EverybodyOnce
<1>3. \A x \in All : Duration(x) \in Int
  BY WhoIsKnown
<1>4. I \in SUBSET DOMAIN speakers
  OBVIOUS
<1> HIDE DEF All, speakers, I
<1>5. /\ heard \in Seq(All) /\ Len(heard) = Cardinality(I)
      /\ \A n \in 1..Cardinality(I) : Places(I)[n] \in I /\ heard[n] = speakers[Places(I)[n]]
      /\ \A m, n \in 1..Cardinality(I) : m < n => Places(I)[m] < Places(I)[n]
  BY <1>2, <1>4, Selection
<1> HIDE DEF heard
<1>6. DOMAIN heard = 1..Cardinality(I) /\ keys \in [DOMAIN heard -> Int]
  BY <1>3, <1>5
<1>7. Cardinality(I) \in Nat
  BY <1>5
<1>8. ASSUME NEW m \in DOMAIN heard, NEW n \in DOMAIN heard, heard[m] = heard[n] PROVE m = n
  <2>1. Places(I)[m] = Places(I)[n] /\ Places(I)[m] \in DOMAIN speakers
    BY <1>2, <1>4, <1>5, <1>6, <1>8
  <2>2. Places(I)[m] \in Int
    BY <1>2, <2>1
  <2>3. ~(m < n) /\ ~(n < m)
    BY <1>5, <1>6, <2>1, <2>2
  <2> QED BY <1>6, <1>7, <2>3
<1> HIDE DEF keys
<1>9. /\ nodes \in Seq(All) /\ Len(nodes) = Len(heard)
      /\ \A n \in DOMAIN heard : Order(keys)[n] \in DOMAIN heard /\ nodes[n] = heard[Order(keys)[n]]
      /\ \A m, n \in DOMAIN heard : m # n => Order(keys)[m] # Order(keys)[n]
  <2>1. heard \in Seq(All) /\ keys \in [DOMAIN heard -> Int]
    BY <1>5, <1>6
  <2> QED BY ONLY <2>1, Sorting
<1> HIDE DEF nodes
<1>10. DOMAIN nodes = DOMAIN heard
  BY <1>5, <1>9
<1>11. \A m, n \in DOMAIN nodes : nodes[m] = nodes[n] => m = n
  BY <1>8, <1>9, <1>10
<1> QED BY <1>1, <1>9, <1>11 DEF All

\* Clusters, of somebody, finite and without a common element.
AreClusters(clusters, S) ==
  /\ clusters \in Seq(SUBSET S)
  /\ \A i \in DOMAIN clusters : IsFiniteSet(clusters[i]) /\ clusters[i] # {}
  /\ \A i, k \in DOMAIN clusters : i # k => clusters[i] \cap clusters[k] = {}

\* Joining somebody new keeps clusters apart, whichever cluster he resembles.
LEMMA JoinKeepsApart ==
  ASSUME NEW S, NEW clusters, AreClusters(clusters, S), NEW x \in S,
         \A i \in DOMAIN clusters : x \notin clusters[i]
  PROVE  /\ AreClusters(Join(clusters, x), S)
         /\ \A i \in DOMAIN Join(clusters, x) : \A y \in Join(clusters, x)[i] :
              y = x \/ \E k \in DOMAIN clusters : y \in clusters[k]
<1>1. IsFiniteSet({x})
  BY FS_Singleton
<1>2. CASE Join(clusters, x) = Append(clusters, {x})
  <2> DEFINE new == Append(clusters, {x})
  <2>1. clusters \in Seq(SUBSET S) /\ {x} \in SUBSET S
    BY DEF AreClusters
  <2>2. /\ new \in Seq(SUBSET S) /\ DOMAIN clusters = 1..Len(clusters) /\ Len(clusters) \in Nat
        /\ DOMAIN new = 1..(Len(clusters) + 1)
        /\ \A i \in DOMAIN new : \/ i \in DOMAIN clusters /\ new[i] = clusters[i]
                                 \/ i = Len(clusters) + 1 /\ new[i] = {x}
    BY <2>1
  <2> HIDE DEF new
  <2> QED BY <1>1, <1>2, <2>2 DEF AreClusters, new
<1>3. ASSUME NEW b, Join(clusters, x) = [clusters EXCEPT ![b] = @ \cup {x}]
      PROVE  /\ AreClusters(Join(clusters, x), S)
             /\ \A i \in DOMAIN Join(clusters, x) : \A y \in Join(clusters, x)[i] :
                  y = x \/ \E k \in DOMAIN clusters : y \in clusters[k]
  <2> DEFINE new == Join(clusters, x)
  <2>1. /\ DOMAIN new = DOMAIN clusters
        /\ \A i \in DOMAIN clusters : new[i] = IF i = b THEN clusters[i] \cup {x} ELSE clusters[i]
    BY <1>3 DEF AreClusters
  <2>2. new \in Seq(SUBSET S)
    <3>1. clusters \in Seq(SUBSET S) /\ DOMAIN clusters = 1..Len(clusters) /\ Len(clusters) \in Nat
      BY DEF AreClusters
    <3>2. new = [i \in 1..Len(clusters) |-> IF i = b THEN clusters[i] \cup {x} ELSE clusters[i]]
      BY <1>3, <3>1
    <3>3. \A i \in 1..Len(clusters) : (IF i = b THEN clusters[i] \cup {x} ELSE clusters[i]) \in SUBSET S
      BY <3>1
    <3> HIDE DEF new
    <3> QED BY <3>1, <3>2, <3>3
  <2> HIDE DEF new
  <2>3. \A i \in DOMAIN clusters : IsFiniteSet(clusters[i] \cup {x})
    BY FS_AddElement DEF AreClusters
  <2>4. \A i \in DOMAIN new : IsFiniteSet(new[i]) /\ new[i] # {}
    BY <2>1, <2>3 DEF AreClusters
  <2>5. \A i, k \in DOMAIN new : i # k => new[i] \cap new[k] = {}
    BY <2>1 DEF AreClusters
  <2>6. \A i \in DOMAIN new : \A y \in new[i] : y = x \/ \E k \in DOMAIN clusters : y \in clusters[k]
    BY <2>1
  <2> QED BY <2>2, <2>4, <2>5, <2>6 DEF AreClusters, new
<1>4. \/ Join(clusters, x) = Append(clusters, {x})
      \/ \E b : Join(clusters, x) = [clusters EXCEPT ![b] = @ \cup {x}]
  BY Zenon DEF Join
<1> QED BY <1>2, <1>3, <1>4

\* So does joining all of them, one after the other.
LEMMA JoinedApart ==
  ASSUME NEW S, NEW nodes \in Seq(S), \A m, n \in DOMAIN nodes : nodes[m] = nodes[n] => m = n
  PROVE  AreClusters(FoldLeft(Join, <<>>, nodes), S)
<1>1. PICK acc : /\ acc[0] = <<>>
                 /\ \A n \in 1..Len(nodes) : acc[n] = Join(acc[n - 1], nodes[n])
                 /\ acc[Len(nodes)] = FoldLeft(Join, <<>>, nodes)
  <2>1. FoldLeft(Join, <<>>, nodes) = Joining!FoldLeft(Join, <<>>, nodes)
    BY Zenon DEF FoldLeft, Joining!FoldLeft, MapThenFoldSet, Joining!MapThenFoldSet,
                 Max, Joining!Max
  <2>2. \E acc : /\ acc[0] = <<>>
                 /\ \A n \in 1..Len(nodes) : acc[n] = Join(acc[n - 1], nodes[n])
                 /\ acc[Len(nodes)] = Joining!FoldLeft(Join, <<>>, nodes)
    BY Joining!FoldIsARun, Zenon
  <2> QED BY <2>1, <2>2, Zenon
<1> DEFINE Fine(n) == /\ AreClusters(acc[n], S)
                      /\ \A i \in DOMAIN acc[n] : \A y \in acc[n][i] :
                           \E m \in 1..n : y = nodes[m]
           T == {n \in Nat : n <= Len(nodes) => Fine(n)}
<1>2. 0 \in T
  <2>1. acc[0] \in Seq(SUBSET S) /\ DOMAIN acc[0] = {}
    BY <1>1
  <2> QED BY <2>1 DEF AreClusters
<1>3. ASSUME NEW n \in Nat, n \in T PROVE n + 1 \in T
  <2>1. SUFFICES ASSUME n + 1 <= Len(nodes) PROVE Fine(n + 1)
    OBVIOUS
  <2> DEFINE x == nodes[n + 1]
  <2>2. /\ n + 1 \in 1..Len(nodes) /\ (n + 1) - 1 = n /\ n <= Len(nodes)
        /\ n + 1 \in DOMAIN nodes /\ 1..n \subseteq DOMAIN nodes
    BY <2>1
  <2>3. Fine(n) /\ acc[n + 1] = Join(acc[n], x)
    BY <1>1, <1>3, <2>2
  <2>4. x \in S /\ \A i \in DOMAIN acc[n] : x \notin acc[n][i]
    <3>1. \A m \in 1..n : x # nodes[m]
      BY <2>2
    <3> QED BY <2>2, <2>3, <3>1
  <2> HIDE DEF x
  <2>5. /\ AreClusters(Join(acc[n], x), S)
        /\ \A i \in DOMAIN Join(acc[n], x) : \A y \in Join(acc[n], x)[i] :
             y = x \/ \E k \in DOMAIN acc[n] : y \in acc[n][k]
    BY <2>3, <2>4, JoinKeepsApart
  <2>6. ASSUME NEW i \in DOMAIN acc[n + 1], NEW y \in acc[n + 1][i]
        PROVE  \E m \in 1..(n + 1) : y = nodes[m]
    <3>1. CASE y = x
      BY <3>1 DEF x
    <3>2. CASE \E k \in DOMAIN acc[n] : y \in acc[n][k]
      <4>1. PICK m \in 1..n : y = nodes[m]
        BY <2>3, <3>2
      <4> QED BY <4>1
    <3> QED BY <2>3, <2>5, <3>1, <3>2
  <2> QED BY <2>3, <2>5, <2>6
<1>4. Len(nodes) \in T
  <2> HIDE DEF T
  <2> QED BY <1>2, <1>3, Lengths!SetInduction
<1> QED BY <1>1, <1>4

\* Sorting the clusters only changes their places.
LEMMA ClustersApart ==
  ASSUME NEW scene \in Seq(Clips), NEW reading \in Readings
  PROVE  AreClusters(SpeakerClusters(Analysis(scene, reading)), AllKnown(scene, reading))
<1> DEFINE All == AllKnown(scene, reading)
           raw == FoldLeft(Join, <<>>, Nodes(Analysis(scene, reading)))
           keys == [i \in DOMAIN raw |-> Speech(raw[i])]
           clusters == Taken(raw, Order(keys))
<1>1. SpeakerClusters(Analysis(scene, reading)) = clusters
  BY DEF SpeakerClusters, Descending
<1>2. AreClusters(raw, All)
  BY NodesOnce, JoinedApart
<1>3. \A x \in All : Duration(x) \in Int
  BY WhoIsKnown
<1> HIDE DEF raw, All
<1>4. raw \in Seq(SUBSET All)
  BY <1>2 DEF AreClusters
<1>5. ASSUME NEW i \in DOMAIN raw PROVE Speech(raw[i]) \in Int
  <2>1. IsFiniteSet(raw[i]) /\ raw[i] \subseteq All
    BY <1>2, <1>4 DEF AreClusters
  <2>2. \A x \in raw[i] : Duration(x) \in Int
    BY <1>3, <2>1
  <2> QED BY <2>1, <2>2, SpeechIsANumber
<1>6. keys \in [DOMAIN raw -> Int]
  BY <1>5
<1> HIDE DEF keys
<1>7. /\ clusters \in Seq(SUBSET All) /\ Len(clusters) = Len(raw)
      /\ \A n \in DOMAIN raw : Order(keys)[n] \in DOMAIN raw /\ clusters[n] = raw[Order(keys)[n]]
      /\ \A m, n \in DOMAIN raw : m # n => Order(keys)[m] # Order(keys)[n]
  BY ONLY <1>4, <1>6, Sorting
<1> HIDE DEF clusters
<1>8. DOMAIN clusters = DOMAIN raw
  BY <1>4, <1>7
<1> QED BY <1>1, <1>2, <1>7, <1>8 DEF AreClusters, All

\* The first turn of those a preview is cut from is long enough to be heard in it.
LEMMA LongestTurn ==
  ASSUME NEW S, NEW turns \in Seq(S), \A x \in S : Length(x) \in Int,
         PreviewParts(turns) # {}
  PROVE  \E p \in DOMAIN turns :
           Descending(turns, Length)[1] = turns[p] /\ Length(turns[p]) >= Crumb
<1> DEFINE keys == [i \in DOMAIN turns |-> Length(turns[i])]
<1>1. /\ DOMAIN turns = 1..Len(turns) /\ Len(turns) \in Nat
      /\ keys \in [DOMAIN turns -> Int] /\ keys \in [1..Len(turns) -> Int]
  OBVIOUS
<1>2. PICK i \in DOMAIN turns : Length(turns[i]) >= Crumb
  BY PreviewIsOfATurn
<1>3. \A j \in DOMAIN turns : keys[j] = Length(turns[j])
  OBVIOUS
<1>4. Descending(turns, Length) = Taken(turns, Order(keys))
  BY DEF Descending
<1> HIDE DEF keys
<1>5. /\ Order(keys) \in [1..Len(turns) -> 1..Len(turns)]
      /\ \A m, n \in 1..Len(turns) : m < n => keys[Order(keys)[m]] >= keys[Order(keys)[n]]
      /\ \A j \in 1..Len(turns) : \E n \in 1..Len(turns) : Order(keys)[n] = j
  BY ONLY <1>1, OrderSorts
<1>6. 1 \in DOMAIN turns
  BY <1>1, <1>2
<1>7. Taken(turns, Order(keys))[1] = turns[Order(keys)[1]]
  BY <1>1, <1>5, <1>6 DEF Taken
<1>8. PICK n \in 1..Len(turns) : Order(keys)[n] = i
  BY <1>1, <1>2, <1>5
<1>9. Order(keys)[1] \in DOMAIN turns
  BY <1>1, <1>5, <1>6
<1>10. keys[Order(keys)[1]] \in Int /\ keys[i] \in Int
  BY <1>1, <1>9
<1>11. keys[Order(keys)[1]] >= keys[i]
  <2>1. CASE n = 1
    BY <1>8, <1>10, <2>1
  <2>2. CASE 1 < n
    <3>1. keys[Order(keys)[1]] >= keys[Order(keys)[n]]
      BY <1>1, <1>5, <1>6, <2>2
    <3> QED BY <1>8, <3>1
  <2> QED BY <1>1, <2>1, <2>2
<1>12. keys[Order(keys)[1]] >= Crumb
  BY <1>2, <1>3, <1>10, <1>11 DEF Crumb
<1> QED BY <1>3, <1>4, <1>7, <1>9, <1>12

\* The places of a clip where a cluster speaks.
Spoken(segments, c, cluster) ==
  {j \in DOMAIN segments : \E n \in cluster : n.clip = c /\ n.label = segments[j].label}

\* The middle of a turn long enough for a preview is in it, and too far from its ends for the
\* slack to reach another turn.
LEMMA MiddleOfATurn ==
  ASSUME NEW p, p.start \in Nat, p.end \in Nat, Length(p) >= Crumb
  PROVE  LET time == p.start + Length(p) \div 2
         IN /\ time \in Nat
            /\ p.start + Slack < time /\ time < p.end - Slack
<1> DEFINE half == Length(p) \div 2
<1>1. Length(p) \in Nat /\ Length(p) = p.end - p.start
  BY DEF Length, Crumb
<1>2. half \in Int /\ 4 <= half /\ half <= Length(p) - 4
  BY <1>1 DEF Crumb
<1> HIDE DEF half
<1> QED BY <1>1, <1>2 DEF Slack, half

\* The anchor of a preview leads back to the speaker who is heard in it.
LEMMA PreviewLeadsBack ==
  ASSUME NEW scene \in Seq(Clips), NEW reading \in Readings, NEW clusters,
         AreClusters(clusters, AllKnown(scene, reading)), NEW i \in DOMAIN clusters,
         SpeakerChoice(Analysis(scene, reading), clusters, i).parts # {}
  PROVE  /\ SpeakerChoice(Analysis(scene, reading), clusters, i).anchor
              \in [clip : DOMAIN scene, time : Nat]
         /\ ClusterFromAnchor(Analysis(scene, reading), clusters,
              SpeakerChoice(Analysis(scene, reading), clusters, i).anchor) = {i}
<1> DEFINE analysis == Analysis(scene, reading)
           L == Len(scene)
           Seg(c) == SegmentsOf(scene[c], reading)
           Turns(c, k) == Taken(Seg(c), Places(Spoken(Seg(c), c, clusters[k])))
           turns == SegmentsForCluster(analysis, clusters[i])
           ids == [c \in DOMAIN turns |-> c]
           keys == [j \in DOMAIN ids |-> Speaking(turns[ids[j]])]
           clip == Taken(ids, Order(keys))[1]
           longest == Descending(turns[clip], Length)[1]
           time == longest.start + Length(longest) \div 2
           Near(s) == s.start - Slack <= time /\ time <= s.end + Slack
<1>1. /\ DOMAIN scene = 1..L /\ L \in Nat /\ DOMAIN analysis.segments = 1..L
      /\ \A c \in 1..L : analysis.segments[c] = Seg(c)
  BY DEF Analysis
<1>2. \A k : SegmentsForCluster(analysis, clusters[k]) = [c \in 1..L |-> Turns(c, k)]
  BY <1>1 DEF SegmentsForCluster, Select, Spoken
<1>3. /\ SpeakerChoice(analysis, clusters, i).parts = PreviewParts(turns[clip])
      /\ SpeakerChoice(analysis, clusters, i).anchor = [clip |-> clip, time |-> time]
  BY DEF SpeakerChoice, SpeakerAnchor, Descending
<1> HIDE DEF analysis
<1>4. ASSUME NEW c \in 1..L, NEW k
      PROVE  /\ \E S : Turns(c, k) \in Seq(S) /\ \A s \in S : Length(s) \in Int
             /\ \A r \in DOMAIN Turns(c, k) : \E q \in Spoken(Seg(c), c, clusters[k]) :
                  Turns(c, k)[r] = Seg(c)[q]
  <2> DEFINE segments == Seg(c)
             I == Spoken(segments, c, clusters[k])
  <2>1. scene[c] \in Clips
    BY <1>1
  <2>2. PICK S : segments \in Seq(S) /\ \A s \in S : Length(s) \in Int
    BY <2>1, SegmentsApart
  <2>3. I \in SUBSET DOMAIN segments
    BY DEF Spoken
  <2> HIDE DEF I, segments
  <2>4. /\ Cardinality(I) \in Nat
        /\ Taken(segments, Places(I)) \in Seq(S)
        /\ Len(Taken(segments, Places(I))) = Cardinality(I)
        /\ \A n \in 1..Cardinality(I) :
             Places(I)[n] \in I /\ Taken(segments, Places(I))[n] = segments[Places(I)[n]]
    BY ONLY <2>2, <2>3, Selection
  <2>5. DOMAIN Taken(segments, Places(I)) = 1..Cardinality(I)
    BY <2>4
  <2>6. \A r \in DOMAIN Taken(segments, Places(I)) : \E q \in I :
          Taken(segments, Places(I))[r] = segments[q]
    BY <2>4, <2>5
  <2>7. \E R : Taken(segments, Places(I)) \in Seq(R) /\ \A s \in R : Length(s) \in Int
    BY <2>2, <2>4
  <2> QED BY <2>6, <2>7 DEF I, segments
<1> HIDE DEF Turns
<1>5. L # 0
  <2>1. PICK x \in clusters[i] : x \in AllKnown(scene, reading)
    BY DEF AreClusters
  <2> QED BY <1>1, <2>1 DEF AllKnown
<1>6. clip \in 1..L
  <2>1. /\ DOMAIN turns = 1..L /\ DOMAIN ids = 1..L /\ ids \in Seq(1..L) /\ Len(ids) = L
        /\ \A c \in 1..L : ids[c] = c /\ turns[c] = Turns(c, i)
    <3>1. turns = [c \in 1..L |-> Turns(c, i)]
      BY <1>2, Zenon
    <3> HIDE DEF turns
    <3>2. DOMAIN turns = 1..L /\ \A c \in 1..L : turns[c] = Turns(c, i)
      BY <3>1
    <3>3. ids = [c \in 1..L |-> c]
      BY <3>2
    <3> HIDE DEF ids
    <3> QED BY <1>1, <3>2, <3>3
  <2> HIDE DEF turns, ids
  <2>2. \A c \in 1..L : Speaking(turns[c]) \in Int
    <3>1. ASSUME NEW c \in 1..L PROVE Speaking(turns[c]) \in Int
      <4>1. PICK S : turns[c] \in Seq(S) /\ \A s \in S : Length(s) \in Int
        BY <1>4, <2>1
      <4> QED BY <4>1, SpeakingIsANumber
    <3> QED BY <3>1
  <2>3. keys \in [DOMAIN ids -> Int]
    BY <2>1, <2>2
  <2> HIDE DEF keys
  <2>4. Taken(ids, Order(keys)) \in Seq(1..L) /\ Len(Taken(ids, Order(keys))) = Len(ids)
    BY ONLY <2>1, <2>3, Sorting
  <2> QED BY <1>1, <1>5, <2>1, <2>4
<1> HIDE DEF clip
<1>7. turns[clip] = Turns(clip, i)
  <2>1. turns = [c \in 1..L |-> Turns(c, i)]
    BY <1>2, Zenon
  <2> HIDE DEF turns, L
  <2> QED BY <1>6, <2>1
<1> HIDE DEF turns
<1>8. PICK p \in Spoken(Seg(clip), clip, clusters[i]), r \in DOMAIN Turns(clip, i) :
        longest = Seg(clip)[p] /\ Turns(clip, i)[r] = longest /\ Length(longest) >= Crumb
  <2>1. PICK S : turns[clip] \in Seq(S) /\ \A s \in S : Length(s) \in Int
    BY <1>4, <1>6, <1>7
  <2>2. PreviewParts(turns[clip]) # {}
    BY <1>3 DEF analysis
  <2>3. PICK r \in DOMAIN turns[clip] :
          Descending(turns[clip], Length)[1] = turns[clip][r] /\ Length(turns[clip][r]) >= Crumb
    BY ONLY <2>1, <2>2, LongestTurn
  <2>4. PICK p \in Spoken(Seg(clip), clip, clusters[i]) : Turns(clip, i)[r] = Seg(clip)[p]
    <3>1. r \in DOMAIN Turns(clip, i)
      BY <1>7
    <3> HIDE DEF Seg, L
    <3>2. \A t \in DOMAIN Turns(clip, i) : \E q \in Spoken(Seg(clip), clip, clusters[i]) :
            Turns(clip, i)[t] = Seg(clip)[q]
      BY ONLY <1>4, <1>6
    <3> QED BY ONLY <3>1, <3>2
  <2> QED BY <1>7, <2>3, <2>4
<1> DEFINE segments == Seg(clip)
<1>9. /\ \A q \in DOMAIN segments : segments[q].start \in Nat /\ segments[q].end \in Nat
      /\ \A m, n \in DOMAIN segments : m < n => segments[m].end <= segments[n].start
      /\ \E S : segments \in Seq(S)
  <2>1. scene[clip] \in Clips
    BY <1>1, <1>6
  <2> QED BY <2>1, SegmentsApart DEF ToSet
<1> HIDE DEF segments, longest, time
<1>10. DOMAIN segments \subseteq Int
  BY <1>9
<1>11. /\ longest.start \in Nat /\ longest.end \in Nat /\ time \in Nat
       /\ longest.start + Slack < time /\ time < longest.end - Slack
  <2>1. longest.start \in Nat /\ longest.end \in Nat /\ Length(longest) >= Crumb
    BY <1>8, <1>9 DEF Spoken, segments
  <2> QED BY <2>1, MiddleOfATurn DEF time
<1>12. ASSUME NEW q \in DOMAIN segments, q # p
       PROVE  ~Near(segments[q])
  <2>1. p \in DOMAIN segments /\ longest = segments[p]
    BY <1>8 DEF Spoken, segments
  <2>2. p < q \/ q < p
    BY <1>10, <1>12, <2>1
  <2>3. segments[q].end <= longest.start \/ longest.end <= segments[q].start
    BY <1>9, <2>1, <2>2
  <2>4. segments[q].start \in Nat /\ segments[q].end \in Nat
    BY <1>9
  <2> QED BY <1>11, <2>3, <2>4 DEF Slack
<1>13. Near(longest)
  BY <1>11 DEF Slack
<1> DEFINE anchor == [clip |-> clip, time |-> time]
<1>14. \A k : HasAnchor(analysis, clusters[k], anchor) <=>
                \E j \in DOMAIN Turns(clip, k) : Near(Turns(clip, k)[j])
  <2>1. \A k : SegmentsForCluster(analysis, clusters[k])[clip] = Turns(clip, k)
    BY <1>2, <1>6
  <2> QED BY <2>1 DEF HasAnchor, ToSet
<1> HIDE DEF Near
<1>15. HasAnchor(analysis, clusters[i], anchor)
  BY <1>8, <1>13, <1>14
<1>16. ASSUME NEW k \in DOMAIN clusters, k # i PROVE ~HasAnchor(analysis, clusters[k], anchor)
  <2>1. SUFFICES ASSUME NEW j \in DOMAIN Turns(clip, k), Near(Turns(clip, k)[j]) PROVE FALSE
    BY <1>14
  <2>2. PICK q \in Spoken(Seg(clip), clip, clusters[k]) : Turns(clip, k)[j] = Seg(clip)[q]
    BY <1>4, <1>6
  <2>3. q = p
    BY <1>12, <2>1, <2>2 DEF Spoken, segments
  <2>4. PICK x \in clusters[i] : x.clip = clip /\ x.label = Seg(clip)[p].label
    BY <1>8 DEF Spoken
  <2>5. PICK y \in clusters[k] : y.clip = clip /\ y.label = Seg(clip)[p].label
    BY <2>2, <2>3 DEF Spoken
  <2>6. x \in AllKnown(scene, reading) /\ y \in AllKnown(scene, reading)
    BY DEF AreClusters
  <2>7. x = y
    BY <2>4, <2>5, <2>6, WhoIsKnown
  <2> QED BY <1>16, <2>7 DEF AreClusters
<1>17. {k \in DOMAIN clusters : HasAnchor(analysis, clusters[k], anchor)} = {i}
  BY <1>15, <1>16
<1>18. Cardinality({i}) = 1
  BY FS_Singleton
<1>19. ClusterFromAnchor(analysis, clusters, anchor) = {i}
  BY <1>17, <1>18 DEF ClusterFromAnchor
<1>20. anchor \in [clip : DOMAIN scene, time : Nat]
  BY <1>1, <1>6, <1>11
<1> QED BY <1>3, <1>19, <1>20 DEF analysis

\* The previews that are offered are at most four, each of a cluster of its own, and in each
\* somebody can be heard.
LEMMA OfferedPreviews ==
  ASSUME NEW scene, NEW analysis, NEW clusters, NEW S, clusters \in Seq(S)
  PROVE  LET choices == SpeakerChoices(scene, analysis, clusters)
         IN /\ Len(choices) \in 0..4 /\ DOMAIN choices = 1..Len(choices)
            /\ \A n \in DOMAIN choices : \E i \in DOMAIN clusters :
                 /\ choices[n] = SpeakerChoice(analysis, clusters, i)
                 /\ choices[n].parts # {}
<1> DEFINE L == Min({4, Len(clusters)})
           all == [i \in 1..L |-> SpeakerChoice(analysis, clusters, i)]
           Audible(ch) ==
             \E p \in ch.parts : Quality(scene[ch.anchor.clip], p.start, p.end) > 0
           I == {i \in DOMAIN all : Speech(clusters[all[i].choice]) >= ShortTurn /\ Audible(all[i])}
           choices == Taken(all, Places(I))
           C == {SpeakerChoice(analysis, clusters, i) : i \in 1..L}
<1>1. SpeakerChoices(scene, analysis, clusters) = choices
  BY DEF SpeakerChoices, Select
<1>2. L \in Nat /\ L <= 4 /\ L <= Len(clusters)
  BY DEF Min
<1> HIDE DEF L
<1>3. all \in Seq(C) /\ DOMAIN all = 1..L
  <2>1. \A i \in 1..L : SpeakerChoice(analysis, clusters, i) \in C
    OBVIOUS
  <2> HIDE DEF C
  <2>2. DOMAIN all = 1..L /\ all \in [1..L -> C]
    BY <2>1
  <2> HIDE DEF all
  <2> QED BY ONLY <1>2, <2>2
<1>4. I \in SUBSET DOMAIN all /\ \A i \in I : all[i].parts # {}
  OBVIOUS
<1>5. \A i \in DOMAIN all : i \in DOMAIN clusters /\ all[i] = SpeakerChoice(analysis, clusters, i)
  BY <1>2
<1> HIDE DEF I, all, C
<1>6. /\ Cardinality(I) \in Nat
      /\ choices \in Seq(C) /\ Len(choices) = Cardinality(I)
      /\ \A n \in 1..Cardinality(I) : Places(I)[n] \in I /\ choices[n] = all[Places(I)[n]]
  <2>1. all \in Seq(C) /\ I \in SUBSET DOMAIN all
    BY <1>3, <1>4
  <2> QED BY ONLY <2>1, Selection
<1> HIDE DEF choices
<1>7. DOMAIN choices = 1..Len(choices)
  BY <1>6
<1>8. Cardinality(I) <= 4
  <2>1. IsFiniteSet(1..L) /\ Cardinality(1..L) = L
    BY <1>2, FS_Interval
  <2>2. Cardinality(I) <= Cardinality(1..L)
    BY <1>3, <1>4, <2>1, FS_Subset
  <2> QED BY <1>2, <1>6, <2>1, <2>2
<1>9. ASSUME NEW n \in DOMAIN choices
      PROVE  \E i \in DOMAIN clusters : /\ choices[n] = SpeakerChoice(analysis, clusters, i)
                                        /\ choices[n].parts # {}
  BY <1>4, <1>5, <1>6, <1>7
<1> QED BY <1>1, <1>6, <1>7, <1>8, <1>9

\* Every preview a user can be offered, of whatever upload in whatever reading, has for its
\* anchor a moment of the upload that leads back to the speaker who is heard in it, and to nobody
\* else: _cluster_from_anchor does not refuse the answer that _speaker_choices invited to.
THEOREM EveryPreviewIsFound ==
  ASSUME NEW scene \in Seq(Clips), NEW reading \in Readings
  PROVE  LET analysis == Analysis(scene, reading)
             clusters == SpeakerClusters(analysis)
         IN \A ch \in ToSet(SpeakerChoices(scene, analysis, clusters)) :
              /\ ch.anchor \in [clip : DOMAIN scene, time : Nat]
              /\ ClusterFromAnchor(analysis, clusters, ch.anchor) = {ch.choice}
<1> DEFINE analysis == Analysis(scene, reading)
           clusters == SpeakerClusters(analysis)
           choices == SpeakerChoices(scene, analysis, clusters)
<1>1. AreClusters(clusters, AllKnown(scene, reading))
  BY ClustersApart
<1>2. clusters \in Seq(SUBSET AllKnown(scene, reading))
  BY <1>1 DEF AreClusters
<1> HIDE DEF clusters
<1>3. \A n \in DOMAIN choices : \E i \in DOMAIN clusters :
        choices[n] = SpeakerChoice(analysis, clusters, i) /\ choices[n].parts # {}
  BY <1>2, OfferedPreviews
<1> HIDE DEF choices
<1>4. ASSUME NEW ch \in ToSet(choices)
      PROVE  /\ ch.anchor \in [clip : DOMAIN scene, time : Nat]
             /\ ClusterFromAnchor(analysis, clusters, ch.anchor) = {ch.choice}
  <2>1. PICK i \in DOMAIN clusters :
          ch = SpeakerChoice(analysis, clusters, i) /\ ch.parts # {}
    BY <1>3 DEF ToSet
  <2>2. ch.choice = i
    BY <2>1 DEF SpeakerChoice
  <2>3. SpeakerChoice(analysis, clusters, i).parts # {}
    BY <2>1
  <2>4. /\ SpeakerChoice(analysis, clusters, i).anchor \in [clip : DOMAIN scene, time : Nat]
        /\ ClusterFromAnchor(analysis, clusters, SpeakerChoice(analysis, clusters, i).anchor) = {i}
    BY <1>1, <2>3, PreviewLeadsBack
  <2> QED BY <2>1, <2>2, <2>4
<1> QED BY <1>4 DEF choices, clusters

-----------------------------------------------------------------------------
(* Numbers and finite sets. *)

\* Finitely many numbers have a largest and a smallest one.
LEMMA FiniteBounds ==
  ASSUME NEW s, IsFiniteSet(s), s # {}, s \subseteq Int
  PROVE  /\ Max(s) \in s /\ \A y \in s : Max(s) >= y
         /\ Min(s) \in s /\ \A y \in s : Min(s) <= y
<1> DEFINE n == Cardinality(s)
<1>1. /\ n \in Nat
      /\ \A k \in 1..n : Nth(s, k) \in s
      /\ \A m, k \in 1..n : m < k => Nth(s, m) < Nth(s, k)
      /\ \A i \in s : \E k \in 1..n : Nth(s, k) = i
  BY NthPlace
<1> HIDE DEF n
<1>2. n # 0 /\ 1 \in 1..n /\ n \in 1..n
  <2>1. PICK i \in s : TRUE
    OBVIOUS
  <2>2. PICK k \in 1..n : Nth(s, k) = i
    BY <1>1
  <2> QED BY <1>1, <2>2
<1>3. ASSUME NEW y \in s PROVE Nth(s, 1) <= y /\ y <= Nth(s, n)
  <2>1. PICK k \in 1..n : Nth(s, k) = y
    BY <1>1
  <2>2. Nth(s, 1) \in Int /\ Nth(s, n) \in Int /\ y \in Int
    BY <1>1, <1>2
  <2>3. Nth(s, 1) <= y
    <3>1. CASE k = 1
      BY <2>1, <2>2, <3>1
    <3>2. CASE 1 < k
      <4>1. Nth(s, 1) < Nth(s, k)
        BY <1>1, <1>2, <3>2
      <4> QED BY <2>1, <2>2, <4>1
    <3> QED BY <1>1, <3>1, <3>2
  <2>4. y <= Nth(s, n)
    <3>1. CASE k = n
      BY <2>1, <2>2, <3>1
    <3>2. CASE k < n
      <4>1. Nth(s, k) < Nth(s, n)
        BY <1>1, <1>2, <3>2
      <4> QED BY <2>1, <2>2, <4>1
    <3> QED BY <1>1, <3>1, <3>2
  <2> QED BY <2>3, <2>4
<1>4. \E x \in s : \A y \in s : x >= y
  <2>1. Nth(s, n) \in s
    BY <1>1, <1>2
  <2>2. \A y \in s : Nth(s, n) >= y
    <3>1. \A y \in s : y \in Int
      OBVIOUS
    <3> QED BY <1>3, <2>1, <3>1
  <2> QED BY <2>1, <2>2
<1>5. \E x \in s : \A y \in s : x <= y
  <2>1. Nth(s, 1) \in s
    BY <1>1, <1>2
  <2> QED BY <1>3, <2>1
<1>6. Max(s) \in s /\ \A y \in s : Max(s) >= y
  BY <1>4 DEF Max
<1>7. Min(s) \in s /\ \A y \in s : Min(s) <= y
  BY <1>5 DEF Min
<1> QED BY <1>6, <1>7

\* The elements of a sequence are finitely many.
LEMMA FinitelyManyElements ==
  ASSUME NEW S, NEW s \in Seq(S)
  PROVE  IsFiniteSet(ToSet(s)) /\ ToSet(s) = {s[i] : i \in 1..Len(s)}
<1>1. Len(s) \in Nat /\ ToSet(s) = {s[i] : i \in 1..Len(s)} /\ DOMAIN s = 1..Len(s)
  BY DEF ToSet
<1>2. [i \in 1..Len(s) |-> s[i]] \in Surjection(1..Len(s), ToSet(s))
  BY <1>1 DEF Surjection
<1>3. ExistsSurjection(1..Len(s), ToSet(s))
  BY <1>2 DEF ExistsSurjection
<1> QED BY <1>1, <1>3, FS_NatSurjection

\* The larger and the smaller of two.
LEMMA OfTwo ==
  ASSUME NEW a \in Int, NEW b \in Int
  PROVE  /\ Max({a, b}) = IF a >= b THEN a ELSE b
         /\ Min({a, b}) = IF a <= b THEN a ELSE b
BY DEF Max, Min

-----------------------------------------------------------------------------
(* Labels of one person. *)

\* Those who are noticed in a clip are finitely many people.
LEMMA PresentArePeople ==
  ASSUME NEW clip \in Clips, NEW reading \in Readings
  PROVE  IsFiniteSet(Present(clip, reading)) /\ Present(clip, reading) \subseteq Voices
<1> DEFINE turns == Noticed(clip, reading)
           P == Present(clip, reading)
           voice == [turn \in ToSet(turns) |-> turn.voice]
<1>1. turns \in Seq(Utterances)
  BY NoticedTurns
<1>2. P = {turn.voice : turn \in ToSet(turns)}
  BY DEF Present
<1> HIDE DEF turns, P
<1>3. IsFiniteSet(ToSet(turns)) /\ \A turn \in ToSet(turns) : turn \in Utterances
  BY <1>1, FinitelyManyElements DEF ToSet
<1>4. P \subseteq Voices
  BY <1>2, <1>3 DEF Utterances
<1>5. voice \in Surjection(ToSet(turns), P)
  BY <1>2 DEF Surjection
<1>6. IsFiniteSet(P)
  <2> HIDE DEF voice
  <2> QED BY <1>3, <1>5, FS_Surjection
<1> QED BY <1>4, <1>6 DEF P

\* Every label of a clip stands for one who speaks in it, and nobody has two.
LEMMA OneLabelEach ==
  ASSUME NEW clip \in Clips, NEW reading \in Readings
  PROVE  /\ Cardinality(Present(clip, reading)) \in Nat
         /\ \A v, w \in Present(clip, reading) :
              LabelOf(clip, v, reading) = LabelOf(clip, w, reading) => v = w
         /\ \A n \in 1..Cardinality(Present(clip, reading)) :
              \E v \in Present(clip, reading) : LabelOf(clip, v, reading) = n
<1> DEFINE turns == Noticed(clip, reading)
           P == Present(clip, reading)
           Starts(w) == {turn.start : turn \in {x \in ToSet(turns) : x.voice = w}}
           Begins(w) == Min(Starts(w))
           R == {vw \in P \X P : Begins(vw[1]) <= Begins(vw[2])}
           L == Cardinality(P)
<1>1. /\ turns \in Seq(Utterances)
      /\ \A n \in DOMAIN turns : turns[n].start + reading.late < turns[n].end
      /\ \A m, n \in DOMAIN turns : m < n => turns[m].end <= turns[n].start
  BY NoticedTurns
<1>2. reading.late \in {0, 2}
  BY DEF Readings
<1>3. IsFiniteSet(P) /\ L \in Nat
  BY PresentArePeople, FS_CardinalityType
<1>4. \A v : LabelOf(clip, v, reading) =
               LET n == Cardinality({w \in P : Begins(w) <= Begins(v)})
               IN IF reading.reversed THEN L + 1 - n ELSE n
  BY DEF LabelOf
<1>5. P = {turn.voice : turn \in ToSet(turns)}
  BY DEF Present
<1> HIDE DEF turns, P
<1>6. /\ DOMAIN turns = 1..Len(turns) /\ Len(turns) \in Nat
      /\ ToSet(turns) = {turns[i] : i \in DOMAIN turns} /\ IsFiniteSet(ToSet(turns))
  BY <1>1, FinitelyManyElements DEF ToSet
<1>7. ASSUME NEW n \in DOMAIN turns
      PROVE  turns[n].start \in Nat /\ turns[n].end \in Nat /\ turns[n].start < turns[n].end
  <2>1. turns[n] \in Utterances
    BY <1>1
  <2>2. turns[n].start \in Nat /\ turns[n].end \in Nat
    BY <2>1 DEF Utterances
  <2> QED BY <1>1, <1>2, <2>2
<1>8. ASSUME NEW m \in DOMAIN turns, NEW n \in DOMAIN turns, turns[m].start = turns[n].start
      PROVE  m = n
  <2>1. ASSUME NEW i \in DOMAIN turns, NEW k \in DOMAIN turns, i < k
        PROVE  turns[i].start < turns[k].start
    <3>1. turns[i].end <= turns[k].start
      BY <1>1, <2>1
    <3> QED BY <1>7, <3>1
  <2>2. ~(m < n) /\ ~(n < m)
    <3>1. turns[m].start \in Nat /\ turns[n].start \in Nat
      BY <1>7
    <3> QED BY <1>8, <2>1, <3>1
  <2> QED BY <1>6, <2>2
<1>9. ASSUME NEW v \in P
      PROVE  \E n \in DOMAIN turns : turns[n].voice = v /\ turns[n].start = Begins(v)
  <2> DEFINE Mine == {x \in ToSet(turns) : x.voice = v}
             start == [x \in Mine |-> x.start]
  <2>1. Starts(v) # {} /\ Starts(v) \subseteq Int
    BY <1>5, <1>6, <1>7
  <2>2. IsFiniteSet(Mine)
    BY <1>6, FS_Subset
  <2>3. start \in Surjection(Mine, Starts(v))
    BY DEF Surjection
  <2>4. IsFiniteSet(Starts(v))
    <3> HIDE DEF Mine, start, Starts
    <3> QED BY <2>2, <2>3, FS_Surjection
  <2>5. Begins(v) \in Starts(v)
    <3> HIDE DEF Starts
    <3> QED BY <2>1, <2>4, FiniteBounds
  <2> HIDE DEF Begins
  <2> QED BY <1>6, <2>5
<1> HIDE DEF Begins
<1>10. \A v \in P : Begins(v) \in Int
  BY <1>7, <1>9
<1>11. \A v, w \in P : Begins(v) = Begins(w) => v = w
  BY <1>8, <1>9
<1>12. IsOrder(R, P)
  BY <1>10, <1>11 DEF IsOrder
<1>13. \A v \in P : UpTo(P, R, v) = {w \in P : Begins(w) <= Begins(v)}
  BY DEF UpTo
<1>14. \A v, w \in P : <<v, w>> \in R \/ <<w, v>> \in R
  BY <1>12 DEF IsOrder
<1> HIDE DEF R, L
<1> DEFINE Rank(v) == Cardinality(UpTo(P, R, v))
<1>15. /\ \A v \in P : Rank(v) \in 1..L
       /\ \A v, w \in P : <<v, w>> \in R /\ v # w => Rank(v) < Rank(w)
       /\ \A n \in 1..L : \E v \in P : Rank(v) = n
  BY <1>3, <1>12, Ranks DEF L
<1>16. \A v \in P : LabelOf(clip, v, reading) = IF reading.reversed THEN L + 1 - Rank(v) ELSE Rank(v)
  BY <1>4, <1>13
<1> HIDE DEF Rank
<1>17. ASSUME NEW v \in P, NEW w \in P, LabelOf(clip, v, reading) = LabelOf(clip, w, reading)
       PROVE  v = w
  <2>1. Rank(v) \in Int /\ Rank(w) \in Int /\ L \in Int
    BY <1>3, <1>15
  <2>2. Rank(v) = Rank(w)
    BY <1>16, <1>17, <2>1
  <2>3. ~(Rank(v) < Rank(w)) /\ ~(Rank(w) < Rank(v))
    BY <2>1, <2>2
  <2> HIDE DEF Rank
  <2> QED BY <1>14, <1>15, <2>3, Zenon
<1>18. ASSUME NEW n \in 1..L PROVE \E v \in P : LabelOf(clip, v, reading) = n
  <2>1. L + 1 - n \in 1..L /\ n \in Int /\ L \in Int
    BY <1>3
  <2>2. CASE reading.reversed
    <3>1. PICK v \in P : Rank(v) = L + 1 - n
      BY <1>15, <2>1
    <3> QED BY <1>16, <2>1, <2>2, <3>1
  <2>3. CASE ~reading.reversed
    BY <1>15, <1>16, <2>3
  <2> QED BY <2>2, <2>3
<1> QED BY <1>3, <1>17, <1>18 DEF P, L

-----------------------------------------------------------------------------
(* Embeddings. *)

LEMMA Distributes ==
  ASSUME NEW a \in Nat, NEW b \in Nat, NEW t \in Nat
  PROVE  (a + b) * t = a * t + b * t
OBVIOUS

\* A factor does not make one number larger than another.
LEMMA Cancels ==
  ASSUME NEW k \in Nat, k >= 1, NEW a \in Nat, NEW b \in Nat, k * a >= k * b
  PROVE  a >= b
<1>1. SUFFICES ASSUME a < b PROVE FALSE
  OBVIOUS
<1> DEFINE d == b - a
<1>2. d \in Nat /\ d >= 1 /\ b = a + d
  BY <1>1
<1> HIDE DEF d
<1>3. k * b = k * a + k * d
  BY <1>2
<1>4. k * d >= 1 /\ k * d \in Int /\ k * a \in Int
  BY <1>2
<1> QED BY <1>3, <1>4

\* The multiple of an embedding.
Times(k, t) == <<k * t[1], k * t[2]>>

\* To be alike does not depend on the length of an embedding, and neither does which of two
\* multiples is closer.
LEMMA MultiplesAreAlike ==
  ASSUME NEW e \in Nat \X Nat, NEW t \in Nat \X Nat, NEW k \in Nat, k >= 1
  PROVE  /\ Dot(e, t) \in Nat /\ Dot(t, t) \in Nat
         /\ Dot(e, Times(k, t)) = k * Dot(e, t)
         /\ Dot(Times(k, t), Times(k, t)) = k * k * Dot(t, t)
         /\ Alike(e, Times(k, t)) => Alike(e, t)
<1>1. e[1] \in Nat /\ e[2] \in Nat /\ t[1] \in Nat /\ t[2] \in Nat
  OBVIOUS
<1>2. Dot(e, t) \in Nat /\ Dot(t, t) \in Nat /\ Dot(e, e) \in Nat
  BY <1>1 DEF Dot
<1>3. /\ Times(k, t)[1] = k * t[1] /\ Times(k, t)[2] = k * t[2]
  BY DEF Times
<1>4. Dot(e, Times(k, t)) = k * Dot(e, t)
  BY <1>1, <1>3 DEF Dot
<1>5. Dot(Times(k, t), Times(k, t)) = k * k * Dot(t, t)
  BY <1>1, <1>3 DEF Dot
<1>6. ASSUME Alike(e, Times(k, t)) PROVE Alike(e, t)
  <2> DEFINE D == Dot(e, t)
             A == 16 * D * D
             B == 9 * Dot(e, e) * Dot(t, t)
  <2>1. k * D > 0 /\ 16 * (k * D) * (k * D) >= 9 * Dot(e, e) * (k * k * Dot(t, t))
    BY <1>4, <1>5, <1>6 DEF Alike
  <2>2. A \in Nat /\ B \in Nat /\ D \in Nat
    BY <1>2
  <2>3. 16 * (k * D) * (k * D) = k * (k * A)
    BY <1>2
  <2>4. 9 * Dot(e, e) * (k * k * Dot(t, t)) = k * (k * B)
    BY <1>2
  <2>5. k * A \in Nat /\ k * B \in Nat
    BY <2>2
  <2>6. D > 0
    BY <2>1, <2>2
  <2> HIDE DEF A, B
  <2>7. k * A >= k * B
    BY <2>1, <2>3, <2>4, <2>5, Cancels
  <2>8. A >= B
    BY <2>2, <2>7, Cancels
  <2> QED BY <2>6, <2>8 DEF Alike, A, B
<1> QED BY <1>2, <1>4, <1>5, <1>6

\* The centroid of labels with one embedding is a multiple of it.
LEMMA CentroidOfOneVoice ==
  ASSUME NEW C, IsFiniteSet(C), C # {}, NEW t \in Nat \X Nat,
         \A x \in C : x.embedding = t /\ Duration(x) \in Int
  PROVE  \E k \in Nat : k >= 1 /\ Centroid(C) = Times(k, t)
<1> DEFINE Sums(s, k) == /\ Crosswise!SumOver(s) = k * t[1]
                         /\ Lengthwise!SumOver(s) = k * t[2]
           Common(s) == \E k \in Nat : (s # {} => k >= 1) /\ Sums(s, k)
           T == {n \in Nat : \A s \in SUBSET C : Cardinality(s) = n => Common(s)}
<1>1. t[1] \in Nat /\ t[2] \in Nat
  OBVIOUS
<1>2. \A x \in C : Weight(x) \in Nat /\ Weight(x) >= 1
  <2>1. ASSUME NEW x \in C PROVE Weight(x) \in Nat /\ Weight(x) >= 1
    <3>1. x.duration \div 20 \in Int /\ 1 \in Int
      BY DEF Duration
    <3> DEFINE d == x.duration \div 20
    <3> HIDE DEF d
    <3>2. Max({1, d}) = IF 1 >= d THEN 1 ELSE d
      BY <3>1, OfTwo DEF d
    <3> QED BY <3>1, <3>2 DEF Weight, d
  <2> QED BY <2>1
<1>3. \A x \in C : Across(x) = Weight(x) * t[1] /\ Along(x) = Weight(x) * t[2]
  BY DEF Across, Along
<1>4. \A x \in C : Across(x) \in Int /\ Along(x) \in Int
  BY <1>1, <1>2, <1>3
<1>5. ASSUME NEW s \in SUBSET C
      PROVE  /\ IsFiniteSet(s) /\ Cardinality(s) \in Nat /\ (Cardinality(s) = 0 <=> s = {})
             /\ Crosswise!IsFiniteSet(s) /\ Lengthwise!IsFiniteSet(s)
             /\ \A x \in s : Cardinality(s \ {x}) = Cardinality(s) - 1
  <2>1. IsFiniteSet(s)
    BY FS_Subset
  <2>2. Crosswise!IsFiniteSet(s) /\ Lengthwise!IsFiniteSet(s)
    BY <2>1, Zenon DEF IsFiniteSet, Crosswise!IsFiniteSet, Lengthwise!IsFiniteSet
  <2> QED BY <2>1, <2>2, FS_CardinalityType, FS_EmptySet, FS_RemoveElement
<1>6. 0 \in T
  <2>1. Crosswise!SumOver({}) = 0 /\ Lengthwise!SumOver({}) = 0
    BY Crosswise!SumOfNothing, Lengthwise!SumOfNothing, Zenon
  <2>2. Sums({}, 0)
    BY <1>1, <2>1
  <2> HIDE DEF Sums
  <2> QED BY <1>5, <2>2
<1>7. ASSUME NEW n \in Nat, n \in T PROVE n + 1 \in T
  <2>1. SUFFICES ASSUME NEW s \in SUBSET C, Cardinality(s) = n + 1 PROVE Common(s)
    OBVIOUS
  <2>2. PICK x \in s : TRUE
    BY <1>5, <2>1
  <2> DEFINE rest == s \ {x}
  <2>3. rest \in SUBSET C /\ Cardinality(rest) = n
    BY <1>5, <2>1, <2>2
  <2>4. PICK k \in Nat : Sums(rest, k)
    <3> HIDE DEF rest, Sums
    <3> QED BY <1>7, <2>3
  <2>5. /\ Crosswise!SumOver(s) = Across(x) + Crosswise!SumOver(rest)
        /\ Lengthwise!SumOver(s) = Along(x) + Lengthwise!SumOver(rest)
    BY <1>4, <1>5, <2>2, Crosswise!SumTakesOut, Lengthwise!SumTakesOut, Zenon
  <2>6. /\ Weight(x) \in Nat /\ Weight(x) >= 1
        /\ Across(x) = Weight(x) * t[1] /\ Along(x) = Weight(x) * t[2]
    BY <1>2, <1>3, <2>2
  <2> HIDE DEF rest
  <2>7. /\ (Weight(x) + k) * t[1] = Weight(x) * t[1] + k * t[1]
        /\ (Weight(x) + k) * t[2] = Weight(x) * t[2] + k * t[2]
    BY <1>1, <2>4, <2>6, Distributes
  <2>8. Sums(s, Weight(x) + k)
    BY <2>4, <2>5, <2>6, <2>7
  <2>9. Weight(x) + k \in Nat /\ Weight(x) + k >= 1
    BY <2>4, <2>6
  <2> HIDE DEF Sums
  <2> QED BY <2>8, <2>9
<1>8. PICK k \in Nat : k >= 1 /\ Sums(C, k)
  <2>1. \A n \in Nat : n \in T
    <3> HIDE DEF T
    <3> QED BY <1>6, <1>7, Lengths!SetInduction
  <2>2. Cardinality(C) \in Nat /\ C \in SUBSET C
    BY <1>5
  <2> HIDE DEF Sums
  <2> QED BY <2>1, <2>2
<1>9. Centroid(C) = <<Crosswise!SumOver(C), Lengthwise!SumOver(C)>>
  BY Zenon DEF Centroid, MapThenSumSet, MapThenFoldSet, Crosswise!SumOver, Crosswise!MapThenSumSet,
               Crosswise!MapThenFoldSet, Lengthwise!SumOver, Lengthwise!MapThenSumSet,
               Lengthwise!MapThenFoldSet
<1> QED BY <1>8, <1>9 DEF Times

-----------------------------------------------------------------------------
(* Whose labels a cluster has. *)

\* Who is meant by a label of a clip.
VoiceOf(scene, reading, x) ==
  CHOOSE v \in Present(scene[x.clip], reading) :
    LabelOf(scene[x.clip], v, reading) = x.label

\* Each label has the timbre of the one it stands for, if there are embeddings at all.
LEMMA WhoseLabel ==
  ASSUME NEW scene \in Seq(Clips), NEW reading \in Readings, NEW x \in AllKnown(scene, reading)
  PROVE  /\ x.clip \in DOMAIN scene /\ VoiceOf(scene, reading, x) \in Voices
         /\ VoiceOf(scene, reading, x) \in Present(scene[x.clip], reading)
         /\ LabelOf(scene[x.clip], VoiceOf(scene, reading, x), reading) = x.label
         /\ x.embedding = IF reading.embedded THEN Timbre[VoiceOf(scene, reading, x)] ELSE <<0, 0>>
<1>1. PICK c \in DOMAIN scene : x \in Known(scene, reading, c)
  BY DEF AllKnown
<1> DEFINE present == Present(scene[c], reading)
           L == Cardinality(present)
           Labelled(n) == CHOOSE v \in present : LabelOf(scene[c], v, reading) = n
           speakers == SpeakersOf(scene, c, reading)
<1>2. scene[c] \in Clips
  OBVIOUS
<1>3. /\ DOMAIN speakers = 1..L
      /\ \A n \in 1..L : /\ speakers[n].clip = c /\ speakers[n].label = n
                         /\ speakers[n].embedding = IF reading.embedded THEN Timbre[Labelled(n)]
                                                                        ELSE <<0, 0>>
  BY DEF SpeakersOf
<1>4. PICK n \in 1..L : x = speakers[n]
  BY <1>1, <1>3 DEF Known, ToSet
<1>5. x.clip = c /\ x.label = n /\ VoiceOf(scene, reading, x) = Labelled(n)
  BY <1>3, <1>4 DEF VoiceOf
<1>6. \E v \in present : LabelOf(scene[c], v, reading) = n
  BY <1>2, OneLabelEach
<1> HIDE DEF present, speakers
<1>7. Labelled(n) \in present /\ LabelOf(scene[c], Labelled(n), reading) = n
  BY <1>6
<1> HIDE DEF Labelled
<1>8. present \subseteq Voices
  BY <1>2, PresentArePeople DEF present
<1> QED BY <1>3, <1>4, <1>5, <1>7, <1>8 DEF present

\* Clusters that have labels of one person only.
IsOf(scene, reading, cluster, v) == \A x \in cluster : VoiceOf(scene, reading, x) = v

PureClusters(scene, reading) ==
  {clusters \in Seq(SUBSET AllKnown(scene, reading)) :
     \A i \in DOMAIN clusters : /\ IsFiniteSet(clusters[i]) /\ clusters[i] # {}
                                /\ \E v \in Voices : IsOf(scene, reading, clusters[i], v)}

\* Without an embedding nobody is like anybody.
LEMMA NothingIsAlike ==
  ASSUME NEW k \in Nat
  PROVE  ~Alike(<<0, 0>>, Times(k, <<0, 0>>))
BY DEF Alike, Dot, Times

\* Whoever resembles a cluster is the one it is of, and resembles all such clusters alike.
LEMMA ResemblesHimself ==
  ASSUME TimbresApart, NEW scene \in Seq(Clips), NEW reading \in Readings,
         NEW clusters \in PureClusters(scene, reading), NEW x \in AllKnown(scene, reading)
  PROVE  LET alike == {i \in DOMAIN clusters : Resembles(x, clusters[i])}
         IN /\ \A i \in alike : IsOf(scene, reading, clusters[i], VoiceOf(scene, reading, x))
            /\ \A i, k \in alike : ~Closer(x, clusters[k], clusters[i])
<1> DEFINE u == VoiceOf(scene, reading, x)
           alike == {i \in DOMAIN clusters : Resembles(x, clusters[i])}
           TimbreOf(v) == IF reading.embedded THEN Timbre[v] ELSE <<0, 0>>
           t == TimbreOf(u)
<1>1. u \in Voices /\ x.embedding = t
  BY WhoseLabel
<1>2. \A v \in Voices : TimbreOf(v) \in Nat \X Nat
  BY TimbreAssumption
<1> HIDE DEF u
<1>3. ASSUME NEW i \in alike
      PROVE  /\ IsOf(scene, reading, clusters[i], u)
             /\ \E k \in Nat : k >= 1 /\ Centroid(clusters[i]) = Times(k, t)
  <2>1. clusters[i] \subseteq AllKnown(scene, reading) /\ IsFiniteSet(clusters[i]) /\ clusters[i] # {}
    BY DEF PureClusters
  <2>2. PICK v \in Voices : IsOf(scene, reading, clusters[i], v)
    BY DEF PureClusters
  <2>3. \A y \in clusters[i] : y.embedding = TimbreOf(v) /\ Duration(y) \in Int
    BY <2>1, <2>2, WhoseLabel, WhoIsKnown DEF IsOf
  <2> HIDE DEF TimbreOf
  <2>4. PICK k \in Nat : k >= 1 /\ Centroid(clusters[i]) = Times(k, TimbreOf(v))
    BY <1>2, <2>1, <2>3, CentroidOfOneVoice
  <2>5. Alike(t, Times(k, TimbreOf(v)))
    BY <1>1, <2>4 DEF Resembles
  <2>6. Alike(t, TimbreOf(v))
    BY <1>1, <1>2, <2>4, <2>5, MultiplesAreAlike
  <2>7. reading.embedded
    <3>1. CASE ~reading.embedded
      BY <2>4, <2>5, <3>1, NothingIsAlike DEF TimbreOf
    <3> QED BY <3>1
  <2>8. v = u
    BY <1>1, <2>6, <2>7 DEF TimbreOf, TimbresApart
  <2> QED BY <2>2, <2>4, <2>8
<1>4. ASSUME NEW i \in alike, NEW k \in alike PROVE ~Closer(x, clusters[k], clusters[i])
  <2>1. PICK m \in Nat : m >= 1 /\ Centroid(clusters[k]) = Times(m, t)
    BY <1>3
  <2>2. PICK n \in Nat : n >= 1 /\ Centroid(clusters[i]) = Times(n, t)
    BY <1>3
  <2> DEFINE D == Dot(t, t)
  <2>3. t \in Nat \X Nat
    BY <1>1, <1>2
  <2> HIDE DEF t
  <2>4. /\ D \in Nat
        /\ Dot(t, Times(m, t)) = m * D /\ Dot(t, Times(n, t)) = n * D
        /\ Dot(Times(m, t), Times(m, t)) = m * m * D /\ Dot(Times(n, t), Times(n, t)) = n * n * D
    BY <2>1, <2>2, <2>3, MultiplesAreAlike
  <2> HIDE DEF D
  <2>5. (m * D) * (m * D) * (n * n * D) = (n * D) * (n * D) * (m * m * D)
    BY <2>1, <2>2, <2>4
  <2>6. (n * D) * (n * D) * (m * m * D) \in Int
    BY <2>1, <2>2, <2>4
  <2>7. ~((m * D) * (m * D) * (n * n * D) > (n * D) * (n * D) * (m * m * D))
    BY <2>5, <2>6
  <2> QED BY <1>1, <2>1, <2>2, <2>4, <2>7 DEF Closer
<1> QED BY <1>3, <1>4 DEF u

\* Joining keeps everybody to himself.
LEMMA JoinKeepsPure ==
  ASSUME TimbresApart, NEW scene \in Seq(Clips), NEW reading \in Readings,
         NEW clusters \in PureClusters(scene, reading), NEW x \in AllKnown(scene, reading)
  PROVE  Join(clusters, x) \in PureClusters(scene, reading)
<1> DEFINE u == VoiceOf(scene, reading, x)
           All == AllKnown(scene, reading)
           alike == {i \in DOMAIN clusters : Resembles(x, clusters[i])}
           best == {i \in alike : \A k \in alike : ~Closer(x, clusters[k], clusters[i])}
           Fine(cluster) == /\ IsFiniteSet(cluster) /\ cluster # {}
                            /\ \E v \in Voices : IsOf(scene, reading, cluster, v)
<1>1. /\ clusters \in Seq(SUBSET All) /\ \A i \in DOMAIN clusters : Fine(clusters[i])
      /\ DOMAIN clusters = 1..Len(clusters) /\ Len(clusters) \in Nat
  BY DEF PureClusters
<1>2. u \in Voices
  BY WhoseLabel
<1>3. /\ \A i \in alike : IsOf(scene, reading, clusters[i], u)
      /\ best = alike
  BY ResemblesHimself
<1>4. Join(clusters, x) = IF alike = {} THEN Append(clusters, {x})
                          ELSE [clusters EXCEPT ![Max(best)] = @ \cup {x}]
  BY Zenon DEF Join
<1>5. alike \in SUBSET (1..Len(clusters))
  BY <1>1
<1>6. ASSUME NEW new \in Seq(SUBSET All), \A i \in DOMAIN new : Fine(new[i])
      PROVE  new \in PureClusters(scene, reading)
  BY <1>6 DEF PureClusters
<1>7. CASE alike = {}
  <2> DEFINE new == Append(clusters, {x})
  <2>1. /\ new \in Seq(SUBSET All) /\ DOMAIN new = 1..(Len(clusters) + 1)
        /\ \A i \in DOMAIN new : \/ i \in DOMAIN clusters /\ new[i] = clusters[i]
                                 \/ i = Len(clusters) + 1 /\ new[i] = {x}
    BY <1>1
  <2>2. Fine({x})
    <3>1. IsFiniteSet({x})
      BY FS_Singleton
    <3>2. IsOf(scene, reading, {x}, u)
      BY DEF IsOf
    <3> HIDE DEF u
    <3> QED BY <1>2, <3>1, <3>2
  <2> HIDE DEF new, Fine
  <2>3. \A i \in DOMAIN new : Fine(new[i])
    BY <1>1, <2>1, <2>2
  <2>4. new \in PureClusters(scene, reading)
    BY <1>6, <2>1, <2>3
  <2> QED BY <1>4, <1>7, <2>4 DEF new
<1>8. CASE alike # {}
  <2> DEFINE b == Max(alike)
             new == [clusters EXCEPT ![b] = @ \cup {x}]
  <2>1. b \in alike
    <3>1. IsFiniteSet(1..Len(clusters))
      BY <1>1, FS_Interval
    <3>2. IsFiniteSet(alike) /\ alike \subseteq Int
      BY <1>5, <3>1, FS_Subset
    <3> HIDE DEF alike
    <3> QED BY <1>8, <3>2, FiniteBounds
  <2>2. Join(clusters, x) = new
    BY <1>3, <1>4, <1>8
  <2>3. b \in DOMAIN clusters /\ IsOf(scene, reading, clusters[b], u)
    BY <1>3, <2>1
  <2> HIDE DEF b, alike
  <2>4. /\ new \in Seq(SUBSET All) /\ DOMAIN new = DOMAIN clusters
        /\ \A i \in DOMAIN new : new[i] = IF i = b THEN clusters[b] \cup {x} ELSE clusters[i]
    <3>1. \A i \in 1..Len(clusters) : clusters[i] \in SUBSET All
      BY <1>1
    <3>2. x \in All
      OBVIOUS
    <3> HIDE DEF All
    <3>3. new = [i \in 1..Len(clusters) |-> IF i = b THEN clusters[b] \cup {x} ELSE clusters[i]]
      BY <1>1, <2>3
    <3>4. \A i \in 1..Len(clusters) : (IF i = b THEN clusters[b] \cup {x} ELSE clusters[i]) \in SUBSET All
      BY <1>1, <2>3, <3>1, <3>2
    <3> HIDE DEF new
    <3> QED BY <1>1, <3>3, <3>4
  <2> HIDE DEF new
  <2>5. Fine(clusters[b] \cup {x})
    <3>1. IsFiniteSet(clusters[b] \cup {x})
      BY <1>1, <2>3, FS_AddElement
    <3>2. IsOf(scene, reading, clusters[b] \cup {x}, u)
      BY <2>3 DEF IsOf
    <3> HIDE DEF u
    <3> QED BY <1>2, <3>1, <3>2
  <2> HIDE DEF Fine
  <2>6. \A i \in DOMAIN new : Fine(new[i])
    BY <1>1, <2>4, <2>5
  <2>7. new \in PureClusters(scene, reading)
    BY <1>6, <2>4, <2>6
  <2> QED BY <2>2, <2>7
<1> QED BY <1>7, <1>8

\* If no two timbres are alike, no cluster mixes people, whatever labels they have in which clip.
LEMMA ClustersArePure ==
  ASSUME TimbresApart, NEW scene \in Seq(Clips), NEW reading \in Readings
  PROVE  SpeakerClusters(Analysis(scene, reading)) \in PureClusters(scene, reading)
<1> DEFINE All == AllKnown(scene, reading)
           Pure == PureClusters(scene, reading)
           nodes == Nodes(Analysis(scene, reading))
           raw == FoldLeft(Join, <<>>, nodes)
           keys == [i \in DOMAIN raw |-> Speech(raw[i])]
           clusters == Taken(raw, Order(keys))
<1>1. SpeakerClusters(Analysis(scene, reading)) = clusters
  BY DEF SpeakerClusters, Descending
<1>2. raw \in Pure
  <2>1. nodes \in Seq(All)
    BY NodesOnce
  <2>2. <<>> \in Pure
    BY DEF PureClusters
  <2>3. \A a \in Pure, x \in All : Join(a, x) \in Pure
    BY JoinKeepsPure
  <2> HIDE DEF nodes, Pure, All
  <2>4. raw = Joining!FoldLeft(Join, <<>>, nodes)
    BY Zenon DEF FoldLeft, Joining!FoldLeft, MapThenFoldSet, Joining!MapThenFoldSet,
                 Max, Joining!Max
  <2>5. Joining!FoldLeft(Join, <<>>, nodes) \in Pure
    BY <2>1, <2>2, <2>3, Joining!FoldKeeps, Zenon
  <2> QED BY <2>4, <2>5, Zenon
<1> HIDE DEF raw, nodes
<1>3. \A x \in All : Duration(x) \in Int
  BY WhoIsKnown
<1>4. raw \in Seq(SUBSET All) /\ \A i \in DOMAIN raw : IsFiniteSet(raw[i])
  BY <1>2 DEF PureClusters
<1> HIDE DEF All
<1>5. ASSUME NEW i \in DOMAIN raw PROVE Speech(raw[i]) \in Int
  <2>1. raw[i] \subseteq All
    BY <1>4
  <2>2. \A x \in raw[i] : Duration(x) \in Int
    BY <1>3, <2>1
  <2> QED BY <1>4, <2>2, SpeechIsANumber
<1>6. keys \in [DOMAIN raw -> Int]
  BY <1>5
<1> HIDE DEF keys
<1>7. /\ clusters \in Seq(SUBSET All) /\ Len(clusters) = Len(raw)
      /\ \A n \in DOMAIN raw : Order(keys)[n] \in DOMAIN raw /\ clusters[n] = raw[Order(keys)[n]]
  <2>1. raw \in Seq(SUBSET All)
    BY <1>4
  <2> QED BY ONLY <1>6, <2>1, Sorting
<1> HIDE DEF clusters
<1>8. DOMAIN clusters = DOMAIN raw
  BY <1>4, <1>7
<1>9. clusters \in Pure
  BY <1>2, <1>7, <1>8 DEF PureClusters, All
<1> QED BY <1>1, <1>9

\* The turns of a cluster are turns of the one it is of.
LEMMA SpokenByOne ==
  ASSUME NEW scene \in Seq(Clips), NEW reading \in Readings, NEW cluster,
         cluster \subseteq AllKnown(scene, reading),
         NEW v, IsOf(scene, reading, cluster, v), NEW c \in DOMAIN scene,
         NEW j \in Spoken(SegmentsOf(scene[c], reading), c, cluster)
  PROVE  LET s == SegmentsOf(scene[c], reading)[j]
             turn == Noticed(scene[c], reading)[j]
         IN /\ j \in DOMAIN Noticed(scene[c], reading)
            /\ turn.voice = v /\ s.start = turn.start + reading.late /\ s.end = turn.end
<1> DEFINE turns == Noticed(scene[c], reading)
           segments == SegmentsOf(scene[c], reading)
<1>1. /\ DOMAIN segments = DOMAIN turns
      /\ \A i \in DOMAIN turns :
           segments[i] = [start |-> turns[i].start + reading.late, end |-> turns[i].end,
                          label |-> LabelOf(scene[c], turns[i].voice, reading)]
  BY DEF SegmentsOf
<1>2. Present(scene[c], reading) = {turn.voice : turn \in ToSet(turns)}
  BY DEF Present
<1>3. turns \in Seq(Utterances) /\ scene[c] \in Clips
  BY NoticedTurns
<1> HIDE DEF turns, segments
<1>4. PICK x \in cluster : x.clip = c /\ x.label = segments[j].label
  BY DEF Spoken, segments
<1>5. j \in DOMAIN turns
  BY <1>1 DEF Spoken, segments
<1>6. turns[j].voice \in Present(scene[c], reading)
  BY <1>2, <1>3, <1>5 DEF ToSet
<1>7. /\ VoiceOf(scene, reading, x) = v /\ v \in Present(scene[c], reading)
      /\ LabelOf(scene[c], v, reading) = x.label
  <2>1. VoiceOf(scene, reading, x) = v
    BY DEF IsOf
  <2> QED BY <1>4, <2>1, WhoseLabel
<1>8. LabelOf(scene[c], turns[j].voice, reading) = LabelOf(scene[c], v, reading)
  BY <1>1, <1>4, <1>5, <1>7
<1>9. turns[j].voice = v
  BY <1>3, <1>6, <1>7, <1>8, OneLabelEach
<1>10. segments[j].start = turns[j].start + reading.late /\ segments[j].end = turns[j].end
  BY <1>1, <1>5
<1> QED BY <1>5, <1>9, <1>10 DEF turns, segments

-----------------------------------------------------------------------------
(* Previews and anchors of one person. *)

\* A stretch of a clip within a turn of v has v in it and nobody else.
InTurnOf(clip, v, start, end) ==
  \E turn \in ToSet(clip.turns) : turn.voice = v /\ turn.start <= start /\ end <= turn.end

LEMMA OneVoiceInATurn ==
  ASSUME NEW clip \in Clips, NEW v, NEW start \in Int, NEW end \in Int, start < end,
         InTurnOf(clip, v, start, end)
  PROVE  VoicesIn(clip, start, end) = {v}
<1>1. /\ clip.turns \in Seq(Utterances)
      /\ \A i, k \in DOMAIN clip.turns : i < k => clip.turns[i].end <= clip.turns[k].start
  BY DEF Clips
<1>2. PICK i \in DOMAIN clip.turns :
        /\ clip.turns[i].voice = v /\ clip.turns[i].start <= start /\ end <= clip.turns[i].end
  BY <1>1 DEF InTurnOf, ToSet
<1>3. \A k \in DOMAIN clip.turns :
        clip.turns[k].start \in Int /\ clip.turns[k].end \in Int /\ k \in Int
  <2>1. \A k \in DOMAIN clip.turns : clip.turns[k] \in Utterances /\ k \in Int
    BY <1>1
  <2> QED BY <2>1 DEF Utterances
<1>4. ASSUME NEW k \in DOMAIN clip.turns, clip.turns[k].start < end, start < clip.turns[k].end
      PROVE  k = i
  <2>1. CASE k < i
    <3>1. clip.turns[k].end <= clip.turns[i].start
      BY <1>1, <1>2, <2>1
    <3> QED BY <1>2, <1>3, <1>4, <3>1
  <2>2. CASE i < k
    <3>1. clip.turns[i].end <= clip.turns[k].start
      BY <1>1, <1>2, <2>2
    <3> QED BY <1>2, <1>3, <1>4, <3>1
  <2> QED BY <1>2, <1>3, <2>1, <2>2
<1>5. clip.turns[i].start < end /\ start < clip.turns[i].end
  BY <1>2, <1>3
<1>6. TurnsIn(clip, start, end) = {clip.turns[i]}
  <2>1. TurnsIn(clip, start, end) =
          {clip.turns[k] : k \in {m \in DOMAIN clip.turns :
                                    clip.turns[m].start < end /\ start < clip.turns[m].end}}
    BY <1>1 DEF TurnsIn, ToSet
  <2> QED BY <1>4, <1>5, <2>1
<1> QED BY <1>2, <1>6 DEF VoicesIn

\* What is noticed was said.
LEMMA NoticedWasSaid ==
  ASSUME NEW clip \in Clips, NEW reading \in Readings, NEW j \in DOMAIN Noticed(clip, reading)
  PROVE  Noticed(clip, reading)[j] \in ToSet(clip.turns)
<1> DEFINE I == {i \in DOMAIN clip.turns : /\ reading.faint \/ clip.turns[i].quality # 1
                                           /\ clip.turns[i].start + reading.late < clip.turns[i].end}
           t == Taken(clip.turns, Places(I))
<1>1. clip.turns \in Seq(Utterances)
  BY DEF Clips
<1>2. Noticed(clip, reading) = t
  BY DEF Noticed, Select
<1>3. I \in SUBSET DOMAIN clip.turns
  OBVIOUS
<1> HIDE DEF I
<1>4. /\ t \in Seq(Utterances) /\ Len(t) = Cardinality(I)
      /\ \A n \in 1..Cardinality(I) : Places(I)[n] \in I /\ t[n] = clip.turns[Places(I)[n]]
  BY <1>1, <1>3, Selection
<1> HIDE DEF t
<1>5. j \in 1..Cardinality(I)
  BY <1>2, <1>4
<1> QED BY <1>1, <1>2, <1>3, <1>4, <1>5 DEF ToSet

\* Turns that were noticed are turns of v in the clip, though they may begin late.
AreTurnsOf(turns, clip, v, late) ==
  /\ \E S : turns \in Seq(S) /\ \A s \in S : s.start \in Nat /\ s.end \in Nat
  /\ \A r \in DOMAIN turns :
       /\ turns[r].start < turns[r].end
       /\ \E turn \in ToSet(clip.turns) :
            turn.voice = v /\ turn.start + late = turns[r].start /\ turn.end = turns[r].end

\* In every clip, a cluster of one person has turns of that person.
LEMMA TurnsOfOne ==
  ASSUME NEW scene \in Seq(Clips), NEW reading \in Readings, NEW cluster,
         cluster \subseteq AllKnown(scene, reading),
         NEW v, IsOf(scene, reading, cluster, v), NEW c \in DOMAIN scene
  PROVE  AreTurnsOf(SegmentsForCluster(Analysis(scene, reading), cluster)[c], scene[c], v,
                    reading.late)
<1> DEFINE segments == SegmentsOf(scene[c], reading)
           noticed == Noticed(scene[c], reading)
           I == Spoken(segments, c, cluster)
           t == Taken(segments, Places(I))
<1>1. SegmentsForCluster(Analysis(scene, reading), cluster)[c] = t
  BY DEF SegmentsForCluster, Analysis, Select, Spoken
<1>2. scene[c] \in Clips
  OBVIOUS
<1>3. /\ \A s \in ToSet(segments) : s.start \in Nat /\ s.end \in Nat /\ s.start < s.end
      /\ \E S : segments \in Seq(S)
  BY <1>2, SegmentsApart
<1>4. \A j \in I : /\ j \in DOMAIN noticed
                   /\ noticed[j].voice = v /\ segments[j].start = noticed[j].start + reading.late
                   /\ segments[j].end = noticed[j].end
  BY SpokenByOne
<1>5. \A j \in DOMAIN noticed : noticed[j] \in ToSet(scene[c].turns)
  BY <1>2, NoticedWasSaid
<1>6. I \in SUBSET DOMAIN segments
  BY DEF Spoken
<1> DEFINE All == {segments[j] : j \in DOMAIN segments}
<1> HIDE DEF I, segments, noticed
<1>7. segments \in Seq(All) /\ \A s \in All : s.start \in Nat /\ s.end \in Nat /\ s.start < s.end
  <2>1. DOMAIN segments = 1..Len(segments) /\ Len(segments) \in Nat /\
        segments = [j \in 1..Len(segments) |-> segments[j]]
    BY <1>3
  <2>2. ToSet(segments) = All
    BY DEF ToSet
  <2>3. \A j \in 1..Len(segments) : segments[j] \in All
    BY <2>1
  <2> HIDE DEF All
  <2> QED BY <1>3, <2>1, <2>2, <2>3
<1> HIDE DEF All
<1>8. /\ Cardinality(I) \in Nat /\ t \in Seq(All) /\ Len(t) = Cardinality(I)
      /\ \A n \in 1..Cardinality(I) : Places(I)[n] \in I /\ t[n] = segments[Places(I)[n]]
  BY ONLY <1>6, <1>7, Selection
<1> HIDE DEF t
<1>9. ASSUME NEW r \in DOMAIN t
      PROVE  /\ t[r].start < t[r].end
             /\ \E turn \in ToSet(scene[c].turns) :
                  turn.voice = v /\ turn.start + reading.late = t[r].start /\ turn.end = t[r].end
  <2>1. r \in 1..Cardinality(I) /\ t[r] \in All
    BY <1>8
  <2>2. Places(I)[r] \in I /\ t[r] = segments[Places(I)[r]]
    BY <1>8, <2>1
  <2>3. noticed[Places(I)[r]] \in ToSet(scene[c].turns)
    BY <1>4, <1>5, <2>2
  <2> QED BY <1>4, <1>7, <2>1, <2>2, <2>3
<1> QED BY <1>1, <1>7, <1>8, <1>9 DEF AreTurnsOf

\* A preview is cut from the beginnings of turns.
LEMMA PartsOfAPreview ==
  ASSUME NEW S, NEW turns \in Seq(S), \A s \in S : s.start \in Int /\ s.end \in Int
  PROVE  \A p \in PreviewParts(turns) : \E i \in DOMAIN turns :
           p.start = turns[i].start /\ p.end \in Int /\ p.start < p.end /\ p.end <= turns[i].end
<1> DEFINE keys == [i \in DOMAIN turns |-> Length(turns[i])]
           longest == Taken(turns, Order(keys))
           start == [parts |-> {}, left |-> PreviewTarget]
           All == {turns[i] : i \in DOMAIN turns}
           From(p) == \E i \in DOMAIN turns :
             p.start = turns[i].start /\ p.end \in Int /\ p.start < p.end /\ p.end <= turns[i].end
           T == {h \in [parts : SUBSET [start : Int, end : Int], left : Int] : \A p \in h.parts : From(p)}
<1>1. \A i \in DOMAIN turns : turns[i].start \in Int /\ turns[i].end \in Int /\ keys[i] \in Int
  BY DEF Length
<1>2. keys \in [DOMAIN turns -> Int] /\ turns \in Seq(All)
  BY <1>1
<1>3. Descending(turns, Length) = longest
  BY DEF Descending
<1> HIDE DEF keys
<1>4. longest \in Seq(All)
  <2> HIDE DEF All
  <2> QED BY <1>2, Sorting
<1> HIDE DEF longest
<1>5. start \in T
  BY DEF PreviewTarget
<1>6. ASSUME NEW h \in T, NEW s \in All PROVE Hear(h, s) \in T
  <2> DEFINE take == Min({Length(s), h.left})
             p == [start |-> s.start, end |-> s.start + take]
  <2>1. PICK i \in DOMAIN turns : s = turns[i]
    OBVIOUS
  <2>2. s.start \in Int /\ s.end \in Int /\ Length(s) \in Int /\ Length(s) = s.end - s.start
        /\ h.left \in Int /\ h.parts \in SUBSET [start : Int, end : Int]
    BY <1>1, <2>1 DEF Length
  <2>3. CASE Length(s) < Crumb \/ h.left <= 0
    <3>1. Hear(h, s) = h
      BY <2>3 DEF Hear
    <3> QED BY <3>1
  <2>4. CASE ~(Length(s) < Crumb \/ h.left <= 0)
    <3>1. Hear(h, s) = [parts |-> h.parts \cup {p}, left |-> h.left - take]
      BY <2>4 DEF Hear
    <3>2. take = IF Length(s) <= h.left THEN Length(s) ELSE h.left
      BY <2>2, OfTwo
    <3>3. take \in Int /\ 0 < take /\ take <= Length(s)
      BY <2>2, <2>4, <3>2 DEF Crumb
    <3> HIDE DEF take
    <3>4. p \in [start : Int, end : Int] /\ p.start = s.start /\ p.end = s.start + take
      BY <2>2, <3>3
    <3>5. p.end \in Int /\ p.start < p.end /\ p.end <= s.end
      BY <2>2, <3>3, <3>4
    <3>6. From(p)
      BY <2>1, <3>4, <3>5
    <3> HIDE DEF p, From
    <3>7. /\ [parts |-> h.parts \cup {p}, left |-> h.left - take]
               \in [parts : SUBSET [start : Int, end : Int], left : Int]
          /\ \A q \in h.parts \cup {p} : From(q)
      BY <2>2, <3>3, <3>4, <3>6
    <3> QED BY <3>1, <3>7
  <2> QED BY <2>3, <2>4
<1>7. PreviewParts(turns) = Hearing!FoldLeft(Hear, start, longest).parts
  BY <1>3, Zenon DEF PreviewParts, FoldLeft, Hearing!FoldLeft, MapThenFoldSet,
                     Hearing!MapThenFoldSet, Max, Hearing!Max
<1>8. Hearing!FoldLeft(Hear, start, longest) \in T
  <2> HIDE DEF start, T, All
  <2> QED BY <1>4, <1>5, <1>6, Hearing!FoldKeeps, Zenon
<1> HIDE DEF start
<1> QED BY <1>7, <1>8

\* An anchor is deep in a turn of v: farther from its ends than _cluster_from_anchor looks.
DeepIn(scene, anchor, v) ==
  /\ anchor.clip \in DOMAIN scene /\ anchor.time \in Nat
  /\ \E turn \in ToSet(scene[anchor.clip].turns) :
       turn.voice = v /\ turn.start + Slack < anchor.time /\ anchor.time < turn.end - Slack

\* In a preview of a cluster of one person he is heard and nobody else, and its anchor is deep
\* in a turn of his.
LEMMA PreviewIsOfOne ==
  ASSUME NEW scene \in Seq(Clips), NEW reading \in Readings,
         NEW clusters \in PureClusters(scene, reading),
         AreClusters(clusters, AllKnown(scene, reading)), NEW i \in DOMAIN clusters,
         SpeakerChoice(Analysis(scene, reading), clusters, i).parts # {}
  PROVE  LET choice == SpeakerChoice(Analysis(scene, reading), clusters, i)
         IN \E v \in Voices :
              /\ IsOf(scene, reading, clusters[i], v)
              /\ DeepIn(scene, choice.anchor, v)
              /\ \A p \in choice.parts : VoicesIn(scene[choice.anchor.clip], p.start, p.end) = {v}
<1> DEFINE analysis == Analysis(scene, reading)
           turns == SegmentsForCluster(analysis, clusters[i])
           Most(c) == Speaking(turns[c])
           clip == Descending([c \in DOMAIN turns |-> c], Most)[1]
           longest == Descending(turns[clip], Length)[1]
           time == longest.start + Length(longest) \div 2
           choice == SpeakerChoice(analysis, clusters, i)
<1>1. choice.parts = PreviewParts(turns[clip]) /\ choice.anchor = [clip |-> clip, time |-> time]
  BY DEF SpeakerChoice, SpeakerAnchor
<1>2. choice.anchor \in [clip : DOMAIN scene, time : Nat]
  BY PreviewLeadsBack
<1> HIDE DEF analysis, choice, clip, time
<1>3. clip \in DOMAIN scene /\ time \in Nat
  BY <1>1, <1>2
<1>4. PICK v \in Voices : IsOf(scene, reading, clusters[i], v)
  BY DEF PureClusters
<1>5. clusters[i] \subseteq AllKnown(scene, reading)
  BY DEF PureClusters
<1> DEFINE t == turns[clip]
<1>6. /\ \E S : t \in Seq(S) /\ \A s \in S : s.start \in Nat /\ s.end \in Nat
      /\ \A r \in DOMAIN t :
           /\ t[r].start < t[r].end
           /\ \E turn \in ToSet(scene[clip].turns) :
                /\ turn.voice = v /\ turn.start + reading.late = t[r].start
                /\ turn.end = t[r].end
  <2>1. AreTurnsOf(t, scene[clip], v, reading.late)
    BY <1>3, <1>4, <1>5, TurnsOfOne DEF analysis
  <2> HIDE DEF t
  <2> QED BY <2>1 DEF AreTurnsOf
<1>7. choice.parts = PreviewParts(t) /\ PreviewParts(t) # {} /\ longest = Descending(t, Length)[1]
  BY <1>1 DEF choice, analysis
<1> HIDE DEF t, longest
<1>8. PICK S : t \in Seq(S) /\ \A s \in S : s.start \in Nat /\ s.end \in Nat
  BY <1>6
<1>9. scene[clip] \in Clips /\ reading.late \in {0, 2}
  BY <1>3 DEF Readings
<1>10. \A turn \in ToSet(scene[clip].turns) : turn.start \in Nat /\ turn.end \in Nat
  <2>1. scene[clip].turns \in Seq(Utterances)
    BY <1>9 DEF Clips
  <2>2. \A k \in DOMAIN scene[clip].turns : scene[clip].turns[k] \in Utterances
    BY <2>1
  <2> QED BY <2>2 DEF ToSet, Utterances
<1>11. DeepIn(scene, choice.anchor, v)
  <2>1. \A s \in S : Length(s) \in Int
    BY <1>8 DEF Length
  <2>2. PICK r \in DOMAIN t : longest = t[r] /\ Length(t[r]) >= Crumb
    BY <1>7, <1>8, <2>1, LongestTurn
  <2>3. longest.start \in Nat /\ longest.end \in Nat
    BY <1>8, <2>2
  <2>4. longest.start + Slack < time /\ time < longest.end - Slack
    BY <2>2, <2>3, MiddleOfATurn DEF time
  <2>5. PICK turn \in ToSet(scene[clip].turns) :
          turn.voice = v /\ turn.start + reading.late = longest.start /\ turn.end = longest.end
    BY <1>6, <2>2
  <2>6. turn.start + Slack < time /\ time < turn.end - Slack
    BY <1>3, <1>9, <1>10, <2>3, <2>4, <2>5 DEF Slack
  <2> QED BY <1>1, <1>3, <2>5, <2>6 DEF DeepIn
<1>12. ASSUME NEW p \in choice.parts
       PROVE  VoicesIn(scene[clip], p.start, p.end) = {v}
  <2>1. PICK r \in DOMAIN t :
          p.start = t[r].start /\ p.end \in Int /\ p.start < p.end /\ p.end <= t[r].end
    <3>1. \A s \in S : s.start \in Int /\ s.end \in Int
      BY <1>8
    <3>2. \A q \in PreviewParts(t) : \E r \in DOMAIN t :
            q.start = t[r].start /\ q.end \in Int /\ q.start < q.end /\ q.end <= t[r].end
      BY <1>8, <3>1, PartsOfAPreview
    <3> QED BY <1>7, <3>2
  <2>2. t[r].start \in Nat /\ t[r].end \in Nat
    BY <1>8
  <2>3. PICK turn \in ToSet(scene[clip].turns) :
          turn.voice = v /\ turn.start + reading.late = t[r].start /\ turn.end = t[r].end
    BY <1>6
  <2>4. turn.start <= p.start /\ p.end <= turn.end
    BY <1>9, <1>10, <2>1, <2>2, <2>3
  <2>5. InTurnOf(scene[clip], v, p.start, p.end)
    BY <2>3, <2>4 DEF InTurnOf
  <2> QED BY <1>9, <2>1, <2>2, <2>5, OneVoiceInATurn
<1>13. choice.anchor.clip = clip
  BY <1>1
<1> QED BY <1>4, <1>11, <1>12, <1>13 DEF choice, analysis

\* Wherever an anchor that is deep in a turn of v is found, in whatever reading, it is among
\* the turns of v.
LEMMA AnchorFindsOnlyHim ==
  ASSUME NEW scene \in Seq(Clips), NEW reading \in Readings, NEW cluster,
         cluster \subseteq AllKnown(scene, reading),
         NEW w, IsOf(scene, reading, cluster, w),
         NEW anchor, NEW v, DeepIn(scene, anchor, v),
         HasAnchor(Analysis(scene, reading), cluster, anchor)
  PROVE  w = v
<1> DEFINE clip == scene[anchor.clip]
           t == SegmentsForCluster(Analysis(scene, reading), cluster)[anchor.clip]
<1>1. anchor.clip \in DOMAIN scene /\ anchor.time \in Nat
  BY DEF DeepIn
<1>2. /\ clip \in Clips /\ clip.turns \in Seq(Utterances)
      /\ \A i, k \in DOMAIN clip.turns : i < k => clip.turns[i].end <= clip.turns[k].start
  BY <1>1 DEF Clips
<1>3. \A k \in DOMAIN clip.turns :
        clip.turns[k].start \in Nat /\ clip.turns[k].end \in Nat /\ k \in Int
  <2>1. \A k \in DOMAIN clip.turns : clip.turns[k] \in Utterances /\ k \in Int
    BY <1>2
  <2> QED BY <2>1 DEF Utterances
<1>4. PICK i \in DOMAIN clip.turns :
        /\ clip.turns[i].voice = v
        /\ clip.turns[i].start + Slack < anchor.time /\ anchor.time < clip.turns[i].end - Slack
  BY DEF DeepIn, ToSet
<1>5. /\ \E S : t \in Seq(S) /\ \A s \in S : s.start \in Nat /\ s.end \in Nat
      /\ \A r \in DOMAIN t : \E turn \in ToSet(clip.turns) :
           /\ turn.voice = w /\ turn.start + reading.late = t[r].start /\ turn.end = t[r].end
  <2>1. AreTurnsOf(t, clip, w, reading.late)
    BY <1>1, TurnsOfOne
  <2> HIDE DEF t
  <2> QED BY <2>1 DEF AreTurnsOf
<1>6. \E s \in ToSet(t) : s.start - Slack <= anchor.time /\ anchor.time <= s.end + Slack
  BY DEF HasAnchor
<1> HIDE DEF t
<1>7. PICK r \in DOMAIN t : t[r].start - Slack <= anchor.time /\ anchor.time <= t[r].end + Slack
  BY <1>6 DEF ToSet
<1>8. PICK k \in DOMAIN clip.turns :
        /\ clip.turns[k].voice = w /\ clip.turns[k].start + reading.late = t[r].start
        /\ clip.turns[k].end = t[r].end
  BY <1>5 DEF ToSet
<1>9. reading.late \in {0, 2} /\ t[r].start \in Nat /\ t[r].end \in Nat
  BY <1>5 DEF Readings
<1>10. k = i
  <2> DEFINE a == clip.turns[i]
             b == clip.turns[k]
  <2>1. a.start \in Int /\ a.end \in Int /\ b.start \in Int /\ b.end \in Int /\ anchor.time \in Int
    BY <1>1, <1>3
  <2>2. a.start + 3 < anchor.time /\ anchor.time < a.end - 3
    BY <1>4 DEF Slack
  <2>3. b.start - 3 <= anchor.time /\ anchor.time <= b.end + 3
    BY <1>1, <1>7, <1>8, <1>9, <2>1 DEF Slack
  <2>4. k < i => b.end <= a.start
    BY <1>2
  <2>5. i < k => a.end <= b.start
    BY <1>2
  <2>6. i \in Int /\ k \in Int
    BY <1>3
  <2> HIDE DEF a, b, clip
  <2> QED BY ONLY <2>1, <2>2, <2>3, <2>4, <2>5, <2>6
<1> QED BY <1>4, <1>8, <1>10
=============================================================================
