------------------------- MODULE BuildQuestionsProofs -------------------------
(***************************************************************************)
(* Theorems about References and BuildQuestions. Of the references, for    *)
(* all clips and whatever turns they are taken from: no second counts      *)
(* twice in one, and none has more than half of another in it. Of the      *)
(* questions, for every upload and every sequence of readings of it: that  *)
(* they come to an end, that what is offered is a ranking, that the        *)
(* answers mean in the next run what they meant when they were given, and  *)
(* that the speaker who was picked is the one whose voice is built.        *)
(***************************************************************************)
EXTENDS BuildQuestions, SpeakersProofs

\* The folds over candidates and their parts, of which FoldFacts holds.
Scoring == INSTANCE FoldFacts WITH op <- LAMBDA sum, x : sum + x, worth <- Shared
Extending == INSTANCE FoldFacts WITH op <- Extend, worth <- Shared
Gathering == INSTANCE FoldFacts WITH op <- Gather, worth <- Shared
Representing == INSTANCE FoldFacts WITH op <- Represent, worth <- Shared
Admitting == INSTANCE FoldFacts WITH op <- Admit, worth <- Shared
Completing == INSTANCE FoldFacts WITH op <- Complete, worth <- Shared
Filling == INSTANCE FoldFacts WITH op <- Fill, worth <- Shared
Sharing == INSTANCE FoldFacts WITH op <- LAMBDA sum, x : sum + PartLength(x), worth <- Shared

-----------------------------------------------------------------------------
(* How a stretch of a clip sounds. *)

\* How well a stretch of a clip sounds.
LEMMA QualityIsANumber ==
  ASSUME NEW clip \in Clips, NEW start, NEW end
  PROVE  Quality(clip, start, end) \in Nat
<1> DEFINE T == TurnsIn(clip, start, end)
           Q == {turn.quality : turn \in T}
<1>1. clip.turns \in Seq(Utterances)
  BY DEF Clips
<1>2. IsFiniteSet(ToSet(clip.turns)) /\ \A turn \in ToSet(clip.turns) : turn.quality \in Nat
  <2>1. IsFiniteSet(ToSet(clip.turns)) /\ ToSet(clip.turns) = {clip.turns[i] : i \in 1..Len(clip.turns)}
    BY <1>1, FinitelyManyElements
  <2>2. \A i \in 1..Len(clip.turns) : clip.turns[i] \in Utterances
    BY <1>1
  <2>3. \A turn \in Utterances : turn.quality \in Nat
    BY DEF Utterances
  <2> QED BY <2>1, <2>2, <2>3
<1>3. T \in SUBSET ToSet(clip.turns)
  BY DEF TurnsIn
<1>4. IsFiniteSet(T) /\ Q \subseteq Nat
  BY <1>2, <1>3, FS_Subset
<1> HIDE DEF T
<1>5. IsFiniteSet(Q)
  <2>1. [turn \in T |-> turn.quality] \in Surjection(T, Q)
    BY DEF Surjection
  <2> HIDE DEF Q
  <2> QED BY <1>4, <2>1, FS_Surjection
<1> HIDE DEF Q
<1>6. IsFiniteSet({0} \cup Q) /\ {0} \cup Q \subseteq Int /\ {0} \cup Q # {}
  <2>1. IsFiniteSet(Q \cup {0})
    BY <1>5, FS_AddElement
  <2>2. Q \cup {0} = {0} \cup Q /\ Q \subseteq Int
    BY <1>4
  <2> QED BY <2>1, <2>2
<1>7. Max({0} \cup Q) \in {0} \cup Q
  BY <1>6, FiniteBounds
<1> QED BY <1>4, <1>7 DEF Quality, Q, T

-----------------------------------------------------------------------------
(* Parts of clips. *)

\* The stretches of some clips.
PartsOf(clips) == [clip : DOMAIN clips, start : Nat, length : Nat]

\* Two parts have no moment in common; one is a stretch of the other.
Apart(p, q) ==
  p.clip # q.clip \/ p.start + p.length <= q.start \/ q.start + q.length <= p.start
Within(p, q) ==
  p.clip = q.clip /\ q.start <= p.start /\ p.start + p.length <= q.start + q.length

\* Parts of which none overlaps another.
Sound(clips, parts) ==
  /\ parts \in Seq(PartsOf(clips))
  /\ \A i, k \in DOMAIN parts : i # k => Apart(parts[i], parts[k])

\* A stretch of a part is apart from whatever the part is apart from.
LEMMA StretchesApart ==
  ASSUME NEW clips, NEW p \in PartsOf(clips), NEW q \in PartsOf(clips), NEW x \in PartsOf(clips),
         Apart(p, q), Within(x, q)
  PROVE  Apart(p, x) /\ Apart(x, p)
BY DEF Apart, Within, PartsOf

\* Parts of one clip have the time between the later beginning and the earlier end in common.
LEMMA CommonIs ==
  ASSUME NEW clips, NEW p \in PartsOf(clips), NEW q \in PartsOf(clips), p.clip = q.clip,
         NEW from \in Int, from = (IF p.start >= q.start THEN p.start ELSE q.start),
         NEW to \in Int, to = (IF p.start + p.length <= q.start + q.length
                                 THEN p.start + p.length ELSE q.start + q.length)
  PROVE  Common(p, q) = IF 0 >= to - from THEN 0 ELSE to - from
<1>1. p.start \in Int /\ q.start \in Int /\ p.start + p.length \in Int /\ q.start + q.length \in Int
  BY DEF PartsOf
<1>2. Min({p.start + p.length, q.start + q.length}) = to /\ Max({p.start, q.start}) = from
  BY <1>1, OfTwo
<1>3. Common(p, q) = Max({0, to - from})
  BY <1>2 DEF Common
<1> QED BY <1>3, OfTwo

\* What two parts have in common.
LEMMA CommonFacts ==
  ASSUME NEW clips, NEW p \in PartsOf(clips), NEW q \in PartsOf(clips)
  PROVE  /\ Common(p, q) \in Int /\ Common(p, q) = Common(q, p)
         /\ Common(p, p) = p.length
         /\ Apart(p, q) => Common(p, q) = 0
<1>1. /\ p.start \in Nat /\ p.length \in Nat /\ q.start \in Nat /\ q.length \in Nat
  BY DEF PartsOf
<1> DEFINE From(x, y) == IF x.start >= y.start THEN x.start ELSE y.start
           To(x, y) == IF x.start + x.length <= y.start + y.length
                         THEN x.start + x.length ELSE y.start + y.length
<1>2. ASSUME p.clip = q.clip
      PROVE  /\ Common(p, q) \in Int /\ Common(p, q) = Common(q, p)
             /\ Apart(p, q) => Common(p, q) = 0
  <2>1. From(p, q) \in Int /\ To(p, q) \in Int /\ From(q, p) = From(p, q) /\ To(q, p) = To(p, q)
    BY <1>1
  <2>2. /\ Common(p, q) = IF 0 >= To(p, q) - From(p, q) THEN 0 ELSE To(p, q) - From(p, q)
        /\ Common(q, p) = IF 0 >= To(q, p) - From(q, p) THEN 0 ELSE To(q, p) - From(q, p)
    BY <1>2, <2>1, CommonIs
  <2>3. Apart(p, q) => To(p, q) <= From(p, q)
    BY <1>1, <1>2 DEF Apart
  <2> HIDE DEF From, To
  <2> QED BY <2>1, <2>2, <2>3
<1>3. ASSUME p.clip # q.clip
      PROVE  Common(p, q) = 0 /\ Common(q, p) = 0
  BY <1>3 DEF Common
<1>4. Common(p, p) = p.length
  <2>1. From(p, p) = p.start /\ To(p, p) = p.start + p.length /\ To(p, p) \in Int
    BY <1>1
  <2>2. Common(p, p) = IF 0 >= To(p, p) - From(p, p) THEN 0 ELSE To(p, p) - From(p, p)
    BY <1>1, <2>1, CommonIs
  <2> HIDE DEF From, To
  <2> QED BY <1>1, <2>1, <2>2
<1> QED BY <1>2, <1>3, <1>4

-----------------------------------------------------------------------------
(* How much of one candidate is in another. *)

\* What is added up for it.
Pairs(a, b) ==
  {[mine |-> i, other |-> k, common |-> Common(a[i], b[k])] : i \in DOMAIN a, k \in DOMAIN b}

\* They are finitely many numbers.
LEMMA FinitelyManyPairs ==
  ASSUME NEW clips, NEW a \in Seq(PartsOf(clips)), NEW b \in Seq(PartsOf(clips))
  PROVE  /\ IsFiniteSet(Pairs(a, b)) /\ Sharing!IsFiniteSet(Pairs(a, b))
         /\ \A x \in Pairs(a, b) : Shared(x) \in Int
<1> DEFINE Pair(i, k) == [mine |-> i, other |-> k, common |-> Common(a[i], b[k])]
           f == [ik \in (DOMAIN a) \X (DOMAIN b) |-> Pair(ik[1], ik[2])]
<1>1. /\ DOMAIN a = 1..Len(a) /\ Len(a) \in Int /\ DOMAIN b = 1..Len(b) /\ Len(b) \in Int
      /\ \A i \in DOMAIN a : a[i] \in PartsOf(clips)
      /\ \A k \in DOMAIN b : b[k] \in PartsOf(clips)
  OBVIOUS
<1>2. IsFiniteSet(DOMAIN a) /\ IsFiniteSet(DOMAIN b)
  BY <1>1, FS_Interval
<1>3. IsFiniteSet((DOMAIN a) \X (DOMAIN b))
  BY <1>2, FS_Product
<1>4. f \in Surjection((DOMAIN a) \X (DOMAIN b), Pairs(a, b))
  <2>1. f \in [(DOMAIN a) \X (DOMAIN b) -> Pairs(a, b)]
    BY DEF Pairs
  <2>2. ASSUME NEW p \in Pairs(a, b) PROVE \E ik \in (DOMAIN a) \X (DOMAIN b) : f[ik] = p
    <3>1. PICK i \in DOMAIN a, k \in DOMAIN b : p = Pair(i, k)
      BY DEF Pairs
    <3>2. <<i, k>> \in (DOMAIN a) \X (DOMAIN b) /\ f[<<i, k>>] = Pair(i, k)
      OBVIOUS
    <3> QED BY <3>1, <3>2
  <2> HIDE DEF f
  <2> QED BY <2>1, <2>2 DEF Surjection
<1>5. IsFiniteSet(Pairs(a, b))
  <2> HIDE DEF f
  <2> QED BY <1>3, <1>4, FS_Surjection
<1>6. Sharing!IsFiniteSet(Pairs(a, b))
  BY <1>5, Zenon DEF IsFiniteSet, Sharing!IsFiniteSet
<1>7. \A i \in DOMAIN a, k \in DOMAIN b : Common(a[i], b[k]) \in Int
  BY <1>1, CommonFacts
<1> QED BY <1>5, <1>6, <1>7 DEF Pairs, Shared

\* An overlap is a sum over them, to which the lemmas about sums apply.
LEMMA OverlapIsASum ==
  ASSUME NEW x, NEW y
  PROVE  Overlap(x, y) = Sharing!SumOver(Pairs(x.parts, y.parts))
<1> DEFINE C == Pairs(x.parts, y.parts)
<1>1. Overlap(x, y) = MapThenSumSet(Shared, C)
  BY DEF Overlap, Pairs
<1> HIDE DEF C
<1>2. Overlap(x, y) = Sharing!SumOver(C)
  BY <1>1, Zenon DEF MapThenSumSet, MapThenFoldSet, Sharing!SumOver, Sharing!MapThenSumSet,
                     Sharing!MapThenFoldSet
<1> QED BY <1>2 DEF C

\* It is as much as there is of the other in the one.
LEMMA OverlapIsMutual ==
  ASSUME NEW clips, NEW x, NEW y, x.parts \in Seq(PartsOf(clips)), y.parts \in Seq(PartsOf(clips))
  PROVE  Overlap(x, y) = Overlap(y, x) /\ Overlap(x, y) \in Int
<1> DEFINE a == x.parts
           b == y.parts
           C == Pairs(a, b)
           D == Pairs(b, a)
           f == [p \in C |-> [mine |-> p.other, other |-> p.mine, common |-> p.common]]
<1>1. Sharing!IsFiniteSet(C) /\ \A p \in C : Shared(p) \in Int
  BY FinitelyManyPairs
<1>2. \A i \in DOMAIN a, k \in DOMAIN b : Common(a[i], b[k]) = Common(b[k], a[i])
  <2>1. \A i \in DOMAIN a, k \in DOMAIN b : a[i] \in PartsOf(clips) /\ b[k] \in PartsOf(clips)
    OBVIOUS
  <2> QED BY <2>1, CommonFacts
<1>3. f \in Sharing!Bijection(C, D)
  <2>1. f \in [C -> D]
    BY <1>2 DEF Pairs
  <2>2. \A p, q \in C : f[p] = f[q] => p = q
    BY DEF Pairs
  <2>3. \A q \in D : \E p \in C : f[p] = q
    <3>1. ASSUME NEW q \in D PROVE \E p \in C : f[p] = q
      <4>1. PICK k \in DOMAIN b, i \in DOMAIN a :
              q = [mine |-> k, other |-> i, common |-> Common(b[k], a[i])]
        BY DEF Pairs
      <4>2. [mine |-> i, other |-> k, common |-> Common(a[i], b[k])] \in C
        BY DEF Pairs
      <4>3. f[[mine |-> i, other |-> k, common |-> Common(a[i], b[k])]] = q
        BY <1>2, <4>1, <4>2
      <4> QED BY <4>2, <4>3
    <3> QED BY <3>1
  <2> HIDE DEF f, C, D
  <2> QED BY <2>1, <2>2, <2>3 DEF Sharing!Bijection, Sharing!Injection, Sharing!Surjection,
                                  Sharing!IsInjective
<1>4. \A p \in C : Shared(f[p]) = Shared(p)
  BY DEF Shared
<1> HIDE DEF f, C, D
<1>5. Sharing!SumOver(C) = Sharing!SumOver(D)
  BY <1>1, <1>3, <1>4, Sharing!SumOfTheOthers
<1>6. Sharing!SumOver(C) \in Int
  BY <1>1, Sharing!SumIsANumber
<1> QED BY <1>5, <1>6, OverlapIsASum DEF C, D

\* A total is added up from the first part to the last.
LEMMA TotalIsARun ==
  ASSUME NEW S, NEW parts \in Seq(S)
  PROVE  \E acc : /\ acc[0] = 0
                  /\ \A k \in 1..Len(parts) : acc[k] = acc[k - 1] + PartLength(parts[k])
                  /\ acc[Len(parts)] = Total(parts, PartLength)
<1>1. Total(parts, PartLength) = Sharing!FoldLeft(LAMBDA sum, x : sum + PartLength(x), 0, parts)
  BY Zenon DEF Total, FoldLeft, Sharing!FoldLeft, MapThenFoldSet, Sharing!MapThenFoldSet,
               Max, Sharing!Max
<1>2. \E acc : /\ acc[0] = 0
               /\ \A k \in 1..Len(parts) : acc[k] = acc[k - 1] + PartLength(parts[k])
               /\ acc[Len(parts)] = Sharing!FoldLeft(LAMBDA sum, x : sum + PartLength(x), 0, parts)
  BY Sharing!FoldIsARun, Zenon
<1> QED BY <1>1, <1>2, Zenon

\* How long some parts are together.
LEMMA TotalIsANumber ==
  ASSUME NEW clips, NEW parts \in Seq(PartsOf(clips))
  PROVE  Total(parts, PartLength) \in Nat
<1>1. Total(parts, PartLength) = Sharing!FoldLeft(LAMBDA sum, x : sum + PartLength(x), 0, parts)
  BY Zenon DEF Total, FoldLeft, Sharing!FoldLeft, MapThenFoldSet, Sharing!MapThenFoldSet,
               Max, Sharing!Max
<1>2. \A sum \in Nat, x \in PartsOf(clips) : sum + PartLength(x) \in Nat
  BY DEF PartsOf, PartLength
<1>3. 0 \in Nat
  OBVIOUS
<1>4. Sharing!FoldLeft(LAMBDA sum, x : sum + PartLength(x), 0, parts) \in Nat
  BY <1>2, <1>3, Sharing!FoldKeeps, Zenon
<1> QED BY <1>1, <1>4, Zenon

\* No second of parts that do not overlap counts twice.
LEMMA NothingTwice ==
  ASSUME NEW clips, NEW x, Sound(clips, x.parts)
  PROVE  Overlap(x, x) = Lasting(x)
<1> DEFINE parts == x.parts
           C == Pairs(parts, parts)
           Same(i) == [mine |-> i, other |-> i, common |-> Common(parts[i], parts[i])]
           Diagonal(n) == {Same(i) : i \in 1..n}
           Z == {p \in C : p.mine # p.other}
<1>1. /\ parts \in Seq(PartsOf(clips)) /\ DOMAIN parts = 1..Len(parts) /\ Len(parts) \in Nat
      /\ \A i \in DOMAIN parts : parts[i] \in PartsOf(clips)
      /\ \A i, k \in DOMAIN parts : i # k => Apart(parts[i], parts[k])
  BY DEF Sound
<1>2. IsFiniteSet(C) /\ Sharing!IsFiniteSet(C) /\ \A p \in C : Shared(p) \in Int
  BY <1>1, FinitelyManyPairs
<1>3. Z \in SUBSET C /\ \A p \in Z : Shared(p) = 0
  <2>1. ASSUME NEW i \in DOMAIN parts, NEW k \in DOMAIN parts, i # k
        PROVE  Common(parts[i], parts[k]) = 0
    BY <1>1, <2>1, CommonFacts
  <2> QED BY <2>1 DEF Pairs, Shared
<1>4. C \ Z = Diagonal(Len(parts))
  <2>1. ASSUME NEW p \in C \ Z PROVE p \in Diagonal(Len(parts))
    <3>1. PICK i \in DOMAIN parts, k \in DOMAIN parts :
            p = [mine |-> i, other |-> k, common |-> Common(parts[i], parts[k])]
      BY DEF Pairs
    <3>2. i = k
      BY <3>1
    <3> QED BY <1>1, <3>1, <3>2
  <2>2. ASSUME NEW p \in Diagonal(Len(parts)) PROVE p \in C \ Z
    <3>1. PICK i \in 1..Len(parts) : p = Same(i)
      OBVIOUS
    <3>2. p \in C
      BY <1>1, <3>1 DEF Pairs
    <3>3. p.mine = p.other
      BY <3>1
    <3> QED BY <3>2, <3>3
  <2> QED BY <2>1, <2>2
<1>5. Sharing!SumOver(C) = Sharing!SumOver(Diagonal(Len(parts)))
  <2> HIDE DEF C, Z, Diagonal
  <2> QED BY <1>2, <1>3, <1>4, Sharing!SumOfTheRest
<1>6. PICK acc : /\ acc[0] = 0
                 /\ \A k \in 1..Len(parts) : acc[k] = acc[k - 1] + PartLength(parts[k])
                 /\ acc[Len(parts)] = Total(parts, PartLength)
  BY <1>1, TotalIsARun
<1>7. ASSUME NEW n \in Nat, n <= Len(parts)
      PROVE  /\ Sharing!IsFiniteSet(Diagonal(n)) /\ \A p \in Diagonal(n) : Shared(p) \in Int
  <2>1. Diagonal(n) \in SUBSET C
    <3>1. Diagonal(n) \subseteq Diagonal(Len(parts))
      BY <1>1, <1>7
    <3> HIDE DEF Diagonal
    <3> QED BY <1>4, <3>1
  <2> HIDE DEF C, Diagonal
  <2>2. IsFiniteSet(Diagonal(n))
    BY <1>2, <2>1, FS_Subset
  <2>3. Sharing!IsFiniteSet(Diagonal(n))
    BY <2>2, Zenon DEF IsFiniteSet, Sharing!IsFiniteSet
  <2> QED BY <1>2, <2>1, <2>3
<1> DEFINE T == {n \in Nat : n <= Len(parts) => Sharing!SumOver(Diagonal(n)) = acc[n]}
<1>8. 0 \in T
  <2>1. Diagonal(0) = {}
    OBVIOUS
  <2> HIDE DEF Diagonal
  <2> QED BY <1>6, <2>1, Sharing!SumOfNothing
<1>9. ASSUME NEW n \in Nat, n \in T PROVE n + 1 \in T
  <2>1. SUFFICES ASSUME n + 1 <= Len(parts)
                 PROVE  Sharing!SumOver(Diagonal(n + 1)) = acc[n + 1]
    OBVIOUS
  <2>2. n + 1 \in 1..Len(parts) /\ n + 1 \in DOMAIN parts /\ (n + 1) - 1 = n /\ n <= Len(parts)
    BY <1>1, <2>1
  <2>3. Same(n + 1) \in Diagonal(n + 1) /\ Diagonal(n + 1) \ {Same(n + 1)} = Diagonal(n)
    <3>1. \A i \in 1..n : i \in 1..(n + 1) /\ i # n + 1
      OBVIOUS
    <3>2. \A i \in 1..(n + 1) : i \in 1..n \/ i = n + 1
      OBVIOUS
    <3>3. n + 1 \in 1..(n + 1)
      OBVIOUS
    <3> QED BY <3>1, <3>2, <3>3
  <2>4. Shared(Same(n + 1)) = PartLength(parts[n + 1])
    <3>1. Common(parts[n + 1], parts[n + 1]) = parts[n + 1].length
      BY <1>1, <2>2, CommonFacts
    <3> QED BY <3>1 DEF Shared, PartLength
  <2>5. Sharing!IsFiniteSet(Diagonal(n + 1)) /\ \A p \in Diagonal(n + 1) : Shared(p) \in Int
    <3>1. n + 1 \in Nat
      OBVIOUS
    <3> HIDE DEF Diagonal
    <3> QED BY <1>7, <2>1, <3>1
  <2>6. Sharing!SumOver(Diagonal(n)) \in Int
    <3>1. Sharing!IsFiniteSet(Diagonal(n)) /\ \A p \in Diagonal(n) : Shared(p) \in Int
      BY <1>7, <2>2
    <3> HIDE DEF Diagonal
    <3> QED BY <3>1, Sharing!SumIsANumber
  <2>7. PartLength(parts[n + 1]) \in Int
    BY <1>1, <2>2 DEF PartsOf, PartLength
  <2> HIDE DEF Diagonal, Same
  <2>8. Sharing!SumOver(Diagonal(n + 1)) = PartLength(parts[n + 1]) + Sharing!SumOver(Diagonal(n))
    BY <2>3, <2>4, <2>5, Sharing!SumTakesOut
  <2>9. Sharing!SumOver(Diagonal(n)) = acc[n] /\ acc[n + 1] = acc[n] + PartLength(parts[n + 1])
    BY <1>6, <1>9, <2>2
  <2> QED BY <2>6, <2>7, <2>8, <2>9
<1>10. Len(parts) \in T
  <2> HIDE DEF T
  <2> QED BY <1>1, <1>8, <1>9, Sharing!SetInduction
<1>11. Sharing!SumOver(Diagonal(Len(parts))) = Total(parts, PartLength)
  <2> HIDE DEF Diagonal
  <2> QED BY <1>1, <1>6, <1>10
<1> QED BY <1>5, <1>11, OverlapIsASum DEF Lasting

-----------------------------------------------------------------------------
(* Candidates. *)

\* Every part is a stretch of one of W, and lasts.
CutFrom(W, parts) ==
  \A i \in DOMAIN parts : parts[i].length > 0 /\ \E w \in W : Within(parts[i], w)

\* What may be ranked: no second in it twice and, but for windows, all of it from W.
CandidatesIn(clips, W) ==
  {x \in [kind : {"turn", "pooled", "window"}, parts : Seq(PartsOf(clips)), score : Int] :
     /\ Sound(clips, x.parts)
     /\ x.kind # "window" => x.parts # <<>> /\ CutFrom(W, x.parts)}

\* How well a part sounds.
LEMMA QualityOfAPart ==
  ASSUME NEW clips \in Seq(Clips), NEW p \in PartsOf(clips)
  PROVE  PartQuality(clips, p) \in Nat
<1>1. clips[p.clip] \in Clips
  BY DEF PartsOf
<1> QED BY <1>1, QualityIsANumber DEF PartQuality

\* What a candidate is ranked by.
LEMMA WorthIsANumber ==
  ASSUME NEW clips \in Seq(Clips), NEW parts \in Seq(PartsOf(clips))
  PROVE  Worth(clips, parts) \in Int
<1> DEFINE seq == [i \in DOMAIN parts |-> parts[i].length * PartQuality(clips, parts[i])]
<1>1. seq \in Seq(Int)
  <2>1. DOMAIN parts = 1..Len(parts) /\ Len(parts) \in Nat
    OBVIOUS
  <2>2. \A i \in DOMAIN parts : parts[i].length \in Int /\ PartQuality(clips, parts[i]) \in Int
    <3>1. \A i \in DOMAIN parts : parts[i] \in PartsOf(clips)
      OBVIOUS
    <3> QED BY <3>1, QualityOfAPart DEF PartsOf
  <2>3. \A i \in DOMAIN parts : parts[i].length * PartQuality(clips, parts[i]) \in Int
    BY <2>2
  <2> QED BY <2>1, <2>3
<1>2. Worth(clips, parts) = Scoring!FoldLeft(LAMBDA sum, x : sum + x, 0, seq)
  BY Zenon DEF Worth, FoldLeft, Scoring!FoldLeft, MapThenFoldSet, Scoring!MapThenFoldSet,
               Max, Scoring!Max
<1> HIDE DEF seq
<1>3. \A sum, x \in Int : sum + x \in Int
  OBVIOUS
<1>4. 0 \in Int
  OBVIOUS
<1>5. Scoring!FoldLeft(LAMBDA sum, x : sum + x, 0, seq) \in Int
  BY <1>1, <1>3, <1>4, Scoring!FoldKeeps, Zenon
<1> QED BY <1>2, <1>5, Zenon

\* What is made of sound parts is a candidate.
LEMMA CandidateIsOne ==
  ASSUME NEW clips \in Seq(Clips), NEW W, NEW parts, Sound(clips, parts), NEW percent \in Int,
         NEW kind \in {"turn", "pooled", "window"},
         kind # "window" => parts # <<>> /\ CutFrom(W, parts)
  PROVE  Candidate(clips, kind, parts, percent) \in CandidatesIn(clips, W)
<1>1. parts \in Seq(PartsOf(clips)) /\ Worth(clips, parts) \in Int
  BY WorthIsANumber DEF Sound
<1>2. percent * Worth(clips, parts) \in Int
  BY <1>1
<1> QED BY <1>1, <1>2 DEF Candidate, CandidatesIn

\* Turns one after the other, each of which is one of W.
AreTurns(W, c, turns) ==
  /\ \E S : turns \in Seq(S)
  /\ \A i \in DOMAIN turns :
       /\ turns[i].start \in Nat /\ turns[i].end \in Nat /\ turns[i].start < turns[i].end
       /\ Part(c, turns[i].start, Length(turns[i])) \in W
  /\ \A i, k \in DOMAIN turns : i < k => turns[i].end <= turns[k].start

\* So are some of them.
LEMMA SomeTurns ==
  ASSUME NEW W, NEW c, NEW turns, AreTurns(W, c, turns), NEW I \in SUBSET DOMAIN turns
  PROVE  /\ AreTurns(W, c, Taken(turns, Places(I)))
         /\ \A n \in DOMAIN Taken(turns, Places(I)) : \E i \in I :
              Taken(turns, Places(I))[n] = turns[i]
<1> DEFINE t == Taken(turns, Places(I))
<1>1. PICK S : turns \in Seq(S)
  BY DEF AreTurns
<1>2. /\ Cardinality(I) \in Nat /\ t \in Seq(S) /\ Len(t) = Cardinality(I)
      /\ \A n \in 1..Cardinality(I) : Places(I)[n] \in I /\ t[n] = turns[Places(I)[n]]
      /\ \A m, n \in 1..Cardinality(I) : m < n => Places(I)[m] < Places(I)[n]
  BY <1>1, Selection
<1> HIDE DEF t
<1>3. DOMAIN t = 1..Cardinality(I)
  BY <1>2
<1>4. \A n \in DOMAIN t : \E i \in I : t[n] = turns[i]
  BY <1>2, <1>3
<1>5. \A n \in DOMAIN t :
        /\ t[n].start \in Nat /\ t[n].end \in Nat /\ t[n].start < t[n].end
        /\ Part(c, t[n].start, Length(t[n])) \in W
  BY <1>4 DEF AreTurns
<1>6. ASSUME NEW m \in DOMAIN t, NEW n \in DOMAIN t, m < n PROVE t[m].end <= t[n].start
  <2>1. /\ Places(I)[m] \in DOMAIN turns /\ Places(I)[n] \in DOMAIN turns
        /\ Places(I)[m] < Places(I)[n]
    BY <1>2, <1>3, <1>6
  <2> QED BY <1>2, <1>3, <2>1 DEF AreTurns
<1> QED BY <1>2, <1>4, <1>5, <1>6 DEF AreTurns, t

\* The longer turns of a clip, as parts.
LEMMA PiecesOfTurns ==
  ASSUME NEW clips, NEW c \in DOMAIN clips, NEW W, NEW turns, AreTurns(W, c, turns)
  PROVE  /\ Sound(clips, Pieces(c, turns)) /\ CutFrom(W, Pieces(c, turns))
         /\ \A i \in DOMAIN Pieces(c, turns) : Pieces(c, turns)[i].clip = c
<1> DEFINE I == {i \in DOMAIN turns : Length(turns[i]) >= ShortTurn}
           usable == Taken(turns, Places(I))
           pieces == [i \in DOMAIN usable |-> Part(c, usable[i].start, Length(usable[i]))]
<1>1. Pieces(c, turns) = pieces
  BY DEF Pieces, Select
<1>2. AreTurns(W, c, usable)
  BY SomeTurns
<1> HIDE DEF usable
<1>3. DOMAIN usable = 1..Len(usable) /\ Len(usable) \in Nat
  BY <1>2 DEF AreTurns
<1>4. ASSUME NEW i \in DOMAIN usable
      PROVE  /\ pieces[i] \in PartsOf(clips) /\ pieces[i] \in W /\ pieces[i].clip = c
             /\ pieces[i].start = usable[i].start /\ pieces[i].start \in Nat
             /\ pieces[i].length > 0 /\ pieces[i].length \in Nat
             /\ pieces[i].start + pieces[i].length = usable[i].end
  BY <1>2 DEF AreTurns, Part, PartsOf, Length
<1>5. DOMAIN pieces = DOMAIN usable
  OBVIOUS
<1>6. pieces \in Seq(PartsOf(clips))
  BY <1>3, <1>4
<1> HIDE DEF pieces
<1>7. ASSUME NEW i \in DOMAIN usable, NEW k \in DOMAIN usable, i # k
      PROVE  Apart(pieces[i], pieces[k])
  <2>1. i < k \/ k < i
    BY <1>3, <1>7
  <2> QED BY <1>2, <1>4, <2>1 DEF Apart, AreTurns
<1>8. \A i \in DOMAIN usable : Within(pieces[i], pieces[i])
  BY <1>4 DEF Within
<1> QED BY <1>1, <1>4, <1>5, <1>6, <1>7, <1>8 DEF Sound, CutFrom

\* Long turns, each cut to the target.
LEMMA LongTurnsIn ==
  ASSUME NEW clips \in Seq(Clips), NEW c \in DOMAIN clips, NEW W \in SUBSET PartsOf(clips),
         NEW turns, AreTurns(W, c, turns)
  PROVE  LongTurns(clips, c, turns) \in Seq(CandidatesIn(clips, W))
<1> DEFINE I == {i \in DOMAIN turns : Length(turns[i]) >= Least}
           long == Taken(turns, Places(I))
           Begin(s) == Part(c, s.start, Min({Target, Length(s)}))
           all == [i \in DOMAIN long |-> Candidate(clips, "turn", <<Begin(long[i])>>, 100)]
<1>1. LongTurns(clips, c, turns) = all
  BY DEF LongTurns, Select
<1>2. AreTurns(W, c, long) /\ \A n \in DOMAIN long : \E i \in I : long[n] = turns[i]
  <2>1. I \in SUBSET DOMAIN turns
    OBVIOUS
  <2> HIDE DEF I
  <2> QED BY <2>1, SomeTurns
<1>3. \A n \in DOMAIN long : Length(long[n]) >= Least
  <2> HIDE DEF long
  <2> QED BY <1>2
<1> HIDE DEF long
<1>4. DOMAIN long = 1..Len(long) /\ Len(long) \in Nat
  BY <1>2 DEF AreTurns
<1>5. ASSUME NEW n \in DOMAIN long
      PROVE  Candidate(clips, "turn", <<Begin(long[n])>>, 100) \in CandidatesIn(clips, W)
  <2> DEFINE p == Begin(long[n])
             w == Part(c, long[n].start, Length(long[n]))
  <2>1. /\ long[n].start \in Nat /\ Length(long[n]) \in Int /\ Length(long[n]) >= Least /\ w \in W
    BY <1>2, <1>3 DEF AreTurns, Length
  <2>2. Min({Target, Length(long[n])}) = IF Target <= Length(long[n]) THEN Target ELSE Length(long[n])
    <3>1. Target \in Int
      BY DEF Target
    <3> QED BY <2>1, <3>1, OfTwo
  <2>3. p \in PartsOf(clips) /\ p.length > 0 /\ Within(p, w)
    BY <2>1, <2>2 DEF Part, PartsOf, Within, Target, Least
  <2> HIDE DEF p, w
  <2>4. Sound(clips, <<p>>) /\ <<p>> # <<>> /\ CutFrom(W, <<p>>)
    BY <2>1, <2>3 DEF Sound, CutFrom
  <2>5. Candidate(clips, "turn", <<p>>, 100) \in CandidatesIn(clips, W)
    <3>1. 100 \in Int /\ "turn" \in {"turn", "pooled", "window"}
      OBVIOUS
    <3> QED BY <2>4, <3>1, CandidateIsOne
  <2> QED BY <2>5 DEF p
<1> QED BY <1>1, <1>4, <1>5

\* How far windows go.
LEMMA WindowsFit ==
  ASSUME NEW room \in Nat, NEW step \in Nat, step > 0, NEW n \in 1..(room \div step + 1)
  PROVE  (n - 1) * step \in Nat /\ (n - 1) * step <= room
<1> DEFINE q == room \div step
<1>1. q \in Nat /\ q * step <= room
  OBVIOUS
<1>2. n - 1 \in Nat /\ n - 1 <= q
  BY <1>1
<1> HIDE DEF q
<1>3. \A a, b, s \in Nat : a <= b => a * s \in Nat /\ a * s <= b * s
  OBVIOUS
<1>4. (n - 1) * step \in Nat /\ (n - 1) * step <= q * step /\ q * step \in Nat
  BY <1>1, <1>2, <1>3
<1> QED BY <1>1, <1>4

\* Windows of a clip without turns.
LEMMA WindowsIn ==
  ASSUME NEW clips \in Seq(Clips), NEW c \in DOMAIN clips, NEW W
  PROVE  Windows(clips, c) \in Seq(CandidatesIn(clips, W))
<1> DEFINE total == clips[c].length
           length == Min({Target, total})
           step == Max({40, length \div 2})
           Window(n) == Part(c, n * step, Min({length, total - n * step}))
           last == (total - Least) \div step + 1
           all == [n \in 1..last |-> Candidate(clips, "window", <<Window(n - 1)>>, 100)]
<1>1. Windows(clips, c) = IF total < Least THEN <<>> ELSE all
  BY DEF Windows
<1>2. CASE total < Least
  BY <1>1, <1>2
<1>3. CASE ~(total < Least)
  <2>1. total \in Nat /\ total - Least \in Nat
    BY <1>3 DEF Clips, Least
  <2>2. length \in Nat
    <3>1. length = IF Target <= total THEN Target ELSE total
      <4>1. Target \in Int /\ total \in Int
        BY <2>1 DEF Target
      <4> HIDE DEF total
      <4> QED BY <4>1, OfTwo
    <3> QED BY <2>1, <3>1 DEF Target
  <2> HIDE DEF total, length
  <2>3. step \in Nat /\ step > 0
    <3>1. length \div 2 \in Nat
      BY <2>2
    <3>2. step = IF 40 >= length \div 2 THEN 40 ELSE length \div 2
      BY <3>1, OfTwo
    <3> QED BY <3>1, <3>2
  <2> HIDE DEF step
  <2>4. last \in Nat
    BY <2>1, <2>3
  <2>5. ASSUME NEW n \in 1..last
        PROVE  Candidate(clips, "window", <<Window(n - 1)>>, 100) \in CandidatesIn(clips, W)
    <3> DEFINE start == (n - 1) * step
               p == Part(c, start, Min({length, total - start}))
    <3>1. start \in Nat /\ start <= total - Least
      BY <2>1, <2>3, WindowsFit
    <3> HIDE DEF start
    <3>2. Min({length, total - start}) = IF length <= total - start THEN length ELSE total - start
      <4>1. length \in Int /\ total - start \in Int
        BY <2>1, <2>2, <3>1
      <4> QED BY <4>1, OfTwo
    <3>3. p \in PartsOf(clips)
      BY <2>1, <2>2, <3>1, <3>2 DEF Part, PartsOf, Least
    <3> HIDE DEF p
    <3>4. Sound(clips, <<p>>)
      BY <3>3 DEF Sound
    <3>5. Candidate(clips, "window", <<p>>, 100) \in CandidatesIn(clips, W)
      <4>1. 100 \in Int /\ "window" \in {"turn", "pooled", "window"}
        OBVIOUS
      <4> QED BY <3>4, <4>1, CandidateIsOne
    <3> QED BY <3>5 DEF p, start
  <2> HIDE DEF last, Window
  <2>6. all \in Seq(CandidatesIn(clips, W))
    BY <2>4, <2>5
  <2> QED BY <1>1, <1>3, <2>6
<1> QED BY <1>2, <1>3

\* Sorting parts changes nothing about them.
LEMMA SortedParts ==
  ASSUME NEW clips, NEW W, NEW parts, Sound(clips, parts), CutFrom(W, parts),
         NEW keys \in [DOMAIN parts -> Int]
  PROVE  /\ Sound(clips, Taken(parts, Order(keys))) /\ CutFrom(W, Taken(parts, Order(keys)))
         /\ Len(Taken(parts, Order(keys))) = Len(parts)
<1> DEFINE sorted == Taken(parts, Order(keys))
<1>1. parts \in Seq(PartsOf(clips))
  BY DEF Sound
<1>2. /\ sorted \in Seq(PartsOf(clips)) /\ Len(sorted) = Len(parts)
      /\ \A n \in DOMAIN parts :
           Order(keys)[n] \in DOMAIN parts /\ sorted[n] = parts[Order(keys)[n]]
      /\ \A m, n \in DOMAIN parts : m # n => Order(keys)[m] # Order(keys)[n]
  BY <1>1, Sorting
<1> HIDE DEF sorted
<1>3. DOMAIN sorted = DOMAIN parts
  BY <1>1, <1>2
<1>4. \A m, n \in DOMAIN sorted : m # n => Apart(sorted[m], sorted[n])
  BY <1>2, <1>3 DEF Sound
<1>5. CutFrom(W, sorted)
  BY <1>2, <1>3 DEF CutFrom
<1> QED BY <1>2, <1>4, <1>5 DEF Sound, sorted

\* A stretch of a stretch is a stretch.
LEMMA StretchOfAStretch ==
  ASSUME NEW clips, NEW p \in PartsOf(clips), NEW q \in PartsOf(clips), NEW w \in PartsOf(clips),
         Within(p, q), Within(q, w)
  PROVE  Within(p, w)
BY DEF Within, PartsOf

\* Nothing is sound.
LEMMA NoParts ==
  ASSUME NEW clips, NEW W
  PROVE  Sound(clips, <<>>) /\ CutFrom(W, <<>>) /\ DOMAIN <<>> = {}
<1>1. <<>> \in Seq(PartsOf(clips)) /\ DOMAIN <<>> = {}
  OBVIOUS
<1> QED BY <1>1 DEF Sound, CutFrom

\* A sequence with one element more.
LEMMA OneMore ==
  ASSUME NEW S, NEW s \in Seq(S), NEW x \in S
  PROVE  /\ Append(s, x) \in Seq(S) /\ Append(s, x) # <<>>
         /\ DOMAIN s = 1..Len(s) /\ Len(s) \in Nat /\ DOMAIN Append(s, x) = 1..(Len(s) + 1)
         /\ Len(Append(s, x)) = Len(s) + 1
         /\ \A i \in DOMAIN Append(s, x) :
              \/ i \in DOMAIN s /\ Append(s, x)[i] = s[i]
              \/ i = Len(s) + 1 /\ Append(s, x)[i] = x
<1> DEFINE t == Append(s, x)
<1>1. /\ t \in Seq(S) /\ DOMAIN s = 1..Len(s) /\ Len(s) \in Nat /\ Len(t) = Len(s) + 1
      /\ DOMAIN t = 1..(Len(s) + 1)
  OBVIOUS
<1>2. t # <<>>
  <2> HIDE DEF t
  <2> QED BY <1>1
<1>3. \A i \in DOMAIN t : \/ i \in DOMAIN s /\ t[i] = s[i]
                          \/ i = Len(s) + 1 /\ t[i] = x
  OBVIOUS
<1> QED BY <1>1, <1>2, <1>3

\* One more part.
LEMMA AnotherPart ==
  ASSUME NEW clips, NEW W, NEW parts, Sound(clips, parts), CutFrom(W, parts),
         NEW p \in PartsOf(clips), p.length > 0, \E w \in W : Within(p, w),
         \A i \in DOMAIN parts : Apart(parts[i], p)
  PROVE  Sound(clips, Append(parts, p)) /\ CutFrom(W, Append(parts, p))
<1> DEFINE new == Append(parts, p)
<1>1. /\ new \in Seq(PartsOf(clips)) /\ DOMAIN parts = 1..Len(parts) /\ Len(parts) \in Nat
      /\ DOMAIN new = 1..(Len(parts) + 1)
      /\ \A i \in DOMAIN new : \/ i \in DOMAIN parts /\ new[i] = parts[i]
                               \/ i = Len(parts) + 1 /\ new[i] = p
  BY DEF Sound
<1> HIDE DEF new
<1>2. \A q, r : Apart(q, r) <=> Apart(r, q)
  BY DEF Apart
<1>3. \A i, k \in DOMAIN new : i # k => Apart(new[i], new[k])
  BY <1>1, <1>2 DEF Sound
<1>4. CutFrom(W, new)
  BY <1>1 DEF CutFrom
<1> QED BY <1>1, <1>3, <1>4 DEF Sound, new

\* What Fill adds is the beginning of the piece, if it adds anything.
LEMMA FillOnce ==
  ASSUME NEW clips, NEW parts \in Seq(PartsOf(clips)), NEW p \in PartsOf(clips), p.length > 0
  PROVE  \/ Fill(parts, p) = parts /\ parts # <<>>
         \/ \E q \in PartsOf(clips) :
              Fill(parts, p) = Append(parts, q) /\ q.length > 0 /\ Within(q, p)
<1> DEFINE left == Target - Total(parts, PartLength)
           q == [p EXCEPT !.length = Min({p.length, left})]
<1>1. Fill(parts, p) = IF left <= 0 THEN parts ELSE Append(parts, q)
  BY DEF Fill
<1>2. left \in Int /\ (parts = <<>> => left > 0)
  <2>1. Total(parts, PartLength) \in Nat
    BY TotalIsANumber
  <2>2. ASSUME parts = <<>> PROVE Total(parts, PartLength) = 0
    <3>1. PICK acc : acc[0] = 0 /\ acc[Len(parts)] = Total(parts, PartLength)
      BY TotalIsARun
    <3> QED BY <2>2, <3>1
  <2> QED BY <2>1, <2>2 DEF Target
<1> HIDE DEF left
<1>3. CASE left <= 0
  BY <1>1, <1>2, <1>3
<1>4. CASE ~(left <= 0)
  <2>1. Min({p.length, left}) = IF p.length <= left THEN p.length ELSE left
    <3>1. p.length \in Int
      BY DEF PartsOf
    <3> QED BY <1>2, <3>1, OfTwo
  <2>2. /\ q.clip = p.clip /\ q.start = p.start /\ q.length = Min({p.length, left})
        /\ q \in PartsOf(clips)
    BY <1>2, <1>4, <2>1 DEF PartsOf
  <2>3. q.length > 0 /\ Within(q, p)
    BY <1>2, <1>4, <2>1, <2>2 DEF PartsOf, Within
  <2> QED BY <1>1, <1>4, <2>2, <2>3
<1> QED BY <1>3, <1>4

\* What the target has room for.
LEMMA FilledParts ==
  ASSUME NEW clips, NEW W \in SUBSET PartsOf(clips), NEW pieces,
         Sound(clips, pieces), CutFrom(W, pieces)
  PROVE  LET parts == FoldLeft(Fill, <<>>, pieces)
         IN /\ Sound(clips, parts) /\ CutFrom(W, parts)
            /\ pieces # <<>> => parts # <<>>
<1>1. /\ pieces \in Seq(PartsOf(clips)) /\ Len(pieces) \in Nat /\ DOMAIN pieces = 1..Len(pieces)
      /\ \A i \in DOMAIN pieces : pieces[i] \in PartsOf(clips)
      /\ \A i, k \in DOMAIN pieces : i # k => Apart(pieces[i], pieces[k])
      /\ \A i \in DOMAIN pieces : pieces[i].length > 0 /\ \E w \in W : Within(pieces[i], w)
  BY DEF Sound, CutFrom
<1>2. PICK acc : /\ acc[0] = <<>>
                 /\ \A n \in 1..Len(pieces) : acc[n] = Fill(acc[n - 1], pieces[n])
                 /\ acc[Len(pieces)] = FoldLeft(Fill, <<>>, pieces)
  <2>1. FoldLeft(Fill, <<>>, pieces) = Filling!FoldLeft(Fill, <<>>, pieces)
    BY Zenon DEF FoldLeft, Filling!FoldLeft, MapThenFoldSet, Filling!MapThenFoldSet,
                 Max, Filling!Max
  <2>2. \E acc : /\ acc[0] = <<>>
                 /\ \A n \in 1..Len(pieces) : acc[n] = Fill(acc[n - 1], pieces[n])
                 /\ acc[Len(pieces)] = Filling!FoldLeft(Fill, <<>>, pieces)
    BY <1>1, Filling!FoldIsARun, Zenon
  <2> QED BY <2>1, <2>2, Zenon
<1> DEFINE Fine(n) == /\ Sound(clips, acc[n]) /\ CutFrom(W, acc[n])
                      /\ \A j \in DOMAIN acc[n] : \E i \in 1..n : Within(acc[n][j], pieces[i])
                      /\ n > 0 => acc[n] # <<>>
           T == {n \in Nat : n <= Len(pieces) => Fine(n)}
<1>3. 0 \in T
  <2>1. Sound(clips, acc[0]) /\ CutFrom(W, acc[0]) /\ DOMAIN acc[0] = {}
    BY <1>2, NoParts
  <2> QED BY <2>1
<1>4. ASSUME NEW n \in Nat, n \in T PROVE n + 1 \in T
  <2>1. SUFFICES ASSUME n + 1 <= Len(pieces) PROVE Fine(n + 1)
    OBVIOUS
  <2> DEFINE p == pieces[n + 1]
             parts == acc[n]
  <2>2. /\ n + 1 \in 1..Len(pieces) /\ n + 1 \in DOMAIN pieces /\ (n + 1) - 1 = n
        /\ n <= Len(pieces) /\ 1..n \subseteq DOMAIN pieces /\ n + 1 \notin 1..n
        /\ 1..n \subseteq 1..(n + 1) /\ n + 1 \in 1..(n + 1)
    BY <1>1, <2>1
  <2>3. Fine(n) /\ acc[n + 1] = Fill(parts, p)
    BY <1>2, <1>4, <2>2
  <2>4. p \in PartsOf(clips) /\ p.length > 0
    BY <1>1, <2>2
  <2>5. parts \in Seq(PartsOf(clips)) /\ DOMAIN parts = 1..Len(parts) /\ Len(parts) \in Nat
    BY <2>3 DEF Sound
  <2>6. CASE Fill(parts, p) = parts /\ parts # <<>>
    BY <2>2, <2>3, <2>6
  <2>7. ASSUME NEW q \in PartsOf(clips), Fill(parts, p) = Append(parts, q), q.length > 0, Within(q, p)
        PROVE  Fine(n + 1)
    <3>1. \E w \in W : Within(q, w)
      <4>1. PICK w \in W : Within(p, w)
        BY <1>1, <2>2
      <4> QED BY <2>4, <2>7, <4>1, StretchOfAStretch
    <3>2. ASSUME NEW j \in DOMAIN parts PROVE Apart(parts[j], q)
      <4>1. PICK i \in 1..n : Within(parts[j], pieces[i])
        BY <2>3
      <4>2. Apart(p, pieces[i]) /\ pieces[i] \in PartsOf(clips) /\ parts[j] \in PartsOf(clips)
        <5>1. i \in DOMAIN pieces /\ i # n + 1
          BY <2>2
        <5>2. parts[j] \in PartsOf(clips)
          BY <2>5
        <5> QED BY <1>1, <2>2, <5>1, <5>2
      <4>3. Apart(parts[j], p)
        BY <2>4, <4>1, <4>2, StretchesApart
      <4> QED BY <2>4, <2>7, <4>2, <4>3, StretchesApart
    <3>3. Sound(clips, Append(parts, q)) /\ CutFrom(W, Append(parts, q))
      BY <2>3, <2>7, <3>1, <3>2, AnotherPart
    <3>4. /\ Append(parts, q) # <<>>
          /\ \A j \in DOMAIN Append(parts, q) : \/ j \in DOMAIN parts /\ Append(parts, q)[j] = parts[j]
                                                \/ Append(parts, q)[j] = q
      <4> HIDE DEF parts
      <4> QED BY <2>5, OneMore
    <3>5. \A j \in DOMAIN Append(parts, q) : \E i \in 1..(n + 1) : Within(Append(parts, q)[j], pieces[i])
      BY <2>2, <2>3, <2>7, <3>4
    <3>6. acc[n + 1] = Append(parts, q)
      BY <2>3, <2>7
    <3> QED BY <3>3, <3>4, <3>5, <3>6
  <2>8. \/ Fill(parts, p) = parts /\ parts # <<>>
        \/ \E q \in PartsOf(clips) :
             Fill(parts, p) = Append(parts, q) /\ q.length > 0 /\ Within(q, p)
    BY <2>4, <2>5, FillOnce
  <2> QED BY <2>6, <2>7, <2>8
<1>5. Len(pieces) \in T
  <2> HIDE DEF T
  <2> QED BY <1>1, <1>3, <1>4, Sharing!SetInduction
<1>6. pieces # <<>> => Len(pieces) > 0
  BY <1>1
<1> QED BY <1>1, <1>2, <1>5, <1>6

\* Nothing lasts no time.
LEMMA NothingIsShort == Total(<<>>, PartLength) = 0
<1>1. <<>> \in Seq({}) /\ Len(<<>>) = 0
  OBVIOUS
<1>2. PICK acc : acc[0] = 0 /\ acc[Len(<<>>)] = Total(<<>>, PartLength)
  BY <1>1, TotalIsARun
<1> QED BY <1>1, <1>2

\* The best first.
LEMMA BestFirst ==
  ASSUME NEW clips \in Seq(Clips), NEW W, NEW parts, Sound(clips, parts), CutFrom(W, parts)
  PROVE  /\ Sound(clips, ByQuality(clips, parts)) /\ CutFrom(W, ByQuality(clips, parts))
         /\ Len(ByQuality(clips, parts)) = Len(parts)
<1> DEFINE keys == [i \in DOMAIN parts |-> PartQuality(clips, parts[i])]
<1>1. ByQuality(clips, parts) = Taken(parts, Order(keys))
  BY DEF ByQuality, Descending
<1>2. keys \in [DOMAIN parts -> Int]
  <2>1. \A i \in DOMAIN parts : parts[i] \in PartsOf(clips)
    BY DEF Sound
  <2>2. \A i \in DOMAIN parts : PartQuality(clips, parts[i]) \in Int
    BY <2>1, QualityOfAPart
  <2> QED BY <2>2
<1> HIDE DEF keys
<1> QED BY <1>1, <1>2, SortedParts

\* A stitched candidate, if there is enough for one.
LEMMA StitchedIn ==
  ASSUME NEW clips \in Seq(Clips), NEW c \in DOMAIN clips, NEW W \in SUBSET PartsOf(clips),
         NEW turns, AreTurns(W, c, turns)
  PROVE  Stitched(clips, c, turns) \in Seq(CandidatesIn(clips, W))
<1> DEFINE pieces == Pieces(c, turns)
           filled == FoldLeft(Fill, <<>>, ByQuality(clips, pieces))
           keys == [i \in DOMAIN filled |-> -filled[i].start]
           chosen == Taken(filled, Order(keys))
           percent == IF Len(chosen) > 1 THEN 98 ELSE 100
<1>1. Stitched(clips, c, turns) =
        IF Total(pieces, PartLength) < Least THEN <<>>
        ELSE <<Candidate(clips, "turn", chosen, percent)>>
  BY DEF Stitched, Descending
<1>2. Sound(clips, pieces) /\ CutFrom(W, pieces)
  BY PiecesOfTurns
<1> HIDE DEF pieces
<1>3. CASE Total(pieces, PartLength) < Least
  BY <1>1, <1>3
<1>4. CASE ~(Total(pieces, PartLength) < Least)
  <2>1. pieces # <<>>
    BY <1>4, NothingIsShort DEF Least
  <2>2. /\ Sound(clips, ByQuality(clips, pieces)) /\ CutFrom(W, ByQuality(clips, pieces))
        /\ Len(ByQuality(clips, pieces)) = Len(pieces)
    BY <1>2, BestFirst
  <2>3. ByQuality(clips, pieces) # <<>>
    <3>1. Len(pieces) # 0
      BY <1>2, <2>1 DEF Sound
    <3> QED BY <2>2, <3>1
  <2>4. Sound(clips, filled) /\ CutFrom(W, filled) /\ filled # <<>>
    BY <2>2, <2>3, FilledParts
  <2> HIDE DEF filled
  <2>5. keys \in [DOMAIN filled -> Int]
    <3>1. \A i \in DOMAIN filled : filled[i].start \in Nat
      <4>1. \A i \in DOMAIN filled : filled[i] \in PartsOf(clips)
        BY <2>4 DEF Sound
      <4> QED BY <4>1 DEF PartsOf
    <3> QED BY <3>1
  <2> HIDE DEF keys
  <2>6. Sound(clips, chosen) /\ CutFrom(W, chosen) /\ Len(chosen) = Len(filled)
    BY <2>4, <2>5, SortedParts
  <2> HIDE DEF chosen
  <2>7. chosen # <<>>
    <3>1. Len(filled) # 0
      BY <2>4 DEF Sound
    <3> QED BY <2>6, <3>1
  <2>8. percent \in Int /\ "turn" \in {"turn", "pooled", "window"}
    OBVIOUS
  <2> HIDE DEF percent
  <2>9. Candidate(clips, "turn", chosen, percent) \in CandidatesIn(clips, W)
    BY <2>6, <2>7, <2>8, CandidateIsOne
  <2> QED BY <1>1, <1>4, <2>9
<1> QED BY <1>3, <1>4

\* Sequences of something make one.
LEMMA FlattenedIn ==
  ASSUME NEW S, NEW seqs \in Seq(Seq(S))
  PROVE  FlattenSeq(seqs) \in Seq(S)
<1> DEFINE L == Len(seqs)
<1>1. L \in Nat /\ DOMAIN seqs = 1..L /\ \A i \in 1..L : seqs[i] \in Seq(S)
  OBVIOUS
<1>2. CASE L = 0
  <2>1. FlattenSeq(seqs) = seqs
    BY <1>2, Zenon DEF FlattenSeq
  <2>2. seqs = <<>>
    BY <1>2
  <2> QED BY <2>1, <2>2
<1>3. CASE L # 0
  <2>1. PICK acc : /\ acc[1] = seqs[1]
                   /\ \A i \in 2..L : acc[i] = acc[i - 1] \o seqs[i]
                   /\ acc[L] = FlattenSeq(seqs)
    BY <1>1, <1>3, Flattening
  <2> HIDE DEF L
  <2> DEFINE T == {i \in Nat : 1 <= i /\ i <= L => acc[i] \in Seq(S)}
  <2>2. 0 \in T
    OBVIOUS
  <2>3. ASSUME NEW i \in Nat, i \in T PROVE i + 1 \in T
    <3>1. SUFFICES ASSUME i + 1 <= L PROVE acc[i + 1] \in Seq(S)
      OBVIOUS
    <3>2. seqs[i + 1] \in Seq(S)
      BY <1>1, <3>1
    <3>3. CASE i = 0
      BY <2>1, <3>2, <3>3
    <3>4. CASE i # 0
      <4>1. i + 1 \in 2..L /\ (i + 1) - 1 = i /\ 1 <= i /\ i <= L
        BY <1>1, <3>1, <3>4
      <4>2. acc[i + 1] = acc[i] \o seqs[i + 1] /\ acc[i] \in Seq(S)
        BY <2>1, <2>3, <4>1
      <4> QED BY <3>2, <4>2
    <3> QED BY <3>3, <3>4
  <2>4. L \in T
    <3> HIDE DEF T
    <3> QED BY <1>1, <2>2, <2>3, Sharing!SetInduction
  <2> QED BY <1>1, <1>3, <2>1, <2>4
<1> QED BY <1>2, <1>3

\* All clips by themselves.
LEMMA AllCandidatesIn ==
  ASSUME NEW clips \in Seq(Clips), NEW W \in SUBSET PartsOf(clips), NEW turns,
         \A c \in DOMAIN clips : AreTurns(W, c, turns[c])
  PROVE  AllCandidates(clips, turns) \in Seq(CandidatesIn(clips, W))
<1> DEFINE all == [c \in DOMAIN clips |-> CandidatesOfClip(clips, c, turns[c])]
           Ones == CandidatesIn(clips, W)
<1>1. ASSUME NEW c \in DOMAIN clips PROVE CandidatesOfClip(clips, c, turns[c]) \in Seq(Ones)
  <2> DEFINE I == {i \in DOMAIN turns[c] : turns[c][i].label = MainLabel(turns[c])}
             mine == Taken(turns[c], Places(I))
  <2>1. CandidatesOfClip(clips, c, turns[c]) =
          IF turns[c] = <<>> THEN Windows(clips, c)
          ELSE LongTurns(clips, c, mine) \o Stitched(clips, c, mine)
    BY DEF CandidatesOfClip, Select
  <2>2. AreTurns(W, c, mine)
    <3>1. I \in SUBSET DOMAIN turns[c]
      OBVIOUS
    <3> HIDE DEF I
    <3> QED BY <3>1, SomeTurns
  <2> HIDE DEF mine, Ones
  <2>3. /\ Windows(clips, c) \in Seq(Ones)
        /\ LongTurns(clips, c, mine) \in Seq(Ones) /\ Stitched(clips, c, mine) \in Seq(Ones)
    BY <2>2, WindowsIn, LongTurnsIn, StitchedIn DEF Ones
  <2> QED BY <2>1, <2>3
<1>2. all \in Seq(Seq(Ones))
  <2>1. DOMAIN clips = 1..Len(clips) /\ Len(clips) \in Nat
    OBVIOUS
  <2> HIDE DEF Ones
  <2> QED BY <1>1, <2>1
<1>3. AllCandidates(clips, turns) = FlattenSeq(all)
  BY DEF AllCandidates
<1> HIDE DEF all, Ones
<1>4. FlattenSeq(all) \in Seq(Ones)
  BY <1>2, FlattenedIn
<1> QED BY <1>3, <1>4 DEF Ones

-----------------------------------------------------------------------------
(* Pooled candidates. *)

\* A bundle in the making: what is in it was taken from the pool.
Bundles(clips, W) ==
  {b \in [pool : Seq(PartsOf(clips)), target : Int, spread : BOOLEAN, left : Int,
          parts : Seq(PartsOf(clips))] :
     /\ Sound(clips, b.pool) /\ Sound(clips, b.parts) /\ CutFrom(W, b.parts)
     /\ \A i \in DOMAIN b.pool : \E w \in W : Within(b.pool[i], w)
     /\ \A j \in DOMAIN b.parts, i \in DOMAIN b.pool : Apart(b.parts[j], b.pool[i])}

\* What is taken off a piece and what is left of it.
LEMMA Cut ==
  ASSUME NEW clips, NEW p \in PartsOf(clips), NEW take \in Int, Crumb <= take, take <= p.length
  PROVE  LET new == [p EXCEPT !.length = take]
             rest == [p EXCEPT !.start = @ + take, !.length = @ - take]
         IN /\ new \in PartsOf(clips) /\ new.length > 0 /\ Within(new, p)
            /\ rest \in PartsOf(clips) /\ Within(rest, p) /\ Apart(new, rest)
<1> DEFINE new == [p EXCEPT !.length = take]
           rest == [p EXCEPT !.start = @ + take, !.length = @ - take]
<1>1. p.start \in Nat /\ p.length \in Nat /\ take > 0
  BY DEF PartsOf, Crumb
<1>2. /\ new.clip = p.clip /\ new.start = p.start /\ new.length = take
      /\ rest.clip = p.clip /\ rest.start = p.start + take /\ rest.length = p.length - take
  BY DEF PartsOf
<1>3. new \in PartsOf(clips) /\ rest \in PartsOf(clips)
  <2>1. take \in Nat /\ p.start + take \in Nat /\ p.length - take \in Nat
    BY <1>1
  <2>2. p \in [clip : DOMAIN clips, start : Nat, length : Nat]
    BY DEF PartsOf
  <2> QED BY <2>1, <2>2 DEF PartsOf
<1> HIDE DEF new, rest
<1>4. Within(new, p) /\ Within(rest, p) /\ Apart(new, rest) /\ new.length > 0
  BY <1>1, <1>2 DEF Within, Apart
<1> QED BY <1>3, <1>4 DEF new, rest

\* Taking a part into a bundle leaves it a bundle: what is taken is gone from the pool.
LEMMA ExtendKeeps ==
  ASSUME NEW clips, NEW W \in SUBSET PartsOf(clips), NEW b \in Bundles(clips, W), NEW again
  PROVE  Extend(b, again) \in Bundles(clips, W)
<1> DEFINE options == {i \in DOMAIN b.pool : CanTake(b, i)}
           i == Min(options)
           cap == IF b.spread THEN Max({ShortTurn, b.target \div 2}) ELSE b.target
           take == Min({b.pool[i].length, b.left, cap})
           new == [b.pool[i] EXCEPT !.length = take]
           rest == [b.pool[i] EXCEPT !.start = @ + take, !.length = @ - take]
           pool == UseUp(b.pool, i, take)
           parts == Append(b.parts, new)
           after == [b EXCEPT !.pool = pool, !.left = b.left - take, !.parts = parts]
<1>1. Extend(b, again) = IF b.left <= 1 \/ options = {} \/ take < Crumb THEN b ELSE after
  BY DEF Extend
<1>2. /\ b \in [pool : Seq(PartsOf(clips)), target : Int, spread : BOOLEAN, left : Int,
                parts : Seq(PartsOf(clips))]
      /\ Sound(clips, b.pool) /\ Sound(clips, b.parts) /\ CutFrom(W, b.parts)
      /\ \A n \in DOMAIN b.pool : \E w \in W : Within(b.pool[n], w)
      /\ \A j \in DOMAIN b.parts, n \in DOMAIN b.pool : Apart(b.parts[j], b.pool[n])
  BY DEF Bundles
<1>3. CASE b.left <= 1 \/ options = {} \/ take < Crumb
  BY <1>1, <1>3
<1>4. CASE ~(b.left <= 1 \/ options = {} \/ take < Crumb)
  <2>1. /\ DOMAIN b.pool = 1..Len(b.pool) /\ Len(b.pool) \in Nat
        /\ \A n \in DOMAIN b.pool : b.pool[n] \in PartsOf(clips)
        /\ b.left \in Int /\ b.target \in Int /\ b.spread \in BOOLEAN
    BY <1>2
  <2>2. i \in DOMAIN b.pool
    <3>1. IsFiniteSet(1..Len(b.pool))
      BY <2>1, FS_Interval
    <3>2. options \in SUBSET (1..Len(b.pool)) /\ options # {}
      BY <1>4, <2>1
    <3> HIDE DEF options
    <3>3. IsFiniteSet(options)
      BY <3>1, <3>2, FS_Subset
    <3>4. i \in options
      <4>1. options \subseteq Int
        BY <3>2
      <4> QED BY <3>2, <3>3, <4>1, FiniteBounds
    <3> QED BY <2>1, <3>2, <3>4
  <2> HIDE DEF i, options
  <2>3. cap \in Int
    <3>1. b.target \div 2 \in Int /\ ShortTurn \in Int
      BY <2>1 DEF ShortTurn
    <3>2. Max({ShortTurn, b.target \div 2}) = IF ShortTurn >= b.target \div 2 THEN ShortTurn ELSE b.target \div 2
      BY <3>1, OfTwo
    <3>3. Max({ShortTurn, b.target \div 2}) \in Int
      BY <3>1, <3>2
    <3> QED BY <2>1, <3>3
  <2> HIDE DEF cap
  <2>4. take \in Int /\ take <= b.pool[i].length /\ Crumb <= take
    <3>1. b.pool[i].length \in Int
      BY <2>1, <2>2 DEF PartsOf
    <3> DEFINE three == {b.pool[i].length, b.left, cap}
    <3>2. three \subseteq Int /\ three # {} /\ b.pool[i].length \in three
      BY <2>1, <2>3, <3>1
    <3>3. IsFiniteSet(three)
      <4>1. IsFiniteSet({b.pool[i].length})
        BY FS_Singleton
      <4>2. IsFiniteSet({b.pool[i].length} \cup {b.left})
        BY <4>1, FS_AddElement
      <4>3. IsFiniteSet(({b.pool[i].length} \cup {b.left}) \cup {cap})
        BY <4>2, FS_AddElement
      <4>4. three = ({b.pool[i].length} \cup {b.left}) \cup {cap}
        OBVIOUS
      <4> QED BY <4>3, <4>4
    <3> HIDE DEF three
    <3>4. Min(three) \in three /\ \A y \in three : Min(three) <= y
      BY <3>2, <3>3, FiniteBounds
    <3>5. take = Min(three)
      BY DEF three
    <3>6. take \in Int /\ take <= b.pool[i].length
      BY <3>2, <3>4, <3>5
    <3> HIDE DEF take
    <3> QED BY <1>4, <3>6 DEF Crumb
  <2> HIDE DEF take
  <2>5. b.pool[i] \in PartsOf(clips)
    BY <2>1, <2>2
  <2>6. /\ new \in PartsOf(clips) /\ new.length > 0 /\ Within(new, b.pool[i])
        /\ rest \in PartsOf(clips) /\ Within(rest, b.pool[i]) /\ Apart(new, rest)
    BY <2>4, <2>5, Cut
  <2>7. /\ DOMAIN pool = DOMAIN b.pool
        /\ \A n \in DOMAIN b.pool : pool[n] = IF n = i THEN rest ELSE b.pool[n]
    <3>1. b.pool \in Seq(PartsOf(clips))
      BY <1>2
    <3> QED BY <2>2, <2>5, <3>1 DEF UseUp
  <2>8. pool \in Seq(PartsOf(clips))
    <3>1. \A n \in 1..Len(b.pool) : (IF n = i THEN rest ELSE b.pool[n]) \in PartsOf(clips)
      BY <2>1, <2>6
    <3>2. pool = [n \in 1..Len(b.pool) |-> IF n = i THEN rest ELSE b.pool[n]]
      BY <2>1, <2>7 DEF UseUp
    <3> HIDE DEF pool, rest
    <3> QED BY <2>1, <3>1, <3>2
  <2> HIDE DEF new, rest, pool
  <2>9. \A n \in DOMAIN b.pool : /\ pool[n] \in PartsOf(clips) /\ Within(pool[n], b.pool[n])
                                 /\ Apart(new, pool[n])
    <3>1. ASSUME NEW n \in DOMAIN b.pool
          PROVE  Within(pool[n], b.pool[n]) /\ Apart(new, pool[n])
      <4>1. CASE n = i
        BY <2>6, <2>7, <4>1
      <4>2. CASE n # i
        <5>1. pool[n] = b.pool[n] /\ b.pool[n] \in PartsOf(clips)
          BY <2>1, <2>7, <4>2
        <5>2. Within(pool[n], b.pool[n])
          BY <5>1 DEF Within, PartsOf
        <5>3. Apart(b.pool[n], b.pool[i])
          BY <1>2, <2>2, <4>2 DEF Sound
        <5>4. Apart(new, b.pool[n])
          BY <2>5, <2>6, <5>1, <5>3, StretchesApart
        <5> QED BY <5>1, <5>2, <5>4
      <4> QED BY <4>1, <4>2
    <3>2. \A n \in DOMAIN b.pool : pool[n] \in PartsOf(clips)
      BY <2>6, <2>7, <2>1
    <3> QED BY <3>1, <3>2
  <2>10. Sound(clips, pool)
    <3>1. ASSUME NEW m \in DOMAIN b.pool, NEW n \in DOMAIN b.pool, m # n
          PROVE  Apart(pool[m], pool[n])
      <4>1. Apart(b.pool[m], b.pool[n])
        BY <1>2, <3>1 DEF Sound
      <4>2. Apart(b.pool[m], pool[n])
        BY <2>1, <2>9, <4>1, StretchesApart
      <4>3. Apart(pool[n], b.pool[m])
        BY <4>2 DEF Apart
      <4>4. Apart(pool[n], pool[m])
        BY <2>1, <2>9, <4>3, StretchesApart
      <4> QED BY <4>4 DEF Apart
    <3> QED BY <2>7, <2>8, <3>1 DEF Sound
  <2>11. \A n \in DOMAIN pool : \E w \in W : Within(pool[n], w)
    <3>1. ASSUME NEW n \in DOMAIN b.pool PROVE \E w \in W : Within(pool[n], w)
      <4>1. PICK w \in W : Within(b.pool[n], w)
        BY <1>2
      <4>2. Within(pool[n], w)
        BY <2>1, <2>9, <4>1, StretchOfAStretch
      <4> QED BY <4>2
    <3> QED BY <2>7, <3>1
  <2>12. Sound(clips, parts) /\ CutFrom(W, parts) /\ parts \in Seq(PartsOf(clips))
    <3>1. \E w \in W : Within(new, w)
      <4>1. PICK w \in W : Within(b.pool[i], w)
        BY <1>2, <2>2
      <4> QED BY <2>5, <2>6, <4>1, StretchOfAStretch
    <3>2. \A j \in DOMAIN b.parts : Apart(b.parts[j], new)
      <4>1. \A j \in DOMAIN b.parts : b.parts[j] \in PartsOf(clips) /\ Apart(b.parts[j], b.pool[i])
        BY <1>2, <2>2
      <4> QED BY <2>5, <2>6, <4>1, StretchesApart
    <3>3. Sound(clips, parts) /\ CutFrom(W, parts)
      BY <1>2, <2>6, <3>1, <3>2, AnotherPart
    <3> QED BY <3>3 DEF Sound
  <2>13. \A j \in DOMAIN parts, n \in DOMAIN pool : Apart(parts[j], pool[n])
    <3>1. \A j \in DOMAIN parts : (j \in DOMAIN b.parts /\ parts[j] = b.parts[j]) \/ parts[j] = new
      <4>1. b.parts \in Seq(PartsOf(clips))
        BY <1>2
      <4> QED BY <2>6, <4>1, OneMore
    <3>2. ASSUME NEW j \in DOMAIN b.parts, NEW n \in DOMAIN b.pool PROVE Apart(b.parts[j], pool[n])
      <4>1. Apart(b.parts[j], b.pool[n]) /\ b.parts[j] \in PartsOf(clips)
        BY <1>2
      <4> QED BY <2>1, <2>9, <4>1, StretchesApart
    <3> HIDE DEF parts
    <3> QED BY <2>7, <2>9, <3>1, <3>2
  <2>14. /\ after.pool = pool /\ after.parts = parts
         /\ after \in [pool : Seq(PartsOf(clips)), target : Int, spread : BOOLEAN, left : Int,
                       parts : Seq(PartsOf(clips))]
    <3>1. b.left - take \in Int
      BY <2>1, <2>4
    <3> HIDE DEF parts
    <3> QED BY <1>2, <2>8, <2>12, <3>1
  <2> HIDE DEF after, parts
  <2>15. after \in Bundles(clips, W)
    BY <2>10, <2>11, <2>12, <2>13, <2>14 DEF Bundles
  <2> QED BY <1>1, <1>4, <2>15
<1> QED BY <1>3, <1>4

\* One bundle.
LEMMA BundleIsOne ==
  ASSUME NEW clips, NEW W \in SUBSET PartsOf(clips), NEW pool, Sound(clips, pool),
         \A i \in DOMAIN pool : \E w \in W : Within(pool[i], w), NEW target \in Int
  PROVE  Bundle(pool, target) \in Bundles(clips, W)
<1> DEFINE start == [pool |-> pool, target |-> target, spread |-> TRUE,
                     left |-> target, parts |-> <<>>]
           Pass(b) == FoldLeft(Extend, b, pool)
           half == Pass(start)
           again == [half EXCEPT !.spread = FALSE]
<1>1. Bundle(pool, target) = Pass(again)
  BY DEF Bundle
<1>2. pool \in Seq(PartsOf(clips))
  BY DEF Sound
<1>3. \A b : FoldLeft(Extend, b, pool) = Extending!FoldLeft(Extend, b, pool)
  BY Zenon DEF FoldLeft, Extending!FoldLeft, MapThenFoldSet, Extending!MapThenFoldSet,
               Max, Extending!Max
<1>4. \A b \in Bundles(clips, W), x \in PartsOf(clips) : Extend(b, x) \in Bundles(clips, W)
  BY ExtendKeeps
<1>5. ASSUME NEW b \in Bundles(clips, W) PROVE Pass(b) \in Bundles(clips, W)
  <2>1. Extending!FoldLeft(Extend, b, pool) \in Bundles(clips, W)
    BY <1>2, <1>4, Extending!FoldKeeps, Zenon
  <2> QED BY <1>3, <2>1
<1>6. start \in Bundles(clips, W)
  <2>1. Sound(clips, <<>>) /\ CutFrom(W, <<>>) /\ DOMAIN <<>> = {}
    BY NoParts
  <2>2. start \in [pool : Seq(PartsOf(clips)), target : Int, spread : BOOLEAN, left : Int,
                   parts : Seq(PartsOf(clips))]
    BY <1>2
  <2> QED BY <2>1, <2>2 DEF Bundles
<1> HIDE DEF Pass, start
<1>7. half \in Bundles(clips, W)
  BY <1>5, <1>6
<1> HIDE DEF half
<1>8. again \in Bundles(clips, W)
  <2>1. again.pool = half.pool /\ again.parts = half.parts
    BY <1>7 DEF Bundles
  <2>2. again \in [pool : Seq(PartsOf(clips)), target : Int, spread : BOOLEAN, left : Int,
                   parts : Seq(PartsOf(clips))]
    BY <1>7 DEF Bundles
  <2> HIDE DEF again
  <2> QED BY <1>7, <2>1, <2>2 DEF Bundles
<1> QED BY <1>1, <1>5, <1>8

\* Bundles that are made, and what is left for the next.
Harvests(clips, W) ==
  {d \in [pool : Seq(PartsOf(clips)), target : Int, over : BOOLEAN, made : Seq(Seq(PartsOf(clips)))] :
     /\ Sound(clips, d.pool)
     /\ \A i \in DOMAIN d.pool : \E w \in W : Within(d.pool[i], w)
     /\ \A m \in DOMAIN d.made :
          Sound(clips, d.made[m]) /\ CutFrom(W, d.made[m]) /\ d.made[m] # <<>>}

\* Every bundle that is gathered is sound, and the pool is what they left.
LEMMA GatherKeeps ==
  ASSUME NEW clips, NEW W \in SUBSET PartsOf(clips), NEW d \in Harvests(clips, W), NEW n
  PROVE  Gather(d, n) \in Harvests(clips, W)
<1> DEFINE bundle == Bundle(d.pool, d.target)
           ended == [d EXCEPT !.over = TRUE]
           more == [d EXCEPT !.pool = bundle.pool, !.made = Append(d.made, bundle.parts)]
<1>1. Gather(d, n) = IF d.over \/ Total(bundle.parts, PartLength) < Least THEN ended ELSE more
  BY DEF Gather
<1>2. /\ d \in [pool : Seq(PartsOf(clips)), target : Int, over : BOOLEAN,
                made : Seq(Seq(PartsOf(clips)))]
      /\ Sound(clips, d.pool)
      /\ \A i \in DOMAIN d.pool : \E w \in W : Within(d.pool[i], w)
      /\ \A m \in DOMAIN d.made :
           Sound(clips, d.made[m]) /\ CutFrom(W, d.made[m]) /\ d.made[m] # <<>>
  BY DEF Harvests
<1>3. CASE d.over \/ Total(bundle.parts, PartLength) < Least
  <2>1. ended.pool = d.pool /\ ended.made = d.made
    BY <1>2
  <2>2. ended \in [pool : Seq(PartsOf(clips)), target : Int, over : BOOLEAN,
                   made : Seq(Seq(PartsOf(clips)))]
    BY <1>2
  <2> HIDE DEF ended
  <2>3. ended \in Harvests(clips, W)
    BY <1>2, <2>1, <2>2 DEF Harvests
  <2> QED BY <1>1, <1>3, <2>3
<1>4. CASE ~(d.over \/ Total(bundle.parts, PartLength) < Least)
  <2>1. bundle \in Bundles(clips, W)
    <3>1. d.target \in Int
      BY <1>2
    <3> QED BY <1>2, <3>1, BundleIsOne
  <2> HIDE DEF bundle
  <2>2. /\ Sound(clips, bundle.pool) /\ Sound(clips, bundle.parts) /\ CutFrom(W, bundle.parts)
        /\ \A i \in DOMAIN bundle.pool : \E w \in W : Within(bundle.pool[i], w)
        /\ bundle.pool \in Seq(PartsOf(clips)) /\ bundle.parts \in Seq(PartsOf(clips))
    BY <2>1 DEF Bundles
  <2>3. bundle.parts # <<>>
    BY <1>4, NothingIsShort DEF Least
  <2> DEFINE made == Append(d.made, bundle.parts)
  <2>4. /\ made \in Seq(Seq(PartsOf(clips)))
        /\ \A m \in DOMAIN made : (m \in DOMAIN d.made /\ made[m] = d.made[m]) \/ made[m] = bundle.parts
    <3>1. d.made \in Seq(Seq(PartsOf(clips)))
      BY <1>2
    <3> QED BY <2>2, <3>1, OneMore
  <2> HIDE DEF made
  <2>5. more.pool = bundle.pool /\ more.made = made
    BY <1>2 DEF made
  <2>6. more \in [pool : Seq(PartsOf(clips)), target : Int, over : BOOLEAN,
                  made : Seq(Seq(PartsOf(clips)))]
    BY <1>2, <2>2, <2>4 DEF made
  <2> HIDE DEF more
  <2>7. \A m \in DOMAIN made : Sound(clips, made[m]) /\ CutFrom(W, made[m]) /\ made[m] # <<>>
    BY <1>2, <2>2, <2>3, <2>4
  <2>8. more \in Harvests(clips, W)
    BY <2>2, <2>5, <2>6, <2>7 DEF Harvests
  <2> QED BY <1>1, <1>4, <2>8
<1> QED BY <1>3, <1>4

\* Parts of some clips, and of another.
LEMMA PartsTogether ==
  ASSUME NEW clips, NEW W, NEW a, Sound(clips, a), CutFrom(W, a),
         NEW b, Sound(clips, b), CutFrom(W, b),
         \A i \in DOMAIN a, k \in DOMAIN b : a[i].clip # b[k].clip
  PROVE  /\ Sound(clips, a \o b) /\ CutFrom(W, a \o b)
         /\ \A n \in DOMAIN (a \o b) : \/ \E i \in DOMAIN a : (a \o b)[n] = a[i]
                                       \/ \E k \in DOMAIN b : (a \o b)[n] = b[k]
<1> DEFINE c == a \o b
<1>1. /\ a \in Seq(PartsOf(clips)) /\ b \in Seq(PartsOf(clips))
      /\ DOMAIN a = 1..Len(a) /\ DOMAIN b = 1..Len(b) /\ Len(a) \in Nat /\ Len(b) \in Nat
  BY DEF Sound
<1>2. /\ c \in Seq(PartsOf(clips)) /\ DOMAIN c = 1..(Len(a) + Len(b))
      /\ \A n \in DOMAIN c : c[n] = IF n <= Len(a) THEN a[n] ELSE b[n - Len(a)]
  BY <1>1
<1> HIDE DEF c
<1>3. ASSUME NEW n \in DOMAIN c
      PROVE  \/ n \in DOMAIN a /\ c[n] = a[n]
             \/ n > Len(a) /\ n - Len(a) \in DOMAIN b /\ c[n] = b[n - Len(a)]
  <2>1. CASE n <= Len(a)
    BY <1>1, <1>2, <2>1
  <2>2. CASE ~(n <= Len(a))
    <3>1. n - Len(a) \in DOMAIN b /\ n > Len(a)
      BY <1>1, <1>2, <2>2
    <3> QED BY <1>2, <2>2, <3>1
  <2> QED BY <2>1, <2>2
<1>4. ASSUME NEW m \in DOMAIN c, NEW n \in DOMAIN c, m # n PROVE Apart(c[m], c[n])
  <2>1. CASE m \in DOMAIN a /\ c[m] = a[m] /\ n \in DOMAIN a /\ c[n] = a[n]
    BY <1>4, <2>1 DEF Sound
  <2>2. CASE /\ m - Len(a) \in DOMAIN b /\ c[m] = b[m - Len(a)]
             /\ n - Len(a) \in DOMAIN b /\ c[n] = b[n - Len(a)]
    <3>1. m - Len(a) # n - Len(a)
      BY <1>1, <1>2, <1>4
    <3> QED BY <2>2, <3>1 DEF Sound
  <2>3. CASE \/ /\ m \in DOMAIN a /\ c[m] = a[m]
                /\ n - Len(a) \in DOMAIN b /\ c[n] = b[n - Len(a)]
             \/ /\ n \in DOMAIN a /\ c[n] = a[n]
                /\ m - Len(a) \in DOMAIN b /\ c[m] = b[m - Len(a)]
    BY <2>3 DEF Apart
  <2> QED BY <1>3, <2>1, <2>2, <2>3
<1>5. \A n \in DOMAIN c : \/ \E i \in DOMAIN a : c[n] = a[i]
                          \/ \E k \in DOMAIN b : c[n] = b[k]
  BY <1>3
<1>6. CutFrom(W, c)
  BY <1>5 DEF CutFrom
<1> QED BY <1>2, <1>4, <1>5, <1>6 DEF Sound, c

\* The pieces of all clips.
LEMMA AllPieces ==
  ASSUME NEW clips \in Seq(Clips), NEW W, NEW turns,
         \A c \in DOMAIN clips : AreTurns(W, c, turns[c])
  PROVE  LET all == FlattenSeq([c \in DOMAIN clips |-> Pieces(c, turns[c])])
         IN Sound(clips, all) /\ CutFrom(W, all)
<1> DEFINE L == Len(clips)
           seqs == [c \in DOMAIN clips |-> Pieces(c, turns[c])]
<1>1. L \in Nat /\ DOMAIN clips = 1..L /\ Len(seqs) = L
  OBVIOUS
<1>2. ASSUME NEW c \in DOMAIN clips
      PROVE  /\ Sound(clips, seqs[c]) /\ CutFrom(W, seqs[c])
             /\ \A n \in DOMAIN seqs[c] : seqs[c][n].clip = c
  <2>1. seqs[c] = Pieces(c, turns[c])
    OBVIOUS
  <2> QED BY <2>1, PiecesOfTurns
<1> HIDE DEF L
<1>3. CASE L = 0
  <2>1. seqs = <<>>
    BY <1>1, <1>3
  <2> HIDE DEF seqs
  <2>2. FlattenSeq(seqs) = seqs
    BY <1>1, <1>3, Zenon DEF FlattenSeq
  <2> QED BY <2>1, <2>2, NoParts DEF seqs
<1> HIDE DEF seqs
<1>4. CASE L # 0
  <2>1. PICK acc : /\ acc[1] = seqs[1]
                   /\ \A i \in 2..L : acc[i] = acc[i - 1] \o seqs[i]
                   /\ acc[L] = FlattenSeq(seqs)
    BY <1>1, <1>4, Flattening
  <2> DEFINE Fine(i) == /\ Sound(clips, acc[i]) /\ CutFrom(W, acc[i])
                        /\ \A n \in DOMAIN acc[i] : acc[i][n].clip \in 1..i
             T == {i \in Nat : 1 <= i /\ i <= L => Fine(i)}
  <2>2. 0 \in T
    OBVIOUS
  <2>3. ASSUME NEW i \in Nat, i \in T PROVE i + 1 \in T
    <3>1. SUFFICES ASSUME i + 1 <= L PROVE Fine(i + 1)
      OBVIOUS
    <3>2. i + 1 \in DOMAIN clips /\ i + 1 \in 1..(i + 1) /\ i + 1 \notin 1..i /\ 1..i \subseteq 1..(i + 1)
      BY <1>1, <3>1
    <3>3. /\ Sound(clips, seqs[i + 1]) /\ CutFrom(W, seqs[i + 1])
          /\ \A n \in DOMAIN seqs[i + 1] : seqs[i + 1][n].clip = i + 1
      BY <1>2, <3>2
    <3>4. CASE i = 0
      BY <2>1, <3>2, <3>3, <3>4
    <3>5. CASE i # 0
      <4>1. i + 1 \in 2..L /\ (i + 1) - 1 = i /\ 1 <= i /\ i <= L
        BY <1>1, <3>1, <3>5
      <4>2. Fine(i)
        BY <2>3, <4>1
      <4>3. acc[i + 1] = acc[i] \o seqs[i + 1]
        BY <2>1, <4>1
      <4> DEFINE a == acc[i]
                 b == seqs[i + 1]
      <4>4. \A m \in DOMAIN a, n \in DOMAIN b : a[m].clip # b[n].clip
        BY <3>2, <3>3, <4>2
      <4>5. Sound(clips, a) /\ CutFrom(W, a) /\ Sound(clips, b) /\ CutFrom(W, b)
        BY <3>3, <4>2
      <4>6. /\ Sound(clips, a \o b) /\ CutFrom(W, a \o b)
            /\ \A n \in DOMAIN (a \o b) : \/ \E m \in DOMAIN a : (a \o b)[n] = a[m]
                                          \/ \E k \in DOMAIN b : (a \o b)[n] = b[k]
        <5> HIDE DEF a, b
        <5> QED BY <4>4, <4>5, PartsTogether
      <4>7. \A n \in DOMAIN (a \o b) : (a \o b)[n].clip \in 1..(i + 1)
        <5>1. \A m \in DOMAIN a : a[m].clip \in 1..(i + 1)
          BY <3>2, <4>2
        <5>2. \A k \in DOMAIN b : b[k].clip \in 1..(i + 1)
          BY <3>2, <3>3
        <5> HIDE DEF a, b
        <5> QED BY <4>6, <5>1, <5>2
      <4>8. acc[i + 1] = a \o b
        BY <4>3
      <4> HIDE DEF a, b
      <4> QED BY <4>6, <4>7, <4>8
    <3> QED BY <3>4, <3>5
  <2>4. L \in T
    <3> HIDE DEF T
    <3> QED BY <1>1, <2>2, <2>3, Sharing!SetInduction
  <2> QED BY <1>1, <1>4, <2>1, <2>4 DEF seqs
<1> QED BY <1>3, <1>4

\* All of them together.
LEMMA PooledIn ==
  ASSUME NEW clips \in Seq(Clips), NEW W \in SUBSET PartsOf(clips), NEW turns,
         \A c \in DOMAIN clips : AreTurns(W, c, turns[c])
  PROVE  Pooled(clips, turns) \in Seq(CandidatesIn(clips, W))
<1> DEFINE all == FlattenSeq([c \in DOMAIN clips |-> Pieces(c, turns[c])])
           pieces == ByQuality(clips, all)
           total == Total(pieces, PartLength)
           count == Min({MaxChoices, total \div Least})
           start == [pool |-> pieces, target |-> Min({Target, total \div count}),
                     over |-> FALSE, made |-> <<>>]
           rounds == [n \in 1..count |-> n]
           made == FoldLeft(Gather, start, rounds).made
           Percent(i) == IF Len(made[i]) > 1 THEN 97 ELSE 100
           pooled == [i \in DOMAIN made |-> Candidate(clips, "pooled", made[i], Percent(i))]
<1>1. Pooled(clips, turns) = IF count = 0 THEN <<>> ELSE pooled
  BY DEF Pooled
<1>2. Sound(clips, all) /\ CutFrom(W, all)
  BY AllPieces
<1> HIDE DEF all
<1>3. Sound(clips, pieces) /\ CutFrom(W, pieces) /\ pieces \in Seq(PartsOf(clips))
  <2>1. Sound(clips, pieces) /\ CutFrom(W, pieces)
    BY <1>2, BestFirst
  <2> QED BY <2>1 DEF Sound
<1> HIDE DEF pieces
<1>4. total \in Nat
  BY <1>3, TotalIsANumber
<1> HIDE DEF total
<1>5. count \in Nat
  <2>1. total \div Least \in Nat /\ MaxChoices \in Nat
    BY <1>4 DEF Least, MaxChoices
  <2>2. count = IF MaxChoices <= total \div Least THEN MaxChoices ELSE total \div Least
    <3>1. total \div Least \in Int /\ MaxChoices \in Int
      BY <2>1
    <3> QED BY <3>1, OfTwo
  <2> QED BY <2>1, <2>2
<1> HIDE DEF count
<1>6. CASE count = 0
  BY <1>1, <1>6
<1>7. CASE count # 0
  <2>1. start.target \in Int
    <3>1. total \div count \in Int /\ Target \in Int
      BY <1>4, <1>5, <1>7 DEF Target
    <3>2. Min({Target, total \div count}) = IF Target <= total \div count THEN Target ELSE total \div count
      BY <3>1, OfTwo
    <3> QED BY <3>1, <3>2
  <2>2. start \in Harvests(clips, W)
    <3>1. start \in [pool : Seq(PartsOf(clips)), target : Int, over : BOOLEAN,
                     made : Seq(Seq(PartsOf(clips)))]
      BY <1>3, <2>1
    <3>2. start.pool = pieces /\ DOMAIN start.made = {}
      OBVIOUS
    <3> HIDE DEF start
    <3> QED BY <1>3, <3>1, <3>2 DEF Harvests, CutFrom
  <2> HIDE DEF start
  <2>3. rounds \in Seq(Nat)
    BY <1>5
  <2> HIDE DEF rounds
  <2>4. FoldLeft(Gather, start, rounds) = Gathering!FoldLeft(Gather, start, rounds)
    BY Zenon DEF FoldLeft, Gathering!FoldLeft, MapThenFoldSet, Gathering!MapThenFoldSet,
                 Max, Gathering!Max
  <2>5. \A d \in Harvests(clips, W), n \in Nat : Gather(d, n) \in Harvests(clips, W)
    BY GatherKeeps
  <2>6. Gathering!FoldLeft(Gather, start, rounds) \in Harvests(clips, W)
    BY <2>2, <2>3, <2>5, Gathering!FoldKeeps, Zenon
  <2>7. /\ made \in Seq(Seq(PartsOf(clips)))
        /\ \A m \in DOMAIN made : Sound(clips, made[m]) /\ CutFrom(W, made[m]) /\ made[m] # <<>>
    BY <2>4, <2>6 DEF Harvests
  <2> HIDE DEF made
  <2>8. ASSUME NEW i \in DOMAIN made
        PROVE  Candidate(clips, "pooled", made[i], Percent(i)) \in CandidatesIn(clips, W)
    <3>1. Percent(i) \in Int /\ "pooled" \in {"turn", "pooled", "window"}
      OBVIOUS
    <3> HIDE DEF Percent
    <3> QED BY <2>7, <3>1, CandidateIsOne
  <2>9. DOMAIN made = 1..Len(made) /\ Len(made) \in Nat
    BY <2>7
  <2> HIDE DEF Percent
  <2>10. pooled \in Seq(CandidatesIn(clips, W))
    BY <2>8, <2>9
  <2> QED BY <1>1, <1>7, <2>10
<1> QED BY <1>6, <1>7

-----------------------------------------------------------------------------
(* The ranking. *)

\* At most four candidates, none of which is half of another.
Rankings(clips, W) ==
  {chosen \in Seq(CandidatesIn(clips, W)) :
     /\ Len(chosen) <= MaxChoices
     /\ \A i, k \in DOMAIN chosen : i # k => Differ(chosen[i], chosen[k])}

\* That two candidates differ does not depend on which is looked at first.
LEMMA DifferIsMutual ==
  ASSUME NEW clips, NEW W, NEW x \in CandidatesIn(clips, W), NEW y \in CandidatesIn(clips, W)
  PROVE  Differ(x, y) => Differ(y, x)
<1>1. x.parts \in Seq(PartsOf(clips)) /\ y.parts \in Seq(PartsOf(clips))
  BY DEF CandidatesIn
<1>2. Overlap(x, y) = Overlap(y, x)
  BY <1>1, OverlapIsMutual
<1>3. {Lasting(x), Lasting(y)} = {Lasting(y), Lasting(x)}
  OBVIOUS
<1> QED BY <1>2, <1>3 DEF Differ

\* A ranking stays one, whichever candidate asks to be admitted.
LEMMA AdmitKeeps ==
  ASSUME NEW clips, NEW W, NEW chosen \in Rankings(clips, W), NEW x \in CandidatesIn(clips, W)
  PROVE  Admit(chosen, x) \in Rankings(clips, W)
<1> DEFINE more == Append(chosen, x)
<1>1. /\ chosen \in Seq(CandidatesIn(clips, W)) /\ Len(chosen) <= MaxChoices
      /\ \A i, k \in DOMAIN chosen : i # k => Differ(chosen[i], chosen[k])
  BY DEF Rankings
<1>2. CASE Len(chosen) < MaxChoices /\ \A y \in ToSet(chosen) : Differ(x, y)
  <2>1. /\ more \in Seq(CandidatesIn(clips, W))
        /\ DOMAIN chosen = 1..Len(chosen) /\ Len(chosen) \in Nat
        /\ Len(more) = Len(chosen) + 1
        /\ \A i \in DOMAIN more : \/ i \in DOMAIN chosen /\ more[i] = chosen[i]
                                  \/ i = Len(chosen) + 1 /\ more[i] = x
    BY <1>1, OneMore
  <2> HIDE DEF more
  <2>2. \A i \in DOMAIN chosen : Differ(x, chosen[i]) /\ Differ(chosen[i], x)
    <3>1. \A i \in DOMAIN chosen : Differ(x, chosen[i]) /\ chosen[i] \in CandidatesIn(clips, W)
      BY <1>1, <1>2 DEF ToSet
    <3> QED BY <3>1, DifferIsMutual
  <2>3. \A i, k \in DOMAIN more : i # k => Differ(more[i], more[k])
    BY <1>1, <2>1, <2>2
  <2>4. Len(more) <= MaxChoices
    BY <1>2, <2>1 DEF MaxChoices
  <2>5. Admit(chosen, x) = more
    BY <1>2 DEF Admit, more
  <2> QED BY <2>1, <2>3, <2>4, <2>5 DEF Rankings
<1>3. CASE ~(Len(chosen) < MaxChoices /\ \A y \in ToSet(chosen) : Differ(x, y))
  BY <1>3 DEF Admit
<1> QED BY <1>2, <1>3

\* Whatever is uploaded and whatever turns are taken, the references are at most four, no
\* second counts twice in any, and none has more than half of another in it.
THEOREM ReferencesDiffer ==
  ASSUME NEW clips \in Seq(Clips), NEW W \in SUBSET PartsOf(clips), NEW turns,
         \A c \in DOMAIN clips : AreTurns(W, c, turns[c])
  PROVE  RankReferences(clips, turns) \in Rankings(clips, W)
<1> DEFINE all == AllCandidates(clips, turns)
           keys == [i \in DOMAIN all |-> all[i].score]
           candidates == Taken(all, Order(keys))
           bundles == Pooled(clips, turns)
           represented == FoldLeft(Represent, <<>>, candidates)
           pooled == FoldLeft(Admit, represented, bundles)
           Ones == CandidatesIn(clips, W)
           Those == Rankings(clips, W)
<1>1. RankReferences(clips, turns) = FoldLeft(Complete, pooled, candidates)
  BY DEF RankReferences, Descending
<1>2. all \in Seq(Ones) /\ bundles \in Seq(Ones)
  BY AllCandidatesIn, PooledIn
<1> HIDE DEF all, bundles
<1>3. candidates \in Seq(Ones)
  <2>1. \A x \in Ones : x.score \in Int
    BY DEF CandidatesIn
  <2> HIDE DEF Ones
  <2>2. keys \in [DOMAIN all -> Int]
    BY <1>2, <2>1
  <2> HIDE DEF keys
  <2> QED BY <1>2, <2>2, Sorting
<1> HIDE DEF candidates
<1>4. \A a \in Those, x \in Ones : /\ Represent(a, x) \in Those
                                   /\ Admit(a, x) \in Those /\ Complete(a, x) \in Those
  BY AdmitKeeps DEF Represent, Complete
<1>5. <<>> \in Those
  BY DEF Rankings, MaxChoices
<1> HIDE DEF Ones, Those
<1>6. represented \in Those
  <2>1. represented = Representing!FoldLeft(Represent, <<>>, candidates)
    BY Zenon DEF FoldLeft, Representing!FoldLeft, MapThenFoldSet, Representing!MapThenFoldSet,
                 Max, Representing!Max
  <2>2. Representing!FoldLeft(Represent, <<>>, candidates) \in Those
    BY <1>3, <1>4, <1>5, Representing!FoldKeeps, Zenon
  <2> QED BY <2>1, <2>2, Zenon
<1> HIDE DEF represented
<1>7. pooled \in Those
  <2>1. pooled = Admitting!FoldLeft(Admit, represented, bundles)
    BY Zenon DEF FoldLeft, Admitting!FoldLeft, MapThenFoldSet, Admitting!MapThenFoldSet,
                 Max, Admitting!Max
  <2>2. Admitting!FoldLeft(Admit, represented, bundles) \in Those
    BY <1>2, <1>4, <1>6, Admitting!FoldKeeps, Zenon
  <2> QED BY <2>1, <2>2, Zenon
<1> HIDE DEF pooled
<1>8. FoldLeft(Complete, pooled, candidates) \in Those
  <2>1. FoldLeft(Complete, pooled, candidates) = Completing!FoldLeft(Complete, pooled, candidates)
    BY Zenon DEF FoldLeft, Completing!FoldLeft, MapThenFoldSet, Completing!MapThenFoldSet,
                 Max, Completing!Max
  <2>2. Completing!FoldLeft(Complete, pooled, candidates) \in Those
    BY <1>3, <1>4, <1>7, Completing!FoldKeeps, Zenon
  <2> QED BY <2>1, <2>2, Zenon
<1> QED BY <1>1, <1>8 DEF Those

-----------------------------------------------------------------------------
(* What a run does, and what is on record of it. *)

\* The speakers a reading of some clips may put to the user.
Offered(clips, reading) ==
  LET analysis == Analysis(clips, reading)
  IN SpeakerChoices(clips, analysis, SpeakerClusters(analysis))

\* The references a run ranks, with the speaker on record, when it reads the clips like that.
RankedIn(outcome) ==
  LET analysis == IF outcome = Unavailable THEN outcome ELSE Analysis(scene, outcome)
  IN Ranked(Turns(analysis, Clusters(analysis)))

\* A question comes from the reading it is kept with. The speaker is asked for while nobody is
\* on record, and the reference on record is one of those that were auditioned with the
\* speaker on record.
AnswersInv ==
  /\ scene \in Scenes
  /\ state = "needs_speaker" =>
       /\ anchor = None /\ question.reading \in Readings
       /\ question.choices = Offered(scene, question.reading)
  /\ state = "needs_reference" => question.choices = RankedIn(question.reading)
  /\ reference # None => audition.choices = RankedIn(audition.reading)

\* How often a question can still be put: the speaker only before he is known, a reference
\* once before that and once after.
AskedInv ==
  /\ asked \in [{"needs_speaker", "needs_reference"} -> 0..2]
  /\ asked.needs_speaker <= 1
  /\ state = "needs_reference" => reference = None
  /\ anchor = None =>
       /\ state # "needs_speaker" => asked.needs_speaker = 0
       /\ asked.needs_reference <= 1
       /\ state = "queued" /\ reference = None => asked.needs_reference = 0
  /\ anchor # None /\ state = "queued" /\ reference = None => asked.needs_reference <= 1

\* What a run does: it asks for the speaker, for the reference, builds or fails.
LEMMA RunCases ==
  ASSUME NEW outcome \in Outcomes, Run(outcome)
  PROVE  /\ state = "queued" /\ UNCHANGED <<scene, history, anchor>>
         /\ \/ /\ outcome \in Readings /\ anchor = None
               /\ AskSpeaker(outcome, Offered(scene, outcome))
            \/ AskReference(outcome, RankedIn(outcome))
            \/ Build(outcome, RankedIn(outcome))
            \/ Fail(RankedIn(outcome))
<1>1. /\ state = "queued" /\ UNCHANGED <<scene, history, anchor>>
  BY DEF Run, AskSpeaker, Extract, AskReference, Build, Fail, answers
<1> DEFINE analysis == IF outcome = Unavailable THEN outcome ELSE Analysis(scene, outcome)
           clusters == Clusters(analysis)
           doubt == SpeakersInDoubt(analysis, clusters)
<1>2. \/ AskSpeaker(outcome, doubt)
      \/ Extract(outcome, Ranked(Turns(analysis, clusters)))
  BY DEF Run
<1>3. CASE Extract(outcome, Ranked(Turns(analysis, clusters)))
  BY <1>1, <1>3 DEF Extract, RankedIn
<1>4. CASE AskSpeaker(outcome, doubt)
  <2>1. Len(<<>>) = 0
    OBVIOUS
  <2>2. doubt # <<>>
    BY <1>4, <2>1 DEF AskSpeaker
  <2>3. anchor = None /\ Ambiguous(clusters) /\ doubt = SpeakerChoices(scene, analysis, clusters)
    BY <2>2 DEF SpeakersInDoubt
  <2>4. analysis # Unavailable /\ clusters = SpeakerClusters(analysis)
    BY <2>1, <2>3 DEF Ambiguous, Clusters
  <2>5. outcome \in Readings /\ doubt = Offered(scene, outcome)
    BY <2>3, <2>4 DEF Outcomes, Offered
  <2> QED
    BY <1>1, <1>4, <2>3, <2>5
<1> QED
  BY <1>2, <1>3, <1>4

\* The anchor of an offered preview is a moment of the clips.
LEMMA OfferedMoments ==
  ASSUME NEW clips \in Scenes, NEW reading \in Readings
  PROVE  \A ch \in ToSet(Offered(clips, reading)) : ch.anchor \in Moments
<1>1. clips \in Seq(Clips)
  BY SceneAssumption
<1>2. DOMAIN clips \subseteq Nat
  BY <1>1
<1>3. \A ch \in ToSet(Offered(clips, reading)) : ch.anchor \in [clip : DOMAIN clips, time : Nat]
  BY <1>1, EveryPreviewIsFound DEF Offered
<1> QED
  BY <1>2, <1>3 DEF Moments

-----------------------------------------------------------------------------
(* What the answers mean *)

\* It holds before anything is asked.
LEMMA AnswersInit == Init => AnswersInv
  BY DEF Init, AnswersInv

\* As long as nobody else is chosen, a reading gives the references it gave before.
LEMMA SameRanking ==
  ASSUME UNCHANGED <<scene, anchor>>, NEW outcome
  PROVE  RankedIn(outcome)' = RankedIn(outcome)
BY DEF RankedIn, Ranked, Turns

\* Whatever is read, asked or answered next.
LEMMA AnswersNext ==
  ASSUME AnswersInv, [Next]_vars
  PROVE  AnswersInv'
<1>1. CASE UNCHANGED vars
  <2>1. UNCHANGED <<scene, state, anchor, reference, question, audition>>
    BY <1>1 DEF vars, answers, history
  <2>2. \A outcome : RankedIn(outcome)' = RankedIn(outcome)
    BY <2>1, SameRanking
  <2> QED
    BY <2>1, <2>2 DEF AnswersInv
<1>2. ASSUME NEW outcome \in Outcomes, Run(outcome) PROVE AnswersInv'
  <2>1. state = "queued" /\ UNCHANGED <<scene, anchor, audition>>
    BY <1>2, RunCases DEF history
  <2>2. \A o : RankedIn(o)' = RankedIn(o)
    BY <2>1, SameRanking
  <2>3. CASE outcome \in Readings /\ anchor = None /\ AskSpeaker(outcome, Offered(scene, outcome))
    BY <2>1, <2>3 DEF AnswersInv, AskSpeaker, Ask
  <2>4. CASE AskReference(outcome, RankedIn(outcome))
    BY <2>1, <2>2, <2>4 DEF AnswersInv, AskReference, Ask, answers
  <2>5. CASE Build(outcome, RankedIn(outcome)) \/ Fail(RankedIn(outcome))
    BY <2>1, <2>2, <2>5 DEF AnswersInv, Build, Fail, answers
  <2> QED
    BY <1>2, RunCases, <2>3, <2>4, <2>5
<1>3. ASSUME NEW i \in 1..MaxChoices, ChooseSpeaker(i) PROVE AnswersInv'
  BY <1>3 DEF AnswersInv, ChooseSpeaker
<1>4. ASSUME NEW i \in 1..MaxChoices, ChooseReference(i) PROVE AnswersInv'
  <2>1. UNCHANGED <<scene, anchor>> /\ audition' = question /\ state' = "queued"
    BY <1>4 DEF ChooseReference
  <2>2. question.choices = RankedIn(question.reading)
    BY <1>4 DEF AnswersInv, ChooseReference
  <2> QED
    BY <2>1, <2>2, SameRanking DEF AnswersInv
<1> QED
  BY <1>1, <1>2, <1>3, <1>4 DEF Next

\* A voice that was built keeps the reading, the speaker and the reference it was built with.
LEMMA AuditionNext ==
  ASSUME AnswersInv, package # None => state = "succeeded", ReferenceAsAuditioned, [Next]_vars
  PROVE  ReferenceAsAuditioned' /\ (package' # None => state' = "succeeded")
<1>1. CASE UNCHANGED vars
  BY <1>1 DEF vars, answers, history, ReferenceAsAuditioned
<1>2. ASSUME NEW outcome \in Outcomes, Run(outcome)
      PROVE  ReferenceAsAuditioned' /\ (package' # None => state' = "succeeded")
  <2>1. state = "queued" /\ audition' = audition /\ package = None
    BY <1>2, RunCases DEF history
  <2>2. CASE Build(outcome, RankedIn(outcome))
    <3>1. /\ reference' = reference /\ state' = "succeeded"
          /\ package'.reading = outcome
          /\ package'.primary = RankedIn(outcome)[Selected(reference, RankedIn(outcome))]
          /\ package'.backups = RemoveAt(RankedIn(outcome), Selected(reference, RankedIn(outcome)))
      BY <2>2 DEF Build, answers
    <3>2. reference # None => Selected(reference, RankedIn(outcome)) = reference
      BY DEF Selected
    <3>3. reference # None => audition.choices = RankedIn(audition.reading)
      BY DEF AnswersInv
    <3> QED
      BY <2>1, <3>1, <3>2, <3>3 DEF ReferenceAsAuditioned
  <2>3. CASE package' = package
    BY <2>1, <2>3 DEF ReferenceAsAuditioned
  <2> QED
    BY <1>2, RunCases, <2>2, <2>3 DEF AskSpeaker, AskReference, Fail
<1>3. ASSUME NEW i \in 1..MaxChoices, ChooseSpeaker(i) \/ ChooseReference(i)
      PROVE  ReferenceAsAuditioned' /\ (package' # None => state' = "succeeded")
  <2>1. package = None /\ package' = package
    BY <1>3 DEF ChooseSpeaker, ChooseReference
  <2> QED
    BY <2>1 DEF ReferenceAsAuditioned
<1> QED
  BY <1>1, <1>2, <1>3 DEF Next

\* The reference that is built is the one that was listened to, and the others follow it in
\* their order, whenever the clips are read as they were for the audition: neither the
\* answers nor the way back through the queue change which reference a number means.
THEOREM AuditionedReferenceIsBuilt == Spec => []ReferenceAsAuditioned
<1> DEFINE Done == package # None => state = "succeeded"
<1>1. Init => ReferenceAsAuditioned /\ Done
  BY DEF Init, ReferenceAsAuditioned
<1>2. AnswersInv /\ [Next]_vars => AnswersInv'
  BY AnswersNext
<1>3. AnswersInv /\ Done /\ ReferenceAsAuditioned /\ [Next]_vars => (ReferenceAsAuditioned /\ Done)'
  BY AuditionNext
<1> HIDE DEF Done
<1> QED
  BY <1>1, <1>2, <1>3, AnswersInit, PTL DEF Spec

-----------------------------------------------------------------------------
(* The questions come to an end *)

\* Nothing has been asked yet.
LEMMA AskedInit == Init => AskedInv
  BY DEF Init, AskedInv

\* A question is put when the answer is missing, and not again when it is there.
LEMMA AskedNext ==
  ASSUME AnswersInv, AskedInv, [Next]_vars
  PROVE  AskedInv'
<1> DEFINE kinds == {"needs_speaker", "needs_reference"}
<1>1. CASE UNCHANGED vars
  BY <1>1 DEF AskedInv, vars, answers, history
<1>2. ASSUME NEW outcome \in Outcomes, Run(outcome) PROVE AskedInv'
  <2>1. state = "queued" /\ UNCHANGED anchor
    BY <1>2, RunCases
  <2>2. CASE anchor = None /\ AskSpeaker(outcome, Offered(scene, outcome))
    BY <2>1, <2>2 DEF AskedInv, AskSpeaker, Ask
  <2>3. CASE AskReference(outcome, RankedIn(outcome))
    BY <2>1, <2>3 DEF AskedInv, AskReference, Ask, answers
  <2>4. CASE Build(outcome, RankedIn(outcome)) \/ Fail(RankedIn(outcome))
    BY <2>1, <2>4 DEF AskedInv, Build, Fail, answers
  <2> QED
    BY <1>2, RunCases, <2>2, <2>3, <2>4
<1>3. ASSUME NEW i \in 1..MaxChoices, ChooseSpeaker(i) PROVE AskedInv'
  <2>1. /\ state = "needs_speaker" /\ i \in DOMAIN question.choices
        /\ anchor' = question.choices[i].anchor /\ UNCHANGED asked
    BY <1>3 DEF ChooseSpeaker
  <2>2. question.choices[i] \in ToSet(Offered(scene, question.reading))
    BY <2>1 DEF AnswersInv, ToSet
  <2>3. question.choices[i].anchor \in Moments
    BY <2>1, <2>2, OfferedMoments DEF AnswersInv
  <2>4. anchor = None /\ anchor' # None
    BY <2>1, <2>3, NoneAssumption DEF AnswersInv
  <2> QED
    BY <1>3, <2>1, <2>4 DEF AskedInv, ChooseSpeaker
<1>4. ASSUME NEW i \in 1..MaxChoices, ChooseReference(i) PROVE AskedInv'
  <2>1. reference' # None /\ state = "needs_reference" /\ state' = "queued"
    BY <1>4, NoneAssumption DEF ChooseReference
  <2>2. UNCHANGED <<anchor, asked>>
    BY <1>4 DEF ChooseReference
  <2> QED
    BY <2>1, <2>2 DEF AskedInv
<1> QED
  BY <1>1, <1>2, <1>3, <1>4 DEF Next

\* Whatever the analysis makes of the clips in each run, a user is asked for the speaker at most
\* once and for the reference at most twice: no answer on record is asked for again.
THEOREM QuestionsComeToAnEnd == Spec => []QuestionsEnd
<1>1. AnswersInv /\ [Next]_vars => AnswersInv'
  BY AnswersNext
<1>2. AnswersInv /\ AskedInv /\ [Next]_vars => AskedInv'
  BY AskedNext
<1>3. AskedInv => QuestionsEnd
  BY DEF AskedInv, QuestionsEnd
<1> QED
  BY <1>1, <1>2, <1>3, AnswersInit, AskedInit, PTL DEF Spec

-----------------------------------------------------------------------------
(* The way back from an answer to the speaker *)

\* A user who is asked for the speaker can choose any of them: whatever was uploaded and however
\* it is read, the same reading finds the very speaker he chose again.
THEOREM AnswersFindTheirSpeaker == Spec => []AnchorsFindTheirSpeaker
<1>1. AnswersInv /\ [Next]_vars => AnswersInv'
  BY AnswersNext
<1>2. AnswersInv => AnchorsFindTheirSpeaker
  <2>1. SUFFICES ASSUME AnswersInv, state = "needs_speaker"
                 PROVE  LET analysis == Analysis(scene, question.reading)
                            clusters == SpeakerClusters(analysis)
                        IN \A ch \in ToSet(question.choices) :
                             ClusterFromAnchor(analysis, clusters, ch.anchor) = {ch.choice}
    BY Zenon DEF AnchorsFindTheirSpeaker
  <2>2. /\ scene \in Seq(Clips) /\ question.reading \in Readings
        /\ question.choices = Offered(scene, question.reading)
    BY <2>1, SceneAssumption DEF AnswersInv
  <2> QED
    BY <2>2, EveryPreviewIsFound, Zenon DEF Offered
<1> QED
  BY <1>1, <1>2, AnswersInit, PTL DEF Spec

-----------------------------------------------------------------------------
(* What is offered and what is built. *)

\* The segments of a cluster in a clip are turns one after the other, whatever set holds the
\* stretches they are.
LEMMA SegmentsAreTurns ==
  ASSUME NEW clips \in Seq(Clips), NEW reading \in Readings, NEW cluster, NEW W,
         NEW c \in DOMAIN clips,
         LET segments == SegmentsOf(clips[c], reading)
         IN \A j \in Spoken(segments, c, cluster) :
              Part(c, segments[j].start, Length(segments[j])) \in W
  PROVE  AreTurns(W, c, SegmentsForCluster(Analysis(clips, reading), cluster)[c])
<1> DEFINE segments == SegmentsOf(clips[c], reading)
           I == Spoken(segments, c, cluster)
           All == {Part(c, segments[j].start, Length(segments[j])) : j \in DOMAIN segments}
<1>1. SegmentsForCluster(Analysis(clips, reading), cluster)[c] = Taken(segments, Places(I))
  BY DEF SegmentsForCluster, Analysis, Select, Spoken
<1>2. clips[c] \in Clips
  OBVIOUS
<1>3. /\ \A s \in ToSet(segments) : s.start \in Nat /\ s.end \in Nat /\ s.start < s.end
      /\ \E S : segments \in Seq(S)
      /\ \A m, n \in DOMAIN segments : m < n => segments[m].end <= segments[n].start
  BY <1>2, SegmentsApart
<1>4. I \in SUBSET DOMAIN segments
  BY DEF Spoken
<1>5. \A j \in I : Part(c, segments[j].start, Length(segments[j])) \in W
  OBVIOUS
<1> HIDE DEF I, segments
<1>6. AreTurns(All, c, segments)
  BY <1>3 DEF AreTurns, ToSet
<1>7. /\ AreTurns(All, c, Taken(segments, Places(I)))
      /\ \A n \in DOMAIN Taken(segments, Places(I)) : \E i \in I :
           Taken(segments, Places(I))[n] = segments[i]
  BY <1>4, <1>6, SomeTurns
<1>8. AreTurns(W, c, Taken(segments, Places(I)))
  <2> DEFINE t == Taken(segments, Places(I))
  <2>1. \A n \in DOMAIN t : Part(c, t[n].start, Length(t[n])) \in W
    BY <1>5, <1>7
  <2> HIDE DEF t, All
  <2> QED BY <1>7, <2>1 DEF AreTurns, t
<1> QED BY <1>1, <1>8

\* They are stretches of the clips.
LEMMA SegmentsAreParts ==
  ASSUME NEW clips \in Seq(Clips), NEW reading \in Readings, NEW c \in DOMAIN clips,
         NEW j \in DOMAIN SegmentsOf(clips[c], reading)
  PROVE  LET s == SegmentsOf(clips[c], reading)[j]
         IN Part(c, s.start, Length(s)) \in PartsOf(clips)
<1> DEFINE segments == SegmentsOf(clips[c], reading)
<1>1. clips[c] \in Clips
  OBVIOUS
<1>2. \A s \in ToSet(segments) : s.start \in Nat /\ s.end \in Nat /\ s.start < s.end
  BY <1>1, SegmentsApart
<1> HIDE DEF segments
<1>3. segments[j].start \in Nat /\ segments[j].end \in Nat /\ segments[j].start < segments[j].end
  BY <1>2 DEF ToSet, segments
<1>4. Length(segments[j]) \in Nat
  BY <1>3 DEF Length
<1> QED BY <1>3, <1>4 DEF Part, PartsOf, segments

\* No candidates are a ranking.
LEMMA NothingRanked == \A clips, W : <<>> \in Rankings(clips, W)
BY DEF Rankings, MaxChoices

\* The turns a run takes its references from are those of a cluster of its reading, or none.
LEMMA TurnsOfARun ==
  ASSUME NEW outcome \in Outcomes
  PROVE  LET analysis == IF outcome = Unavailable THEN outcome ELSE Analysis(scene, outcome)
             clusters == Clusters(analysis)
             chosen == IF anchor # None THEN ClusterFromAnchor(analysis, clusters, anchor)
                       ELSE IF clusters = <<>> \/ Ambiguous(clusters) THEN {} ELSE {1}
             turns == Turns(analysis, clusters)
         IN \/ /\ outcome \in Readings /\ analysis = Analysis(scene, outcome)
               /\ clusters = SpeakerClusters(analysis) /\ chosen # {}
               /\ turns = SegmentsForCluster(analysis, clusters[Max(chosen)])
            \/ turns = [c \in DOMAIN scene |-> <<>>]
            \/ turns = None
<1> DEFINE analysis == IF outcome = Unavailable THEN outcome ELSE Analysis(scene, outcome)
           clusters == Clusters(analysis)
           chosen == IF anchor # None THEN ClusterFromAnchor(analysis, clusters, anchor)
                     ELSE IF clusters = <<>> \/ Ambiguous(clusters) THEN {} ELSE {1}
           turns == Turns(analysis, clusters)
<1>1. turns = IF chosen # {} THEN SegmentsForCluster(analysis, clusters[Max(chosen)])
              ELSE IF Fallback /\ (analysis = Unavailable \/ (clusters = <<>> /\ anchor = None))
                   THEN [c \in DOMAIN scene |-> <<>>]
                   ELSE None
  BY DEF Turns
<1>2. analysis = Unavailable => chosen = {}
  <2>1. SUFFICES ASSUME analysis = Unavailable PROVE chosen = {}
    OBVIOUS
  <2>2. clusters = <<>>
    BY <2>1 DEF Clusters
  <2>3. {i \in DOMAIN clusters : HasAnchor(analysis, clusters[i], anchor)} = {}
    <3>1. DOMAIN clusters = {}
      BY <2>2
    <3> HIDE DEF clusters
    <3> QED BY <3>1
  <2>4. Cardinality({}) = 0
    BY FS_EmptySet
  <2>5. ClusterFromAnchor(analysis, clusters, anchor) = {}
    BY <2>3, <2>4 DEF ClusterFromAnchor
  <2> QED BY <2>2, <2>5
<1>3. analysis # Unavailable =>
        /\ outcome \in Readings /\ analysis = Analysis(scene, outcome)
        /\ clusters = SpeakerClusters(analysis)
  BY DEF Outcomes, Clusters
<1> HIDE DEF chosen, clusters, analysis
<1>4. \/ /\ outcome \in Readings /\ analysis = Analysis(scene, outcome)
         /\ clusters = SpeakerClusters(analysis) /\ chosen # {}
         /\ turns = SegmentsForCluster(analysis, clusters[Max(chosen)])
      \/ turns = [c \in DOMAIN scene |-> <<>>]
      \/ turns = None
  BY <1>1, <1>2, <1>3
<1> QED BY <1>4 DEF chosen, clusters, analysis

\* What a run ranks.
LEMMA RankedIsARanking ==
  ASSUME scene \in Seq(Clips), NEW outcome \in Outcomes
  PROVE  RankedIn(outcome) \in Rankings(scene, PartsOf(scene))
<1> DEFINE analysis == IF outcome = Unavailable THEN outcome ELSE Analysis(scene, outcome)
           turns == Turns(analysis, Clusters(analysis))
           W == PartsOf(scene)
<1>1. RankedIn(outcome) = IF turns = None THEN <<>> ELSE RankReferences(scene, turns)
  BY DEF RankedIn, Ranked
<1>2. \/ outcome \in Readings /\ \E cluster :
           turns = SegmentsForCluster(Analysis(scene, outcome), cluster)
      \/ turns = [c \in DOMAIN scene |-> <<>>]
      \/ turns = None
  BY TurnsOfARun
<1> HIDE DEF turns
<1>3. CASE turns = None
  BY <1>1, <1>3, NothingRanked
<1>4. ASSUME \A c \in DOMAIN scene : AreTurns(W, c, turns[c])
      PROVE  RankedIn(outcome) \in Rankings(scene, W)
  <2>1. RankReferences(scene, turns) \in Rankings(scene, W)
    <3>1. W \in SUBSET PartsOf(scene)
      OBVIOUS
    <3> HIDE DEF W
    <3> QED BY <1>4, <3>1, ReferencesDiffer
  <2> QED BY <1>1, <2>1, NothingRanked
<1>5. CASE turns = [c \in DOMAIN scene |-> <<>>]
  <2>1. \A c \in DOMAIN scene : AreTurns(W, c, <<>>)
    <3>1. <<>> \in Seq({}) /\ DOMAIN <<>> = {}
      OBVIOUS
    <3> QED BY <3>1 DEF AreTurns
  <2> QED BY <1>4, <1>5, <2>1
<1>6. ASSUME outcome \in Readings, NEW cluster,
             turns = SegmentsForCluster(Analysis(scene, outcome), cluster)
      PROVE  RankedIn(outcome) \in Rankings(scene, W)
  <2>1. ASSUME NEW c \in DOMAIN scene PROVE AreTurns(W, c, turns[c])
    <3>1. \A j \in DOMAIN SegmentsOf(scene[c], outcome) :
            Part(c, SegmentsOf(scene[c], outcome)[j].start,
                 Length(SegmentsOf(scene[c], outcome)[j])) \in W
      BY <1>6, SegmentsAreParts
    <3>2. Spoken(SegmentsOf(scene[c], outcome), c, cluster) \subseteq
            DOMAIN SegmentsOf(scene[c], outcome)
      BY DEF Spoken
    <3> HIDE DEF W
    <3> QED BY <1>6, <3>1, <3>2, SegmentsAreTurns
  <2> QED BY <1>4, <2>1
<1> QED BY <1>2, <1>3, <1>5, <1>6

\* What is left without one of them.
LEMMA RemovedOne ==
  ASSUME NEW S, NEW s \in Seq(S), NEW i \in DOMAIN s
  PROVE  /\ RemoveAt(s, i) \in Seq(S) /\ Len(RemoveAt(s, i)) = Len(s) - 1
         /\ DOMAIN RemoveAt(s, i) = 1..(Len(s) - 1)
         /\ \A k \in DOMAIN RemoveAt(s, i) :
              RemoveAt(s, i)[k] = IF k < i THEN s[k] ELSE s[k + 1]
<1> DEFINE before == SubSeq(s, 1, i - 1)
           after == SubSeq(s, i + 1, Len(s))
<1>1. Len(s) \in Nat /\ i \in 1..Len(s)
  OBVIOUS
<1>2. /\ before \in Seq(S) /\ Len(before) = i - 1
      /\ \A k \in 1..(i - 1) : before[k] = s[k]
  BY <1>1
<1>3. /\ after \in Seq(S) /\ Len(after) = Len(s) - i
      /\ \A k \in 1..(Len(s) - i) : after[k] = s[i + k]
  BY <1>1
<1>4. RemoveAt(s, i) = before \o after
  BY DEF RemoveAt
<1> HIDE DEF before, after
<1>5. before \o after \in Seq(S) /\ Len(before \o after) = Len(s) - 1
  BY <1>1, <1>2, <1>3
<1>6. DOMAIN (before \o after) = 1..(Len(s) - 1)
  BY <1>5
<1>7. ASSUME NEW k \in 1..(Len(s) - 1)
      PROVE  (before \o after)[k] = IF k < i THEN s[k] ELSE s[k + 1]
  <2>1. (before \o after)[k] = IF k <= Len(before) THEN before[k] ELSE after[k - Len(before)]
    BY <1>1, <1>2, <1>3
  <2>2. CASE k < i
    <3>1. k <= Len(before) /\ k \in 1..(i - 1)
      BY <1>1, <1>2, <2>2
    <3> QED BY <1>2, <2>1, <2>2, <3>1
  <2>3. CASE ~(k < i)
    <3>1. ~(k <= Len(before)) /\ k - Len(before) = k - (i - 1) /\ k - (i - 1) \in 1..(Len(s) - i)
      BY <1>1, <1>2, <2>3
    <3>2. after[k - (i - 1)] = s[i + (k - (i - 1))] /\ i + (k - (i - 1)) = k + 1
      BY <1>1, <1>3, <3>1
    <3> QED BY <2>1, <2>3, <3>1, <3>2
  <2> QED BY <2>2, <2>3
<1> QED BY <1>4, <1>5, <1>6, <1>7

\* What is offered, or built, is a ranking: of a voice the chosen one comes first.
OfferInv ==
  /\ TypeOK
  /\ state = "needs_reference" => question.choices \in Rankings(scene, PartsOf(scene))
  /\ package # None =>
       \E ranked \in Rankings(scene, PartsOf(scene)) : \E i \in DOMAIN ranked :
         package.primary = ranked[i] /\ package.backups = RemoveAt(ranked, i)

\* What is ranked is what a package may hold.
LEMMA CandidatesAreCandidates ==
  ASSUME NEW clips \in Seq(Clips), NEW W
  PROVE  CandidatesIn(clips, W) \subseteq Candidates
<1>1. DOMAIN clips \subseteq Nat
  OBVIOUS
<1>2. PartsOf(clips) \subseteq [clip : Nat, start : Nat, length : Nat]
  BY <1>1 DEF PartsOf
<1>3. Seq(PartsOf(clips)) \subseteq Seq([clip : Nat, start : Nat, length : Nat])
  <2>1. ASSUME NEW A, NEW B, A \subseteq B, NEW s \in Seq(A) PROVE s \in Seq(B)
    <3>1. Len(s) \in Nat /\ s = [n \in 1..Len(s) |-> s[n]] /\ \A n \in 1..Len(s) : s[n] \in B
      BY <2>1
    <3> QED BY <3>1
  <2> QED BY <1>2, <2>1
<1> QED BY <1>3 DEF CandidatesIn, Candidates

\* Whoever is heard in a preview of a clip is somebody.
LEMMA HeardAreVoices ==
  ASSUME scene \in Seq(Clips), NEW choice, choice.anchor.clip \in DOMAIN scene
  PROVE  PreviewVoices(choice) \subseteq Voices
<1>1. scene[choice.anchor.clip] \in Clips
  OBVIOUS
<1>2. \A clip \in Clips : \A start, end : VoicesIn(clip, start, end) \subseteq Voices
  <2>1. ASSUME NEW clip \in Clips, NEW turn \in ToSet(clip.turns) PROVE turn.voice \in Voices
    <3>1. clip.turns \in Seq(Utterances)
      BY DEF Clips
    <3>2. turn \in Utterances
      BY <3>1 DEF ToSet
    <3> QED BY <3>2 DEF Utterances
  <2> QED BY <2>1 DEF VoicesIn, TurnsIn
<1> HIDE DEF Clips
<1> QED BY <1>1, <1>2 DEF PreviewVoices

\* Nothing is offered yet.
LEMMA OfferInit == Init => OfferInv
<1>1. <<>> \in Seq(Candidates) /\ Len(<<>>) = 0
  OBVIOUS
<1> QED BY <1>1 DEF Init, OfferInv, TypeOK, NoQuestion

\* A question that is put.
LEMMA QuestionPut ==
  ASSUME NEW reading, NEW choices, Len(choices) > 1
  PROVE  [reading |-> reading, choices |-> choices] # NoQuestion
<1>1. Len(<<>>) = 0
  OBVIOUS
<1>2. choices # <<>>
  BY <1>1
<1> QED BY <1>2 DEF NoQuestion

\* A question or a package comes from what the run ranked, and stays as it is until it is answered.
LEMMA OfferNext ==
  ASSUME AnswersInv, OfferInv, [Next]_vars
  PROVE  OfferInv'
<1> USE DEF answers, history
<1>0. scene \in Scenes /\ scene \in Seq(Clips) /\ TypeOK
  BY SceneAssumption DEF AnswersInv, OfferInv
<1>1. CASE UNCHANGED vars
  BY <1>1 DEF OfferInv, TypeOK, vars
<1>2. ASSUME NEW outcome \in Outcomes, Run(outcome) PROVE OfferInv'
  <2> DEFINE ranked == RankedIn(outcome)
  <2>1. /\ state = "queued" /\ UNCHANGED <<scene, heard, audition, anchor>>
        /\ package = None /\ question = NoQuestion
    BY <1>0, <1>2, RunCases DEF TypeOK
  <2>2. /\ ranked \in Rankings(scene, PartsOf(scene))
        /\ ranked \in Seq(CandidatesIn(scene, PartsOf(scene))) /\ Len(ranked) <= MaxChoices
    BY <1>0, RankedIsARanking DEF Rankings
  <2>3. ranked \in Seq(Candidates)
    BY <1>0, <2>2, CandidatesAreCandidates
  <2> HIDE DEF ranked
  <2>4. CASE outcome \in Readings /\ anchor = None /\ AskSpeaker(outcome, Offered(scene, outcome))
    <3> DEFINE choices == Offered(scene, outcome)
    <3>1. Len(choices) \in 0..4
      <4>1. SpeakerClusters(Analysis(scene, outcome)) \in Seq(SUBSET AllKnown(scene, outcome))
        BY <1>0, <2>4, ClustersApart DEF AreClusters
      <4> QED BY <4>1, OfferedPreviews DEF Offered
    <3> HIDE DEF choices
    <3>2. /\ Len(choices) > 1 /\ state' = "needs_speaker"
          /\ question' = [reading |-> outcome, choices |-> choices]
          /\ reference' = None /\ UNCHANGED <<anchor, package>>
      BY <2>4 DEF AskSpeaker, Ask, choices
    <3>3. question' # NoQuestion /\ question'.choices = choices /\ Len(choices) \in 2..MaxChoices
      <4>1. question' # NoQuestion
        BY <3>2, QuestionPut
      <4>2. question'.choices = choices
        BY <3>2
      <4>3. Len(choices) > 1
        BY <3>2
      <4>4. Len(choices) \in 2..MaxChoices
        BY ONLY <3>1, <4>3 DEF MaxChoices
      <4> QED BY <4>1, <4>2, <4>4
    <3>4. TypeOK'
      BY <1>0, <2>1, <3>2, <3>3 DEF TypeOK
    <3> QED BY <2>1, <3>2, <3>4 DEF OfferInv
  <2>5. CASE AskReference(outcome, ranked)
    <3>1. /\ Len(ranked) > 1 /\ state' = "needs_reference"
          /\ question' = [reading |-> outcome, choices |-> ranked]
          /\ UNCHANGED <<anchor, reference, package>>
      BY <2>5 DEF AskReference, Ask
    <3>2. question' # NoQuestion /\ question'.choices = ranked /\ Len(ranked) \in 2..MaxChoices
      <4>1. question' # NoQuestion
        BY <3>1, QuestionPut
      <4>2. question'.choices = ranked
        BY <3>1
      <4>3. Len(ranked) \in Nat /\ Len(ranked) <= MaxChoices /\ Len(ranked) > 1
        BY <2>2, <3>1
      <4>4. Len(ranked) \in 2..MaxChoices
        <5>1. \A n \in Nat : n <= MaxChoices /\ n > 1 => n \in 2..MaxChoices
          BY DEF MaxChoices
        <5> QED BY <4>3, <5>1, Zenon
      <4> QED BY <4>1, <4>2, <4>4
    <3>3. TypeOK'
      BY <1>0, <2>1, <3>1, <3>2 DEF TypeOK
    <3> QED BY <2>1, <2>2, <3>1, <3>2, <3>3 DEF OfferInv
  <2>6. CASE Build(outcome, ranked)
    <3> DEFINE i == Selected(reference, ranked)
    <3>1. /\ i \in DOMAIN ranked /\ state' = "succeeded"
          /\ package' = [reading |-> outcome, primary |-> ranked[i], backups |-> RemoveAt(ranked, i)]
          /\ UNCHANGED <<anchor, reference, question>>
      BY <2>6 DEF Build
    <3> HIDE DEF i
    <3>2. /\ RemoveAt(ranked, i) \in Seq(Candidates) /\ Len(RemoveAt(ranked, i)) < MaxChoices
          /\ ranked[i] \in Candidates
      <4>1. Len(RemoveAt(ranked, i)) = Len(ranked) - 1 /\ RemoveAt(ranked, i) \in Seq(Candidates)
        BY <2>3, <3>1, RemovedOne
      <4> QED BY <2>2, <2>3, <3>1, <4>1 DEF MaxChoices
    <3>3. package' \in Packages /\ package'.backups = RemoveAt(ranked, i)
      BY <3>1, <3>2 DEF Packages
    <3>4. package' # None
      BY <3>3, NoneAssumption
    <3>5. TypeOK'
      BY <1>0, <2>1, <3>1, <3>2, <3>3, <3>4 DEF TypeOK
    <3>6. package'.primary = ranked[i]
      BY <3>1
    <3> QED BY <2>1, <2>2, <3>1, <3>3, <3>5, <3>6 DEF OfferInv
  <2>7. CASE Fail(ranked)
    <3>1. state' = "failed" /\ UNCHANGED <<anchor, reference, question, package>>
      BY <2>7 DEF Fail
    <3>2. TypeOK'
      BY <1>0, <2>1, <3>1 DEF TypeOK
    <3> QED BY <2>1, <3>1, <3>2 DEF OfferInv
  <2> QED
    BY <1>2, RunCases, <2>4, <2>5, <2>6, <2>7 DEF ranked
<1>3. ASSUME NEW i \in 1..MaxChoices, ChooseSpeaker(i) PROVE OfferInv'
  <2>1. /\ state = "needs_speaker" /\ i \in DOMAIN question.choices
        /\ anchor' = question.choices[i].anchor /\ reference' = None
        /\ heard' = PreviewVoices(question.choices[i])
        /\ state' = "queued" /\ question' = NoQuestion /\ UNCHANGED <<scene, package>>
    BY <1>3 DEF ChooseSpeaker
  <2>2. question.choices[i] \in ToSet(Offered(scene, question.reading))
        /\ question.reading \in Readings
    BY <2>1 DEF AnswersInv, ToSet
  <2>3. /\ question.choices[i].anchor \in Moments
        /\ question.choices[i].anchor.clip \in DOMAIN scene
    <3>1. question.choices[i].anchor \in Moments
      BY <1>0, <2>2, OfferedMoments
    <3>2. question.choices[i].anchor \in [clip : DOMAIN scene, time : Nat]
      BY <1>0, <2>2, EveryPreviewIsFound DEF Offered
    <3> QED BY <3>1, <3>2
  <2>4. heard' \subseteq Voices
    BY <1>0, <2>1, <2>3, HeardAreVoices
  <2>5. package = None
    BY <1>0, <2>1 DEF TypeOK
  <2>6. TypeOK'
    BY <1>0, <2>1, <2>3, <2>4, <2>5 DEF TypeOK
  <2> QED BY <2>1, <2>5, <2>6 DEF OfferInv
<1>4. ASSUME NEW i \in 1..MaxChoices, ChooseReference(i) PROVE OfferInv'
  <2>1. /\ state = "needs_reference" /\ reference' = i
        /\ state' = "queued" /\ question' = NoQuestion
        /\ UNCHANGED <<scene, anchor, package, heard>>
    BY <1>4 DEF ChooseReference
  <2>2. package = None
    BY <1>0, <2>1 DEF TypeOK
  <2>3. TypeOK'
    BY <1>0, <2>1, <2>2 DEF TypeOK
  <2> QED BY <2>1, <2>2, <2>3 DEF OfferInv
<1> QED
  BY <1>1, <1>2, <1>3, <1>4 DEF Next

\* Every voice that is built comes from a ranking.
LEMMA OffersAreRankings == Spec => []OfferInv
<1>1. AnswersInv /\ [Next]_vars => AnswersInv'
  BY AnswersNext
<1>2. AnswersInv /\ OfferInv /\ [Next]_vars => OfferInv'
  BY OfferNext
<1> QED
  BY <1>1, <1>2, AnswersInit, OfferInit, PTL DEF Spec

\* Whatever is uploaded and however it is read, a question has two to four choices, and what
\* is built is a candidate with at most three backups.
THEOREM TypesAreKept == Spec => []TypeOK
<1>1. OfferInv => TypeOK
  BY DEF OfferInv
<1> QED BY <1>1, OffersAreRankings, PTL

\* A ranking, and one whose order was changed.
LEMMA RankedDiffer ==
  ASSUME NEW clips, NEW W, NEW ranked \in Rankings(clips, W)
  PROVE  /\ \A i, k \in DOMAIN ranked : i # k =>
              2 * Overlap(ranked[i], ranked[k]) <= Lasting(ranked[i])
         /\ \A i \in DOMAIN ranked : Overlap(ranked[i], ranked[i]) = Lasting(ranked[i])
<1>1. /\ \A i \in DOMAIN ranked : ranked[i] \in CandidatesIn(clips, W)
      /\ \A i, k \in DOMAIN ranked : i # k => Differ(ranked[i], ranked[k])
  BY DEF Rankings
<1>2. ASSUME NEW i \in DOMAIN ranked
      PROVE  /\ Sound(clips, ranked[i].parts) /\ ranked[i].parts \in Seq(PartsOf(clips))
             /\ Lasting(ranked[i]) \in Int
  <2>1. Sound(clips, ranked[i].parts) /\ ranked[i].parts \in Seq(PartsOf(clips))
    BY <1>1 DEF CandidatesIn
  <2> QED BY <2>1, TotalIsANumber DEF Lasting
<1>3. ASSUME NEW i \in DOMAIN ranked, NEW k \in DOMAIN ranked, i # k
      PROVE  2 * Overlap(ranked[i], ranked[k]) <= Lasting(ranked[i])
  <2>1. Overlap(ranked[i], ranked[k]) \in Int
    BY <1>2, OverlapIsMutual
  <2>2. 2 * Overlap(ranked[i], ranked[k]) <= Min({Lasting(ranked[i]), Lasting(ranked[k])})
    BY <1>1, <1>3 DEF Differ
  <2>3. Min({Lasting(ranked[i]), Lasting(ranked[k])}) =
          IF Lasting(ranked[i]) <= Lasting(ranked[k]) THEN Lasting(ranked[i]) ELSE Lasting(ranked[k])
    BY <1>2, OfTwo
  <2> QED BY <1>2, <2>1, <2>2, <2>3
<1>4. \A i \in DOMAIN ranked : Overlap(ranked[i], ranked[i]) = Lasting(ranked[i])
  BY <1>2, NothingTwice
<1> QED BY <1>3, <1>4

\* The references a user can choose among, and those a voice is built from, repeat no second
\* in themselves and not half of themselves in another, whatever was uploaded.
THEOREM OfferedReferencesDiffer == Spec => []CandidatesDiffer
<1>1. ASSUME OfferInv PROVE CandidatesDiffer
  <2> DEFINE offered == IF state = "needs_reference" THEN question.choices
                        ELSE IF package # None THEN <<package.primary>> \o package.backups
                        ELSE <<>>
             Different == /\ \A i, k \in DOMAIN offered : i # k =>
                               2 * Overlap(offered[i], offered[k]) <= Lasting(offered[i])
                          /\ \A i \in DOMAIN offered : Overlap(offered[i], offered[i]) = Lasting(offered[i])
  <2>1. ASSUME state = "needs_reference" PROVE Different
    <3>1. offered = question.choices /\ question.choices \in Rankings(scene, PartsOf(scene))
      BY <1>1, <2>1 DEF OfferInv
    <3> HIDE DEF offered
    <3> QED BY <3>1, RankedDiffer
  <2>2. ASSUME state # "needs_reference", package # None PROVE Different
    <3>0. PICK ranked \in Rankings(scene, PartsOf(scene)) : \E i \in DOMAIN ranked :
            package.primary = ranked[i] /\ package.backups = RemoveAt(ranked, i)
      BY <1>1, <2>2 DEF OfferInv
    <3>1. PICK i \in DOMAIN ranked :
            package.primary = ranked[i] /\ package.backups = RemoveAt(ranked, i)
      BY <3>0
    <3> DEFINE Ones == CandidatesIn(scene, PartsOf(scene))
               rest == RemoveAt(ranked, i)
               Place(n) == IF n = 1 THEN i ELSE IF n - 1 < i THEN n - 1 ELSE n
    <3>2. ranked \in Seq(Ones)
      BY DEF Rankings
    <3>3. offered = <<ranked[i]>> \o rest
      BY <2>2, <3>1
    <3> HIDE DEF Ones, offered
    <3>4. /\ rest \in Seq(Ones) /\ Len(rest) = Len(ranked) - 1 /\ DOMAIN rest = 1..(Len(ranked) - 1)
          /\ \A k \in DOMAIN rest : rest[k] = IF k < i THEN ranked[k] ELSE ranked[k + 1]
      BY <3>2, RemovedOne
    <3>5. ranked[i] \in Ones /\ i \in 1..Len(ranked) /\ Len(ranked) \in Nat /\ DOMAIN ranked = 1..Len(ranked)
      BY <3>2
    <3> HIDE DEF rest
    <3>6. DOMAIN offered = 1..Len(ranked)
      BY <3>3, <3>4, <3>5
    <3>7. ASSUME NEW n \in DOMAIN offered
          PROVE  Place(n) \in DOMAIN ranked /\ offered[n] = ranked[Place(n)]
      <4>1. CASE n = 1
        BY <3>3, <3>4, <3>5, <4>1
      <4>2. CASE n # 1
        <5>1. n \in 2..Len(ranked) /\ n - 1 \in 1..(Len(ranked) - 1)
          BY <3>5, <3>6, <4>2
        <5>2. offered[n] = rest[n - 1]
          BY <3>3, <3>4, <3>5, <5>1
        <5> QED BY <3>4, <3>5, <5>1, <5>2
      <4> QED BY <4>1, <4>2
    <3>8. \A n, m \in DOMAIN offered : n # m => Place(n) # Place(m)
      BY <3>5, <3>6
    <3> HIDE DEF Place
    <3> QED BY <3>7, <3>8, RankedDiffer
  <2>3. ASSUME state # "needs_reference", package = None PROVE Different
    <3>1. DOMAIN offered = {}
      BY <2>3
    <3> HIDE DEF offered
    <3> QED BY <3>1
  <2>4. Different
    BY <2>1, <2>2, <2>3
  <2>5. CandidatesDiffer <=>
          /\ \A i, k \in DOMAIN offered : i # k =>
               2 * Overlap(offered[i], offered[k]) <= Lasting(offered[i])
          /\ \A x \in ToSet(offered) : Overlap(x, x) = Lasting(x)
    BY Zenon DEF CandidatesDiffer
  <2> HIDE DEF offered
  <2>6. \A x \in ToSet(offered) : Overlap(x, x) = Lasting(x)
    BY <2>4 DEF ToSet
  <2> QED BY <2>4, <2>5, <2>6
<1> QED BY <1>1, OffersAreRankings, PTL

-----------------------------------------------------------------------------
(* Whose voice is built. *)

\* The stretches of the turns of v.
VoiceParts(clips, v) ==
  {p \in PartsOf(clips) : InTurnOf(clips[p.clip], v, p.start, p.start + p.length)}

\* In what is cut from the turns of v he is heard, and nobody else.
LEMMA CutFromOneVoice ==
  ASSUME NEW clips \in Seq(Clips), NEW v, NEW x \in CandidatesIn(clips, VoiceParts(clips, v)),
         x.kind # "window"
  PROVE  UNION {VoicesIn(clips[p.clip], p.start, p.start + p.length) : p \in ToSet(x.parts)} = {v}
<1>1. x.parts \in Seq(PartsOf(clips)) /\ x.parts # <<>> /\ CutFrom(VoiceParts(clips, v), x.parts)
  BY DEF CandidatesIn
<1>2. ASSUME NEW i \in DOMAIN x.parts
      PROVE  VoicesIn(clips[x.parts[i].clip], x.parts[i].start,
                      x.parts[i].start + x.parts[i].length) = {v}
  <2> DEFINE p == x.parts[i]
  <2>1. p \in PartsOf(clips) /\ p.length > 0
    BY <1>1 DEF CutFrom
  <2>2. PICK w \in VoiceParts(clips, v) : Within(p, w)
    BY <1>1 DEF CutFrom
  <2> HIDE DEF p
  <2>3. p.clip \in DOMAIN clips /\ p.start \in Nat /\ p.length \in Nat /\ clips[p.clip] \in Clips
    BY <2>1 DEF PartsOf
  <2>4. w \in PartsOf(clips) /\ InTurnOf(clips[w.clip], v, w.start, w.start + w.length)
    BY DEF VoiceParts
  <2>5. PICK turn \in ToSet(clips[p.clip].turns) :
          turn.voice = v /\ turn.start <= w.start /\ w.start + w.length <= turn.end
    BY <2>2, <2>4 DEF InTurnOf, Within
  <2>6. turn.start \in Nat /\ turn.end \in Nat
    <3>1. clips[p.clip].turns \in Seq(Utterances)
      BY <2>3 DEF Clips
    <3>2. turn \in Utterances
      BY <3>1 DEF ToSet
    <3> QED BY <3>2 DEF Utterances
  <2>7. w.start \in Nat /\ w.length \in Nat
    BY <2>4 DEF PartsOf
  <2>8. w.start <= p.start /\ p.start + p.length <= w.start + w.length
    BY <2>2 DEF Within
  <2>9. turn.start <= p.start /\ p.start + p.length <= turn.end
    BY <2>3, <2>5, <2>6, <2>7, <2>8
  <2>10. InTurnOf(clips[p.clip], v, p.start, p.start + p.length)
    BY <2>5, <2>9 DEF InTurnOf
  <2>11. p.start \in Int /\ p.start + p.length \in Int /\ p.start < p.start + p.length
    BY <2>1, <2>3
  <2>12. VoicesIn(clips[p.clip], p.start, p.start + p.length) = {v}
    BY <2>3, <2>10, <2>11, OneVoiceInATurn
  <2> QED BY <2>12 DEF p
<1>3. 1 \in DOMAIN x.parts
  BY <1>1
<1>4. \A p \in ToSet(x.parts) : VoicesIn(clips[p.clip], p.start, p.start + p.length) = {v}
  BY <1>2 DEF ToSet
<1>5. x.parts[1] \in ToSet(x.parts)
  BY <1>3 DEF ToSet
<1> QED BY <1>4, <1>5

\* The segments of a cluster of one person are stretches of his turns.
LEMMA SegmentsOfOne ==
  ASSUME NEW clips \in Seq(Clips), NEW reading \in Readings, NEW cluster,
         cluster \subseteq AllKnown(clips, reading),
         NEW v, IsOf(clips, reading, cluster, v), NEW c \in DOMAIN clips
  PROVE  AreTurns(VoiceParts(clips, v), c,
                  SegmentsForCluster(Analysis(clips, reading), cluster)[c])
<1> DEFINE segments == SegmentsOf(clips[c], reading)
           noticed == Noticed(clips[c], reading)
<1>1. clips[c] \in Clips
  OBVIOUS
<1>2. ASSUME NEW j \in Spoken(segments, c, cluster)
      PROVE  Part(c, segments[j].start, Length(segments[j])) \in VoiceParts(clips, v)
  <2> DEFINE s == segments[j]
             p == Part(c, s.start, Length(s))
  <2>1. j \in DOMAIN segments
    BY DEF Spoken
  <2>2. p \in PartsOf(clips)
    BY <2>1, SegmentsAreParts
  <2>3. /\ j \in DOMAIN noticed /\ noticed[j].voice = v
        /\ s.start = noticed[j].start + reading.late /\ s.end = noticed[j].end
    BY SpokenByOne
  <2>4. noticed[j] \in ToSet(clips[c].turns)
    BY <1>1, <2>3, NoticedWasSaid
  <2>5. noticed[j].start \in Nat /\ noticed[j].end \in Nat
    <3>1. clips[c].turns \in Seq(Utterances)
      BY <1>1 DEF Clips
    <3>2. noticed[j] \in Utterances
      BY <2>4, <3>1 DEF ToSet
    <3> QED BY <3>2 DEF Utterances
  <2> HIDE DEF s, noticed
  <2>6. reading.late \in {0, 2}
    BY DEF Readings
  <2>7. p.clip = c /\ p.start = s.start /\ p.length = s.end - s.start
    BY DEF Part, Length
  <2> HIDE DEF p
  <2>8. noticed[j].start <= p.start /\ p.start + p.length <= noticed[j].end
    BY <2>3, <2>5, <2>6, <2>7
  <2>9. InTurnOf(clips[p.clip], v, p.start, p.start + p.length)
    BY <2>3, <2>4, <2>7, <2>8 DEF InTurnOf
  <2>10. p \in VoiceParts(clips, v)
    BY <2>2, <2>9 DEF VoiceParts
  <2> QED BY <2>10 DEF p, s
<1> QED BY <1>2, SegmentsAreTurns

\* With an anchor deep in a turn of v, everything a run ranks is cut from turns of v, but for
\* windows: the cluster the anchor leads to is of nobody else.
LEMMA RankedOfHim ==
  ASSUME TimbresApart, scene \in Seq(Clips), NEW outcome \in Outcomes,
         anchor # None, NEW v, DeepIn(scene, anchor, v)
  PROVE  RankedIn(outcome) \in Rankings(scene, VoiceParts(scene, v))
<1> DEFINE analysis == IF outcome = Unavailable THEN outcome ELSE Analysis(scene, outcome)
           clusters == Clusters(analysis)
           turns == Turns(analysis, clusters)
           chosen == ClusterFromAnchor(analysis, clusters, anchor)
           W == VoiceParts(scene, v)
<1>1. RankedIn(outcome) = IF turns = None THEN <<>> ELSE RankReferences(scene, turns)
  BY DEF RankedIn, Ranked
<1>2. \/ /\ outcome \in Readings /\ analysis = Analysis(scene, outcome)
         /\ clusters = SpeakerClusters(analysis) /\ chosen # {}
         /\ turns = SegmentsForCluster(analysis, clusters[Max(chosen)])
      \/ turns = [c \in DOMAIN scene |-> <<>>]
      \/ turns = None
  BY TurnsOfARun
<1>3. chosen # {} => chosen = {j \in DOMAIN clusters : HasAnchor(analysis, clusters[j], anchor)}
  BY DEF ClusterFromAnchor
<1> HIDE DEF turns, chosen, clusters, analysis
<1>4. CASE turns = None
  BY <1>1, <1>4, NothingRanked
<1>5. ASSUME \A c \in DOMAIN scene : AreTurns(W, c, turns[c])
      PROVE  RankedIn(outcome) \in Rankings(scene, W)
  <2>1. RankReferences(scene, turns) \in Rankings(scene, W)
    <3>1. W \in SUBSET PartsOf(scene)
      BY DEF VoiceParts
    <3> HIDE DEF W
    <3> QED BY <1>5, <3>1, ReferencesDiffer
  <2> QED BY <1>1, <2>1, NothingRanked
<1>6. CASE turns = [c \in DOMAIN scene |-> <<>>]
  <2>1. \A c \in DOMAIN scene : AreTurns(W, c, <<>>)
    <3>1. <<>> \in Seq({}) /\ DOMAIN <<>> = {}
      OBVIOUS
    <3> QED BY <3>1 DEF AreTurns
  <2> QED BY <1>5, <1>6, <2>1
<1>7. ASSUME outcome \in Readings, analysis = Analysis(scene, outcome),
             clusters = SpeakerClusters(analysis), chosen # {},
             turns = SegmentsForCluster(analysis, clusters[Max(chosen)])
      PROVE  RankedIn(outcome) \in Rankings(scene, W)
  <2> DEFINE i == Max(chosen)
  <2>1. clusters \in PureClusters(scene, outcome)
    BY <1>7, ClustersArePure
  <2>2. DOMAIN clusters = 1..Len(clusters) /\ Len(clusters) \in Nat
    BY <2>1 DEF PureClusters
  <2>3. chosen = {j \in DOMAIN clusters : HasAnchor(analysis, clusters[j], anchor)}
    BY <1>3, <1>7
  <2>4. i \in chosen
    <3>1. IsFiniteSet(1..Len(clusters))
      BY <2>2, FS_Interval
    <3>2. IsFiniteSet(chosen) /\ chosen \subseteq Int
      BY <2>2, <2>3, <3>1, FS_Subset
    <3> QED BY <1>7, <3>2, FiniteBounds
  <2> HIDE DEF i
  <2>5. i \in DOMAIN clusters /\ HasAnchor(analysis, clusters[i], anchor)
    BY <2>3, <2>4
  <2>6. PICK w \in Voices : IsOf(scene, outcome, clusters[i], w)
    BY <2>1, <2>5 DEF PureClusters
  <2>7. clusters[i] \subseteq AllKnown(scene, outcome)
    BY <2>1, <2>5 DEF PureClusters
  <2>8. w = v
    BY <1>7, <2>5, <2>6, <2>7, AnchorFindsOnlyHim
  <2>9. \A c \in DOMAIN scene :
          AreTurns(W, c, SegmentsForCluster(Analysis(scene, outcome), clusters[i])[c])
    BY <1>7, <2>6, <2>7, <2>8, SegmentsOfOne
  <2>10. turns = SegmentsForCluster(Analysis(scene, outcome), clusters[i])
    BY <1>7 DEF i
  <2> QED BY <1>5, <2>9, <2>10
<1> QED BY <1>2, <1>4, <1>6, <1>7

\* With a speaker on record one voice was heard, the anchor is deep in a turn of it, and all
\* that is built, but for windows, is cut from its turns.
PickedInv ==
  anchor # None => \E v \in Voices :
    /\ heard = {v} /\ DeepIn(scene, anchor, v)
    /\ package # None => Material \subseteq CandidatesIn(scene, VoiceParts(scene, v))

\* Nobody is on record yet.
LEMMA PickedInit == Init => PickedInv
BY DEF Init, PickedInv

\* In an offered preview one voice is heard, and its anchor is deep in a turn of it.
LEMMA OfferedIsOne ==
  ASSUME TimbresApart, scene \in Seq(Clips), NEW reading \in Readings,
         NEW ch \in ToSet(Offered(scene, reading))
  PROVE  \E v \in Voices : PreviewVoices(ch) = {v} /\ DeepIn(scene, ch.anchor, v)
<1> DEFINE analysis == Analysis(scene, reading)
           clusters == SpeakerClusters(analysis)
           choices == SpeakerChoices(scene, analysis, clusters)
<1>1. /\ AreClusters(clusters, AllKnown(scene, reading))
      /\ clusters \in PureClusters(scene, reading)
  BY ClustersApart, ClustersArePure
<1>2. clusters \in Seq(SUBSET AllKnown(scene, reading))
  BY <1>1 DEF AreClusters
<1>3. ch \in ToSet(choices)
  BY DEF Offered
<1> HIDE DEF clusters
<1>4. \A n \in DOMAIN choices : \E i \in DOMAIN clusters :
        choices[n] = SpeakerChoice(analysis, clusters, i) /\ choices[n].parts # {}
  BY <1>2, OfferedPreviews
<1> HIDE DEF choices
<1>5. PICK i \in DOMAIN clusters : ch = SpeakerChoice(analysis, clusters, i) /\ ch.parts # {}
  BY <1>3, <1>4 DEF ToSet
<1>6. PICK v \in Voices :
        /\ DeepIn(scene, ch.anchor, v)
        /\ \A p \in ch.parts : VoicesIn(scene[ch.anchor.clip], p.start, p.end) = {v}
  BY <1>1, <1>5, PreviewIsOfOne
<1>7. PreviewVoices(ch) = {v}
  BY <1>5, <1>6 DEF PreviewVoices
<1> QED BY <1>6, <1>7

\* What is built with a speaker on record is built from his turns, and who is on record does
\* not change once a voice is built.
LEMMA PickedNext ==
  ASSUME TimbresApart, AnswersInv, OfferInv, PickedInv, [Next]_vars
  PROVE  PickedInv'
<1> USE DEF answers, history
<1>0. scene \in Seq(Clips) /\ TypeOK
  BY SceneAssumption DEF AnswersInv, OfferInv
<1>1. CASE UNCHANGED vars
  BY <1>1 DEF PickedInv, Material, vars
<1>2. ASSUME NEW outcome \in Outcomes, Run(outcome) PROVE PickedInv'
  <2> DEFINE ranked == RankedIn(outcome)
  <2>1. /\ UNCHANGED <<scene, heard, anchor>> /\ package = None
    BY <1>0, <1>2, RunCases DEF TypeOK
  <2>2. CASE package' = package
    BY <2>1, <2>2 DEF PickedInv
  <2>3. ASSUME Build(outcome, ranked), anchor # None PROVE PickedInv'
    <3>1. PICK v \in Voices : heard = {v} /\ DeepIn(scene, anchor, v)
      BY <2>3 DEF PickedInv
    <3> DEFINE Ones == CandidatesIn(scene, VoiceParts(scene, v))
               i == Selected(reference, ranked)
    <3>2. ranked \in Seq(Ones)
      BY <1>0, <2>3, <3>1, RankedOfHim DEF Rankings
    <3>3. /\ i \in DOMAIN ranked
          /\ package'.primary = ranked[i] /\ package'.backups = RemoveAt(ranked, i)
      BY <2>3 DEF Build
    <3> HIDE DEF i, ranked, Ones
    <3>4. RemoveAt(ranked, i) \in Seq(Ones)
      BY <3>2, <3>3, RemovedOne
    <3>5. Material' \subseteq Ones
      BY <3>2, <3>3, <3>4 DEF Material, ToSet
    <3> QED BY <2>1, <3>1, <3>5 DEF PickedInv, Ones
  <2>4. CASE anchor = None
    BY <2>1, <2>4 DEF PickedInv
  <2> QED
    BY <1>2, RunCases, <2>2, <2>3, <2>4 DEF AskSpeaker, AskReference, Fail
<1>3. ASSUME NEW i \in 1..MaxChoices, ChooseSpeaker(i) PROVE PickedInv'
  <2>1. /\ state = "needs_speaker" /\ i \in DOMAIN question.choices
        /\ anchor' = question.choices[i].anchor
        /\ heard' = PreviewVoices(question.choices[i]) /\ UNCHANGED <<scene, package>>
    BY <1>3 DEF ChooseSpeaker
  <2>2. question.choices[i] \in ToSet(Offered(scene, question.reading))
        /\ question.reading \in Readings
    BY <2>1 DEF AnswersInv, ToSet
  <2>3. PICK v \in Voices : /\ PreviewVoices(question.choices[i]) = {v}
                            /\ DeepIn(scene, question.choices[i].anchor, v)
    BY <1>0, <2>2, OfferedIsOne
  <2>4. package = None
    BY <1>0, <2>1 DEF TypeOK
  <2> QED BY <2>1, <2>3, <2>4 DEF PickedInv
<1>4. ASSUME NEW i \in 1..MaxChoices, ChooseReference(i) PROVE PickedInv'
  BY <1>4 DEF PickedInv, ChooseReference, Material
<1> QED
  BY <1>1, <1>2, <1>3, <1>4 DEF Next

\* If embeddings tell people apart, nothing but the voice that was heard when the speaker was
\* chosen gets into what is built from the clips he was found in: whatever was uploaded, and
\* however often and however differently it is read after the answer.
THEOREM OnlyThePickedSpeakerIsBuilt ==
  ASSUME TimbresApart
  PROVE  Spec => []PickedSpeakerIsBuilt
<1>1. AnswersInv /\ [Next]_vars => AnswersInv'
  BY AnswersNext
<1>2. AnswersInv /\ OfferInv /\ [Next]_vars => OfferInv'
  BY OfferNext
<1>3. AnswersInv /\ OfferInv /\ PickedInv /\ [Next]_vars => PickedInv'
  BY PickedNext
<1>4. ASSUME AnswersInv, PickedInv PROVE PickedSpeakerIsBuilt
  <2>1. SUFFICES ASSUME package # None, anchor # None, NEW x \in Material, x.kind # "window"
                 PROVE  Voiced(x) = heard
    BY DEF PickedSpeakerIsBuilt
  <2>2. PICK v \in Voices : heard = {v} /\ x \in CandidatesIn(scene, VoiceParts(scene, v))
    BY <1>4, <2>1 DEF PickedInv
  <2>3. scene \in Seq(Clips)
    BY <1>4, SceneAssumption DEF AnswersInv
  <2> QED BY <2>1, <2>2, <2>3, CutFromOneVoice DEF Voiced
<1> QED
  BY <1>1, <1>2, <1>3, <1>4, AnswersInit, OfferInit, PickedInit, PTL DEF Spec
=============================================================================
