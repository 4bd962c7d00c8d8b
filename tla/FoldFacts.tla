----------------------------- MODULE FoldFacts -----------------------------
(***************************************************************************)
(* Folding a sequence with an operator goes through the sequence from left *)
(* to right. The library says so by a function that calls itself on ever   *)
(* smaller sets of places; here it is shown that there is such a function, *)
(* and what it is worth at the places 1..k is named. What holds of a fold  *)
(* then follows by induction over k. The induction is over sets, so that   *)
(* no prover has to instantiate a predicate, and the operator is a         *)
(* constant of this module, which is instantiated for each that is folded. *)
(***************************************************************************)
EXTENDS Integers, FiniteSetsExt, SequencesExt, WellFoundedInduction,
        FiniteSetTheorems, TLAPS

CONSTANTS
  op(_, _),  \* what a sequence is folded with
  worth(_)   \* what is added up over a set

\* Induction, about a set.
LEMMA SetInduction ==
  ASSUME NEW T, 0 \in T, \A n \in Nat : n \in T => n + 1 \in T
  PROVE  Nat \subseteq T
<1> DEFINE Left == Nat \ T
           Less == {ss \in Nat \X Nat : ss[1] < ss[2]}
<1>1. IsWellFoundedOn(Less, Nat)
  BY NatLessThanWellFounded DEF OpToRel
<1>2. SUFFICES ASSUME Left # {} PROVE FALSE
  OBVIOUS
<1>3. PICK x \in Left : \A y \in Left : <<y, x>> \notin Less
  <2> HIDE DEF Less
  <2> QED BY <1>1, <1>2, WFMin, Zenon
<1>4. x \in Nat /\ x # 0 /\ x \notin T
  OBVIOUS
<1>5. x - 1 \in Nat /\ x - 1 \in Left
  <2>1. x - 1 \in Nat /\ (x - 1) + 1 = x
    BY <1>4
  <2> QED BY <2>1, <1>4
<1>6. <<x - 1, x>> \in Less
  BY <1>4, <1>5
<1> QED BY <1>3, <1>5, <1>6

\* Some of the first n numbers have a largest one.
LEMMA LastPlace ==
  ASSUME NEW n \in Nat, NEW s \in SUBSET (1..n), s # {}
  PROVE  Max(s) \in s /\ \A y \in s : Max(s) >= y
<1> DEFINE T == {m \in Nat : \A t \in SUBSET (1..m) : t # {} => \E x \in t : \A y \in t : x >= y}
<1>1. 0 \in T
  <2>1. 1..0 = {}
    OBVIOUS
  <2>2. \A t \in SUBSET (1..0) : t = {}
    BY <2>1
  <2> QED BY <2>2
<1>2. ASSUME NEW m \in Nat, m \in T PROVE m + 1 \in T
  <2>1. ASSUME NEW t \in SUBSET (1..(m + 1)), t # {} PROVE \E x \in t : \A y \in t : x >= y
    <3>1. CASE m + 1 \in t
      BY <3>1
    <3>2. CASE m + 1 \notin t
      <4>1. t \in SUBSET (1..m)
        BY <3>2
      <4> QED BY <4>1, <2>1, <1>2
    <3> QED BY <3>1, <3>2
  <2> QED BY <2>1
<1>3. n \in T
  <2> HIDE DEF T
  <2> QED BY <1>1, <1>2, SetInduction
<1>4. \E x \in s : \A y \in s : x >= y
  BY <1>3
<1> QED BY <1>4 DEF Max

\* The elements before the k-th place, folded, for every k up to the whole.
LEMMA FoldIsARun ==
  ASSUME NEW base, NEW S, NEW seq \in Seq(S)
  PROVE  \E acc : /\ acc[0] = base
                  /\ \A k \in 1..Len(seq) : acc[k] = op(acc[k - 1], seq[k])
                  /\ acc[Len(seq)] = FoldLeft(op, base, seq)
<1> DEFINE D == DOMAIN seq
           Step(g, s) == IF s = {} THEN base ELSE op(g[s \ {Max(s)}], seq[Max(s)])
           Fold(g) == [s \in SUBSET D |-> Step(g, s)]
           iter == CHOOSE g : g = Fold(g)
           T == {m \in Nat : \E g : \A s \in SUBSET (1..m) : g[s] = Step(g, s)}
<1>1. FoldLeft(op, base, seq) = iter[D]
  BY Zenon DEF FoldLeft, MapThenFoldSet
<1>2. 0 \in T
  <2>1. [s \in {{}} |-> base][{}] = base
    OBVIOUS
  <2>2. \A s \in SUBSET (1..0) : s = {}
    OBVIOUS
  <2> QED BY <2>1, <2>2
<1>3. ASSUME NEW m \in Nat, m \in T PROVE m + 1 \in T
  <2>1. PICK g : \A s \in SUBSET (1..m) : g[s] = Step(g, s)
    BY <1>3
  <2> DEFINE h == [s \in SUBSET (1..(m + 1)) |-> Step(g, s)]
  <2>2. \A s \in SUBSET (1..m) : h[s] = g[s]
    <3>1. SUBSET (1..m) \subseteq SUBSET (1..(m + 1))
      BY 1..m \subseteq 1..(m + 1)
    <3>2. \A s \in SUBSET (1..(m + 1)) : h[s] = Step(g, s)
      BY Zenon
    <3> HIDE DEF h, Step
    <3> QED BY <2>1, <3>1, <3>2
  <2>3. ASSUME NEW s \in SUBSET (1..(m + 1)), s # {}
        PROVE  s \ {Max(s)} \in SUBSET (1..m)
    <3>1. m + 1 \in Nat
      OBVIOUS
    <3>2. Max(s) \in s /\ \A y \in s : Max(s) >= y
      BY <2>3, <3>1, LastPlace, Zenon
    <3>3. PICK x \in s : x = Max(s) /\ \A y \in s : x >= y
      BY <3>2, Zenon
    <3>4. s \ {x} \in SUBSET (1..m)
      <4>1. s \subseteq 1..(m + 1) /\ x \in 1..(m + 1)
        OBVIOUS
      <4>2. ASSUME NEW y \in s \ {x} PROVE y \in 1..m
        <5>1. y \in Int /\ x \in Int /\ 1 <= y /\ x <= m + 1
          BY <4>1
        <5>2. y <= x /\ y # x
          BY <3>3, <5>1
        <5> QED BY <5>1, <5>2
      <4> QED BY <4>2
    <3> QED BY <3>3, <3>4, Zenon
  <2>4. ASSUME NEW s \in SUBSET (1..(m + 1)) PROVE h[s] = Step(h, s)
    <3>1. h[s] = Step(g, s)
      OBVIOUS
    <3>2. CASE s = {}
      BY <3>1, <3>2
    <3>3. CASE s # {}
      <4>1. h[s \ {Max(s)}] = g[s \ {Max(s)}]
        <5> HIDE DEF h
        <5> QED BY <2>2, <2>3, <3>3
      <4> QED BY <4>1, <3>1, <3>3, Zenon
    <3> QED BY <3>2, <3>3
  <2> HIDE DEF h, Step
  <2> QED BY <2>4
<1>4. Len(seq) \in T
  <2> HIDE DEF T
  <2> QED BY <1>2, <1>3, SetInduction
<1>5. D = 1..Len(seq)
  OBVIOUS
<1>6. \E g : g = Fold(g)
  <2>1. PICK g : \A s \in SUBSET D : g[s] = Step(g, s)
    BY <1>4, <1>5
  <2> DEFINE h == [s \in SUBSET D |-> g[s]]
  <2>2. ASSUME NEW s \in SUBSET D PROVE Step(h, s) = Step(g, s)
    <3>1. s \ {Max(s)} \in SUBSET D
      OBVIOUS
    <3>2. h[s \ {Max(s)}] = g[s \ {Max(s)}]
      BY <3>1
    <3> QED BY <3>2, Zenon
  <2>3. h = Fold(h)
    BY <2>1, <2>2
  <2> QED BY <2>3
<1>7. iter = Fold(iter)
  BY <1>6
<1> DEFINE acc == [k \in 0..Len(seq) |-> iter[1..k]]
<1>8. ASSUME NEW k \in 1..Len(seq) PROVE acc[k] = op(acc[k - 1], seq[k])
  <2>1. k \in Nat /\ k \in 1..k /\ 1..k # {} /\ 1..k \in SUBSET D
    <3>1. k \in Nat /\ 1 <= k /\ k <= Len(seq)
      OBVIOUS
    <3>2. 1..k \subseteq 1..Len(seq)
      BY <3>1
    <3> QED BY <3>1, <3>2, <1>5
  <2>2. Max(1..k) = k
    <3>1. Max(1..k) \in 1..k /\ \A y \in 1..k : Max(1..k) >= y
      BY <2>1, LastPlace, Zenon
    <3> QED BY <3>1, <2>1
  <2>3. (1..k) \ {k} = 1..(k - 1)
    OBVIOUS
  <2>4. iter[1..k] = Step(iter, 1..k)
    <3> HIDE DEF iter
    <3> QED BY <1>7, <2>1
  <2>5. Step(iter, 1..k) = op(iter[1..(k - 1)], seq[k])
    <3> HIDE DEF iter
    <3> QED BY <2>1, <2>2, <2>3, Zenon
  <2> HIDE DEF iter
  <2> QED BY <2>4, <2>5
<1>9. acc[0] = base
  <2>1. 1..0 = {} /\ {} \in SUBSET D
    OBVIOUS
  <2> HIDE DEF iter
  <2> QED BY <1>7, <2>1
<1>10. acc[Len(seq)] = iter[D]
  BY <1>5
<1> HIDE DEF acc, iter
<1> QED BY <1>1, <1>8, <1>9, <1>10

\* What op keeps, and holds of the base, holds of the whole.
LEMMA FoldKeeps ==
  ASSUME NEW I, NEW base \in I, NEW S, NEW seq \in Seq(S),
         \A a \in I, x \in S : op(a, x) \in I
  PROVE  FoldLeft(op, base, seq) \in I
<1>1. PICK acc : /\ acc[0] = base
                 /\ \A k \in 1..Len(seq) : acc[k] = op(acc[k - 1], seq[k])
                 /\ acc[Len(seq)] = FoldLeft(op, base, seq)
  BY FoldIsARun, Zenon
<1> DEFINE T == {k \in Nat : k <= Len(seq) => acc[k] \in I}
<1>2. 0 \in T
  BY <1>1
<1>3. ASSUME NEW k \in Nat, k \in T PROVE k + 1 \in T
  <2>1. SUFFICES ASSUME k + 1 <= Len(seq) PROVE acc[k + 1] \in I
    OBVIOUS
  <2>2. acc[k] \in I /\ k + 1 \in 1..Len(seq) /\ (k + 1) - 1 = k
    BY <1>3, <2>1
  <2>3. acc[k + 1] = op(acc[k], seq[k + 1]) /\ seq[k + 1] \in S
    BY <1>1, <2>2
  <2> QED BY <2>2, <2>3
<1>4. Nat \subseteq T
  <2> HIDE DEF T
  <2> QED BY <1>2, <1>3, SetInduction
<1>5. Len(seq) \in Nat
  OBVIOUS
<1> QED BY <1>1, <1>4, <1>5

-----------------------------------------------------------------------------
(* Sums over finite sets, whatever the order their elements are taken in. *)

SumOver(C) == MapThenSumSet(worth, C)
Some(s) == CHOOSE x \in s : TRUE

\* One step of the function that MapThenSumSet is defined by.
SumStep(g, s) == IF s = {} THEN 0 ELSE worth(Some(s)) + g[s \ {Some(s)}]

LEMMA SumIsARun ==
  ASSUME NEW C, IsFiniteSet(C)
  PROVE  \E iter : SumOver(C) = iter[C] /\ \A s \in SUBSET C : iter[s] = SumStep(iter, s)
<1> DEFINE Fold(g) == [s \in SUBSET C |-> SumStep(g, s)]
           iter == CHOOSE g : g = Fold(g)
           Small(m) == {s \in SUBSET C : Cardinality(s) <= m}
           T == {m \in Nat : \E g : \A s \in Small(m) : g[s] = SumStep(g, s)}
<1>1. SumOver(C) = iter[C]
  BY Zenon DEF SumOver, MapThenSumSet, MapThenFoldSet, SumStep, Some
<1>2. ASSUME NEW s \in SUBSET C
      PROVE  IsFiniteSet(s) /\ Cardinality(s) \in Nat /\ (Cardinality(s) = 0 <=> s = {})
  BY FS_Subset, FS_CardinalityType, FS_EmptySet
<1>3. ASSUME NEW m \in Nat, NEW s \in Small(m + 1), s # {}
      PROVE  s \ {Some(s)} \in Small(m)
  <2>1. PICK x \in s : x = Some(s)
    BY <1>3 DEF Some
  <2>2. s \in SUBSET C /\ Cardinality(s) <= m + 1
    OBVIOUS
  <2>3. IsFiniteSet(s) /\ Cardinality(s) \in Nat
    BY <1>2, <2>2
  <2>4. Cardinality(s \ {x}) = Cardinality(s) - 1
    BY <2>1, <2>3, FS_RemoveElement
  <2>5. Cardinality(s \ {x}) <= m
    BY <2>2, <2>3, <2>4
  <2> QED BY <2>1, <2>2, <2>5
<1>4. \A s \in Small(0) : s = {}
  BY <1>2
<1>5. 0 \in T
  <2>1. [s \in {{}} |-> 0][{}] = 0
    OBVIOUS
  <2> QED BY <1>4, <2>1 DEF SumStep
<1>6. ASSUME NEW m \in Nat, m \in T PROVE m + 1 \in T
  <2>1. PICK g : \A s \in Small(m) : g[s] = SumStep(g, s)
    BY <1>6
  <2> DEFINE h == [s \in SUBSET C |-> SumStep(g, s)]
  <2>2. \A s \in Small(m) : h[s] = g[s]
    BY <2>1
  <2>3. ASSUME NEW s \in Small(m + 1) PROVE h[s] = SumStep(h, s)
    <3>1. h[s] = SumStep(g, s)
      OBVIOUS
    <3>2. CASE s = {}
      BY <3>1, <3>2 DEF SumStep
    <3>3. CASE s # {}
      <4>1. h[s \ {Some(s)}] = g[s \ {Some(s)}]
        <5> HIDE DEF h, Small
        <5> QED BY <1>3, <2>2, <3>3
      <4> HIDE DEF h
      <4> QED BY <3>1, <3>3, <4>1 DEF SumStep
    <3> QED BY <3>2, <3>3
  <2> HIDE DEF h, Small
  <2> QED BY <2>3
<1>7. Cardinality(C) \in T
  <2> HIDE DEF T
  <2> QED BY <1>2, <1>5, <1>6, SetInduction
<1>8. \A s \in SUBSET C : s \in Small(Cardinality(C))
  BY FS_Subset
<1>9. \E g : g = Fold(g)
  <2>1. PICK g : \A s \in SUBSET C : g[s] = SumStep(g, s)
    <3> HIDE DEF Small
    <3> QED BY <1>7, <1>8
  <2> DEFINE h == [s \in SUBSET C |-> g[s]]
  <2>2. ASSUME NEW s \in SUBSET C PROVE SumStep(h, s) = SumStep(g, s)
    <3>1. s \ {Some(s)} \in SUBSET C
      OBVIOUS
    <3>2. h[s \ {Some(s)}] = g[s \ {Some(s)}]
      BY <3>1
    <3> HIDE DEF h
    <3> QED BY <3>2 DEF SumStep
  <2>3. h = Fold(h)
    BY <2>1, <2>2
  <2> QED BY <2>3
<1>10. iter = Fold(iter)
  BY <1>9
<1>11. \A s \in SUBSET C : iter[s] = SumStep(iter, s)
  <2> HIDE DEF iter
  <2> QED BY <1>10
<1> HIDE DEF iter
<1> QED BY <1>1, <1>11

LEMMA SumOfNothing == SumOver({}) = 0
<1>1. IsFiniteSet({})
  BY FS_EmptySet
<1>2. PICK iter : SumOver({}) = iter[{}] /\ \A s \in SUBSET {} : iter[s] = SumStep(iter, s)
  BY <1>1, SumIsARun, Zenon
<1> QED BY <1>2 DEF SumStep

\* The function is the same for a set and for its parts.
LEMMA SumOfSome ==
  ASSUME NEW C, IsFiniteSet(C), C # {}
  PROVE  Some(C) \in C /\ SumOver(C) = worth(Some(C)) + SumOver(C \ {Some(C)})
<1> DEFINE D == C \ {Some(C)}
<1>1. Some(C) \in C
  BY DEF Some
<1>2. PICK iter : SumOver(C) = iter[C] /\ \A s \in SUBSET C : iter[s] = SumStep(iter, s)
  BY SumIsARun, Zenon
<1>3. IsFiniteSet(D)
  BY FS_Subset
<1>4. PICK less : SumOver(D) = less[D] /\ \A s \in SUBSET D : less[s] = SumStep(less, s)
  BY <1>3, SumIsARun, Zenon
<1> DEFINE T == {m \in Nat : \A s \in SUBSET D : Cardinality(s) <= m => iter[s] = less[s]}
<1>5. ASSUME NEW s \in SUBSET D
      PROVE  /\ IsFiniteSet(s) /\ Cardinality(s) \in Nat /\ (Cardinality(s) = 0 <=> s = {})
             /\ iter[s] = SumStep(iter, s) /\ less[s] = SumStep(less, s)
  <2>1. IsFiniteSet(s) /\ Cardinality(s) \in Nat /\ (Cardinality(s) = 0 <=> s = {})
    BY <1>3, FS_Subset, FS_CardinalityType, FS_EmptySet
  <2>2. s \in SUBSET C
    OBVIOUS
  <2> QED BY <1>2, <1>4, <2>1, <2>2
<1>6. 0 \in T
  <2>1. ASSUME NEW s \in SUBSET D, Cardinality(s) <= 0 PROVE iter[s] = less[s]
    <3>1. s = {}
      BY <1>5, <2>1
    <3> QED BY <1>5, <3>1 DEF SumStep
  <2> QED BY <2>1
<1>7. ASSUME NEW m \in Nat, m \in T PROVE m + 1 \in T
  <2>1. ASSUME NEW s \in SUBSET D, Cardinality(s) <= m + 1 PROVE iter[s] = less[s]
    <3>1. CASE s = {}
      BY <1>5, <3>1 DEF SumStep
    <3>2. CASE s # {}
      <4>1. PICK x \in s : x = Some(s)
        BY <3>2 DEF Some
      <4>2. Cardinality(s \ {x}) = Cardinality(s) - 1 /\ Cardinality(s) \in Nat
        BY <1>5, <4>1, FS_RemoveElement
      <4>3. s \ {x} \in SUBSET D /\ Cardinality(s \ {x}) <= m
        BY <2>1, <4>2
      <4>4. iter[s \ {x}] = less[s \ {x}]
        BY <1>7, <4>3
      <4> QED BY <1>5, <3>2, <4>1, <4>4 DEF SumStep
    <3> QED BY <3>1, <3>2
  <2> QED BY <2>1
<1>8. Cardinality(D) \in Nat /\ D \in SUBSET D
  BY <1>5
<1>9. Cardinality(D) \in T
  <2> HIDE DEF T, D
  <2> QED BY <1>6, <1>7, <1>8, SetInduction
<1>10. iter[D] = less[D]
  <2> HIDE DEF D
  <2> QED BY <1>8, <1>9
<1>11. iter[C] = worth(Some(C)) + iter[D]
  BY <1>2 DEF SumStep
<1> QED BY <1>1, <1>2, <1>4, <1>10, <1>11

LEMMA SumIsANumber ==
  ASSUME NEW C, IsFiniteSet(C), \A x \in C : worth(x) \in Int
  PROVE  SumOver(C) \in Int
<1> DEFINE T == {m \in Nat : \A s \in SUBSET C : Cardinality(s) <= m => SumOver(s) \in Int}
<1>1. ASSUME NEW s \in SUBSET C
      PROVE  IsFiniteSet(s) /\ Cardinality(s) \in Nat /\ (Cardinality(s) = 0 <=> s = {})
  BY FS_Subset, FS_CardinalityType, FS_EmptySet
<1>2. 0 \in T
  BY <1>1, SumOfNothing
<1>3. ASSUME NEW m \in Nat, m \in T PROVE m + 1 \in T
  <2>1. ASSUME NEW s \in SUBSET C, Cardinality(s) <= m + 1 PROVE SumOver(s) \in Int
    <3>1. CASE s = {}
      BY <3>1, SumOfNothing
    <3>2. CASE s # {}
      <4>1. PICK x \in s : x = Some(s) /\ SumOver(s) = worth(x) + SumOver(s \ {x})
        BY <1>1, <3>2, SumOfSome
      <4>2. Cardinality(s \ {x}) = Cardinality(s) - 1 /\ Cardinality(s) \in Nat
        BY <1>1, <4>1, FS_RemoveElement
      <4>3. SumOver(s \ {x}) \in Int
        BY <1>3, <2>1, <4>2
      <4> QED BY <4>1, <4>3
    <3> QED BY <3>1, <3>2
  <2> QED BY <2>1
<1>4. Cardinality(C) \in T /\ Cardinality(C) \in Nat
  <2> HIDE DEF T
  <2> QED BY <1>1, <1>2, <1>3, SetInduction
<1> QED BY <1>4

\* Any element may be the first.
LEMMA SumTakesOut ==
  ASSUME NEW C, IsFiniteSet(C), \A x \in C : worth(x) \in Int, NEW e \in C
  PROVE  SumOver(C) = worth(e) + SumOver(C \ {e})
<1> DEFINE T == {m \in Nat : \A s \in SUBSET C : Cardinality(s) <= m =>
                              \A x \in s : SumOver(s) = worth(x) + SumOver(s \ {x})}
<1>1. ASSUME NEW s \in SUBSET C
      PROVE  /\ IsFiniteSet(s) /\ Cardinality(s) \in Nat /\ (Cardinality(s) = 0 <=> s = {})
             /\ SumOver(s) \in Int
             /\ \A x \in s : Cardinality(s \ {x}) = Cardinality(s) - 1
  BY FS_Subset, FS_CardinalityType, FS_EmptySet, FS_RemoveElement, SumIsANumber
<1>2. 0 \in T
  BY <1>1
<1>3. ASSUME NEW m \in Nat, m \in T PROVE m + 1 \in T
  <2>1. ASSUME NEW s \in SUBSET C, Cardinality(s) <= m + 1, NEW x \in s
        PROVE  SumOver(s) = worth(x) + SumOver(s \ {x})
    <3>1. PICK y \in s : y = Some(s) /\ SumOver(s) = worth(y) + SumOver(s \ {y})
      BY <1>1, <2>1, SumOfSome
    <3>2. CASE x = y
      BY <3>1, <3>2
    <3>3. CASE x # y
      <4>1. /\ s \ {x} \in SUBSET C /\ Cardinality(s \ {x}) <= m /\ y \in s \ {x}
            /\ s \ {y} \in SUBSET C /\ Cardinality(s \ {y}) <= m /\ x \in s \ {y}
        BY <1>1, <2>1, <3>1, <3>3
      <4>2. SumOver(s \ {x}) = worth(y) + SumOver((s \ {x}) \ {y})
        BY <1>3, <4>1
      <4>3. SumOver(s \ {y}) = worth(x) + SumOver((s \ {y}) \ {x})
        BY <1>3, <4>1
      <4>4. (s \ {x}) \ {y} = (s \ {y}) \ {x} /\ (s \ {x}) \ {y} \in SUBSET C
        OBVIOUS
      <4>5. worth(x) \in Int /\ worth(y) \in Int /\ SumOver((s \ {x}) \ {y}) \in Int
        BY <1>1, <3>1, <4>4
      <4>6. SumOver(s) = worth(y) + (worth(x) + SumOver((s \ {x}) \ {y}))
        BY <3>1, <4>3, <4>4
      <4> HIDE DEF T
      <4> QED BY <4>2, <4>5, <4>6
    <3> QED BY <3>2, <3>3
  <2> QED BY <2>1
<1>4. Cardinality(C) \in T /\ Cardinality(C) \in Nat
  <2> HIDE DEF T
  <2> QED BY <1>1, <1>2, <1>3, SetInduction
<1> QED BY <1>4

\* What is worth nothing may be left out.
LEMMA SumOfTheRest ==
  ASSUME NEW C, IsFiniteSet(C), \A x \in C : worth(x) \in Int,
         NEW Z \in SUBSET C, \A x \in Z : worth(x) = 0
  PROVE  SumOver(C) = SumOver(C \ Z)
<1> DEFINE T == {m \in Nat : \A s \in SUBSET Z : Cardinality(s) <= m => SumOver(C) = SumOver(C \ s)}
<1>1. ASSUME NEW s \in SUBSET Z
      PROVE  /\ IsFiniteSet(s) /\ Cardinality(s) \in Nat /\ (Cardinality(s) = 0 <=> s = {})
             /\ \A x \in s : Cardinality(s \ {x}) = Cardinality(s) - 1
             /\ IsFiniteSet(C \ s) /\ SumOver(C \ s) \in Int
  <2>1. s \in SUBSET C /\ C \ s \in SUBSET C
    OBVIOUS
  <2> QED BY <2>1, FS_Subset, FS_CardinalityType, FS_EmptySet, FS_RemoveElement, SumIsANumber
<1>2. 0 \in T
  <2>1. ASSUME NEW s \in SUBSET Z, Cardinality(s) <= 0 PROVE SumOver(C) = SumOver(C \ s)
    <3>1. s = {}
      <4>1. Cardinality(s) \in Nat /\ (Cardinality(s) = 0 => s = {})
        BY <1>1
      <4> QED BY <2>1, <4>1
    <3>2. C \ s = C
      BY <3>1
    <3> QED BY <3>2
  <2> QED BY <2>1
<1>3. ASSUME NEW m \in Nat, m \in T PROVE m + 1 \in T
  <2>1. ASSUME NEW s \in SUBSET Z, Cardinality(s) <= m + 1 PROVE SumOver(C) = SumOver(C \ s)
    <3>1. CASE s = {}
      <4>1. C \ s = C
        BY <3>1
      <4> QED BY <4>1
    <3>2. CASE s # {}
      <4>1. PICK x \in s : TRUE
        BY <3>2
      <4>2. s \ {x} \in SUBSET Z /\ Cardinality(s \ {x}) <= m
        <5>1. Cardinality(s) \in Nat /\ Cardinality(s \ {x}) = Cardinality(s) - 1
          BY <1>1, <4>1
        <5> QED BY <2>1, <5>1
      <4>3. SumOver(C) = SumOver(C \ (s \ {x}))
        BY <1>3, <4>2
      <4>4. x \in C \ (s \ {x}) /\ (C \ (s \ {x})) \ {x} = C \ s /\ worth(x) = 0
        OBVIOUS
      <4>5. SumOver(C \ (s \ {x})) = worth(x) + SumOver(C \ s)
        BY <1>1, <4>2, <4>4, SumTakesOut
      <4>6. SumOver(C \ s) \in Int
        BY <1>1
      <4> QED BY <4>3, <4>4, <4>5, <4>6
    <3> QED BY <3>1, <3>2
  <2> QED BY <2>1
<1>4. Cardinality(Z) \in T /\ Cardinality(Z) \in Nat
  <2> HIDE DEF T
  <2> QED BY <1>1, <1>2, <1>3, SetInduction
<1> QED BY <1>4

\* As much is worth as much.
LEMMA SumOfTheOthers ==
  ASSUME NEW C, IsFiniteSet(C), \A x \in C : worth(x) \in Int,
         NEW D, NEW f \in Bijection(C, D), \A x \in C : worth(f[x]) = worth(x)
  PROVE  SumOver(C) = SumOver(D)
<1> DEFINE Of(s) == {f[x] : x \in s}
           T == {m \in Nat : \A s \in SUBSET C : Cardinality(s) <= m => SumOver(s) = SumOver(Of(s))}
<1>1. ASSUME NEW s \in SUBSET C
      PROVE  /\ IsFiniteSet(s) /\ Cardinality(s) \in Nat /\ (Cardinality(s) = 0 <=> s = {})
             /\ \A x \in s : Cardinality(s \ {x}) = Cardinality(s) - 1
             /\ IsFiniteSet(Of(s))
  <2>1. IsFiniteSet(s)
    BY FS_Subset
  <2>2. IsFiniteSet(Of(s))
    <3>1. Of(s) = {f[x] : x \in s} /\ [x \in s |-> f[x]] \in Surjection(s, Of(s))
      BY DEF Surjection
    <3> HIDE DEF Of
    <3> QED BY <2>1, <3>1, FS_Surjection
  <2> QED BY <2>1, <2>2, FS_CardinalityType, FS_EmptySet, FS_RemoveElement
<1>2. /\ f \in [C -> D] /\ \A x, y \in C : f[x] = f[y] => x = y
      /\ \A y \in D : \E x \in C : f[x] = y
  BY DEF Bijection, Injection, Surjection, IsInjective
<1>3. 0 \in T
  <2>1. ASSUME NEW s \in SUBSET C, Cardinality(s) <= 0 PROVE SumOver(s) = SumOver(Of(s))
    <3>1. s = {}
      <4>1. Cardinality(s) \in Nat /\ (Cardinality(s) = 0 => s = {})
        BY <1>1
      <4> QED BY <2>1, <4>1
    <3>2. Of(s) = s
      BY <3>1
    <3> QED BY <3>2
  <2> QED BY <2>1
<1>4. ASSUME NEW m \in Nat, m \in T PROVE m + 1 \in T
  <2>1. ASSUME NEW s \in SUBSET C, Cardinality(s) <= m + 1 PROVE SumOver(s) = SumOver(Of(s))
    <3>1. CASE s = {}
      <4>1. Of(s) = s
        BY <3>1
      <4> QED BY <4>1
    <3>2. CASE s # {}
      <4>1. PICK x \in s : TRUE
        BY <3>2
      <4>2. s \ {x} \in SUBSET C /\ Cardinality(s \ {x}) <= m
        <5>1. Cardinality(s) \in Nat /\ Cardinality(s \ {x}) = Cardinality(s) - 1
          BY <1>1, <4>1
        <5> QED BY <2>1, <5>1
      <4>3. SumOver(s \ {x}) = SumOver(Of(s \ {x}))
        BY <1>4, <4>2
      <4>4. Of(s) \ {f[x]} = Of(s \ {x}) /\ f[x] \in Of(s)
        BY <1>2
      <4>5. \A y \in Of(s) : worth(y) \in Int
        OBVIOUS
      <4>6. SumOver(Of(s)) = worth(f[x]) + SumOver(Of(s \ {x}))
        <5>1. IsFiniteSet(Of(s))
          BY <1>1
        <5> HIDE DEF Of
        <5> QED BY <4>4, <4>5, <5>1, SumTakesOut
      <4>7. SumOver(s) = worth(x) + SumOver(s \ {x})
        BY <1>1, SumTakesOut
      <4> QED BY <4>3, <4>6, <4>7
    <3> QED BY <3>1, <3>2
  <2> QED BY <2>1
<1>5. Cardinality(C) \in T /\ Cardinality(C) \in Nat
  <2> HIDE DEF T
  <2> QED BY <1>1, <1>3, <1>4, SetInduction
<1>6. Of(C) = D
  BY <1>2
<1> QED BY <1>5, <1>6
=============================================================================
