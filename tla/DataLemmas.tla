----------------------------- MODULE DataLemmas -----------------------------
(***************************************************************************)
(* Facts about data that the other proofs rest on: induction over numbers, *)
(* with no operator for the hypothesis, so that each use of it is a set of *)
(* numbers and a least counterexample; how many different elements a       *)
(* sequence can have; functions defined by taking members of a finite set  *)
(* away; sums over finite sets; recursion on the numbers; sorting a set by *)
(* the rank of its members; folds over the places of a sequence.           *)
(***************************************************************************)
EXTENDS Integers, FiniteSetTheorems, WellFoundedInduction, SequenceTheorems,
        SequencesExt, TLAPS

(* A nonempty set of natural numbers has a least element.                  *)
LEMMA LeastOf ==
  ASSUME NEW T, T \subseteq Nat, T # {}
  PROVE  \E x \in T : \A y \in T : x <= y
<1> DEFINE Less == OpToRel(<, Nat)
<1>1. Less = {ss \in Nat \X Nat : ss[1] < ss[2]}
  BY DEF OpToRel
<1>2. IsWellFoundedOn(Less, Nat)
  BY NatLessThanWellFounded
<1> HIDE DEF Less
<1>3. PICK x \in T : \A y \in T : <<y, x>> \notin Less
  BY <1>2, WFMin
<1>4. \A y \in T : ~(y < x)
  BY <1>1, <1>3
<1>5. x \in Nat /\ \A y \in T : y \in Nat
  OBVIOUS
<1> QED BY <1>4, <1>5

(* A set that holds 0, and with a number the next one, holds all of them.  *)
LEMMA NumberInduction ==
  ASSUME NEW S, 0 \in S, \A n \in Nat : n \in S => n + 1 \in S
  PROVE  Nat \subseteq S
<1> DEFINE Missing == Nat \ S
<1> SUFFICES ASSUME Missing # {} PROVE FALSE
  OBVIOUS
<1>1. PICK m \in Missing : \A y \in Missing : m <= y
  BY LeastOf
<1>2. m \in Nat /\ m # 0
  BY <1>1
<1>3. m - 1 \in Nat /\ m - 1 \in S
  BY <1>1, <1>2
<1>4. (m - 1) + 1 \in S
  BY <1>3
<1> QED BY <1>1, <1>2, <1>4

(* A nonempty finite set of integers has a least and a greatest element.   *)
LEMMA LeastOfFinite ==
  ASSUME NEW T, T \subseteq Int, T # {}, IsFiniteSet(T)
  PROVE  /\ \E x \in T : \A y \in T : x <= y
         /\ \E x \in T : \A y \in T : x >= y
<1> DEFINE Has(n) == \A U \in SUBSET T : U # {} /\ Cardinality(U) <= n =>
                       /\ \E x \in U : \A y \in U : x <= y
                       /\ \E x \in U : \A y \in U : x >= y
<1> DEFINE N == {n \in Nat : Has(n)}
<1>1. 0 \in N
  <2> SUFFICES ASSUME NEW U \in SUBSET T, U # {} PROVE ~(Cardinality(U) <= 0)
    OBVIOUS
  <2>1. IsFiniteSet(U)
    BY FS_Subset
  <2>2. Cardinality(U) \in Nat /\ Cardinality(U) # 0
    BY <2>1, FS_EmptySet, FS_CardinalityType
  <2> QED BY <2>2
<1>2. ASSUME NEW n \in Nat, n \in N PROVE n + 1 \in N
  <2> SUFFICES ASSUME NEW U \in SUBSET T, U # {}, Cardinality(U) <= n + 1
               PROVE  /\ \E x \in U : \A y \in U : x <= y
                      /\ \E x \in U : \A y \in U : x >= y
    OBVIOUS
  <2>1. PICK u \in U : TRUE
    OBVIOUS
  <2>2. IsFiniteSet(U) /\ IsFiniteSet(U \ {u}) /\ Cardinality(U \ {u}) = Cardinality(U) - 1
    BY FS_Subset, FS_RemoveElement
  <2>3. Cardinality(U) \in Nat
    BY <2>2, FS_CardinalityType
  <2>4. CASE U \ {u} = {}
    BY <2>1, <2>4
  <2>5. CASE U \ {u} # {}
    <3> DEFINE V == U \ {u}
    <3>1. V \in SUBSET T /\ V # {} /\ Cardinality(V) <= n
      BY <2>2, <2>3, <2>5
    <3>2. Has(n)
      BY <1>2
    <3> HIDE DEF V
    <3>3. PICK lo \in V, hi \in V : \A y \in V : lo <= y /\ hi >= y
      BY <3>1, <3>2
    <3>4. U = V \cup {u} /\ V \subseteq Int /\ u \in Int
      BY DEF V
    <3> QED BY <3>3, <3>4
  <2> QED BY <2>4, <2>5
<1> HIDE DEF N
<1>3. Nat \subseteq N
  BY <1>1, <1>2, NumberInduction
<1>4. Cardinality(T) \in Nat
  BY FS_CardinalityType
<1>5. Has(Cardinality(T))
  BY <1>3, <1>4 DEF N
<1> QED BY <1>4, <1>5

(* A finite set has an element that is greatest by a number it has.        *)
LEMMA GreatestBy ==
  ASSUME NEW S, IsFiniteSet(S), S # {}, NEW f, \A x \in S : f[x] \in Int
  PROVE  \E x \in S : \A y \in S : f[y] <= f[x]
<1> DEFINE T == {f[x] : x \in S}
           g == [x \in S |-> f[x]]
<1>1. g \in Surjection(S, T)
  BY DEF Surjection
<1>2. T \subseteq Int /\ T # {}
  OBVIOUS
<1> HIDE DEF T, g
<1>3. IsFiniteSet(T)
  BY <1>1, FS_Surjection
<1>4. PICK m \in T : \A y \in T : m >= y
  BY <1>2, <1>3, LeastOfFinite
<1> QED BY <1>2, <1>4 DEF T

(* A set of subsets of a finite set that holds the empty one, and with a   *)
(* subset every one of an element more, holds the set itself.              *)
LEMMA SetInduction ==
  ASSUME NEW S, IsFiniteSet(S), NEW H, {} \in H,
         \A T \in SUBSET S, x \in S : T \in H /\ x \notin T => T \cup {x} \in H
  PROVE  S \in H
<1> DEFINE N == {n \in Nat : \A T \in SUBSET S : Cardinality(T) = n => T \in H}
<1>1. 0 \in N
  <2> SUFFICES ASSUME NEW T \in SUBSET S, Cardinality(T) = 0 PROVE T \in H
    OBVIOUS
  <2>1. IsFiniteSet(T)
    BY FS_Subset
  <2> QED BY <2>1, FS_EmptySet
<1>2. ASSUME NEW n \in Nat, n \in N PROVE n + 1 \in N
  <2> SUFFICES ASSUME NEW T \in SUBSET S, Cardinality(T) = n + 1 PROVE T \in H
    OBVIOUS
  <2>1. IsFiniteSet(T) /\ T # {}
    BY FS_Subset, FS_EmptySet
  <2>2. PICK x \in T : TRUE
    BY <2>1
  <2>a. Cardinality(T \ {x}) = Cardinality(T) - 1
    BY <2>1, <2>2, FS_RemoveElement
  <2>3. Cardinality(T \ {x}) = n
    BY <2>a
  <2>4. T \ {x} \in H
    BY <1>2, <2>3
  <2> DEFINE U == T \ {x}
  <2>5. U \in SUBSET S /\ x \in S /\ x \notin U /\ U \in H /\ T = U \cup {x}
    BY <2>2, <2>4
  <2> HIDE DEF U
  <2> QED BY <2>5
<1> HIDE DEF N
<1>3. Nat \subseteq N
  BY <1>1, <1>2, NumberInduction
<1>4. Cardinality(S) \in Nat
  BY FS_CardinalityType
<1> QED BY <1>3, <1>4 DEF N

-----------------------------------------------------------------------------
(* The elements of a sequence.                                             *)
LEMMA ElementsIs ==
  ASSUME NEW S, NEW s \in Seq(S)
  PROVE  /\ ToSet(s) = {s[i] : i \in 1 .. Len(s)}
         /\ ToSet(s) \subseteq S
         /\ s # <<>> => Len(s) >= 1
         /\ s = <<>> => Len(s) = 0
<1>1. Len(s) \in Nat /\ DOMAIN s = 1 .. Len(s) /\ \A i \in 1 .. Len(s) : s[i] \in S
  BY LenProperties
<1> QED BY <1>1, EmptySeq DEF ToSet

LEMMA ElementsOfEmpty == ToSet(<<>>) = {} /\ Len(<<>>) = 0
BY DEF ToSet

(* A sequence has at most as many elements as places.                      *)
LEMMA ElementsFew ==
  ASSUME NEW S, NEW s \in Seq(S)
  PROVE  /\ IsFiniteSet(ToSet(s)) /\ Cardinality(ToSet(s)) \in Nat
         /\ Cardinality(ToSet(s)) <= Len(s) /\ Len(s) \in Nat
<1>1. Len(s) \in Nat /\ ToSet(s) = {s[i] : i \in 1 .. Len(s)}
  BY ElementsIs, LenProperties
<1>2. IsFiniteSet(1 .. Len(s)) /\ Cardinality(1 .. Len(s)) = Len(s)
  <2>1. Len(s) \in Int /\ 1 \in Int /\ (IF 1 > Len(s) THEN 0 ELSE Len(s) - 1 + 1) = Len(s)
    BY <1>1
  <2> QED BY <2>1, FS_Interval
<1> DEFINE f == [i \in 1 .. Len(s) |-> s[i]]
<1>3. f \in Surjection(1 .. Len(s), ToSet(s))
  BY <1>1 DEF Surjection
<1> HIDE DEF f
<1>4. IsFiniteSet(ToSet(s)) /\ Cardinality(ToSet(s)) <= Cardinality(1 .. Len(s))
  BY <1>2, <1>3, FS_Surjection
<1> QED BY <1>1, <1>2, <1>4, FS_CardinalityType

LEMMA ElementsOfAppend ==
  ASSUME NEW S, NEW s \in Seq(S), NEW e \in S
  PROVE  /\ Append(s, e) \in Seq(S) /\ Len(Append(s, e)) = Len(s) + 1
         /\ ToSet(Append(s, e)) = ToSet(s) \cup {e}
<1> DEFINE t == Append(s, e)
<1>1. /\ t \in Seq(S) /\ Len(t) = Len(s) + 1 /\ Len(s) \in Nat
      /\ \A i \in 1 .. Len(s) : t[i] = s[i]
      /\ t[Len(s) + 1] = e
  BY AppendProperties, LenProperties
<1> HIDE DEF t
<1>2. ToSet(t) = {t[i] : i \in 1 .. Len(t)} /\ ToSet(s) = {s[i] : i \in 1 .. Len(s)}
  BY <1>1, ElementsIs
<1>3. 1 .. Len(t) = 1 .. Len(s) \cup {Len(s) + 1}
  BY <1>1
<1>4. ToSet(t) = ToSet(s) \cup {e}
  BY <1>1, <1>2, <1>3
<1> QED BY <1>1, <1>4 DEF t

LEMMA ElementsOfTail ==
  ASSUME NEW S, NEW s \in Seq(S), s # <<>>
  PROVE  /\ Tail(s) \in Seq(S) /\ Len(Tail(s)) = Len(s) - 1 /\ Head(s) \in S
         /\ ToSet(s) = ToSet(Tail(s)) \cup {Head(s)}
<1> DEFINE t == Tail(s)
<1>1. /\ t \in Seq(S) /\ Len(t) = Len(s) - 1 /\ Len(s) \in Nat /\ Head(s) \in S
      /\ \A i \in 1 .. Len(t) : t[i] = s[i + 1]
      /\ Len(s) >= 1 /\ Head(s) = s[1]
  BY HeadTailProperties, LenProperties, ElementsIs
<1> HIDE DEF t
<1>2. ToSet(t) = {t[i] : i \in 1 .. Len(t)} /\ ToSet(s) = {s[i] : i \in 1 .. Len(s)}
  BY <1>1, ElementsIs
<1>3. \A i \in 1 .. Len(s) : i = 1 \/ (i - 1 \in 1 .. Len(t) /\ t[i - 1] = s[(i - 1) + 1])
  BY <1>1
<1>4. ToSet(s) \subseteq ToSet(t) \cup {Head(s)}
  <2> SUFFICES ASSUME NEW i \in 1 .. Len(s) PROVE s[i] \in ToSet(t) \cup {Head(s)}
    BY <1>2
  <2>1. CASE i = 1
    BY <1>1, <2>1
  <2>2. CASE i # 1
    <3>1. i - 1 \in 1 .. Len(t) /\ t[i - 1] = s[i]
      BY <1>1, <2>2
    <3> QED BY <1>2, <3>1
  <2> QED BY <2>1, <2>2
<1>5. ToSet(t) \cup {Head(s)} \subseteq ToSet(s)
  <2>1. \A i \in 1 .. Len(t) : i + 1 \in 1 .. Len(s)
    BY <1>1
  <2>2. 1 \in 1 .. Len(s)
    BY <1>1
  <2> QED BY <1>1, <1>2, <2>1, <2>2
<1>6. ToSet(s) = ToSet(t) \cup {Head(s)}
  BY <1>4, <1>5
<1> QED BY <1>1, <1>6 DEF t

LEMMA ElementsOfConcat ==
  ASSUME NEW S, NEW s \in Seq(S), NEW t \in Seq(S)
  PROVE  /\ s \o t \in Seq(S) /\ Len(s \o t) = Len(s) + Len(t)
         /\ ToSet(s \o t) = ToSet(s) \cup ToSet(t)
<1> DEFINE u == s \o t
<1>1. /\ u \in Seq(S) /\ Len(u) = Len(s) + Len(t) /\ Len(s) \in Nat /\ Len(t) \in Nat
      /\ \A i \in 1 .. Len(u) : u[i] = IF i <= Len(s) THEN s[i] ELSE t[i - Len(s)]
  BY ConcatProperties, LenProperties
<1> HIDE DEF u
<1>2. /\ ToSet(u) = {u[i] : i \in 1 .. Len(u)} /\ ToSet(s) = {s[i] : i \in 1 .. Len(s)}
      /\ ToSet(t) = {t[i] : i \in 1 .. Len(t)}
  BY <1>1, ElementsIs
<1>3. ToSet(u) \subseteq ToSet(s) \cup ToSet(t)
  <2> SUFFICES ASSUME NEW i \in 1 .. Len(u) PROVE u[i] \in ToSet(s) \cup ToSet(t)
    BY <1>2
  <2>1. CASE i <= Len(s)
    <3>1. i \in 1 .. Len(s) /\ u[i] = s[i]
      BY <1>1, <2>1
    <3> QED BY <1>2, <3>1
  <2>2. CASE ~(i <= Len(s))
    <3>1. i - Len(s) \in 1 .. Len(t) /\ u[i] = t[i - Len(s)]
      BY <1>1, <2>2
    <3> QED BY <1>2, <3>1
  <2> QED BY <2>1, <2>2
<1>4. ToSet(s) \subseteq ToSet(u)
  <2> SUFFICES ASSUME NEW i \in 1 .. Len(s) PROVE s[i] \in ToSet(u)
    BY <1>2
  <2>1. i \in 1 .. Len(u) /\ u[i] = s[i]
    BY <1>1
  <2> QED BY <1>2, <2>1
<1>5. ToSet(t) \subseteq ToSet(u)
  <2> SUFFICES ASSUME NEW i \in 1 .. Len(t) PROVE t[i] \in ToSet(u)
    BY <1>2
  <2>0. i + Len(s) \in 1 .. Len(u) /\ ~(i + Len(s) <= Len(s))
    BY <1>1
  <2>1. i + Len(s) \in 1 .. Len(u) /\ u[i + Len(s)] = t[(i + Len(s)) - Len(s)]
    BY <1>1, <2>0
  <2>2. (i + Len(s)) - Len(s) = i
    BY <1>1
  <2>3. u[i + Len(s)] = t[i]
    BY <2>1, <2>2
  <2> QED BY <1>2, <2>1, <2>3
<1> QED BY <1>1, <1>3, <1>4, <1>5 DEF u

(* Cut in two, a sequence is its two parts.                                *)
LEMMA ElementsOfParts ==
  ASSUME NEW S, NEW s \in Seq(S), NEW n \in 0 .. Len(s)
  PROVE  /\ SubSeq(s, 1, n) \in Seq(S) /\ SubSeq(s, n + 1, Len(s)) \in Seq(S)
         /\ Len(SubSeq(s, 1, n)) = n /\ Len(SubSeq(s, n + 1, Len(s))) = Len(s) - n
         /\ ToSet(s) = ToSet(SubSeq(s, 1, n)) \cup ToSet(SubSeq(s, n + 1, Len(s)))
<1>1. Len(s) \in Nat /\ \A i \in 1 .. Len(s) : s[i] \in S
  BY LenProperties
<1>2. /\ 1 \in Int /\ n \in Int /\ n + 1 \in Int /\ Len(s) \in Int
      /\ (\A i \in 1 .. n : s[i] \in S) /\ (\A i \in n + 1 .. Len(s) : s[i] \in S)
  BY <1>1
<1>3. /\ SubSeq(s, 1, n) \in Seq(S)
      /\ Len(SubSeq(s, 1, n)) = IF 1 <= n THEN n - 1 + 1 ELSE 0
  BY <1>2, SubSeqProperties
<1>4. /\ SubSeq(s, n + 1, Len(s)) \in Seq(S)
      /\ Len(SubSeq(s, n + 1, Len(s))) = IF n + 1 <= Len(s) THEN Len(s) - (n + 1) + 1 ELSE 0
  BY <1>2, SubSeqProperties
<1>5. 1 \in 1 .. Len(s) + 1 /\ n \in 1 - 1 .. Len(s) /\ Len(s) \in n .. Len(s)
  BY <1>1
<1>6. SubSeq(s, 1, n) \o SubSeq(s, n + 1, Len(s)) = SubSeq(s, 1, Len(s))
  BY <1>5, ConcatAdjacentSubSeq
<1>7. SubSeq(s, 1, Len(s)) = s
  BY SubSeqFull
<1>8. ToSet(s) = ToSet(SubSeq(s, 1, n)) \cup ToSet(SubSeq(s, n + 1, Len(s)))
  <2> DEFINE a == SubSeq(s, 1, n) b == SubSeq(s, n + 1, Len(s))
  <2>1. a \in Seq(S) /\ b \in Seq(S) /\ a \o b = s
    BY <1>3, <1>4, <1>6, <1>7
  <2> HIDE DEF a, b
  <2>2. ToSet(s) = ToSet(a) \cup ToSet(b)
    BY <2>1, ElementsOfConcat
  <2> QED BY <2>2 DEF a, b
<1> QED BY <1>1, <1>3, <1>4, <1>8

(* A function on the subsets of a finite set may be defined by taking away *)
(* a member that is picked.                                                *)
Taking(a, step, pick, g, T) == IF T = {} THEN a ELSE step[pick[T]][g[T \ {pick[T]}]]
Picks(pick, K) == \A T \in SUBSET K : T # {} => pick[T] \in T
TakesFrom(V, K, a, step, pick, g) ==
  g \in [SUBSET K -> V] /\ \A T \in SUBSET K : g[T] = Taking(a, step, pick, g, T)
LEMMA SetRecursion ==
  ASSUME NEW V, NEW a \in V, NEW K, IsFiniteSet(K), NEW step \in [K -> [V -> V]],
         NEW pick, Picks(pick, K)
  PROVE  \E g : TakesFrom(V, K, a, step, pick, g)
<1> DEFINE Upto(n) == \E g \in [SUBSET K -> V] : \A T \in SUBSET K :
                        Cardinality(T) < n => g[T] = Taking(a, step, pick, g, T)
           N == {n \in Nat : Upto(n)}
<1>0. \A T \in SUBSET K : IsFiniteSet(T) /\ Cardinality(T) \in Nat
  BY FS_Subset, FS_CardinalityType
<1>1. 0 \in N
  <2>1. [T \in SUBSET K |-> a] \in [SUBSET K -> V]
    OBVIOUS
  <2>2. \A T \in SUBSET K : ~(Cardinality(T) < 0)
    BY <1>0
  <2> QED BY <2>1, <2>2
<1>2. ASSUME NEW n \in Nat, n \in N PROVE n + 1 \in N
  <2>1. PICK g \in [SUBSET K -> V] : \A T \in SUBSET K :
          Cardinality(T) < n => g[T] = Taking(a, step, pick, g, T)
    BY <1>2
  <2> DEFINE h == [T \in SUBSET K |-> Taking(a, step, pick, g, T)]
  <2>2. ASSUME NEW T \in SUBSET K PROVE h[T] \in V
    <3>1. CASE T = {}
      BY <3>1 DEF Taking
    <3>2. CASE T # {}
      <4>1. pick[T] \in K /\ T \ {pick[T]} \in SUBSET K
        BY <3>2 DEF Picks
      <4> QED BY <3>2, <4>1 DEF Taking
    <3> QED BY <3>1, <3>2
  <2>3. ASSUME NEW T \in SUBSET K, Cardinality(T) < n + 1 PROVE h[T] = Taking(a, step, pick, h, T)
    <3>1. CASE T = {}
      BY <3>1 DEF Taking
    <3>2. CASE T # {}
      <4> DEFINE U == T \ {pick[T]}
      <4>1. U \in SUBSET K /\ Cardinality(U) = Cardinality(T) - 1
        BY <3>2, <1>0, FS_RemoveElement DEF Picks
      <4>2. Cardinality(U) < n
        BY <4>1, <2>3, <1>0
      <4> HIDE DEF U
      <4>3. g[U] = Taking(a, step, pick, g, U)
        BY <4>1, <4>2, <2>1
      <4>4. h[U] = g[U]
        BY <4>1, <4>3
      <4>5. h[T] = step[pick[T]][g[U]]
        BY <3>2 DEF Taking, U
      <4> HIDE DEF h
      <4> QED BY <3>2, <4>4, <4>5 DEF Taking, U
    <3> QED BY <3>1, <3>2
  <2>4. h \in [SUBSET K -> V]
    BY <2>2
  <2> HIDE DEF h
  <2>5. Upto(n + 1)
    BY <2>3, <2>4
  <2> QED BY <2>5
<1> HIDE DEF N
<1>3. Nat \subseteq N
  BY <1>1, <1>2, NumberInduction
<1>4. Cardinality(K) + 1 \in N
  BY <1>0, <1>3
<1>5. PICK g \in [SUBSET K -> V] : \A T \in SUBSET K :
        Cardinality(T) < Cardinality(K) + 1 => g[T] = Taking(a, step, pick, g, T)
  BY <1>4 DEF N
<1>6. \A T \in SUBSET K : Cardinality(T) < Cardinality(K) + 1
  BY <1>0, FS_Subset
<1>7. TakesFrom(V, K, a, step, pick, g)
  BY <1>5, <1>6 DEF TakesFrom
<1> QED BY <1>7

-----------------------------------------------------------------------------
(* The sum of a function over a finite set of arguments.                   *)
Some(T) == CHOOSE x \in T : TRUE
LEMMA SomeIn == ASSUME NEW T, T # {} PROVE Some(T) \in T
BY DEF Some

(* One step of the sum over a set: an element, and the rest.               *)
Summing(f, g, T) == IF T = {} THEN 0 ELSE f[Some(T)] + g[T \ {Some(T)}]
SumsTo(f, K, g) == g = [T \in SUBSET K |-> Summing(f, g, T)]
Summable(f, K) == K \subseteq DOMAIN f /\ IsFiniteSet(K) /\ \A k \in K : f[k] \in Int
SumOver(f, K) == MapThenSumSet(LAMBDA k : f[k], K)

LEMMA SumIs ==
  ASSUME NEW f, NEW K
  PROVE  SumOver(f, K) = (CHOOSE g : SumsTo(f, K, g))[K]
BY DEF SumOver, MapThenSumSet, MapThenFoldSet, Some, SumsTo, Summing

(* The sum by recursion exists.                                            *)
LEMMA SumExists ==
  ASSUME NEW f, NEW K, Summable(f, K)
  PROVE  \E g : SumsTo(f, K, g)
<1> DEFINE step == [k \in K |-> [v \in Int |-> f[k] + v]]
           pick == [T \in SUBSET K |-> Some(T)]
<1>1. step \in [K -> [Int -> Int]] /\ Picks(pick, K) /\ IsFiniteSet(K) /\ 0 \in Int
  BY SomeIn DEF Summable, Picks
<1>2. /\ \A k \in K, v \in Int : step[k][v] = f[k] + v
      /\ \A T \in SUBSET K : pick[T] = Some(T)
  OBVIOUS
<1> HIDE DEF step, pick
<1>a. PICK g : TakesFrom(Int, K, 0, step, pick, g)
  BY <1>1, SetRecursion
<1>3. g \in [SUBSET K -> Int] /\ \A T \in SUBSET K : g[T] = Taking(0, step, pick, g, T)
  BY <1>a DEF TakesFrom
<1>4. ASSUME NEW T \in SUBSET K PROVE g[T] = Summing(f, g, T)
  <2>1. CASE T = {}
    BY <1>3, <2>1 DEF Taking, Summing
  <2>2. CASE T # {}
    <3>1. Some(T) \in K /\ g[T \ {Some(T)}] \in Int
      BY <1>3, <2>2, SomeIn
    <3> QED BY <1>2, <1>3, <2>2, <3>1 DEF Taking, Summing
  <2> QED BY <2>1, <2>2
<1>5. g = [T \in SUBSET K |-> g[T]]
  BY <1>3
<1> QED BY <1>4, <1>5 DEF SumsTo

(* The recursion gives one value, whatever larger set it is for.           *)
LEMMA SumUnique ==
  ASSUME NEW f, NEW K, Summable(f, K), NEW L \in SUBSET K,
         NEW g, SumsTo(f, K, g), NEW h, SumsTo(f, L, h)
  PROVE  \A T \in SUBSET L : g[T] = h[T]
<1> DEFINE N == {n \in Nat : \A T \in SUBSET L : Cardinality(T) <= n => g[T] = h[T]}
<1>0. \A T \in SUBSET L : IsFiniteSet(T) /\ Cardinality(T) \in Nat
  BY FS_Subset, FS_CardinalityType DEF Summable
<1>a. ASSUME NEW T \in SUBSET L
      PROVE  g[T] = Summing(f, g, T) /\ h[T] = Summing(f, h, T)
  <2>1. T \in SUBSET K
    OBVIOUS
  <2> QED BY <2>1 DEF SumsTo
<1>1. 0 \in N
  <2> SUFFICES ASSUME NEW T \in SUBSET L, Cardinality(T) <= 0 PROVE g[T] = h[T]
    OBVIOUS
  <2>1. T = {}
    BY <1>0, FS_EmptySet
  <2> QED BY <2>1, <1>a DEF Summing
<1>2. ASSUME NEW n \in Nat, n \in N PROVE n + 1 \in N
  <2> SUFFICES ASSUME NEW T \in SUBSET L, Cardinality(T) <= n + 1 PROVE g[T] = h[T]
    OBVIOUS
  <2>1. CASE T = {}
    BY <2>1, <1>a DEF Summing
  <2>2. CASE T # {}
    <3> DEFINE U == T \ {Some(T)}
    <3>1. U \in SUBSET L /\ Cardinality(U) = Cardinality(T) - 1
      BY <2>2, SomeIn, <1>0, FS_RemoveElement
    <3>2. Cardinality(U) <= n
      BY <3>1, <1>0
    <3>3. g[U] = h[U]
      BY <3>1, <3>2, <1>2
    <3> QED BY <2>2, <3>3, <1>a DEF Summing
  <2> QED BY <2>1, <2>2
<1> HIDE DEF N
<1>3. Nat \subseteq N
  BY <1>1, <1>2, NumberInduction
<1>4. ASSUME NEW T \in SUBSET L PROVE g[T] = h[T]
  <2>1. Cardinality(T) \in Nat /\ Cardinality(T) \in N
    BY <1>0, <1>3
  <2> QED BY <2>1 DEF N
<1> QED BY <1>4

LEMMA SumStep ==
  ASSUME NEW f, NEW K, Summable(f, K)
  PROVE  SumOver(f, K) = IF K = {} THEN 0 ELSE f[Some(K)] + SumOver(f, K \ {Some(K)})
<1> DEFINE g == CHOOSE g : SumsTo(f, K, g)
<1>1. SumsTo(f, K, g)
  BY SumExists
<1>2. SumOver(f, K) = g[K]
  BY SumIs
<1> HIDE DEF g
<1>3. g[K] = Summing(f, g, K)
  BY <1>1 DEF SumsTo
<1>4. CASE K = {}
  BY <1>2, <1>3, <1>4 DEF Summing
<1>5. CASE K # {}
  <2> DEFINE L == K \ {Some(K)}
             h == CHOOSE h : SumsTo(f, L, h)
  <2>1. L \in SUBSET K /\ Summable(f, L)
    BY FS_Subset DEF Summable
  <2>2. SumsTo(f, L, h) /\ SumOver(f, L) = h[L]
    BY <2>1, SumExists, SumIs
  <2> HIDE DEF L, h
  <2>3. g[L] = h[L]
    BY <1>1, <2>1, <2>2, SumUnique
  <2> QED BY <1>2, <1>3, <1>5, <2>2, <2>3 DEF Summing, L
<1> QED BY <1>4, <1>5

LEMMA SumType ==
  ASSUME NEW f, NEW K, Summable(f, K)
  PROVE  SumOver(f, K) \in Int
<1> DEFINE H == {T \in SUBSET K : \A n \in Nat : Cardinality(T) <= n => SumOver(f, T) \in Int}
           N == {n \in Nat : \A T \in SUBSET K : Cardinality(T) <= n => SumOver(f, T) \in Int}
<1>0. \A T \in SUBSET K : Summable(f, T) /\ Cardinality(T) \in Nat /\ IsFiniteSet(T)
  BY FS_Subset, FS_CardinalityType DEF Summable
<1>1. 0 \in N
  <2> SUFFICES ASSUME NEW T \in SUBSET K, Cardinality(T) <= 0 PROVE SumOver(f, T) \in Int
    OBVIOUS
  <2>1. T = {}
    BY <1>0, FS_EmptySet
  <2>2. SumOver(f, T) = 0
    BY <1>0, <2>1, SumStep
  <2> QED BY <2>2
<1>2. ASSUME NEW n \in Nat, n \in N PROVE n + 1 \in N
  <2> SUFFICES ASSUME NEW T \in SUBSET K, Cardinality(T) <= n + 1, T # {} PROVE SumOver(f, T) \in Int
    <3>1. SumOver(f, {}) = 0
      BY <1>0, SumStep
    <3> QED BY <3>1
  <2> DEFINE U == T \ {Some(T)}
  <2>1. U \in SUBSET K /\ Cardinality(U) <= n /\ Some(T) \in K
    BY SomeIn, <1>0, FS_RemoveElement
  <2>2. SumOver(f, U) \in Int
    BY <1>2, <2>1
  <2>3. SumOver(f, T) = f[Some(T)] + SumOver(f, U)
    BY <1>0, SumStep
  <2> QED BY <2>1, <2>2, <2>3 DEF Summable
<1> HIDE DEF N
<1>3. Nat \subseteq N
  BY <1>1, <1>2, NumberInduction
<1>4. Cardinality(K) \in N
  BY <1>0, <1>3
<1> QED BY <1>0, <1>4 DEF N

(* Whichever element is taken first.                                       *)
LEMMA SumLess ==
  ASSUME NEW f, NEW K, Summable(f, K), NEW a \in K
  PROVE  SumOver(f, K) = f[a] + SumOver(f, K \ {a})
<1> DEFINE AnyOf(T) == \A b \in T : SumOver(f, T) = f[b] + SumOver(f, T \ {b})
           N == {n \in Nat : \A T \in SUBSET K : Cardinality(T) <= n => AnyOf(T)}
<1>0. \A T \in SUBSET K : Summable(f, T) /\ Cardinality(T) \in Nat /\ IsFiniteSet(T)
  BY FS_Subset, FS_CardinalityType DEF Summable
<1>1. 0 \in N
  <2> SUFFICES ASSUME NEW T \in SUBSET K, Cardinality(T) <= 0 PROVE T = {}
    OBVIOUS
  <2> QED BY <1>0, FS_EmptySet
<1>2. ASSUME NEW n \in Nat, n \in N PROVE n + 1 \in N
  <2> SUFFICES ASSUME NEW T \in SUBSET K, Cardinality(T) <= n + 1, NEW b \in T
               PROVE  SumOver(f, T) = f[b] + SumOver(f, T \ {b})
    OBVIOUS
  <2> DEFINE c == Some(T)
             U == T \ {c}
             V == T \ {b}
  <2>0. c \in T
    BY SomeIn
  <2>1. SumOver(f, T) = f[c] + SumOver(f, U)
    BY <1>0, SumStep
  <2>2. CASE b = c
    BY <2>1, <2>2
  <2>3. CASE b # c
    <3> HIDE DEF c
    <3>1. U \in SUBSET K /\ Cardinality(U) <= n /\ b \in U
      BY <2>0, <2>3, <1>0, FS_RemoveElement
    <3>2. V \in SUBSET K /\ Cardinality(V) <= n /\ c \in V
      BY <2>0, <2>3, <1>0, FS_RemoveElement
    <3>3. U \ {b} = V \ {c} /\ U \ {b} \in SUBSET K
      OBVIOUS
    <3>4. /\ f[b] \in Int /\ f[c] \in Int
          /\ SumOver(f, U \ {b}) \in Int
      BY <2>0, <1>0, <3>3, SumType DEF Summable
    <3> HIDE DEF U, V
    <3>5. SumOver(f, U) = f[b] + SumOver(f, U \ {b})
      BY <1>2, <3>1
    <3>6. SumOver(f, V) = f[c] + SumOver(f, V \ {c})
      BY <1>2, <3>2
    <3>7. SumOver(f, V \ {c}) = SumOver(f, U \ {b})
      BY <3>3
    <3>8. SumOver(f, T) = f[c] + SumOver(f, U)
      BY <2>1
    <3>9. SumOver(f, T) = f[b] + SumOver(f, V)
      BY ONLY <3>4, <3>5, <3>6, <3>7, <3>8
    <3> QED BY <3>9 DEF V
  <2> QED BY <2>2, <2>3
<1> HIDE DEF N
<1>3. Nat \subseteq N
  BY <1>1, <1>2, NumberInduction
<1>4. Cardinality(K) \in N /\ Cardinality(K) <= Cardinality(K)
  BY <1>0, <1>3
<1>5. AnyOf(K)
  BY <1>4 DEF N
<1> QED BY <1>5


(* A sum without terms, its type, and its value with one more term.        *)
LEMMA SumFacts ==
  ASSUME NEW f, NEW K, Summable(f, K)
  PROVE  /\ SumOver(f, {}) = 0
         /\ SumOver(f, K) \in Int
         /\ \A T \in SUBSET K : Summable(f, T)
         /\ \A T \in SUBSET K, x \in K : x \notin T => SumOver(f, T \cup {x}) = f[x] + SumOver(f, T)
<1>1. \A T \in SUBSET K : Summable(f, T)
  BY FS_Subset DEF Summable
<1>2. SumOver(f, {}) = 0
  <2>1. Summable(f, {})
    BY FS_EmptySet DEF Summable
  <2> QED BY <2>1, SumStep
<1>3. ASSUME NEW T \in SUBSET K, NEW x \in K, x \notin T
      PROVE  SumOver(f, T \cup {x}) = f[x] + SumOver(f, T)
  <2>1. T \cup {x} \in SUBSET K /\ x \in T \cup {x} /\ (T \cup {x}) \ {x} = T
    BY <1>3
  <2> QED BY <2>1, <1>1, SumLess
<1> QED BY <1>1, <1>2, <1>3, SumType

(* Natural numbers have a natural sum, of which each is a part.            *)
LEMMA SumNat ==
  ASSUME NEW f, NEW K, Summable(f, K), \A x \in K : f[x] \in Nat
  PROVE  SumOver(f, K) \in Nat /\ \A x \in K : f[x] <= SumOver(f, K)
<1> DEFINE H == {T \in SUBSET K : SumOver(f, T) \in Nat}
<1>1. {} \in H
  BY SumFacts
<1>2. ASSUME NEW T \in SUBSET K, NEW x \in K, T \in H, x \notin T PROVE T \cup {x} \in H
  <2>1. SumOver(f, T \cup {x}) = f[x] + SumOver(f, T)
    BY <1>2, SumFacts
  <2> QED BY <1>2, <2>1
<1>3. \A T \in SUBSET K : T \in H
  <2> SUFFICES ASSUME NEW T \in SUBSET K PROVE T \in H
    OBVIOUS
  <2>1. IsFiniteSet(T)
    BY FS_Subset DEF Summable
  <2>2. \A U \in SUBSET T, x \in T : U \in H /\ x \notin U => U \cup {x} \in H
    BY <1>2
  <2> HIDE DEF H
  <2> QED BY <1>1, <2>1, <2>2, SetInduction
<1>4. ASSUME NEW x \in K PROVE f[x] <= SumOver(f, K)
  <2>1. SumOver(f, K) = f[x] + SumOver(f, K \ {x})
    BY SumLess
  <2>2. SumOver(f, K \ {x}) \in Nat
    BY <1>3
  <2> QED BY <2>1, <2>2
<1>5. SumOver(f, K) \in Nat
  BY <1>3
<1> QED BY <1>4, <1>5

(* The sum depends on the terms only.                                      *)
LEMMA SumSame ==
  ASSUME NEW f, NEW g, NEW K, Summable(f, K), Summable(g, K), \A x \in K : f[x] = g[x]
  PROVE  SumOver(f, K) = SumOver(g, K)
<1> DEFINE H == {T \in SUBSET K : SumOver(f, T) = SumOver(g, T)}
<1>1. {} \in H
  BY SumFacts
<1>2. ASSUME NEW T \in SUBSET K, NEW x \in K, T \in H, x \notin T PROVE T \cup {x} \in H
  <2>1. SumOver(f, T \cup {x}) = f[x] + SumOver(f, T)
    BY <1>2, SumFacts
  <2>2. SumOver(g, T \cup {x}) = g[x] + SumOver(g, T)
    BY <1>2, SumFacts
  <2> QED BY <1>2, <2>1, <2>2
<1> HIDE DEF H
<1>3. K \in H
  BY <1>1, <1>2, SetInduction DEF Summable
<1> QED BY <1>3 DEF H

(* The sum of the sums of two functions, and of the products with a number. *)
LEMMA SumPlus ==
  ASSUME NEW f, NEW g, NEW h, NEW K, Summable(f, K), Summable(g, K), Summable(h, K),
         \A x \in K : h[x] = f[x] + g[x]
  PROVE  SumOver(h, K) = SumOver(f, K) + SumOver(g, K)
<1> DEFINE H == {T \in SUBSET K : SumOver(h, T) = SumOver(f, T) + SumOver(g, T)}
<1>1. {} \in H
  BY SumFacts
<1>2. ASSUME NEW T \in SUBSET K, NEW x \in K, T \in H, x \notin T PROVE T \cup {x} \in H
  <2>1. SumOver(f, T \cup {x}) = f[x] + SumOver(f, T) /\ SumOver(f, T) \in Int /\ f[x] \in Int
    <3>1. Summable(f, T) /\ SumOver(f, T \cup {x}) = f[x] + SumOver(f, T)
      BY <1>2, SumFacts
    <3>2. SumOver(f, T) \in Int
      BY <3>1, SumFacts
    <3> QED BY <3>1, <3>2 DEF Summable
  <2>2. SumOver(g, T \cup {x}) = g[x] + SumOver(g, T) /\ SumOver(g, T) \in Int /\ g[x] \in Int
    <3>1. Summable(g, T) /\ SumOver(g, T \cup {x}) = g[x] + SumOver(g, T)
      BY <1>2, SumFacts
    <3>2. SumOver(g, T) \in Int
      BY <3>1, SumFacts
    <3> QED BY <3>1, <3>2 DEF Summable
  <2>3. SumOver(h, T \cup {x}) = h[x] + SumOver(h, T)
    BY <1>2, SumFacts
  <2>4. h[x] = f[x] + g[x] /\ SumOver(h, T) = SumOver(f, T) + SumOver(g, T)
    BY <1>2
  <2>5. SumOver(h, T \cup {x}) = SumOver(f, T \cup {x}) + SumOver(g, T \cup {x})
    BY ONLY <2>1, <2>2, <2>3, <2>4
  <2> QED BY <2>5
<1> HIDE DEF H
<1>3. K \in H
  BY <1>1, <1>2, SetInduction DEF Summable
<1> QED BY <1>3 DEF H

LEMMA SumTimes ==
  ASSUME NEW f, NEW h, NEW K, NEW c \in Int, Summable(f, K), Summable(h, K),
         \A x \in K : h[x] = c * f[x]
  PROVE  SumOver(h, K) = c * SumOver(f, K)
<1> DEFINE H == {T \in SUBSET K : SumOver(h, T) = c * SumOver(f, T)}
<1>1. {} \in H
  BY SumFacts
<1>2. ASSUME NEW T \in SUBSET K, NEW x \in K, T \in H, x \notin T PROVE T \cup {x} \in H
  <2>1. SumOver(f, T \cup {x}) = f[x] + SumOver(f, T) /\ SumOver(f, T) \in Int /\ f[x] \in Int
    <3>1. Summable(f, T) /\ SumOver(f, T \cup {x}) = f[x] + SumOver(f, T)
      BY <1>2, SumFacts
    <3>2. SumOver(f, T) \in Int
      BY <3>1, SumFacts
    <3> QED BY <3>1, <3>2 DEF Summable
  <2>2. SumOver(h, T \cup {x}) = h[x] + SumOver(h, T)
    BY <1>2, SumFacts
  <2>3. h[x] = c * f[x] /\ SumOver(h, T) = c * SumOver(f, T)
    BY <1>2
  <2>4. \A u, v \in Int : c * (u + v) = c * u + c * v
    OBVIOUS
  <2>5. SumOver(h, T \cup {x}) = c * SumOver(f, T \cup {x})
    BY ONLY <2>1, <2>2, <2>3, <2>4
  <2> QED BY <2>5
<1> HIDE DEF H
<1>3. K \in H
  BY <1>1, <1>2, SetInduction DEF Summable
<1> QED BY <1>3 DEF H

(* A table summed by rows or by columns.                                   *)
LEMMA SumSwap ==
  ASSUME NEW K, IsFiniteSet(K), NEW L, IsFiniteSet(L), NEW t \in [K -> [L -> Int]]
  PROVE  SumOver([x \in K |-> SumOver(t[x], L)], K)
           = SumOver([y \in L |-> SumOver([x \in K |-> t[x][y]], K)], L)
<1> DEFINE rows == [x \in K |-> SumOver(t[x], L)]
           col(y) == [x \in K |-> t[x][y]]
           cols(T) == [y \in L |-> SumOver(col(y), T)]
           H == {T \in SUBSET K : SumOver(rows, T) = SumOver(cols(T), L)}
<1> SUFFICES SumOver(rows, K) = SumOver(cols(K), L)
  OBVIOUS
<1>a. \A x \in K : Summable(t[x], L)
  BY DEF Summable
<1>b. \A y \in L : Summable(col(y), K)
  BY DEF Summable
<1>c. Summable(rows, K)
  BY <1>a, SumFacts DEF Summable
<1>d. \A T \in SUBSET K : Summable(cols(T), L)
  <2> SUFFICES ASSUME NEW T \in SUBSET K PROVE Summable(cols(T), L)
    OBVIOUS
  <2>1. \A y \in L : Summable(col(y), T)
    BY <1>b, SumFacts
  <2>2. \A y \in L : SumOver(col(y), T) \in Int
    BY <2>1, SumFacts
  <2> QED BY <2>2 DEF Summable
<1>e. \A T \in SUBSET K, y \in L : cols(T)[y] = SumOver(col(y), T)
  OBVIOUS
<1>f. \A x \in K : rows[x] = SumOver(t[x], L)
  OBVIOUS
<1>g. \A x \in K, y \in L : col(y)[x] = t[x][y]
  OBVIOUS
<1> HIDE DEF rows, col, cols
<1>1. {} \in H
  <2>1. \A y \in L : cols({})[y] = 0
    BY <1>b, <1>e, SumFacts
  <2> DEFINE none == [y \in L |-> 0]
  <2>2. Summable(none, L) /\ \A y \in L : none[y] = 0
    BY DEF Summable
  <2>3. none \in [L -> Int] /\ \A y \in L : none[y] = 0 * none[y]
    OBVIOUS
  <2> HIDE DEF none
  <2>4. SumOver(none, L) = 0 * SumOver(none, L) /\ SumOver(none, L) \in Int
    BY <2>2, <2>3, SumTimes, SumFacts
  <2>5. SumOver(cols({}), L) = SumOver(none, L)
    BY <2>1, <2>2, <1>d, SumSame
  <2> QED BY <2>4, <2>5, <1>c, SumFacts
<1>2. ASSUME NEW T \in SUBSET K, NEW x \in K, T \in H, x \notin T PROVE T \cup {x} \in H
  <2> DEFINE U == T \cup {x}
  <2>1. U \in SUBSET K
    OBVIOUS
  <2>2. SumOver(rows, U) = rows[x] + SumOver(rows, T)
    BY <1>2, <1>c, SumFacts
  <2>3. \A y \in L : SumOver(col(y), U) = col(y)[x] + SumOver(col(y), T)
    BY <1>2, <1>b, SumFacts
  <2>4. \A y \in L : cols(U)[y] = t[x][y] + cols(T)[y]
    BY <2>1, <2>3, <1>e, <1>g
  <2> HIDE DEF U
  <2>5. SumOver(cols(U), L) = SumOver(t[x], L) + SumOver(cols(T), L)
    BY <2>1, <2>4, <1>a, <1>d, SumPlus
  <2>6. SumOver(rows, U) = SumOver(cols(U), L)
    BY <2>2, <2>5, <1>2, <1>f
  <2> QED BY <2>1, <2>6 DEF U
<1> HIDE DEF H
<1>3. K \in H
  BY <1>1, <1>2, SetInduction
<1> QED BY <1>3 DEF H

(* A sum lies between as many of the least and of the greatest summand.    *)
LEMMA SumBetween ==
  ASSUME NEW f, NEW K, Summable(f, K), NEW a \in Int, NEW b \in Int, \A x \in K : a <= f[x] /\ f[x] <= b
  PROVE  /\ Cardinality(K) \in Nat /\ SumOver(f, K) \in Int
         /\ a * Cardinality(K) <= SumOver(f, K) /\ SumOver(f, K) <= b * Cardinality(K)
<1> DEFINE Between(T) == a * Cardinality(T) <= SumOver(f, T) /\ SumOver(f, T) <= b * Cardinality(T)
           H == {T \in SUBSET K : Between(T)}
<1>0. IsFiniteSet(K) /\ \A T \in SUBSET K : IsFiniteSet(T) /\ Cardinality(T) \in Nat /\ SumOver(f, T) \in Int
  <2>1. IsFiniteSet(K)
    BY DEF Summable
  <2>2. \A T \in SUBSET K : IsFiniteSet(T)
    BY <2>1, FS_Subset
  <2>3. \A T \in SUBSET K : Summable(f, T)
    BY SumFacts
  <2> QED BY <2>1, <2>2, <2>3, FS_CardinalityType, SumType
<1>1. {} \in H
  BY SumFacts, FS_EmptySet
<1>2. ASSUME NEW T \in SUBSET K, NEW x \in K, T \in H, x \notin T PROVE T \cup {x} \in H
  <2>1. SumOver(f, T \cup {x}) = f[x] + SumOver(f, T) /\ f[x] \in Int
    BY <1>2, SumFacts DEF Summable
  <2>2. Cardinality(T \cup {x}) = Cardinality(T) + 1
    BY <1>0, <1>2, FS_AddElement
  <2>3. a * (Cardinality(T) + 1) = a * Cardinality(T) + a /\ b * (Cardinality(T) + 1) = b * Cardinality(T) + b
    BY <1>0
  <2>4. a * Cardinality(T) \in Int /\ b * Cardinality(T) \in Int /\ Cardinality(T) \in Nat /\ SumOver(f, T) \in Int
    BY <1>0
  <2>5. Between(T) /\ a <= f[x] /\ f[x] <= b
    BY <1>2
  <2>6. a * (Cardinality(T) + 1) <= f[x] + SumOver(f, T) /\ f[x] + SumOver(f, T) <= b * (Cardinality(T) + 1)
    BY <2>1, <2>3, <2>4, <2>5
  <2>7. Between(T \cup {x})
    BY <2>1, <2>2, <2>6
  <2> QED BY <2>7
<1> HIDE DEF H
<1>3. K \in H
  BY <1>0, <1>1, <1>2, SetInduction
<1> QED BY <1>0, <1>3 DEF H

(* Counted by an attribute, the members of a set add up.                   *)
LEMMA CountsAddUp ==
  ASSUME NEW K, IsFiniteSet(K), NEW T, IsFiniteSet(T), NEW first \in [K -> T]
  PROVE  /\ \A t \in T : Cardinality({e \in K : first[e] = t}) \in Nat
         /\ SumOver([t \in T |-> Cardinality({e \in K : first[e] = t})], T) = Cardinality(K)
<1> DEFINE having(U, t) == {e \in U : first[e] = t}
           counts(U) == [t \in T |-> Cardinality(having(U, t))]
           one(y) == [t \in T |-> IF t = y THEN 1 ELSE 0]
           H == {U \in SUBSET K : SumOver(counts(U), T) = Cardinality(U)}
<1>1. ASSUME NEW U \in SUBSET K, NEW t \in T
      PROVE  IsFiniteSet(having(U, t)) /\ Cardinality(having(U, t)) \in Nat
  <2>1. having(U, t) \subseteq K
    OBVIOUS
  <2> HIDE DEF having
  <2> QED BY <2>1, FS_Subset, FS_CardinalityType
<1>2. ASSUME NEW U \in SUBSET K PROVE Summable(counts(U), T)
  <2>1. DOMAIN counts(U) = T /\ \A t \in T : counts(U)[t] = Cardinality(having(U, t))
    OBVIOUS
  <2> HIDE DEF counts, having
  <2>2. \A t \in T : counts(U)[t] \in Int
    BY <1>1, <2>1
  <2> QED BY <2>1, <2>2 DEF Summable
<1>3. ASSUME NEW y \in T PROVE Summable(one(y), T) /\ SumOver(one(y), T) = 1
  <2>1. Summable(one(y), T)
    BY DEF Summable
  <2>2. one(y)[y] = 1 /\ \A t \in T \ {y} : 0 <= one(y)[t] /\ one(y)[t] <= 0
    OBVIOUS
  <2> HIDE DEF one
  <2>3. SumOver(one(y), T) = one(y)[y] + SumOver(one(y), T \ {y})
    BY <2>1, SumLess
  <2>4. Summable(one(y), T \ {y})
    BY <2>1, SumFacts
  <2>5. /\ Cardinality(T \ {y}) \in Nat /\ SumOver(one(y), T \ {y}) \in Int
        /\ 0 * Cardinality(T \ {y}) <= SumOver(one(y), T \ {y})
        /\ SumOver(one(y), T \ {y}) <= 0 * Cardinality(T \ {y})
    BY <2>2, <2>4, SumBetween
  <2> QED BY <2>1, <2>2, <2>3, <2>5
<1>4. {} \in H
  <2>1. \A t \in T : Cardinality(having({}, t)) = 0
    <3>1. \A t \in T : having({}, t) = {}
      OBVIOUS
    <3> QED BY <3>1, FS_EmptySet
  <2>2. \A t \in T : 0 <= counts({})[t] /\ counts({})[t] <= 0
    BY <2>1
  <2>3. Summable(counts({}), T)
    BY <1>2
  <2> HIDE DEF counts
  <2>4. /\ Cardinality(T) \in Nat /\ SumOver(counts({}), T) \in Int
        /\ 0 * Cardinality(T) <= SumOver(counts({}), T) /\ SumOver(counts({}), T) <= 0 * Cardinality(T)
    BY <2>2, <2>3, SumBetween
  <2>5. SumOver(counts({}), T) = 0
    BY <2>4
  <2> QED BY <2>5, FS_EmptySet
<1>5. ASSUME NEW U \in SUBSET K, NEW x \in K, U \in H, x \notin U PROVE U \cup {x} \in H
  <2> DEFINE y == first[x]
             W == U \cup {x}
  <2>1. y \in T /\ W \in SUBSET K
    OBVIOUS
  <2>2. ASSUME NEW t \in T PROVE counts(W)[t] = counts(U)[t] + one(y)[t]
    <3>1. CASE t = y
      <4>1. having(W, t) = having(U, t) \cup {x} /\ x \notin having(U, t)
        BY <1>5, <3>1
      <4>2. IsFiniteSet(having(U, t))
        BY <1>1
      <4>3. Cardinality(having(U, t) \cup {x}) = Cardinality(having(U, t)) + 1
        <5> HIDE DEF having
        <5> QED BY <4>1, <4>2, FS_AddElement
      <4>4. counts(W)[t] = Cardinality(having(W, t)) /\ counts(U)[t] = Cardinality(having(U, t)) /\ one(y)[t] = 1
        BY <3>1
      <4> HIDE DEF counts, one, having
      <4> QED BY <4>1, <4>3, <4>4
    <3>2. CASE t # y
      <4>1. having(W, t) = having(U, t)
        BY <3>2
      <4>2. Cardinality(having(U, t)) \in Nat
        BY <1>1
      <4> QED BY <3>2, <4>1, <4>2
    <3> QED BY <3>1, <3>2
  <2>3. Summable(counts(W), T) /\ Summable(counts(U), T) /\ Summable(one(y), T) /\ SumOver(one(y), T) = 1
    BY <1>2, <1>3, <2>1
  <2> HIDE DEF counts, one, W, y
  <2>4. SumOver(counts(W), T) = SumOver(counts(U), T) + SumOver(one(y), T)
    BY <2>2, <2>3, SumPlus
  <2>5. IsFiniteSet(U)
    BY FS_Subset
  <2>6. Cardinality(W) = Cardinality(U) + 1
    BY <1>5, <2>5, FS_AddElement DEF W
  <2> QED BY <1>5, <2>1, <2>3, <2>4, <2>6 DEF W
<1>6. K \in H
  <2> HIDE DEF H
  <2> QED BY <1>4, <1>5, SetInduction
<1>7. SumOver(counts(K), T) = Cardinality(K)
  BY <1>6
<1> QED BY <1>1, <1>7

-----------------------------------------------------------------------------
(* A function on the numbers may be defined by recursion.                  *)
Recurs(V, a, step, g) ==
  g \in [Nat -> V] /\ g[0] = a /\ \A n \in Nat : g[n + 1] = step[n][g[n]]
LEMMA Recursion ==
  ASSUME NEW V, NEW a \in V, NEW step \in [Nat -> [V -> V]]
  PROVE  \E g : Recurs(V, a, step, g)
<1> DEFINE Follows(g, n) == g[0] = a /\ \A k \in Nat : k < n => g[k + 1] = step[k][g[k]]
           N == {n \in Nat : \E g \in [Nat -> V] : Follows(g, n)}
<1>1. 0 \in N
  <2>1. [n \in Nat |-> a] \in [Nat -> V] /\ Follows([n \in Nat |-> a], 0)
    OBVIOUS
  <2> QED BY <2>1
<1>2. ASSUME NEW n \in Nat, n \in N PROVE n + 1 \in N
  <2>1. PICK g \in [Nat -> V] : Follows(g, n)
    BY <1>2
  <2> DEFINE h == [k \in Nat |-> IF k = n + 1 THEN step[n][g[n]] ELSE g[k]]
  <2>2. h \in [Nat -> V]
    OBVIOUS
  <2>3. h[n + 1] = step[n][g[n]] /\ \A k \in Nat : k <= n => h[k] = g[k]
    OBVIOUS
  <2> HIDE DEF h
  <2>4. h[0] = a
    BY <2>1, <2>3
  <2>5. ASSUME NEW k \in Nat, k < n + 1 PROVE h[k + 1] = step[k][h[k]]
    <3>1. CASE k = n
      BY <2>3, <3>1
    <3>2. CASE k # n
      <4>1. k < n /\ k + 1 <= n /\ k <= n /\ k + 1 \in Nat
        BY <2>5, <3>2
      <4>2. g[k + 1] = step[k][g[k]]
        BY <2>1, <4>1
      <4> QED BY <2>3, <4>1, <4>2
    <3> QED BY <3>1, <3>2
  <2>6. Follows(h, n + 1)
    BY <2>4, <2>5
  <2> QED BY <2>2, <2>6
<1>3. \A n \in Nat : \E g \in [Nat -> V] : Follows(g, n)
  <2> HIDE DEF N
  <2>1. Nat \subseteq N
    BY <1>1, <1>2, NumberInduction
  <2> QED BY <2>1 DEF N
<1> DEFINE upto(n) == CHOOSE g \in [Nat -> V] : Follows(g, n)
           whole == [n \in Nat |-> upto(n)[n]]
<1>4. \A n \in Nat : upto(n) \in [Nat -> V] /\ Follows(upto(n), n)
  BY <1>3
<1> HIDE DEF upto
<1>5. ASSUME NEW m \in Nat, NEW n \in Nat, m <= n PROVE upto(m)[m] = upto(n)[m]
  <2> DEFINE g == upto(m)
             h == upto(n)
             M == {k \in Nat : k <= m => g[k] = h[k]}
  <2>0. Follows(g, m) /\ Follows(h, n)
    BY <1>4
  <2> HIDE DEF g, h
  <2>1. 0 \in M
    BY <2>0
  <2>2. ASSUME NEW k \in Nat, k \in M PROVE k + 1 \in M
    <3> SUFFICES ASSUME k + 1 <= m PROVE g[k + 1] = h[k + 1]
      OBVIOUS
    <3>1. k < m /\ k < n /\ k <= m
      BY <1>5
    <3> QED BY <2>0, <2>2, <3>1
  <2> HIDE DEF M
  <2>3. m \in M
    BY <2>1, <2>2, NumberInduction
  <2> QED BY <2>3 DEF M, g, h
<1>6. whole \in [Nat -> V]
  BY <1>4
<1>7. \A n \in Nat : whole[n] = upto(n)[n]
  OBVIOUS
<1> HIDE DEF whole
<1>8. whole[0] = a
  BY <1>4, <1>7
<1>9. ASSUME NEW n \in Nat PROVE whole[n + 1] = step[n][whole[n]]
  <2>1. n + 1 \in Nat /\ n <= n + 1 /\ n < n + 1
    OBVIOUS
  <2>2. upto(n + 1)[n + 1] = step[n][upto(n + 1)[n]]
    BY <1>4, <2>1
  <2>3. upto(n)[n] = upto(n + 1)[n]
    BY <1>5, <2>1
  <2> QED BY <1>7, <2>1, <2>2, <2>3
<1> QED BY <1>6, <1>8, <1>9 DEF Recurs

-----------------------------------------------------------------------------
(* A relation orders a set strictly; the members below one, and its rank.  *)
Orders(R, S) ==
  /\ \A a \in S : <<a, a>> \notin R
  /\ \A a, b \in S : a = b \/ <<a, b>> \in R \/ <<b, a>> \in R
  /\ \A a, b, c \in S : <<a, b>> \in R /\ <<b, c>> \in R => <<a, c>> \in R
Below(a, R, S) == {b \in S : <<b, a>> \in R}
RankOf(a, R, S) == Cardinality(Below(a, R, S))

LEMMA RankBounds ==
  ASSUME NEW S, IsFiniteSet(S), NEW R, Orders(R, S)
  PROVE  /\ Cardinality(S) \in Nat
         /\ \A a \in S : /\ IsFiniteSet(Below(a, R, S)) /\ RankOf(a, R, S) \in Nat
                         /\ RankOf(a, R, S) < Cardinality(S)
         /\ \A a, b \in S : <<a, b>> \in R => RankOf(a, R, S) < RankOf(b, R, S)
         /\ \A a, b \in S : RankOf(a, R, S) = RankOf(b, R, S) => a = b
<1> DEFINE n == Cardinality(S)
           below(a) == Below(a, R, S)
           rank(a) == RankOf(a, R, S)
<1>1. n \in Nat
  BY FS_CardinalityType
<1>2. \A a \in S : IsFiniteSet(below(a)) /\ rank(a) \in Nat /\ rank(a) < n
  <2> TAKE a \in S
  <2>1. below(a) \in SUBSET S /\ a \notin below(a)
    BY DEF Below, Orders
  <2>2. rank(a) = Cardinality(below(a))
    BY DEF RankOf
  <2> HIDE DEF below, rank
  <2>3. IsFiniteSet(below(a)) /\ Cardinality(below(a)) <= n /\ (Cardinality(below(a)) = n => below(a) = S)
    BY <2>1, FS_Subset
  <2> QED BY <1>1, <2>1, <2>2, <2>3, FS_CardinalityType
<1>3. \A a, b \in S : <<a, b>> \in R => rank(a) < rank(b)
  <2> SUFFICES ASSUME NEW a \in S, NEW b \in S, <<a, b>> \in R PROVE rank(a) < rank(b)
    OBVIOUS
  <2>1. below(a) \in SUBSET below(b) /\ a \in below(b) /\ a \notin below(a)
    BY DEF Below, Orders
  <2>2. IsFiniteSet(below(b)) /\ rank(a) \in Nat /\ rank(b) \in Nat
    BY <1>2
  <2>3. rank(a) = Cardinality(below(a)) /\ rank(b) = Cardinality(below(b))
    BY DEF RankOf
  <2> HIDE DEF below, rank
  <2>4. rank(a) <= rank(b) /\ (rank(a) = rank(b) => below(a) = below(b))
    BY <2>1, <2>2, <2>3, FS_Subset
  <2> QED BY <2>1, <2>2, <2>4
<1>4. \A a, b \in S : rank(a) = rank(b) => a = b
  <2> HIDE DEF rank
  <2> SUFFICES ASSUME NEW a \in S, NEW b \in S, rank(a) = rank(b), a # b PROVE FALSE
    OBVIOUS
  <2>1. <<a, b>> \in R \/ <<b, a>> \in R
    BY DEF Orders
  <2> QED BY <1>2, <1>3, <2>1
<1> QED BY <1>1, <1>2, <1>3, <1>4

(* Every rank has its member.                                              *)
LEMMA RanksFilled ==
  ASSUME NEW S, IsFiniteSet(S), NEW R, Orders(R, S)
  PROVE  \A i \in 1..Cardinality(S) : \E a \in S : RankOf(a, R, S) = i - 1
<1> DEFINE n == Cardinality(S)
           f == [a \in S |-> RankOf(a, R, S) + 1]
<1>1. n \in Nat /\ \A a \in S : RankOf(a, R, S) \in Nat /\ RankOf(a, R, S) < n
  BY RankBounds
<1>2. f \in [S -> 1..n]
  BY <1>1
<1>3. \A a, b \in S : f[a] = f[b] => a = b
  <2> SUFFICES ASSUME NEW a \in S, NEW b \in S, f[a] = f[b] PROVE a = b
    OBVIOUS
  <2>1. RankOf(a, R, S) + 1 = RankOf(b, R, S) + 1
    OBVIOUS
  <2> QED BY <1>1, <2>1, RankBounds
<1>4. f \in Injection(S, 1..n)
  BY <1>2, <1>3 DEF Injection, IsInjective
<1>5. IsFiniteSet(1..n) /\ Cardinality(1..n) = n
  BY <1>1, FS_Interval
<1>6. f \in Surjection(S, 1..n)
  BY <1>4, <1>5, FS_Injection
<1> SUFFICES ASSUME NEW i \in 1..n PROVE \E a \in S : RankOf(a, R, S) = i - 1
  OBVIOUS
<1>7. PICK a \in S : f[a] = i
  BY <1>6 DEF Surjection
<1>8. RankOf(a, R, S) + 1 = i /\ RankOf(a, R, S) \in Nat
  BY <1>1, <1>7
<1> QED BY <1>8

(* So the members by rank are the sorted sequence of the set.              *)
ByRank(s, R, S) ==
  s \in [1..Cardinality(S) -> S] /\ \A i \in 1..Cardinality(S) : RankOf(s[i], R, S) = i - 1
LEMMA RanksSorted ==
  ASSUME NEW S, IsFiniteSet(S), NEW R, Orders(R, S), NEW s, ByRank(s, R, S)
  PROVE  /\ s \in Seq(S) /\ Len(s) = Cardinality(S) /\ ToSet(s) = S
         /\ \A i, j \in 1..Len(s) : i < j => <<s[i], s[j]>> \in R
         /\ \A i, j \in 1..Len(s) : s[i] = s[j] => i = j
<1> DEFINE n == Cardinality(S)
<1>1. n \in Nat
  BY RankBounds
<1>2. s \in Seq(S) /\ Len(s) = n
  <2>1. s \in [1..n -> S]
    BY DEF ByRank
  <2> QED BY <1>1, <2>1, SeqDef, LenProperties
<1>a. \A i \in 1..n : s[i] \in S /\ RankOf(s[i], R, S) = i - 1
  BY DEF ByRank
<1>3. ToSet(s) = S
  <2>1. ToSet(s) = {s[i] : i \in 1..n}
    BY <1>2, ElementsIs
  <2>2. \A a \in S : \E i \in 1..n : s[i] = a
    <3> SUFFICES ASSUME NEW a \in S PROVE \E i \in 1..n : s[i] = a
      OBVIOUS
    <3> DEFINE i == RankOf(a, R, S) + 1
    <3>1. i \in 1..n /\ RankOf(a, R, S) \in Nat /\ i - 1 = RankOf(a, R, S)
      BY <1>1, RankBounds
    <3>2. s[i] \in S /\ RankOf(s[i], R, S) = RankOf(a, R, S)
      BY <1>a, <3>1
    <3> QED BY <3>1, <3>2, RankBounds
  <2> QED BY <2>1, <2>2, <1>a
<1>4. \A i, j \in 1..n : i < j => <<s[i], s[j]>> \in R
  <2> SUFFICES ASSUME NEW i \in 1..n, NEW j \in 1..n, i < j PROVE <<s[i], s[j]>> \in R
    OBVIOUS
  <2>1. s[i] \in S /\ s[j] \in S /\ RankOf(s[i], R, S) = i - 1 /\ RankOf(s[j], R, S) = j - 1
    BY <1>a
  <2>2. ~(j - 1 < i - 1) /\ i - 1 # j - 1
    BY <1>1
  <2>3. s[i] # s[j] /\ <<s[j], s[i]>> \notin R
    BY <2>1, <2>2, RankBounds
  <2> QED BY <2>1, <2>3 DEF Orders
<1>5. \A i, j \in 1..n : s[i] = s[j] => i = j
  <2> SUFFICES ASSUME NEW i \in 1..n, NEW j \in 1..n, s[i] = s[j] PROVE i = j
    OBVIOUS
  <2>1. i - 1 = j - 1
    BY <1>a
  <2> QED BY <1>1, <2>1
<1> QED BY <1>2, <1>3, <1>4, <1>5

(* A set moved in order is sorted into what the sorted sequence is moved   *)
(* to.                                                                     *)
LEMMA RankMoved ==
  ASSUME NEW S, IsFiniteSet(S), NEW R, Orders(R, S), NEW T, NEW Q,
         NEW move \in Bijection(S, T),
         \A a, b \in S : <<a, b>> \in R <=> <<move[a], move[b]>> \in Q
  PROVE  /\ IsFiniteSet(T) /\ Cardinality(T) = Cardinality(S) /\ Orders(Q, T)
         /\ \A a \in S : RankOf(move[a], Q, T) = RankOf(a, R, S)
<1>1. /\ move \in [S -> T] /\ \A a, b \in S : move[a] = move[b] => a = b
      /\ \A t \in T : \E a \in S : move[a] = t
  BY DEF Bijection, Injection, Surjection, IsInjective
<1>2. IsFiniteSet(T) /\ Cardinality(T) = Cardinality(S)
  BY FS_Bijection DEF ExistsBijection
<1>3. Orders(Q, T)
  <2>1. ASSUME NEW t \in T PROVE <<t, t>> \notin Q
    <3>1. PICK a \in S : move[a] = t
      BY <1>1
    <3> QED BY <3>1 DEF Orders
  <2>2. ASSUME NEW t \in T, NEW u \in T PROVE t = u \/ <<t, u>> \in Q \/ <<u, t>> \in Q
    <3>1. PICK a \in S : move[a] = t
      BY <1>1
    <3>2. PICK b \in S : move[b] = u
      BY <1>1
    <3> QED BY <3>1, <3>2 DEF Orders
  <2>3. ASSUME NEW t \in T, NEW u \in T, NEW v \in T, <<t, u>> \in Q, <<u, v>> \in Q PROVE <<t, v>> \in Q
    <3>1. PICK a \in S : move[a] = t
      BY <1>1
    <3>2. PICK b \in S : move[b] = u
      BY <1>1
    <3>3. PICK c \in S : move[c] = v
      BY <1>1
    <3> QED BY <2>3, <3>1, <3>2, <3>3 DEF Orders
  <2> QED BY <2>1, <2>2, <2>3 DEF Orders
<1>4. ASSUME NEW a \in S PROVE RankOf(move[a], Q, T) = RankOf(a, R, S)
  <2> DEFINE A == Below(a, R, S)
             B == Below(move[a], Q, T)
             g == [b \in A |-> move[b]]
  <2>1. IsFiniteSet(A)
    BY RankBounds
  <2>2. A \subseteq S /\ \A b \in S : b \in A <=> <<b, a>> \in R
    BY DEF Below
  <2>3. B \subseteq T /\ \A t \in T : t \in B <=> <<t, move[a]>> \in Q
    BY DEF Below
  <2> HIDE DEF A, B
  <2>4. g \in [A -> B]
    BY <1>1, <2>2, <2>3
  <2>5. \A b, c \in A : g[b] = g[c] => b = c
    BY <1>1, <2>2
  <2>6. \A t \in B : \E b \in A : g[b] = t
    <3> SUFFICES ASSUME NEW t \in B PROVE \E b \in A : g[b] = t
      OBVIOUS
    <3>1. PICK b \in S : move[b] = t
      BY <1>1, <2>3
    <3> QED BY <2>2, <2>3, <3>1
  <2>7. g \in Bijection(A, B)
    BY <2>4, <2>5, <2>6 DEF Bijection, Injection, Surjection, IsInjective
  <2>8. Cardinality(A) = Cardinality(B)
    BY <2>1, <2>7, FS_Bijection DEF ExistsBijection
  <2> QED BY <2>8 DEF RankOf, A, B
<1> QED BY <1>2, <1>3, <1>4

-----------------------------------------------------------------------------
(* The greatest of a finite set of numbers; and of the first n.            *)
LEMMA MaxIs ==
  ASSUME NEW T, T \subseteq Int, T # {}, IsFiniteSet(T)
  PROVE  Max(T) \in T /\ \A x \in T : x <= Max(T)
<1>2. \E x \in T : \A y \in T : x >= y
  BY LeastOfFinite
<1>3. Max(T) \in T /\ \A y \in T : Max(T) >= y
  BY <1>2 DEF Max
<1> QED BY <1>3

LEMMA MaxOfPlaces ==
  ASSUME NEW n \in Nat, NEW T \in SUBSET (1..n), T # {}
  PROVE  Max(T) \in T /\ \A x \in T : x <= Max(T)
<1>1. T \subseteq Int
  OBVIOUS
<1>2. IsFiniteSet(1..n)
  BY FS_Interval
<1>3. IsFiniteSet(T)
  BY <1>2, FS_Subset
<1> QED BY <1>1, <1>3, MaxIs

LEMMA MaxOfFirst ==
  ASSUME NEW n \in Nat
  PROVE  Max(1..(n + 1)) = n + 1 /\ (1..(n + 1)) \ {n + 1} = 1..n
<1>1. \A x \in 1..(n + 1) : x <= n + 1
  OBVIOUS
<1>2. IsFiniteSet(1..(n + 1))
  BY FS_Interval
<1>3. Max(1..(n + 1)) \in 1..(n + 1) /\ \A x \in 1..(n + 1) : x <= Max(1..(n + 1))
  BY <1>2, MaxIs
<1> QED BY <1>1, <1>3

(* FoldLeft takes the last place away first.  A fold of n places whose     *)
(* every step stays in V exists; and it goes from the first place to the   *)
(* last.                                                                   *)
Folding(a, step, g, T) == IF T = {} THEN a ELSE step[Max(T)][g[T \ {Max(T)}]]
FoldsTo(V, n, a, step, g) ==
  g \in [SUBSET (1..n) -> V] /\ \A T \in SUBSET (1..n) : g[T] = Folding(a, step, g, T)
LEMMA FoldExists ==
  ASSUME NEW V, NEW a \in V, NEW n \in Nat, NEW step \in [1..n -> [V -> V]]
  PROVE  \E g : FoldsTo(V, n, a, step, g)
<1> DEFINE K == 1..n
           pick == [T \in SUBSET K |-> Max(T)]
<1>1. IsFiniteSet(K) /\ K \subseteq Int /\ step \in [K -> [V -> V]]
  BY FS_Interval
<1>b. \A g : g \in [SUBSET K -> V] /\ (\A T \in SUBSET K : g[T] = Folding(a, step, g, T))
              => FoldsTo(V, n, a, step, g)
  BY DEF FoldsTo
<1> HIDE DEF K
<1>2. ASSUME NEW T \in SUBSET K, T # {} PROVE pick[T] \in T
  <2>1. T \subseteq Int /\ IsFiniteSet(T)
    BY <1>1, FS_Subset
  <2> QED BY <1>2, <2>1, MaxIs
<1>3. Picks(pick, K) /\ \A T \in SUBSET K : pick[T] = Max(T)
  BY <1>2 DEF Picks
<1> HIDE DEF pick
<1>a. PICK g : TakesFrom(V, K, a, step, pick, g)
  BY <1>1, <1>3, SetRecursion
<1>4. g \in [SUBSET K -> V] /\ \A T \in SUBSET K : g[T] = Taking(a, step, pick, g, T)
  BY <1>a DEF TakesFrom
<1>5. ASSUME NEW T \in SUBSET K PROVE g[T] = Folding(a, step, g, T)
  BY <1>3, <1>4 DEF Taking, Folding
<1> QED BY <1>b, <1>4, <1>5

FoldsUp(V, n, a, step, g) ==
  /\ g[{}] = a
  /\ \A T \in SUBSET (1..n) : T # {} /\ g[T \ {Max(T)}] \in V => g[T] = step[Max(T)][g[T \ {Max(T)}]]
FoldRuns(V, n, a, step, g) ==
  /\ g[1..0] = a
  /\ \A k \in 0..n : g[1..k] \in V
  /\ \A k \in 0..(n - 1) : g[1..(k + 1)] = step[k + 1][g[1..k]]
LEMMA FoldSteps ==
  ASSUME NEW V, NEW a \in V, NEW n \in Nat, NEW step \in [1..n -> [V -> V]], NEW g,
         FoldsUp(V, n, a, step, g)
  PROVE  FoldRuns(V, n, a, step, g)
<1> DEFINE N == {k \in Nat : k <= n => g[1..k] \in V}
<1>1. g[1..0] = a
  <2>1. 1..0 = {}
    OBVIOUS
  <2> QED BY <2>1 DEF FoldsUp
<1>2. ASSUME NEW k \in Nat, k < n, g[1..k] \in V PROVE g[1..(k + 1)] = step[k + 1][g[1..k]]
  <2>0. k + 1 <= n
    BY <1>2
  <2>1. 1..(k + 1) \in SUBSET (1..n) /\ 1..(k + 1) # {}
    <3>1. \A x \in 1..(k + 1) : x \in 1..n
      BY <2>0
    <3>2. 1 \in 1..(k + 1)
      OBVIOUS
    <3> QED BY <3>1, <3>2
  <2>2. Max(1..(k + 1)) = k + 1 /\ (1..(k + 1)) \ {k + 1} = 1..k
    BY MaxOfFirst
  <2> QED BY <1>2, <2>1, <2>2 DEF FoldsUp
<1>3. 0 \in N
  BY <1>1
<1>4. ASSUME NEW k \in Nat, k \in N PROVE k + 1 \in N
  <2> SUFFICES ASSUME k + 1 <= n PROVE g[1..(k + 1)] \in V
    OBVIOUS
  <2>1. k < n /\ k <= n /\ k + 1 \in 1..n
    OBVIOUS
  <2>2. g[1..(k + 1)] = step[k + 1][g[1..k]] /\ g[1..k] \in V
    BY <1>2, <1>4, <2>1
  <2> QED BY <2>1, <2>2
<1> HIDE DEF N
<1>5. Nat \subseteq N
  BY <1>3, <1>4, NumberInduction
<1>6. \A k \in 0..n : g[1..k] \in V
  BY <1>5 DEF N
<1>7. ASSUME NEW k \in 0..(n - 1) PROVE g[1..(k + 1)] = step[k + 1][g[1..k]]
  BY <1>2, <1>6
<1> QED BY <1>1, <1>6, <1>7 DEF FoldRuns
=============================================================================
