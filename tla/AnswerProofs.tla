---------------------------- MODULE AnswerProofs -----------------------------
(***************************************************************************)
(* Theorems about what is answered.  The correlation cores, each for every *)
(* value of the constants: the backtest of the source forecast, the chance *)
(* of a peak, the lineages of the clusters from fit to fit, and the tactic *)
(* sequences with the model fitted to them.  And the tools: no answer of   *)
(* one is blind to a source that failed, and more evidence never makes a   *)
(* verdict milder.                                                         *)
(***************************************************************************)
EXTENDS CoreQuestions, ToolAnswers, DataLemmas

-----------------------------------------------------------------------------
(* CoreQuestions: a backtest.                                              *)
(* What is predicted at a cutoff depends on the training rows alone.       *)
Predicted(rows, c) == Point(rows, c, 1, 1).predicted
LEMMA PointBefore ==
  ASSUME NEW a, NEW b, NEW c, Training(a, c) = Training(b, c)
  PROVE  Predicted(a, c) = Predicted(b, c)
<1>1. Timeline(a, c) = Timeline(b, c)
  <2>1. Ordered(a, c) = Ordered(b, c)
    BY DEF Ordered
  <2> QED BY <2>1 DEF Timeline
<1>2. Persistence(a, c) = Persistence(b, c)
  BY <1>1 DEF Persistence
<1>3. Ranked(a, c) = Ranked(b, c)
  BY <1>1 DEF Ranked
<1>4. MostFrequent(a, c) = MostFrequent(b, c)
  BY DEF MostFrequent
<1> QED BY <1>2, <1>3, <1>4 DEF Point, Predicted

(* What trains a prediction of sources, or of countries, is in the rows     *)
(* from before the cutoff.                                                 *)
LEMMA TrainedBySource ==
  ASSUME NEW Q, NEW c, NEW x
  PROVE  x \in Training(BySource(Q), c) <=> \E r \in Q : x = [at |-> r.at, value |-> r.source] /\ r.at < c
<1>1. x \in Training(BySource(Q), c) <=> x \in BySource(Q) /\ x.at < c
  BY DEF Training
<1>2. x \in BySource(Q) <=> \E r \in Q : x = [at |-> r.at, value |-> r.source]
  BY DEF BySource
<1>3. \A r : [at |-> r.at, value |-> r.source].at = r.at
  OBVIOUS
<1> QED BY <1>1, <1>2, <1>3

LEMMA TrainedByCountry ==
  ASSUME NEW Q, NEW c, NEW x
  PROVE  x \in Training(ByCountry(Q), c)
           <=> \E r \in Q : r.country # NoTarget /\ x = [at |-> r.at, value |-> r.country] /\ r.at < c
<1>1. x \in Training(ByCountry(Q), c) <=> x \in ByCountry(Q) /\ x.at < c
  BY DEF Training
<1>2. x \in ByCountry(Q) <=> \E r \in {q \in Q : q.country # NoTarget} : x = [at |-> r.at, value |-> r.country]
  BY DEF ByCountry
<1>3. \A r : [at |-> r.at, value |-> r.country].at = r.at
  OBVIOUS
<1>4. \A r : r \in {q \in Q : q.country # NoTarget} <=> r \in Q /\ r.country # NoTarget
  OBVIOUS
<1> QED BY <1>1, <1>2, <1>3, <1>4

LEMMA SourcesBefore ==
  ASSUME NEW rows, NEW c, NEW seen, seen = {r \in rows : r.at < c}
  PROVE  /\ Training(BySource(seen), c) = Training(BySource(rows), c)
         /\ Training(ByCountry(seen), c) = Training(ByCountry(rows), c)
<1>1. \A r : r \in seen <=> r \in rows /\ r.at < c
  OBVIOUS
<1>2. Training(BySource(seen), c) = Training(BySource(rows), c)
  <2>1. ASSUME NEW x PROVE x \in Training(BySource(seen), c) <=> x \in Training(BySource(rows), c)
    <3>1. x \in Training(BySource(seen), c)
            <=> \E r \in seen : x = [at |-> r.at, value |-> r.source] /\ r.at < c
      BY TrainedBySource
    <3>2. x \in Training(BySource(rows), c)
            <=> \E r \in rows : x = [at |-> r.at, value |-> r.source] /\ r.at < c
      BY TrainedBySource
    <3> QED BY <1>1, <3>1, <3>2
  <2>2. /\ Training(BySource(seen), c) \subseteq Training(BySource(rows), c)
        /\ Training(BySource(rows), c) \subseteq Training(BySource(seen), c)
    BY <2>1
  <2> QED BY <2>2
<1>3. Training(ByCountry(seen), c) = Training(ByCountry(rows), c)
  <2>1. ASSUME NEW x PROVE x \in Training(ByCountry(seen), c) <=> x \in Training(ByCountry(rows), c)
    <3>1. x \in Training(ByCountry(seen), c)
            <=> \E r \in seen : r.country # NoTarget /\ x = [at |-> r.at, value |-> r.country] /\ r.at < c
      BY TrainedByCountry
    <3>2. x \in Training(ByCountry(rows), c)
            <=> \E r \in rows : r.country # NoTarget /\ x = [at |-> r.at, value |-> r.country] /\ r.at < c
      BY TrainedByCountry
    <3> QED BY <1>1, <3>1, <3>2
  <2>2. /\ Training(ByCountry(seen), c) \subseteq Training(ByCountry(rows), c)
        /\ Training(ByCountry(rows), c) \subseteq Training(ByCountry(seen), c)
    BY <2>1
  <2> QED BY <2>2
<1> QED BY <1>2, <1>3

(* An evaluation has, at a cutoff, the points of both kinds of row.        *)
LEMMA EvaluationIs ==
  ASSUME NEW rows, NEW cutoffs, NEW c \in DOMAIN EvaluateRolling(rows, cutoffs, 1, 1, 0)
  PROVE  /\ EvaluateRolling(rows, cutoffs, 1, 1, 0)[c].source = Point(BySource(rows), c, 1, 1)
         /\ EvaluateRolling(rows, cutoffs, 1, 1, 0)[c].country = Point(ByCountry(rows), c, 1, 1)
<1>1. PICK p : p = Point(BySource(rows), c, 1, 1)
  OBVIOUS
<1>2. PICK q : q = Point(ByCountry(rows), c, 1, 1)
  OBVIOUS
<1>3. EvaluateRolling(rows, cutoffs, 1, 1, 0)[c] = [source |-> Point(BySource(rows), c, 1, 1),
                                                    country |-> Point(ByCountry(rows), c, 1, 1)]
  BY DEF EvaluateRolling
<1>4. EvaluateRolling(rows, cutoffs, 1, 1, 0)[c] = [source |-> p, country |-> q]
  BY ONLY <1>1, <1>2, <1>3
<1>5. [source |-> p, country |-> q].source = p /\ [source |-> p, country |-> q].country = q
  OBVIOUS
<1> QED BY ONLY <1>1, <1>2, <1>4, <1>5

(* What a backtest predicts at a cutoff is what it would have predicted    *)
(* with nothing stored from then on: BacktestBlind of CoreQuestions, for   *)
(* any rows and cutoffs.                                                   *)
THEOREM BacktestsAreBlind == CoresSpec => []BacktestBlind
<1>1. BacktestBlind
  <2>1. ASSUME NEW rows, NEW c \in DOMAIN EvaluateRolling(rows, Cutoffs, 1, 1, 0),
               NEW seen, seen = {r \in rows : r.at < c}
        PROVE  /\ EvaluateRolling(rows, Cutoffs, 1, 1, 0)[c].source.predicted
                    = Point(BySource(seen), c, 1, 1).predicted
               /\ EvaluateRolling(rows, Cutoffs, 1, 1, 0)[c].country.predicted
                    = Point(ByCountry(seen), c, 1, 1).predicted
    <3>1. /\ Training(BySource(seen), c) = Training(BySource(rows), c)
          /\ Training(ByCountry(seen), c) = Training(ByCountry(rows), c)
      BY <2>1, SourcesBefore
    <3>2. /\ Point(BySource(rows), c, 1, 1).predicted = Point(BySource(seen), c, 1, 1).predicted
          /\ Point(ByCountry(rows), c, 1, 1).predicted = Point(ByCountry(seen), c, 1, 1).predicted
      <4>1. /\ Predicted(BySource(rows), c) = Predicted(BySource(seen), c)
            /\ Predicted(ByCountry(rows), c) = Predicted(ByCountry(seen), c)
        BY ONLY <3>1, PointBefore
      <4> QED BY <4>1 DEF Predicted
    <3>3. /\ EvaluateRolling(rows, Cutoffs, 1, 1, 0)[c].source = Point(BySource(rows), c, 1, 1)
          /\ EvaluateRolling(rows, Cutoffs, 1, 1, 0)[c].country = Point(ByCountry(rows), c, 1, 1)
      BY EvaluationIs
    <3> QED BY ONLY <3>2, <3>3
  <2>2. ASSUME NEW c \in DOMAIN EvaluateRolling(question.rows, Cutoffs, 1, 1, 0)
        PROVE  LET seen == {r \in question.rows : r.at < c}
               IN  /\ EvaluateRolling(question.rows, Cutoffs, 1, 1, 0)[c].source.predicted
                        = Point(BySource(seen), c, 1, 1).predicted
                   /\ EvaluateRolling(question.rows, Cutoffs, 1, 1, 0)[c].country.predicted
                        = Point(ByCountry(seen), c, 1, 1).predicted
    BY <2>1
  <2> QED BY <2>2 DEF BacktestBlind
<1> QED BY <1>1, PTL DEF CoresSpec

-----------------------------------------------------------------------------
(* ForecastCore: the chance of a peak.                                     *)
SafeOver(w, trans, target, g) ==
  g = [n \in Nat |-> IF n = 0 THEN Safe(w, target) ELSE Safe(RollOn(g[n - 1], trans), target)]
MissOver(trans, target, g) ==
  g = [n \in Nat |-> [s \in DOMAIN trans |->
        IF s \in target THEN 0
        ELSE IF n = 0 THEN 1
        ELSE Sigma([t \in DOMAIN trans |-> trans[s][t] * g[n - 1][t]])]]

LEMMA SigmaIs == ASSUME NEW f PROVE Sigma(f) = SumOver(f, DOMAIN f)
BY DEF Sigma, SumOver

LEMMA RecursionsAre ==
  ASSUME NEW w, NEW trans, NEW target, NEW horizon
  PROVE  /\ Surviving(w, trans, target, horizon) = Sigma((CHOOSE g : SafeOver(w, trans, target, g))[horizon])
         /\ Missing(trans, target, horizon) = (CHOOSE g : MissOver(trans, target, g))[horizon]
BY DEF Surviving, Missing, SafeOver, MissOver

LEMMA RollType ==
  ASSUME NEW H, IsFiniteSet(H), NEW w \in [H -> Int], NEW trans \in [H -> [H -> Int]]
  PROVE  /\ RollOn(w, trans) \in [H -> Int]
         /\ \A t \in H : RollOn(w, trans)[t] = SumOver([s \in H |-> w[s] * trans[s][t]], H)
<1>1. ASSUME NEW t \in H
      PROVE  LET f == [s \in H |-> w[s] * trans[s][t]] IN Sigma(f) = SumOver(f, H) /\ SumOver(f, H) \in Int
  <2> DEFINE f == [s \in H |-> w[s] * trans[s][t]]
  <2>1. \A s \in H : w[s] \in Int /\ trans[s][t] \in Int
    OBVIOUS
  <2>2. f \in [H -> Int]
    BY <2>1
  <2> SUFFICES Sigma(f) = SumOver(f, H) /\ SumOver(f, H) \in Int
    OBVIOUS
  <2> HIDE DEF f
  <2>3. Summable(f, H) /\ DOMAIN f = H
    BY <2>2 DEF Summable
  <2> QED BY <2>3, SigmaIs, SumFacts
<1>2. RollOn(w, trans) = [t \in H |-> Sigma([s \in H |-> w[s] * trans[s][t]])]
  BY DEF RollOn
<1> QED BY <1>1, <1>2

(* The weights, step by step, of what has not met the target yet, and of   *)
(* what will not meet it.                                                  *)
IsSafe(H, w, trans, target, g) ==
  /\ g \in [Nat -> [H -> Int]]
  /\ \A n \in Nat : Surviving(w, trans, target, n) = Sigma(g[n])
  /\ g[0] = Safe(w, target)
  /\ \A n \in Nat : g[n + 1] = Safe(RollOn(g[n], trans), target)
IsMiss(H, trans, target, g) ==
  /\ g \in [Nat -> [H -> Int]]
  /\ \A n \in Nat : Missing(trans, target, n) = g[n]
  /\ \A n \in Nat : \A s \in target : g[n][s] = 0
  /\ \A s \in H \ target : g[0][s] = 1
  /\ \A n \in Nat : \A s \in H \ target :
       g[n + 1][s] = SumOver([t \in H |-> trans[s][t] * g[n][t]], H)

LEMMA SafeIs ==
  ASSUME NEW H, IsFiniteSet(H), NEW w \in [H -> Int], NEW trans \in [H -> [H -> Int]],
         NEW target \in SUBSET H
  PROVE  \E g : IsSafe(H, w, trans, target, g)
<1> DEFINE V == [H -> Int]
           step == [n \in Nat |-> [v \in V |-> Safe(RollOn(v, trans), target)]]
<1>1. \A v \in V : Safe(v, target) \in V
  BY DEF Safe
<1>2. \A v \in V : Safe(RollOn(v, trans), target) \in V
  BY <1>1, RollType
<1>3. step \in [Nat -> [V -> V]]
  BY <1>2
<1>4. Safe(w, target) \in V
  BY <1>1
<1>5. \A n \in Nat, v \in V : step[n][v] = Safe(RollOn(v, trans), target)
  OBVIOUS
<1> DEFINE begin == Safe(w, target)
<1> HIDE DEF step, V, begin
<1>e. begin \in V
  BY <1>4 DEF begin
<1>f. PICK g : Recurs(V, begin, step, g)
  BY <1>3, <1>e, Recursion
<1>6. g \in [Nat -> V] /\ g[0] = Safe(w, target) /\ \A n \in Nat : g[n + 1] = step[n][g[n]]
  BY <1>f DEF begin, Recurs
<1>7. SafeOver(w, trans, target, g)
  <2>1. g[0] = Safe(w, target)
    BY <1>6
  <2>2. ASSUME NEW n \in Nat, n # 0 PROVE g[n] = Safe(RollOn(g[n - 1], trans), target)
    <3>1. n - 1 \in Nat /\ (n - 1) + 1 = n
      BY <2>2
    <3>2. g[(n - 1) + 1] = step[n - 1][g[n - 1]] /\ g[n - 1] \in V
      BY <3>1, <1>6
    <3> QED BY <3>1, <3>2, <1>5
  <2>3. g = [n \in Nat |-> g[n]]
    BY <1>6
  <2>4. g = [n \in Nat |-> IF n = 0 THEN Safe(w, target) ELSE Safe(RollOn(g[n - 1], trans), target)]
    BY <2>1, <2>2, <2>3
  <2> QED BY <2>4 DEF SafeOver
<1> DEFINE h == CHOOSE h : SafeOver(w, trans, target, h)
<1>8. SafeOver(w, trans, target, h)
  BY <1>7
<1>9. \A horizon \in Nat : Surviving(w, trans, target, horizon) = Sigma(h[horizon])
  BY RecursionsAre
<1> HIDE DEF h
<1>10. /\ h[0] = Safe(w, target)
       /\ \A n \in Nat : h[n + 1] = Safe(RollOn(h[n], trans), target)
       /\ h = [n \in Nat |-> h[n]]
  <2>1. h = [n \in Nat |-> IF n = 0 THEN Safe(w, target) ELSE Safe(RollOn(h[n - 1], trans), target)]
    BY <1>8 DEF SafeOver
  <2>2. h[0] = Safe(w, target)
    BY <2>1
  <2>3. ASSUME NEW n \in Nat PROVE h[n + 1] = Safe(RollOn(h[n], trans), target)
    <3>1. n + 1 \in Nat /\ n + 1 # 0 /\ (n + 1) - 1 = n
      OBVIOUS
    <3> QED BY <2>1, <3>1
  <2>4. h = [n \in Nat |-> h[n]]
    BY <2>1
  <2> QED BY <2>2, <2>3, <2>4
<1>11. \A n \in Nat : h[n] \in V
  <2> DEFINE N == {n \in Nat : h[n] \in V}
  <2>1. 0 \in N
    BY <1>4, <1>10
  <2>2. ASSUME NEW n \in Nat, n \in N PROVE n + 1 \in N
    <3>1. h[n] \in V /\ n + 1 \in Nat
      BY <2>2
    <3>2. h[n + 1] \in V
      BY <3>1, <1>2, <1>10
    <3> QED BY <3>1, <3>2
  <2> HIDE DEF N
  <2>3. Nat \subseteq N
    BY <2>1, <2>2, NumberInduction
  <2> QED BY <2>3 DEF N
<1>12. h \in [Nat -> V]
  BY <1>10, <1>11
<1>13. IsSafe(H, w, trans, target, h)
  BY <1>9, <1>10, <1>12 DEF V, IsSafe
<1> QED BY <1>13

LEMMA MissIs ==
  ASSUME NEW H, IsFiniteSet(H), NEW trans \in [H -> [H -> Int]], NEW target \in SUBSET H
  PROVE  \E g : IsMiss(H, trans, target, g)
<1> DEFINE V == [H -> Int]
           Begin == [s \in H |-> IF s \in target THEN 0 ELSE 1]
           Back(v) == [s \in H |-> IF s \in target THEN 0
                                  ELSE Sigma([t \in H |-> trans[s][t] * v[t]])]
           step == [n \in Nat |-> [v \in V |-> Back(v)]]
<1>0. DOMAIN trans = H
  OBVIOUS
<1>1. ASSUME NEW v \in V, NEW s \in H
      PROVE  LET f == [t \in H |-> trans[s][t] * v[t]] IN Sigma(f) = SumOver(f, H) /\ SumOver(f, H) \in Int
  <2> DEFINE f == [t \in H |-> trans[s][t] * v[t]]
  <2>1. \A t \in H : v[t] \in Int /\ trans[s][t] \in Int
    OBVIOUS
  <2>2. f \in [H -> Int]
    BY <2>1
  <2> SUFFICES Sigma(f) = SumOver(f, H) /\ SumOver(f, H) \in Int
    OBVIOUS
  <2> HIDE DEF f
  <2>3. Summable(f, H) /\ DOMAIN f = H
    BY <2>2 DEF Summable
  <2> QED BY <2>3, SigmaIs, SumFacts
<1>2. \A v \in V : Back(v) \in V
  BY <1>1
<1>3. Begin \in V
  OBVIOUS
<1>a. \A s \in H : Begin[s] = IF s \in target THEN 0 ELSE 1
  OBVIOUS
<1>b. \A v \in V, s \in H : Back(v)[s] = IF s \in target THEN 0
                                      ELSE SumOver([t \in H |-> trans[s][t] * v[t]], H)
  BY <1>1
<1>c. \A g, n : /\ Begin = [s \in DOMAIN trans |-> IF s \in target THEN 0 ELSE 1]
               /\ Back(g[n]) = [s \in DOMAIN trans |->
                     IF s \in target THEN 0 ELSE Sigma([t \in DOMAIN trans |-> trans[s][t] * g[n][t]])]
  BY <1>0
<1>d. \A g : MissOver(trans, target, g) <=> g = [n \in Nat |-> IF n = 0 THEN Begin ELSE Back(g[n - 1])]
  <2> SUFFICES ASSUME NEW g
               PROVE  [n \in Nat |-> [s \in DOMAIN trans |->
                         IF s \in target THEN 0
                         ELSE IF n = 0 THEN 1
                         ELSE Sigma([t \in DOMAIN trans |-> trans[s][t] * g[n - 1][t]])]]
                      = [n \in Nat |-> IF n = 0 THEN Begin ELSE Back(g[n - 1])]
    BY DEF MissOver
  <2>1. ASSUME NEW n \in Nat
        PROVE  [s \in DOMAIN trans |->
                         IF s \in target THEN 0
                         ELSE IF n = 0 THEN 1
                         ELSE Sigma([t \in DOMAIN trans |-> trans[s][t] * g[n - 1][t]])]
               = IF n = 0 THEN Begin ELSE Back(g[n - 1])
    <3>1. CASE n = 0
      BY <3>1
    <3>2. CASE n # 0
      BY <3>2, <1>0
    <3> QED BY <3>1, <3>2
  <2> QED BY <2>1
<1>5. \A n \in Nat, v \in V : step[n][v] = Back(v)
  OBVIOUS
<1>4. step \in [Nat -> [V -> V]]
  BY <1>2
<1> HIDE DEF step, Begin, Back, V
<1>f. PICK g : Recurs(V, Begin, step, g)
  BY <1>3, <1>4, Recursion
<1>6. g \in [Nat -> V] /\ g[0] = Begin /\ \A n \in Nat : g[n + 1] = step[n][g[n]]
  BY <1>f DEF Recurs
<1>7. MissOver(trans, target, g)
  <2>2. ASSUME NEW n \in Nat, n # 0 PROVE g[n] = Back(g[n - 1])
    <3>1. n - 1 \in Nat /\ (n - 1) + 1 = n
      BY <2>2
    <3>2. g[(n - 1) + 1] = step[n - 1][g[n - 1]] /\ g[n - 1] \in V
      BY <3>1, <1>6
    <3> QED BY <3>1, <3>2, <1>5
  <2>3. g = [n \in Nat |-> g[n]]
    BY <1>6
  <2>4. g = [n \in Nat |-> IF n = 0 THEN Begin ELSE Back(g[n - 1])]
    BY <1>6, <2>2, <2>3
  <2> QED BY <2>4, <1>d
<1> DEFINE h == CHOOSE h : MissOver(trans, target, h)
<1>8. MissOver(trans, target, h)
  BY <1>7
<1>9. \A horizon \in Nat : Missing(trans, target, horizon) = h[horizon]
  BY RecursionsAre
<1> HIDE DEF h
<1>10. h[0] = Begin /\ (\A n \in Nat : h[n + 1] = Back(h[n])) /\ h = [n \in Nat |-> h[n]]
  <2>1. h = [n \in Nat |-> IF n = 0 THEN Begin ELSE Back(h[n - 1])]
    BY <1>8, <1>d
  <2>2. h[0] = Begin
    BY <2>1
  <2>3. ASSUME NEW n \in Nat PROVE h[n + 1] = Back(h[n])
    <3>1. n + 1 \in Nat /\ n + 1 # 0 /\ (n + 1) - 1 = n
      OBVIOUS
    <3> QED BY <2>1, <3>1
  <2>4. h = [n \in Nat |-> h[n]]
    BY <2>1
  <2> QED BY <2>2, <2>3, <2>4
<1>11. \A n \in Nat : h[n] \in V
  <2> DEFINE N == {n \in Nat : h[n] \in V}
  <2>1. 0 \in N
    BY <1>3, <1>10
  <2>2. ASSUME NEW n \in Nat, n \in N PROVE n + 1 \in N
    <3>1. h[n] \in V /\ n + 1 \in Nat
      BY <2>2
    <3>2. h[n + 1] \in V
      BY <3>1, <1>2, <1>10
    <3> QED BY <3>1, <3>2
  <2> HIDE DEF N
  <2>3. Nat \subseteq N
    BY <2>1, <2>2, NumberInduction
  <2> QED BY <2>3 DEF N
<1>12. h \in [Nat -> V]
  BY <1>10, <1>11
<1>13. \A n \in Nat : \A s \in target : h[n][s] = 0
  <2> SUFFICES ASSUME NEW n \in Nat, NEW s \in target PROVE h[n][s] = 0
    OBVIOUS
  <2>1. CASE n = 0
    BY <2>1, <1>10, <1>a
  <2>2. CASE n # 0
    <3>1. n - 1 \in Nat /\ (n - 1) + 1 = n
      BY <2>2
    <3>2. h[n] = Back(h[n - 1]) /\ h[n - 1] \in V
      BY <3>1, <1>10, <1>11
    <3> QED BY <3>2, <1>b
  <2> QED BY <2>1, <2>2
<1>14. \A s \in H \ target : h[0][s] = 1
  BY <1>10, <1>a
<1>15. \A n \in Nat : \A s \in H \ target : h[n + 1][s] = SumOver([t \in H |-> trans[s][t] * h[n][t]], H)
  <2> TAKE n \in Nat
  <2>1. h[n + 1] = Back(h[n]) /\ h[n] \in V
    BY <1>10, <1>11
  <2> QED BY <2>1, <1>b
<1>16. IsMiss(H, trans, target, h)
  BY <1>9, <1>12, <1>13, <1>14, <1>15 DEF V, IsMiss
<1> QED BY <1>16

SurvivesBy(H, w, trans, target, horizon) ==
  Surviving(w, trans, target, horizon) = Sigma([s \in H |-> w[s] * Missing(trans, target, horizon)[s]])

(* The weight that has not met the target after some steps, each share of  *)
(* it with its chance not to meet it in those that remain, is the same     *)
(* after every step.                                                       *)
LEMMA PeakAlgebra ==
  ASSUME NEW H, IsFiniteSet(H), NEW w \in [H -> Int], NEW trans \in [H -> [H -> Int]],
         NEW target \in SUBSET H, NEW horizon \in Nat
  PROVE  SurvivesBy(H, w, trans, target, horizon)
<1>p. PICK safe : IsSafe(H, w, trans, target, safe)
  BY SafeIs
<1>q. PICK miss : IsMiss(H, trans, target, miss)
  BY MissIs
<1>1. /\ safe \in [Nat -> [H -> Int]]
      /\ \A n \in Nat : Surviving(w, trans, target, n) = Sigma(safe[n])
      /\ safe[0] = Safe(w, target)
      /\ \A n \in Nat : safe[n + 1] = Safe(RollOn(safe[n], trans), target)
  BY <1>p DEF IsSafe
<1>2. /\ miss \in [Nat -> [H -> Int]]
      /\ \A n \in Nat : Missing(trans, target, n) = miss[n]
      /\ \A n \in Nat : \A s \in target : miss[n][s] = 0
      /\ \A s \in H \ target : miss[0][s] = 1
      /\ \A n \in Nat : \A s \in H \ target :
           miss[n + 1][s] = SumOver([t \in H |-> trans[s][t] * miss[n][t]], H)
  BY <1>q DEF IsMiss
<1> DEFINE share(u, m) == [s \in H |-> u[s] * m[s]]
           V == [H -> Int]
<1>3. \A u \in V, m \in V : /\ Summable(share(u, m), H) /\ DOMAIN share(u, m) = H
                             /\ \A s \in H : share(u, m)[s] = u[s] * m[s]
  BY DEF Summable
<1>a. \A n \in Nat : safe[n] \in V /\ miss[n] \in V
  BY <1>1, <1>2
<1>b. \A u \in V : Safe(u, target) = [s \in H |-> IF s \in target THEN 0 ELSE u[s]]
  BY DEF Safe
<1>4. \A n \in Nat : \A s \in target : safe[n][s] = 0
  <2> SUFFICES ASSUME NEW n \in Nat, NEW s \in target PROVE safe[n][s] = 0
    OBVIOUS
  <2>1. CASE n = 0
    BY <2>1, <1>1, <1>b
  <2>2. CASE n # 0
    <3>1. n - 1 \in Nat /\ (n - 1) + 1 = n
      BY <2>2
    <3>2. safe[n] = Safe(RollOn(safe[n - 1], trans), target) /\ RollOn(safe[n - 1], trans) \in V
      BY <3>1, <1>1, <1>a, RollType
    <3> QED BY <3>2, <1>b
  <2> QED BY <2>1, <2>2
<1>5. \A s \in H \ target : /\ safe[0][s] = w[s]
                             /\ \A n \in Nat : safe[n + 1][s] = SumOver([r \in H |-> safe[n][r] * trans[r][s]], H)
  <2> SUFFICES ASSUME NEW s \in H \ target
               PROVE  /\ safe[0][s] = w[s]
                      /\ \A n \in Nat : safe[n + 1][s] = SumOver([r \in H |-> safe[n][r] * trans[r][s]], H)
    OBVIOUS
  <2>1. safe[0][s] = w[s]
    BY <1>1, <1>b
  <2>2. ASSUME NEW n \in Nat
        PROVE  safe[n + 1][s] = SumOver([r \in H |-> safe[n][r] * trans[r][s]], H)
    <3>1. /\ RollOn(safe[n], trans) \in V
          /\ RollOn(safe[n], trans)[s] = SumOver([r \in H |-> safe[n][r] * trans[r][s]], H)
      BY <1>a, RollType
    <3>2. safe[n + 1][s] = RollOn(safe[n], trans)[s]
      <4>1. PICK u \in V : u = RollOn(safe[n], trans)
        BY <3>1
      <4>2. safe[n + 1] = Safe(u, target)
        BY <1>1, <4>1
      <4>3. Safe(u, target)[s] = u[s]
        BY <1>b
      <4> QED BY <4>1, <4>2, <4>3
    <3> QED BY <3>1, <3>2
  <2> QED BY <2>1, <2>2
<1> HIDE DEF share
<1>6. ASSUME NEW k \in Nat, NEW n \in Nat
      PROVE  SumOver(share(safe[k + 1], miss[n]), H) = SumOver(share(safe[k], miss[n + 1]), H)
  <2> DEFINE t == [r \in H |-> [s \in H |-> IF r \in target \/ s \in target THEN 0
                                              ELSE safe[k][r] * trans[r][s] * miss[n][s]]]
             byRow == [r \in H |-> SumOver(t[r], H)]
             byCol == [s \in H |-> SumOver([r \in H |-> t[r][s]], H)]
  <2>1. \A r, s \in H : safe[k][r] \in Int /\ trans[r][s] \in Int /\ miss[n][s] \in Int
    BY <1>a
  <2>2. t \in [H -> [H -> Int]]
    BY <2>1
  <2>3. SumOver(byRow, H) = SumOver(byCol, H)
    <3> HIDE DEF t
    <3> QED BY <2>2, SumSwap
  <2>t. \A r, s \in H : t[r][s] = IF r \in target \/ s \in target THEN 0
                                              ELSE safe[k][r] * trans[r][s] * miss[n][s]
    OBVIOUS
  <2> HIDE DEF t
  <2>4. ASSUME NEW r \in H
        PROVE  Summable(t[r], H) /\ SumOver(t[r], H) = share(safe[k], miss[n + 1])[r]
    <3>1. Summable(t[r], H)
      BY <2>2 DEF Summable
    <3> DEFINE f == [s \in H |-> trans[r][s] * miss[n][s]]
    <3>2. f \in [H -> Int] /\ \A s \in H : f[s] = trans[r][s] * miss[n][s]
      BY <2>1
    <3>3. r \notin target => miss[n + 1][r] = SumOver(f, H)
      BY <1>2
    <3> HIDE DEF f
    <3>4. Summable(f, H) /\ safe[k][r] \in Int
      BY <3>2, <2>1 DEF Summable
    <3>5. share(safe[k], miss[n + 1])[r] = safe[k][r] * miss[n + 1][r]
      BY <1>3, <1>a
    <3>6. CASE r \in target
      <4>1. \A s \in H : t[r][s] = 0 * f[s]
        BY <3>6, <2>t, <3>2
      <4>2. SumOver(t[r], H) = 0 * SumOver(f, H) /\ SumOver(f, H) \in Int
        BY <4>1, <3>1, <3>4, SumTimes, SumFacts
      <4>3. safe[k][r] = 0 /\ miss[n + 1][r] = 0
        BY <3>6, <1>2, <1>4
      <4> QED BY <3>1, <3>5, <4>2, <4>3
    <3>7. CASE r \notin target
      <4>1. ASSUME NEW s \in H PROVE t[r][s] = safe[k][r] * f[s]
        <5>1. CASE s \in target
          <6>1. miss[n][s] = 0 /\ f[s] = 0
            BY <5>1, <1>2, <2>1, <3>2
          <6> QED BY <6>1, <5>1, <3>4, <2>t
        <5>2. CASE s \notin target
          <6>1. t[r][s] = safe[k][r] * trans[r][s] * miss[n][s]
            BY <5>2, <3>7, <2>t
          <6>2. \A x, y, z \in Int : x * y * z = x * (y * z)
            OBVIOUS
          <6>3. safe[k][r] * trans[r][s] * miss[n][s] = safe[k][r] * (trans[r][s] * miss[n][s])
            BY <6>2, <2>1
          <6> QED BY <6>1, <6>3, <3>2
        <5> QED BY <5>1, <5>2
      <4>2. SumOver(t[r], H) = safe[k][r] * SumOver(f, H)
        BY <4>1, <3>1, <3>4, SumTimes
      <4> QED BY <3>1, <3>3, <3>5, <3>7, <4>2
    <3> QED BY <3>6, <3>7
  <2>5. ASSUME NEW s \in H
        PROVE  LET col == [r \in H |-> t[r][s]]
               IN  Summable(col, H) /\ SumOver(col, H) = share(safe[k + 1], miss[n])[s]
    <3> DEFINE col == [r \in H |-> t[r][s]]
               f == [r \in H |-> safe[k][r] * trans[r][s]]
    <3> SUFFICES Summable(col, H) /\ SumOver(col, H) = share(safe[k + 1], miss[n])[s]
      OBVIOUS
    <3>1. Summable(col, H) /\ \A r \in H : col[r] = t[r][s]
      BY <2>2 DEF Summable
    <3>2. f \in [H -> Int] /\ \A r \in H : f[r] = safe[k][r] * trans[r][s]
      BY <2>1
    <3>3. s \notin target => safe[k + 1][s] = SumOver(f, H)
      BY <1>5
    <3> HIDE DEF f, col
    <3>4. Summable(f, H) /\ miss[n][s] \in Int
      BY <3>2, <2>1 DEF Summable
    <3>5. share(safe[k + 1], miss[n])[s] = safe[k + 1][s] * miss[n][s]
      <4>1. safe[k + 1] \in V /\ miss[n] \in V
        BY <1>a
      <4> HIDE DEF V
      <4> QED BY <4>1, <1>3
    <3>8. SumOver(f, H) \in Int
      BY <3>4, SumFacts
    <3>6. CASE s \in target
      <4>1. \A r \in H : col[r] = 0 * f[r]
        BY <3>6, <2>t, <3>1, <3>2
      <4>2. SumOver(col, H) = 0 * SumOver(f, H)
        BY <4>1, <3>1, <3>4, SumTimes
      <4>3. safe[k + 1][s] = 0 /\ miss[n][s] = 0
        BY <3>6, <1>2, <1>4
      <4> QED BY <3>1, <3>5, <3>8, <4>2, <4>3
    <3>7. CASE s \notin target
      <4>1. ASSUME NEW r \in H PROVE col[r] = miss[n][s] * f[r]
        <5>1. CASE r \in target
          <6>1. safe[k][r] = 0 /\ f[r] = 0
            BY <5>1, <1>4, <2>1, <3>2
          <6> QED BY <6>1, <5>1, <3>1, <3>4, <2>t
        <5>2. CASE r \notin target
          <6>1. col[r] = safe[k][r] * trans[r][s] * miss[n][s]
            BY <5>2, <3>1, <3>7, <2>t
          <6>2. \A x, y, z \in Int : x * y * z = z * (x * y)
            OBVIOUS
          <6>3. safe[k][r] * trans[r][s] * miss[n][s] = miss[n][s] * (safe[k][r] * trans[r][s])
            BY <6>2, <2>1
          <6> QED BY <6>1, <6>3, <3>2
        <5> QED BY <5>1, <5>2
      <4>2. SumOver(col, H) = miss[n][s] * SumOver(f, H)
        BY <4>1, <3>1, <3>4, SumTimes
      <4>3. \A x, y \in Int : x * y = y * x
        OBVIOUS
      <4>4. miss[n][s] * SumOver(f, H) = SumOver(f, H) * miss[n][s]
        BY <4>3, <3>4, <3>8
      <4> QED BY <3>1, <3>3, <3>5, <3>7, <4>2, <4>4
    <3> QED BY <3>6, <3>7
  <2>6. SumOver(byRow, H) = SumOver(share(safe[k], miss[n + 1]), H)
    <3>1. \A r \in H : byRow[r] = share(safe[k], miss[n + 1])[r]
      BY <2>4
    <3>2. Summable(byRow, H)
      <4>1. \A r \in H : SumOver(t[r], H) \in Int
        BY <2>4, SumFacts
      <4> QED BY <4>1 DEF Summable
    <3>3. Summable(share(safe[k], miss[n + 1]), H)
      BY <1>3, <1>a
    <3> HIDE DEF byRow
    <3> QED BY <3>1, <3>2, <3>3, SumSame
  <2>7. SumOver(byCol, H) = SumOver(share(safe[k + 1], miss[n]), H)
    <3>1. \A s \in H : byCol[s] = share(safe[k + 1], miss[n])[s]
      BY <2>5
    <3>2. Summable(byCol, H)
      <4>1. \A s \in H : SumOver([r \in H |-> t[r][s]], H) \in Int
        BY <2>5, SumFacts
      <4> QED BY <4>1 DEF Summable
    <3>3. Summable(share(safe[k + 1], miss[n]), H)
      BY <1>3, <1>a
    <3> HIDE DEF byCol
    <3> QED BY <3>1, <3>2, <3>3, SumSame
  <2> QED BY <2>3, <2>6, <2>7
<1>7. SumOver(share(safe[0], miss[horizon]), H) = SumOver(share(w, miss[horizon]), H)
  <2>1. ASSUME NEW s \in H PROVE share(safe[0], miss[horizon])[s] = share(w, miss[horizon])[s]
    <3>1. /\ share(safe[0], miss[horizon])[s] = safe[0][s] * miss[horizon][s]
          /\ share(w, miss[horizon])[s] = w[s] * miss[horizon][s]
          /\ safe[0][s] \in Int /\ w[s] \in Int
      BY <1>3, <1>a
    <3>2. CASE s \in target
      BY <3>1, <3>2, <1>2
    <3>3. CASE s \notin target
      BY <3>1, <3>3, <1>5
    <3> QED BY <3>2, <3>3
  <2> QED BY <2>1, <1>3, <1>a, SumSame
<1>8. SumOver(share(safe[horizon], miss[0]), H) = SumOver(safe[horizon], H)
  <2>1. ASSUME NEW s \in H PROVE share(safe[horizon], miss[0])[s] = safe[horizon][s]
    <3>1. share(safe[horizon], miss[0])[s] = safe[horizon][s] * miss[0][s] /\ safe[horizon][s] \in Int
      BY <1>3, <1>a
    <3>2. CASE s \in target
      BY <3>1, <3>2, <1>2, <1>4
    <3>3. CASE s \notin target
      BY <3>1, <3>3, <1>2
    <3> QED BY <3>2, <3>3
  <2>2. Summable(safe[horizon], H)
    BY <1>a DEF Summable
  <2> QED BY <2>1, <2>2, <1>3, <1>a, SumSame
<1>9. SumOver(share(safe[horizon], miss[0]), H) = SumOver(share(safe[0], miss[horizon]), H)
  <2> DEFINE N == {n \in Nat : \A k \in Nat :
                     SumOver(share(safe[k + n], miss[0]), H) = SumOver(share(safe[k], miss[n]), H)}
  <2>1. 0 \in N
    OBVIOUS
  <2>2. ASSUME NEW n \in Nat, n \in N PROVE n + 1 \in N
    <3> SUFFICES ASSUME NEW k \in Nat
                 PROVE  SumOver(share(safe[k + (n + 1)], miss[0]), H) = SumOver(share(safe[k], miss[n + 1]), H)
      OBVIOUS
    <3>1. k + 1 \in Nat /\ k + (n + 1) = (k + 1) + n
      OBVIOUS
    <3>2. SumOver(share(safe[(k + 1) + n], miss[0]), H) = SumOver(share(safe[k + 1], miss[n]), H)
      BY <2>2, <3>1
    <3> QED BY <3>1, <3>2, <1>6
  <2> HIDE DEF N
  <2>3. horizon \in N
    BY <2>1, <2>2, NumberInduction
  <2>4. SumOver(share(safe[0 + horizon], miss[0]), H) = SumOver(share(safe[0], miss[horizon]), H)
    BY <2>3 DEF N
  <2> QED BY <2>4
<1>10. Sigma(safe[horizon]) = SumOver(safe[horizon], H)
  <2>1. DOMAIN safe[horizon] = H
    BY <1>a
  <2> QED BY <2>1, SigmaIs
<1>11. Sigma(share(w, miss[horizon])) = SumOver(share(w, miss[horizon]), H)
  <2>1. DOMAIN share(w, miss[horizon]) = H
    BY <1>3, <1>a
  <2> QED BY <2>1, SigmaIs
<1>12. Surviving(w, trans, target, horizon) = Sigma(share(w, miss[horizon]))
  BY <1>1, <1>7, <1>8, <1>9, <1>10, <1>11
<1>13. Missing(trans, target, horizon) = miss[horizon]
  BY <1>2
<1> QED BY <1>12, <1>13 DEF share, SurvivesBy

(* What the forward pass leaves is a weight of each state.                 *)
GammaOver(model, observed, g) ==
  g = [n \in 0..Len(observed) |->
        IF n = 0 THEN model.start
        ELSE [s \in DOMAIN model.start |-> g[n - 1][s] * model.emit[s][observed[n]]]]

LEMMA ForwardIs ==
  ASSUME NEW model, NEW observed
  PROVE  Forward(model, observed) = (CHOOSE g : GammaOver(model, observed, g))[Len(observed)]
BY DEF Forward, GammaOver

LEMMA ForwardType ==
  ASSUME NEW model \in Models, NEW observed \in Contexts
  PROVE  Forward(model, observed) \in [DOMAIN model.start -> Int]
<1> DEFINE H == DOMAIN model.start
           V == [H -> Int]
           last == Len(observed)
           weigh(n, v) == [s \in H |-> v[s] * model.emit[s][observed[n]]]
           step == [n \in Nat |-> [v \in V |-> IF n < last THEN weigh(n + 1, v) ELSE v]]
<1>1. /\ model.start \in V /\ last \in Nat
      /\ \A n \in 1..last, s \in H : model.emit[s][observed[n]] \in Int
  BY CoresAssumption
<1>2. ASSUME NEW n \in 1..last, NEW v \in V PROVE weigh(n, v) \in V
  <2>1. \A s \in H : v[s] * model.emit[s][observed[n]] \in Int
    BY <1>1
  <2> QED BY <2>1
<1>3. \A n \in Nat, v \in V : step[n][v] = IF n < last THEN weigh(n + 1, v) ELSE v
  OBVIOUS
<1>4. step \in [Nat -> [V -> V]]
  <2>1. ASSUME NEW n \in Nat, NEW v \in V PROVE (IF n < last THEN weigh(n + 1, v) ELSE v) \in V
    <3>1. CASE n < last
      <4>1. n + 1 \in 1..last
        BY <3>1, <1>1
      <4> HIDE DEF V, weigh, last
      <4> QED BY <3>1, <4>1, <1>2
    <3>2. CASE ~(n < last)
      BY <3>2
    <3> QED BY <3>1, <3>2
  <2> HIDE DEF V, weigh, last
  <2> QED BY <2>1
<1>a. \A g : GammaOver(model, observed, g)
             <=> g = [n \in 0..last |-> IF n = 0 THEN model.start ELSE weigh(n, g[n - 1])]
  BY DEF GammaOver
<1> DEFINE h == CHOOSE h : GammaOver(model, observed, h)
<1>b. Forward(model, observed) = h[last]
  BY ForwardIs
<1> HIDE DEF H, V, last, weigh, step
<1>5. PICK f : Recurs(V, model.start, step, f)
  BY <1>1, <1>4, Recursion
<1>6. f \in [Nat -> V] /\ f[0] = model.start /\ \A n \in Nat : f[n + 1] = step[n][f[n]]
  BY <1>5 DEF Recurs
<1>7. \E g : GammaOver(model, observed, g)
  <2> DEFINE g == [n \in 0..last |-> f[n]]
  <2>1. ASSUME NEW n \in 0..last, n # 0 PROVE f[n] = weigh(n, f[n - 1])
    <3>1. n - 1 \in Nat /\ (n - 1) + 1 = n /\ n - 1 < last
      BY <2>1, <1>1
    <3>2. f[(n - 1) + 1] = step[n - 1][f[n - 1]] /\ f[n - 1] \in V
      BY <3>1, <1>6
    <3>3. step[n - 1][f[n - 1]] = weigh((n - 1) + 1, f[n - 1])
      BY <3>1, <3>2, <1>3
    <3> QED BY <3>1, <3>2, <3>3
  <2>2. ASSUME NEW n \in 0..last, n # 0 PROVE g[n] = weigh(n, g[n - 1])
    <3>1. n - 1 \in 0..last
      BY <2>2, <1>1
    <3> QED BY <3>1, <2>1, <2>2
  <2>3. g[0] = model.start
    BY <1>1, <1>6
  <2>4. g = [n \in 0..last |-> g[n]]
    OBVIOUS
  <2> HIDE DEF g
  <2>5. g = [n \in 0..last |-> IF n = 0 THEN model.start ELSE weigh(n, g[n - 1])]
    BY <2>2, <2>3, <2>4
  <2> QED BY <2>5, <1>a
<1>8. GammaOver(model, observed, h)
  BY <1>7
<1> HIDE DEF h
<1>9. h = [n \in 0..last |-> IF n = 0 THEN model.start ELSE weigh(n, h[n - 1])]
  BY <1>8, <1>a
<1> DEFINE N == {n \in Nat : n <= last => h[n] \in V}
<1>10. 0 \in N
  BY <1>1, <1>9
<1>11. ASSUME NEW n \in Nat, n \in N PROVE n + 1 \in N
  <2> SUFFICES ASSUME n + 1 <= last PROVE h[n + 1] \in V
    OBVIOUS
  <2>1. n + 1 \in 0..last /\ n + 1 \in 1..last /\ n + 1 # 0 /\ (n + 1) - 1 = n /\ h[n] \in V
    BY <1>1, <1>11
  <2>2. h[n + 1] = weigh(n + 1, h[(n + 1) - 1])
    BY <1>9, <2>1
  <2> QED BY <2>1, <2>2, <1>2
<1> HIDE DEF N
<1>12. last \in N
  BY <1>1, <1>10, <1>11, NumberInduction
<1> QED BY <1>1, <1>b, <1>12 DEF N, V, H

(* A question for the posterior is about a model and a context.            *)
Posed == question.kind = "posterior" => question.model \in Models /\ question.seen \in Contexts

(* The chance of a peak is one minus the weight of every future that       *)
(* avoids it: PeakIsExact of CoreQuestions, for any finite model, context, *)
(* target and horizon.                                                     *)
THEOREM PeaksAreExact == CoresSpec => []PeakIsExact
<1>1. CoresInit => Posed
  BY DEF CoresInit, Posed
<1>2. Posed /\ [Pose]_question => Posed'
  <2> SUFFICES ASSUME Posed, [Pose]_question PROVE Posed'
    OBVIOUS
  <2>1. CASE Pose
    BY <2>1 DEF Pose, Questions, Posed
  <2>2. CASE UNCHANGED question
    BY <2>2 DEF Posed
  <2> QED BY <2>1, <2>2
<1>3. Posed => PeakIsExact
  <2> SUFFICES ASSUME Posed, question.kind = "posterior",
                      NEW horizon \in 0..MaxHorizon, NEW target \in SUBSET (DOMAIN question.model.start)
               PROVE  LET gamma == Forward(question.model, question.seen)
                      IN  Surviving(gamma, question.model.trans, target, horizon)
                          = Sigma([s \in DOMAIN gamma |->
                                     gamma[s] * Missing(question.model.trans, target, horizon)[s]])
    BY DEF PeakIsExact
  <2> DEFINE gamma == Forward(question.model, question.seen)
             H == DOMAIN question.model.start
             trans == question.model.trans
  <2>1. IsFiniteSet(H) /\ trans \in [H -> [H -> Nat]]
    BY CoresAssumption DEF Posed
  <2>2. trans \in [H -> [H -> Int]]
    BY <2>1
  <2>3. gamma \in [H -> Int]
    BY ForwardType DEF Posed
  <2>4. DOMAIN gamma = H
    BY <2>3
  <2>5. horizon \in Nat /\ target \in SUBSET H
    BY CoresAssumption
  <2> SUFFICES Surviving(gamma, trans, target, horizon)
               = Sigma([s \in DOMAIN gamma |-> gamma[s] * Missing(trans, target, horizon)[s]])
    OBVIOUS
  <2> HIDE DEF gamma, H, trans
  <2>6. SurvivesBy(H, gamma, trans, target, horizon)
    BY <2>1, <2>2, <2>3, <2>5, PeakAlgebra
  <2> QED BY <2>4, <2>6 DEF SurvivesBy
<1> QED BY <1>1, <1>2, <1>3, PTL DEF CoresSpec

(* Both: ForecastsHold of CoreQuestions, which the runs check.             *)
THEOREM ForecastsAreSound == CoresSpec => []ForecastsHold
<1>1. PeakIsExact /\ BacktestBlind => ForecastsHold
  BY DEF ForecastsHold
<1> QED BY <1>1, PeaksAreExact, BacktestsAreBlind, PTL

-----------------------------------------------------------------------------
(* Lineage.  Whose clusters are whose from one fit to the next.           *)

(* Pairs are compared by share of the reach, distance and place.           *)
Sooner(d, r, i, j, e, s, k, l) ==
  \/ d * s < e * r
  \/ d * s = e * r /\ d < e
  \/ d * s = e * r /\ d = e /\ (i < k \/ (i = k /\ j < l))
LEMMA CrossNat ==
  ASSUME NEW d \in Nat, NEW r \in Nat, NEW e \in Nat, NEW s \in Nat, NEW f \in Nat, NEW t \in Nat,
         r > 0, s > 0, t > 0, d * s <= e * r, e * t <= f * s
  PROVE  d * t <= f * r /\ (d * s < e * r \/ e * t < f * s => d * t < f * r)
<1>1. /\ d * s \in Nat /\ e * r \in Nat /\ e * t \in Nat /\ f * s \in Nat /\ d * t \in Nat /\ f * r \in Nat
  OBVIOUS
<1>2. ASSUME NEW a \in Nat, NEW b \in Nat, NEW c \in Nat, c > 0
      PROVE  (a <= b <=> a * c <= b * c) /\ (a < b <=> a * c < b * c)
  BY <1>2
<1>3. (d * s) * t <= (e * r) * t /\ (d * s < e * r => (d * s) * t < (e * r) * t)
  BY <1>1, <1>2
<1>4. (e * t) * r <= (f * s) * r /\ (e * t < f * s => (e * t) * r < (f * s) * r)
  BY <1>1, <1>2
<1>5. (d * s) * t = (d * t) * s /\ (e * r) * t = (e * t) * r /\ (f * s) * r = (f * r) * s
  OBVIOUS
<1>6. (d * t) * s <= (f * r) * s /\ (d * s < e * r \/ e * t < f * s => (d * t) * s < (f * r) * s)
  BY <1>1, <1>3, <1>4, <1>5
<1> QED BY <1>1, <1>2, <1>6

LEMMA SoonerChains ==
  ASSUME NEW d \in Nat, NEW r \in Nat, NEW i \in Nat, NEW j \in Nat,
         NEW e \in Nat, NEW s \in Nat, NEW k \in Nat, NEW l \in Nat,
         NEW f \in Nat, NEW t \in Nat, NEW m \in Nat, NEW n \in Nat,
         d <= r, e <= s, f <= t,
         Sooner(d, r, i, j, e, s, k, l), Sooner(e, s, k, l, f, t, m, n)
  PROVE  Sooner(d, r, i, j, f, t, m, n)
<1>1. d * s <= e * r /\ e * t <= f * s
  BY DEF Sooner
<1>2. CASE r > 0 /\ s > 0 /\ t > 0
  <2>1. d * t <= f * r /\ (d * s < e * r \/ e * t < f * s => d * t < f * r)
    BY <1>1, <1>2, CrossNat
  <2>2. d * t \in Nat /\ f * r \in Nat
    OBVIOUS
  <2>3. CASE d * s < e * r \/ e * t < f * s
    BY <2>1, <2>3 DEF Sooner
  <2>4. CASE d * s = e * r /\ e * t = f * s
    BY <2>1, <2>2, <2>4 DEF Sooner
  <2> QED BY <1>1, <2>3, <2>4 DEF Sooner
<1>3. CASE r = 0
  <2>1. d = 0 /\ d * s = 0 /\ e * r = 0 /\ d * t = 0 /\ f * r = 0
    BY <1>3
  <2>2. 0 < e \/ (e = 0 /\ (i < k \/ (i = k /\ j < l)))
    BY <2>1 DEF Sooner
  <2>3. CASE f > 0
    BY <2>1, <2>3 DEF Sooner
  <2>4. CASE f = 0
    <3>1. f * s = 0 /\ e * t >= 0
      BY <2>4
    <3>2. e = 0 /\ (k < m \/ (k = m /\ l < n))
      BY <2>4, <3>1 DEF Sooner
    <3> QED BY <2>1, <2>2, <2>4, <3>2 DEF Sooner
  <2> QED BY <2>3, <2>4
<1>4. CASE s = 0
  <2>1. e = 0 /\ d * s = 0 /\ e * r = 0 /\ e * t = 0 /\ f * s = 0
    BY <1>4
  <2>2. d = 0 /\ (i < k \/ (i = k /\ j < l))
    BY <2>1 DEF Sooner
  <2>3. 0 < f \/ (f = 0 /\ (k < m \/ (k = m /\ l < n)))
    BY <2>1 DEF Sooner
  <2>4. d * t = 0 /\ f * r \in Nat
    BY <2>2
  <2> QED BY <2>2, <2>3, <2>4 DEF Sooner
<1>5. CASE t = 0
  <2>1. f = 0 /\ e * t = 0 /\ f * s = 0 /\ d * t = 0 /\ f * r = 0
    BY <1>5
  <2>2. e = 0 /\ (k < m \/ (k = m /\ l < n))
    BY <2>1 DEF Sooner
  <2>3. e * r = 0 /\ d * s \in Nat
    BY <2>2
  <2>4. d = 0 /\ (i < k \/ (i = k /\ j < l))
    BY <2>2, <2>3 DEF Sooner
  <2> QED BY <2>1, <2>2, <2>4 DEF Sooner
<1> QED BY <1>2, <1>3, <1>4, <1>5

Keys == {k \in Nat \X Nat \X Nat \X Nat : k[1] <= k[2]}
Under(a, b) == Sooner(a[1], a[2], a[3], a[4], b[1], b[2], b[3], b[4])
LEMMA KeysChain == \A a, b, c \in Keys : Under(a, b) /\ Under(b, c) => Under(a, c)
<1> SUFFICES ASSUME NEW a \in Keys, NEW b \in Keys, NEW c \in Keys, Under(a, b), Under(b, c)
             PROVE  Under(a, c)
  OBVIOUS
<1> DEFINE d == a[1]  r == a[2]  i == a[3]  j == a[4]
           e == b[1]  s == b[2]  k == b[3]  l == b[4]
           f == c[1]  t == c[2]  m == c[3]  n == c[4]
<1>1. /\ d \in Nat /\ r \in Nat /\ i \in Nat /\ j \in Nat /\ d <= r
      /\ e \in Nat /\ s \in Nat /\ k \in Nat /\ l \in Nat /\ e <= s
      /\ f \in Nat /\ t \in Nat /\ m \in Nat /\ n \in Nat /\ f <= t
  BY DEF Keys
<1>2. Sooner(d, r, i, j, e, s, k, l) /\ Sooner(e, s, k, l, f, t, m, n)
  BY DEF Under
<1> HIDE DEF d, r, i, j, e, s, k, l, f, t, m, n
<1>3. Sooner(d, r, i, j, f, t, m, n)
  BY <1>1, <1>2, SoonerChains
<1> QED BY <1>3 DEF Under, d, r, i, j, f, t, m, n

(* What a fit, and a row of it, has for each cluster.                      *)
Places(clusters) ==
  Len(clusters) \in Nat
  /\ \A c \in 1..Len(clusters) : clusters[c].centroid \in Int /\ clusters[c].radius \in Nat

LEMMA ApartIs == \A x, y \in Int : Apart(x, y) \in Nat
BY DEF Apart

(* The pairs within reach are in one order.                                *)
Closer(clusters, previous) ==
  {xy \in Pairs(clusters, previous) \X Pairs(clusters, previous) :
     Nearer(clusters, previous, xy[1], xy[2])}
LEMMA NearerOrders ==
  ASSUME NEW clusters, NEW previous, Places(clusters), Places(previous)
  PROVE  /\ IsFiniteSet(Pairs(clusters, previous))
         /\ Orders(Closer(clusters, previous), Pairs(clusters, previous))
<1> DEFINE S == Pairs(clusters, previous)
           R == Closer(clusters, previous)
           d(x) == Apart(clusters[x[1]].centroid, previous[x[2]].centroid)
           r(x) == Reach(previous[x[2]])
           m == Len(clusters)
           n == Len(previous)
<1>1. m \in Nat /\ n \in Nat
  BY DEF Places
<1>2. IsFiniteSet(S)
  <2>1. IsFiniteSet(1..m) /\ IsFiniteSet(1..n)
    BY <1>1, FS_Interval
  <2>2. IsFiniteSet((1..m) \X (1..n))
    BY <2>1, FS_Product
  <2>3. S \subseteq (1..m) \X (1..n)
    BY DEF Pairs
  <2> QED BY <2>2, <2>3, FS_Subset
<1>3. ASSUME NEW x \in S
      PROVE  /\ x[1] \in 1..m /\ x[2] \in 1..n /\ x = <<x[1], x[2]>> /\ x[1] \in Nat /\ x[2] \in Nat
             /\ d(x) \in Nat /\ r(x) \in Nat /\ d(x) <= r(x)
  <2>1. x[1] \in 1..m /\ x[2] \in 1..n /\ x = <<x[1], x[2]>> /\ d(x) <= r(x)
    BY DEF Pairs
  <2>2. x[1] \in Nat /\ x[2] \in Nat
    BY <1>1, <2>1
  <2>3. d(x) \in Nat
    BY <2>1, ApartIs DEF Places
  <2>4. r(x) \in Nat
    BY <2>1 DEF Places, Reach
  <2> QED BY <2>1, <2>2, <2>3, <2>4
<1>4. ASSUME NEW x, NEW y
      PROVE  Nearer(clusters, previous, x, y) <=> Sooner(d(x), r(x), x[1], x[2], d(y), r(y), y[1], y[2])
  BY DEF Nearer, Sooner
<1>5. \A x, y \in S : <<x, y>> \in R <=> Sooner(d(x), r(x), x[1], x[2], d(y), r(y), y[1], y[2])
  BY <1>4 DEF Closer
<1> HIDE DEF S, R, d, r, m, n
<1>6. ASSUME NEW x \in S PROVE <<x, x>> \notin R
  <2>1. ~Sooner(d(x), r(x), x[1], x[2], d(x), r(x), x[1], x[2])
    BY <1>3 DEF Sooner
  <2> QED BY <1>5, <2>1
<1>7. ASSUME NEW x \in S, NEW y \in S PROVE x = y \/ <<x, y>> \in R \/ <<y, x>> \in R
  <2>1. d(x) * r(y) \in Nat /\ d(y) * r(x) \in Nat
    BY <1>3
  <2>2. CASE d(x) * r(y) # d(y) * r(x) \/ d(x) # d(y)
    BY <1>3, <1>5, <2>1, <2>2 DEF Sooner
  <2>3. CASE d(x) * r(y) = d(y) * r(x) /\ d(x) = d(y)
    <3>1. x[1] < y[1] \/ y[1] < x[1] \/ (x[1] = y[1] /\ (x[2] < y[2] \/ y[2] < x[2] \/ x[2] = y[2]))
      BY <1>3
    <3>2. x[1] = y[1] /\ x[2] = y[2] => x = y
      BY <1>3
    <3> QED BY <1>5, <2>3, <3>1, <3>2 DEF Sooner
  <2> QED BY <2>2, <2>3
<1>8. ASSUME NEW x \in S, NEW y \in S, NEW z \in S, <<x, y>> \in R, <<y, z>> \in R PROVE <<x, z>> \in R
  <2>1. Sooner(d(x), r(x), x[1], x[2], d(y), r(y), y[1], y[2]) /\ Sooner(d(y), r(y), y[1], y[2], d(z), r(z), z[1], z[2])
    BY <1>5, <1>8
  <2> DEFINE key(v) == <<d(v), r(v), v[1], v[2]>>
  <2>2. \A v \in S : key(v) \in Keys
    BY <1>3 DEF Keys
  <2>3. Under(key(x), key(y)) /\ Under(key(y), key(z))
    BY <2>1 DEF Under
  <2> HIDE DEF key
  <2>4. Under(key(x), key(z))
    BY <2>2, <2>3, KeysChain
  <2>5. Sooner(d(x), r(x), x[1], x[2], d(z), r(z), z[1], z[2])
    BY <2>4 DEF Under, key
  <2> QED BY <1>5, <2>5
<1>9. Orders(R, S)
  BY <1>6, <1>7, <1>8 DEF Orders
<1> QED BY <1>2, <1>9 DEF S, R

(* The pairs in order.                                                     *)
LEMMA InReachIs ==
  ASSUME NEW clusters, NEW previous, Places(clusters), Places(previous)
  PROVE  LET s == InReach(clusters, previous)
             S == Pairs(clusters, previous)
         IN  /\ s \in Seq(S) /\ Len(s) = Cardinality(S) /\ ToSet(s) = S
             /\ \A i, j \in 1..Len(s) : i < j => Nearer(clusters, previous, s[i], s[j])
             /\ \A i, j \in 1..Len(s) : s[i] = s[j] => i = j
<1> DEFINE S == Pairs(clusters, previous)
           R == Closer(clusters, previous)
           s == InReach(clusters, previous)
           near(x, y) == Nearer(clusters, previous, x, y)
<1>1. IsFiniteSet(S) /\ Orders(R, S)
  BY NearerOrders
<1>2. \A x, y \in S : <<x, y>> \in R <=> near(x, y)
  BY DEF Closer
<1>3. s = [i \in 1..Cardinality(S) |-> CHOOSE x \in S : Cardinality({y \in S : near(y, x)}) = i - 1]
  BY DEF InReach
<1> HIDE DEF S, R, s, near
<1>4. ASSUME NEW x \in S PROVE RankOf(x, R, S) = Cardinality({y \in S : near(y, x)})
  <2>1. Below(x, R, S) = {y \in S : near(y, x)}
    BY <1>2 DEF Below
  <2> QED BY <2>1 DEF RankOf
<1>5. ASSUME NEW i \in 1..Cardinality(S) PROVE s[i] \in S /\ RankOf(s[i], R, S) = i - 1
  <2>1. \E x \in S : Cardinality({y \in S : near(y, x)}) = i - 1
    BY <1>1, <1>4, RanksFilled
  <2>2. s[i] \in S /\ Cardinality({y \in S : near(y, s[i])}) = i - 1
    BY <1>3, <2>1
  <2> QED BY <1>4, <2>2
<1>6. ByRank(s, R, S)
  <2>1. s \in [1..Cardinality(S) -> S]
    BY <1>3, <1>5
  <2> QED BY <1>5, <2>1 DEF ByRank
<1>7. /\ s \in Seq(S) /\ Len(s) = Cardinality(S) /\ ToSet(s) = S
      /\ \A i, j \in 1..Len(s) : i < j => <<s[i], s[j]>> \in R
      /\ \A i, j \in 1..Len(s) : s[i] = s[j] => i = j
  BY <1>1, <1>6, RanksSorted
<1>8. \A i \in 1..Len(s) : s[i] \in S
  BY <1>5, <1>7
<1>9. \A i, j \in 1..Len(s) : i < j => near(s[i], s[j])
  BY <1>2, <1>7, <1>8
<1> QED BY <1>7, <1>9 DEF S, s, near

(* Claims, one pair after the other.                                       *)
Meets(x, claimed) == \E c \in claimed : c[1] = x[1] \/ c[2] = x[2]
Claim(claimed, x) == IF Meets(x, claimed) THEN claimed ELSE claimed \cup {x}
ClaimsBy(s, g) ==
  g = [T \in SUBSET (DOMAIN s) |-> IF T = {} THEN {} ELSE Claim(g[T \ {Max(T)}], s[Max(T)])]
ClaimsOf(s) == (CHOOSE g : ClaimsBy(s, g))[DOMAIN s]

LEMMA ClaimedIs ==
  ASSUME NEW clusters, NEW previous
  PROVE  Claimed(clusters, previous) = ClaimsOf(InReach(clusters, previous))
BY DEF Claimed, FoldLeft, MapThenFoldSet, ClaimsBy, Claim, Meets, ClaimsOf

ClaimRun(S, s, u) ==
  /\ u[0] = {} /\ \A k \in 0..Len(s) : u[k] \in SUBSET S
  /\ \A k \in 0..(Len(s) - 1) : u[k + 1] = Claim(u[k], s[k + 1])

LEMMA ClaimsFold ==
  ASSUME NEW S, NEW s \in Seq(S)
  PROVE  \E u : ClaimsOf(s) = u[Len(s)] /\ ClaimRun(S, s, u)
<1> DEFINE V == SUBSET S
           n == Len(s)
           step == [i \in 1..n |-> [c \in V |-> Claim(c, s[i])]]
           g == CHOOSE g : ClaimsBy(s, g)
<1>1. n \in Nat /\ DOMAIN s = 1..n /\ \A i \in 1..n : s[i] \in S
  BY LenProperties
<1>2. step \in [1..n -> [V -> V]] /\ {} \in V /\ \A i \in 1..n, c \in V : step[i][c] = Claim(c, s[i])
  BY <1>1 DEF Claim
<1> HIDE DEF V, n, step
<1>3. PICK f : FoldsTo(V, n, {}, step, f)
  BY <1>1, <1>2, FoldExists
<1>4. f \in [SUBSET (1..n) -> V] /\ \A T \in SUBSET (1..n) : f[T] = Folding({}, step, f, T)
  BY <1>3 DEF FoldsTo
<1>5. \A T \in SUBSET (1..n) : T # {} => Max(T) \in T
  BY <1>1, MaxOfPlaces
<1>6. ASSUME NEW T \in SUBSET (1..n)
      PROVE  f[T] = IF T = {} THEN {} ELSE Claim(f[T \ {Max(T)}], s[Max(T)])
  <2>1. CASE T = {}
    BY <1>4, <2>1 DEF Folding
  <2>2. CASE T # {}
    <3>1. Max(T) \in 1..n /\ T \ {Max(T)} \in SUBSET (1..n)
      BY <1>5, <2>2
    <3>2. f[T] = step[Max(T)][f[T \ {Max(T)}]] /\ f[T \ {Max(T)}] \in V
      BY <1>4, <2>2, <3>1 DEF Folding
    <3> QED BY <1>2, <2>2, <3>1, <3>2
  <2> QED BY <2>1, <2>2
<1>7. ClaimsBy(s, f)
  <2>1. f = [T \in SUBSET (1..n) |-> f[T]]
    BY <1>4
  <2>2. f = [T \in SUBSET (1..n) |-> IF T = {} THEN {} ELSE Claim(f[T \ {Max(T)}], s[Max(T)])]
    BY <1>6, <2>1
  <2> QED BY <1>1, <2>2 DEF ClaimsBy
<1>8. ClaimsBy(s, g)
  BY <1>7
<1> HIDE DEF g
<1>9. \A T \in SUBSET (1..n) : g[T] = IF T = {} THEN {} ELSE Claim(g[T \ {Max(T)}], s[Max(T)])
  BY <1>1, <1>8 DEF ClaimsBy
<1>10. FoldsUp(V, n, {}, step, g)
  <2>1. ASSUME NEW T \in SUBSET (1..n), T # {}, g[T \ {Max(T)}] \in V
        PROVE  g[T] = step[Max(T)][g[T \ {Max(T)}]]
    <3>1. Max(T) \in 1..n
      BY <1>5, <2>1
    <3>2. step[Max(T)][g[T \ {Max(T)}]] = Claim(g[T \ {Max(T)}], s[Max(T)])
      BY <1>2, <2>1, <3>1
    <3> QED BY <1>9, <2>1, <3>2
  <2> QED BY <1>9, <2>1 DEF FoldsUp
<1>11. /\ g[1..0] = {} /\ \A k \in 0..n : g[1..k] \in V
       /\ \A k \in 0..(n - 1) : g[1..(k + 1)] = step[k + 1][g[1..k]]
  BY <1>1, <1>2, <1>10, FoldSteps DEF FoldRuns
<1> DEFINE u == [k \in 0..n |-> g[1..k]]
<1>12. u[0] = {} /\ u[n] = g[1..n] /\ \A k \in 0..n : u[k] \in V
  BY <1>1, <1>11
<1>13. ASSUME NEW k \in 0..(n - 1) PROVE u[k + 1] = Claim(u[k], s[k + 1])
  <2>1. k \in 0..n /\ k + 1 \in 0..n /\ k + 1 \in 1..n
    BY <1>1
  <2> QED BY <1>2, <1>11, <2>1
<1>14. ClaimsOf(s) = u[n] /\ ClaimRun(S, s, u)
  BY <1>1, <1>12, <1>13 DEF V, n, g, ClaimsOf, ClaimRun
<1> QED BY <1>14 DEF n

(* What is claimed after the first k pairs: some of them, each cluster     *)
(* once, and whatever was passed over meets an earlier pair that was not.  *)
ClaimedSoFar(s, k, claimed) ==
  /\ claimed \subseteq {s[i] : i \in 1..k}
  /\ \A x, y \in claimed : x[1] = y[1] \/ x[2] = y[2] => x = y
  /\ \A i \in 1..k : s[i] \in claimed \/
       \E j \in 1..(i - 1) : s[j] \in claimed /\ (s[j][1] = s[i][1] \/ s[j][2] = s[i][2])
LEMMA ClaimNext ==
  ASSUME NEW s, NEW k \in Nat, NEW claimed, ClaimedSoFar(s, k, claimed)
  PROVE  ClaimedSoFar(s, k + 1, Claim(claimed, s[k + 1]))
<1> DEFINE x == s[k + 1]
           next == Claim(claimed, x)
<1>1. 1..(k + 1) = (1..k) \cup {k + 1} /\ k + 1 \in 1..(k + 1) /\ 1..k \subseteq 1..(k + 1)
  OBVIOUS
<1>2. claimed \subseteq next
  BY DEF Claim
<1>3. \A i \in 1..k : s[i] \in next \/
         \E j \in 1..(i - 1) : s[j] \in next /\ (s[j][1] = s[i][1] \/ s[j][2] = s[i][2])
  BY <1>2 DEF ClaimedSoFar
<1>4. CASE Meets(x, claimed)
  <2>1. next = claimed
    BY <1>4 DEF Claim
  <2>2. PICK c \in claimed : c[1] = x[1] \/ c[2] = x[2]
    BY <1>4 DEF Meets
  <2>3. PICK j \in 1..k : s[j] = c
    BY <2>2 DEF ClaimedSoFar
  <2>4. j \in 1..((k + 1) - 1)
    BY <2>3
  <2>5. \E j_1 \in 1..((k + 1) - 1) : s[j_1] \in next /\ (s[j_1][1] = x[1] \/ s[j_1][2] = x[2])
    BY <2>1, <2>2, <2>3, <2>4
  <2>6. next \subseteq {s[i] : i \in 1..(k + 1)}
    BY <1>1, <2>1 DEF ClaimedSoFar
  <2>7. \A y, z \in next : y[1] = z[1] \/ y[2] = z[2] => y = z
    BY <2>1 DEF ClaimedSoFar
  <2>8. \A i \in 1..(k + 1) : s[i] \in next \/
          \E j_1 \in 1..(i - 1) : s[j_1] \in next /\ (s[j_1][1] = s[i][1] \/ s[j_1][2] = s[i][2])
    BY <1>1, <1>3, <2>5
  <2> QED BY <2>6, <2>7, <2>8 DEF ClaimedSoFar
<1>5. CASE ~Meets(x, claimed)
  <2>1. next = claimed \cup {x}
    BY <1>5 DEF Claim
  <2>2. \A c \in claimed : c[1] # x[1] /\ c[2] # x[2]
    BY <1>5 DEF Meets
  <2>3. next \subseteq {s[i] : i \in 1..(k + 1)}
    BY <1>1, <2>1 DEF ClaimedSoFar
  <2>4. \A y, z \in next : y[1] = z[1] \/ y[2] = z[2] => y = z
    BY <2>1, <2>2 DEF ClaimedSoFar
  <2>5. s[k + 1] \in next
    BY <2>1
  <2>6. \A i \in 1..(k + 1) : s[i] \in next \/
          \E j_1 \in 1..(i - 1) : s[j_1] \in next /\ (s[j_1][1] = s[i][1] \/ s[j_1][2] = s[i][2])
    BY <1>1, <1>3, <2>5
  <2> QED BY <2>3, <2>4, <2>6 DEF ClaimedSoFar
<1> QED BY <1>4, <1>5

(* So what is claimed in the end is a stable matching.                     *)
LEMMA ClaimedStable ==
  ASSUME NEW clusters, NEW previous, Places(clusters), Places(previous)
  PROVE  Stable(clusters, previous, Claimed(clusters, previous))
<1> DEFINE s == InReach(clusters, previous)
           S == Pairs(clusters, previous)
           near(x, y) == Nearer(clusters, previous, x, y)
           claimed == Claimed(clusters, previous)
<1>1. /\ s \in Seq(S) /\ ToSet(s) = S
      /\ \A i, j \in 1..Len(s) : i < j => near(s[i], s[j])
  BY InReachIs
<1>2. claimed = ClaimsOf(s)
  BY ClaimedIs
<1>9. Stable(clusters, previous, claimed) <=>
        /\ claimed \subseteq S
        /\ \A x, y \in claimed : x[1] = y[1] \/ x[2] = y[2] => x = y
        /\ \A x \in S \ claimed : \E y \in claimed : (y[1] = x[1] \/ y[2] = x[2]) /\ near(y, x)
  BY DEF Stable
<1> HIDE DEF s, S, near, claimed
<1>a. PICK u : claimed = u[Len(s)] /\ ClaimRun(S, s, u)
  BY <1>1, <1>2, ClaimsFold
<1>3. /\ u[0] = {} /\ \A k \in 0..Len(s) : u[k] \in SUBSET S
      /\ \A k \in 0..(Len(s) - 1) : u[k + 1] = Claim(u[k], s[k + 1])
  BY <1>a DEF ClaimRun
<1>4. Len(s) \in Nat /\ S = {s[i] : i \in 1..Len(s)}
  BY <1>1, LenProperties, ElementsIs
<1> DEFINE N == {k \in Nat : k <= Len(s) => ClaimedSoFar(s, k, u[k])}
<1>5. 0 \in N
  <2>1. ClaimedSoFar(s, 0, {})
    BY DEF ClaimedSoFar
  <2> QED BY <1>3, <2>1
<1>6. ASSUME NEW k \in Nat, k \in N PROVE k + 1 \in N
  <2> SUFFICES ASSUME k + 1 <= Len(s) PROVE ClaimedSoFar(s, k + 1, u[k + 1])
    OBVIOUS
  <2>1. k <= Len(s) /\ k \in 0..(Len(s) - 1)
    BY <1>4
  <2>2. ClaimedSoFar(s, k, u[k]) /\ u[k + 1] = Claim(u[k], s[k + 1])
    BY <1>3, <1>6, <2>1
  <2> QED BY <2>2, ClaimNext
<1> HIDE DEF N
<1>7. Nat \subseteq N
  BY <1>5, <1>6, NumberInduction
<1>8. ClaimedSoFar(s, Len(s), claimed)
  BY <1>a, <1>4, <1>7 DEF N
<1>10. ASSUME NEW x \in S \ claimed
       PROVE  \E y \in claimed : (y[1] = x[1] \/ y[2] = x[2]) /\ near(y, x)
  <2>1. PICK i \in 1..Len(s) : s[i] = x
    BY <1>4
  <2>2. PICK j \in 1..(i - 1) : s[j] \in claimed /\ (s[j][1] = s[i][1] \/ s[j][2] = s[i][2])
    BY <1>8, <2>1 DEF ClaimedSoFar
  <2>3. j \in 1..Len(s) /\ j < i
    BY <1>4, <2>1, <2>2
  <2> QED BY <1>1, <2>1, <2>2, <2>3
<1>11. claimed \subseteq S /\ \A x, y \in claimed : x[1] = y[1] \/ x[2] = y[2] => x = y
  BY <1>4, <1>8 DEF ClaimedSoFar
<1>12. Stable(clusters, previous, claimed)
  BY <1>9, <1>10, <1>11
<1> QED BY <1>12 DEF claimed

Fit == Seq([centroid : Int, radius : Nat])
LineRow == Seq([centroid : Int, radius : Nat, id : Nat])
LEMMA PlacesAre == (\A fit \in Fit : Places(fit)) /\ (\A row \in LineRow : Places(row))
<1>1. ASSUME NEW fit \in Fit PROVE Places(fit)
  <2>1. Len(fit) \in Nat /\ \A c \in 1..Len(fit) : fit[c] \in [centroid : Int, radius : Nat]
    BY LenProperties, ElementOfSeq DEF Fit
  <2> QED BY <2>1 DEF Places
<1>2. ASSUME NEW row \in LineRow PROVE Places(row)
  <2>1. Len(row) \in Nat /\ \A c \in 1..Len(row) : row[c] \in [centroid : Int, radius : Nat, id : Nat]
    BY LenProperties, ElementOfSeq DEF LineRow
  <2> QED BY <2>1 DEF Places
<1> QED BY <1>1, <1>2

(* The ids of a row are its own and below the next number.                 *)
Numbered(row, next) ==
  \A c \in 1..Len(row) : /\ row[c].id \in Nat /\ row[c].id < next
                         /\ \A d \in 1..Len(row) : row[c].id = row[d].id => c = d

LEMMA NewBeforeRises ==
  ASSUME NEW claimed, NEW c \in Nat \ {0}, NEW d \in Nat \ {0}
  PROVE  /\ NewBefore(claimed, c) \in Nat
         /\ c < d /\ (\A pair \in claimed : pair[1] # c) => NewBefore(claimed, c) < NewBefore(claimed, d)
<1> DEFINE fresh(n) == {b \in 1..(n - 1) : \A pair \in claimed : pair[1] # b}
<1>1. ASSUME NEW n \in Nat \ {0} PROVE IsFiniteSet(fresh(n)) /\ Cardinality(fresh(n)) \in Nat
  <2>1. IsFiniteSet(1..(n - 1)) /\ fresh(n) \subseteq 1..(n - 1)
    BY FS_Interval
  <2> HIDE DEF fresh
  <2> QED BY <2>1, FS_Subset, FS_CardinalityType
<1>2. ASSUME c < d, \A pair \in claimed : pair[1] # c PROVE Cardinality(fresh(c)) < Cardinality(fresh(d))
  <2>1. fresh(c) \subseteq fresh(d)
    BY <1>2
  <2>2. c \in fresh(d) /\ c \notin fresh(c)
    BY <1>2
  <2>3. IsFiniteSet(fresh(d)) /\ Cardinality(fresh(d)) \in Nat /\ Cardinality(fresh(c)) \in Nat
    BY <1>1
  <2> HIDE DEF fresh
  <2>4. Cardinality(fresh(c)) <= Cardinality(fresh(d)) /\ (Cardinality(fresh(c)) = Cardinality(fresh(d)) => fresh(c) = fresh(d))
    BY <2>1, <2>3, FS_Subset
  <2> QED BY <2>2, <2>3, <2>4
<1> QED BY <1>1, <1>2 DEF NewBefore

(* A cluster has the id of the one it claims; otherwise a number nobody    *)
(* had.  So two clusters share an id exactly where one claims the other.   *)
LEMMA ContinuedIs ==
  ASSUME NEW fit \in Fit, NEW previous \in LineRow, NEW next \in Nat, Numbered(previous, next)
  PROVE  LET row == Continued(fit, previous, next)
             claimed == Claimed(fit, previous)
         IN  /\ row \in LineRow /\ Len(row) = Len(fit)
             /\ \A c \in 1..Len(fit) : row[c].centroid = fit[c].centroid /\ row[c].radius = fit[c].radius
             /\ \A c, d \in 1..Len(row) : row[c].id = row[d].id => c = d
             /\ \A c \in 1..Len(row) :
                  row[c].id >= next \/ \E d \in 1..Len(previous) : row[c].id = previous[d].id
             /\ \A c \in 1..Len(row), d \in 1..Len(previous) :
                  row[c].id = previous[d].id <=> <<c, d>> \in claimed
<1> DEFINE claimed == Claimed(fit, previous)
           m == Len(fit)
           n == Len(previous)
           taken(c) == \E pair \in claimed : pair[1] = c
           mate(c) == CHOOSE pair \in claimed : pair[1] = c
           number(c) == IF taken(c) THEN previous[mate(c)[2]].id ELSE next + NewBefore(claimed, c)
           row == Continued(fit, previous, next)
<1>1. m \in Nat /\ n \in Nat /\ Places(fit) /\ Places(previous)
  BY PlacesAre DEF Places
<1>2. row = [c \in 1..m |-> [centroid |-> fit[c].centroid, radius |-> fit[c].radius, id |-> number(c)]]
  BY DEF Continued
<1>3. /\ claimed \subseteq (1..m) \X (1..n)
      /\ \A x, y \in claimed : x[1] = y[1] \/ x[2] = y[2] => x = y
  BY <1>1, ClaimedStable DEF Stable, Pairs
<1>4. \A c \in 1..m : fit[c].centroid \in Int /\ fit[c].radius \in Nat
  BY <1>1 DEF Places
<1>5. \A d \in 1..n : previous[d].id \in Nat /\ previous[d].id < next
      /\ \A e \in 1..n : previous[d].id = previous[e].id => d = e
  BY DEF Numbered
<1>6. ASSUME NEW c \in 1..m, NEW d \in 1..n, <<c, d>> \in claimed PROVE number(c) = previous[d].id
  <2>1. taken(c) /\ mate(c) \in claimed /\ mate(c)[1] = c
    BY <1>6
  <2>2. mate(c) = <<c, d>>
    <3>1. mate(c)[1] = <<c, d>>[1]
      BY <2>1
    <3> HIDE DEF mate
    <3> QED BY <1>3, <1>6, <2>1, <3>1
  <2>3. number(c) = previous[mate(c)[2]].id
    BY <2>1
  <2> HIDE DEF mate, number
  <2> QED BY <2>2, <2>3
<1>7. ASSUME NEW c \in 1..m, taken(c)
      PROVE  \E d \in 1..n : <<c, d>> \in claimed /\ number(c) = previous[d].id
  <2>1. PICK pair \in claimed : pair[1] = c
    BY <1>7
  <2>2. pair[2] \in 1..n /\ pair = <<c, pair[2]>>
    BY <1>3, <2>1
  <2>3. <<c, pair[2]>> \in claimed
    BY <2>1, <2>2
  <2> HIDE DEF number
  <2> QED BY <1>6, <2>2, <2>3
<1>8. ASSUME NEW c \in 1..m, ~taken(c) PROVE number(c) = next + NewBefore(claimed, c) /\ number(c) \in Nat /\ number(c) >= next
  <2>1. c \in Nat \ {0}
    OBVIOUS
  <2>2. NewBefore(claimed, c) \in Nat
    BY <2>1, NewBeforeRises
  <2> QED BY <1>8, <2>2
<1>9. ASSUME NEW c \in 1..m, ~taken(c), NEW d \in 1..m, ~taken(d), c < d PROVE number(c) < number(d)
  <2>1. c \in Nat \ {0} /\ d \in Nat \ {0}
    OBVIOUS
  <2>2. NewBefore(claimed, c) \in Nat /\ NewBefore(claimed, d) \in Nat
    BY <2>1, NewBeforeRises
  <2>3. \A pair \in claimed : pair[1] # c
    BY <1>9
  <2>4. NewBefore(claimed, c) < NewBefore(claimed, d)
    BY <1>9, <2>1, <2>3, NewBeforeRises
  <2> QED BY <1>8, <1>9, <2>2, <2>4
<1> HIDE DEF claimed, m, n, mate, number, row
<1>10. \A c \in 1..m : number(c) \in Nat
  BY <1>5, <1>7, <1>8
<1>11. /\ Len(row) = m /\ row \in LineRow
       /\ \A c \in 1..m : row[c].centroid = fit[c].centroid /\ row[c].radius = fit[c].radius /\ row[c].id = number(c)
  <2>1. row \in [1..m -> [centroid : Int, radius : Nat, id : Nat]]
    BY <1>2, <1>4, <1>10
  <2>2. row \in LineRow
    BY <1>1, <2>1, SeqDef DEF LineRow
  <2>3. Len(row) = m
    BY <1>1, <2>1, <2>2, LenProperties DEF LineRow
  <2>4. \A c \in 1..m : row[c] = [centroid |-> fit[c].centroid, radius |-> fit[c].radius, id |-> number(c)]
    BY <1>2
  <2> QED BY <2>2, <2>3, <2>4
<1>12. ASSUME NEW c \in 1..m, NEW d \in 1..m, number(c) = number(d) PROVE c = d
  <2>1. CASE taken(c) /\ taken(d)
    <3>1. PICK e \in 1..n : <<c, e>> \in claimed /\ number(c) = previous[e].id
      BY <1>7, <2>1
    <3>2. PICK f \in 1..n : <<d, f>> \in claimed /\ number(d) = previous[f].id
      BY <1>7, <2>1
    <3>3. e = f
      BY <1>5, <1>12, <3>1, <3>2
    <3>4. <<c, e>> = <<d, f>>
      BY <1>3, <3>1, <3>2, <3>3
    <3> QED BY <3>4
  <2>0. ASSUME NEW x \in 1..m, NEW y \in 1..m, taken(x), ~taken(y) PROVE number(x) # number(y)
    <3>1. PICK e \in 1..n : number(x) = previous[e].id
      BY <1>7, <2>0
    <3>2. number(y) \in Nat /\ number(y) >= next
      BY <1>8, <2>0
    <3> QED BY <1>5, <3>1, <3>2
  <2>2. CASE taken(c) /\ ~taken(d)
    BY <2>0, <1>12, <2>2
  <2>3. CASE ~taken(c) /\ taken(d)
    BY <2>0, <1>12, <2>3
  <2>4. CASE ~taken(c) /\ ~taken(d)
    <3>1. c < d \/ d < c \/ c = d
      BY <1>1
    <3> QED BY <1>9, <1>10, <1>12, <2>4, <3>1
  <2> QED BY <2>1, <2>2, <2>3, <2>4
<1>13. ASSUME NEW c \in 1..m PROVE number(c) >= next \/ \E d \in 1..n : number(c) = previous[d].id
  BY <1>7, <1>8
<1>14. ASSUME NEW c \in 1..m, NEW d \in 1..n PROVE number(c) = previous[d].id <=> <<c, d>> \in claimed
  <2>1. ASSUME number(c) = previous[d].id PROVE <<c, d>> \in claimed
    <3>1. taken(c)
      BY <1>5, <1>8, <2>1
    <3>2. PICK e \in 1..n : <<c, e>> \in claimed /\ number(c) = previous[e].id
      BY <1>7, <3>1
    <3> QED BY <1>5, <2>1, <3>2
  <2> QED BY <1>6, <2>1
<1>15. /\ row \in LineRow /\ Len(row) = m
       /\ \A c \in 1..m : row[c].centroid = fit[c].centroid /\ row[c].radius = fit[c].radius
       /\ \A c, d \in 1..m : row[c].id = row[d].id => c = d
       /\ \A c \in 1..m : row[c].id >= next \/ \E d \in 1..n : row[c].id = previous[d].id
       /\ \A c \in 1..m, d \in 1..n : row[c].id = previous[d].id <=> <<c, d>> \in claimed
  BY <1>11, <1>12, <1>13, <1>14
<1> QED BY <1>15 DEF row, m, n, claimed

(* The fits that have clusters are fits.                                   *)
Kept(kept, fit) == IF fit = <<>> THEN kept ELSE Append(kept, fit)
KeepsBy(s, g) ==
  g = [T \in SUBSET (DOMAIN s) |-> IF T = {} THEN <<>> ELSE Kept(g[T \ {Max(T)}], s[Max(T)])]
LEMMA UsableUnfolds == \A fits : Usable(fits) = (CHOOSE g : KeepsBy(fits, g))[DOMAIN fits]
BY DEF Usable, FoldLeft, MapThenFoldSet, KeepsBy, Kept

LEMMA UsableIs == ASSUME NEW fits \in Seq(Fit) PROVE Usable(fits) \in Seq(Fit)
<1> DEFINE V == Seq(Fit)
           n == Len(fits)
           step == [i \in 1..n |-> [v \in V |-> Kept(v, fits[i])]]
           g == CHOOSE g : KeepsBy(fits, g)
<1>1. n \in Nat /\ DOMAIN fits = 1..n /\ <<>> \in V /\ \A i \in 1..n : fits[i] \in Fit
  BY LenProperties, ElementOfSeq, EmptySeq
<1>2. \A v \in V, i \in 1..n : Kept(v, fits[i]) \in V
  BY <1>1, AppendProperties DEF Kept
<1>3. step \in [1..n -> [V -> V]] /\ \A i \in 1..n, v \in V : step[i][v] = Kept(v, fits[i])
  BY <1>2
<1> HIDE DEF V, n, step
<1>4. PICK f : FoldsTo(V, n, <<>>, step, f)
  BY <1>1, <1>3, FoldExists
<1>5. f \in [SUBSET (1..n) -> V] /\ \A T \in SUBSET (1..n) : f[T] = Folding(<<>>, step, f, T)
  BY <1>4 DEF FoldsTo
<1>6. \A T \in SUBSET (1..n) : T # {} => Max(T) \in 1..n /\ T \ {Max(T)} \in SUBSET (1..n)
  BY <1>1, MaxOfPlaces
<1>7. ASSUME NEW T \in SUBSET (1..n)
      PROVE  f[T] = IF T = {} THEN <<>> ELSE Kept(f[T \ {Max(T)}], fits[Max(T)])
  <2>1. CASE T = {}
    BY <1>5, <2>1 DEF Folding
  <2>2. CASE T # {}
    <3>1. f[T] = step[Max(T)][f[T \ {Max(T)}]] /\ f[T \ {Max(T)}] \in V
      BY <1>5, <1>6, <2>2 DEF Folding
    <3> QED BY <1>3, <1>6, <2>2, <3>1
  <2> QED BY <2>1, <2>2
<1>8. KeepsBy(fits, f)
  <2>1. f = [T \in SUBSET (1..n) |-> f[T]]
    BY <1>5
  <2>2. f = [T \in SUBSET (1..n) |-> IF T = {} THEN <<>> ELSE Kept(f[T \ {Max(T)}], fits[Max(T)])]
    BY <1>7, <2>1
  <2> QED BY <1>1, <2>2 DEF KeepsBy
<1>9. KeepsBy(fits, g)
  BY <1>8
<1> HIDE DEF g
<1>10. \A T \in SUBSET (1..n) : g[T] = IF T = {} THEN <<>> ELSE Kept(g[T \ {Max(T)}], fits[Max(T)])
  BY <1>1, <1>9 DEF KeepsBy
<1>11. FoldsUp(V, n, <<>>, step, g)
  BY <1>3, <1>6, <1>10 DEF FoldsUp
<1>12. \A k \in 0..n : g[1..k] \in V
  BY <1>1, <1>3, <1>11, FoldSteps DEF FoldRuns
<1> QED BY <1>1, <1>12, UsableUnfolds DEF g, V

(* The rows of the first k fits.                                           *)
History == [rows : Seq(LineRow), next : Nat]
Begun == [rows |-> <<>>, next |-> 1]
Prior(k, v) == IF k = 0 THEN <<>> ELSE v.rows[k]
Extended(used, k, v) ==
  LET row == Continued(used[k + 1], Prior(k, v), v.next)
  IN  [rows |-> Append(v.rows, row),
       next |-> Max({v.next} \cup {row[c].id + 1 : c \in 1..Len(row)})]
Bears(row, id) == \E c \in 1..Len(row) : row[c].id = id
LineInv(used, k, v) ==
  /\ v \in History /\ Len(v.rows) = k
  /\ \A m \in 1..k :
       /\ Numbered(v.rows[m], v.next)
       /\ Len(v.rows[m]) = Len(used[m])
       /\ m > 1 => \A c \in 1..Len(v.rows[m]), d \in 1..Len(v.rows[m - 1]) :
                     v.rows[m][c].id = v.rows[m - 1][d].id
                       <=> <<c, d>> \in Claimed(used[m], v.rows[m - 1])
  /\ \A m, n \in 1..k : \A id \in Nat : Bears(v.rows[m], id) /\ Bears(v.rows[n], id) =>
       \A i \in m..n : Bears(v.rows[i], id)

LEMMA LineBegins == ASSUME NEW used PROVE LineInv(used, 0, Begun)
<1>1. Begun \in History /\ Len(Begun.rows) = 0
  BY EmptySeq DEF Begun, History
<1> QED BY <1>1 DEF LineInv

LEMMA LineGoesOn ==
  ASSUME NEW used \in Seq(Fit), NEW k \in Nat, k < Len(used), NEW v, LineInv(used, k, v)
  PROVE  LineInv(used, k + 1, Extended(used, k, v))
<1> DEFINE old == v.rows
           prior == Prior(k, v)
           next == v.next
           row == Continued(used[k + 1], prior, next)
           ends == {row[c].id + 1 : c \in 1..Len(row)}
           w == Extended(used, k, v)
<1>1. old \in Seq(LineRow) /\ Len(old) = k /\ next \in Nat
  BY DEF LineInv, History
<1>2. used[k + 1] \in Fit
  <2>1. k + 1 \in 1..Len(used)
    BY LenProperties
  <2> QED BY <2>1, ElementOfSeq
<1>3. prior \in LineRow /\ Numbered(prior, next)
  <2>1. CASE k = 0
    <3>1. prior = <<>> /\ Len(<<>>) = 0
      BY <2>1 DEF Prior
    <3> QED BY <3>1, EmptySeq DEF LineRow, Numbered
  <2>2. CASE k # 0
    <3>1. k \in 1..k /\ prior = old[k]
      BY <2>2 DEF Prior
    <3> QED BY <1>1, <3>1, ElementOfSeq DEF LineInv
  <2> QED BY <2>1, <2>2
<1> HIDE DEF prior
<1>4. /\ row \in LineRow /\ Len(row) = Len(used[k + 1])
      /\ \A c, d \in 1..Len(row) : row[c].id = row[d].id => c = d
      /\ \A c \in 1..Len(row) : row[c].id >= next \/ \E d \in 1..Len(prior) : row[c].id = prior[d].id
      /\ \A c \in 1..Len(row), d \in 1..Len(prior) :
           row[c].id = prior[d].id <=> <<c, d>> \in Claimed(used[k + 1], prior)
  BY <1>1, <1>2, <1>3, ContinuedIs
<1>5. w = [rows |-> Append(old, row), next |-> Max({next} \cup ends)]
  BY DEF Extended, prior
<1> HIDE DEF row, old, next, w
<1>6. Len(row) \in Nat /\ \A c \in 1..Len(row) : row[c].id \in Nat
  <2>1. Len(row) \in Nat /\ \A c \in 1..Len(row) : row[c] \in [centroid : Int, radius : Nat, id : Nat]
    BY <1>4, LenProperties, ElementOfSeq DEF LineRow
  <2> QED BY <2>1
<1>7. w.next \in Nat /\ w.next >= next /\ \A c \in 1..Len(row) : row[c].id < w.next
  <2> DEFINE all == {next} \cup ends
  <2>1. IsFiniteSet(ends)
    <3>1. IsFiniteSet(1..Len(row))
      <4>1. 1 \in Int /\ Len(row) \in Int
        BY <1>6
      <4> QED BY <4>1, FS_Interval
    <3>2. [c \in 1..Len(row) |-> row[c].id + 1] \in Surjection(1..Len(row), ends)
      BY DEF Surjection
    <3> QED BY <3>1, <3>2, FS_Surjection
  <2>2. IsFiniteSet(all)
    BY <2>1, FS_Singleton, FS_Union
  <2>3. all \subseteq Nat /\ all # {} /\ next \in all /\ \A c \in 1..Len(row) : row[c].id + 1 \in all
    BY <1>1, <1>6
  <2> HIDE DEF all
  <2>4. Max(all) \in all /\ \A x \in all : x <= Max(all)
    <3>1. all \subseteq Int
      BY <2>3
    <3> QED BY <2>2, <2>3, <3>1, MaxIs
  <2>5. w.next = Max(all)
    BY <1>5 DEF all
  <2>6. w.next \in Nat /\ next <= w.next
    BY <2>3, <2>4, <2>5
  <2>7. ASSUME NEW c \in 1..Len(row) PROVE row[c].id < w.next
    <3>1. row[c].id + 1 <= w.next
      BY <2>3, <2>4, <2>5
    <3> QED BY <1>6, <2>6, <3>1
  <2> QED BY <1>1, <2>6, <2>7
<1>8. /\ w.rows \in Seq(LineRow) /\ Len(w.rows) = k + 1
      /\ \A m \in 1..k : w.rows[m] = old[m]
      /\ w.rows[k + 1] = row
  <2>1. w.rows = Append(old, row)
    BY <1>5
  <2> QED BY <1>1, <1>4, <2>1, AppendProperties
<1>9. w \in History
  BY <1>5, <1>7, <1>8 DEF History
<1>10. 1..(k + 1) = (1..k) \cup {k + 1}
  OBVIOUS
<1>11. \A m \in 1..k : \A id \in Nat : Bears(old[m], id) => id < next
  BY DEF LineInv, Numbered, Bears, old, next
<1>12. \A m \in 1..(k + 1) : Numbered(w.rows[m], w.next) /\ Len(w.rows[m]) = Len(used[m])
  <2>1. \A c \in 1..Len(row) : row[c].id \in Nat /\ row[c].id < w.next
    BY <1>6, <1>7
  <2>2. Numbered(row, w.next) /\ Len(row) = Len(used[k + 1])
    BY <1>4, <2>1 DEF Numbered
  <2>3. ASSUME NEW m \in 1..k PROVE Numbered(old[m], w.next) /\ Len(old[m]) = Len(used[m])
    <3>1. Numbered(old[m], next) /\ Len(old[m]) = Len(used[m])
      BY DEF LineInv, old, next
    <3> QED BY <1>1, <1>7, <3>1 DEF Numbered
  <2> QED BY <1>8, <1>10, <2>2, <2>3
<1>13. ASSUME NEW m \in 1..(k + 1), m > 1, NEW c \in 1..Len(w.rows[m]), NEW d \in 1..Len(w.rows[m - 1])
       PROVE  w.rows[m][c].id = w.rows[m - 1][d].id <=> <<c, d>> \in Claimed(used[m], w.rows[m - 1])
  <2>1. m - 1 \in 1..k /\ w.rows[m - 1] = old[m - 1]
    <3>1. m - 1 \in 1..k
      BY <1>13
    <3> QED BY <1>8, <3>1
  <2>2. CASE m = k + 1
    <3>1. m - 1 = k /\ k # 0
      BY <2>1, <2>2
    <3>2. prior = old[k]
      BY <3>1 DEF prior, Prior, old
    <3>3. w.rows[m - 1] = prior
      BY <2>1, <3>1, <3>2
    <3> QED BY <1>4, <1>8, <1>13, <2>2, <3>3
  <2>3. CASE m # k + 1
    <3>1. m \in 1..k /\ w.rows[m] = old[m]
      BY <1>8, <1>10, <2>3
    <3>2. \A a \in 1..Len(old[m]), b \in 1..Len(old[m - 1]) :
            old[m][a].id = old[m - 1][b].id <=> <<a, b>> \in Claimed(used[m], old[m - 1])
      BY <1>13, <3>1 DEF LineInv, old
    <3> QED BY <2>1, <3>1, <3>2
  <2> QED BY <2>2, <2>3
<1>14. ASSUME NEW m \in 1..k, NEW id \in Nat, Bears(old[m], id), Bears(row, id), NEW i \in m..(k + 1)
       PROVE  Bears(w.rows[i], id)
  <2>1. PICK c \in 1..Len(row) : row[c].id = id
    BY <1>14 DEF Bears
  <2>2. id < next
    BY <1>11, <1>14
  <2>9. ~(row[c].id >= next)
    BY <1>1, <2>1, <2>2
  <2>3. PICK d \in 1..Len(prior) : id = prior[d].id
    BY <1>4, <2>1, <2>9
  <2>4. k \in 1..k /\ prior = old[k]
    <3>1. k # 0
      OBVIOUS
    <3> QED BY <3>1 DEF prior, Prior, old
  <2>5. Bears(old[k], id)
    BY <2>3, <2>4 DEF Bears
  <2>6. \A j \in m..k : Bears(old[j], id)
    BY <1>14, <2>4, <2>5 DEF LineInv, old
  <2>7. CASE i = k + 1
    BY <1>8, <1>14, <2>7
  <2>8. CASE i # k + 1
    <3>1. i \in m..k /\ i \in 1..k
      BY <2>8
    <3> QED BY <1>8, <2>6, <3>1
  <2> QED BY <2>7, <2>8
<1>15. ASSUME NEW m \in 1..(k + 1), NEW n \in 1..(k + 1), NEW id \in Nat,
              Bears(w.rows[m], id), Bears(w.rows[n], id), NEW i \in m..n
       PROVE  Bears(w.rows[i], id)
  <2>1. CASE m = k + 1
    <3>1. i = m
      BY <2>1
    <3> QED BY <1>15, <3>1
  <2>2. CASE m # k + 1 /\ n = k + 1
    <3>1. m \in 1..k /\ Bears(old[m], id) /\ Bears(row, id)
      BY <1>8, <1>10, <1>15, <2>2
    <3> QED BY <1>14, <2>2, <3>1
  <2>3. CASE m # k + 1 /\ n # k + 1
    <3>1. m \in 1..k /\ n \in 1..k /\ i \in 1..k
      BY <1>10, <2>3
    <3>2. Bears(old[m], id) /\ Bears(old[n], id)
      BY <1>8, <1>15, <3>1
    <3>3. Bears(old[i], id)
      BY <3>1, <3>2 DEF LineInv, old
    <3> QED BY <1>8, <3>1, <3>3
  <2> QED BY <2>1, <2>2, <2>3
<1>16. LineInv(used, k + 1, w)
  BY <1>8, <1>9, <1>12, <1>13, <1>15 DEF LineInv
<1> QED BY <1>16 DEF w

LineOver(used, f) ==
  f = [n \in 0..Len(used) |->
        IF n = 0 THEN [rows |-> <<>>, next |-> 1]
        ELSE LET row == Continued(used[n], IF n = 1 THEN <<>> ELSE f[n - 1].rows[n - 1], f[n - 1].next)
             IN  [rows |-> Append(f[n - 1].rows, row),
                  next |-> Max({f[n - 1].next} \cup {row[c].id + 1 : c \in 1..Len(row)})]]
LineUpTo(used) == CHOOSE f : LineOver(used, f)
LEMMA LineagesUnfold ==
  ASSUME NEW fits
  PROVE  Lineages(fits) = IF Len(Usable(fits)) < 2 THEN <<>>
                          ELSE LineUpTo(Usable(fits))[Len(Usable(fits))].rows
BY DEF Lineages, LineOver, LineUpTo

LEMMA LineStep ==
  ASSUME NEW used \in Seq(Fit), NEW f
  PROVE  LineOver(used, f) <=>
           f = [n \in 0..Len(used) |-> IF n = 0 THEN Begun ELSE Extended(used, n - 1, f[n - 1])]
<1> DEFINE row(n) == Continued(used[n], IF n = 1 THEN <<>> ELSE f[n - 1].rows[n - 1], f[n - 1].next)
           to(n) == [rows |-> Append(f[n - 1].rows, row(n)),
                     next |-> Max({f[n - 1].next} \cup {row(n)[c].id + 1 : c \in 1..Len(row(n))})]
<1>1. LineOver(used, f) <=> f = [n \in 0..Len(used) |-> IF n = 0 THEN Begun ELSE to(n)]
  BY DEF LineOver, Begun
<1>2. ASSUME NEW n \in 0..Len(used), n # 0 PROVE to(n) = Extended(used, n - 1, f[n - 1])
  <2>1. (n - 1) + 1 = n /\ (n = 1 <=> n - 1 = 0)
    BY <1>2, LenProperties
  <2>2. Prior(n - 1, f[n - 1]) = IF n = 1 THEN <<>> ELSE f[n - 1].rows[n - 1]
    BY <2>1 DEF Prior
  <2>3. row(n) = Continued(used[(n - 1) + 1], Prior(n - 1, f[n - 1]), f[n - 1].next)
    BY <2>1, <2>2
  <2> QED BY <2>3 DEF Extended
<1> HIDE DEF to
<1> QED BY <1>1, <1>2

(* The rows of all fits, and what holds of them.                           *)
LEMMA LineagesAre ==
  ASSUME NEW used \in Seq(Fit)
  PROVE  LineInv(used, Len(used), LineUpTo(used)[Len(used)])
<1> DEFINE L == Len(used)
           V == History
           go(k, v) == IF k < L /\ LineInv(used, k, v) THEN Extended(used, k, v) ELSE v
           step == [k \in Nat |-> [v \in V |-> go(k, v)]]
<1>1. L \in Nat /\ Begun \in V /\ LineInv(used, 0, Begun)
  BY LenProperties, LineBegins DEF LineInv
<1>2. \A k \in Nat, v \in V : go(k, v) \in V
  BY LineGoesOn DEF LineInv
<1>3. step \in [Nat -> [V -> V]] /\ \A k \in Nat, v \in V : step[k][v] = go(k, v)
  BY <1>2
<1>4. \A k \in Nat, v \in V : k < L /\ LineInv(used, k, v) =>
        go(k, v) = Extended(used, k, v) /\ LineInv(used, k + 1, Extended(used, k, v))
  BY LineGoesOn
<1> HIDE DEF L, V, go, step
<1>5. PICK g : Recurs(V, Begun, step, g)
  BY <1>1, <1>3, Recursion
<1>6. g \in [Nat -> V] /\ g[0] = Begun /\ \A n \in Nat : g[n + 1] = step[n][g[n]]
  BY <1>5 DEF Recurs
<1> DEFINE N == {k \in Nat : k <= L => LineInv(used, k, g[k])}
<1>7. 0 \in N
  BY <1>1, <1>6
<1>8. ASSUME NEW k \in Nat, k \in N PROVE k + 1 \in N
  <2> SUFFICES ASSUME k + 1 <= L PROVE LineInv(used, k + 1, g[k + 1])
    OBVIOUS
  <2>1. k < L /\ LineInv(used, k, g[k]) /\ g[k] \in V
    BY <1>1, <1>6, <1>8
  <2> QED BY <1>3, <1>4, <1>6, <2>1
<1> HIDE DEF N
<1>9. Nat \subseteq N
  BY <1>7, <1>8, NumberInduction
<1>10. ASSUME NEW k \in Nat, k < L PROVE g[k + 1] = Extended(used, k, g[k])
  <2>1. LineInv(used, k, g[k]) /\ g[k] \in V
    <3>1. k \in N /\ k <= L
      BY <1>1, <1>9, <1>10
    <3> QED BY <1>6, <3>1 DEF N
  <2> QED BY <1>3, <1>4, <1>6, <1>10, <2>1
<1> DEFINE f == [n \in 0..L |-> g[n]]
<1>11. \A n \in 0..L : n # 0 => g[n] = Extended(used, n - 1, g[n - 1])
  <2> SUFFICES ASSUME NEW n \in 0..L, n # 0 PROVE g[n] = Extended(used, n - 1, g[n - 1])
    OBVIOUS
  <2>1. n - 1 \in Nat /\ n - 1 < L /\ (n - 1) + 1 = n
    BY <1>1
  <2> QED BY <1>10, <2>1
<1>12. f = [n \in 0..L |-> IF n = 0 THEN Begun ELSE Extended(used, n - 1, f[n - 1])]
  <2>1. ASSUME NEW n \in 0..L, n # 0 PROVE f[n - 1] = g[n - 1]
    <3>1. n - 1 \in 0..L
      BY <1>1, <2>1
    <3> QED BY <3>1
  <2>2. ASSUME NEW n \in 0..L PROVE g[n] = IF n = 0 THEN Begun ELSE Extended(used, n - 1, f[n - 1])
    BY <1>6, <1>11, <2>1
  <2> QED BY <2>2
<1>13. LineOver(used, f)
  BY <1>12, LineStep DEF L
<1> DEFINE h == LineUpTo(used)
<1>14. LineOver(used, h)
  BY <1>13 DEF LineUpTo
<1> HIDE DEF h, f
<1>15. h = [n \in 0..L |-> IF n = 0 THEN Begun ELSE Extended(used, n - 1, h[n - 1])]
  BY <1>14, LineStep DEF L
<1> DEFINE M == {k \in Nat : k <= L => LineInv(used, k, h[k])}
<1>16. 0 \in M
  <2>1. 0 \in 0..L
    BY <1>1
  <2> QED BY <1>1, <1>15, <2>1
<1>17. ASSUME NEW k \in Nat, k \in M PROVE k + 1 \in M
  <2> SUFFICES ASSUME k + 1 <= L PROVE LineInv(used, k + 1, h[k + 1])
    OBVIOUS
  <2>1. k < L /\ k + 1 \in 0..L /\ k + 1 # 0 /\ (k + 1) - 1 = k
    BY <1>1
  <2>2. LineInv(used, k, h[k])
    BY <1>1, <1>17, <2>1
  <2>3. h[k + 1] = Extended(used, k, h[k])
    BY <1>15, <2>1
  <2> QED BY <2>1, <2>2, <2>3, LineGoesOn DEF L
<1> HIDE DEF M
<1>18. Nat \subseteq M
  BY <1>16, <1>17, NumberInduction
<1>19. LineInv(used, L, h[L])
  BY <1>1, <1>18 DEF M
<1> QED BY <1>19 DEF L, h

(* What the rows say of two fits.                                          *)
LEMMA LineagesSay ==
  ASSUME NEW used \in Seq(Fit), NEW v, LineInv(used, Len(used), v)
  PROVE  \A n \in 1..Len(v.rows) :
           LET row == v.rows[n] IN
           /\ Cardinality(IdsOf(row)) = Len(row)
           /\ n > 1 => Stable(used[n], v.rows[n - 1],
                {pair \in (1..Len(row)) \X (1..Len(v.rows[n - 1])) :
                   row[pair[1]].id = v.rows[n - 1][pair[2]].id})
           /\ \A m \in 1..Len(v.rows) : \A id \in IdsOf(row) \cap IdsOf(v.rows[m]) :
                \A k \in n..m : id \in IdsOf(v.rows[k])
<1> DEFINE rows == v.rows
<1>1. rows \in Seq(LineRow) /\ Len(rows) = Len(used) /\ Len(used) \in Nat
  BY LenProperties DEF LineInv, History
<1>2. ASSUME NEW n \in 1..Len(rows)
      PROVE  rows[n] \in LineRow /\ Len(rows[n]) \in Nat /\ used[n] \in Fit /\ Numbered(rows[n], v.next)
             /\ Len(rows[n]) = Len(used[n])
  <2>1. rows[n] \in LineRow /\ used[n] \in Fit
    BY <1>1, ElementOfSeq
  <2> QED BY <1>1, <2>1, LenProperties DEF LineInv, LineRow
<1>3. \A n \in 1..Len(rows) : \A id : id \in IdsOf(rows[n]) <=> Bears(rows[n], id)
  BY DEF IdsOf, Bears
<1>a. \A n \in 1..Len(rows) : n > 1 =>
        \A c \in 1..Len(rows[n]), d \in 1..Len(rows[n - 1]) :
          rows[n][c].id = rows[n - 1][d].id <=> <<c, d>> \in Claimed(used[n], rows[n - 1])
  BY <1>1 DEF LineInv
<1>b. \A m, n \in 1..Len(rows) : \A id \in Nat : Bears(rows[m], id) /\ Bears(rows[n], id) =>
        \A i \in m..n : Bears(rows[i], id)
  BY <1>1 DEF LineInv
<1> HIDE DEF rows
<1>4. ASSUME NEW n \in 1..Len(rows) PROVE Cardinality(IdsOf(rows[n])) = Len(rows[n])
  <2> DEFINE K == 1..Len(rows[n])
             I == IdsOf(rows[n])
             f == [c \in K |-> rows[n][c].id]
  <2>1. IsFiniteSet(K) /\ Cardinality(K) = Len(rows[n])
    <3>1. Len(rows[n]) \in Int /\ 1 \in Int /\ (IF 1 > Len(rows[n]) THEN 0 ELSE Len(rows[n]) - 1 + 1) = Len(rows[n])
      BY <1>2
    <3> QED BY <3>1, FS_Interval
  <2>2. f \in Bijection(K, I)
    <3>1. f \in [K -> I] /\ \A i \in I : \E c \in K : f[c] = i
      BY DEF IdsOf
    <3>2. \A c, d \in K : f[c] = f[d] => c = d
      BY <1>2 DEF Numbered
    <3> QED BY <3>1, <3>2 DEF Bijection, Injection, Surjection, IsInjective
  <2> HIDE DEF K, I, f
  <2>3. Cardinality(I) = Cardinality(K)
    BY <2>1, <2>2, FS_Bijection DEF ExistsBijection
  <2> QED BY <2>1, <2>3 DEF I
<1>5. ASSUME NEW n \in 1..Len(rows), n > 1
      PROVE  Stable(used[n], rows[n - 1],
               {pair \in (1..Len(rows[n])) \X (1..Len(rows[n - 1])) :
                  rows[n][pair[1]].id = rows[n - 1][pair[2]].id})
  <2> DEFINE P == {pair \in (1..Len(rows[n])) \X (1..Len(rows[n - 1])) :
                     rows[n][pair[1]].id = rows[n - 1][pair[2]].id}
             C == Claimed(used[n], rows[n - 1])
  <2>1. n - 1 \in 1..Len(rows)
    BY <1>1, <1>5
  <2>2. Places(used[n]) /\ Places(rows[n - 1])
    BY <1>2, <2>1, PlacesAre
  <2>3. Stable(used[n], rows[n - 1], C)
    BY <2>2, ClaimedStable
  <2>4. C \subseteq (1..Len(rows[n])) \X (1..Len(rows[n - 1]))
    BY <1>2, <2>3 DEF Stable, Pairs
  <2>5. \A c \in 1..Len(rows[n]), d \in 1..Len(rows[n - 1]) :
          rows[n][c].id = rows[n - 1][d].id <=> <<c, d>> \in C
    BY <1>5, <1>a
  <2> HIDE DEF C
  <2>6. P = C
    BY <2>4, <2>5
  <2> QED BY <2>3, <2>6
<1>6. ASSUME NEW n \in 1..Len(rows), NEW m \in 1..Len(rows), NEW id \in IdsOf(rows[n]) \cap IdsOf(rows[m]),
             NEW k \in n..m
      PROVE  id \in IdsOf(rows[k])
  <2>1. id \in Nat
    <3>1. PICK c \in 1..Len(rows[n]) : rows[n][c].id = id
      BY DEF IdsOf
    <3> QED BY <1>2, <3>1 DEF Numbered
  <2>2. k \in 1..Len(rows)
    BY <1>1
  <2> QED BY <1>3, <1>b, <2>1, <2>2
<1> QED BY <1>4, <1>5, <1>6 DEF rows

(* A question for the lineages is about fits.                              *)
FitsPosed == question.kind = "lineage" => question.fits \in FitHistories

(* No cluster is denied a lineage that was nearer to it than to the one    *)
(* that took it, a lineage has one cluster in a fit, and it never breaks   *)
(* off and comes back: LineagesStable of CoreQuestions, for any history of *)
(* fits.                                                                   *)
THEOREM LineagesAreStable == CoresSpec => []LineagesStable
<1>1. CoresInit => FitsPosed
  BY DEF CoresInit, FitsPosed
<1>2. FitsPosed /\ [Pose]_question => FitsPosed'
  <2> SUFFICES ASSUME FitsPosed, [Pose]_question PROVE FitsPosed'
    OBVIOUS
  <2>1. CASE Pose
    BY <2>1 DEF Pose, Questions, FitsPosed
  <2>2. CASE UNCHANGED question
    BY <2>2 DEF FitsPosed
  <2> QED BY <2>1, <2>2
<1>3. FitsPosed => LineagesStable
  <2> SUFFICES ASSUME FitsPosed, question.kind = "lineage" PROVE LineagesStable
    BY DEF LineagesStable
  <2> DEFINE fits == question.fits
             used == Usable(fits)
             v == LineUpTo(used)[Len(used)]
  <2>1. fits \in Seq(Fit)
    BY CoresAssumption DEF FitsPosed, Fit
  <2>2. used \in Seq(Fit) /\ Len(used) \in Nat
    BY <2>1, UsableIs, LenProperties
  <2>3. LineInv(used, Len(used), v)
    BY <2>2, LineagesAre
  <2>4. Lineages(fits) = <<>> \/ Lineages(fits) = v.rows
    BY LineagesUnfold
  <2>5. CASE Lineages(fits) = <<>>
    <3>1. Len(<<>>) = 0
      OBVIOUS
    <3>2. 1..Len(Lineages(fits)) = {}
      BY <2>5, <3>1
    <3> QED BY <3>2 DEF LineagesStable
  <2>6. CASE Lineages(fits) = v.rows
    <3> HIDE DEF v, used
    <3>1. \A n \in 1..Len(v.rows) :
           LET row == v.rows[n] IN
           /\ Cardinality(IdsOf(row)) = Len(row)
           /\ n > 1 => Stable(used[n], v.rows[n - 1],
                {pair \in (1..Len(row)) \X (1..Len(v.rows[n - 1])) :
                   row[pair[1]].id = v.rows[n - 1][pair[2]].id})
           /\ \A m \in 1..Len(v.rows) : \A id \in IdsOf(row) \cap IdsOf(v.rows[m]) :
                \A k \in n..m : id \in IdsOf(v.rows[k])
      BY <2>2, <2>3, LineagesSay
    <3>2. Lineages(question.fits) = v.rows /\ Usable(question.fits) = used
      BY <2>6 DEF used
    <3> QED BY <3>1, <3>2 DEF LineagesStable
  <2> QED BY <2>4, <2>5, <2>6
<1> QED BY <1>1, <1>2, <1>3, PTL DEF CoresSpec

-----------------------------------------------------------------------------
(* ForecastCore.  The sequences that are built and fitted.                *)

(* The known tactics of an alert: a fold that appends.                     *)
KnownNext(kept, t) == IF t = Unknown \/ Contains(kept, t) THEN kept ELSE Append(kept, t)
KnownBy(s, g) ==
  g = [T \in SUBSET (DOMAIN s) |-> IF T = {} THEN <<>> ELSE KnownNext(g[T \ {Max(T)}], s[Max(T)])]
CollapsedNext(kept, t) == IF kept # <<>> /\ Last(kept) = t THEN kept ELSE Append(kept, t)
CollapsedBy(s, g) ==
  g = [T \in SUBSET (DOMAIN s) |-> IF T = {} THEN <<>> ELSE CollapsedNext(g[T \ {Max(T)}], s[Max(T)])]
LEMMA SequenceFolds ==
  ASSUME NEW s
  PROVE  /\ Known(s) = (CHOOSE g : KnownBy(s, g))[DOMAIN s]
         /\ Collapsed(s) = (CHOOSE g : CollapsedBy(s, g))[DOMAIN s]
BY DEF Known, Collapsed, FoldLeft, MapThenFoldSet, KnownBy, KnownNext, CollapsedBy, CollapsedNext

LEMMA KnownSteps ==
  ASSUME Unknown \notin Tactics, NEW s \in Seq(Tactics \cup {Unknown})
  PROVE  \E u : /\ Known(s) = u[Len(s)]
                /\ u[0] = <<>> /\ \A k \in 0..Len(s) : u[k] \in Seq(Tactics)
                /\ \A k \in 0..(Len(s) - 1) : u[k + 1] = KnownNext(u[k], s[k + 1])
<1> DEFINE V == Seq(Tactics)
           n == Len(s)
           step == [i \in 1..n |-> [v \in V |-> KnownNext(v, s[i])]]
           g == CHOOSE g : KnownBy(s, g)
<1>1. n \in Nat /\ DOMAIN s = 1..n /\ <<>> \in V /\ \A i \in 1..n : s[i] \in Tactics \cup {Unknown}
  BY LenProperties, ElementOfSeq, EmptySeq
<1>2. \A v \in V, i \in 1..n : KnownNext(v, s[i]) \in V
  BY <1>1, AppendProperties DEF KnownNext
<1>3. step \in [1..n -> [V -> V]] /\ \A i \in 1..n, v \in V : step[i][v] = KnownNext(v, s[i])
  BY <1>2
<1> HIDE DEF V, n, step
<1>4. PICK f : FoldsTo(V, n, <<>>, step, f)
  BY <1>1, <1>3, FoldExists
<1>5. f \in [SUBSET (1..n) -> V] /\ \A T \in SUBSET (1..n) : f[T] = Folding(<<>>, step, f, T)
  BY <1>4 DEF FoldsTo
<1>6. \A T \in SUBSET (1..n) : T # {} => Max(T) \in 1..n /\ T \ {Max(T)} \in SUBSET (1..n)
  BY <1>1, MaxOfPlaces
<1>7. ASSUME NEW T \in SUBSET (1..n)
      PROVE  f[T] = IF T = {} THEN <<>> ELSE KnownNext(f[T \ {Max(T)}], s[Max(T)])
  <2>1. CASE T = {}
    BY <1>5, <2>1 DEF Folding
  <2>2. CASE T # {}
    <3>1. f[T] = step[Max(T)][f[T \ {Max(T)}]] /\ f[T \ {Max(T)}] \in V
      BY <1>5, <1>6, <2>2 DEF Folding
    <3> QED BY <1>3, <1>6, <2>2, <3>1
  <2> QED BY <2>1, <2>2
<1>8. KnownBy(s, f)
  <2>1. f = [T \in SUBSET (1..n) |-> f[T]]
    BY <1>5
  <2>2. f = [T \in SUBSET (1..n) |-> IF T = {} THEN <<>> ELSE KnownNext(f[T \ {Max(T)}], s[Max(T)])]
    BY <1>7, <2>1
  <2> QED BY <1>1, <2>2 DEF KnownBy
<1>9. KnownBy(s, g)
  BY <1>8
<1> HIDE DEF g
<1>10. \A T \in SUBSET (1..n) : g[T] = IF T = {} THEN <<>> ELSE KnownNext(g[T \ {Max(T)}], s[Max(T)])
  BY <1>1, <1>9 DEF KnownBy
<1>11. FoldsUp(V, n, <<>>, step, g)
  BY <1>3, <1>6, <1>10 DEF FoldsUp
<1>a. FoldRuns(V, n, <<>>, step, g)
  BY <1>1, <1>3, <1>11, FoldSteps
<1>12. /\ g[1..0] = <<>> /\ \A k \in 0..n : g[1..k] \in V
       /\ \A k \in 0..(n - 1) : g[1..(k + 1)] = step[k + 1][g[1..k]]
  BY <1>a DEF FoldRuns
<1> DEFINE u == [k \in 0..n |-> g[1..k]]
<1>13. u[0] = <<>> /\ u[n] = g[1..n] /\ \A k \in 0..n : u[k] \in V
  BY <1>1, <1>12
<1>14. ASSUME NEW k \in 0..(n - 1) PROVE u[k + 1] = KnownNext(u[k], s[k + 1])
  <2>1. k \in 0..n /\ k + 1 \in 0..n /\ k + 1 \in 1..n
    BY <1>1
  <2> QED BY <1>3, <1>12, <2>1
<1>15. Known(s) = u[n]
  BY <1>1, <1>13, SequenceFolds DEF g
<1> QED BY <1>13, <1>14, <1>15 DEF n, V

LEMMA CollapsedSteps ==
  ASSUME NEW A, NEW s \in Seq(A)
  PROVE  \E u : /\ Collapsed(s) = u[Len(s)]
                /\ u[0] = <<>> /\ \A k \in 0..Len(s) : u[k] \in Seq(A)
                /\ \A k \in 0..(Len(s) - 1) : u[k + 1] = CollapsedNext(u[k], s[k + 1])
<1> DEFINE V == Seq(A)
           n == Len(s)
           step == [i \in 1..n |-> [v \in V |-> CollapsedNext(v, s[i])]]
           g == CHOOSE g : CollapsedBy(s, g)
<1>1. n \in Nat /\ DOMAIN s = 1..n /\ <<>> \in V /\ \A i \in 1..n : s[i] \in A
  BY LenProperties, ElementOfSeq, EmptySeq
<1>2. \A v \in V, i \in 1..n : CollapsedNext(v, s[i]) \in V
  BY <1>1, AppendProperties DEF CollapsedNext
<1>3. step \in [1..n -> [V -> V]] /\ \A i \in 1..n, v \in V : step[i][v] = CollapsedNext(v, s[i])
  BY <1>2
<1> HIDE DEF V, n, step
<1>4. PICK f : FoldsTo(V, n, <<>>, step, f)
  BY <1>1, <1>3, FoldExists
<1>5. f \in [SUBSET (1..n) -> V] /\ \A T \in SUBSET (1..n) : f[T] = Folding(<<>>, step, f, T)
  BY <1>4 DEF FoldsTo
<1>6. \A T \in SUBSET (1..n) : T # {} => Max(T) \in 1..n /\ T \ {Max(T)} \in SUBSET (1..n)
  BY <1>1, MaxOfPlaces
<1>7. ASSUME NEW T \in SUBSET (1..n)
      PROVE  f[T] = IF T = {} THEN <<>> ELSE CollapsedNext(f[T \ {Max(T)}], s[Max(T)])
  <2>1. CASE T = {}
    BY <1>5, <2>1 DEF Folding
  <2>2. CASE T # {}
    <3>1. f[T] = step[Max(T)][f[T \ {Max(T)}]] /\ f[T \ {Max(T)}] \in V
      BY <1>5, <1>6, <2>2 DEF Folding
    <3> QED BY <1>3, <1>6, <2>2, <3>1
  <2> QED BY <2>1, <2>2
<1>8. CollapsedBy(s, f)
  <2>1. f = [T \in SUBSET (1..n) |-> f[T]]
    BY <1>5
  <2>2. f = [T \in SUBSET (1..n) |-> IF T = {} THEN <<>> ELSE CollapsedNext(f[T \ {Max(T)}], s[Max(T)])]
    BY <1>7, <2>1
  <2> QED BY <1>1, <2>2 DEF CollapsedBy
<1>9. CollapsedBy(s, g)
  BY <1>8
<1> HIDE DEF g
<1>10. \A T \in SUBSET (1..n) : g[T] = IF T = {} THEN <<>> ELSE CollapsedNext(g[T \ {Max(T)}], s[Max(T)])
  BY <1>1, <1>9 DEF CollapsedBy
<1>11. FoldsUp(V, n, <<>>, step, g)
  BY <1>3, <1>6, <1>10 DEF FoldsUp
<1>a. FoldRuns(V, n, <<>>, step, g)
  BY <1>1, <1>3, <1>11, FoldSteps
<1>12. /\ g[1..0] = <<>> /\ \A k \in 0..n : g[1..k] \in V
       /\ \A k \in 0..(n - 1) : g[1..(k + 1)] = step[k + 1][g[1..k]]
  BY <1>a DEF FoldRuns
<1> DEFINE u == [k \in 0..n |-> g[1..k]]
<1>13. u[0] = <<>> /\ u[n] = g[1..n] /\ \A k \in 0..n : u[k] \in V
  BY <1>1, <1>12
<1>14. ASSUME NEW k \in 0..(n - 1) PROVE u[k + 1] = CollapsedNext(u[k], s[k + 1])
  <2>1. k \in 0..n /\ k + 1 \in 0..n /\ k + 1 \in 1..n
    BY <1>1
  <2> QED BY <1>3, <1>12, <2>1
<1>15. Collapsed(s) = u[n]
  BY <1>1, <1>13, SequenceFolds DEF g
<1> QED BY <1>13, <1>14, <1>15 DEF n, V

LEMMA KnownIs ==
  ASSUME Unknown \notin Tactics, NEW s \in Seq(Tactics \cup {Unknown})
  PROVE  Known(s) \in Seq(Tactics) /\ ToSet(Known(s)) = {t \in Tactics : Contains(s, t)}
<1> DEFINE n == Len(s)
           Seen(k) == {s[i] : i \in 1..k} \ {Unknown}
<1>1. PICK u : /\ Known(s) = u[n]
               /\ u[0] = <<>> /\ \A k \in 0..n : u[k] \in Seq(Tactics)
               /\ \A k \in 0..(n - 1) : u[k + 1] = KnownNext(u[k], s[k + 1])
  BY KnownSteps
<1>2. n \in Nat /\ \A i \in 1..n : s[i] \in Tactics \cup {Unknown}
  BY LenProperties, ElementOfSeq
<1>8. Seen(n) = {t \in Tactics : Contains(s, t)}
  <2>1. \A t : Contains(s, t) <=> \E i \in 1..n : s[i] = t
    BY DEF Contains
  <2> QED BY <1>2, <2>1
<1> HIDE DEF n
<1> DEFINE N == {k \in Nat : k <= n => ToSet(u[k]) = Seen(k)}
<1>3. 0 \in N
  <2>1. Seen(0) = {}
    OBVIOUS
  <2> QED BY <1>1, <2>1, ElementsOfEmpty
<1>4. ASSUME NEW k \in Nat, k \in N PROVE k + 1 \in N
  <2> SUFFICES ASSUME k + 1 <= n PROVE ToSet(u[k + 1]) = Seen(k + 1)
    OBVIOUS
  <2>1. k \in 0..n /\ k \in 0..(n - 1) /\ k + 1 \in 1..n /\ k <= n
    BY <1>2
  <2>2. u[k] \in Seq(Tactics) /\ u[k + 1] = KnownNext(u[k], s[k + 1]) /\ ToSet(u[k]) = Seen(k)
    BY <1>1, <1>4, <2>1
  <2>3. Seen(k + 1) = Seen(k) \cup ({s[k + 1]} \ {Unknown})
    <3>1. 1..(k + 1) = (1..k) \cup {k + 1}
      OBVIOUS
    <3> QED BY <3>1
  <2> HIDE DEF Seen, N
  <2>4. CASE s[k + 1] = Unknown
    BY <2>2, <2>3, <2>4 DEF KnownNext
  <2>5. CASE s[k + 1] # Unknown /\ Contains(u[k], s[k + 1])
    <3>1. s[k + 1] \in ToSet(u[k])
      BY <2>2, <2>5, ElementsIs DEF Contains
    <3> QED BY <2>2, <2>3, <2>5, <3>1 DEF KnownNext
  <2>6. CASE s[k + 1] # Unknown /\ ~Contains(u[k], s[k + 1])
    <3>1. s[k + 1] \in Tactics
      BY <1>2, <2>1, <2>6
    <3>2. u[k + 1] = Append(u[k], s[k + 1])
      BY <2>2, <2>6 DEF KnownNext
    <3>3. ToSet(u[k + 1]) = ToSet(u[k]) \cup {s[k + 1]}
      BY <2>2, <3>1, <3>2, ElementsOfAppend
    <3> QED BY <2>2, <2>3, <2>6, <3>3
  <2> QED BY <2>4, <2>5, <2>6
<1> HIDE DEF N
<1>5. Nat \subseteq N
  BY <1>3, <1>4, NumberInduction
<1> HIDE DEF Seen
<1>9. n \in N
  BY <1>2, <1>5
<1>6. ToSet(u[n]) = Seen(n)
  BY <1>2, <1>9 DEF N
<1>7. u[n] \in Seq(Tactics)
  BY <1>1, <1>2
<1> QED BY <1>1, <1>6, <1>7, <1>8

LEMMA CollapsedIs ==
  ASSUME NEW A, NEW s \in Seq(A)
  PROVE  /\ Collapsed(s) \in Seq(A) /\ ToSet(Collapsed(s)) = ToSet(s)
         /\ \A i \in 1..(Len(Collapsed(s)) - 1) : Collapsed(s)[i] # Collapsed(s)[i + 1]
<1> DEFINE n == Len(s)
           Seen(k) == {s[i] : i \in 1..k}
           Varied(v) == \A i \in 1..(Len(v) - 1) : v[i] # v[i + 1]
<1>1. PICK u : /\ Collapsed(s) = u[n]
               /\ u[0] = <<>> /\ \A k \in 0..n : u[k] \in Seq(A)
               /\ \A k \in 0..(n - 1) : u[k + 1] = CollapsedNext(u[k], s[k + 1])
  BY CollapsedSteps
<1>2. n \in Nat /\ \A i \in 1..n : s[i] \in A
  BY LenProperties, ElementOfSeq
<1>8. Seen(n) = ToSet(s)
  BY ElementsIs
<1> HIDE DEF n
<1> DEFINE N == {k \in Nat : k <= n => ToSet(u[k]) = Seen(k) /\ Varied(u[k])}
<1>3. 0 \in N
  <2>1. Seen(0) = {}
    OBVIOUS
  <2>2. Varied(<<>>)
    BY ElementsOfEmpty
  <2> QED BY <1>1, <2>1, <2>2, ElementsOfEmpty
<1>4. ASSUME NEW k \in Nat, k \in N PROVE k + 1 \in N
  <2> HIDE DEF Seen, Varied
  <2> SUFFICES ASSUME k + 1 <= n PROVE ToSet(u[k + 1]) = Seen(k + 1) /\ Varied(u[k + 1])
    OBVIOUS
  <2> USE DEF Seen, Varied
  <2>1. k \in 0..n /\ k \in 0..(n - 1) /\ k + 1 \in 1..n /\ k <= n
    BY <1>2
  <2>2. u[k] \in Seq(A) /\ u[k + 1] = CollapsedNext(u[k], s[k + 1]) /\ ToSet(u[k]) = Seen(k) /\ Varied(u[k])
    BY <1>1, <1>4, <2>1
  <2>3. Seen(k + 1) = Seen(k) \cup {s[k + 1]}
    <3>1. 1..(k + 1) = (1..k) \cup {k + 1}
      OBVIOUS
    <3> QED BY <3>1
  <2> HIDE DEF Seen, N
  <2>4. CASE u[k] # <<>> /\ Last(u[k]) = s[k + 1]
    <3>1. s[k + 1] \in ToSet(u[k])
      <4>1. Len(u[k]) \in 1..Len(u[k]) /\ u[k][Len(u[k])] = s[k + 1]
        BY <2>2, <2>4, ElementsIs, LenProperties DEF Last
      <4> QED BY <2>2, <4>1, ElementsIs
    <3>2. u[k + 1] = u[k]
      BY <2>2, <2>4 DEF CollapsedNext
    <3> QED BY <2>2, <2>3, <3>1, <3>2
  <2>5. CASE ~(u[k] # <<>> /\ Last(u[k]) = s[k + 1])
    <3>1. s[k + 1] \in A
      BY <1>2, <2>1
    <3>2. u[k + 1] = Append(u[k], s[k + 1])
      BY <2>2, <2>5 DEF CollapsedNext
    <3>3. ToSet(u[k + 1]) = ToSet(u[k]) \cup {s[k + 1]}
      BY <2>2, <3>1, <3>2, ElementsOfAppend
    <3>4. /\ Len(u[k + 1]) = Len(u[k]) + 1 /\ Len(u[k]) \in Nat
          /\ \A i \in 1..Len(u[k]) : u[k + 1][i] = u[k][i]
          /\ u[k + 1][Len(u[k]) + 1] = s[k + 1]
      BY <2>2, <3>1, <3>2, AppendProperties, LenProperties
    <3>5. ASSUME NEW i \in 1..(Len(u[k + 1]) - 1) PROVE u[k + 1][i] # u[k + 1][i + 1]
      <4>1. i \in 1..Len(u[k]) /\ u[k + 1][i] = u[k][i] /\ Len(u[k]) > 0
        BY <3>4
      <4>2. CASE i = Len(u[k])
        <5>1. u[k] # <<>>
          BY <4>1, ElementsOfEmpty
        <5>2. u[k][i] # s[k + 1]
          BY <2>5, <4>2, <5>1 DEF Last
        <5> QED BY <3>4, <4>1, <4>2, <5>2
      <4>3. CASE i # Len(u[k])
        <5>1. i \in 1..(Len(u[k]) - 1) /\ i + 1 \in 1..Len(u[k])
          BY <3>4, <4>1, <4>3
        <5> QED BY <2>2, <3>4, <4>1, <5>1
      <4> QED BY <4>2, <4>3
    <3> QED BY <2>2, <2>3, <3>3, <3>5
  <2> QED BY <2>4, <2>5
<1> HIDE DEF N
<1>5. Nat \subseteq N
  BY <1>3, <1>4, NumberInduction
<1> HIDE DEF Seen, Varied
<1>9. n \in N
  BY <1>2, <1>5
<1>6. ToSet(u[n]) = Seen(n) /\ Varied(u[n])
  BY <1>2, <1>9 DEF N
<1>7. u[n] \in Seq(A)
  BY <1>1, <1>2
<1> QED BY <1>1, <1>6, <1>7, <1>8 DEF Varied

(* What the rows of a question are (CoresAssumption).                      *)
RowsOK(rows) ==
  Len(rows) \in Nat /\ \A i \in 1..Len(rows) : rows[i].at \in Int /\ rows[i].tactics \in Seq(Tactics \cup {Unknown})
SeenAt(rows, i, k) == [at |-> rows[i].at, offset |-> k, row |-> i, tactic |-> Known(rows[i].tactics)[k]]
Preceding(rows, e) == {xy \in Observed(rows, e) \X Observed(rows, e) : Before(xy[1], xy[2])}

LEMMA ObservedIs ==
  ASSUME Unknown \notin Tactics, NEW rows, RowsOK(rows), NEW e
  PROVE  LET O == Observed(rows, e) IN
         /\ IsFiniteSet(O)
         /\ \A i \in 1..Len(rows) : \A k \in 1..Len(Known(rows[i].tactics)) :
              rows[i].entity = e => SeenAt(rows, i, k) \in O
         /\ \A o \in O : /\ o.row \in 1..Len(rows) /\ rows[o.row].entity = e
                         /\ o.offset \in 1..Len(Known(rows[o.row].tactics))
                         /\ o = SeenAt(rows, o.row, o.offset) /\ o.tactic \in Tactics
                         /\ o.at \in Int /\ o.at = rows[o.row].at /\ o.offset \in Int /\ o.row \in Int
<1> DEFINE O == Observed(rows, e)
           I == {i \in 1..Len(rows) : rows[i].entity = e}
           K(i) == 1..Len(Known(rows[i].tactics))
           part(i) == {SeenAt(rows, i, k) : k \in K(i)}
           parts == {part(i) : i \in I}
<1>1. O = UNION parts
  BY DEF Observed, SeenAt
<1>2. ASSUME NEW i \in 1..Len(rows)
      PROVE  Known(rows[i].tactics) \in Seq(Tactics) /\ Len(Known(rows[i].tactics)) \in Nat
  BY KnownIs, LenProperties DEF RowsOK
<1>3. ASSUME NEW i \in I PROVE IsFiniteSet(part(i))
  <2>1. [k \in K(i) |-> SeenAt(rows, i, k)] \in Surjection(K(i), part(i))
    BY DEF Surjection
  <2>2. IsFiniteSet(K(i))
    <3>1. Len(Known(rows[i].tactics)) \in Int /\ 1 \in Int
      BY <1>2
    <3> QED BY <3>1, FS_Interval
  <2> HIDE DEF part, K
  <2> QED BY <2>1, <2>2, FS_Surjection
<1>4. IsFiniteSet(parts)
  <2>1. IsFiniteSet(I)
    <3>1. IsFiniteSet(1..Len(rows))
      BY FS_Interval DEF RowsOK
    <3> QED BY <3>1, FS_Subset
  <2>2. [i \in I |-> part(i)] \in Surjection(I, parts)
    BY DEF Surjection
  <2> HIDE DEF I, parts, part
  <2> QED BY <2>1, <2>2, FS_Surjection
<1>5. IsFiniteSet(O)
  <2>1. \A T \in parts : IsFiniteSet(T)
    BY <1>3
  <2> HIDE DEF parts, O
  <2> QED BY <1>1, <1>4, <2>1, FS_UNION
<1>6. ASSUME NEW i \in 1..Len(rows), NEW k \in K(i), rows[i].entity = e PROVE SeenAt(rows, i, k) \in O
  BY <1>1, <1>6
<1>7. ASSUME NEW o \in O
      PROVE  /\ o.row \in 1..Len(rows) /\ rows[o.row].entity = e
             /\ o.offset \in 1..Len(Known(rows[o.row].tactics))
             /\ o = SeenAt(rows, o.row, o.offset) /\ o.tactic \in Tactics
             /\ o.at \in Int /\ o.at = rows[o.row].at /\ o.offset \in Int /\ o.row \in Int
  <2>1. PICK i \in I : \E k \in K(i) : o = SeenAt(rows, i, k)
    BY <1>1
  <2>2. PICK k \in K(i) : o = SeenAt(rows, i, k)
    BY <2>1
  <2>3. o.row = i /\ o.offset = k /\ o.at = rows[i].at /\ o.tactic = Known(rows[i].tactics)[k]
    BY <2>2 DEF SeenAt
  <2>4. Known(rows[i].tactics)[k] \in Tactics
    BY <1>2, <2>2, ElementOfSeq
  <2>5. i \in 1..Len(rows) /\ rows[i].entity = e /\ rows[i].at \in Int /\ i \in Int /\ k \in Int
    BY <1>2 DEF RowsOK
  <2> QED BY <2>2, <2>3, <2>4, <2>5
<1> QED BY <1>5, <1>6, <1>7

LEMMA BeforeOrders ==
  ASSUME Unknown \notin Tactics, NEW rows, RowsOK(rows), NEW e
  PROVE  Orders(Preceding(rows, e), Observed(rows, e))
<1> DEFINE O == Observed(rows, e)
           R == Preceding(rows, e)
<1>1. \A x, y \in O : <<x, y>> \in R <=> Before(x, y)
  BY DEF Preceding
<1>2. \A o \in O : o.at \in Int /\ o.offset \in Int /\ o.row \in Int /\ o = SeenAt(rows, o.row, o.offset)
  BY ObservedIs
<1> HIDE DEF O, R
<1>3. \A x \in O : ~Before(x, x)
  BY <1>2 DEF Before
<1>4. \A x, y \in O : x = y \/ Before(x, y) \/ Before(y, x)
  <2> SUFFICES ASSUME NEW x \in O, NEW y \in O PROVE x = y \/ Before(x, y) \/ Before(y, x)
    OBVIOUS
  <2>1. x.offset = y.offset /\ x.row = y.row => x = y
    BY <1>2
  <2> QED BY <1>2, <2>1 DEF Before
<1>5. \A x, y, z \in O : Before(x, y) /\ Before(y, z) => Before(x, z)
  BY <1>2 DEF Before
<1>6. Orders(R, O)
  BY <1>1, <1>3, <1>4, <1>5 DEF Orders
<1> QED BY <1>6 DEF O, R

(* The observations of an entity in order.                                 *)
LEMMA InTimeIs ==
  ASSUME Unknown \notin Tactics, NEW rows, RowsOK(rows), NEW e
  PROVE  ByRank(InTime(Observed(rows, e)), Preceding(rows, e), Observed(rows, e))
<1> DEFINE S == Observed(rows, e)
           R == Preceding(rows, e)
           s == InTime(Observed(rows, e))
<1>1. IsFiniteSet(S) /\ Orders(R, S)
  BY ObservedIs, BeforeOrders
<1>2. \A x, y \in S : <<x, y>> \in R <=> Before(x, y)
  BY DEF Preceding
<1>3. s = [i \in 1..Cardinality(S) |-> CHOOSE x \in S : Cardinality({y \in S : Before(y, x)}) = i - 1]
  BY DEF InTime
<1> HIDE DEF S, R, s
<1>4. ASSUME NEW x \in S PROVE RankOf(x, R, S) = Cardinality({y \in S : Before(y, x)})
  <2>1. Below(x, R, S) = {y \in S : Before(y, x)}
    BY <1>2 DEF Below
  <2> QED BY <2>1 DEF RankOf
<1>5. ASSUME NEW i \in 1..Cardinality(S) PROVE s[i] \in S /\ RankOf(s[i], R, S) = i - 1
  <2>1. \E x \in S : Cardinality({y \in S : Before(y, x)}) = i - 1
    BY <1>1, <1>4, RanksFilled
  <2>2. s[i] \in S /\ Cardinality({y \in S : Before(y, s[i])}) = i - 1
    BY <1>3, <2>1
  <2> QED BY <1>4, <2>2
<1>6. s \in [1..Cardinality(S) -> S]
  BY <1>3, <1>5
<1>7. ByRank(s, R, S)
  BY <1>5, <1>6 DEF ByRank
<1> QED BY <1>7 DEF S, R, s

(* The sequence of an entity.                                              *)
TacticsOf(s) == [i \in 1..Len(s) |-> s[i].tactic]
LEMMA SequenceUnfolds ==
  ASSUME NEW rows, NEW e
  PROVE  SequenceOf(rows, e) = Collapsed(TacticsOf(InTime(Observed(rows, e))))
BY DEF SequenceOf, InTime, TacticsOf

LEMMA SequenceIs ==
  ASSUME Unknown \notin Tactics, NEW rows, RowsOK(rows), NEW e
  PROVE  /\ SequenceOf(rows, e) \in Seq(Tactics)
         /\ ToSet(SequenceOf(rows, e)) = {t \in Tactics : \E i \in 1..Len(rows) :
                                            rows[i].entity = e /\ Contains(rows[i].tactics, t)}
         /\ \A i \in 1..(Len(SequenceOf(rows, e)) - 1) : SequenceOf(rows, e)[i] # SequenceOf(rows, e)[i + 1]
<1> DEFINE O == Observed(rows, e)
           s == InTime(Observed(rows, e))
           u == TacticsOf(s)
           Shown == {t \in Tactics : \E i \in 1..Len(rows) : rows[i].entity = e /\ Contains(rows[i].tactics, t)}
<1>1. s \in Seq(O) /\ ToSet(s) = O
  BY ObservedIs, BeforeOrders, InTimeIs, RanksSorted
<1>2. Len(s) \in Nat /\ (\A i \in 1..Len(s) : s[i] \in O) /\ O = {s[i] : i \in 1..Len(s)}
  BY <1>1, LenProperties, ElementOfSeq, ElementsIs
<1>3. \A o \in O : o.tactic \in Tactics
  BY ObservedIs
<1>4. u \in Seq(Tactics) /\ ToSet(u) = {o.tactic : o \in O}
  <2>1. u \in [1..Len(s) -> Tactics]
    BY <1>2, <1>3 DEF TacticsOf
  <2>2. u \in Seq(Tactics) /\ Len(u) = Len(s)
    BY <1>2, <2>1, SeqDef, LenProperties
  <2>3. ToSet(u) = {u[i] : i \in 1..Len(s)}
    BY <2>2, ElementsIs
  <2>4. \A i \in 1..Len(s) : u[i] = s[i].tactic
    BY DEF TacticsOf
  <2> HIDE DEF u, s, O
  <2>5. {u[i] : i \in 1..Len(s)} = {o.tactic : o \in O}
    <3>1. \A i \in 1..Len(s) : u[i] \in {o.tactic : o \in O}
      BY <1>2, <2>4
    <3>2. \A o \in O : \E i \in 1..Len(s) : o.tactic = u[i]
      BY <1>2, <2>4
    <3> QED BY <3>1, <3>2
  <2> QED BY <2>2, <2>3, <2>5
<1>5. {o.tactic : o \in O} = Shown
  <2>1. ASSUME NEW o \in O PROVE o.tactic \in Shown
    <3>1. /\ o.row \in 1..Len(rows) /\ rows[o.row].entity = e
          /\ o.offset \in 1..Len(Known(rows[o.row].tactics)) /\ o = SeenAt(rows, o.row, o.offset)
      BY ObservedIs
    <3>2. o.tactic = Known(rows[o.row].tactics)[o.offset]
      BY <3>1 DEF SeenAt
    <3>3. /\ Known(rows[o.row].tactics) \in Seq(Tactics)
          /\ ToSet(Known(rows[o.row].tactics)) = {t \in Tactics : Contains(rows[o.row].tactics, t)}
      BY <3>1, KnownIs DEF RowsOK
    <3>4. o.tactic \in ToSet(Known(rows[o.row].tactics))
      BY <3>1, <3>2, <3>3, ElementsIs
    <3> QED BY <3>1, <3>3, <3>4
  <2>2. ASSUME NEW t \in Shown PROVE \E o \in O : o.tactic = t
    <3>1. PICK i \in 1..Len(rows) : rows[i].entity = e /\ Contains(rows[i].tactics, t)
      OBVIOUS
    <3>2. /\ Known(rows[i].tactics) \in Seq(Tactics)
          /\ ToSet(Known(rows[i].tactics)) = {x \in Tactics : Contains(rows[i].tactics, x)}
      BY <3>1, KnownIs DEF RowsOK
    <3>3. PICK k \in 1..Len(Known(rows[i].tactics)) : Known(rows[i].tactics)[k] = t
      BY <3>1, <3>2, ElementsIs
    <3>4. SeenAt(rows, i, k) \in O /\ SeenAt(rows, i, k).tactic = t
      BY <3>1, <3>3, ObservedIs DEF SeenAt
    <3> QED BY <3>4
  <2> HIDE DEF O, Shown
  <2> QED BY <2>1, <2>2
<1> HIDE DEF O, s, u, Shown
<1>6. /\ Collapsed(u) \in Seq(Tactics) /\ ToSet(Collapsed(u)) = Shown
      /\ \A i \in 1..(Len(Collapsed(u)) - 1) : Collapsed(u)[i] # Collapsed(u)[i + 1]
  BY <1>4, <1>5, CollapsedIs
<1> QED BY <1>6, SequenceUnfolds DEF u, s, Shown

LEMMA ReverseIs ==
  ASSUME NEW rows, RowsOK(rows)
  PROVE  /\ Len(Reverse(rows)) = Len(rows) /\ RowsOK(Reverse(rows))
         /\ \A i \in 1..Len(rows) : /\ Reverse(rows)[i] = rows[Len(rows) + 1 - i]
                                    /\ Len(rows) + 1 - i \in 1..Len(rows)
                                    /\ Len(rows) + 1 - (Len(rows) + 1 - i) = i
<1> DEFINE n == Len(rows)
           back == Reverse(rows)
           S == {rows[(n - i) + 1] : i \in 1..n}
<1>1. n \in Nat
  BY DEF RowsOK
<1>2. back = [i \in 1..n |-> rows[(n - i) + 1]]
  BY DEF Reverse
<1>3. back \in Seq(S) /\ Len(back) = n
  <2>1. back \in [1..n -> S]
    BY <1>2
  <2> HIDE DEF back, n, S
  <2> QED BY <1>1, <2>1, SeqDef, LenProperties
<1>4. ASSUME NEW i \in 1..n
      PROVE  back[i] = rows[n + 1 - i] /\ n + 1 - i \in 1..n /\ n + 1 - (n + 1 - i) = i
  <2>1. n + 1 - i \in 1..n /\ n + 1 - (n + 1 - i) = i /\ (n - i) + 1 = n + 1 - i
    BY <1>1
  <2>2. back[i] = rows[(n - i) + 1]
    BY <1>2
  <2> HIDE DEF n, back
  <2> QED BY <2>1, <2>2
<1>5. RowsOK(back)
  <2> HIDE DEF back
  <2> QED BY <1>1, <1>3, <1>4 DEF RowsOK
<1> QED BY <1>3, <1>4, <1>5

(* Seen in another order of arrival, an observation has another row.       *)
LEMMA SequenceReversed ==
  ASSUME Unknown \notin Tactics, NEW rows, RowsOK(rows), NEW e,
         \A i, j \in 1..Len(rows) : i # j => rows[i].at # rows[j].at
  PROVE  SequenceOf(Reverse(rows), e) = SequenceOf(rows, e)
<1> DEFINE n == Len(rows)
           back == Reverse(rows)
           O == Observed(rows, e)
           P == Observed(back, e)
           R == Preceding(rows, e)
           Q == Preceding(back, e)
           moved(o) == [at |-> o.at, offset |-> o.offset, row |-> n + 1 - o.row, tactic |-> o.tactic]
           move == [o \in O |-> moved(o)]
<1>1. /\ n \in Nat /\ Len(back) = n /\ RowsOK(back)
      /\ \A i \in 1..n : back[i] = rows[n + 1 - i] /\ n + 1 - i \in 1..n /\ n + 1 - (n + 1 - i) = i
  BY ReverseIs DEF RowsOK
<1>2. ASSUME NEW i \in 1..n PROVE back[n + 1 - i] = rows[i]
  <2>1. n + 1 - i \in 1..n /\ n + 1 - (n + 1 - i) = i
    BY <1>1
  <2>2. back[n + 1 - i] = rows[n + 1 - (n + 1 - i)]
    BY <1>1, <2>1
  <2> QED BY <2>1, <2>2
<1>3. ASSUME NEW o \in O
      PROVE  /\ o.row \in 1..n /\ rows[o.row].entity = e /\ o.at = rows[o.row].at
             /\ o.offset \in 1..Len(Known(rows[o.row].tactics)) /\ o = SeenAt(rows, o.row, o.offset)
             /\ o.at \in Int /\ o.offset \in Int /\ o.row \in Int
  BY ObservedIs
<1>4. ASSUME NEW p \in P
      PROVE  /\ p.row \in 1..n /\ back[p.row].entity = e
             /\ p.offset \in 1..Len(Known(back[p.row].tactics)) /\ p = SeenAt(back, p.row, p.offset)
  BY <1>1, ObservedIs
<1>5. \A i \in 1..n : \A k \in 1..Len(Known(rows[i].tactics)) : rows[i].entity = e => SeenAt(rows, i, k) \in O
  BY ObservedIs
<1>6. \A i \in 1..n : \A k \in 1..Len(Known(back[i].tactics)) : back[i].entity = e => SeenAt(back, i, k) \in P
  BY <1>1, ObservedIs
<1>7. IsFiniteSet(O) /\ IsFiniteSet(P) /\ Orders(R, O) /\ Orders(Q, P)
  BY <1>1, ObservedIs, BeforeOrders
<1>8. (\A x, y \in O : <<x, y>> \in R <=> Before(x, y)) /\ (\A x, y \in P : <<x, y>> \in Q <=> Before(x, y))
  BY DEF Preceding
<1>9. ByRank(InTime(Observed(rows, e)), R, O) /\ ByRank(InTime(Observed(back, e)), Q, P)
  BY <1>1, InTimeIs
<1> HIDE DEF n, back, O, P, R, Q
<1>10. ASSUME NEW o \in O PROVE moved(o) \in P
  <2> DEFINE i == n + 1 - o.row
  <2>1. i \in 1..n /\ back[i] = rows[o.row]
    BY <1>1, <1>2, <1>3
  <2>2. SeenAt(back, i, o.offset) \in P
    BY <1>3, <1>6, <2>1
  <2>3. o.tactic = Known(rows[o.row].tactics)[o.offset] /\ o.at = rows[o.row].at
    BY <1>3 DEF SeenAt
  <2>4. moved(o) = SeenAt(back, i, o.offset)
    <3> HIDE DEF i
    <3>1. moved(o) = [at |-> o.at, offset |-> o.offset, row |-> i, tactic |-> o.tactic]
      BY DEF i
    <3> QED BY <2>1, <2>3, <3>1 DEF SeenAt
  <2> QED BY <2>2, <2>4
<1>11. \A x, y \in O : moved(x) = moved(y) => x = y
  <2> SUFFICES ASSUME NEW x \in O, NEW y \in O, moved(x) = moved(y) PROVE x = y
    OBVIOUS
  <2>1. x.offset = y.offset /\ n + 1 - x.row = n + 1 - y.row
    <3>1. moved(x).offset = moved(y).offset /\ moved(x).row = moved(y).row
      OBVIOUS
    <3> QED BY <3>1
  <2>2. x.row = y.row
    BY <1>1, <1>3, <2>1
  <2> QED BY <1>3, <2>1, <2>2
<1>12. ASSUME NEW p \in P PROVE \E o \in O : moved(o) = p
  <2> DEFINE i == n + 1 - p.row
             o == SeenAt(rows, i, p.offset)
  <2>1. i \in 1..n /\ back[p.row] = rows[i] /\ n + 1 - i = p.row
    BY <1>1, <1>4
  <2> HIDE DEF i
  <2>2. o \in O
    BY <1>4, <1>5, <2>1
  <2>3. o.at = rows[i].at /\ o.offset = p.offset /\ o.row = i /\ o.tactic = Known(rows[i].tactics)[p.offset]
    BY DEF SeenAt
  <2>4. p = [at |-> rows[i].at, offset |-> p.offset, row |-> p.row, tactic |-> Known(rows[i].tactics)[p.offset]]
    BY <1>4, <2>1 DEF SeenAt
  <2> HIDE DEF o
  <2>5. moved(o) = p
    BY <2>1, <2>3, <2>4
  <2> QED BY <2>2, <2>5
<1>13. move \in Bijection(O, P) /\ \A o \in O : move[o] = moved(o)
  <2>1. move \in [O -> P]
    BY <1>10
  <2>2. \A x, y \in O : move[x] = move[y] => x = y
    BY <1>11
  <2>3. \A p \in P : \E o \in O : move[o] = p
    BY <1>12
  <2> QED BY <2>1, <2>2, <2>3 DEF Bijection, Injection, Surjection, IsInjective
<1>14. ASSUME NEW x \in O, NEW y \in O PROVE Before(x, y) <=> Before(moved(x), moved(y))
  <2>1. /\ moved(x).at = x.at /\ moved(x).offset = x.offset /\ moved(x).row = n + 1 - x.row
        /\ moved(y).at = y.at /\ moved(y).offset = y.offset /\ moved(y).row = n + 1 - y.row
    OBVIOUS
  <2>2. x.at \in Int /\ y.at \in Int /\ x.offset \in Int /\ y.offset \in Int /\ x.row \in Int /\ y.row \in Int
    BY <1>3
  <2>3. x.at = y.at => x.row = y.row
    BY <1>3 DEF n
  <2> HIDE DEF moved
  <2>4. CASE x.at # y.at
    BY <2>1, <2>2, <2>4 DEF Before
  <2>5. CASE x.at = y.at
    <3>1. x.row = y.row /\ moved(x).row = moved(y).row
      BY <2>1, <2>3, <2>5
    <3>2. moved(x).row \in Int
      BY <1>1, <2>1, <2>2
    <3> QED BY <2>1, <2>2, <2>5, <3>1, <3>2 DEF Before
  <2> QED BY <2>4, <2>5
<1> HIDE DEF move
<1>15. \A x, y \in O : <<x, y>> \in R <=> <<move[x], move[y]>> \in Q
  <2> SUFFICES ASSUME NEW x \in O, NEW y \in O PROVE <<x, y>> \in R <=> <<move[x], move[y]>> \in Q
    OBVIOUS
  <2>1. move[x] = moved(x) /\ move[y] = moved(y) /\ moved(x) \in P /\ moved(y) \in P
    BY <1>10, <1>13
  <2> HIDE DEF moved
  <2> QED BY <1>8, <1>14, <2>1
<1>16. Cardinality(P) = Cardinality(O) /\ \A o \in O : RankOf(move[o], Q, P) = RankOf(o, R, O)
  BY <1>7, <1>13, <1>15, RankMoved
<1> DEFINE s == InTime(Observed(rows, e))
           t == InTime(Observed(back, e))
           m == Cardinality(O)
<1>17. s \in [1..m -> O] /\ \A i \in 1..m : RankOf(s[i], R, O) = i - 1
  BY <1>9 DEF ByRank
<1>18. t \in [1..m -> P] /\ \A i \in 1..m : RankOf(t[i], Q, P) = i - 1
  BY <1>9, <1>16 DEF ByRank
<1>19. Len(s) = m /\ Len(t) = m
  BY <1>7, <1>9, <1>16, RanksSorted
<1> HIDE DEF s, t, m
<1>20. ASSUME NEW i \in 1..m PROVE t[i].tactic = s[i].tactic
  <2>0. s[i] \in O /\ t[i] \in P
    BY <1>17, <1>18
  <2>1. s[i] \in O /\ t[i] \in P /\ move[s[i]] \in P
    BY <1>10, <1>13, <2>0
  <2>2. RankOf(move[s[i]], Q, P) = RankOf(t[i], Q, P)
    BY <1>16, <1>17, <1>18, <2>1
  <2>3. t[i] = move[s[i]]
    BY <1>7, <2>1, <2>2, RankBounds
  <2>4. t[i] = moved(s[i])
    BY <1>13, <2>1, <2>3
  <2> QED BY <2>4
<1>21. TacticsOf(t) = TacticsOf(s)
  BY <1>19, <1>20 DEF TacticsOf
<1> QED BY <1>21, SequenceUnfolds DEF s, t, back

LEMMA BuildReversed ==
  ASSUME Unknown \notin Tactics, NEW rows, RowsOK(rows),
         \A i, j \in 1..Len(rows) : i # j => rows[i].at # rows[j].at
  PROVE  BuildSequences(Reverse(rows)) = BuildSequences(rows)
<1> DEFINE n == Len(rows)
           back == Reverse(rows)
<1>1. \A e : SequenceOf(back, e) = SequenceOf(rows, e)
  BY SequenceReversed
<1>2. /\ Len(back) = n
      /\ \A i \in 1..n : back[i] = rows[n + 1 - i] /\ n + 1 - i \in 1..n /\ n + 1 - (n + 1 - i) = i
  BY ReverseIs
<1> HIDE DEF n, back
<1>3. Entities(back) = Entities(rows)
  <2>1. \A i \in 1..n : back[i].entity \in {rows[j].entity : j \in 1..n}
    BY <1>2
  <2>2. \A i \in 1..n : rows[i].entity \in {back[j].entity : j \in 1..n}
    <3> SUFFICES ASSUME NEW i \in 1..n PROVE \E j \in 1..n : rows[i].entity = back[j].entity
      OBVIOUS
    <3> DEFINE j == n + 1 - i
    <3>1. j \in 1..n /\ n + 1 - j = i
      BY <1>2
    <3> HIDE DEF j
    <3>2. back[j] = rows[i]
      BY <1>2, <3>1
    <3> QED BY <3>1, <3>2
  <2>3. {back[i].entity : i \in 1..n} = {rows[j].entity : j \in 1..n}
    BY <2>1, <2>2
  <2> QED BY <1>2, <2>3 DEF Entities, n
<1>4. BuildSequences(back) = BuildSequences(rows)
  BY <1>1, <1>3 DEF BuildSequences
<1> QED BY <1>4 DEF back

LEMMA TimesLess == \A a, b, c \in Int : c > 0 => (a <= b <=> c * a <= c * b) /\ (a < b <=> c * a < c * b)
OBVIOUS

(* A share, rounded to a place.                                            *)
LEMMA RoundedIs ==
  ASSUME NEW n \in Nat, NEW d \in Nat \ {0}
  PROVE  /\ Rounded(n, d) \in Nat
         /\ -d <= (2 * d) * Rounded(n, d) - (2 * Micro) * n /\ (2 * d) * Rounded(n, d) - (2 * Micro) * n <= d
         /\ n <= d => Rounded(n, d) <= Micro
<1> DEFINE a == 2 * n * Micro + d
           b == 2 * d
           q == a \div b
           r == a % b
<1>1. a \in Nat /\ b \in Nat /\ b > 0 /\ Micro \in Nat
  BY DEF Micro
<1>2. Rounded(n, d) = q
  BY DEF Rounded
<1>a. a = (2 * Micro) * n + d
  BY DEF Micro
<1> HIDE DEF a
<1>3. q \in Nat /\ b * q \in Int /\ b * q <= a /\ a < b * q + b
  <2> HIDE DEF b
  <2> QED BY <1>1
<1> HIDE DEF q
<1>4. (2 * Micro) * n \in Nat
  BY DEF Micro
<1>b. b = d + d
  OBVIOUS
<1> HIDE DEF b
<1>5. -d <= b * q - (2 * Micro) * n /\ b * q - (2 * Micro) * n <= d
  BY <1>1, <1>3, <1>4, <1>a, <1>b
<1>6. ASSUME n <= d PROVE q <= Micro
  <2> SUFFICES ASSUME q >= Micro + 1 PROVE FALSE
    BY <1>1, <1>3
  <2>1. b * (Micro + 1) <= b * q
    BY <1>1, <1>3, TimesLess
  <2>2. b * (Micro + 1) = (2 * Micro) * d + d + d
    BY <1>b DEF Micro
  <2>3. (2 * Micro) * n <= (2 * Micro) * d
    BY <1>6 DEF Micro
  <2>4. (2 * Micro) * n + d < (2 * Micro) * d + d + d
    BY <2>3 DEF Micro
  <2>5. b * (Micro + 1) \in Int
    BY <1>1
  <2> HIDE DEF b
  <2>6. (2 * Micro) * d \in Int /\ (2 * Micro) * n \in Int
    BY DEF Micro
  <2> QED BY <1>3, <1>a, <2>1, <2>2, <2>4, <2>5, <2>6
<1> QED BY <1>2, <1>3, <1>5, <1>6 DEF b

(* Shares of a whole, each rounded on its own, sum to one within half a    *)
(* place for each of them.                                                 *)
SumsWell(row, K) == SumsToOne(row) /\ \A t \in K : row[t] \in 0..Micro
LEMMA SharesSum ==
  ASSUME NEW K, IsFiniteSet(K), Cardinality(K) \in 1..(2 * Tolerance),
         NEW n \in [K -> Nat], NEW d \in Nat \ {0}, SumOver(n, K) = d
  PROVE  SumsWell([t \in K |-> Rounded(n[t], d)], K)
<1> DEFINE r == [t \in K |-> Rounded(n[t], d)]
           big == [t \in K |-> (2 * d) * r[t]]
           part == [t \in K |-> (-(2 * Micro)) * n[t]]
           err == [t \in K |-> (2 * d) * r[t] - (2 * Micro) * n[t]]
           N == Cardinality(K)
<1>0. Micro \in Nat /\ -(2 * Micro) \in Int /\ 2 * d \in Int /\ -d \in Int /\ d \in Int /\ 2 * d > 0
  BY DEF Micro
<1>1. Summable(n, K) /\ \A t \in K : n[t] \in Nat /\ n[t] <= d
  <2>1. Summable(n, K)
    BY DEF Summable
  <2> QED BY <2>1, SumNat
<1>2. ASSUME NEW t \in K
      PROVE  /\ r[t] \in Nat /\ r[t] <= Micro /\ r[t] \in Int
             /\ -d <= (2 * d) * r[t] - (2 * Micro) * n[t] /\ (2 * d) * r[t] - (2 * Micro) * n[t] <= d
             /\ (2 * d) * r[t] \in Int /\ (2 * Micro) * n[t] \in Int /\ (-(2 * Micro)) * n[t] \in Int
             /\ (-(2 * Micro)) * n[t] = -((2 * Micro) * n[t])
  <2>1. n[t] \in Nat /\ n[t] <= d /\ r[t] = Rounded(n[t], d)
    BY <1>1
  <2>2. /\ Rounded(n[t], d) \in Nat /\ Rounded(n[t], d) <= Micro
        /\ -d <= (2 * d) * Rounded(n[t], d) - (2 * Micro) * n[t]
        /\ (2 * d) * Rounded(n[t], d) - (2 * Micro) * n[t] <= d
    BY <2>1, RoundedIs
  <2>3. r[t] \in Nat /\ (2 * d) * r[t] \in Int /\ (2 * Micro) * n[t] \in Int /\ (-(2 * Micro)) * n[t] \in Int
        /\ (-(2 * Micro)) * n[t] = -((2 * Micro) * n[t])
    <3> HIDE DEF r
    <3> QED BY <2>1, <2>2 DEF Micro
  <2> HIDE DEF r
  <2> QED BY <2>1, <2>2, <2>3
<1>3. Summable(r, K) /\ Summable(big, K) /\ Summable(part, K) /\ Summable(err, K)
  <2>1. \A t \in K : r[t] \in Int /\ big[t] \in Int /\ part[t] \in Int
    BY <1>2
  <2>2. \A t \in K : err[t] \in Int
    BY <1>2
  <2>3. DOMAIN r = K /\ DOMAIN big = K /\ DOMAIN part = K /\ DOMAIN err = K
    OBVIOUS
  <2> HIDE DEF r, big, part, err
  <2> QED BY <2>1, <2>2, <2>3 DEF Summable
<1>4. \A t \in K : /\ big[t] = (2 * d) * r[t] /\ part[t] = (-(2 * Micro)) * n[t]
                   /\ err[t] = big[t] + part[t] /\ -d <= err[t] /\ err[t] <= d
  <2> SUFFICES ASSUME NEW t \in K PROVE /\ big[t] = (2 * d) * r[t] /\ part[t] = (-(2 * Micro)) * n[t]
                   /\ err[t] = big[t] + part[t] /\ -d <= err[t] /\ err[t] <= d
    OBVIOUS
  <2>1. big[t] = (2 * d) * r[t] /\ part[t] = (-(2 * Micro)) * n[t] /\ err[t] = (2 * d) * r[t] - (2 * Micro) * n[t]
    OBVIOUS
  <2> HIDE DEF r, big, part, err
  <2> QED BY <1>2, <2>1
<1>5. DOMAIN r = K
  OBVIOUS
<1> HIDE DEF r, big, part, err
<1>6. SumOver(big, K) = (2 * d) * SumOver(r, K) /\ SumOver(r, K) \in Int
  BY <1>0, <1>3, <1>4, SumTimes, SumType
<1>7. SumOver(part, K) = (-(2 * Micro)) * d
  <2>1. \A t \in K : part[t] = (-(2 * Micro)) * n[t]
    BY <1>4
  <2> HIDE DEF N
  <2>2. SumOver(part, K) = (-(2 * Micro)) * SumOver(n, K)
    BY <1>0, <1>1, <1>3, <2>1, SumTimes
  <2> QED BY <2>2
<1>8. SumOver(err, K) = SumOver(big, K) + SumOver(part, K)
  BY <1>3, <1>4, SumPlus
<1>9. (-d) * N <= SumOver(err, K) /\ SumOver(err, K) <= d * N
  BY <1>0, <1>3, <1>4, SumBetween
<1> DEFINE s == SumOver(r, K)
<1>10. s - Micro \in -Tolerance..Tolerance
  <2>1. s \in Int /\ N \in Nat /\ N <= 2 * Tolerance /\ Tolerance = 1000
    BY <1>6 DEF Tolerance
  <2>2. SumOver(err, K) = (2 * d) * s - (2 * Micro) * d
    <3>1. SumOver(err, K) = (2 * d) * s + (-(2 * Micro)) * d
      BY <1>6, <1>7, <1>8
    <3> HIDE DEF s
    <3>2. (2 * d) * s \in Int /\ (-(2 * Micro)) * d = -((2 * Micro) * d)
      BY <2>1 DEF Micro
    <3> QED BY <3>1, <3>2 DEF Micro
  <2> HIDE DEF s, N
  <2>3. (2 * d) * s - (2 * Micro) * d = (2 * d) * (s - Micro)
    BY <2>1 DEF Micro
  <2>4. d * N <= d * 2000 /\ (-d) * N >= -(d * 2000)
    <3>1. d * N <= d * 2000
      BY <1>0, <2>1, TimesLess
    <3>2. (-d) * N = -(d * N)
      BY <2>1
    <3> QED BY <2>1, <3>1, <3>2
  <2>5. (2 * d) * (s - Micro) <= (2 * d) * 1000 /\ (2 * d) * (-1000) <= (2 * d) * (s - Micro)
    <3>1. (2 * d) * 1000 = d * 2000 /\ (2 * d) * (-1000) = -(d * 2000)
      OBVIOUS
    <3>2. (2 * d) * (s - Micro) \in Int /\ d * N \in Int /\ (-d) * N \in Int
      BY <1>0, <2>1
    <3> QED BY <1>9, <2>2, <2>3, <2>4, <3>1, <3>2 DEF N
  <2>6. s - Micro <= 1000 /\ -1000 <= s - Micro /\ s - Micro \in Int
    BY <1>0, <2>1, <2>5, TimesLess
  <2> QED BY <2>1, <2>6
<1>11. SumsToOne(r)
  BY <1>5, <1>10 DEF SumsToOne, Sigma, SumOver
<1>12. \A t \in K : r[t] \in 0..Micro
  BY <1>0, <1>2
<1> QED BY <1>11, <1>12 DEF SumsWell, r

(* Sequences that are fitted: finitely many, of two steps at least.        *)
Fitted(seqs) ==
  IsFiniteSet(DOMAIN seqs) /\ \A e \in DOMAIN seqs : seqs[e] \in Seq(Tactics) /\ Len(seqs[e]) >= 2
FewTactics == IsFiniteSet(Tactics) /\ Cardinality(Tactics) \in 1..(2 * Tolerance) /\ Unknown \notin Tactics

LEMMA BuiltIs ==
  ASSUME Unknown \notin Tactics, NEW rows, RowsOK(rows)
  PROVE  /\ Fitted(BuildSequences(rows))
         /\ \A e \in DOMAIN BuildSequences(rows) : BuildSequences(rows)[e] = SequenceOf(rows, e)
<1> DEFINE seqs == BuildSequences(rows)
           E == {e \in Entities(rows) : Len(SequenceOf(rows, e)) >= 2}
<1>1. seqs = [e \in E |-> SequenceOf(rows, e)]
  BY DEF BuildSequences
<1>2. IsFiniteSet(E)
  <2>1. IsFiniteSet(1..Len(rows))
    BY FS_Interval DEF RowsOK
  <2>2. [i \in 1..Len(rows) |-> rows[i].entity] \in Surjection(1..Len(rows), {rows[i].entity : i \in 1..Len(rows)})
    BY DEF Surjection
  <2>3. IsFiniteSet({rows[i].entity : i \in 1..Len(rows)})
    BY <2>1, <2>2, FS_Surjection
  <2>4. E \subseteq {rows[i].entity : i \in 1..Len(rows)}
    BY DEF Entities
  <2> QED BY <2>3, <2>4, FS_Subset
<1>3. ASSUME NEW e \in E PROVE SequenceOf(rows, e) \in Seq(Tactics) /\ Len(SequenceOf(rows, e)) >= 2
  BY SequenceIs
<1>4. DOMAIN seqs = E /\ \A e \in E : seqs[e] = SequenceOf(rows, e)
  BY <1>1
<1> HIDE DEF seqs, E
<1> QED BY <1>2, <1>3, <1>4 DEF Fitted, seqs

LEMMA SigmaOf == ASSUME NEW f, NEW K, f = [k \in K |-> f[k]] PROVE Sigma(f) = SumOver(f, K)
BY DEF Sigma, SumOver

(* One more than each of some counts, for all of the tactics.              *)
LEMMA SmoothedSum ==
  ASSUME FewTactics, NEW c \in [Tactics -> Nat], NEW m \in Nat, SumOver(c, Tactics) = m
  PROVE  SumsWell([t \in Tactics |-> Rounded(c[t] + 1, m + Cardinality(Tactics))], Tactics)
<1> DEFINE K == Tactics
           N == Cardinality(K)
           one == [t \in K |-> 1]
           n == [t \in K |-> c[t] + 1]
           d == m + N
<1>1. IsFiniteSet(K) /\ N \in 1..(2 * Tolerance) /\ N \in Nat /\ N > 0
  BY DEF FewTactics, Tolerance
<1>2. n \in [K -> Nat] /\ d \in Nat \ {0}
  <2>1. d \in Nat \ {0}
    BY <1>1
  <2> QED BY <2>1
<1>3. Summable(c, K) /\ Summable(one, K) /\ Summable(n, K)
  BY <1>1, <1>2 DEF Summable
<1>4. SumOver(one, K) = N
  <2>1. /\ SumOver(one, K) \in Int /\ 1 * Cardinality(K) <= SumOver(one, K)
        /\ SumOver(one, K) <= 1 * Cardinality(K)
    <3>1. \A x \in K : 1 <= one[x] /\ one[x] <= 1
      OBVIOUS
    <3> HIDE DEF one
    <3> QED BY <1>3, <3>1, SumBetween
  <2> QED BY <1>1, <2>1
<1>5. SumOver(n, K) = d
  <2>1. \A x \in K : n[x] = c[x] + one[x]
    OBVIOUS
  <2> HIDE DEF n, one
  <2>2. SumOver(n, K) = SumOver(c, K) + SumOver(one, K)
    BY <1>3, <2>1, SumPlus
  <2> QED BY <1>4, <2>2
<1>6. SumsWell([t \in K |-> Rounded(n[t], d)], K)
  <2> HIDE DEF n, d
  <2> QED BY <1>1, <1>2, <1>5, SharesSum
<1>7. [t \in K |-> Rounded(n[t], d)] = [t \in K |-> Rounded(c[t] + 1, m + N)]
  OBVIOUS
<1> QED BY <1>6, <1>7

LEMMA UniformSum ==
  ASSUME FewTactics
  PROVE  SumsWell([t \in Tactics |-> Rounded(1, Cardinality(Tactics))], Tactics)
<1> DEFINE none == [t \in Tactics |-> 0]
<1>1. none \in [Tactics -> Nat] /\ Summable(none, Tactics) /\ \A t \in Tactics : 0 <= none[t] /\ none[t] <= 0
  BY DEF FewTactics, Summable
<1>2. SumOver(none, Tactics) = 0
  <2> HIDE DEF none
  <2>1. /\ Cardinality(Tactics) \in Nat /\ SumOver(none, Tactics) \in Int
        /\ 0 * Cardinality(Tactics) <= SumOver(none, Tactics) /\ SumOver(none, Tactics) <= 0 * Cardinality(Tactics)
    BY <1>1, SumBetween
  <2> QED BY <2>1
<1>3. SumsWell([t \in Tactics |-> Rounded(none[t] + 1, 0 + Cardinality(Tactics))], Tactics)
  <2> HIDE DEF none
  <2> QED BY <1>1, <1>2, SmoothedSum
<1>4. \A t \in Tactics : none[t] + 1 = 1 /\ 0 + Cardinality(Tactics) = Cardinality(Tactics)
  BY FS_CardinalityType DEF FewTactics
<1>5. [t \in Tactics |-> Rounded(none[t] + 1, 0 + Cardinality(Tactics))] = [t \in Tactics |-> Rounded(1, Cardinality(Tactics))]
  BY <1>4
<1> QED BY <1>3, <1>5

(* Whatever was counted, the model that is stored is one that is loaded.   *)
LEMMA TransmatIs ==
  ASSUME FewTactics, NEW seqs, Fitted(seqs), NEW from \in Tactics
  PROVE  SumsWell(Transmat(seqs, 1)[from], Tactics) /\ DOMAIN Transmat(seqs, 1)[from] = Tactics
<1> DEFINE K == Tactics
           D == DOMAIN seqs
           N == Cardinality(K)
           count(t, e) == Cardinality({i \in 1..(Len(seqs[e]) - 1) : Steps(seqs[e])[i] = <<from, t>>})
           perEntity(t) == [e \in D |-> count(t, e)]
           c == [t \in K |-> CountOf(seqs, from, t)]
           m == Support(seqs, from)
<1>1. ASSUME NEW t \in K PROVE CountOf(seqs, from, t) \in Nat
  <2>1. CountOf(seqs, from, t) = SumOver(perEntity(t), D)
    <3>1. CountOf(seqs, from, t) = Sigma(perEntity(t))
      BY DEF CountOf
    <3> HIDE DEF count
    <3> QED BY <3>1, SigmaOf
  <2>2. ASSUME NEW e \in D PROVE count(t, e) \in Nat
    <3> DEFINE I == {i \in 1..(Len(seqs[e]) - 1) : Steps(seqs[e])[i] = <<from, t>>}
    <3>1. Len(seqs[e]) \in Nat
      BY LenProperties DEF Fitted
    <3>2. IsFiniteSet(1..(Len(seqs[e]) - 1))
      BY <3>1, FS_Interval
    <3>3. I \subseteq 1..(Len(seqs[e]) - 1)
      OBVIOUS
    <3> HIDE DEF I
    <3>4. Cardinality(I) \in Nat
      BY <3>2, <3>3, FS_Subset, FS_CardinalityType
    <3> QED BY <3>4 DEF I
  <2> HIDE DEF count
  <2>3. Summable(perEntity(t), D) /\ \A e \in D : perEntity(t)[e] \in Nat
    BY <2>2 DEF Summable, Fitted
  <2> HIDE DEF perEntity, D
  <2> QED BY <2>1, <2>3, SumNat
<1>2. c \in [K -> Nat] /\ Summable(c, K)
  BY <1>1 DEF Summable, FewTactics
<1>3. m = SumOver(c, K)
  <2>1. m = Sigma(c) /\ c = [t \in K |-> c[t]]
    BY DEF Support
  <2> HIDE DEF c, m
  <2> QED BY <2>1, SigmaOf
<1>4. m \in Nat
  <2> HIDE DEF c, m
  <2> QED BY <1>2, <1>3, SumNat
<1>5. N \in Nat /\ 1 * N = N
  BY FS_CardinalityType DEF FewTactics
<1>6. Transmat(seqs, 1)[from] = [t \in K |-> IF m = 0 THEN Rounded(1, N) ELSE Rounded(c[t] + 1, m + N)]
  BY <1>5 DEF Transmat
<1> HIDE DEF c, m
<1>7. CASE m = 0
  <2>1. Transmat(seqs, 1)[from] = [t \in K |-> Rounded(1, N)]
    BY <1>6, <1>7
  <2> QED BY <2>1, UniformSum
<1>8. CASE m # 0
  <2>1. Transmat(seqs, 1)[from] = [t \in K |-> Rounded(c[t] + 1, m + N)]
    BY <1>6, <1>8
  <2>2. SumsWell([t \in K |-> Rounded(c[t] + 1, m + N)], K)
    BY <1>2, <1>3, <1>4, SmoothedSum
  <2> QED BY <2>1, <2>2
<1> QED BY <1>7, <1>8

LEMMA StartIs ==
  ASSUME FewTactics, NEW seqs, Fitted(seqs)
  PROVE  SumsWell(StartProb(seqs, 1), Tactics) /\ DOMAIN StartProb(seqs, 1) = Tactics
<1> DEFINE K == Tactics
           D == DOMAIN seqs
           N == Cardinality(K)
           first == [e \in D |-> seqs[e][1]]
           c == [t \in K |-> Cardinality({e \in D : first[e] = t})]
           m == Cardinality(D)
<1>1. first \in [D -> K]
  <2> SUFFICES ASSUME NEW e \in D PROVE seqs[e][1] \in K
    OBVIOUS
  <2>1. seqs[e] \in Seq(Tactics) /\ 1 \in 1..Len(seqs[e])
    BY LenProperties DEF Fitted
  <2> QED BY <2>1, ElementOfSeq
<1>2. IsFiniteSet(D) /\ IsFiniteSet(K) /\ m \in Nat /\ N \in Nat /\ 1 * N = N
  BY FS_CardinalityType DEF Fitted, FewTactics
<1>3. c \in [K -> Nat] /\ SumOver(c, K) = m
  <2>1. /\ \A t \in K : Cardinality({e \in D : first[e] = t}) \in Nat
        /\ SumOver([t \in K |-> Cardinality({e \in D : first[e] = t})], K) = Cardinality(D)
    <3> HIDE DEF first, D, K
    <3> QED BY <1>1, <1>2, CountsAddUp
  <2> QED BY <2>1
<1>4. StartProb(seqs, 1) = [t \in K |-> Rounded(c[t] + 1, m + N)]
  <2>1. \A t \in K : {e \in D : first[e] = t} = {e \in D : seqs[e][1] = t}
    OBVIOUS
  <2>2. \A t \in K : c[t] = Cardinality({e \in D : seqs[e][1] = t})
    BY <2>1
  <2>3. StartProb(seqs, 1) = [t \in K |-> Rounded(Cardinality({e \in D : seqs[e][1] = t}) + 1, m + 1 * N)]
    BY DEF StartProb
  <2> HIDE DEF c, m
  <2> QED BY <1>2, <2>2, <2>3
<1> HIDE DEF c, m
<1>5. SumsWell([t \in K |-> Rounded(c[t] + 1, m + N)], K)
  BY <1>2, <1>3, SmoothedSum
<1> QED BY <1>4, <1>5

LEMMA ModelLoads ==
  ASSUME FewTactics, NEW seqs, Fitted(seqs)
  PROVE  /\ Loadable(StartProb(seqs, 1), Transmat(seqs, 1))
         /\ \A t \in Tactics : SumsToOne(PredictNext(seqs, 1, <<t, Unknown>>))
<1>1. DOMAIN Transmat(seqs, 1) = Tactics
  BY DEF Transmat
<1>2. Loadable(StartProb(seqs, 1), Transmat(seqs, 1))
  BY <1>1, TransmatIs, StartIs DEF Loadable, SumsWell
<1>3. ASSUME NEW t \in Tactics PROVE SumsToOne(PredictNext(seqs, 1, <<t, Unknown>>))
  <2> DEFINE s == <<t, Unknown>>
             known == {i \in 1..Len(s) : s[i] # Unknown}
  <2>1. Len(s) = 2 /\ s[1] = t /\ s[2] = Unknown /\ t # Unknown
    BY DEF FewTactics
  <2>2. known = {1}
    BY <2>1
  <2>3. Max({1}) = 1
    <3>1. IsFiniteSet({1})
      BY FS_Singleton
    <3>2. {1} \subseteq Int /\ {1} # {}
      OBVIOUS
    <3>3. Max({1}) \in {1}
      BY <3>1, <3>2, MaxIs
    <3> QED BY <3>3
  <2>4. Anchor(s) = t
    <3>1. known # {} /\ s[Max(known)] = t
      BY <2>1, <2>2, <2>3
    <3> QED BY <3>1 DEF Anchor
  <2> HIDE DEF s
  <2>5. PredictNext(seqs, 1, s) = Transmat(seqs, 1)[t]
    BY <2>1, <2>4 DEF PredictNext
  <2> QED BY <2>5, TransmatIs DEF SumsWell, s
<1> QED BY <1>2, <1>3

(* A question for a sequence is about rows.                                *)
RowsPosed == question.kind = "sequence" => question.rows \in AlertRows

(* The sequence built from alerts holds what was seen and nothing twice in *)
(* a row, does not hang on the order of arrival, and every model fitted to *)
(* sequences is one that a later load accepts, whatever was counted:       *)
(* SequencesFaithful of CoreQuestions, for any rows.                       *)
THEOREM SequencesAreFaithful == CoresSpec => []SequencesFaithful
<1>1. CoresInit => RowsPosed
  BY DEF CoresInit, RowsPosed
<1>2. RowsPosed /\ [Pose]_question => RowsPosed'
  <2> SUFFICES ASSUME RowsPosed, [Pose]_question PROVE RowsPosed'
    OBVIOUS
  <2>1. CASE Pose
    BY <2>1 DEF Pose, Questions, RowsPosed
  <2>2. CASE UNCHANGED question
    BY <2>2 DEF RowsPosed
  <2> QED BY <2>1, <2>2
<1>3. RowsPosed => SequencesFaithful
  <2> SUFFICES ASSUME RowsPosed, question.kind = "sequence" PROVE SequencesFaithful
    BY DEF SequencesFaithful
  <2> DEFINE rows == question.rows
             built == BuildSequences(rows)
  <2>1. RowsOK(rows) /\ FewTactics /\ Unknown \notin Tactics
    BY CoresAssumption DEF RowsPosed, RowsOK, FewTactics
  <2> SUFFICES /\ \A e \in DOMAIN built :
                    /\ \A i \in 1..(Len(built[e]) - 1) : built[e][i] # built[e][i + 1]
                    /\ ToSet(built[e]) = {t \in Tactics : \E i \in 1..Len(rows) :
                                            rows[i].entity = e /\ Contains(rows[i].tactics, t)}
               /\ Untied(rows) => \A other \in Reversals(rows) : BuildSequences(other) = built
               /\ Fits(built, 1, 1) => Loadable(StartProb(built, 1), Transmat(built, 1))
               /\ Fits(built, 1, 1) => \A t \in Tactics : SumsToOne(PredictNext(built, 1, <<t, Unknown>>))
    BY DEF SequencesFaithful
  <2>2. Fitted(built) /\ \A e \in DOMAIN built : built[e] = SequenceOf(rows, e)
    BY <2>1, BuiltIs
  <2>3. Untied(rows) => BuildSequences(Reverse(rows)) = built
    <3> HIDE DEF rows
    <3> QED BY <2>1, BuildReversed DEF Untied
  <2> HIDE DEF rows, built
  <2>4. ASSUME NEW e \in DOMAIN built
        PROVE  /\ \A i \in 1..(Len(built[e]) - 1) : built[e][i] # built[e][i + 1]
               /\ ToSet(built[e]) = {t \in Tactics : \E i \in 1..Len(rows) :
                                       rows[i].entity = e /\ Contains(rows[i].tactics, t)}
    <3>1. built[e] = SequenceOf(rows, e)
      BY <2>2
    <3> QED BY <2>1, <3>1, SequenceIs
  <2>5. \A other \in Reversals(rows) : other = Reverse(rows)
    BY DEF Reversals
  <2>6. /\ Loadable(StartProb(built, 1), Transmat(built, 1))
        /\ \A t \in Tactics : SumsToOne(PredictNext(built, 1, <<t, Unknown>>))
    BY <2>1, <2>2, ModelLoads
  <2> QED BY <2>3, <2>4, <2>5, <2>6
<1> QED BY <1>1, <1>2, <1>3, PTL DEF CoresSpec

-----------------------------------------------------------------------------
(* ToolAnswers: no blind answer.                                           *)
(* What NoBlindAnswer says, of one question and one answer to it.          *)
Backed(q, answer, view) ==
  Sighted(q, answer, view) \/ <<q.tool, view>> \in Silent
Honest(q, answer) ==
  answer.status = "ok" =>
    /\ \A view \in answer.views : Backed(q, answer, view)
    /\ Truthful(q, answer)
    /\ answer.claim = "complete" =>
         \A view \in answer.views :
           (\E s \in view : ~IsLost(q, s)) \/ <<q.tool, view>> \in Unclaimed

(* The ways in which the tools put an answer together: each is honest when *)
(* its parts are.                                                          *)
LEMMA RefusalIsHonest == ASSUME NEW q PROVE Honest(q, Refusal)
BY DEF Honest, Refusal

LEMMA ToldIsHonest ==
  ASSUME NEW q, NEW views, NEW names, NEW verdict,
         \A s \in names : IsLost(q, s),
         \A view \in views : \/ \E s \in view : ~IsLost(q, s) \/ s \in names
                             \/ <<q.tool, view>> \in Silent
  PROVE  Honest(q, Told(views, names, verdict))
BY DEF Honest, Backed, Told, Sighted, Truthful

(* What is claimed in one word: complete, only if every view was read.     *)
LEMMA ClaimIsHonest ==
  ASSUME NEW q, NEW views, NEW names, NEW verdict, NEW claim,
         Honest(q, Told(views, names, verdict)),
         claim = "complete" =>
           \A view \in views : (\E s \in view : ~IsLost(q, s)) \/ <<q.tool, view>> \in Unclaimed
  PROVE  Honest(q, Claiming(Told(views, names, verdict), claim))
BY DEF Honest, Backed, Claiming, Told, Sighted, Truthful

LEMMA ConfiguredIsHonest ==
  ASSUME NEW q, NEW answer, Honest(q, answer) PROVE Honest(q, Configured(q, answer))
BY RefusalIsHonest DEF Configured

LEMMA FromQueryIsHonest ==
  ASSUME NEW q, NEW s, NEW answer, ~IsLost(q, s) => Honest(q, answer)
  PROVE  Honest(q, FromQuery(q, s, answer))
BY RefusalIsHonest DEF FromQuery

LEMMA UncaughtIsHonest ==
  ASSUME NEW q, NEW sources, NEW answer, Honest(q, answer)
  PROVE  Honest(q, Uncaught(q, sources, answer))
BY RefusalIsHonest DEF Uncaught

LEMMA SingleIsHonest == ASSUME NEW q, NEW s PROVE Honest(q, Single(q, s))
<1>1. ~IsLost(q, s) => Honest(q, Told({{s}}, {}, "none"))
  BY ToldIsHonest
<1> QED BY <1>1, FromQueryIsHonest DEF Single

LEMMA ItemByItemIsHonest ==
  ASSUME NEW q, NEW items PROVE Honest(q, ItemByItem(q, items))
<1>1. \A s \in LostOf(q, items) : IsLost(q, s)
  BY DEF LostOf
<1>2. \A view \in Each(items) : \E s \in view : ~IsLost(q, s) \/ s \in LostOf(q, items)
  BY DEF Each, LostOf
<1> QED BY <1>1, <1>2, ToldIsHonest DEF ItemByItem

-----------------------------------------------------------------------------
(* The tools that read alerts.                                             *)
LEMMA SimpleIsHonest == ASSUME NEW q PROVE Honest(q, Simple(q))
BY SingleIsHonest DEF Simple

LEMMA ReadIsHonest ==
  ASSUME NEW q, NEW s, NEW verdict PROVE Honest(q, FromQuery(q, s, Told({{s}}, {}, verdict)))
<1>1. ~IsLost(q, s) => Honest(q, Told({{s}}, {}, verdict))
  BY ToldIsHonest
<1> QED BY <1>1, FromQueryIsHonest

LEMMA VelocityIsHonest == ASSUME NEW q PROVE Honest(q, wazuh_attack_velocity(q))
<1> DEFINE trend == Trend(Sum2(q, "current", "currentAlt"), Sum2(q, "previous", "previousAlt"))
           told == Told({NowWindow, WindowBefore}, {}, trend)
<1>1. ~Unread(q) => Honest(q, told)
  BY ToldIsHonest DEF Unread, AllLost
<1>2. Honest(q, IF Has(q, "badWindow") \/ Unread(q) THEN Refusal ELSE told)
  BY <1>1, RefusalIsHonest
<1> QED BY <1>2, ConfiguredIsHonest DEF wazuh_attack_velocity

LEMMA EmailIsHonest ==
  ASSUME NEW q, q.tool = "wazuh_email_lookup" PROVE Honest(q, wazuh_email_lookup(q))
<1>1. <<q.tool, {"next"}>> \in Silent
  BY DEF Silent
<1>2. ~IsLost(q, "page") =>
        Honest(q, Told(IF LaterPages(q) THEN Each({"page", "next"}) ELSE {{"page"}}, {}, "none"))
  BY <1>1, ToldIsHonest DEF Each
<1> QED BY <1>2, FromQueryIsHonest DEF wazuh_email_lookup

LEMMA MailboxesAreHonest ==
  ASSUME NEW q, q.tool = "wazuh_compromised_emails_analysis"
  PROVE  Honest(q, wazuh_compromised_emails_analysis(q))
<1>1. <<q.tool, {"batch"}>> \in Silent /\ <<q.tool, {"batch2"}>> \in Silent
  BY DEF Silent
<1>2. ASSUME NEW enriched
      PROVE  Honest(q, Told(Each({"batch", "batch2"} \cup enriched), LostOf(q, enriched), "none"))
  BY <1>1, ToldIsHonest DEF Each, LostOf
<1> QED BY <1>2, RefusalIsHonest DEF wazuh_compromised_emails_analysis

LEMMA DomainScanIsHonest ==
  ASSUME NEW q PROVE Honest(q, _wazuh_domain_lookup_full_scan(q))
<1>1. ASSUME NEW asked, NEW claim, \A s \in asked : ~IsLost(q, s)
      PROVE  Honest(q, Claiming(Told(Each(asked), {}, "none"), claim))
  <2>1. \A view \in Each(asked) : \E s \in view : ~IsLost(q, s)
    BY <1>1 DEF Each
  <2> QED BY <2>1, ToldIsHonest, ClaimIsHonest
<1> QED BY <1>1, RefusalIsHonest DEF _wazuh_domain_lookup_full_scan

LEMMA PageIsHonest ==
  ASSUME NEW q, NEW s, NEW verdict, NEW claim
  PROVE  Honest(q, FromQuery(q, s, Claiming(Told({{s}}, {}, verdict), claim)))
<1>1. ~IsLost(q, s) => Honest(q, Claiming(Told({{s}}, {}, verdict), claim))
  BY ToldIsHonest, ClaimIsHonest
<1> QED BY <1>1, FromQueryIsHonest

LEMMA CompareIsHonest ==
  ASSUME NEW q, q.tool = "blueteam_wazuh_alert_compare"
  PROVE  Honest(q, blueteam_wazuh_alert_compare(q))
<1>1. <<q.tool, {"a"}>> \in Silent /\ <<q.tool, {"b"}>> \in Silent
  BY DEF Silent
<1>2. ASSUME NEW verdict, NEW names \in SUBSET LostOf(q, {"a", "b"})
      PROVE  Honest(q, Told(Each({"a", "b"}), names, verdict))
  BY <1>1, ToldIsHonest DEF Each, LostOf
<1>3. {} \in SUBSET LostOf(q, {"a", "b"}) /\ LostOf(q, {"a", "b"}) \in SUBSET LostOf(q, {"a", "b"})
  OBVIOUS
<1> QED BY <1>2, <1>3, ConfiguredIsHonest DEF blueteam_wazuh_alert_compare

LEMMA CuratedIsHonest ==
  ASSUME NEW q, q.tool = "blueteam_curated_threat_report"
  PROVE  Honest(q, blueteam_curated_threat_report(q))
<1>1. /\ <<q.tool, {"entities", "entitiesAlt"}>> \in Silent
      /\ <<q.tool, {"before"}>> \in Silent
      /\ <<q.tool, {"intel"}>> \in Silent
      /\ <<q.tool, {"chain"}>> \in Silent
  BY DEF Silent
<1> DEFINE totals == CuratedTotals(q)
           json == Has(q, "json")
           views == totals.views \cup CuratedComparison(q) \cup Each(CuratedIntel(q))
                      \cup (IF json THEN {} ELSE CuratedChains(q))
           names == totals.names \cup (IF json THEN LostOf(q, CuratedIntel(q)) ELSE {})
           verdict == IF json THEN "none" ELSE CuratedAdvice(q)
<1>2. totals.status # "error" =>
        /\ ~IsLost(q, "alerts")
        /\ totals.views \subseteq {{"alerts"}, {"wrappers"}, {"entities", "entitiesAlt"}}
        /\ {"wrappers"} \in totals.views => "dedup" \in q.opts
        /\ totals.names = (IF Has(q, "dedup") THEN LostOf(q, {"wrappers"}) ELSE {})
  BY DEF CuratedTotals, FromQuery, Told, Refusal
<1>3. totals.status # "error" => Honest(q, Told(views, names, verdict))
  <2>1. \A s \in LostOf(q, CuratedIntel(q)) : IsLost(q, s)
    BY DEF LostOf
  <2>2. \A s \in LostOf(q, {"wrappers"}) : IsLost(q, s)
    BY DEF LostOf
  <2>3. totals.status # "error" => \A s \in names : IsLost(q, s)
    BY <1>2, <2>1, <2>2
  <2>4. CuratedComparison(q) \subseteq {{"before"}}
    BY DEF CuratedComparison
  <2>5. Each(CuratedIntel(q)) \subseteq {{"intel"}}
    BY DEF CuratedIntel, Each
  <2>6. CuratedChains(q) \subseteq {{"chain"}}
    BY DEF CuratedChains
  <2>7. "dedup" \in q.opts /\ IsLost(q, "wrappers") => "wrappers" \in LostOf(q, {"wrappers"})
    BY DEF LostOf
  <2>8. totals.status # "error" =>
          \A view \in totals.views : \/ \E s \in view : ~IsLost(q, s) \/ s \in names
                                    \/ <<q.tool, view>> \in Silent
    <3> SUFFICES ASSUME totals.status # "error", NEW view \in totals.views
                 PROVE  \/ \E s \in view : ~IsLost(q, s) \/ s \in names
                        \/ <<q.tool, view>> \in Silent
      OBVIOUS
    <3>1. CASE view = {"alerts"}
      BY <1>2, <3>1
    <3>2. CASE view = {"wrappers"}
      <4>1. "dedup" \in q.opts /\ LostOf(q, {"wrappers"}) \subseteq names
        BY <1>2, <3>2 DEF Has
      <4> QED BY <2>7, <3>2, <4>1
    <3>3. CASE view = {"entities", "entitiesAlt"}
      BY <1>1, <3>3
    <3> QED BY <1>2, <3>1, <3>2, <3>3
  <2> HIDE DEF names, verdict
  <2>9. totals.status # "error" =>
          \A view \in views : \/ \E s \in view : ~IsLost(q, s) \/ s \in names
                             \/ <<q.tool, view>> \in Silent
    BY <1>1, <2>4, <2>5, <2>6, <2>8
  <2> QED BY <2>3, <2>9, ToldIsHonest
<1>4. Honest(q, IF totals.status = "error" THEN Refusal ELSE Told(views, names, verdict))
  BY <1>3, RefusalIsHonest
<1> QED BY <1>4, ConfiguredIsHonest DEF blueteam_curated_threat_report

LEMMA BotReconIsHonest == ASSUME NEW q PROVE Honest(q, blueteam_ai_bot_recon(q))
<1> DEFINE sources == {"alerts", "alertsAlt"}
<1>1. ~AllLost(q, sources) => Honest(q, Told({sources}, {}, "none"))
  BY ToldIsHonest DEF AllLost
<1>2. Honest(q, IF AllLost(q, sources) THEN Refusal ELSE Told({sources}, {}, "none"))
  BY <1>1, RefusalIsHonest
<1> QED BY <1>2, ConfiguredIsHonest DEF blueteam_ai_bot_recon

LEMMA WindowIsHonest == ASSUME NEW q PROVE Honest(q, blueteam_wazuh_forensic_window(q))
<1> DEFINE told == Claiming(Told({{"alerts"}}, {}, "none"),
                            IF q.out["alerts"] > Page THEN "partial" ELSE "complete")
           answer == IF q.out["alerts"] = 0 \/ Has(q, "absent") THEN Refusal ELSE told
<1>1. ~IsLost(q, "alerts") => Honest(q, told)
  BY ToldIsHonest, ClaimIsHonest
<1>2. ~IsLost(q, "alerts") => Honest(q, answer)
  BY <1>1, RefusalIsHonest
<1> HIDE DEF answer
<1>3. Honest(q, Configured(q, FromQuery(q, "alerts", answer)))
  BY <1>2, FromQueryIsHonest, ConfiguredIsHonest
<1> QED BY <1>3 DEF blueteam_wazuh_forensic_window, answer

LEMMA RefusableIsHonest ==            (* a search that a guard may refuse *)
  ASSUME NEW q, NEW refused
  PROVE  /\ Honest(q, IF refused THEN Refusal ELSE Simple(q))
         /\ Honest(q, Configured(q, IF refused THEN Refusal ELSE Simple(q)))
<1>1. Honest(q, IF refused THEN Refusal ELSE Simple(q))
  BY RefusalIsHonest, SimpleIsHonest
<1> QED BY <1>1, ConfiguredIsHonest

LEMMA ArgusIsHonest == ASSUME NEW q PROVE Honest(q, argus_ip_lookup(q))
<1> DEFINE answer == IF q.out["argus"] = 0 THEN Refusal ELSE Told({{"argus"}}, {}, "none")
<1>1. ~IsLost(q, "argus") => Honest(q, answer)
  BY ToldIsHonest, RefusalIsHonest
<1> HIDE DEF answer
<1>2. Honest(q, Configured(q, FromQuery(q, "argus", answer)))
  BY <1>1, FromQueryIsHonest, ConfiguredIsHonest
<1> QED BY <1>2 DEF argus_ip_lookup, answer

LEMMA UnifiedIsHonest ==
  ASSUME NEW q, q.tool = "blueteam_unified_threat_score"
  PROVE  Honest(q, blueteam_unified_threat_score(q))
<1> DEFINE views == Each(DOMAIN Weights)
           names == LostOf(q, {"abuseipdb"})
<1>1. views = {{"crowdsec"}, {"threatfox"}, {"abuseipdb"}}
  BY DEF Each, Weights
<1>2. <<q.tool, {"crowdsec"}>> \in Silent /\ <<q.tool, {"threatfox"}>> \in Silent
  BY DEF Silent
<1>3. ~IsLost(q, "abuseipdb") \/ "abuseipdb" \in names
  BY DEF LostOf
<1>4. \A s \in names : IsLost(q, s)
  BY DEF LostOf
<1> HIDE DEF views, names
<1>5. \A view \in views : \/ \E s \in view : ~IsLost(q, s) \/ s \in names
                           \/ <<q.tool, view>> \in Silent
  BY <1>1, <1>2, <1>3
<1>6. \A verdict : Honest(q, Told(views, names, verdict))
  BY <1>4, <1>5, ToldIsHonest
<1> QED BY <1>6 DEF blueteam_unified_threat_score, views, names

LEMMA AlertAnswersAreHonest ==
  ASSUME NEW q \in AlertQuestions PROVE Honest(q, AlertAnswer(q))
<1>1. CASE q.tool = "wazuh_attack_velocity"
  BY <1>1, VelocityIsHonest DEF AlertAnswer
<1>2. CASE q.tool = "wazuh_alert_timeline"
  <2>1. Honest(q, wazuh_alert_timeline(q))
    BY ReadIsHonest DEF wazuh_alert_timeline
  <2> QED BY <1>2, <2>1 DEF AlertAnswer
<1>3. CASE q.tool = "wazuh_email_lookup"
  BY <1>3, EmailIsHonest DEF AlertAnswer
<1>4. CASE q.tool = "wazuh_compromised_emails_analysis"
  BY <1>4, MailboxesAreHonest DEF AlertAnswer
<1>5. CASE q.tool = "wazuh_domain_lookup"
  BY <1>5, DomainScanIsHonest DEF AlertAnswer
<1>6. CASE q.tool = "blueteam_whois_lookup"
  <2>1. Honest(q, blueteam_whois_lookup(q))
    BY ReadIsHonest DEF blueteam_whois_lookup
  <2> QED BY <1>6, <2>1 DEF AlertAnswer
<1>7. CASE q.tool = "blueteam_crtsh_lookup"
  <2>1. Honest(q, blueteam_crtsh_lookup(q))
    BY ReadIsHonest DEF blueteam_crtsh_lookup
  <2> QED BY <1>7, <2>1 DEF AlertAnswer
<1>8. CASE q.tool = "blueteam_wazuh_alert_summarize"
  <2>1. Honest(q, blueteam_wazuh_alert_summarize(q))
    BY PageIsHonest, ConfiguredIsHonest DEF blueteam_wazuh_alert_summarize
  <2> QED BY <1>8, <2>1 DEF AlertAnswer
<1>9. CASE q.tool = "blueteam_wazuh_alert_compare"
  BY <1>9, CompareIsHonest DEF AlertAnswer
<1>10. CASE q.tool = "blueteam_curated_threat_report"
  BY <1>10, CuratedIsHonest DEF AlertAnswer
<1>11. CASE q.tool = "blueteam_wazuh_geo_distribution"
  <2>1. Honest(q, blueteam_wazuh_geo_distribution(q))
    BY SimpleIsHonest, ConfiguredIsHonest DEF blueteam_wazuh_geo_distribution
  <2> QED BY <1>11, <2>1 DEF AlertAnswer
<1>12. CASE q.tool = "blueteam_wazuh_geo_concentration"
  <2>1. Honest(q, blueteam_wazuh_geo_concentration(q))
    BY PageIsHonest, ConfiguredIsHonest DEF blueteam_wazuh_geo_concentration
  <2> QED BY <1>12, <2>1 DEF AlertAnswer
<1>13. CASE q.tool = "blueteam_ai_bot_recon"
  BY <1>13, BotReconIsHonest DEF AlertAnswer
<1>14. CASE q.tool = "blueteam_index_schema"
  <2>1. Honest(q, blueteam_index_schema(q))
    BY ReadIsHonest DEF blueteam_index_schema
  <2> QED BY <1>14, <2>1 DEF AlertAnswer
<1>15. CASE q.tool = "wazuh_alert_dsl_query"
  <2>1. Honest(q, wazuh_alert_dsl_query(q))
    BY RefusableIsHonest DEF wazuh_alert_dsl_query
  <2> QED BY <1>15, <2>1 DEF AlertAnswer
<1>16. CASE q.tool = "blueteam_wazuh_forensic_window"
  BY <1>16, WindowIsHonest DEF AlertAnswer
<1>17. CASE q.tool = "blueteam_wazuh_vulnerabilities"
  <2>1. Honest(q, blueteam_wazuh_vulnerabilities(q))
    BY SimpleIsHonest, ConfiguredIsHonest DEF blueteam_wazuh_vulnerabilities
  <2> QED BY <1>17, <2>1 DEF AlertAnswer
<1>18. CASE q.tool = "blueteam_wazuh_syscheck"
  <2>1. Honest(q, blueteam_wazuh_syscheck(q))
    BY RefusableIsHonest DEF blueteam_wazuh_syscheck
  <2> QED BY <1>18, <2>1 DEF AlertAnswer
<1>19. CASE q.tool = "blueteam_wazuh_compliance"
  <2>1. Honest(q, blueteam_wazuh_compliance(q))
    BY RefusableIsHonest DEF blueteam_wazuh_compliance
  <2> QED BY <1>19, <2>1 DEF AlertAnswer
<1>20. CASE q.tool = "blueteam_wazuh_geo_heatmap"
  <2>1. Honest(q, blueteam_wazuh_geo_heatmap(q))
    BY SimpleIsHonest, ConfiguredIsHonest DEF blueteam_wazuh_geo_heatmap
  <2> QED BY <1>20, <2>1 DEF AlertAnswer
<1>21. CASE q.tool = "netra_ip_analysis"
  <2>1. Honest(q, netra_ip_analysis(q))
    BY PageIsHonest, ConfiguredIsHonest DEF netra_ip_analysis
  <2> QED BY <1>21, <2>1 DEF AlertAnswer
<1>22. CASE q.tool = "argus_ip_lookup"
  BY <1>22, ArgusIsHonest DEF AlertAnswer
<1>23. CASE q.tool = "sangfor_blocklist_check"
  <2>1. Honest(q, sangfor_blocklist_check(q))
    BY ReadIsHonest, ConfiguredIsHonest DEF sangfor_blocklist_check
  <2> QED BY <1>23, <2>1 DEF AlertAnswer
<1>24. CASE q.tool = "blueteam_unified_threat_score"
  BY <1>24, UnifiedIsHonest DEF AlertAnswer
<1> QED
  BY <1>1, <1>2, <1>3, <1>4, <1>5, <1>6, <1>7, <1>8, <1>9, <1>10, <1>11, <1>12, <1>13, <1>14,
     <1>15, <1>16, <1>17, <1>18, <1>19, <1>20, <1>21, <1>22, <1>23, <1>24
     DEF AlertQuestions, CallsOf, Calling

-----------------------------------------------------------------------------
(* The look-ups.                                                           *)
LEMMA AllItemsAreHonest ==                (* each item, and what became of it *)
  ASSUME NEW q, NEW items, NEW told, told \subseteq items, NEW verdict
  PROVE  /\ Honest(q, Told(Each(items), LostOf(q, items), verdict))
         /\ (items \ told) \cap LostOf(q, items) = {} =>
              Honest(q, Told(Each(items), LostOf(q, told), verdict))
<1>1. \A S : \A s \in LostOf(q, S) : IsLost(q, s)
  BY DEF LostOf
<1>2. \A view \in Each(items) : \E s \in view : ~IsLost(q, s) \/ s \in LostOf(q, items)
  BY DEF Each, LostOf
<1>3. (items \ told) \cap LostOf(q, items) = {} =>
        \A view \in Each(items) : \E s \in view : ~IsLost(q, s) \/ s \in LostOf(q, told)
  BY DEF Each, LostOf
<1> QED BY <1>1, <1>2, <1>3, ToldIsHonest

LEMMA MispIsHonest == ASSUME NEW q PROVE Honest(q, blueteam_misp_ioc_lookup(q))
<1> DEFINE both == Told({{"misp"}, {"version"}}, LostOf(q, {"version"}), "none")
           answer == IF Has(q, "probed") THEN Told({{"misp"}}, {}, "none") ELSE both
<1>1. ~IsLost(q, "misp") => Honest(q, Told({{"misp"}}, {}, "none"))
  BY ToldIsHonest
<1>2. ~IsLost(q, "misp") => Honest(q, both)
  BY ToldIsHonest DEF LostOf
<1>3. ~IsLost(q, "misp") => Honest(q, answer)
  BY <1>1, <1>2
<1> HIDE DEF answer
<1>4. Honest(q, Configured(q, FromQuery(q, "misp", answer)))
  BY <1>3, FromQueryIsHonest, ConfiguredIsHonest
<1> QED BY <1>4 DEF blueteam_misp_ioc_lookup, answer

LEMMA JarmIsHonest == ASSUME NEW q PROVE Honest(q, jarm_fingerprint(q))
<1>1. Honest(q, Told({}, {}, "none"))
  BY ToldIsHonest
<1>2. ~AllLost(q, Probes) => Honest(q, Told({Probes}, {}, "fingerprint"))
  BY ToldIsHonest DEF AllLost
<1> QED BY <1>1, <1>2 DEF jarm_fingerprint

LEMMA SeriesIsHonest == ASSUME NEW q PROVE Honest(q, blueteam_ioc_search_bulk(q))
<1>1. IsLost(q, "first") => Honest(q, Told({{"first"}}, {"first"}, "skipped"))
  BY ToldIsHonest
<1> QED BY <1>1, ItemByItemIsHonest DEF blueteam_ioc_search_bulk

(* A provider that was asked is shown, and told of when it failed.         *)
LEMMA AggregateIsHonest == ASSUME NEW q PROVE Honest(q, blueteam_threat_intel_aggregate(q))
<1> DEFINE providers ==
             <<_crowdsec_provider(q), _threatfox_provider(q), _otx_provider(q),
               _greynoise_provider(q), _abuseipdb_provider(q), _virustotal_provider(q)>>
           asked == {i \in DOMAIN providers : providers[i].asked}
           ok == {i \in DOMAIN providers : providers[i].ok}
           views == Each({providers[i].name : i \in asked})
           names == {providers[i].name : i \in asked \ ok}
<1> DEFINE Plain(p) == (p.asked /\ ~p.ok => IsLost(q, p.name)) /\ (p.ok => ~IsLost(q, p.name))
<1>1. \A s, asking, risk : Plain(Provider(q, s, asking, risk))
  BY DEF Provider
<1> HIDE DEF Plain
<1>2. /\ Plain(_crowdsec_provider(q)) /\ Plain(_threatfox_provider(q)) /\ Plain(_otx_provider(q))
      /\ Plain(_greynoise_provider(q)) /\ Plain(_abuseipdb_provider(q))
      /\ Plain(_virustotal_provider(q))
  BY <1>1 DEF _crowdsec_provider, _threatfox_provider, _otx_provider, _greynoise_provider,
              _abuseipdb_provider, _virustotal_provider
<1>3. \A i \in DOMAIN providers : Plain(providers[i])
  BY <1>2
<1> HIDE DEF providers
<1>4. \A s \in names : IsLost(q, s)
  BY <1>3 DEF Plain
<1>5. \A view \in views : \E s \in view : ~IsLost(q, s) \/ s \in names
  BY <1>3 DEF Plain, Each
<1>6. \A verdict : Honest(q, Told(views, names, verdict))
  BY <1>4, <1>5, ToldIsHonest
<1> QED BY <1>6 DEF blueteam_threat_intel_aggregate, _aggregate, providers

LEMMA KevIsHonest ==
  ASSUME NEW q, q.tool = "blueteam_cve_kev" PROVE Honest(q, blueteam_cve_kev(q))
<1>1. <<q.tool, {"kev", "kevMirror"}>> \in Silent
  BY DEF Silent
<1>2. \A verdict : Honest(q, Told({{"kev", "kevMirror"}}, {}, verdict))
  BY <1>1, ToldIsHonest
<1> QED BY <1>2, UncaughtIsHonest DEF blueteam_cve_kev

LEMMA PocIsHonest ==
  ASSUME NEW q, q.tool = "blueteam_cve_poc" PROVE Honest(q, blueteam_cve_poc(q))
<1>1. <<q.tool, PocSources>> \in Silent
  BY DEF Silent
<1>2. \A verdict : Honest(q, Told({PocSources}, {}, verdict))
  BY <1>1, ToldIsHonest
<1> QED BY <1>2, UncaughtIsHonest DEF blueteam_cve_poc

(* NVD and EPSS must answer; the catalogue and the searches are silent.    *)
LEMMA GatheredIsHonest ==
  ASSUME NEW q, q.tool \in {"blueteam_cve_score", "blueteam_cve_ssvc"}, NEW verdict
  PROVE  Honest(q, _gather_cve_data(q, verdict))
<1>1. <<q.tool, {"kev", "kevMirror"}>> \in Silent /\ <<q.tool, PocSources>> \in Silent
  BY DEF Silent
<1> DEFINE told == Told({{"nvd"}, {"epss"}, {"kev", "kevMirror"}, PocSources}, {}, verdict)
<1>2. ~IsLost(q, "nvd") /\ ~IsLost(q, "epss") => Honest(q, told)
  BY <1>1, ToldIsHonest
<1>3. ~IsLost(q, "nvd") /\ ~IsLost(q, "epss") =>
        Honest(q, Uncaught(q, {"kev"} \cup PocSources, told))
  BY <1>2, UncaughtIsHonest
<1> QED BY <1>3, RefusalIsHonest DEF _gather_cve_data

(* A search that fails is an error of the whole; the feed and the packages *)
(* are told of, and no claim is about them.                                *)
LEMMA CandidatesAreHonest ==
  ASSUME NEW q, q.tool = "blueteam_cve_now_attack_correlate" PROVE Honest(q, correlate_alert(q))
<1> DEFINE needed == SearchesOf(q) \cup Detail(q)
           optional == Feed(q) \cup _agent_packages(q)
<1>1. \A s \in optional : <<q.tool, {s}>> \in Unclaimed
  BY DEF Feed, _agent_packages, Unclaimed
<1> HIDE DEF needed, optional
<1> DEFINE views == Each(needed \cup optional)
<1>2. \A s \in LostOf(q, optional) : IsLost(q, s)
  BY DEF LostOf
<1>3. ASSUME LostOf(q, needed) = {}, NEW claim
      PROVE  Honest(q, Claiming(Told(views, LostOf(q, optional), "candidates"), claim))
  <2>1. \A s \in needed : ~IsLost(q, s)
    BY <1>3 DEF LostOf
  <2>2. \A view \in views : \E s \in view : ~IsLost(q, s) \/ s \in LostOf(q, optional)
    BY <2>1 DEF Each, LostOf
  <2>3. \A view \in views : (\E s \in view : ~IsLost(q, s)) \/ <<q.tool, view>> \in Unclaimed
    BY <1>1, <2>1 DEF Each
  <2>4. Honest(q, Told(views, LostOf(q, optional), "candidates"))
    BY <1>2, <2>2, ToldIsHonest
  <2> QED BY <2>3, <2>4, ClaimIsHonest
<1>4. needed \cup Feed(q) \cup _agent_packages(q) = needed \cup optional
  BY DEF optional
<1> QED BY <1>3, <1>4, RefusalIsHonest DEF correlate_alert, needed, optional, views

LEMMA CorrelateIsHonest ==
  ASSUME NEW q, q.tool = "blueteam_cve_now_attack_correlate"
  PROVE  Honest(q, blueteam_cve_now_attack_correlate(q))
<1> DEFINE asset == _agent_packages(q)
<1>1. \A s \in LostOf(q, asset) : IsLost(q, s)
  BY DEF LostOf
<1>2. \A view \in Each(asset) : \E s \in view : ~IsLost(q, s) \/ s \in LostOf(q, asset)
  BY DEF Each, LostOf
<1>3. Honest(q, Told(Each(asset), LostOf(q, asset), "unmapped"))
  BY <1>1, <1>2, ToldIsHonest
<1>4. Each({"record"} \cup asset) = {{"record"}} \cup Each(asset)
  BY DEF Each
<1>5. ~IsLost(q, "record") =>
        Honest(q, Told(Each({"record"} \cup asset), LostOf(q, asset), "direct"))
  BY <1>1, <1>2, <1>4, ToldIsHonest
<1>6. Honest(q, FromQuery(q, "record",
                 Told(Each({"record"} \cup asset), LostOf(q, asset), "direct")))
  BY <1>5, FromQueryIsHonest
<1> QED BY <1>3, <1>6, CandidatesAreHonest DEF blueteam_cve_now_attack_correlate

LEMMA PackagesAreHonest ==
  ASSUME NEW q, q.tool = "blueteam_dependency_scan" PROVE Honest(q, blueteam_dependency_scan(q))
<1>1. \A s \in Items : <<q.tool, {s}>> \in Silent
  BY DEF Items, Silent
<1>2. Honest(q, Told(Each(Items), {}, "none"))
  BY <1>1, ToldIsHonest DEF Each
<1> QED BY <1>2, UncaughtIsHonest, RefusalIsHonest DEF blueteam_dependency_scan

LEMMA LookupAnswersAreHonest ==
  ASSUME NEW q \in LookupQuestions PROVE Honest(q, LookupAnswer(q))
<1>1. CASE q.tool = "threatfox_ioc_search"
  <2>1. Honest(q, threatfox_ioc_search(q))
    BY SingleIsHonest, ConfiguredIsHonest DEF threatfox_ioc_search
  <2> QED BY <1>1, <2>1 DEF LookupAnswer
<1>2. CASE q.tool = "threatfox_ioc_search_bulk"
  <2>1. Honest(q, threatfox_ioc_search_bulk(q))
    BY ItemByItemIsHonest, UncaughtIsHonest, ConfiguredIsHonest DEF threatfox_ioc_search_bulk
  <2> QED BY <1>2, <2>1 DEF LookupAnswer
<1>3. CASE q.tool = "otx_lookup"
  <2>1. Honest(q, otx_lookup(q))
    BY SingleIsHonest, ConfiguredIsHonest DEF otx_lookup
  <2> QED BY <1>3, <2>1 DEF LookupAnswer
<1>4. CASE q.tool = "otx_lookup_bulk"
  <2>1. Honest(q, otx_lookup_bulk(q))
    BY ItemByItemIsHonest, UncaughtIsHonest, ConfiguredIsHonest DEF otx_lookup_bulk
  <2> QED BY <1>4, <2>1 DEF LookupAnswer
<1>5. CASE q.tool = "urlhaus_lookup"
  <2>1. Honest(q, urlhaus_lookup(q))
    BY SingleIsHonest DEF urlhaus_lookup
  <2> QED BY <1>5, <2>1 DEF LookupAnswer
<1>6. CASE q.tool = "urlhaus_hash_lookup"
  <2>1. Honest(q, urlhaus_hash_lookup(q))
    BY SingleIsHonest DEF urlhaus_hash_lookup
  <2> QED BY <1>6, <2>1 DEF LookupAnswer
<1>7. CASE q.tool = "urlhaus_lookup_bulk"
  <2>1. Honest(q, urlhaus_lookup_bulk(q))
    BY ItemByItemIsHonest, UncaughtIsHonest DEF urlhaus_lookup_bulk
  <2> QED BY <1>7, <2>1 DEF LookupAnswer
<1>8. CASE q.tool = "greynoise_ip_context"
  <2>1. Honest(q, greynoise_ip_context(q))
    BY SingleIsHonest DEF greynoise_ip_context
  <2> QED BY <1>8, <2>1 DEF LookupAnswer
<1>9. CASE q.tool = "crowdsec_ip_reputation"
  <2>1. Honest(q, crowdsec_ip_reputation(q))
    BY SingleIsHonest, ConfiguredIsHonest DEF crowdsec_ip_reputation
  <2> QED BY <1>9, <2>1 DEF LookupAnswer
<1>10. CASE q.tool = "crowdsec_ip_reputation_bulk"
  <2>1. Honest(q, crowdsec_ip_reputation_bulk(q))
    BY ItemByItemIsHonest DEF crowdsec_ip_reputation_bulk
  <2> QED BY <1>10, <2>1 DEF LookupAnswer
<1>11. CASE q.tool = "blueteam_misp_ioc_lookup"
  BY <1>11, MispIsHonest DEF LookupAnswer
<1>12. CASE q.tool = "stealer_log_check"
  <2>1. Honest(q, stealer_log_check(q))
    BY ReadIsHonest DEF stealer_log_check
  <2> QED BY <1>12, <2>1 DEF LookupAnswer
<1>13. CASE q.tool = "jarm_fingerprint"
  BY <1>13, JarmIsHonest DEF LookupAnswer
<1>14. CASE q.tool = "blueteam_cve_advisory"
  <2>1. Honest(q, blueteam_cve_advisory(q))
    BY ItemByItemIsHonest, UncaughtIsHonest DEF blueteam_cve_advisory
  <2> QED BY <1>14, <2>1 DEF LookupAnswer
<1>15. CASE q.tool = "blueteam_ioc_search"
  <2>1. Honest(q, blueteam_ioc_search(q))
    BY SingleIsHonest DEF blueteam_ioc_search
  <2> QED BY <1>15, <2>1 DEF LookupAnswer
<1>16. CASE q.tool = "blueteam_ioc_search_bulk"
  BY <1>16, SeriesIsHonest DEF LookupAnswer
<1>17. CASE q.tool = "blueteam_breach_check"
  <2>1. Honest(q, blueteam_breach_check(q))
    BY SingleIsHonest DEF blueteam_breach_check
  <2> QED BY <1>17, <2>1 DEF LookupAnswer
<1>18. CASE q.tool = "blueteam_ip_intel_bulk"
  <2>1. Honest(q, blueteam_ip_intel_bulk(q))
    BY SingleIsHonest DEF blueteam_ip_intel_bulk
  <2> QED BY <1>18, <2>1 DEF LookupAnswer
<1>19. CASE q.tool = "blueteam_abuseipdb_check"
  <2>1. Honest(q, blueteam_abuseipdb_check(q))
    BY SingleIsHonest, ConfiguredIsHonest DEF blueteam_abuseipdb_check
  <2> QED BY <1>19, <2>1 DEF LookupAnswer
<1>20. CASE q.tool = "blueteam_threat_intel_aggregate"
  <2>1. Honest(q, blueteam_threat_intel_aggregate(q))
    BY AggregateIsHonest DEF blueteam_threat_intel_aggregate
  <2> QED BY <1>20, <2>1 DEF LookupAnswer
<1>21. CASE q.tool = "blueteam_cve_lookup"
  <2>1. Honest(q, blueteam_cve_lookup(q))
    BY SingleIsHonest DEF blueteam_cve_lookup
  <2> QED BY <1>21, <2>1 DEF LookupAnswer
<1>22. CASE q.tool = "blueteam_cve_epss"
  <2>1. Honest(q, blueteam_cve_epss(q))
    BY SingleIsHonest DEF blueteam_cve_epss
  <2> QED BY <1>22, <2>1 DEF LookupAnswer
<1>23. CASE q.tool = "blueteam_cve_kev"
  BY <1>23, KevIsHonest DEF LookupAnswer
<1>24. CASE q.tool = "blueteam_cve_poc"
  BY <1>24, PocIsHonest DEF LookupAnswer
<1>25. CASE q.tool = "blueteam_cve_score"
  <2>1. Honest(q, blueteam_cve_score(q))
    BY <1>25, GatheredIsHonest DEF blueteam_cve_score
  <2> QED BY <1>25, <2>1 DEF LookupAnswer
<1>26. CASE q.tool = "blueteam_cve_ssvc"
  <2>1. Honest(q, blueteam_cve_ssvc(q))
    BY <1>26, GatheredIsHonest DEF blueteam_cve_ssvc
  <2> QED BY <1>26, <2>1 DEF LookupAnswer
<1>27. CASE q.tool = "blueteam_cve_now_lookup"
  <2>1. Honest(q, blueteam_cve_now_lookup(q))
    BY SingleIsHonest DEF blueteam_cve_now_lookup
  <2> QED BY <1>27, <2>1 DEF LookupAnswer
<1>28. CASE q.tool = "blueteam_cve_now_feed"
  <2>1. Honest(q, blueteam_cve_now_feed(q))
    BY SingleIsHonest DEF blueteam_cve_now_feed
  <2> QED BY <1>28, <2>1 DEF LookupAnswer
<1>29. CASE q.tool = "assess_candidate"
  <2>1. Honest(q, assess(q))
    BY ToldIsHonest DEF assess
  <2> QED BY <1>29, <2>1 DEF LookupAnswer
<1>30. CASE q.tool = "blueteam_cve_now_attack_correlate"
  BY <1>30, CorrelateIsHonest DEF LookupAnswer
<1>31. CASE q.tool = "blueteam_dependency_scan"
  BY <1>31, PackagesAreHonest DEF LookupAnswer
<1>32. CASE q.tool = "blueteam_wazuh_vulnerability_health"
  <2>1. Honest(q, blueteam_wazuh_vulnerability_health(q))
    BY AllItemsAreHonest, ConfiguredIsHonest DEF blueteam_wazuh_vulnerability_health
  <2> QED BY <1>32, <2>1 DEF LookupAnswer
<1> QED
  BY <1>1, <1>2, <1>3, <1>4, <1>5, <1>6, <1>7, <1>8, <1>9, <1>10, <1>11,
     <1>12, <1>13, <1>14, <1>15, <1>16, <1>17, <1>18, <1>19, <1>20, <1>21,
     <1>22, <1>23, <1>24, <1>25, <1>26, <1>27, <1>28, <1>29, <1>30, <1>31,
     <1>32
     DEF LookupQuestions, CallsOf, Calling

-----------------------------------------------------------------------------
(* The hunts.                                                              *)
LEMMA PlainIsHonest ==                            (* an answer without views *)
  ASSUME NEW q, NEW verdict, NEW claim
  PROVE  Honest(q, Told({}, {}, verdict)) /\ Honest(q, Claiming(Told({}, {}, verdict), claim))
BY ToldIsHonest, ClaimIsHonest

LEMMA BeaconIsHonest == ASSUME NEW q PROVE Honest(q, blueteam_beacon_detect(q))
<1>1. \A verdict : Honest(q, Configured(q, FromQuery(q, "alerts", Told({{"alerts"}}, {}, verdict))))
  BY ReadIsHonest, ConfiguredIsHonest
<1> QED BY <1>1, PlainIsHonest DEF blueteam_beacon_detect

LEMMA HuntIsHonest ==
  ASSUME NEW q, q.tool = "blueteam_threat_hunt" PROVE Honest(q, blueteam_threat_hunt(q))
<1> DEFINE views == {{"alerts"}} \cup (IF Has(q, "byAddress") THEN {Addresses} ELSE {})
           answer == FromQuery(q, "alerts", Told(views, {}, "none"))
<1>1. <<q.tool, Addresses>> \in Silent
  BY DEF Silent
<1>2. ~IsLost(q, "alerts") => Honest(q, Told(views, {}, "none"))
  BY <1>1, ToldIsHonest
<1>3. Honest(q, answer)
  BY <1>2, FromQueryIsHonest
<1>4. Honest(q, IF Has(q, "unknownTemplate") THEN Refusal ELSE answer)
  BY <1>3, RefusalIsHonest
<1> QED BY <1>4, ConfiguredIsHonest DEF blueteam_threat_hunt

LEMMA DriftIsHonest ==
  ASSUME NEW q, q.tool = "blueteam_baseline_drift" PROVE Honest(q, blueteam_baseline_drift(q))
<1> DEFINE told == Told({{"now"}, {"before"}}, {},
                        IF HitsOf(q, "before") = 0 THEN "insufficient_data" ELSE "compared")
<1>1. <<q.tool, {"before"}>> \in Silent
  BY DEF Silent
<1>2. HitsOf(q, "now") # 0 => ~IsLost(q, "now")
  BY DEF HitsOf
<1>3. HitsOf(q, "now") # 0 => Honest(q, told)
  BY <1>1, <1>2, ToldIsHonest
<1>4. Honest(q, IF HitsOf(q, "now") = 0 THEN Refusal ELSE told)
  BY <1>3, RefusalIsHonest
<1> QED BY <1>4, ConfiguredIsHonest DEF blueteam_baseline_drift

LEMMA BackfillIsHonest == ASSUME NEW q PROVE Honest(q, _run_backfill(q))
<1> DEFINE fitted(refused) == {d \in Days \ refused : _backfill_one_day(q, d) = "ok"}
           answer(refused) ==
             Claiming(Told(Each(Days \ refused), LostOf(q, Days \ refused),
                           IF fitted(refused) # {} THEN "fitted" ELSE "nothing"),
                      IF fitted(refused) = Days THEN "complete" ELSE "partial")
<1>1. ASSUME NEW refused PROVE Honest(q, answer(refused))
  <2>1. \A d \in fitted(refused) : ~IsLost(q, d)
    BY DEF _backfill_one_day
  <2>2. fitted(refused) = Days =>
          \A view \in Each(Days \ refused) : \E s \in view : ~IsLost(q, s)
    BY <2>1 DEF Each
  <2> HIDE DEF fitted
  <2> QED BY <2>2, AllItemsAreHonest, ClaimIsHonest
<1>2. Honest(q, Told({}, LostOf(q, {"caps"}), "srcip_mapping_degraded"))
  BY ToldIsHonest DEF LostOf
<1>3. Honest(q, Told({}, {}, "insufficient_capacity"))
  BY PlainIsHonest
<1> QED BY <1>1, <1>2, <1>3 DEF _run_backfill

(* What the fetch of the profiles tells of is what failed.                 *)
LEMMA FetchHealth ==
  ASSUME NEW q
  PROVE  _fetch_health(q) = LostOf(q, AlertCategories \cup {"caps"})
BY DEF _fetch_health, fetch_srcip_profiles, _srcip_buckets, LostOf

LEMMA ClusterIsHonest == ASSUME NEW q PROVE Honest(q, blueteam_alert_cluster(q))
<1>1. \A verdict : Honest(q, Told(Each(AlertCategories \cup {"caps"}), _fetch_health(q), verdict))
  BY FetchHealth, AllItemsAreHonest
<1>2. Honest(q, Told({}, {}, "status"))
  BY PlainIsHonest
<1> QED BY <1>1, <1>2, ConfiguredIsHonest DEF blueteam_alert_cluster

LEMMA AssignIsHonest ==
  ASSUME NEW q, q.tool = "blueteam_alert_cluster_assign"
  PROVE  Honest(q, blueteam_alert_cluster_assign(q))
<1>1. \A s \in AlertCategories : <<q.tool, {s}>> \in Silent
  BY DEF AlertCategories, Silent
<1>2. \A s \in _fetch_health(q) : IsLost(q, s)
  BY FetchHealth DEF LostOf
<1>3. Honest(q, Told(Each(AlertCategories), _fetch_health(q), "not_observed"))
  BY <1>1, <1>2, ToldIsHonest DEF Each
<1>4. Honest(q, Told(Each(AlertCategories), {}, "assigned"))
  BY <1>1, ToldIsHonest DEF Each
<1>5. Honest(q, Told({}, {}, "assigned"))
  BY PlainIsHonest
<1> DEFINE answer ==
             IF {"noFit", "backfilled", "otherWindow"} \cap q.opts # {} THEN Refusal
             ELSE IF Has(q, "cached") THEN Told({}, {}, "assigned")
             ELSE IF ~fetch_srcip_profiles(q).profiles
             THEN Told(Each(AlertCategories), _fetch_health(q), "not_observed")
             ELSE Told(Each(AlertCategories), {}, "assigned")
<1>6. Honest(q, answer)
  BY <1>3, <1>4, <1>5, RefusalIsHonest
<1> QED BY <1>6, ConfiguredIsHonest DEF blueteam_alert_cluster_assign

LEMMA LineageIsHonest == ASSUME NEW q PROVE Honest(q, blueteam_cluster_lineage(q))
<1> DEFINE behaviour ==
             FromQuery(q, "novelty", Told({{"fits"}} \cup _novelty_by_fit(q), {}, "behavior"))
           answer ==
             IF Has(q, "status") THEN Told({{"fits"}}, {}, "status")
             ELSE IF q.out["fits"] < 2 THEN Told({{"fits"}}, {}, "insufficient_data")
             ELSE IF Has(q, "behavior") THEN behaviour
             ELSE Told({{"fits"}}, {}, "lineage")
<1>1. ~IsLost(q, "fits") => \A verdict : Honest(q, Told({{"fits"}}, {}, verdict))
  BY ToldIsHonest
<1>2. ~IsLost(q, "fits") /\ ~IsLost(q, "novelty") =>
        Honest(q, Told({{"fits"}} \cup _novelty_by_fit(q), {}, "behavior"))
  BY ToldIsHonest DEF _novelty_by_fit
<1>3. ~IsLost(q, "fits") => Honest(q, behaviour)
  BY <1>2, FromQueryIsHonest
<1> HIDE DEF behaviour
<1>4. ~IsLost(q, "fits") => Honest(q, answer)
  BY <1>1, <1>3
<1> HIDE DEF answer
<1>5. Honest(q, Configured(q, FromQuery(q, "fits", answer)))
  BY <1>4, FromQueryIsHonest, ConfiguredIsHonest
<1> QED BY <1>5 DEF blueteam_cluster_lineage, answer, behaviour

LEMMA GraphIsHonest == ASSUME NEW q PROVE Honest(q, blueteam_attack_graph(q))
BY AllItemsAreHonest DEF blueteam_attack_graph

LEMMA PivotIsHonest ==
  ASSUME NEW q, q.tool = "blueteam_pivot_suggest" PROVE Honest(q, blueteam_pivot_suggest(q))
<1>1. \A s \in Techniques : <<q.tool, {s}>> \in Silent
  BY DEF Techniques, Silent
<1>2. _add_stix_edges(q) \subseteq Techniques
  BY DEF _add_stix_edges
<1>3. \A verdict : Honest(q, Told(Each(_add_stix_edges(q)), {}, verdict))
  BY <1>1, <1>2, ToldIsHonest DEF Each
<1> QED BY <1>3 DEF blueteam_pivot_suggest

LEMMA OneToldIsHonest ==
  ASSUME NEW q, NEW s, NEW verdict PROVE Honest(q, Told({{s}}, LostOf(q, {s}), verdict))
BY ToldIsHonest DEF LostOf

LEMMA IncidentIsHonest == ASSUME NEW q PROVE Honest(q, blueteam_incident_label(q))
<1>1. \A verdict : Honest(q, Told({{"backend"}}, LostOf(q, {"backend"}), verdict))
  BY OneToldIsHonest
<1> QED BY <1>1, RefusalIsHonest, ConfiguredIsHonest DEF blueteam_incident_label

LEMMA StatusIsHonest == ASSUME NEW q PROVE Honest(q, _model_status(q))
BY OneToldIsHonest DEF _model_status

LEMMA TrainIsHonest ==
  ASSUME NEW q, q.tool = "blueteam_tactic_forecast" PROVE Honest(q, _tactic_train(q))
<1>1. <<q.tool, {"page"}>> \in Silent
  BY DEF Silent
<1>2. \A s \in Warned(q, {"page"}) : IsLost(q, s)
  BY DEF Warned, LostOf
<1>3. Honest(q, Told({{"page"}}, Warned(q, {"page"}), "insufficient_data"))
  BY <1>1, <1>2, ToldIsHonest
<1>4. _corpus_block(q) = "complete" =>
        \A view \in Each(Sweep) : \E s \in view : ~IsLost(q, s)
  BY DEF _corpus_block, LostOf, Each
<1>5. ASSUME NEW verdict
      PROVE  Honest(q, Claiming(Told(Each(Sweep), LostOf(q, Sweep), verdict), _corpus_block(q)))
  BY <1>4, AllItemsAreHonest, ClaimIsHonest
<1> QED BY <1>3, <1>5 DEF _tactic_train

LEMMA PredictIsHonest ==
  ASSUME NEW q, q.tool = "blueteam_tactic_forecast" PROVE Honest(q, _tactic_predict(q))
<1>1. <<q.tool, {"page"}>> \in Silent
  BY DEF Silent
<1>2. \A s \in Warned(q, {"page"}) : IsLost(q, s)
  BY DEF Warned, LostOf
<1>3. HitsOf(q, "model") # 0 => ~IsLost(q, "model")
  BY DEF HitsOf
<1>4. HitsOf(q, "model") # 0 => Honest(q, Told({{"model"}}, {}, "predicted"))
  BY <1>3, ToldIsHonest
<1>5. ASSUME NEW verdict, HitsOf(q, "model") # 0
      PROVE  Honest(q, Told({{"model"}, {"page"}}, Warned(q, {"page"}), verdict))
  BY <1>1, <1>2, <1>3, <1>5, ToldIsHonest
<1> QED BY <1>4, <1>5, RefusalIsHonest DEF _tactic_predict

LEMMA TacticIsHonest ==
  ASSUME NEW q, q.tool = "blueteam_tactic_forecast" PROVE Honest(q, blueteam_tactic_forecast(q))
BY StatusIsHonest, TrainIsHonest, PredictIsHonest, ConfiguredIsHonest DEF blueteam_tactic_forecast

LEMMA VolumeIsHonest == ASSUME NEW q PROVE Honest(q, blueteam_volume_forecast(q))
<1>1. HitsOf(q, "model") # 0 => ~IsLost(q, "model")
  BY DEF HitsOf
<1>2. HitsOf(q, "model") # 0 => Honest(q, Told({{"model"}}, {}, "predicted"))
  BY <1>1, ToldIsHonest
<1>3. \A verdict : Honest(q, Told({{"page"}}, LostOf(q, {"page"}), verdict))
  BY OneToldIsHonest
<1> QED BY <1>2, <1>3, StatusIsHonest, RefusalIsHonest, ConfiguredIsHonest
       DEF blueteam_volume_forecast

LEMMA AggregatedAlertsAreHonest ==
  ASSUME NEW q, q.tool = "wazuh_alert_aggregate_analysis"
  PROVE  Honest(q, wazuh_alert_aggregate_analysis(q))
<1>1. <<q.tool, Addresses>> \in Silent
  BY DEF Silent
<1>2. ~IsLost(q, "alerts") => Honest(q, Told({{"alerts"}, Addresses}, {}, "none"))
  BY <1>1, ToldIsHonest
<1> QED BY <1>2, FromQueryIsHonest, ConfiguredIsHonest DEF wazuh_alert_aggregate_analysis

LEMMA AspectsAreHonest ==
  ASSUME NEW q, q.tool = "blueteam_investigate_ip" PROVE Honest(q, blueteam_investigate_ip(q))
<1>1. \A s \in Aspects : <<q.tool, {s}>> \in Silent
  BY DEF Aspects, Silent
<1>2. \A verdict : Honest(q, Told(Each(Aspects), {}, verdict))
  BY <1>1, ToldIsHonest DEF Each
<1> QED BY <1>2, ConfiguredIsHonest DEF blueteam_investigate_ip

LEMMA EntriesAreHonest == ASSUME NEW q PROVE Honest(q, _enrich_ips(q))
<1> DEFINE known == {s \in {"crowdsec", "threatfox"} :
                      ~IsLost(q, s) /\ (s = "threatfox" => q.out[s] > 0)}
<1>1. \A view \in Each(known) : \E s \in view : ~IsLost(q, s)
  BY DEF Each
<1>2. \A verdict : Honest(q, Told(Each(known), {}, verdict))
  BY <1>1, ToldIsHonest
<1> QED BY <1>2 DEF _enrich_ips

(* The rules that come with the program are always there.                  *)
LEMMA RulesAreHonest ==
  ASSUME NEW q, ~IsLost(q, "builtin") PROVE Honest(q, blueteam_semantic_search(q))
<1>1. \A s \in _reranked(q) : IsLost(q, s)
  BY DEF _reranked, LostOf
<1>2. \A verdict : Honest(q, Told({{"rules", "builtin"}}, _reranked(q), verdict))
  BY <1>1, ToldIsHonest
<1> QED BY <1>2 DEF blueteam_semantic_search

LEMMA LikenessIsHonest ==
  ASSUME NEW q, q.tool = "semantic_search_alerts" PROVE Honest(q, _semantic_search_alerts(q))
<1>1. \A s \in {"count", "page", "next"} : <<q.tool, {s}>> \in Silent
  BY DEF Silent
<1>2. \A s \in _reranked(q) : IsLost(q, s)
  BY DEF _reranked, LostOf
<1> DEFINE next == IF q.out["page"] = Most THEN {{"next"}} ELSE {}
<1>3. Honest(q, Told({{"count"}, {"page"}}, {}, "nothing"))
  BY <1>1, ToldIsHonest
<1>4. Honest(q, Told({{"count"}, {"page"}} \cup next, _reranked(q), "ranked"))
  BY <1>1, <1>2, ToldIsHonest
<1> QED BY <1>3, <1>4, ConfiguredIsHonest DEF _semantic_search_alerts

LEMMA HuntAnswersAreHonest ==
  ASSUME NEW q \in HuntQuestions PROVE Honest(q, HuntAnswer(q))
<1>1. CASE q.tool = "blueteam_attack_chain"
  <2>1. Honest(q, blueteam_attack_chain(q))
    BY ReadIsHonest, ConfiguredIsHonest DEF blueteam_attack_chain
  <2> QED BY <1>1, <2>1 DEF HuntAnswer
<1>2. CASE q.tool = "blueteam_beacon_detect"
  BY <1>2, BeaconIsHonest DEF HuntAnswer
<1>3. CASE q.tool = "blueteam_baseline_profile"
  <2>1. Honest(q, blueteam_baseline_profile(q))
    BY ReadIsHonest, ConfiguredIsHonest DEF blueteam_baseline_profile
  <2> QED BY <1>3, <2>1 DEF HuntAnswer
<1>4. CASE q.tool = "blueteam_threat_hunt"
  BY <1>4, HuntIsHonest DEF HuntAnswer
<1>5. CASE q.tool = "blueteam_calendar_heatmap"
  <2>1. Honest(q, blueteam_calendar_heatmap(q))
    BY ReadIsHonest, ConfiguredIsHonest DEF blueteam_calendar_heatmap
  <2> QED BY <1>5, <2>1 DEF HuntAnswer
<1>6. CASE q.tool = "blueteam_baseline_drift"
  BY <1>6, DriftIsHonest DEF HuntAnswer
<1>7. CASE q.tool = "backfill"
  BY <1>7, BackfillIsHonest DEF HuntAnswer
<1>8. CASE q.tool = "blueteam_alert_cluster"
  BY <1>8, ClusterIsHonest DEF HuntAnswer
<1>9. CASE q.tool = "blueteam_alert_cluster_assign"
  BY <1>9, AssignIsHonest DEF HuntAnswer
<1>10. CASE q.tool = "blueteam_cluster_lineage"
  BY <1>10, LineageIsHonest DEF HuntAnswer
<1>11. CASE q.tool = "blueteam_attack_graph"
  BY <1>11, GraphIsHonest DEF HuntAnswer
<1>12. CASE q.tool = "blueteam_pivot_suggest"
  BY <1>12, PivotIsHonest DEF HuntAnswer
<1>13. CASE q.tool = "blueteam_campaign_watch"
  <2>1. Honest(q, blueteam_campaign_watch(q))
    BY PlainIsHonest, ConfiguredIsHonest DEF blueteam_campaign_watch
  <2> QED BY <1>13, <2>1 DEF HuntAnswer
<1>14. CASE q.tool = "blueteam_incident_label"
  BY <1>14, IncidentIsHonest DEF HuntAnswer
<1>15. CASE q.tool = "blueteam_tactic_forecast"
  BY <1>15, TacticIsHonest DEF HuntAnswer
<1>16. CASE q.tool = "blueteam_volume_forecast"
  BY <1>16, VolumeIsHonest DEF HuntAnswer
<1>17. CASE q.tool = "wazuh_alert_aggregate_analysis"
  BY <1>17, AggregatedAlertsAreHonest DEF HuntAnswer
<1>18. CASE q.tool = "blueteam_investigate_ip"
  BY <1>18, AspectsAreHonest DEF HuntAnswer
<1>19. CASE q.tool = "enrich_ips"
  BY <1>19, EntriesAreHonest DEF HuntAnswer
<1>20. CASE q.tool = "blueteam_semantic_search"
  <2>1. ~IsLost(q, "builtin")
    BY <1>20 DEF HuntQuestions, CallsOf, Calling, IsLost, Lost, Most
  <2> QED BY <1>20, <2>1, RulesAreHonest DEF HuntAnswer
<1>21. CASE q.tool = "semantic_search_alerts"
  BY <1>21, LikenessIsHonest DEF HuntAnswer
<1> QED
  BY <1>1, <1>2, <1>3, <1>4, <1>5, <1>6, <1>7, <1>8, <1>9, <1>10, <1>11,
     <1>12, <1>13, <1>14, <1>15, <1>16, <1>17, <1>18, <1>19, <1>20, <1>21
     DEF HuntQuestions, CallsOf, Calling

-----------------------------------------------------------------------------
(* The documents.                                                          *)
LEMMA DraftIsHonest ==
  ASSUME NEW q, q.tool = "blueteam_sigma_rule_generate"
  PROVE  Honest(q, blueteam_sigma_rule_generate(q))
<1>1. <<q.tool, {"caps"}>> \in Silent /\ <<q.tool, {"existing"}>> \in Silent
  BY DEF Silent
<1>2. Verified(q) \cup _existing_rule_matches(q) \subseteq {{"caps"}, {"existing"}}
  BY DEF Verified, _existing_rule_matches
<1>3. \A verdict : Honest(q, Told(Verified(q) \cup _existing_rule_matches(q), {}, verdict))
  BY <1>1, <1>2, ToldIsHonest
<1> QED BY <1>3, RefusalIsHonest DEF blueteam_sigma_rule_generate

LEMMA ConvertedIsHonest ==
  ASSUME NEW q, q.tool = "blueteam_sigma_rule_convert"
  PROVE  Honest(q, blueteam_sigma_rule_convert(q))
<1>1. <<q.tool, {"caps"}>> \in Silent
  BY DEF Silent
<1>2. Verified(q) \subseteq {{"caps"}}
  BY DEF Verified
<1>3. \A verdict : Honest(q, Told(Verified(q), {}, verdict))
  BY <1>1, <1>2, ToldIsHonest
<1>4. \A verdict : [Told({}, {}, verdict) EXCEPT !.views = Verified(q)] = Told(Verified(q), {}, verdict)
  BY DEF Told
<1>5. convert(q) = Refusal \/ \E verdict : convert(q) = Told({}, {}, verdict)
  BY DEF convert
<1>6. Refusal.status = "error"
  BY DEF Refusal
<1> QED BY <1>3, <1>4, <1>5, <1>6, RefusalIsHonest DEF blueteam_sigma_rule_convert

LEMMA WebshellIsHonest == ASSUME NEW q PROVE Honest(q, blueteam_check_webshell(q))
<1> DEFINE hop == IF Redirected(q) THEN "hop" ELSE "page"
           views == IF Enough(q) THEN {{hop}} ELSE {}
<1>1. Enough(q) => ~IsLost(q, hop)
  BY DEF Enough, Fetched
<1> HIDE DEF hop
<1>2. \A verdict : Honest(q, Told(views, {}, verdict))
  BY <1>1, ToldIsHonest
<1> QED BY <1>2 DEF blueteam_check_webshell, hop

LEMMA ChainIsHonest == ASSUME NEW q PROVE Honest(q, blueteam_stix_killchain(q))
<1> DEFINE answer ==
             IF _fetch_techniques_for_srcip(q) = {} THEN Told({{"alerts"}}, {}, "no_mitre_data")
             ELSE IF ~_build_killchain(q) THEN Refusal
             ELSE Told({{"alerts"}}, {}, "killchain")
<1>1. ~IsLost(q, "alerts") => \A verdict : Honest(q, Told({{"alerts"}}, {}, verdict))
  BY ToldIsHonest
<1>2. ~IsLost(q, "alerts") => Honest(q, answer)
  BY <1>1, RefusalIsHonest
<1> HIDE DEF answer
<1>3. Honest(q, FromQuery(q, "alerts", answer))
  BY <1>2, FromQueryIsHonest
<1> QED BY <1>3 DEF blueteam_stix_killchain, answer

(* Pages that were read, and what it takes to call them all.               *)
LEMMA PagesAreHonest ==
  ASSUME NEW q, NEW read, NEW verdict, NEW claim,
         claim = "complete" => LostOf(q, read) = {}
  PROVE  Honest(q, Claiming(Told(Each(read), LostOf(q, read), verdict), claim))
<1>1. claim = "complete" => \A view \in Each(read) : \E s \in view : ~IsLost(q, s)
  BY DEF Each, LostOf
<1> QED BY <1>1, AllItemsAreHonest, ClaimIsHonest

LEMMA PdfIsHonest == ASSUME NEW q PROVE Honest(q, blueteam_pdf_extract(q))
<1>1. Honest(q, _extract_sync(q))
  BY PagesAreHonest, RefusalIsHonest DEF _extract_sync
<1> QED BY <1>1, RefusalIsHonest DEF blueteam_pdf_extract

(* What is stored is as honest as what was read.                           *)
LEMMA StoredIsHonest ==
  ASSUME NEW q, NEW views, NEW names, NEW verdict, NEW claim,
         ~IsLost(q, "embedder") => Honest(q, Claiming(Told(views, names, verdict), claim))
  PROVE  Honest(q, Stored(q, Claiming(Told(views, names, verdict), claim)))
<1> DEFINE answer == Claiming(Told(views, names, verdict), claim)
           stored == [answer EXCEPT !.verdict = IF Has(q, "full") THEN "capped" ELSE "ingested",
                                    !.claim = IF Has(q, "full") THEN "partial" ELSE answer.claim]
<1>1. /\ stored.status = answer.status
      /\ stored.views = answer.views
      /\ stored.names = answer.names
      /\ stored.claim = "complete" => answer.claim = "complete"
  BY DEF Claiming, Told
<1>2. Honest(q, answer) => Honest(q, stored)
  <2> HIDE DEF answer, stored
  <2> QED BY <1>1 DEF Honest, Backed, Sighted, Truthful
<1> QED BY <1>2, RefusalIsHonest DEF Stored

LEMMA IngestIsHonest == ASSUME NEW q PROVE Honest(q, blueteam_rag_ingest(q))
<1>1. Honest(q, _ingest_pdf(q))
  BY PagesAreHonest, StoredIsHonest, RefusalIsHonest DEF _ingest_pdf
<1>2. ~IsLost(q, "embedder") =>
        Honest(q, Claiming(Told({{"embedder"}}, {}, "none"), "complete"))
  BY ToldIsHonest, ClaimIsHonest
<1> QED BY <1>1, <1>2, StoredIsHonest, RefusalIsHonest DEF blueteam_rag_ingest

LEMMA PassagesAreHonest == ASSUME NEW q PROVE Honest(q, blueteam_rag_query(q))
<1>1. \A s \in rerank_hits(q) : IsLost(q, s)
  BY DEF rerank_hits, LostOf
<1>2. ~IsLost(q, "embedder") => Honest(q, Told({{"embedder"}}, rerank_hits(q), "passages"))
  BY <1>1, ToldIsHonest
<1> QED BY <1>2, FromQueryIsHonest, PlainIsHonest DEF blueteam_rag_query

LEMMA ExtractedIsHonest ==
  ASSUME NEW q, ~IsLost(q, "text") PROVE Honest(q, blueteam_extract_iocs(q))
BY ToldIsHonest DEF blueteam_extract_iocs

LEMMA DocumentAnswersAreHonest ==
  ASSUME NEW q \in DocumentQuestions PROVE Honest(q, DocumentAnswer(q))
<1>1. CASE q.tool = "blueteam_sigma_rule_validate"
  <2>1. Honest(q, blueteam_sigma_rule_validate(q))
    BY PlainIsHonest, RefusalIsHonest DEF blueteam_sigma_rule_validate
  <2> QED BY <1>1, <2>1 DEF DocumentAnswer
<1>2. CASE q.tool = "blueteam_sigma_rule_generate"
  BY <1>2, DraftIsHonest DEF DocumentAnswer
<1>3. CASE q.tool = "blueteam_sigma_rule_save"
  <2>1. Honest(q, blueteam_sigma_rule_save(q))
    BY PlainIsHonest, RefusalIsHonest DEF blueteam_sigma_rule_save
  <2> QED BY <1>3, <2>1 DEF DocumentAnswer
<1>4. CASE q.tool = "blueteam_sigma_rule_convert"
  BY <1>4, ConvertedIsHonest DEF DocumentAnswer
<1>5. CASE q.tool = "blueteam_yara_rule_validate"
  <2>1. Honest(q, blueteam_yara_rule_validate(q))
    BY PlainIsHonest, RefusalIsHonest DEF blueteam_yara_rule_validate
  <2> QED BY <1>5, <2>1 DEF DocumentAnswer
<1>6. CASE q.tool = "blueteam_yara_rule_generate"
  <2>1. Honest(q, blueteam_yara_rule_generate(q))
    BY PlainIsHonest, RefusalIsHonest DEF blueteam_yara_rule_generate
  <2> QED BY <1>6, <2>1 DEF DocumentAnswer
<1>7. CASE q.tool = "blueteam_yara_rule_save"
  <2>1. Honest(q, blueteam_yara_rule_save(q))
    BY PlainIsHonest, RefusalIsHonest DEF blueteam_yara_rule_save
  <2> QED BY <1>7, <2>1 DEF DocumentAnswer
<1>8. CASE q.tool = "blueteam_check_webshell"
  BY <1>8, WebshellIsHonest DEF DocumentAnswer
<1>9. CASE q.tool = "blueteam_stix_export"
  <2>1. Honest(q, blueteam_stix_export(q))
    BY PlainIsHonest, RefusalIsHonest DEF blueteam_stix_export
  <2> QED BY <1>9, <2>1 DEF DocumentAnswer
<1>10. CASE q.tool = "blueteam_stix_analyze"
  <2>1. Honest(q, blueteam_stix_analyze(q))
    BY PlainIsHonest, RefusalIsHonest DEF blueteam_stix_analyze
  <2> QED BY <1>10, <2>1 DEF DocumentAnswer
<1>11. CASE q.tool = "blueteam_stix_killchain"
  BY <1>11, ChainIsHonest DEF DocumentAnswer
<1>12. CASE q.tool = "blueteam_cve_attack_mapping"
  <2>1. Honest(q, blueteam_cve_attack_mapping(q))
    BY PlainIsHonest, RefusalIsHonest DEF blueteam_cve_attack_mapping
  <2> QED BY <1>12, <2>1 DEF DocumentAnswer
<1>13. CASE q.tool = "blueteam_export_report"
  <2>1. Honest(q, blueteam_export_report(q))
    BY PlainIsHonest, RefusalIsHonest DEF blueteam_export_report
  <2> QED BY <1>13, <2>1 DEF DocumentAnswer
<1>14. CASE q.tool = "blueteam_pdf_extract"
  BY <1>14, PdfIsHonest DEF DocumentAnswer
<1>15. CASE q.tool = "blueteam_markitdown_convert"
  <2>1. Honest(q, blueteam_markitdown_convert(q))
    BY PlainIsHonest, RefusalIsHonest DEF blueteam_markitdown_convert, _convert_sync
  <2> QED BY <1>15, <2>1 DEF DocumentAnswer
<1>16. CASE q.tool = "blueteam_document_convert"
  <2>1. Honest(q, blueteam_document_convert(q))
    BY PlainIsHonest, RefusalIsHonest DEF blueteam_document_convert
  <2> QED BY <1>16, <2>1 DEF DocumentAnswer
<1>17. CASE q.tool = "blueteam_extract_iocs"
  <2>1. ~IsLost(q, "text")
    BY <1>17 DEF DocumentQuestions, CallsOf, Calling, IsLost, Lost, Most
  <2> QED BY <1>17, <2>1, ExtractedIsHonest DEF DocumentAnswer
<1>18. CASE q.tool = "blueteam_rag_ingest"
  BY <1>18, IngestIsHonest DEF DocumentAnswer
<1>19. CASE q.tool = "blueteam_rag_query"
  BY <1>19, PassagesAreHonest DEF DocumentAnswer
<1> QED
  BY <1>1, <1>2, <1>3, <1>4, <1>5, <1>6, <1>7, <1>8, <1>9, <1>10, <1>11,
     <1>12, <1>13, <1>14, <1>15, <1>16, <1>17, <1>18, <1>19
     DEF DocumentQuestions, CallsOf, Calling

-----------------------------------------------------------------------------
(* No answer of a tool shows what no source stands behind, blames a source *)
(* that answered, or calls complete what it could not read, except for     *)
(* the places named in Silent.                                             *)
THEOREM NoAnswerIsBlind == ToolsSpec => []NoBlindAnswer
<1>1. NoBlindAnswer <=> Honest(exchange.q, exchange.answer)
  BY DEF NoBlindAnswer, Honest, Backed
<1>2. ToolsInit => Honest(exchange.q, exchange.answer)
  BY RefusalIsHonest DEF ToolsInit, NoQuestion
<1>3. ASSUME NEW q, NEW answer, Honest(q, answer), Asked(q, answer)
      PROVE  Honest(exchange'.q, exchange'.answer)
  BY <1>3 DEF Asked
<1>4. Honest(exchange.q, exchange.answer) /\ [ToolsNext]_exchange
        => Honest(exchange.q, exchange.answer)'
  <2> SUFFICES ASSUME Honest(exchange.q, exchange.answer), [ToolsNext]_exchange
               PROVE  Honest(exchange'.q, exchange'.answer)
    BY DEF Honest, Backed, Sighted, Truthful
  <2>1. CASE ReadAlerts
    BY <1>3, <2>1, AlertAnswersAreHonest DEF ReadAlerts
  <2>2. CASE LookUpIndicator
    BY <1>3, <2>2, LookupAnswersAreHonest DEF LookUpIndicator
  <2>3. CASE HuntThreats
    BY <1>3, <2>3, HuntAnswersAreHonest DEF HuntThreats
  <2>4. CASE HandleDocument
    BY <1>3, <2>4, DocumentAnswersAreHonest DEF HandleDocument
  <2>5. CASE UNCHANGED exchange
    BY <2>5
  <2> QED BY <2>1, <2>2, <2>3, <2>4, <2>5 DEF ToolsNext
<1> QED BY <1>1, <1>2, <1>4, PTL DEF ToolsSpec
-----------------------------------------------------------------------------
(* ToolAnswers: more evidence.                                             *)
LEMMA ScalesAre ==
  /\ Scales["blueteam_threat_intel_aggregate"] = <<"unknown", "none", "low", "medium", "high">>
  /\ Scales["blueteam_cve_poc"] = <<"NONE", "LOW_QUALITY", "HIGH_QUALITY", "EXPLOIT">>
  /\ Scales["blueteam_cve_score"] = <<"LOW", "MEDIUM", "HIGH", "CRITICAL">>
  /\ Scales["blueteam_cve_ssvc"] = <<"not_found", "Track", "Track*", "Attend", "Act">>
  /\ Scales["assess_candidate"] =
       <<"no_supported_match", "contextual_candidate", "vulnerability_exposure",
         "attack_specific_match", "confirmed_cve_reference">>
  /\ Scales["blueteam_check_webshell"] =
       <<"UNKNOWN", "CLEAN", "LOW_RISK", "LOGIN_PAGE", "SUSPICIOUS", "CONFIRMED">>
<1>1. <<"not_found">> \o Actions = <<"not_found", "Track", "Track*", "Attend", "Act">>
  <2> DEFINE names == <<"Track", "Track*", "Attend", "Act">>
             scale == <<"not_found", "Track", "Track*", "Attend", "Act">>
             words == {"not_found", "Track", "Track*", "Attend", "Act"}
  <2>0. <<"not_found">> \in Seq(words)
    OBVIOUS
  <2>1. names \in Seq(words)
    OBVIOUS
  <2>3. scale \in Seq(words)
    OBVIOUS
  <2>2. /\ <<"not_found">> \o names \in Seq(words)
        /\ Len(<<"not_found">> \o names) = Len(scale)
        /\ \A i \in 1 .. Len(scale) : (<<"not_found">> \o names)[i] = scale[i]
    BY <2>0, <2>1, ConcatProperties
  <2> QED BY <2>2, <2>3, SeqEqual DEF Actions
<1> QED BY <1>1 DEF Scales, RiskNames, PocNames, Labels, Relationships

(* No scale names a verdict twice, so that a verdict has the rank of its   *)
(* place.                                                                  *)
Raised(q, verdict, raised) ==
  \E i, j \in DOMAIN Scales[q.tool] :
    i <= j /\ verdict = Scales[q.tool][i] /\ raised = Scales[q.tool][j]

LEMMA RankOnScale ==
  ASSUME NEW q, q.tool \in DOMAIN Scales, NEW i \in DOMAIN Scales[q.tool]
  PROVE  Rank(q, Scales[q.tool][i]) = i
<1> DEFINE scale == Scales[q.tool]
<1>1. \A n \in DOMAIN scale : scale[n] = scale[i] => n = i
  <2>1. CASE q.tool = "blueteam_threat_intel_aggregate"
    BY <2>1, ScalesAre
  <2>2. CASE q.tool = "blueteam_cve_poc"
    BY <2>2, ScalesAre
  <2>3. CASE q.tool = "blueteam_cve_score"
    BY <2>3, ScalesAre
  <2>4. CASE q.tool = "blueteam_cve_ssvc"
    BY <2>4, ScalesAre
  <2>5. CASE q.tool = "assess_candidate"
    BY <2>5, ScalesAre
  <2>6. CASE q.tool = "blueteam_check_webshell"
    BY <2>6, ScalesAre
  <2> QED BY <2>1, <2>2, <2>3, <2>4, <2>5, <2>6 DEF Scales
<1> QED BY <1>1 DEF Rank

LEMMA RaisedRanks ==
  ASSUME NEW q, NEW m, m.tool = q.tool, q.tool \in DOMAIN Scales, NEW verdict, NEW raised,
         Raised(q, verdict, raised)
  PROVE  Rank(m, raised) >= Rank(m, verdict)
<1>1. PICK i \in DOMAIN Scales[q.tool], j \in DOMAIN Scales[q.tool] :
        i <= j /\ verdict = Scales[m.tool][i] /\ raised = Scales[m.tool][j]
  BY DEF Raised
<1> QED BY <1>1, RankOnScale

(* The same question with a further hit of a source that answered.         *)
Further(q, m, sources) ==
  /\ m.tool = q.tool /\ m.opts = q.opts
  /\ \A s \in sources : /\ IsLost(m, s) <=> IsLost(q, s)
                        /\ HitsOf(q, s) \in 0..Most /\ HitsOf(m, s) \in 0..Most
                        /\ HitsOf(m, s) >= HitsOf(q, s)

LEMMA MoreIsFurther ==
  ASSUME NEW tool, tool # "assess_candidate", tool # "blueteam_check_webshell",
         NEW sources, NEW choices,
         NEW q \in Calling(tool, sources, Outcomes \cup {Fair}, choices), NEW m \in More(q)
  PROVE  Further(q, m, sources)
<1>1. q.tool = tool /\ q.out \in [sources -> Outcomes \cup {Fair}]
  BY DEF Calling
<1>2. PICK s \in sources, n \in {1, Fair, Most} :
        ~IsLost(q, s) /\ n > q.out[s] /\ m = [q EXCEPT !.out[s] = n]
  BY <1>1 DEF More
<1>3. m.tool = q.tool /\ m.opts = q.opts /\ m.out = [q.out EXCEPT ![s] = n]
  BY <1>2 DEF Calling
<1>4. ASSUME NEW t \in sources
      PROVE  /\ IsLost(m, t) <=> IsLost(q, t)
             /\ HitsOf(q, t) \in 0..Most /\ HitsOf(m, t) \in 0..Most
             /\ HitsOf(m, t) >= HitsOf(q, t)
  <2>1. q.out[t] \in Outcomes \cup {Fair}
    BY <1>1
  <2>2. CASE t = s
    <3>1. m.out[t] = n
      BY <1>1, <1>3, <2>2
    <3> QED BY <1>2, <2>1, <2>2, <3>1 DEF IsLost, HitsOf, Outcomes, Lost, Fair, Most
  <2>3. CASE t # s
    <3>1. m.out[t] = q.out[t]
      BY <1>1, <1>3, <2>3
    <3> QED BY <2>1, <3>1 DEF IsLost, HitsOf, Outcomes, Lost, Fair, Most
  <2> QED BY <2>2, <2>3
<1> QED BY <1>3, <1>4 DEF Further

(* The proofs of concept.                                                  *)
LEMMA PocGrows ==
  ASSUME NEW q, NEW m, Further(q, m, PocSources)
  PROVE  search_poc(q) \in 1..4 /\ search_poc(m) \in 1..4 /\ search_poc(m) >= search_poc(q)
<1>1. {"github", "githubExploit", "nuclei"} = PocSources
  BY DEF PocSources
<1>2. /\ Repository(q) \in 0..Most /\ Repository(m) \in 0..Most
      /\ Repository(m) >= Repository(q)
  BY <1>1 DEF Further, Repository, Most
<1>3. HitsOf(m, "nuclei") >= HitsOf(q, "nuclei")
  BY <1>1 DEF Further
<1>4. HitsOf(m, "nuclei") \in Int /\ HitsOf(q, "nuclei") \in Int
  BY <1>1 DEF Further, Most
<1> QED BY <1>2, <1>3, <1>4 DEF search_poc, Fair, Most

(* The score.                                                              *)
LEMMA KevGrows ==
  ASSUME NEW q, NEW m, Further(q, m, {"kev", "kevMirror"}), _lookup_kev(q)
  PROVE  _lookup_kev(m)
BY DEF Further, _lookup_kev, _fetch_kev_catalog, Most

LEMMA TimesGrows ==
  ASSUME NEW a \in Nat, NEW b \in Nat, a <= b, NEW percent \in {105, 110, 115}
  PROVE  /\ (a * percent) \div 100 \in Nat /\ (b * percent) \div 100 \in Nat
         /\ a <= (a * percent) \div 100 /\ b <= (b * percent) \div 100
         /\ (a * percent) \div 100 <= (b * percent) \div 100
<1>1. CASE percent = 105
  BY <1>1
<1>2. CASE percent = 110
  BY <1>2
<1>3. CASE percent = 115
  BY <1>3
<1> QED BY <1>1, <1>2, <1>3

LEMMA ScalesOfNvdGrow ==
  ASSUME NEW q, NEW m, Further(q, m, CveSources),
         ~IsLost(q, "nvd"), ~IsLost(q, "epss")
  PROVE  /\ Cvss(q) \in Nat /\ Cvss(m) \in Nat /\ Cvss(q) <= Cvss(m)
         /\ Epss(q) \in Nat /\ Epss(m) \in Nat /\ Epss(q) <= Epss(m)
<1>1. q.out["nvd"] = HitsOf(q, "nvd") /\ m.out["nvd"] = HitsOf(m, "nvd")
  BY DEF Further, HitsOf, CveSources
<1>2. q.out["epss"] = HitsOf(q, "epss") /\ m.out["epss"] = HitsOf(m, "epss")
  BY DEF Further, HitsOf, CveSources
<1>3. /\ HitsOf(q, "nvd") \in 0..Most /\ HitsOf(m, "nvd") \in 0..Most
      /\ HitsOf(q, "nvd") <= HitsOf(m, "nvd")
      /\ HitsOf(q, "epss") \in 0..Most /\ HitsOf(m, "epss") \in 0..Most
      /\ HitsOf(q, "epss") <= HitsOf(m, "epss")
  BY DEF Further, CveSources, Most
<1>5. Cvss(q) \in Nat /\ Cvss(m) \in Nat /\ Cvss(q) <= Cvss(m)
  BY <1>1, <1>3 DEF Cvss, Band, Most
<1>6. Epss(q) \in Nat /\ Epss(m) \in Nat /\ Epss(q) <= Epss(m)
  BY <1>2, <1>3 DEF Epss, Band, Most
<1> QED BY <1>5, <1>6

LEMMA ScoreGrows ==
  ASSUME NEW q, NEW m, Further(q, m, CveSources),
         ~IsLost(q, "nvd"), ~IsLost(q, "epss")
  PROVE  /\ score_cve(q).label \in 1..4 /\ score_cve(m).label \in 1..4
         /\ score_cve(m).label >= score_cve(q).label
<1>1. Further(q, m, PocSources) /\ Further(q, m, {"kev", "kevMirror"})
  BY DEF Further, CveSources
<1>2. _lookup_kev(q) => _lookup_kev(m)
  BY <1>1, KevGrows
<1>3. search_poc(q) \in 1..4 /\ search_poc(m) \in 1..4 /\ search_poc(m) >= search_poc(q)
  BY <1>1, PocGrows
<1>4. /\ Cvss(q) \in Nat /\ Cvss(m) \in Nat /\ Cvss(q) <= Cvss(m)
      /\ Epss(q) \in Nat /\ Epss(m) \in Nat /\ Epss(q) <= Epss(m)
  BY ScalesOfNvdGrow
<1> DEFINE base(x) == Cvss(x) * 20 + Epss(x) * 35 + (IF _lookup_kev(x) THEN 3000 ELSE 0)
                      + 100 * <<0, 3, 7, 10>>[search_poc(x)]
           once(x) == Times(base(x), _lookup_kev(x) /\ HasPoc(x), 115)
           twice(x) == Times(once(x), Cvss(x) >= 90 /\ Epss(x) > 70, 110)
           risk(x) == Times(twice(x), Has(x, "recent"), 105)
<1>5. base(q) \in Nat /\ base(m) \in Nat /\ base(q) <= base(m)
  <2>1. /\ <<0, 3, 7, 10>>[search_poc(q)] \in Nat /\ <<0, 3, 7, 10>>[search_poc(m)] \in Nat
        /\ <<0, 3, 7, 10>>[search_poc(q)] <= <<0, 3, 7, 10>>[search_poc(m)]
    BY <1>3
  <2> QED BY <1>2, <1>4, <2>1
<1> HIDE DEF base
<1>6. once(q) \in Nat /\ once(m) \in Nat /\ once(q) <= once(m)
  <2>1. _lookup_kev(q) /\ HasPoc(q) => _lookup_kev(m) /\ HasPoc(m)
    BY <1>2, <1>3 DEF HasPoc
  <2> QED BY <1>5, <2>1, TimesGrows DEF Times
<1> HIDE DEF once
<1>7. twice(q) \in Nat /\ twice(m) \in Nat /\ twice(q) <= twice(m)
  <2>1. Cvss(q) >= 90 /\ Epss(q) > 70 => Cvss(m) >= 90 /\ Epss(m) > 70
    BY <1>4
  <2> QED BY <1>6, <2>1, TimesGrows DEF Times
<1> HIDE DEF twice
<1>8. risk(q) \in Nat /\ risk(m) \in Nat /\ risk(q) <= risk(m)
  <2>1. Has(q, "recent") => Has(m, "recent")
    BY DEF Further, Has
  <2> QED BY <1>7, <2>1, TimesGrows DEF Times
<1> HIDE DEF risk
<1>9. ASSUME NEW x
      PROVE  score_cve(x).label =
               IF _lookup_kev(x) THEN 4 ELSE IF risk(x) <= 2500 THEN 1
               ELSE IF risk(x) <= 5000 THEN 2 ELSE IF risk(x) <= 7500 THEN 3 ELSE 4
  BY DEF score_cve, risk, twice, once, base
<1> QED BY <1>2, <1>8, <1>9

(* The decision of SSVC: a table that grows along each of its scales.      *)
LEMMA DecisionGrows ==
  ASSUME NEW q, NEW m, Further(q, m, CveSources),
         ~IsLost(q, "nvd"), ~IsLost(q, "epss")
  PROVE  /\ ssvc_decision(q) \in 1..4 /\ ssvc_decision(m) \in 1..4
         /\ ssvc_decision(m) >= ssvc_decision(q)
<1> DEFINE exploited(x) == _classify_exploitation(x)
           automatable(x) == _classify_automatable(x)
           Table(e, a, t, n) == DecisionTable[e][a][t][n]
<1>1. Further(q, m, PocSources) /\ Further(q, m, {"kev", "kevMirror"})
  BY DEF Further, CveSources
<1>2. _lookup_kev(q) => _lookup_kev(m)
  BY <1>1, KevGrows
<1>3. HasPoc(q) => HasPoc(m)
  BY <1>1, PocGrows DEF HasPoc
<1>4. /\ Cvss(q) \in Nat /\ Cvss(m) \in Nat /\ Cvss(q) <= Cvss(m)
      /\ Epss(q) \in Nat /\ Epss(m) \in Nat /\ Epss(q) <= Epss(m)
  BY ScalesOfNvdGrow
<1>5. /\ exploited(q) \in {"none", "poc", "active"} /\ exploited(m) \in {"none", "poc", "active"}
      /\ exploited(q) = "active" => exploited(m) = "active"
      /\ exploited(q) = "poc" => exploited(m) # "none"
  BY <1>2, <1>3, <1>4 DEF _classify_exploitation
<1>6. /\ automatable(q) \in {"no", "yes"} /\ automatable(m) \in {"no", "yes"}
      /\ automatable(q) = "yes" => automatable(m) = "yes"
  BY <1>4, <1>5 DEF _classify_automatable, Further, Has
<1>7. ASSUME NEW x, Cvss(x) \in Nat
      PROVE  ssvc_decision(x) =
               IF Cvss(x) >= 90 THEN Table(exploited(x), automatable(x), "total", 3)
               ELSE IF Cvss(x) >= 70 THEN Table(exploited(x), automatable(x), "partial", 2)
               ELSE Table(exploited(x), automatable(x), "partial", 1)
  BY <1>7 DEF ssvc_decision
<1> HIDE DEF exploited, automatable
<1>8. /\ Table("none", "no", "partial", 1) = 1 /\ Table("none", "no", "partial", 2) = 1
      /\ Table("none", "no", "total", 3) = 2
      /\ Table("none", "yes", "partial", 1) = 1 /\ Table("none", "yes", "partial", 2) = 1
      /\ Table("none", "yes", "total", 3) = 3
  BY DEF DecisionTable
<1>9. /\ Table("poc", "no", "partial", 1) = 1 /\ Table("poc", "no", "partial", 2) = 1
      /\ Table("poc", "no", "total", 3) = 3
      /\ Table("poc", "yes", "partial", 1) = 1 /\ Table("poc", "yes", "partial", 2) = 1
      /\ Table("poc", "yes", "total", 3) = 3
  BY DEF DecisionTable
<1>10. /\ Table("active", "no", "partial", 1) = 1 /\ Table("active", "no", "partial", 2) = 1
       /\ Table("active", "no", "total", 3) = 4
       /\ Table("active", "yes", "partial", 1) = 3 /\ Table("active", "yes", "partial", 2) = 3
       /\ Table("active", "yes", "total", 3) = 4
  BY DEF DecisionTable
<1> HIDE DEF Table
<1> QED BY <1>4, <1>5, <1>6, <1>7, <1>8, <1>9, <1>10

(* The aggregate: a provider that answered sees no less risk.              *)
ProvidersOf(q) ==
  <<_crowdsec_provider(q), _threatfox_provider(q), _otx_provider(q),
    _greynoise_provider(q), _abuseipdb_provider(q), _virustotal_provider(q)>>
NoMilder(p, raised) ==
  /\ p.risk \in 0..4 /\ raised.risk \in 0..4
  /\ p.risk <= raised.risk /\ (p.ok <=> raised.ok)

LEMMA RiskGrows ==
  ASSUME NEW q, NEW m, Further(q, m, AggregateSources)
  PROVE  \A i \in 1..6 : NoMilder(ProvidersOf(q)[i], ProvidersOf(m)[i])
<1>1. /\ Type(m) = Type(q) /\ Keyed(m) = Keyed(q) /\ Has(m, "benign") = Has(q, "benign")
      /\ \A s \in AggregateSources : IsLost(m, s) = IsLost(q, s)
  <2>1. Type(m) = Type(q) /\ Keyed(m) = Keyed(q) /\ Has(m, "benign") = Has(q, "benign")
    BY DEF Further, Type, Keyed, Has
  <2>2. \A s \in AggregateSources : IsLost(m, s) = IsLost(q, s)
    BY DEF Further, IsLost
  <2> QED BY <2>1, <2>2
<1>2. ASSUME NEW s \in AggregateSources, NEW none \in {Unrated, Clean},
             NEW some \in {Clean, Low, Medium}
      PROVE  /\ Band(HitsOf(q, s), none, some, High) \in 0..4
             /\ Band(HitsOf(m, s), none, some, High) \in 0..4
             /\ Band(HitsOf(q, s), none, some, High) <= Band(HitsOf(m, s), none, some, High)
  BY DEF Further, Band, Most, Unrated, Clean, Low, Medium, High
<1>3. ASSUME NEW s \in AggregateSources, NEW asked, NEW low \in 0..4, NEW high \in 0..4, low <= high
      PROVE  NoMilder(Provider(q, s, asked, low), Provider(m, s, asked, high))
  BY <1>1, <1>3 DEF NoMilder, Provider
<1>4. /\ NoMilder(_crowdsec_provider(q), _crowdsec_provider(m))
      /\ NoMilder(_threatfox_provider(q), _threatfox_provider(m))
      /\ NoMilder(_abuseipdb_provider(q), _abuseipdb_provider(m))
      /\ NoMilder(_virustotal_provider(q), _virustotal_provider(m))
  BY <1>1, <1>2, <1>3 DEF _crowdsec_provider, _threatfox_provider,
     _abuseipdb_provider, _virustotal_provider, AggregateSources
<1>5. NoMilder(_otx_provider(q), _otx_provider(m))
  <2> DEFINE Seen(x) == IF Type(x) = "file" /\ HitsOf(x, "otxMalware") > 0 THEN High
                        ELSE Band(HitsOf(x, "otx"), Clean, Medium, High)
  <2>1. HitsOf(q, "otxMalware") > 0 => HitsOf(m, "otxMalware") > 0
    BY DEF Further, AggregateSources, Most
  <2>2. /\ Band(HitsOf(q, "otx"), Clean, Medium, High) \in 0..4
        /\ Band(HitsOf(m, "otx"), Clean, Medium, High) \in 0..4
        /\ Band(HitsOf(q, "otx"), Clean, Medium, High) <= Band(HitsOf(m, "otx"), Clean, Medium, High)
    BY <1>2 DEF AggregateSources
  <2>3. Seen(q) \in 0..4 /\ Seen(m) \in 0..4 /\ Seen(q) <= Seen(m)
    BY <1>1, <2>1, <2>2 DEF High
  <2>4. /\ _otx_provider(q) = Provider(q, "otx", Keyed(q), Seen(q))
        /\ _otx_provider(m) = Provider(m, "otx", Keyed(q), Seen(m))
    BY <1>1 DEF _otx_provider
  <2> HIDE DEF Seen
  <2> QED BY <1>3, <2>3, <2>4 DEF AggregateSources
<1>6. NoMilder(_greynoise_provider(q), _greynoise_provider(m))
  <2> DEFINE known == IF Has(q, "benign") THEN Clean ELSE Low
             Seen(x) == Band(HitsOf(x, "greynoise"), Unrated, known, High)
  <2>1. known \in {Clean, Low, Medium}
    OBVIOUS
  <2> HIDE DEF known
  <2>2. Seen(q) \in 0..4 /\ Seen(m) \in 0..4 /\ Seen(q) <= Seen(m)
    BY <1>2, <2>1 DEF AggregateSources
  <2>3. /\ _greynoise_provider(q) = Provider(q, "greynoise", Type(q) = "IPv4", Seen(q))
        /\ _greynoise_provider(m) = Provider(m, "greynoise", Type(q) = "IPv4", Seen(m))
    BY <1>1 DEF _greynoise_provider, known
  <2> HIDE DEF Seen
  <2> QED BY <1>3, <2>2, <2>3 DEF AggregateSources
<1> QED BY <1>4, <1>5, <1>6 DEF ProvidersOf

(* Of those that answered, one precedes all the others.                    *)
OkOf(q) == {i \in 1..6 : ProvidersOf(q)[i].ok}
HighestOf(q) == CHOOSE i \in OkOf(q) : \A j \in OkOf(q) : Precedes(ProvidersOf(q), i, j)
AggregateLevel(q) == IF OkOf(q) = {} THEN 1 ELSE ProvidersOf(q)[HighestOf(q)].risk + 1

LEMMA OneIsHighest ==
  ASSUME NEW q, OkOf(q) # {}, \A i \in 1..6 : ProvidersOf(q)[i].risk \in 0..4
  PROVE  /\ HighestOf(q) \in OkOf(q)
         /\ \A j \in OkOf(q) : Precedes(ProvidersOf(q), HighestOf(q), j)
<1> DEFINE Order(i) == RiskOrder(ProvidersOf(q)[i].risk)
           Leads(i, j) == Order(i) > Order(j) \/ (Order(i) = Order(j) /\ i <= j)
           ok == OkOf(q)
           Best(k) == (\E i \in ok : i <= k) =>
                        \E i \in ok : i <= k /\ \A j \in ok : j <= k => Leads(i, j)
<1>1. \A i \in 1..6 : Order(i) \in Int
  BY DEF RiskOrder, Unrated
<1>2. ok \subseteq 1..6
  BY DEF OkOf
<1>3. \A i, j : Precedes(ProvidersOf(q), i, j) <=> Leads(i, j)
  BY DEF Precedes
<1> HIDE DEF Order, ok
<1>4. Best(0)
  BY <1>2
<1>5. ASSUME NEW k \in 0..5, Best(k) PROVE Best(k + 1)
  <2>1. \A i \in ok : i \in Int /\ Order(i) \in Int
    BY <1>1, <1>2
  <2>2. \A i \in ok : i <= k + 1 <=> i <= k \/ i = k + 1
    BY <2>1
  <2>3. CASE k + 1 \notin ok
    BY <1>5, <2>2, <2>3
  <2>4. CASE k + 1 \in ok /\ ~\E i \in ok : i <= k
    BY <2>1, <2>2, <2>4
  <2>5. CASE k + 1 \in ok /\ \E i \in ok : i <= k
    <3>1. PICK i \in ok : i <= k /\ \A j \in ok : j <= k => Leads(i, j)
      BY <1>5, <2>5
    <3>2. CASE Order(k + 1) > Order(i)
      <4>1. \A j \in ok : j <= k => Leads(k + 1, j)
        BY <2>1, <2>5, <3>1, <3>2
      <4>2. Leads(k + 1, k + 1)
        OBVIOUS
      <4> QED BY <2>2, <2>5, <4>1, <4>2
    <3>3. CASE ~(Order(k + 1) > Order(i))
      <4>1. Leads(i, k + 1)
        BY <2>1, <2>5, <3>1, <3>3
      <4> HIDE DEF Leads
      <4> QED BY <2>2, <3>1, <4>1
    <3> QED BY <3>2, <3>3
  <2> QED BY <2>3, <2>4, <2>5
<1> HIDE DEF Best
<1>6. Best(6)
  <2>1. Best(0 + 1)
    BY <1>4, <1>5
  <2>2. Best(1 + 1)
    BY <1>5, <2>1
  <2>3. Best(2 + 1)
    BY <1>5, <2>2
  <2>4. Best(3 + 1)
    BY <1>5, <2>3
  <2>5. Best(4 + 1)
    BY <1>5, <2>4
  <2>6. Best(5 + 1)
    BY <1>5, <2>5
  <2> QED BY <2>6
<1>7. \E i \in ok : \A j \in ok : Leads(i, j)
  <2>1. \A i \in ok : i <= 6
    BY <1>2
  <2>2. ok # {}
    BY DEF ok
  <2> QED BY <1>6, <2>1, <2>2 DEF Best
<1> HIDE DEF Leads
<1>8. \E i \in OkOf(q) : \A j \in OkOf(q) : Precedes(ProvidersOf(q), i, j)
  BY <1>3, <1>7 DEF ok
<1> QED BY <1>8 DEF HighestOf

LEMMA AggregateGrows ==
  ASSUME NEW q, NEW m, Further(q, m, AggregateSources), q.tool = "blueteam_threat_intel_aggregate"
  PROVE  Raised(q, blueteam_threat_intel_aggregate(q).verdict,
                   blueteam_threat_intel_aggregate(m).verdict)
<1> DEFINE Graded(x, i) == ProvidersOf(x)[i].risk
<1>1. \A i \in 1..6 : Graded(q, i) \in 0..4 /\ Graded(m, i) \in 0..4 /\ Graded(q, i) <= Graded(m, i)
  BY RiskGrows DEF NoMilder
<1>2. OkOf(m) = OkOf(q) /\ OkOf(q) \subseteq 1..6
  BY RiskGrows DEF OkOf, NoMilder
<1>3. ASSUME OkOf(q) # {} PROVE AggregateLevel(q) <= AggregateLevel(m)
  <2> DEFINE i == HighestOf(q)
             j == HighestOf(m)
  <2>1. /\ i \in OkOf(q) /\ j \in OkOf(q)
        /\ Precedes(ProvidersOf(q), i, j) /\ Precedes(ProvidersOf(m), j, i)
    BY <1>1, <1>2, <1>3, OneIsHighest
  <2> HIDE DEF i, j
  <2>2. i \in 1..6 /\ j \in 1..6
    BY <1>2, <2>1
  <2>3. /\ Graded(q, i) \in 0..4 /\ Graded(q, j) \in 0..4 /\ Graded(m, i) \in 0..4 /\ Graded(m, j) \in 0..4
        /\ Graded(q, i) <= Graded(m, i) /\ Graded(q, j) <= Graded(m, j)
    BY <1>1, <2>2
  <2>4. /\ \/ RiskOrder(Graded(q, i)) > RiskOrder(Graded(q, j))
           \/ RiskOrder(Graded(q, i)) = RiskOrder(Graded(q, j)) /\ i <= j
        /\ \/ RiskOrder(Graded(m, j)) > RiskOrder(Graded(m, i))
           \/ RiskOrder(Graded(m, j)) = RiskOrder(Graded(m, i)) /\ j <= i
    BY <2>1 DEF Precedes
  <2> HIDE DEF Graded
  <2>5. Graded(q, i) <= Graded(m, j)
    <3>1. CASE i = j
      BY <2>3, <3>1
    <3>2. CASE i # j
      BY <2>2, <2>3, <2>4, <3>2 DEF RiskOrder, Unrated
    <3> QED BY <3>1, <3>2
  <2> QED BY <1>2, <1>3, <2>3, <2>5 DEF AggregateLevel, Graded, i, j
<1>4. ASSUME OkOf(q) = {} PROVE AggregateLevel(q) <= AggregateLevel(m)
  BY <1>2, <1>4 DEF AggregateLevel
<1>5. AggregateLevel(q) \in 1..5 /\ AggregateLevel(m) \in 1..5
  <2>1. OkOf(q) # {} => HighestOf(q) \in 1..6 /\ HighestOf(m) \in 1..6
    BY <1>1, <1>2, OneIsHighest
  <2> QED BY <1>1, <1>2, <2>1 DEF AggregateLevel
<1>6. AggregateLevel(q) <= AggregateLevel(m)
  BY <1>3, <1>4
<1>7. \A x : blueteam_threat_intel_aggregate(x).verdict = RiskNames[AggregateLevel(x)]
  <2> TAKE x
  <2>1. DOMAIN ProvidersOf(x) = 1..6
    BY DEF ProvidersOf
  <2>2. blueteam_threat_intel_aggregate(x) = _aggregate(ProvidersOf(x))
    BY DEF blueteam_threat_intel_aggregate, ProvidersOf
  <2>3. _aggregate(ProvidersOf(x)).verdict =
          IF OkOf(x) = {} THEN "unknown" ELSE RiskNames[ProvidersOf(x)[HighestOf(x)].risk + 1]
    BY <2>1 DEF _aggregate, Told, OkOf, HighestOf
  <2> QED BY <2>2, <2>3 DEF AggregateLevel, RiskNames
<1>8. Scales[q.tool] = RiskNames /\ DOMAIN RiskNames = 1..5
  BY DEF Scales, RiskNames
<1> HIDE DEF Graded
<1> QED BY <1>5, <1>6, <1>7, <1>8 DEF Raised

(* What connects a CVE to an alert: a fact in favour takes nothing away.   *)
LEMMA RelationshipGrows ==
  ASSUME NEW q, NEW fact \in Supporting, NEW m, m.opts = q.opts \cup {fact}
  PROVE  /\ assess_candidate(q) \in 1..5 /\ assess_candidate(m) \in 1..5
         /\ assess_candidate(q) <= assess_candidate(m)
<1>1. \A option \in Supporting \cup Opposing : Has(q, option) => Has(m, option)
  BY DEF Has
<1>2. \A option \in Opposing : Has(m, option) => Has(q, option)
  BY DEF Has, Supporting, Opposing
<1>3. assess_candidate(q) \in 1..5 /\ assess_candidate(m) \in 1..5
  BY DEF assess_candidate
<1> QED BY <1>1, <1>2, <1>3 DEF assess_candidate, Supporting, Opposing

(* A page: one more signature.                                             *)
WebshellLevel(series) ==
  IF series[1] >= 2 \/ (series[1] = 1 /\ series[2] >= 2) THEN 6
  ELSE IF series[1] = 1 \/ series[2] >= 2 THEN 5
  ELSE IF series[3] >= 1 THEN 4
  ELSE IF series[2] + series[4] > 0 THEN 3 ELSE 2

LEMMA SignaturesGrow ==
  ASSUME NEW series \in [1..4 -> Nat], NEW i \in 1..4
  PROVE  LET more == [series EXCEPT ![i] = @ + 1]
         IN  /\ WebshellLevel(series) \in 2..6 /\ WebshellLevel(more) \in 2..6
             /\ WebshellLevel(series) <= WebshellLevel(more)
<1> DEFINE more == [series EXCEPT ![i] = @ + 1]
<1>1. \A n \in 1..4 : series[n] \in Nat /\ more[n] \in Nat /\ series[n] <= more[n]
  OBVIOUS
<1> HIDE DEF more
<1>2. WebshellLevel(series) \in 2..6 /\ WebshellLevel(more) \in 2..6
  BY DEF WebshellLevel
<1>3. WebshellLevel(series) <= WebshellLevel(more)
  BY <1>1 DEF WebshellLevel
<1> QED BY <1>2, <1>3 DEF more

(* What was gathered for a CVE is the same requests, answered or not.      *)
LEMMA GatheredAlike ==
  ASSUME NEW q, NEW m, Further(q, m, CveSources), NEW verdict, NEW raised,
         _gather_cve_data(q, verdict).status = "ok"
  PROVE  /\ ~IsLost(q, "nvd") /\ ~IsLost(q, "epss")
         /\ _gather_cve_data(q, verdict).verdict = verdict
         /\ _gather_cve_data(m, raised).verdict = raised
<1>1. Refusal.status = "error"
  BY DEF Refusal
<1>2. ~IsLost(q, "nvd") /\ ~IsLost(q, "epss")
  BY <1>1 DEF _gather_cve_data
<1>3. ~IsLost(m, "nvd") /\ ~IsLost(m, "epss")
  BY <1>2 DEF Further, CveSources
<1>4. ~(Has(q, "uncaught") /\ LostOf(q, {"kev"} \cup PocSources) # {})
  BY <1>1, <1>2 DEF _gather_cve_data, Uncaught
<1>5. LostOf(m, {"kev"} \cup PocSources) = LostOf(q, {"kev"} \cup PocSources)
  BY DEF LostOf, Further, CveSources
<1>6. Has(m, "uncaught") => Has(q, "uncaught")
  BY DEF Further, Has
<1> QED BY <1>2, <1>3, <1>4, <1>5, <1>6 DEF _gather_cve_data, Uncaught, Told

(* One answer after the other, each of them a verdict of its scale.        *)
LEMMA PocVerdict ==
  ASSUME NEW q, NEW m, q.tool = "blueteam_cve_poc", Further(q, m, PocSources),
         blueteam_cve_poc(q).status = "ok"
  PROVE  Raised(q, blueteam_cve_poc(q).verdict, blueteam_cve_poc(m).verdict)
<1>1. ~(Has(q, "uncaught") /\ LostOf(q, PocSources) # {})
  BY DEF blueteam_cve_poc, Uncaught, Refusal
<1>2. LostOf(m, PocSources) = LostOf(q, PocSources) /\ (Has(m, "uncaught") => Has(q, "uncaught"))
  BY DEF LostOf, Further, Has
<1>3. /\ blueteam_cve_poc(q).verdict = PocNames[search_poc(q)]
      /\ blueteam_cve_poc(m).verdict = PocNames[search_poc(m)]
  BY <1>1, <1>2 DEF blueteam_cve_poc, Uncaught, Told
<1>4. Scales[q.tool] = PocNames /\ DOMAIN PocNames = 1..4
  BY DEF Scales, PocNames
<1> QED BY <1>3, <1>4, PocGrows DEF Raised

LEMMA ScoreVerdict ==
  ASSUME NEW q, NEW m, q.tool = "blueteam_cve_score", Further(q, m, CveSources),
         blueteam_cve_score(q).status = "ok"
  PROVE  Raised(q, blueteam_cve_score(q).verdict, blueteam_cve_score(m).verdict)
<1>1. /\ ~IsLost(q, "nvd") /\ ~IsLost(q, "epss")
      /\ blueteam_cve_score(q).verdict = Labels[score_cve(q).label]
      /\ blueteam_cve_score(m).verdict = Labels[score_cve(m).label]
  BY GatheredAlike DEF blueteam_cve_score
<1>2. Scales[q.tool] = Labels /\ DOMAIN Labels = 1..4
  BY DEF Scales, Labels
<1> QED BY <1>1, <1>2, ScoreGrows DEF Raised

SsvcLevel(q) == IF q.out["nvd"] = 0 THEN 1 ELSE ssvc_decision(q) + 1
LEMMA SsvcVerdict ==
  ASSUME NEW q, NEW m, q.tool = "blueteam_cve_ssvc", Further(q, m, CveSources),
         blueteam_cve_ssvc(q).status = "ok"
  PROVE  Raised(q, blueteam_cve_ssvc(q).verdict, blueteam_cve_ssvc(m).verdict)
<1> DEFINE said(x) == IF x.out["nvd"] = 0 THEN "not_found" ELSE Actions[ssvc_decision(x)]
<1>1. /\ ~IsLost(q, "nvd") /\ ~IsLost(q, "epss")
      /\ blueteam_cve_ssvc(q).verdict = said(q)
      /\ blueteam_cve_ssvc(m).verdict = said(m)
  BY GatheredAlike DEF blueteam_cve_ssvc
<1>2. /\ ssvc_decision(q) \in 1..4 /\ ssvc_decision(m) \in 1..4
      /\ ssvc_decision(q) <= ssvc_decision(m)
  BY <1>1, DecisionGrows
<1>3. m.out["nvd"] = 0 => q.out["nvd"] = 0
  BY <1>1 DEF Further, HitsOf, CveSources, Most
<1>4. /\ SsvcLevel(q) \in 1..5 /\ SsvcLevel(m) \in 1..5 /\ SsvcLevel(q) <= SsvcLevel(m)
  BY <1>2, <1>3 DEF SsvcLevel
<1>5. ASSUME NEW x, ssvc_decision(x) \in 1..4
      PROVE  said(x) = Scales["blueteam_cve_ssvc"][SsvcLevel(x)]
  <2>1. CASE x.out["nvd"] = 0
    BY <2>1, ScalesAre DEF SsvcLevel
  <2>2. CASE x.out["nvd"] # 0
    BY <1>5, <2>2, ScalesAre DEF SsvcLevel, Actions
  <2> QED BY <2>1, <2>2
<1>6. DOMAIN Scales["blueteam_cve_ssvc"] = 1..5
  BY ScalesAre
<1> HIDE DEF said
<1> QED BY <1>1, <1>2, <1>4, <1>5, <1>6 DEF Raised

LEMMA AssessVerdict ==
  ASSUME NEW choices, NEW q \in Calling("assess_candidate", {}, {}, choices), NEW m \in More(q)
  PROVE  /\ m.tool = q.tool
         /\ Raised(q, assess(q).verdict, assess(m).verdict)
<1>1. q.tool = "assess_candidate" /\ DOMAIN q.out = {}
  BY DEF Calling
<1>2. PICK fact \in Supporting : m = [q EXCEPT !.opts = @ \cup {fact}]
  BY <1>1 DEF More
<1>3. m.tool = q.tool /\ m.opts = q.opts \cup {fact}
  BY <1>2 DEF Calling
<1>4. /\ assess_candidate(q) \in 1..5 /\ assess_candidate(m) \in 1..5
      /\ assess_candidate(q) <= assess_candidate(m)
  BY <1>3, RelationshipGrows
<1>5. /\ assess(q).verdict = Relationships[assess_candidate(q)]
      /\ assess(m).verdict = Relationships[assess_candidate(m)]
  BY DEF assess, Told
<1>6. Scales[q.tool] = Relationships /\ DOMAIN Relationships = 1..5
  BY <1>1 DEF Scales, Relationships
<1> QED BY <1>3, <1>4, <1>5, <1>6 DEF Raised

WebshellQuestions ==
  [tool : {"blueteam_check_webshell"}, out : [{"page", "hop"} -> {Lost, Most}],
   opts : SUBSET {"private", "privateHop", "redirect", "errorPage", "json"},
   series : [1 .. 4 -> 0 .. 2]]
LEMMA WebshellVerdict ==
  ASSUME NEW q \in WebshellQuestions, NEW m \in More(q)
  PROVE  /\ m.tool = q.tool
         /\ Misheaded(m) \/ Raised(q, blueteam_check_webshell(q).verdict,
                                     blueteam_check_webshell(m).verdict)
<1>1. /\ q.tool = "blueteam_check_webshell"
      /\ q.out \in [{"page", "hop"} -> {Lost, Most}]
      /\ q.series \in [1..4 -> Nat]
  BY DEF WebshellQuestions
<1>2. PICK i \in 1..4 : m = [q EXCEPT !.series[i] = @ + 1]
  <2>1. ASSUME NEW s \in DOMAIN q.out, ~IsLost(q, s), NEW n \in {1, Fair, Most} PROVE ~(n > q.out[s])
    BY <1>1, <2>1 DEF IsLost, Lost, Fair, Most
  <2> QED BY <1>1, <2>1 DEF More
<1>3. /\ m.tool = q.tool /\ m.out = q.out /\ m.opts = q.opts
      /\ m.series = [q.series EXCEPT ![i] = @ + 1]
  BY <1>2 DEF WebshellQuestions
<1>4. /\ WebshellLevel(q.series) \in 2..6 /\ WebshellLevel(m.series) \in 2..6
      /\ WebshellLevel(q.series) <= WebshellLevel(m.series)
  BY <1>1, <1>3, SignaturesGrow
<1>5. Enough(m) <=> Enough(q)
  BY <1>3 DEF Enough, Fetched, Redirected, _pinned_curl_args, Stops, Has, IsLost
<1> DEFINE level(x) == IF Enough(x) THEN WebshellLevel(x.series) ELSE 1
<1>6. level(q) \in 1..6 /\ level(m) \in 1..6 /\ level(q) <= level(m)
  BY <1>4, <1>5
<1> DEFINE shown(x) == IF Misheaded(x) THEN 2 ELSE level(x)
<1>7. \A x : x.tool = "blueteam_check_webshell" =>
        blueteam_check_webshell(x).verdict = Scales["blueteam_check_webshell"][shown(x)]
  <2> TAKE x
  <2> HAVE x.tool = "blueteam_check_webshell"
  <2> DEFINE v == IF Enough(x) THEN _verdict(x.series) ELSE "UNKNOWN"
  <2>1. blueteam_check_webshell(x).verdict = IF Has(x, "json") THEN v ELSE Heading(v)
    BY DEF blueteam_check_webshell, Told
  <2>2. _verdict(x.series) = Scales["blueteam_check_webshell"][WebshellLevel(x.series)]
    BY ScalesAre DEF _verdict, WebshellLevel
  <2>3. v = Scales["blueteam_check_webshell"][level(x)]
    BY <2>2, ScalesAre
  <2>4. v \in {"UNKNOWN", "CLEAN", "LOW_RISK", "LOGIN_PAGE", "SUSPICIOUS", "CONFIRMED"}
    BY DEF _verdict
  <2>5. Misheaded(x) <=> ~Has(x, "json") /\ v = "SUSPICIOUS"
    BY DEF Misheaded
  <2> HIDE DEF v, level
  <2>6. Misheaded(x) => blueteam_check_webshell(x).verdict = "CLEAN"
    BY <2>1, <2>5 DEF Heading
  <2>7. ~Misheaded(x) => blueteam_check_webshell(x).verdict = v
    BY <2>1, <2>4, <2>5 DEF Heading
  <2> QED BY <2>3, <2>6, <2>7, ScalesAre
<1>8. DOMAIN Scales["blueteam_check_webshell"] = 1..6
  BY ScalesAre
<1>9. Misheaded(q) => level(q) >= 2
  BY <1>4 DEF Misheaded
<1> HIDE DEF level
<1>10. ~Misheaded(m) => shown(q) \in 1..6 /\ shown(m) \in 1..6 /\ shown(q) <= shown(m)
  BY <1>6, <1>9
<1> HIDE DEF shown
<1> QED BY <1>1, <1>3, <1>7, <1>8, <1>10 DEF Raised
-----------------------------------------------------------------------------
Answered ==
  \/ exchange = NoQuestion
  \/ \E q \in AlertQuestions : exchange = [q |-> q, answer |-> AlertAnswer(q)]
  \/ \E q \in LookupQuestions : exchange = [q |-> q, answer |-> LookupAnswer(q)]
  \/ \E q \in HuntQuestions : exchange = [q |-> q, answer |-> HuntAnswer(q)]
  \/ \E q \in DocumentQuestions : exchange = [q |-> q, answer |-> DocumentAnswer(q)]

LEMMA AlwaysAnswered == ToolsSpec => []Answered
<1>1. ToolsInit => Answered
  BY DEF ToolsInit, Answered
<1>2. Answered /\ [ToolsNext]_exchange => Answered'
  BY DEF Answered, ToolsNext, ReadAlerts, LookUpIndicator, HuntThreats, HandleDocument, Asked
<1> QED BY <1>1, <1>2, PTL DEF ToolsSpec

(* Only look-ups and the check of a page have a verdict on a scale.        *)
LEMMA ScaledQuestions ==
  /\ \A q \in AlertQuestions : q.tool \notin DOMAIN Scales
  /\ \A q \in HuntQuestions : q.tool \notin DOMAIN Scales
  /\ \A q \in DocumentQuestions : q.tool \in DOMAIN Scales => q \in WebshellQuestions
  /\ \A q \in LookupQuestions : q.tool # "blueteam_check_webshell"
<1>1. \A q \in AlertQuestions : q.tool \notin DOMAIN Scales
  BY DEF AlertQuestions, CallsOf, Calling, Scales
<1>2. \A q \in HuntQuestions : q.tool \notin DOMAIN Scales
  BY DEF HuntQuestions, CallsOf, Calling, Scales
<1>3. \A q \in DocumentQuestions : q.tool \in DOMAIN Scales => q \in WebshellQuestions
  BY DEF DocumentQuestions, CallsOf, Calling, Scales, WebshellQuestions
<1>4. \A q \in LookupQuestions : q.tool # "blueteam_check_webshell"
  BY DEF LookupQuestions, CallsOf, Calling
<1> QED BY <1>1, <1>2, <1>3, <1>4

LEMMA LookupVerdict ==
  ASSUME NEW q \in LookupQuestions, q.tool \in DOMAIN Scales, LookupAnswer(q).status = "ok",
         NEW m \in More(q)
  PROVE  /\ m.tool = q.tool
         /\ Raised(q, LookupAnswer(q).verdict, LookupAnswer(m).verdict)
<1>0. \A tool, sources, choices :
        /\ Calling(tool, sources, {Lost, 0, Most}, choices)
             \subseteq Calling(tool, sources, Outcomes \cup {Fair}, choices)
        /\ Calling(tool, sources, {Lost, 0, 1}, choices)
             \subseteq Calling(tool, sources, Outcomes \cup {Fair}, choices)
  BY DEF Calling, Outcomes
<1>1. CASE q.tool = "blueteam_threat_intel_aggregate"
  <2>1. \/ \E choices : q \in Calling(q.tool, AggregateSources, {Lost, 0, Most}, choices)
        \/ \E choices : q \in Calling(q.tool, AggregateSources, {Lost, 0, 1}, choices)
    BY <1>1 DEF LookupQuestions, CallsOf, Calling
  <2>2. Further(q, m, AggregateSources)
    BY <1>0, <1>1, <2>1, MoreIsFurther
  <2>3. m.tool = q.tool
    BY <2>2 DEF Further
  <2> QED BY <1>1, <2>2, <2>3, AggregateGrows DEF LookupAnswer
<1>2. CASE q.tool = "blueteam_cve_poc"
  <2>1. \E choices : q \in Calling(q.tool, PocSources, Outcomes \cup {Fair}, choices)
    BY <1>2 DEF LookupQuestions, CallsOf, Calling
  <2>2. Further(q, m, PocSources)
    BY <1>2, <2>1, MoreIsFurther
  <2>3. m.tool = q.tool
    BY <2>2 DEF Further
  <2> QED BY <1>2, <2>2, <2>3, PocVerdict DEF LookupAnswer
<1>3. CASE q.tool = "blueteam_cve_score"
  <2>1. \E choices : q \in Calling(q.tool, CveSources, {Lost, 0, Most}, choices)
    BY <1>3 DEF LookupQuestions, CallsOf, Calling
  <2>2. Further(q, m, CveSources)
    BY <1>0, <1>3, <2>1, MoreIsFurther
  <2>3. m.tool = q.tool
    BY <2>2 DEF Further
  <2> QED BY <1>3, <2>2, <2>3, ScoreVerdict DEF LookupAnswer
<1>4. CASE q.tool = "blueteam_cve_ssvc"
  <2>1. \E choices : q \in Calling(q.tool, CveSources, {Lost, 0, Most}, choices)
    BY <1>4 DEF LookupQuestions, CallsOf, Calling
  <2>2. Further(q, m, CveSources)
    BY <1>0, <1>4, <2>1, MoreIsFurther
  <2>3. m.tool = q.tool
    BY <2>2 DEF Further
  <2> QED BY <1>4, <2>2, <2>3, SsvcVerdict DEF LookupAnswer
<1>5. CASE q.tool = "assess_candidate"
  <2>1. \E choices : q \in Calling("assess_candidate", {}, {}, choices)
    BY <1>5 DEF LookupQuestions, CallsOf, Calling
  <2>2. m.tool = q.tool /\ Raised(q, assess(q).verdict, assess(m).verdict)
    BY <2>1, AssessVerdict
  <2> QED BY <1>5, <2>2 DEF LookupAnswer
<1> QED BY <1>1, <1>2, <1>3, <1>4, <1>5, ScaledQuestions DEF Scales

(* More evidence never makes a verdict milder.                             *)
THEOREM EvidenceRaises == ToolsSpec => []EvidenceNeverLowers
<1>1. Answered => EvidenceNeverLowers
  <2> SUFFICES ASSUME Answered, exchange.q.tool \in DOMAIN Scales, exchange.answer.status = "ok",
                      NEW m \in More(exchange.q)
               PROVE  LET answer == IF m.tool = "blueteam_check_webshell" THEN DocumentAnswer(m)
                                    ELSE LookupAnswer(m)
                      IN  \/ Misheaded(m)
                          \/ Rank(m, answer.verdict) >= Rank(m, exchange.answer.verdict)
    BY DEF EvidenceNeverLowers
  <2>1. CASE exchange = NoQuestion
    BY <2>1 DEF NoQuestion, Scales
  <2>2. CASE \E q \in AlertQuestions : exchange = [q |-> q, answer |-> AlertAnswer(q)]
    BY <2>2, ScaledQuestions
  <2>3. CASE \E q \in HuntQuestions : exchange = [q |-> q, answer |-> HuntAnswer(q)]
    BY <2>3, ScaledQuestions
  <2>4. ASSUME NEW q \in LookupQuestions, exchange = [q |-> q, answer |-> LookupAnswer(q)]
        PROVE  /\ m.tool # "blueteam_check_webshell"
               /\ Rank(m, LookupAnswer(m).verdict) >= Rank(m, LookupAnswer(q).verdict)
    <3>1. m.tool = q.tool /\ Raised(q, LookupAnswer(q).verdict, LookupAnswer(m).verdict)
      BY <2>4, LookupVerdict
    <3> QED BY <2>4, <3>1, RaisedRanks, ScaledQuestions
  <2>5. ASSUME NEW q \in DocumentQuestions, exchange = [q |-> q, answer |-> DocumentAnswer(q)]
        PROVE  /\ m.tool = "blueteam_check_webshell"
               /\ \/ Misheaded(m)
                  \/ Rank(m, DocumentAnswer(m).verdict) >= Rank(m, DocumentAnswer(q).verdict)
    <3>1. q \in WebshellQuestions /\ q.tool = "blueteam_check_webshell"
      BY <2>5, ScaledQuestions DEF WebshellQuestions
    <3>2. /\ m.tool = q.tool
          /\ \/ Misheaded(m)
             \/ Raised(q, blueteam_check_webshell(q).verdict, blueteam_check_webshell(m).verdict)
      BY <2>5, <3>1, WebshellVerdict
    <3>3. /\ DocumentAnswer(q) = blueteam_check_webshell(q)
          /\ DocumentAnswer(m) = blueteam_check_webshell(m)
      BY <3>1, <3>2 DEF DocumentAnswer
    <3> QED BY <2>5, <3>1, <3>2, <3>3, RaisedRanks
  <2> QED BY <2>1, <2>2, <2>3, <2>4, <2>5 DEF Answered
<1> QED BY <1>1, AlwaysAnswered, PTL
=============================================================================
