--------------------------- MODULE CoreQuestions ----------------------------
(***************************************************************************)
(* The pure cores answer one question at a time.  A question is an input   *)
(* of one of them; the properties compare what the core computes with a    *)
(* definition that does not follow its steps.                              *)
(***************************************************************************)
EXTENDS ForecastCore, Lineage, SourceScore, TLC

CONSTANTS
  AlertRows,      (* rows of tactic observations, in order of arrival      *)
  FitHistories,   (* clusters of successive fits                           *)
  Models,         (* hidden Markov models                                  *)
  Contexts,       (* what such a model observed                            *)
  Sightings,      (* observations of sources                               *)
  Cutoffs,        (* the cutoffs of a backtest                             *)
  MaxHorizon

(* There are few enough tactics that their roundings stay in the tolerance *)
(* (TACTIC_ORDER has 16).  A model has weights for finitely many states,   *)
(* and for what is observed.                                               *)
ASSUME CoresAssumption ==
  /\ IsFiniteSet(Tactics) /\ Cardinality(Tactics) \in 1..(2 * Tolerance) /\ Unknown \notin Tactics
  /\ \A rows \in AlertRows : Len(rows) \in Nat /\ \A i \in 1..Len(rows) :
       rows[i].at \in Int /\ rows[i].tactics \in Seq(Tactics \cup {Unknown})
  /\ FitHistories \subseteq Seq(Seq([centroid : Int, radius : Nat]))
  /\ MaxHorizon \in Nat
  /\ \A seen \in Contexts : Len(seen) \in Nat
  /\ \A m \in Models : LET H == DOMAIN m.start IN
       /\ IsFiniteSet(H) /\ m.start \in [H -> Nat] /\ m.trans \in [H -> [H -> Nat]]
       /\ \A seen \in Contexts : \A n \in 1..Len(seen), s \in H : m.emit[s][seen[n]] \in Nat

VARIABLE question

Questions ==
  [kind : {"sequence"}, rows : AlertRows] \cup [kind : {"lineage"}, fits : FitHistories]
  \cup [kind : {"posterior"}, model : Models, seen : Contexts]
  \cup [kind : {"backtest"}, rows : Sightings]

CoresInit == question = [kind |-> "none"]
Pose == question.kind = "none" /\ question' \in Questions
CoresSpec == CoresInit /\ [][Pose]_question
-----------------------------------------------------------------------------
(* The rows of an entity at different times, in another order of arrival.  *)
Reversals(rows) == {Reverse(rows)}
Untied(rows) == \A i, j \in 1..Len(rows) : i # j => rows[i].at # rows[j].at

(* The sequence of an entity holds each known tactic it showed, never one  *)
(* twice in a row; arrival order does not matter unless alerts share a     *)
(* time; and every fit of it, whatever its counts, is a model that a later *)
(* load accepts although each of its probabilities was rounded on its own. *)
SequencesFaithful ==
  question.kind = "sequence" =>
    LET rows == question.rows
        built == BuildSequences(rows)
    IN  /\ \A e \in DOMAIN built :
             /\ \A i \in 1..(Len(built[e]) - 1) : built[e][i] # built[e][i + 1]
             /\ ToSet(built[e]) = {t \in Tactics : \E i \in 1..Len(rows) :
                                     rows[i].entity = e /\ Contains(rows[i].tactics, t)}
        /\ Untied(rows) => \A other \in Reversals(rows) : BuildSequences(other) = built
        /\ Fits(built, 1, 1) => Loadable(StartProb(built, 1), Transmat(built, 1))
        /\ Fits(built, 1, 1) =>
             \A t \in Tactics : SumsToOne(PredictNext(built, 1, <<t, Unknown>>))

(* No cluster of a fit is denied a lineage that was nearer to it than to   *)
(* the one that took it, and a lineage is never claimed twice in a fit, so *)
(* that a lineage is one unbroken line of clusters.                        *)
LineagesStable ==
  question.kind = "lineage" =>
    LET used == Usable(question.fits)
        rows == Lineages(question.fits)
    IN  \A n \in 1..Len(rows) :
          /\ Cardinality(IdsOf(rows[n])) = Len(rows[n])
          /\ n > 1 => Stable(used[n], rows[n - 1],
               {pair \in (1..Len(rows[n])) \X (1..Len(rows[n - 1])) :
                  rows[n][pair[1]].id = rows[n - 1][pair[2]].id})
          /\ \A m \in 1..Len(rows) : \A id \in IdsOf(rows[n]) \cap IdsOf(rows[m]) :
               \A k \in n..m : id \in IdsOf(rows[k])

(* The chance of a peak is one minus the weight of every future that       *)
(* avoids it, at every horizon.                                            *)
PeakIsExact ==
  question.kind = "posterior" =>
    \A horizon \in 0..MaxHorizon, target \in SUBSET (DOMAIN question.model.start) :
      LET gamma == Forward(question.model, question.seen)
      IN  Surviving(gamma, question.model.trans, target, horizon)
          = Sigma([s \in DOMAIN gamma |-> gamma[s] * Missing(question.model.trans, target, horizon)[s]])

(* A backtest predicts a cutoff from what was seen before it: taking away  *)
(* all that came later changes no prediction.                              *)
BacktestBlind ==
  question.kind = "backtest" =>
    LET full == EvaluateRolling(question.rows, Cutoffs, 1, 1, 0)
    IN  \A c \in DOMAIN full :
          LET seen == {r \in question.rows : r.at < c}
          IN  /\ full[c].source.predicted = Point(BySource(seen), c, 1, 1).predicted
              /\ full[c].country.predicted = Point(ByCountry(seen), c, 1, 1).predicted

(* What is said of the future, and of how good it is: the chance of a peak *)
(* is exact, and a backtest measures predictions that could have been made. *)
ForecastsHold == PeakIsExact /\ BacktestBlind
=============================================================================
