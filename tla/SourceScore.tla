---------------------------- MODULE SourceScore -----------------------------
(***************************************************************************)
(* Which source is seen next (source_core.py): the timeline of sources,    *)
(* the ranking of candidates by score_sequence, and the backtest           *)
(* evaluate_rolling that measures the ranking on stored history.           *)
(*                                                                         *)
(* Times are whole half-lives, so a recency weight is a power of two;      *)
(* scores are in thousandths.  No source recurs three times within the     *)
(* bounds (MaxRows), so component_recurrence is 0; the backtest gives no   *)
(* context tactics, so component_context is 0.  Sources and countries are  *)
(* numbers, in the order of their names.                                   *)
(***************************************************************************)
EXTENDS Integers, Sequences, FiniteSets, SequencesExt, FiniteSetsExt

CONSTANTS
  MaxAge,          (* bound: half-lives between an observation and a cutoff *)
  MinTransitions,  (* min_transitions                                      *)
  NoTarget         (* no value                                             *)

Weight(age) == 2 ^ (MaxAge - age)                  (* 2.0 ** (-age / half) *)
Shares == [transition |-> 450, recency |-> 200, frequency |-> 150]

(* _ordered_rows: observations before the cutoff, by time then value.      *)
Earlier(x, y) == x.at < y.at \/ (x.at = y.at /\ x.value < y.value)
TrainingInclusive(rows, cutoff) == {r \in rows : r.at <= cutoff}    (* a variant *)
Training(rows, cutoff) == {r \in rows : r.at < cutoff}
Ordered(rows, cutoff) == SetToSortSeq(Training(rows, cutoff), Earlier)

(* _collapse: a run of one value is one entry, at the time it began.       *)
Timeline(rows, cutoff) ==
  FoldLeft(LAMBDA line, r : IF line # <<>> /\ Last(line).value = r.value THEN line
                            ELSE Append(line, [value |-> r.value, at |-> r.at]),
           <<>>, Ordered(rows, cutoff))

(* weighted_transitions and transition_probability (alpha 1/2, doubled).   *)
Followed(line, from, to) ==
  {i \in 1..(Len(line) - 1) : line[i].value = from /\ line[i + 1].value = to}
WeightOf(line, from, to, cutoff) ==
  MapThenSumSet(LAMBDA i : Weight(cutoff - line[i + 1].at), Followed(line, from, to))
Vocabulary(line) == {line[i].value : i \in 1..Len(line)}
Row(line, from) == {to \in Vocabulary(line) : Followed(line, from, to) # {}}
RowSupport(line, from) == MapThenSumSet(LAMBDA to : Cardinality(Followed(line, from, to)), Row(line, from))
TransitionRaw(line, value, cutoff) ==
  LET from == Last(line).value
      total == MapThenSumSet(LAMBDA to : WeightOf(line, from, to, cutoff), Row(line, from))
      unit == Weight(0)               (* alpha is a share of a fresh weight *)
  IN  IF Row(line, from) = {} THEN 0
      ELSE (1000 * (2 * WeightOf(line, from, value, cutoff) + unit))
           \div (2 * total + unit * Cardinality(Row(line, from)))

(* normalize_max, in thousandths.                                          *)
Normalized(raw, value) ==
  LET top == Max({raw[v] : v \in DOMAIN raw}) IN IF top = 0 THEN 0 ELSE (1000 * raw[value]) \div top

(* score_sequence: the ranked candidates.  Below the floor of transitions  *)
(* the transition component is dropped and the other weights share it.     *)
LastSeen(line, value) == Max({line[i].at : i \in {j \in 1..Len(line) : line[j].value = value}})
Falls(line) == RowSupport(line, Last(line).value) < MinTransitions
ScoreOf(line, value, cutoff) ==
  LET values == Vocabulary(line)
      part(raw) == Normalized(raw, value)
      transition == part([v \in values |-> TransitionRaw(line, v, cutoff)])
      recency == part([v \in values |-> Weight(cutoff - LastSeen(line, v))])
      frequency == part([v \in values |-> Cardinality({i \in 1..Len(line) : line[i].value = v})])
  IN  (IF Falls(line) THEN 0 ELSE Shares.transition * transition)
      + Shares.recency * recency + Shares.frequency * frequency
RankedLine(line, cutoff) ==
  LET better(v, w) == \/ ScoreOf(line, v, cutoff) > ScoreOf(line, w, cutoff)
                      \/ ScoreOf(line, v, cutoff) = ScoreOf(line, w, cutoff) /\ v < w
  IN  IF line = <<>> THEN <<>> ELSE SetToSortSeq(Vocabulary(line), better)
Ranked(rows, cutoff) == RankedLine(Timeline(rows, cutoff), cutoff)
-----------------------------------------------------------------------------
(* evaluate_rolling looks at sources, and at countries where an            *)
(* observation has one.                                                    *)
BySource(rows) == {[at |-> r.at, value |-> r.source] : r \in rows}
ByCountry(rows) == {[at |-> r.at, value |-> r.country] : r \in {q \in rows : q.country # NoTarget}}

(* The target of a cutoff: the first value of the day that begins there.   *)
TargetRows(rows, cutoff, horizon) == {r \in rows : cutoff <= r.at /\ r.at < cutoff + horizon}
Target(rows, cutoff, horizon) ==
  LET row == SetToSortSeq(TargetRows(rows, cutoff, horizon), Earlier)
  IN  IF row = <<>> THEN NoTarget ELSE row[1].value

(* The baselines: the last value, and the most frequent one.               *)
Persistence(rows, cutoff) ==
  LET line == Timeline(rows, cutoff) IN IF line = <<>> THEN NoTarget ELSE Last(line).value
MostFrequent(rows, cutoff) ==
  LET values == {r.value : r \in Training(rows, cutoff)}
      count(v) == Cardinality({r \in Training(rows, cutoff) : r.value = v})
      best == {v \in values : \A w \in values : count(v) >= count(w)}
  IN  IF values = {} THEN NoTarget ELSE Min(best)

(* A baseline hits when it equals the target, also when neither has a      *)
(* value; the ranking hits only a target that has one.                     *)
TopHit(candidates, target, k) ==
  target # NoTarget /\ \E i \in 1..Len(candidates) : i <= k /\ candidates[i] = target
Point(rows, cutoff, horizon, k) ==
  LET target == Target(rows, cutoff, horizon)
      ranked == Ranked(rows, cutoff)
  IN  [predicted |-> [ranked |-> ranked, persistence |-> Persistence(rows, cutoff),
                      frequent |-> MostFrequent(rows, cutoff)],
       hits |-> [ranked |-> TopHit(ranked, target, k),
                 persistence |-> Persistence(rows, cutoff) = target,
                 frequent |-> MostFrequent(rows, cutoff) = target]]
EvaluateRolling(rows, cutoffs, horizon, k, minObservations) ==
  [c \in {c \in cutoffs : /\ Cardinality(Training(rows, c)) >= minObservations
                          /\ TargetRows(rows, c, horizon) # {}} |->
    [source |-> Point(BySource(rows), c, horizon, k), country |-> Point(ByCountry(rows), c, horizon, k)]]
=============================================================================
