---------------------------- MODULE ForecastCore ----------------------------
(***************************************************************************)
(* The arithmetic of the tactic and volume forecasts (forecast_core.py):   *)
(* the sequences built from alerts, the Markov fit, the posterior of a     *)
(* hidden Markov model after what was observed, and the chance of a peak.  *)
(* Probabilities are integer weights; what the code divides by a sum that  *)
(* all states share is left undivided.                                     *)
(***************************************************************************)
EXTENDS Integers, Sequences, FiniteSets, SequencesExt, FiniteSetsExt

CONSTANTS
  Tactics,      (* the tactics of the taxonomy                             *)
  Unknown       (* a tactic outside it                                     *)

Micro == 1000000                 (* probabilities are stored to six places *)
Tolerance == 1000                (* PROB_SUM_TOLERANCE, in millionths      *)
-----------------------------------------------------------------------------
(* normalize_tactics: the known tactics of an alert, each once.            *)
Known(tactics) ==
  FoldLeft(LAMBDA kept, t : IF t = Unknown \/ Contains(kept, t) THEN kept ELSE Append(kept, t),
           <<>>, tactics)

(* The tactics of an entity's alerts, by time and by place in their alert. *)
Observed(rows, entity) ==
  UNION {{[at |-> rows[i].at, offset |-> k, row |-> i, tactic |-> Known(rows[i].tactics)[k]] :
            k \in 1..Len(Known(rows[i].tactics))} :
         i \in {i \in 1..Len(rows) : rows[i].entity = entity}}
BeforeByRow(x, y) == x.row < y.row \/ (x.row = y.row /\ x.offset < y.offset)   (* a variant *)
Before(x, y) == \/ x.at < y.at
                \/ x.at = y.at /\ x.offset < y.offset
                \/ x.at = y.at /\ x.offset = y.offset /\ x.row < y.row

Collapsed(seq) ==
  FoldLeft(LAMBDA kept, t : IF kept # <<>> /\ Last(kept) = t THEN kept ELSE Append(kept, t), <<>>, seq)

InTime(seen) ==
  [i \in 1..Cardinality(seen) |->
    CHOOSE x \in seen : Cardinality({y \in seen : Before(y, x)}) = i - 1]

SequenceOf(rows, entity) ==
  LET ordered == InTime(Observed(rows, entity))
  IN  Collapsed([i \in 1..Len(ordered) |-> ordered[i].tactic])

(* build_sequences: one sequence for each entity that has two steps; an    *)
(* empty entity is no entity.                                              *)
Entities(rows) == {rows[i].entity : i \in 1..Len(rows)} \ {""}
BuildSequences(rows) ==
  [e \in {e \in Entities(rows) : Len(SequenceOf(rows, e)) >= 2} |-> SequenceOf(rows, e)]
-----------------------------------------------------------------------------
(* fit_markov_chain: the transitions counted, and each row smoothed and    *)
(* rounded to six places.                                                  *)
Sigma(f) == MapThenSumSet(LAMBDA x : f[x], DOMAIN f)
Steps(seq) == [i \in 1..(Len(seq) - 1) |-> <<seq[i], seq[i + 1]>>]
CountOf(seqs, from, to) ==
  Sigma([e \in DOMAIN seqs |->
           Cardinality({i \in 1..(Len(seqs[e]) - 1) : Steps(seqs[e])[i] = <<from, to>>})])
Support(seqs, from) == Sigma([t \in Tactics |-> CountOf(seqs, from, t)])
Rounded(n, d) == (2 * n * Micro + d) \div (2 * d)
Transmat(seqs, alpha) ==
  [from \in Tactics |-> [to \in Tactics |->
    IF Support(seqs, from) = 0 THEN Rounded(1, Cardinality(Tactics))
    ELSE Rounded(CountOf(seqs, from, to) + alpha,
                 Support(seqs, from) + alpha * Cardinality(Tactics))]]
StartProb(seqs, alpha) ==
  [t \in Tactics |-> Rounded(Cardinality({e \in DOMAIN seqs : seqs[e][1] = t}) + alpha,
                             Cardinality(DOMAIN seqs) + alpha * Cardinality(Tactics))]

(* insufficient_data below either floor.                                   *)
Transitions(seqs) == Sigma([e \in DOMAIN seqs |-> Len(seqs[e]) - 1])
Fits(seqs, minSequences, minTransitions) ==
  Cardinality(DOMAIN seqs) >= minSequences /\ Transitions(seqs) >= minTransitions

(* validate_model, which every load of a stored model passes.              *)
SumsToOne(row) == Sigma(row) - Micro \in -Tolerance..Tolerance
Loadable(start, transmat) ==
  /\ SumsToOne(start)
  /\ DOMAIN transmat = DOMAIN start
  /\ \A from \in DOMAIN transmat :
       SumsToOne(transmat[from]) /\ \A t \in DOMAIN start : transmat[from][t] \in 0..Micro

(* predict_next_markov: the last known tactic of the sequence is the row   *)
(* to read; without one the answer is uniform.                             *)
Anchor(sequence) ==
  LET known == {i \in 1..Len(sequence) : sequence[i] # Unknown}
  IN  IF known = {} THEN Unknown ELSE sequence[Max(known)]
PredictNext(seqs, alpha, sequence) ==
  IF Anchor(sequence) = Unknown THEN [t \in Tactics |-> Rounded(1, Cardinality(Tactics))]
                                ELSE Transmat(seqs, alpha)[Anchor(sequence)]
-----------------------------------------------------------------------------
(* A hidden Markov model: weights start, trans and emit over States.       *)
RollOn(weights, trans) ==
  [to \in DOMAIN weights |-> Sigma([from \in DOMAIN weights |-> weights[from] * trans[from][to]])]

(* _forward_gamma and _volume_forward_last: the weight of each state after *)
(* the observed sequence.                                                  *)
Forward(model, observed) ==
  LET gamma[n \in 0..Len(observed)] ==
        IF n = 0 THEN model.start
        ELSE [s \in DOMAIN model.start |-> gamma[n - 1][s] * model.emit[s][observed[n]]]
  IN  gamma[Len(observed)]

(* predict_next_hmm and the first step of predict_volume: the posterior    *)
(* rolled one step ahead; a collapsed posterior is the prior, or nothing.  *)
NextState(model, observed) ==
  LET gamma == Forward(model, observed)
  IN  RollOn(IF Sigma(gamma) = 0 THEN model.start ELSE gamma, model.trans)

(* _peak_probability: what is left of the posterior after horizon steps    *)
(* outside the target states.                                              *)
Safe(weights, target) == [s \in DOMAIN weights |-> IF s \in target THEN 0 ELSE weights[s]]
SurvivingLate(weights, trans, target, horizon) ==       (* a variant: now is no peak *)
  LET safe[n \in Nat] == IF n = 0 THEN weights ELSE Safe(RollOn(safe[n - 1], trans), target)
  IN  Sigma(safe[horizon])
Surviving(weights, trans, target, horizon) ==
  LET safe[n \in Nat] == IF n = 0 THEN Safe(weights, target)
                                  ELSE Safe(RollOn(safe[n - 1], trans), target)
  IN  Sigma(safe[horizon])
-----------------------------------------------------------------------------
(* Definitions to hold these against.                                      *)

(* The weight of never meeting the target, computed from the far end.      *)
Missing(trans, target, horizon) ==
  LET miss[n \in Nat] == [s \in DOMAIN trans |->
        IF s \in target THEN 0
        ELSE IF n = 0 THEN 1
        ELSE Sigma([t \in DOMAIN trans |-> trans[s][t] * miss[n - 1][t]])]
  IN  miss[horizon]
=============================================================================
