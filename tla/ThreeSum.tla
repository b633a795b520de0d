----------------------------- MODULE ThreeSum ------------------------------
(***************************************************************************)
(* three_sum_correlation: which sources carry a chained attack.  Engine A  *)
(* asks the indexer for the sources of each of three alert categories and  *)
(* flags those that several categories share; engine B flags the buckets   *)
(* of time in which all three categories spike.  A call excludes what the  *)
(* analysts called false positives, may run the engines again over two     *)
(* shorter windows, and leaves its result for calls that accept a          *)
(* throttled one.                                                          *)
(*                                                                         *)
(* A source is worth, in a category and a window, the rule levels of its   *)
(* alerts there times the weights of their tactics: levels, any amounts.   *)
(***************************************************************************)
EXTENDS Integers, FiniteSets, Sequences, FiniteSetsExt

CONSTANTS
  Suspects,     (* source addresses                                        *)
  Mates,        (* the attack graph: the cluster of each address           *)
  Levels,       (* what each address is worth by category and window       *)
  Suspicion,    (* what the graph adds: rank and registry bonus            *)
  Vulnerable,   (* the address a call's vulnerability context is about     *)
  Requests,     (* parameters of the calls                                 *)
  MaxCalls      (* bound: calls of a behaviour                             *)

Categories == {"A", "B", "C"}
Windows == <<"hour", "day", "week">>          (* _MULTI_RES_TIERS          *)
Spans == {"hour", "day", "week"}       (* week: the window of the call    *)
TriggerAt == [hour |-> 50, day |-> 40]                 (* of the other two *)

ASSUME ThreeSumAssumption ==
  /\ IsFiniteSet(Suspects) /\ Mates \in [Suspects -> SUBSET Suspects]
  /\ Levels \subseteq [Suspects -> [Categories -> [Spans -> Nat]]]
  /\ Suspicion \in [Suspects -> Nat]
  /\ Vulnerable \in Suspects
  /\ Requests \subseteq [a : BOOLEAN, b : BOOLEAN, graph : BOOLEAN, tiers : BOOLEAN, threshold : Nat,
                          weights : [Categories -> Nat], boost : [Categories -> Nat]]
  /\ MaxCalls \in Nat

VARIABLES
  levels,         (* what the indexer holds: an element of Levels          *)
  suppressed,     (* false positives in the history and in the KB          *)
  call,           (* the call in progress                                  *)
  said,           (* the last answer, which the throttle keeps             *)
  calls

threeSumVars == <<levels, suppressed, call, said, calls>>

Stages == {"idle", "cluster", "engineA", "engineB", "tiers"}
Nothing == [c \in Categories |-> 0]
NoCall == [stage |-> "idle", a |-> FALSE, b |-> FALSE, graph |-> FALSE, tiers |-> FALSE,
           threshold |-> 0, weights |-> Nothing, boost |-> Nothing, without |-> {}, triggers |-> {},
           failedA |-> 0, anomalies |-> 0, failedB |-> 0]
NoAnswer == [kind |-> "none", triggers |-> {}, anomalies |-> 0, without |-> {}, degraded |-> FALSE,
             graph |-> FALSE, threshold |-> 0, weights |-> Nothing, boost |-> Nothing, whole |-> FALSE,
             slow |-> {}, burst |-> {}, steady |-> {}]
-----------------------------------------------------------------------------
(* A variant that forgets the exclusions.                                  *)
ScoresAnyone(window, answered, without) ==
  [c \in Categories |-> [s \in Suspects |-> IF c \in answered THEN levels[s][c][window] ELSE 0]]

(* What a category is worth to each source that is not excluded.  (The     *)
(* tactic or technique of an alert, or else its rule groups, say which     *)
(* category it is of.)  The vulnerability context of a call, risk_score/10 *)
(* in each category of its techniques, is one more entry of one source:    *)
(* the higher one counts.                                                  *)
Scores(window, answered, without) ==
  [c \in Categories |-> [s \in Suspects |->
    IF c \in answered /\ s \notin without THEN levels[s][c][window] ELSE 0]]
Higher(m, n) == IF m >= n THEN m ELSE n
Boosted(scores, without, boost) ==
  [c \in Categories |-> [s \in Suspects |->
    IF s = Vulnerable /\ s \notin without THEN Higher(scores[c][s], boost[c]) ELSE scores[c][s]]]

(* _coverage: with the attack graph an address has the best score of its   *)
(* cluster.                                                                *)
Coverage(scores, c, s, graph) ==
  Max({scores[c][t] : t \in {s} \cup (IF graph THEN Mates[s] ELSE {})})

(* The weighted sum of an address over the categories, and what the graph  *)
(* suspects of it.                                                         *)
WeightedSum(worth, weights, s, graph) ==
  weights["A"] * worth["A"] + weights["B"] * worth["B"] + weights["C"] * worth["C"]
    + (IF graph THEN Suspicion[s] ELSE 0)

(* evaluate_engine_a: a source of some category that covers two of them,   *)
(* with a total that reaches the threshold.                                *)
EngineA(scores, graph, threshold, weights) ==
  LET cover(s) == [c \in Categories |-> Coverage(scores, c, s, graph)]
  IN  {s \in Suspects : /\ \E c \in Categories : scores[c][s] > 0
                        /\ Cardinality({c \in Categories : cover(s)[c] > 0}) >= 2
                        /\ WeightedSum(cover(s), weights, s, graph) >= threshold}

(* evaluate_engine_b over three series of scores (2 reaches the threshold, *)
(* 1 only the shoulder): a bucket counts where all three reach it, and all *)
(* three reach the shoulder in a bucket beside it.                         *)
Length(z) == Min({Len(z[c]) : c \in Categories})
AllReach(z, i, level) == i \in 1..Length(z) /\ \A c \in Categories : z[c][i] >= level
EngineB(z) == Cardinality({i \in 1..Length(z) : /\ AllReach(z, i, 2)
                                                /\ AllReach(z, i - 1, 1) \/ AllReach(z, i + 1, 1)})
Series == {<<0, 0>>, <<2, 0>>, <<2, 1>>}

(* evaluate_multi_resolution: its argument lists the triggers of three     *)
(* runs, in the order of the list.                                         *)
Persistent(runs) == runs[1] \cap runs[2] \cap runs[3]
SlowBurn(runs) == runs[3] \ (runs[1] \cup runs[2])
BurstOnly(runs) == runs[1] \ (runs[2] \cup runs[3])
-----------------------------------------------------------------------------
ThreeSumTypeOK ==
  /\ levels \in Levels
  /\ suppressed \in [{"history", "kb"} -> SUBSET Suspects]
  /\ call.stage \in Stages
  /\ call.without \in SUBSET Suspects /\ call.triggers \in SUBSET Suspects
  /\ call.failedA \in 0..3 /\ call.failedB \in 0..3
  /\ call.anomalies \in 0..2
  /\ calls \in 0..MaxCalls
  /\ said.kind \in {"none", "fresh", "replayed"}
  /\ said.triggers \in SUBSET Suspects

ThreeSumInit ==
  /\ levels \in Levels
  /\ suppressed = [k \in {"history", "kb"} |-> {}]
  /\ call = NoCall
  /\ said = NoAnswer
  /\ calls = 0

(* A throttled call takes the last result of any caller, whatever that     *)
(* caller asked.                                                           *)
ReplayLast ==
  /\ call.stage = "idle"
  /\ said.kind # "none"
  /\ said' = [said EXCEPT !.kind = "replayed"]
  /\ UNCHANGED <<levels, suppressed, call, calls>>

(* The exclusions are read once, when the call begins; a history that      *)
(* cannot be read excludes nothing.                                        *)
Excluded(readable) == (IF readable THEN suppressed["history"] ELSE {}) \cup suppressed["kb"]

Correlate(request) ==
  /\ call.stage = "idle" /\ calls < MaxCalls
  /\ \E readable \in BOOLEAN :
       call' = [NoCall EXCEPT !.stage = IF request.graph THEN "cluster" ELSE "engineA",
                              !.a = request.a, !.b = request.b, !.graph = request.graph,
                              !.tiers = request.tiers, !.boost = request.boost,
                              !.threshold = request.threshold, !.weights = request.weights,
                              !.without = Excluded(readable)]
  /\ calls' = calls + 1
  /\ UNCHANGED <<levels, suppressed, said>>

(* build_attack_graph; what it raises leaves the call.                     *)
BuildGraph ==
  /\ call.stage = "cluster"
  /\ \/ call' = [call EXCEPT !.stage = "engineA"]
     \/ call' = NoCall
  /\ UNCHANGED <<levels, suppressed, said, calls>>

(* The three source queries run together; a failed one is an empty         *)
(* category.                                                               *)
RunA ==
  /\ call.stage = "engineA"
  /\ IF call.a
     THEN \E answered \in SUBSET Categories :
            call' = [call EXCEPT !.stage = "engineB",
                                 !.failedA = 3 - Cardinality(answered),
                                 !.triggers = EngineA(Boosted(Scores("week", answered, call.without),
                                                              call.without, call.boost),
                                                      call.graph, call.threshold, call.weights)]
     ELSE call' = [call EXCEPT !.stage = "engineB"]
  /\ UNCHANGED <<levels, suppressed, said, calls>>

(* A failed histogram is an empty series, and the shortest series bounds   *)
(* the comparison.                                                         *)
RunB ==
  /\ call.stage = "engineB"
  /\ IF call.b
     THEN \E answered \in SUBSET Categories, z \in [Categories -> Series] :
            call' = [call EXCEPT !.stage = "tiers",
                                 !.failedB = 3 - Cardinality(answered),
                                 !.anomalies = EngineB([c \in Categories |->
                                                 IF c \in answered THEN z[c] ELSE <<>>])]
     ELSE call' = [call EXCEPT !.stage = "tiers"]
  /\ UNCHANGED <<levels, suppressed, said, calls>>

(* An enabled engine whose three queries all failed degrades the answer.   *)
Degraded(k) == (k.a /\ k.failedA = 3) \/ (k.b /\ k.failedB = 3)

(* The result of this call is the first of the three runs; the other two   *)
(* look at neither the attack graph nor the vulnerability context, and     *)
(* have thresholds of their own.                                           *)
TierRuns(now, k, answered) ==
  <<now>> \o [i \in 1..2 |->
    IF k.a THEN EngineA(Scores(Windows[i], answered[i], k.without), FALSE,
                       TriggerAt[Windows[i]], k.weights)
           ELSE {}]

(* The answer, with the two shorter windows when they were asked for, is   *)
(* kept for throttled callers.                                             *)
Conclude ==
  /\ call.stage = "tiers"
  /\ \E answered \in [1..2 -> SUBSET Categories] :
       LET runs == IF call.tiers THEN TierRuns(call.triggers, call, answered) ELSE <<{}, {}, {}>>
       IN /\ ~call.tiers => \A i \in 1..2 : answered[i] = {}
          /\ said' = [kind |-> "fresh", triggers |-> call.triggers, anomalies |-> call.anomalies,
                      without |-> call.without, degraded |-> Degraded(call),
                      graph |-> call.graph, threshold |-> call.threshold,
                      weights |-> call.weights, boost |-> call.boost,
                      whole |-> call.a /\ call.failedA = 0,
                      slow |-> SlowBurn(runs), burst |-> BurstOnly(runs), steady |-> Persistent(runs)]
  /\ call' = NoCall
  /\ UNCHANGED <<levels, suppressed, calls>>

(* mark_investigated calls a source a false positive, in both stores; the  *)
(* KB forgets it after its time to live.                                   *)
Suppress(s) ==
  /\ s \notin suppressed["history"]
  /\ suppressed' = [k \in {"history", "kb"} |-> suppressed[k] \cup {s}]
  /\ UNCHANGED <<levels, call, said, calls>>

ForgetKb(s) ==
  /\ s \in suppressed["kb"]
  /\ suppressed' = [suppressed EXCEPT !["kb"] = @ \ {s}]
  /\ UNCHANGED <<levels, call, said, calls>>

ThreeSumNext ==
  \/ ReplayLast
  \/ \E request \in Requests : Correlate(request)
  \/ BuildGraph \/ RunA \/ RunB \/ Conclude
  \/ \E s \in Suspects : Suppress(s) \/ ForgetKb(s)

ThreeSumSpec == ThreeSumInit /\ [][ThreeSumNext]_threeSumVars
-----------------------------------------------------------------------------
(* A chain read off the evidence, without the engine: of each category one *)
(* address that is not suppressed, the source itself or with the graph one *)
(* of its cluster; two of the categories show something, and what they     *)
(* show weighs as much as the call asked for.                              *)
Party(s, answer) == {s} \cup (IF answer.graph THEN Mates[s] ELSE {})
Shown(t, c, answer) ==
  Higher(levels[t][c]["week"], IF t = Vulnerable THEN answer.boost[c] ELSE 0)
Chain(s, pick, answer) ==
  /\ Cardinality({c \in Categories : Shown(pick[c], c, answer) > 0}) >= 2
  /\ WeightedSum([c \in Categories |-> Shown(pick[c], c, answer)], answer.weights, s, answer.graph)
       >= answer.threshold
Chained(s, answer) ==
  \E pick \in [Categories -> Party(s, answer) \ answer.without] : Chain(s, pick, answer)

(* A flagged source was not suppressed when the call began, and the        *)
(* evidence holds a chain for it that reaches the threshold the call asked *)
(* for without any suppressed source; and when every query answered, no    *)
(* source of its own alerts that has such a chain is missed.               *)
TriggersEarned ==
  said.kind # "none" =>
    /\ \A s \in said.triggers : s \notin said.without /\ Chained(s, said)
    /\ said.whole => \A s \in Suspects \ said.without :
         (\E c \in Categories : Shown(s, c, said) > 0) /\ Chained(s, said) => s \in said.triggers
=============================================================================
