----------------------------- MODULE MCToolCalls ----------------------------
(* What a tool call goes through, and what tools compute, side by side;    *)
(* see MCServices for focus.                                               *)
EXTENDS ApiCall, RapidApi, ThreeSum, CoreQuestions, AlertPaging,
        AuditLog, PlaybookGraph, ToolAnswers

CONSTANT Areas      (* what this run looks at                              *)
VARIABLE focus

MCLadder == <<"c2", "lateral", "parent">>

(* Five alerts, of which two and two share a timestamp and one is too      *)
(* large; pages of two of which a markdown answer renders one.             *)
MCAlerts == 1 .. 5
MCAt == <<1, 1, 2, 3, 3>>

(* Two addresses of one cluster: the first may act in every category, the  *)
(* second reconnoitres.                                                    *)
MCSuspects == {"first", "second"}
MCMates == [s \in MCSuspects |-> MCSuspects]
Amount(hour, week) == [w \in Spans |-> IF w = "week" THEN week ELSE hour]
MCLevels ==
  {[s \in MCSuspects |-> IF s = "first" THEN r
                         ELSE [c \in Categories |-> IF c = "A" THEN Amount(15, 15) ELSE Amount(0, 0)]] :
     r \in [Categories -> {Amount(0, 0), Amount(0, 20), Amount(20, 20)}]}
MCSuspicion == [s \in MCSuspects |-> IF s = "second" THEN 12 ELSE 0]
MCEven == [c \in Categories |-> 1]
MCBoosts == {Nothing, [Nothing EXCEPT !["A"] = 10, !["C"] = 8]}
MCRequest == [a |-> TRUE, b |-> FALSE, graph |-> FALSE, tiers |-> FALSE, threshold |-> 35,
              weights |-> MCEven, boost |-> Nothing]
MCRequests ==
  {[MCRequest EXCEPT !.graph = graph, !.threshold = threshold, !.boost = boost] :
     graph \in BOOLEAN, threshold \in {35, 50}, boost \in MCBoosts}
  \cup {[MCRequest EXCEPT !.graph = graph, !.threshold = 50,
                          !.weights = [MCEven EXCEPT !["B"] = 0, !["C"] = 2]] : graph \in BOOLEAN}
  \cup {[MCRequest EXCEPT !.a = a, !.tiers = TRUE] : a \in BOOLEAN}
  \cup {[MCRequest EXCEPT !.a = a, !.b = TRUE] : a \in BOOLEAN}

(* Three rows of alerts of two entities; three fits of at most two         *)
(* clusters; two hidden states of which one emits each of two observations *)
(* more often; three sightings at different or equal times.                *)
MCAlertRows ==
  {<<x, y, z>> : x, y, z \in
     [entity : {"e", "f"}, at : 0..2, tactics : {<<"recon">>, <<"impact", "recon">>, <<"other">>}]}
MCClusters == [centroid : {0, 2, 3}, radius : {1, 2}]
MCFits == {<<>>} \cup {<<x>> : x \in MCClusters} \cup
          {<<x, y>> : x \in [centroid : {0, 2}, radius : {1}], y \in MCClusters}
MCFitHistories == {<<x, y, z>> : x, y, z \in MCFits}
MCHidden == {"calm", "burst"}
MCModels ==
  [start : {[calm |-> 1, burst |-> 0], [calm |-> 1, burst |-> 1]},
   trans : {[s \in MCHidden |-> [t \in MCHidden |-> IF s = t THEN stay ELSE 3 - stay]] : stay \in 0..3},
   emit : {[calm |-> [few |-> 2, many |-> less], burst |-> [few |-> 1, many |-> 2]] : less \in 0..1}]
MCContexts == {<<>>} \cup {<<x>> : x \in {"few", "many"}} \cup
              {<<x, y>> : x, y \in {"few", "many"}}
MCSightings ==
  {S \in SUBSET [at : 0..2, source : 1..2, country : {0, 1}] : Cardinality(S) <= 4}
-----------------------------------------------------------------------------
toolCallVars == <<focus, vars, rapidVars, auditVars, playbookVars,
                  threeSumVars, question, pagingVars, exchange>>

(* An area has one initial state in the behaviours of another.             *)
OneInitialState ==
  /\ focus # "rapid" => \A c \in Callers : key[c] = "x"
  /\ focus # "threeSum" => levels = CHOOSE r \in Levels : TRUE
  /\ focus # "paging" => index = {}

ToolCallsInit ==
  /\ focus \in Areas
  /\ Init /\ RapidInit /\ AuditInit /\ PlaybookInit
  /\ ThreeSumInit /\ CoresInit /\ PagingInit /\ ToolsInit
  /\ OneInitialState

Http == focus = "http" /\ Next /\ UNCHANGED <<focus, rapidVars, auditVars,
            playbookVars, threeSumVars, question, pagingVars, exchange>>
Rapid == focus = "rapid" /\ RapidNext /\ UNCHANGED <<focus, vars,
            auditVars, playbookVars, threeSumVars, question, pagingVars,
            exchange>>
Audit == focus = "audit" /\ AuditNext /\ UNCHANGED <<focus, vars,
            rapidVars, playbookVars, threeSumVars, question, pagingVars,
            exchange>>
Playbook == focus = "playbook" /\ PlaybookNext /\ UNCHANGED <<focus, vars,
            rapidVars, auditVars, threeSumVars, question, pagingVars,
            exchange>>
ThreeSums == focus = "threeSum" /\ ThreeSumNext /\ UNCHANGED <<focus, vars,
            rapidVars, auditVars, playbookVars, question, pagingVars,
            exchange>>
Cores == focus = "cores" /\ Pose /\ UNCHANGED <<focus, vars, rapidVars,
            auditVars, playbookVars, threeSumVars, pagingVars, exchange>>
Paging == focus = "paging" /\ PagingNext /\ UNCHANGED <<focus, vars,
            rapidVars, auditVars, playbookVars, threeSumVars, question,
            exchange>>
Tools == focus = "tools" /\ ToolsNext /\ UNCHANGED <<focus, vars,
            rapidVars, auditVars, playbookVars, threeSumVars, question,
            pagingVars>>

ToolCallsNext ==
  \/ Http
  \/ Rapid
  \/ Audit
  \/ Playbook
  \/ ThreeSums
  \/ Cores
  \/ Paging
  \/ Tools

(* The fairness of each area.  What the others are fair to is disabled     *)
(* outside their own behaviours.                                           *)
HttpFairness ==
  /\ \A c \in Calls : WF_vars(Respond(c)) /\ WF_vars(Retry(c))
  /\ WF_vars(focus = "http" /\ Tick)
  /\ WF_vars(focus = "http" /\ \E c \in Calls : Start(c))

ToolCallsSpec ==
  /\ ToolCallsInit /\ [][ToolCallsNext]_toolCallVars
  /\ HttpFairness /\ RapidFairness /\ AuditFairness /\ PlaybookFairness
-----------------------------------------------------------------------------
(* Every area keeps its types.                                             *)
CallsTypeOK ==
  /\ TypeOK /\ RapidTypeOK /\ AuditTypeOK /\ PlaybookTypeOK
  /\ ThreeSumTypeOK /\ PagingTypeOK

(* Every request comes to its end, and every playbook to the end of its    *)
(* ladder.                                                                 *)
EveryCallEnds == CallsFinish /\ PlaybookEnds
=============================================================================
