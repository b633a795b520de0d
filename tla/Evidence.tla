------------------------------ MODULE Evidence ------------------------------
(***************************************************************************)
(* What a tool's answer owes to the sources it asked.  A question is a     *)
(* call of a tool: its options, and what every source would return: a      *)
(* number of hits or scores, or Lost when the request fails.  A tool maps  *)
(* a question to an answer, by its own guards and early returns.           *)
(***************************************************************************)
EXTENDS Integers, FiniteSets

Lost == -1          (* the request of a source failed                      *)
Most == 3           (* the most that a source returns                      *)
Outcomes == {Lost, 0, 1, Most}

(* A view is a set of sources that stand in for one another: an answer     *)
(* that shows it needs one of them.  names are the sources whose failure   *)
(* the answer tells, and claim says whether it calls itself complete.      *)
Refusal == [status |-> "error", views |-> {}, names |-> {}, verdict |-> "none", claim |-> "none"]

Told(views, names, verdict) ==
  [status |-> "ok", views |-> views, names |-> names, verdict |-> verdict, claim |-> "none"]

Claiming(answer, claim) == [answer EXCEPT !.claim = claim]

Each(sources) == {{s} : s \in sources}

Has(q, option) == option \in q.opts
IsLost(q, s) == q.out[s] = Lost
AllLost(q, sources) == \A s \in sources : IsLost(q, s)
LostOf(q, sources) == {s \in sources : IsLost(q, s)}

(* A source that failed counts as one that found nothing wherever the code *)
(* reads a missing key with a default of 0.                                *)
HitsOf(q, s) == IF IsLost(q, s) THEN 0 ELSE q.out[s]

(* A tool that refuses to run when its service is not configured, one that *)
(* is nothing without the request s, one that tells what became of each of *)
(* its items, and one that some failures of a request end.                 *)
Configured(q, answer) == IF Has(q, "unconfigured") THEN Refusal ELSE answer
FromQuery(q, s, answer) == IF IsLost(q, s) THEN Refusal ELSE answer
Single(q, s) == FromQuery(q, s, Told({{s}}, {}, "none"))
ItemByItem(q, items) == Told(Each(items), LostOf(q, items), "none")
Uncaught(q, sources, answer) ==
  IF Has(q, "uncaught") /\ LostOf(q, sources) # {} THEN Refusal ELSE answer

(* The calls of a tool: with any of the options, or with chosen ones.      *)
Calling(tool, sources, outcomes, choices) ==
  [tool : {tool}, out : [sources -> outcomes], opts : choices]
CallsOf(tool, sources, options) == Calling(tool, sources, Outcomes, SUBSET options)
-----------------------------------------------------------------------------
(* Every view that an answer shows had a source that answered, or the      *)
(* answer tells of one that did not.                                       *)
Sighted(q, answer, view) ==
  \/ \E s \in view : ~IsLost(q, s)
  \/ view \cap answer.names # {}

(* Nothing is told to have failed that did not.                            *)
Truthful(q, answer) == \A s \in answer.names : IsLost(q, s)
=============================================================================
