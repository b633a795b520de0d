---------------------------- MODULE PlaybookGraph ----------------------------
(***************************************************************************)
(* The playbook graph (agents/playbook_graph.py): select a hunt template,  *)
(* run the hunt, and let the supervisor investigate, climb the ladder of   *)
(* fallback templates, or give up.  The mapping from rule groups to        *)
(* templates is loaded once from the Wazuh manager, in the first run.      *)
(***************************************************************************)
EXTENDS Integers, Sequences, SequencesExt

CONSTANTS
  Templates,      (* hunt templates                                        *)
  Ladder,         (* _RETRY_TEMPLATES, its first the fallback template     *)
  Runs,           (* concurrent runs of run_playbook                       *)
  NoAddress       (* no source address                                     *)

ASSUME PlaybookAssumption == Ladder \in Seq(Templates) /\ Len(Ladder) > 0

VARIABLES
  liveIndex,      (* "unasked", "asked", "loaded", "unavailable"           *)
  run             (* PlaybookState of each run, and where it is            *)

playbookVars == <<liveIndex, run>>

Found == {"hunted"}          (* the top address of a hunt that found some  *)
PlaybookStages == {"new", "select", "hunt", "supervise", "investigate", "end"}

NewRun == [at |-> "new", text |-> FALSE, srcip |-> NoAddress, explicit |-> FALSE,
           template |-> Ladder[1], srcips |-> {}, selected |-> NoAddress, retry |-> 0,
           tried |-> {}, investigated |-> FALSE, errors |-> 0]

PlaybookInit == liveIndex = "unasked" /\ run = [r \in Runs |-> NewRun]

(* The request; the first run also asks the manager for its rules, and     *)
(* those that come meanwhile do not wait for the answer.                   *)
StartPlaybook(r) ==
  /\ run[r].at = "new"
  /\ \E text \in BOOLEAN, srcip \in {NoAddress, "given"}, t \in Templates, explicit \in BOOLEAN :
       run' = [run EXCEPT ![r].at = "select", ![r].text = text, ![r].srcip = srcip,
                          ![r].template = t, ![r].explicit = explicit]
  /\ liveIndex' = IF liveIndex = "unasked" THEN "asked" ELSE liveIndex

RulesAnswer ==
  /\ liveIndex = "asked"
  /\ liveIndex' \in {"loaded", "unavailable"}
  /\ UNCHANGED run

(* select_playbook: the explicit template, one of the technique or of the  *)
(* rule groups by the index there is, or the fallback.                     *)
Select(r) ==
  /\ run[r].at = "select"
  /\ \E t \in IF run[r].explicit THEN {run[r].template} ELSE Templates :
       run' = [run EXCEPT ![r].at = "hunt", ![r].template = t]
  /\ UNCHANGED liveIndex

(* run_hunt: addresses or none; an error or a timeout finds none either,   *)
(* and is recorded.                                                        *)
Hunt(r) ==
  /\ run[r].at = "hunt"
  /\ \E found \in {{}, Found}, failed \in BOOLEAN :
       /\ failed => found = {}
       /\ run' = [run EXCEPT ![r].at = "supervise", ![r].srcips = found,
                             ![r].tried = @ \cup {run[r].template},
                             ![r].errors = IF failed THEN @ + 1 ELSE @]
  /\ UNCHANGED liveIndex

(* A variant the properties must tell from the code: the ladder from its   *)
(* second rung.                                                            *)
RungAbove(s) == IF s.retry = 0 THEN 1 ELSE s.retry

(* The next rung: not the template that has just been hunted.              *)
Rung(s) == IF s.retry < Len(Ladder) /\ Ladder[s.retry + 1] = s.template THEN s.retry + 1 ELSE s.retry

(* supervise                                                               *)
Supervise(r) ==
  LET s == [run[r] EXCEPT !.selected = IF run[r].srcips # {} /\ @ = NoAddress
                                       THEN CHOOSE a \in run[r].srcips : TRUE ELSE @]
  IN /\ run[r].at = "supervise"
     /\ run' = [run EXCEPT ![r] =
          IF s.selected # NoAddress \/ s.srcip # NoAddress \/ s.text
          THEN [s EXCEPT !.at = "investigate"]
          ELSE IF s.retry < Len(Ladder) /\ Rung(s) < Len(Ladder)
          THEN [s EXCEPT !.at = "hunt", !.template = Ladder[Rung(s) + 1], !.retry = Rung(s) + 1]
          ELSE [s EXCEPT !.at = "end"]]
     /\ UNCHANGED liveIndex

(* investigate: the hunted address before the given one.                   *)
Investigate(r) ==
  /\ run[r].at = "investigate"
  /\ \E failed \in BOOLEAN :
       run' = [run EXCEPT ![r].at = "end", ![r].investigated = ~failed,
                          ![r].errors = IF failed THEN @ + 1 ELSE @]
  /\ UNCHANGED liveIndex

PlaybookNext == RulesAnswer \/ \E r \in Runs : \/ StartPlaybook(r) \/ Select(r) \/ Hunt(r)
                                               \/ Supervise(r) \/ Investigate(r)

(* Every node has its timeout and the graph goes on by itself.             *)
PlaybookFairness ==
  \A r \in Runs : WF_playbookVars(Select(r) \/ Hunt(r) \/ Supervise(r) \/ Investigate(r))
PlaybookSpec == PlaybookInit /\ [][PlaybookNext]_playbookVars /\ PlaybookFairness
-----------------------------------------------------------------------------
PlaybookTypeOK ==
  /\ liveIndex \in {"unasked", "asked", "loaded", "unavailable"}
  /\ \A r \in Runs : /\ run[r].at \in PlaybookStages /\ run[r].template \in Templates
                     /\ run[r].retry \in 0 .. Len(Ladder)
                     /\ run[r].srcips \in {{}, Found}
                     /\ run[r].tried \subseteq Templates

(* A run that ends with nothing to investigate has tried its own template  *)
(* and every one of the ladder, whichever template it began with.          *)
GivesUpAfterAll ==
  \A r \in Runs : run[r].at = "end" /\ run[r].selected = NoAddress
                  /\ run[r].srcip = NoAddress /\ ~run[r].text
    => ToSet(Ladder) \subseteq run[r].tried

(* A run ends: the ladder is climbed once.                                 *)
PlaybookEnds == \A r \in Runs : run[r].at = "select" ~> run[r].at = "end"
=============================================================================
