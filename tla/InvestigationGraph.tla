------------------------- MODULE InvestigationGraph -------------------------
(***************************************************************************)
(* The investigation workflow, agents/investigation_graph.py: twelve nodes *)
(* over a shared state, conditional routes, and a durable thread per       *)
(* subject (BLUETEAM_LANGGRAPH_DB) that later runs of the subject start    *)
(* from.                                                                   *)
(*                                                                         *)
(* LangGraph runs the nodes; of it the model keeps what the module relies  *)
(* on: ainvoke loads the thread's last checkpoint, applies the input to    *)
(* it, then runs one node after another on the run's own copy of the       *)
(* channels, saving the copy as the thread's last checkpoint after each.   *)
(* Nothing locks a thread: two runs of one subject overlap freely.  A node *)
(* is one action, as nobody else reads a run's channels while it works.    *)
(***************************************************************************)
EXTENDS Integers, Sequences, FiniteSets

CONSTANTS
  Runs,       (* calls of run_investigation                                *)
  Plans,      (* each gives every run its request, and its fate: what the  *)
              (* calls of each node meet - an answer, a failure, no answer *)
              (* within BLUETEAM_LANGGRAPH_NODE_TIMEOUT, or a feature that *)
              (* is switched off                                           *)
  LogCap      (* _STEP_LOG_CAP                                             *)

Nodes == {"recall", "extract", "fp_check", "enrich", "vuln", "correlate",
          "cluster", "label", "analytics", "baseline", "report", "verdict"}

(* The output channels.                                                    *)
Channels == {"extract_iocs", "fp_validation", "enrichment", "vulnerabilities",
             "correlation", "clusters", "incident_label", "attack_graph",
             "killchain", "baseline", "report_path", "verdict", "recalled_memory"}

(* What the alert text holds: there is none, it names no indicator, it     *)
(* names addresses and vulnerabilities.                                    *)
Texts == {"none", "plain", "iocs"}
Requests == [srcip : BOOLEAN, text : Texts, manifest : BOOLEAN,
             check_false_positive : BOOLEAN, generate_report : BOOLEAN, record_verdict : BOOLEAN]

Fates == [Nodes -> {"ok", "off", "fails", "stalls"}]

ASSUME GraphAssumption ==
  /\ Plans \subseteq [Runs -> [request : Requests, fate : Fates]]
  /\ LogCap \in Nat \ {0}

VARIABLES
  durable,    (* is the SQLite checkpointer configured                     *)
  thread,     (* the last checkpoint of each subject's thread              *)
  pc, req, fate,   (* of each run: the next node, its request, its fate    *)
  prior,      (* of each run: the run count and verdict read before it     *)
  mem,        (* of each run: its channels and logs                        *)
  (* History, read by the properties only:                                 *)
  path,       (* of each run: the steps it has logged                      *)
  failed,     (* of each run: the errors it has logged                     *)
  answer,     (* of each run: its validator's and its correlation's answer *)
  recorded,   (* the runs whose verdict was recorded                       *)
  inputs,     (* runs started on each subject's thread                     *)
  overlap     (* subjects whose runs have overlapped                       *)

vars == <<durable, thread, pc, req, fate, prior, mem, path, failed, answer, recorded, inputs, overlap>>

Ended == {"idle", "done", "crashed", "killed"}

NoValue == [run |-> "none", says |-> "none"]
Blank == [c \in Channels |-> NoValue]
NoPrior == [runs |-> 0, verdict |-> NoValue]
Fresh == [chan |-> Blank, log |-> <<>>, errs |-> <<>>, runs |-> 0]

(* _subject_for_run and thread_id_for: the address, else the text, else a  *)
(* thread of its own.                                                      *)
SubjectOf(q) == IF q.srcip THEN "srcip" ELSE IF q.text # "none" THEN "alert" ELSE "none"
Subjects == {"srcip", "alert"}
OnThread(r) == durable /\ SubjectOf(req[r]) \in Subjects

Entry(r, step) == [run |-> r, step |-> step]
Entries(r, steps) == [k \in 1 .. Len(steps) |-> Entry(r, steps[k])]
Marks(r) == Entry(r, "start")       (* _RUN_MARKER                         *)

CapsAtFront(prev, new) ==
  LET all == prev \o new IN SubSeq(all, 1, IF Len(all) < LogCap THEN Len(all) ELSE LogCap)
UncappedAdd(prev, new) == prev \o new
CappedAdd(prev, new) ==
  LET all == prev \o new IN SubSeq(all, IF Len(all) > LogCap THEN Len(all) - LogCap + 1 ELSE 1, Len(all))

(* _this_run: what follows the last marker; the whole log without one.     *)
Markers(log) == {k \in 1 .. Len(log) : log[k].step = "start"}
ThisRun(log) ==
  LET last == IF Markers(log) = {} THEN 0 ELSE CHOOSE k \in Markers(log) : \A j \in Markers(log) : j <= k
  IN SubSeq(log, last + 1, Len(log))

Init ==
  /\ durable \in BOOLEAN
  /\ thread = [s \in Subjects |-> Fresh]
  /\ pc = [r \in Runs |-> "idle"]
  /\ \E plan \in Plans : /\ req = [r \in Runs |-> plan[r].request]
                          /\ fate = [r \in Runs |-> plan[r].fate]
  /\ prior = [r \in Runs |-> NoPrior]
  /\ mem = [r \in Runs |-> Fresh]
  /\ path = [r \in Runs |-> <<>>] /\ failed = path
  /\ answer = [r \in Runs |-> [fp |-> "none", corr |-> "none"]]
  /\ recorded = {}
  /\ inputs = [s \in Subjects |-> 0]
  /\ overlap = {}

----------------------------------------------------------------------------
(* Routing.  extract_step always returns a dictionary with its keys, so    *)
(* any alert text makes a target.                                          *)

HasTargets(r) == mem[r].chan["extract_iocs"] # NoValue \/ req[r].srcip \/ req[r].manifest

AfterFpCheck(r, chan) ==
  IF chan["fp_validation"].says = "suppressed" THEN "verdict"
  ELSE IF HasTargets(r) THEN "enrich" ELSE "analytics"

VerdictOrEnd(r) == IF req[r].record_verdict THEN "verdict" ELSE "done"
AfterReport(r) == VerdictOrEnd(r)
AfterBaseline(r) == IF req[r].generate_report THEN "report" ELSE VerdictOrEnd(r)
AfterAnalytics(r) == IF mem[r].chan["correlation"].says = "flagged" THEN "baseline" ELSE AfterBaseline(r)

----------------------------------------------------------------------------
(* The start of a run.                                                     *)

(* The subject's earlier runs are read before this run's input lands.      *)
Begin(r) ==
  /\ pc[r] = "idle"
  /\ pc' = [pc EXCEPT ![r] = "input"]
  /\ prior' = [prior EXCEPT ![r] =
       IF OnThread(r)
       THEN [runs |-> thread[SubjectOf(req[r])].runs, verdict |-> thread[SubjectOf(req[r])].chan["verdict"]]
       ELSE NoPrior]
  /\ UNCHANGED <<durable, thread, req, fate, mem, path, failed, answer, recorded, inputs, overlap>>

(* The input applied to a checkpoint: every output channel reset, a marker *)
(* on both logs of a durable run, one more run.                            *)
ResetsCount(s, r) ==
  [chan |-> Blank, log |-> CappedAdd(s.log, <<Marks(r)>>), errs |-> CappedAdd(s.errs, <<Marks(r)>>), runs |-> 1]
Reset(s, r) ==
  [chan |-> Blank,
   log |-> IF durable THEN CappedAdd(s.log, <<Marks(r)>>) ELSE s.log,
   errs |-> IF durable THEN CappedAdd(s.errs, <<Marks(r)>>) ELSE s.errs,
   runs |-> s.runs + 1]

Saved(r) == IF OnThread(r) THEN [thread EXCEPT ![SubjectOf(req[r])] = mem'[r]] ELSE thread

Busy(s) == \E r \in Runs : pc[r] \notin Ended \cup {"input"} /\ SubjectOf(req[r]) = s

Input(r) ==
  LET s == SubjectOf(req[r])
  IN /\ pc[r] = "input"
     /\ mem' = [mem EXCEPT ![r] = Reset(IF OnThread(r) THEN thread[s] ELSE Fresh, r)]
     /\ thread' = Saved(r)
     /\ pc' = [pc EXCEPT ![r] = "recall"]
     /\ inputs' = IF OnThread(r) THEN [inputs EXCEPT ![s] = @ + 1] ELSE inputs
     /\ overlap' = IF Busy(s) THEN overlap \cup {s} ELSE overlap
     /\ UNCHANGED <<durable, req, fate, prior, path, failed, answer, recorded>>

----------------------------------------------------------------------------
(* The nodes.                                                              *)

Says(r, x) == [run |-> r, says |-> x]
Put(r, c, x) == [mem[r].chan EXCEPT ![c] = Says(r, x)]

(* A node ends: it has its channels, steps and errors merged into the      *)
(* run's state, which is saved, and the next node is due.                  *)
Update(r, chan, steps, errors) ==
  [chan |-> chan,
   log |-> CappedAdd(mem[r].log, Entries(r, steps)),
   errs |-> CappedAdd(mem[r].errs, Entries(r, errors)),
   runs |-> mem[r].runs]

Finish(r, node, chan, steps, errors, next) ==
  /\ pc[r] = node
  /\ mem' = [mem EXCEPT ![r] = Update(r, chan, steps, errors)]
  /\ thread' = Saved(r)
  /\ pc' = [pc EXCEPT ![r] = next]
  /\ path' = [path EXCEPT ![r] = @ \o steps]
  /\ failed' = [failed EXCEPT ![r] = @ \o errors]
  /\ UNCHANGED <<durable, req, fate, prior, inputs, overlap>>

(* A node that leaves its channel alone, and one that writes it.           *)
Skips(r, node, next) == Finish(r, node, mem[r].chan, <<node>>, <<>>, next)
Degrades(r, node, next) == Finish(r, node, mem[r].chan, <<node>>, <<node>>, next)
Writes(r, node, channel, next) == Finish(r, node, Put(r, channel, "set"), <<node>>, <<>>, next)

(* A run that ends without an answer: its last checkpoint is all that is   *)
(* left of it.                                                             *)
Gone(r, how) ==
  /\ pc' = [pc EXCEPT ![r] = how]
  /\ mem' = [mem EXCEPT ![r] = Fresh]
  /\ path' = [path EXCEPT ![r] = <<>>] /\ failed' = [failed EXCEPT ![r] = <<>>]
  /\ UNCHANGED <<durable, thread, req, fate, prior, inputs, overlap>>

Told == UNCHANGED <<answer, recorded>>

(* An unavailable store answers with an envelope that says so.             *)
Recall(r) ==
  /\ IF fate[r]["recall"] = "off" \/ SubjectOf(req[r]) = "none" THEN Skips(r, "recall", "extract")
     ELSE IF fate[r]["recall"] = "ok" THEN Writes(r, "recall", "recalled_memory", "extract")
     ELSE IF fate[r]["recall"] = "fails" THEN Degrades(r, "recall", "extract")
     ELSE Finish(r, "recall", Put(r, "recalled_memory", "set"), <<"recall">>, <<"recall">>, "extract")
  /\ Told

Extract(r) ==
  /\ IF req[r].text = "none" THEN Skips(r, "extract", "fp_check")
     ELSE Finish(r, "extract", Put(r, "extract_iocs", req[r].text), <<"extract">>, <<>>, "fp_check")
  /\ Told

(* The validator never raises: when its store fails it says so, and that   *)
(* is one of the answers that leave the route open.                        *)
FpCheck(r) ==
  LET skips == ~req[r].check_false_positive \/ ~req[r].srcip
  IN /\ \/ skips /\ Skips(r, "fp_check", AfterFpCheck(r, mem[r].chan)) /\ answer' = answer
        \/ /\ ~skips /\ fate[r]["fp_check"] = "stalls"
           /\ Degrades(r, "fp_check", AfterFpCheck(r, mem[r].chan)) /\ answer' = answer
        \/ /\ ~skips /\ fate[r]["fp_check"] # "stalls"
           /\ \E says \in {"suppressed", "open"} :
                LET chan == Put(r, "fp_validation", says)
                IN /\ Finish(r, "fp_check", chan, <<"fp_check">>, <<>>, AfterFpCheck(r, chan))
                   /\ answer' = [answer EXCEPT ![r].fp = says]
     /\ UNCHANGED recorded

(* A timeout's {errors, steps} is stored as the enrichment.                *)
Enrich(r) ==
  /\ IF ~req[r].srcip /\ mem[r].chan["extract_iocs"].says # "iocs" THEN Skips(r, "enrich", "vuln")
     ELSE IF fate[r]["enrich"] = "fails" THEN Degrades(r, "enrich", "vuln")
     ELSE Writes(r, "enrich", "enrichment", "vuln")
  /\ Told

(* Vulnerabilities of the text, and of the manifest when its scan answers; *)
(* a lookup that fails or stalls leaves an unscored entry.                 *)
Vuln(r) ==
  /\ \/ /\ mem[r].chan["extract_iocs"].says = "iocs" \/ (req[r].manifest /\ fate[r]["vuln"] = "ok")
        /\ Writes(r, "vuln", "vulnerabilities", "correlate")
     \/ /\ mem[r].chan["extract_iocs"].says # "iocs"
        /\ Skips(r, "vuln", "correlate")
  /\ Told

(* A timeout is no JSON text, and is recorded as such.                     *)
CorrelateUntimed(r) ==
  /\ fate[r]["correlate"] # "stalls"
  /\ \E says \in {"flagged", "quiet"} :
       /\ Finish(r, "correlate", Put(r, "correlation", says), <<"correlate">>, <<>>, "cluster")
       /\ answer' = [answer EXCEPT ![r].corr = says]
  /\ UNCHANGED recorded
Correlate(r) ==
  /\ IF fate[r]["correlate"] = "fails" THEN Degrades(r, "correlate", "cluster") /\ answer' = answer
     ELSE IF fate[r]["correlate"] = "stalls"
     THEN /\ Finish(r, "correlate", Put(r, "correlation", "error"), <<"correlate">>, <<"correlate">>, "cluster")
          /\ answer' = answer
     ELSE \E says \in {"flagged", "quiet"} :
            /\ Finish(r, "correlate", Put(r, "correlation", says), <<"correlate">>, <<>>, "cluster")
            /\ answer' = [answer EXCEPT ![r].corr = says]
  /\ UNCHANGED recorded

Cluster(r) ==
  /\ IF fate[r]["cluster"] = "off" \/ ~req[r].srcip THEN Skips(r, "cluster", "label")
     ELSE IF fate[r]["cluster"] = "ok" THEN Writes(r, "cluster", "clusters", "label")
     ELSE Degrades(r, "cluster", "label")
  /\ Told

(* A backend that is unavailable says so in the label it returns.          *)
Label(r) ==
  /\ IF fate[r]["label"] = "off" \/ req[r].text = "none" THEN Skips(r, "label", "analytics")
     ELSE IF fate[r]["label"] = "ok" THEN Writes(r, "label", "incident_label", "analytics")
     ELSE IF fate[r]["label"] = "fails"
     THEN Finish(r, "label", Put(r, "incident_label", "set"), <<"label">>, <<"label">>, "analytics")
     ELSE Degrades(r, "label", "analytics")
  /\ Told

(* The attack graph's result is put under a key that is no channel and is  *)
(* dropped.  A timeout is a pair where the loop unpacks a triple: the node *)
(* raises, and ainvoke with it.                                            *)
Analytics(r) ==
  LET steps == <<"graph", "killchain">>
      next == AfterAnalytics(r)
  IN /\ IF fate[r]["analytics"] = "stalls"
        THEN pc[r] = "analytics" /\ Gone(r, "crashed")
        ELSE IF fate[r]["analytics"] = "fails"
        THEN Finish(r, "analytics", mem[r].chan, steps, IF req[r].srcip THEN steps ELSE <<"graph">>, next)
        ELSE Finish(r, "analytics", IF req[r].srcip THEN Put(r, "killchain", "set") ELSE mem[r].chan,
                    steps, <<>>, next)
     /\ Told

Baseline(r) ==
  /\ IF fate[r]["baseline"] = "ok" THEN Writes(r, "baseline", "baseline", AfterBaseline(r))
     ELSE Degrades(r, "baseline", AfterBaseline(r))
  /\ Told

Report(r) ==
  /\ IF fate[r]["report"] = "ok" THEN Writes(r, "report", "report_path", AfterReport(r))
     ELSE Degrades(r, "report", AfterReport(r))
  /\ Told

(* Reached uninvited when the validator suppresses: the node asks again    *)
(* whether a verdict is wanted.                                            *)
Recording(r) ==
  IF fate[r]["verdict"] = "ok" THEN Writes(r, "verdict", "verdict", "done") ELSE Degrades(r, "verdict", "done")
Verdict(r) ==
  /\ IF ~req[r].record_verdict \/ ~req[r].srcip
     THEN Skips(r, "verdict", "done") /\ UNCHANGED recorded
     ELSE Recording(r) /\ recorded' = IF fate[r]["verdict"] = "ok" THEN recorded \cup {r} ELSE recorded
  /\ UNCHANGED answer

(* The tool call is cancelled, or the process dies, before the run ends.   *)
Kill(r) == pc[r] \notin Ended /\ Gone(r, "killed") /\ Told

Advance(r) ==
  \/ Input(r) \/ Recall(r) \/ Extract(r) \/ FpCheck(r) \/ Enrich(r) \/ Vuln(r) \/ Correlate(r)
  \/ Cluster(r) \/ Label(r) \/ Analytics(r) \/ Baseline(r) \/ Report(r) \/ Verdict(r)

Next == \E r \in Runs : Begin(r) \/ Advance(r) \/ Kill(r)

(* Every node's calls are under wait_for, or local.                        *)
Spec == Init /\ [][Next]_vars /\ \A r \in Runs : WF_vars(Advance(r))

----------------------------------------------------------------------------
(* Properties.                                                             *)

Steps == {"recall", "extract", "fp_check", "enrich", "vuln", "correlate", "cluster", "label",
          "graph", "killchain", "baseline", "report", "verdict"}
Values == {NoValue} \cup [run : Runs, says : {"set", "plain", "iocs", "suppressed", "open", "flagged", "quiet", "error"}]
Logs == Seq([run : Runs, step : Steps \cup {"start"}])
States == [chan : [Channels -> Values], log : Logs, errs : Logs, runs : Nat]

TypeOK ==
  /\ durable \in BOOLEAN
  /\ thread \in [Subjects -> States] /\ mem \in [Runs -> States]
  /\ pc \in [Runs -> Nodes \cup Ended \cup {"input"}]
  /\ req \in [Runs -> Requests] /\ fate \in [Runs -> Fates]
  /\ prior \in [Runs -> [runs : Nat, verdict : Values]]
  /\ path \in [Runs -> Seq(Steps)] /\ failed \in [Runs -> Seq(Steps)]
  /\ answer \in [Runs -> [fp : {"none", "suppressed", "open"}, corr : {"none", "flagged", "quiet"}]]
  /\ recorded \subseteq Runs
  /\ inputs \in [Subjects -> Nat]
  /\ overlap \subseteq Subjects \cup {"none"}
  /\ \A r \in Runs : Len(mem[r].log) <= LogCap /\ Len(mem[r].errs) <= LogCap
  /\ \A s \in Subjects : Len(thread[s].log) <= LogCap /\ Len(thread[s].errs) <= LogCap

(* The summary a run returns speaks of that run only: every channel was    *)
(* written by it, and its steps and errors are exactly the ones it took,   *)
(* on a durable thread too, beside other runs of the subject, after killed *)
(* and crashed ones, and when the cap trims the log.                       *)
ChannelsOwn ==
  \A r \in Runs : pc[r] = "done" => \A c \in Channels : mem[r].chan[c].run \in {"none", r}
LogsOwn ==
  \A r \in Runs : pc[r] = "done" => ThisRun(mem[r].log) = Entries(r, path[r])
                                  /\ ThisRun(mem[r].errs) = Entries(r, failed[r])
(* The routes follow what this run found, never what the thread remembers: *)
(* enrichment is skipped only because this run's validator suppressed the  *)
(* indicator or there is nothing to enrich, and the baseline runs exactly  *)
(* when this run's correlation flagged something.                          *)
Took(r, step) == \E k \in 1 .. Len(path[r]) : path[r][k] = step
RoutesByOwnFindings ==
  \A r \in Runs : pc[r] = "done" =>
    /\ Took(r, "enrich") <=> answer[r].fp # "suppressed" /\ (req[r].srcip \/ req[r].text # "none" \/ req[r].manifest)
    /\ Took(r, "baseline") <=> answer[r].corr = "flagged"

(* What a run returns, its log, and the way it went are its own.          *)
SummaryIsOwn == ChannelsOwn /\ LogsOwn /\ RoutesByOwnFindings

(* What a run is told of its subject's history: a verdict some other run   *)
(* recorded, and never more runs than were started; the count is exact     *)
(* when no two runs of the subject overlapped.                             *)
HistoryTrue ==
  /\ \A r \in Runs : prior[r].verdict # NoValue => prior[r].verdict.run \in recorded \ {r}
  /\ \A s \in Subjects : /\ thread[s].runs <= inputs[s]
                         /\ s \notin overlap => thread[s].runs = inputs[s]

(* Every run that starts ends.                                             *)
RunsEnd == \A r \in Runs : pc[r] = "input" ~> pc[r] \in Ended

(* "Every node degrades gracefully: steps without required credentials ... *)
(* are recorded in `errors` and the workflow continues" (module header).   *)
NoNodeKillsTheRun == \A r \in Runs : pc[r] # "crashed"
=============================================================================
