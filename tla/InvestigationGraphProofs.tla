---------------------- MODULE InvestigationGraphProofs ----------------------
(***************************************************************************)
(* Proofs about the investigation workflow, for any number of overlapping  *)
(* runs, any requests and fates, and any cap of the log.                   *)
(*                                                                         *)
(* The inductive invariant says of a run that is under way that every      *)
(* channel it holds is its own, that a verdict among them has been         *)
(* recorded, and that its run count is at most the number of runs started  *)
(* on its thread; and the same of every thread.  The count is exact on a   *)
(* thread whose runs have not overlapped.  OwnRuns says of a run on such a *)
(* thread what its log holds, after how many steps, and that its verdict   *)
(* and its summary are drawn from its own findings.                        *)
(***************************************************************************)
EXTENDS InvestigationGraph, SequenceTheorems, TLAPS

Pre == {"idle", "input"}
Active(r) == pc[r] \notin Ended \cup {"input"}
Sound(chan, kept) == chan["verdict"] # NoValue => chan["verdict"].run \in kept

Own == \A r \in Runs : Active(r) \/ pc[r] = "done" => \A c \in Channels : mem[r].chan[c].run \in {"none", r}

VerdictsKnown ==
  /\ \A r \in recorded : pc[r] \notin Pre
  /\ \A s \in Subjects : Sound(thread[s].chan, recorded)
  /\ \A r \in Runs : Active(r) => Sound(mem[r].chan, recorded)
  /\ \A r \in Runs : prior[r].verdict # NoValue => prior[r].verdict.run \in recorded \ {r}

Counts ==
  /\ \A s \in Subjects : thread[s].runs <= inputs[s]
  /\ \A r \in Runs : Active(r) /\ OnThread(r) => mem[r].runs <= inputs[SubjectOf(req[r])]
  /\ \A s \in Subjects : s \notin overlap => thread[s].runs = inputs[s]
  /\ \A r \in Runs : Active(r) /\ OnThread(r) /\ SubjectOf(req[r]) \notin overlap
                     => mem[r].runs = inputs[SubjectOf(req[r])]

IInv == TypeOK /\ Own /\ VerdictsKnown /\ Counts

----------------------------------------------------------------------------
(* The log.                                                                *)

Tags == [run : Runs, step : Steps \cup {"start"}]

(* A capped log is a log, no longer than the cap.                          *)
LEMMA CappedLemma ==
  ASSUME NEW p \in Seq(Tags), NEW n \in Seq(Tags)
  PROVE  CappedAdd(p, n) \in Seq(Tags) /\ Len(CappedAdd(p, n)) <= LogCap
<1> DEFINE all == p \o n
<1>1. all \in Seq(Tags) /\ Len(all) \in Nat
  BY ConcatProperties, LenProperties
<1> DEFINE first == IF Len(all) > LogCap THEN Len(all) - LogCap + 1 ELSE 1
<1>2. first \in 1 .. Len(all) + 1 /\ Len(all) - first + 1 <= LogCap
  BY <1>1, GraphAssumption
<1>3. CappedAdd(p, n) = SubSeq(all, first, Len(all))
  BY DEF CappedAdd
<1> HIDE DEF all, first
<1>4. SubSeq(all, first, Len(all)) \in Seq(Tags)
      /\ Len(SubSeq(all, first, Len(all))) = IF first <= Len(all) THEN Len(all) - first + 1 ELSE 0
  <2>1. first \in Int /\ Len(all) \in Int /\ \A i \in first .. Len(all) : i \in 1 .. Len(all)
    BY <1>1, <1>2
  <2> QED BY <1>1, <2>1, SubSeqProperties
<1> QED BY <1>2, <1>3, <1>4, <1>1, GraphAssumption

LEMMA EntriesLemma ==
  ASSUME NEW r \in Runs, NEW steps \in Seq(Steps)
  PROVE  Entries(r, steps) \in Seq(Tags)
<1>1. Len(steps) \in Nat /\ \A k \in 1 .. Len(steps) : steps[k] \in Steps
  BY LenProperties, ElementOfSeq
<1>2. \A k \in 1 .. Len(steps) : Entry(r, steps[k]) \in Tags
  BY <1>1 DEF Entry, Tags
<1> QED BY <1>1, <1>2, IsASeq DEF Entries

LEMMA MarkLemma ==
  ASSUME NEW r \in Runs
  PROVE  <<Marks(r)>> \in Seq(Tags)
BY DEF Marks, Entry, Tags

(* A state made of typed parts is typed.                                   *)
LEMMA StateLemma ==
  ASSUME NEW chan \in [Channels -> Values], NEW log \in Seq(Tags), NEW errs \in Seq(Tags), NEW n \in Nat
  PROVE  [chan |-> chan, log |-> log, errs |-> errs, runs |-> n] \in States
BY DEF States, Logs, Tags

LEMMA BlankLemma ==
  /\ Blank \in [Channels -> Values] /\ \A c \in Channels : Blank[c] = NoValue
  /\ Fresh \in States /\ Fresh.chan = Blank /\ Fresh.runs = 0 /\ Len(Fresh.log) = 0 /\ Len(Fresh.errs) = 0
<1>1. Blank \in [Channels -> Values] /\ \A c \in Channels : Blank[c] = NoValue
  BY DEF Blank, Values
<1>2. <<>> \in Seq(Tags) /\ Len(<<>>) = 0
  OBVIOUS
<1>3. Fresh \in States
  BY <1>1, <1>2, StateLemma DEF Fresh
<1> QED BY <1>1, <1>2, <1>3 DEF Fresh

LEMMA SubjectLemma == \A r \in Runs : OnThread(r) => SubjectOf(req[r]) \in Subjects
BY DEF OnThread

LEMMA VerdictChannel == "verdict" \in Channels
BY DEF Channels

(* What a node of a run may do, whatever its outcome: it keeps the types   *)
(* and the three parts of the invariant, provided what it writes is the    *)
(* run's own and a verdict among it is recorded.                           *)
Typed ==
  /\ thread' \in [Subjects -> States] /\ mem' \in [Runs -> States]
  /\ pc' \in [Runs -> Nodes \cup Ended \cup {"input"}]
  /\ path' \in [Runs -> Seq(Steps)] /\ failed' \in [Runs -> Seq(Steps)]
  /\ \A r \in Runs : Len(mem'[r].log) <= LogCap /\ Len(mem'[r].errs) <= LogCap
  /\ \A s \in Subjects : Len(thread'[s].log) <= LogCap /\ Len(thread'[s].errs) <= LogCap

LEMMA FinishLemma ==
  ASSUME IInv, NEW r \in Runs, NEW node \in Nodes, NEW chan \in [Channels -> Values],
         NEW steps \in Seq(Steps), NEW errors \in Seq(Steps), NEW next \in Nodes \cup {"done"},
         Finish(r, node, chan, steps, errors, next),
         \A c \in Channels : chan[c].run \in {"none", r},
         recorded \subseteq recorded', recorded' \subseteq recorded \cup {r},
         Sound(chan, recorded')
  PROVE  Typed /\ Own' /\ VerdictsKnown' /\ Counts'
<1> DEFINE u == Update(r, chan, steps, errors)
<1>0. /\ pc[r] = node
      /\ mem' = [mem EXCEPT ![r] = u]
      /\ thread' = Saved(r)
      /\ pc' = [pc EXCEPT ![r] = next]
      /\ path' = [path EXCEPT ![r] = @ \o steps]
      /\ failed' = [failed EXCEPT ![r] = @ \o errors]
      /\ UNCHANGED <<durable, req, fate, prior, inputs, overlap>>
  BY DEF Finish
<1>1. /\ mem \in [Runs -> States] /\ thread \in [Subjects -> States]
      /\ pc \in [Runs -> Nodes \cup Ended \cup {"input"}]
      /\ path \in [Runs -> Seq(Steps)] /\ failed \in [Runs -> Seq(Steps)]
      /\ \A q \in Runs : Len(mem[q].log) <= LogCap /\ Len(mem[q].errs) <= LogCap
      /\ \A s \in Subjects : Len(thread[s].log) <= LogCap /\ Len(thread[s].errs) <= LogCap
  BY DEF IInv, TypeOK
<1>2. mem[r].log \in Seq(Tags) /\ mem[r].errs \in Seq(Tags) /\ mem[r].runs \in Nat
  BY <1>1 DEF States, Logs, Tags
<1>3. Entries(r, steps) \in Seq(Tags) /\ Entries(r, errors) \in Seq(Tags)
  BY EntriesLemma
<1>4. /\ CappedAdd(mem[r].log, Entries(r, steps)) \in Seq(Tags)
      /\ CappedAdd(mem[r].errs, Entries(r, errors)) \in Seq(Tags)
      /\ Len(CappedAdd(mem[r].log, Entries(r, steps))) <= LogCap
      /\ Len(CappedAdd(mem[r].errs, Entries(r, errors))) <= LogCap
  BY <1>2, <1>3, CappedLemma
<1>5. /\ u \in States /\ u.chan = chan /\ u.runs = mem[r].runs
      /\ Len(u.log) <= LogCap /\ Len(u.errs) <= LogCap
  BY <1>2, <1>4, StateLemma DEF Update
<1> HIDE DEF u
<1>6. /\ mem' \in [Runs -> States] /\ mem'[r] = u /\ \A q \in Runs \ {r} : mem'[q] = mem[q]
  BY <1>0, <1>1, <1>5
<1>7. /\ thread' \in [Subjects -> States]
      /\ \A s \in Subjects : \/ thread'[s] = thread[s]
                             \/ thread'[s] = u /\ OnThread(r) /\ s = SubjectOf(req[r])
      /\ \A s \in Subjects : ~(OnThread(r) /\ s = SubjectOf(req[r])) => thread'[s] = thread[s]
  BY <1>0, <1>1, <1>5, <1>6 DEF Saved
<1>8. Nodes \cap Ended = {} /\ "input" \notin Nodes /\ Nodes \cap Pre = {} /\ "done" \notin Pre /\ "done" \in Ended
  BY DEF Nodes, Ended, Pre
<1>9. /\ Active(r) /\ pc'[r] = next /\ \A q \in Runs \ {r} : pc'[q] = pc[q]
      /\ pc' \in [Runs -> Nodes \cup Ended \cup {"input"}]
  BY <1>0, <1>1, <1>8 DEF Active
<1>10. Typed
  <2>1. path[r] \o steps \in Seq(Steps) /\ failed[r] \o errors \in Seq(Steps)
    BY <1>1, ConcatProperties
  <2>2. path' \in [Runs -> Seq(Steps)] /\ failed' \in [Runs -> Seq(Steps)]
    BY <1>0, <1>1, <2>1
  <2> QED BY <1>1, <1>5, <1>6, <1>7, <1>9, <2>2 DEF Typed
<1>11. Own'
  BY <1>5, <1>6, <1>9 DEF IInv, Own, Active
<1>12. VerdictsKnown'
  <2>1. \A q \in recorded' : pc'[q] \notin Pre
    <3>1. next \notin Pre /\ recorded \subseteq Runs
      BY <1>8 DEF IInv, TypeOK
    <3>2. \A q \in recorded : q # r => pc'[q] \notin Pre
      BY <1>9, <3>1 DEF IInv, VerdictsKnown
    <3> QED BY <1>9, <3>1, <3>2
  <2>2. \A s \in Subjects : Sound(thread'[s].chan, recorded')
    BY <1>5, <1>7 DEF IInv, VerdictsKnown, Sound
  <2>3. \A q \in Runs : Active(q)' => Sound(mem'[q].chan, recorded')
    BY <1>5, <1>6, <1>9 DEF IInv, VerdictsKnown, Sound, Active
  <2>4. \A q \in Runs : prior'[q].verdict # NoValue => prior'[q].verdict.run \in recorded' \ {q}
    BY <1>0 DEF IInv, VerdictsKnown
  <2> QED BY <2>1, <2>2, <2>3, <2>4 DEF VerdictsKnown
<1>13. Counts'
  <2>1. \A q \in Runs : OnThread(q)' = OnThread(q) /\ req'[q] = req[q]
    BY <1>0 DEF OnThread
  <2>2. inputs' = inputs /\ overlap' = overlap
    BY <1>0
  <2>3. \A q \in Runs : Active(q)' => Active(q) /\ mem'[q].runs = mem[q].runs
    BY <1>5, <1>6, <1>9 DEF Active
  <2>4. OnThread(r) => u.runs <= inputs[SubjectOf(req[r])]
                      /\ (SubjectOf(req[r]) \notin overlap => u.runs = inputs[SubjectOf(req[r])])
    BY <1>5, <1>9 DEF IInv, Counts
  <2>5. \A s \in Subjects : /\ thread'[s].runs <= inputs'[s]
                            /\ s \notin overlap' => thread'[s].runs = inputs'[s]
    BY <1>7, <2>2, <2>4 DEF IInv, Counts
  <2>6. \A q \in Runs : Active(q)' /\ OnThread(q)' =>
          /\ mem'[q].runs <= inputs'[SubjectOf(req'[q])]
          /\ SubjectOf(req'[q]) \notin overlap' => mem'[q].runs = inputs'[SubjectOf(req'[q])]
    BY <2>1, <2>2, <2>3 DEF IInv, Counts
  <2> QED BY <2>5, <2>6 DEF Counts
<1> QED BY <1>10, <1>11, <1>12, <1>13

Answers == [fp : {"none", "suppressed", "open"}, corr : {"none", "flagged", "quiet"}]
Sayings == {"set", "plain", "iocs", "suppressed", "open", "flagged", "quiet", "error"}

LEMMA StepLemma ==
  ASSUME IInv, NEW r \in Runs, NEW node \in Nodes, NEW chan \in [Channels -> Values],
         NEW steps \in Seq(Steps), NEW errors \in Seq(Steps), NEW next \in Nodes \cup {"done"},
         Finish(r, node, chan, steps, errors, next),
         \A c \in Channels : chan[c].run \in {"none", r},
         recorded \subseteq recorded', recorded' \subseteq recorded \cup {r},
         Sound(chan, recorded'),
         answer' \in [Runs -> Answers]
  PROVE  IInv'
<1>1. Typed /\ Own' /\ VerdictsKnown' /\ Counts'
  BY FinishLemma
<1>2. UNCHANGED <<durable, req, fate, prior, inputs, overlap>>
  BY DEF Finish
<1>3. recorded' \subseteq Runs
  BY DEF IInv, TypeOK
<1>4. TypeOK'
  BY <1>1, <1>2, <1>3 DEF IInv, TypeOK, Typed, Answers
<1> QED BY <1>1, <1>4 DEF IInv

(* The channels of a run, and with one of them written by it.              *)
LEMMA ChanLemma ==
  ASSUME IInv, NEW r \in Runs, Active(r)
  PROVE  /\ mem[r].chan \in [Channels -> Values]
         /\ \A c \in Channels : mem[r].chan[c].run \in {"none", r}
         /\ Sound(mem[r].chan, recorded)
         /\ \A c \in Channels, x \in Sayings :
              /\ Put(r, c, x) \in [Channels -> Values]
              /\ \A d \in Channels : Put(r, c, x)[d].run \in {"none", r}
              /\ c # "verdict" => Sound(Put(r, c, x), recorded)
              /\ Sound(Put(r, c, x), recorded \cup {r})
<1>1. mem[r].chan \in [Channels -> Values]
  BY DEF IInv, TypeOK, States
<1>2. \A c \in Channels : mem[r].chan[c].run \in {"none", r}
  BY DEF IInv, Own
<1>3. Sound(mem[r].chan, recorded)
  BY DEF IInv, VerdictsKnown
<1>4. ASSUME NEW c \in Channels, NEW x \in Sayings
      PROVE  /\ Put(r, c, x) \in [Channels -> Values]
             /\ \A d \in Channels : Put(r, c, x)[d].run \in {"none", r}
             /\ c # "verdict" => Sound(Put(r, c, x), recorded)
             /\ Sound(Put(r, c, x), recorded \cup {r})
  <2>1. Says(r, x) \in Values /\ Says(r, x).run = r
    BY DEF Says, Values, Sayings
  <2>2. Put(r, c, x) \in [Channels -> Values]
        /\ \A d \in Channels : Put(r, c, x)[d] = IF d = c THEN Says(r, x) ELSE mem[r].chan[d]
    BY <1>1, <2>1 DEF Put
  <2> QED BY <1>2, <1>3, <2>1, <2>2, VerdictChannel DEF Sound
<1> QED BY <1>1, <1>2, <1>3, <1>4

(* A node that leaves the verdict channel alone.                           *)
LEMMA NodeLemma ==
  ASSUME IInv, NEW r \in Runs, NEW node \in Nodes, NEW chan,
         NEW steps \in Seq(Steps), NEW errors \in Seq(Steps), NEW next \in Nodes \cup {"done"},
         Finish(r, node, chan, steps, errors, next),
         \/ chan = mem[r].chan
         \/ \E c \in Channels \ {"verdict"}, x \in Sayings : chan = Put(r, c, x),
         recorded' = recorded, answer' \in [Runs -> Answers]
  PROVE  IInv'
<1>1. Active(r)
  BY DEF Finish, Active, Nodes, Ended
<1>2. /\ chan \in [Channels -> Values]
      /\ \A c \in Channels : chan[c].run \in {"none", r}
      /\ Sound(chan, recorded)
  <2>1. CASE chan = mem[r].chan
    BY <1>1, <2>1, ChanLemma
  <2>2. ASSUME NEW c \in Channels \ {"verdict"}, NEW x \in Sayings, chan = Put(r, c, x)
        PROVE  /\ chan \in [Channels -> Values]
               /\ \A d \in Channels : chan[d].run \in {"none", r}
               /\ Sound(chan, recorded)
    BY <1>1, <2>2, ChanLemma
  <2> QED BY <2>1, <2>2
<1> QED BY <1>2, StepLemma

(* The three common ways for a node to end.                                *)
LEMMA PlainLemma ==
  ASSUME IInv, NEW r \in Runs, NEW node \in Nodes \cap Steps, NEW next \in Nodes \cup {"done"},
         \/ Skips(r, node, next) \/ Degrades(r, node, next)
         \/ \E c \in Channels \ {"verdict"}, x \in Sayings :
              \/ Finish(r, node, Put(r, c, x), <<node>>, <<>>, next)
              \/ Finish(r, node, Put(r, c, x), <<node>>, <<node>>, next),
         recorded' = recorded, answer' \in [Runs -> Answers]
  PROVE  IInv'
<1>1. <<node>> \in Seq(Steps) /\ <<>> \in Seq(Steps)
  OBVIOUS
<1>2. CASE Skips(r, node, next)
  BY <1>1, <1>2, NodeLemma DEF Skips
<1>3. CASE Degrades(r, node, next)
  BY <1>1, <1>3, NodeLemma DEF Degrades
<1>4. ASSUME NEW c \in Channels \ {"verdict"}, NEW x \in Sayings,
             Finish(r, node, Put(r, c, x), <<node>>, <<>>, next)
      PROVE  IInv'
  <2>1. \E d \in Channels \ {"verdict"}, y \in Sayings : Put(r, c, x) = Put(r, d, y)
    OBVIOUS
  <2> QED BY <1>1, <1>4, <2>1, NodeLemma
<1>5. ASSUME NEW c \in Channels \ {"verdict"}, NEW x \in Sayings,
             Finish(r, node, Put(r, c, x), <<node>>, <<node>>, next)
      PROVE  IInv'
  <2>1. \E d \in Channels \ {"verdict"}, y \in Sayings : Put(r, c, x) = Put(r, d, y)
    OBVIOUS
  <2> QED BY <1>1, <1>5, <2>1, NodeLemma
<1> QED BY <1>2, <1>3, <1>4, <1>5

----------------------------------------------------------------------------
(* The nodes, one by one.                                                  *)

LEMMA Names ==
  /\ \A n \in {"recall", "extract", "fp_check", "enrich", "vuln", "correlate", "cluster",
               "label", "baseline", "report", "verdict"} : n \in Nodes \cap Steps
  /\ "analytics" \in Nodes /\ {"graph", "killchain"} \subseteq Steps
  /\ \A c \in {"extract_iocs", "fp_validation", "enrichment", "vulnerabilities", "correlation",
               "clusters", "incident_label", "killchain", "baseline", "report_path",
               "recalled_memory"} : c \in Channels \ {"verdict"}
  /\ Texts \ {"none"} \subseteq Sayings
BY DEF Nodes, Steps, Channels, Texts, Sayings

LEMMA Routes ==
  \A r \in Runs :
    /\ \A chan : AfterFpCheck(r, chan) \in Nodes \cup {"done"}
    /\ AfterAnalytics(r) \in Nodes \cup {"done"} /\ AfterBaseline(r) \in Nodes \cup {"done"}
    /\ AfterReport(r) \in Nodes \cup {"done"}
BY DEF AfterFpCheck, AfterAnalytics, AfterBaseline, AfterReport, VerdictOrEnd, Nodes

LEMMA ToldLemma ==
  ASSUME IInv, Told
  PROVE  recorded' = recorded /\ answer' \in [Runs -> Answers]
BY DEF IInv, TypeOK, Told, Answers

LEMMA RecallStep == ASSUME IInv, NEW r \in Runs, Recall(r) PROVE IInv'
<1>1. \/ Skips(r, "recall", "extract") \/ Degrades(r, "recall", "extract")
      \/ \E c \in Channels \ {"verdict"}, x \in Sayings :
           \/ Finish(r, "recall", Put(r, c, x), <<"recall">>, <<>>, "extract")
           \/ Finish(r, "recall", Put(r, c, x), <<"recall">>, <<"recall">>, "extract")
  BY Names DEF Recall, Writes, Sayings
<1>2. recorded' = recorded /\ answer' \in [Runs -> Answers]
  BY ToldLemma DEF Recall
<1>3. "extract" \in Nodes \cup {"done"} /\ "recall" \in Nodes \cap Steps
  BY Names
<1> QED BY <1>1, <1>2, <1>3, PlainLemma

LEMMA ExtractStep == ASSUME IInv, NEW r \in Runs, Extract(r) PROVE IInv'
<1>1. req[r].text \in Texts
  BY DEF IInv, TypeOK, Requests
<1>2. \/ Skips(r, "extract", "fp_check")
      \/ \E c \in Channels \ {"verdict"}, x \in Sayings :
           Finish(r, "extract", Put(r, c, x), <<"extract">>, <<>>, "fp_check")
  BY <1>1, Names DEF Extract
<1>3. recorded' = recorded /\ answer' \in [Runs -> Answers]
  BY ToldLemma DEF Extract
<1>4. "fp_check" \in Nodes \cup {"done"} /\ "extract" \in Nodes \cap Steps
  BY Names
<1> QED BY <1>2, <1>3, <1>4, PlainLemma

LEMMA FpCheckStep == ASSUME IInv, NEW r \in Runs, FpCheck(r) PROVE IInv'
<1>1. answer \in [Runs -> Answers] /\ recorded' = recorded /\ "fp_check" \in Nodes \cap Steps
  BY Names DEF IInv, TypeOK, Answers, FpCheck
<1>2. CASE \E says \in {"suppressed", "open"} :
             LET chan == Put(r, "fp_validation", says)
             IN /\ Finish(r, "fp_check", chan, <<"fp_check">>, <<>>, AfterFpCheck(r, chan))
                /\ answer' = [answer EXCEPT ![r].fp = says]
  <2>1. PICK says \in {"suppressed", "open"} :
          LET chan == Put(r, "fp_validation", says)
          IN /\ Finish(r, "fp_check", chan, <<"fp_check">>, <<>>, AfterFpCheck(r, chan))
             /\ answer' = [answer EXCEPT ![r].fp = says]
    BY <1>2
  <2>2. answer' \in [Runs -> Answers]
    BY <1>1, <2>1 DEF Answers
  <2>3. says \in Sayings /\ "fp_validation" \in Channels \ {"verdict"}
    BY Names DEF Sayings
  <2> QED BY <1>1, <2>1, <2>2, <2>3, PlainLemma, Routes
<1>3. CASE /\ answer' = answer
           /\ \/ Skips(r, "fp_check", AfterFpCheck(r, mem[r].chan))
              \/ Degrades(r, "fp_check", AfterFpCheck(r, mem[r].chan))
  BY <1>1, <1>3, PlainLemma, Routes
<1> QED BY <1>2, <1>3 DEF FpCheck

LEMMA EnrichStep == ASSUME IInv, NEW r \in Runs, Enrich(r) PROVE IInv'
<1>1. \/ Skips(r, "enrich", "vuln") \/ Degrades(r, "enrich", "vuln")
      \/ \E c \in Channels \ {"verdict"}, x \in Sayings :
           Finish(r, "enrich", Put(r, c, x), <<"enrich">>, <<>>, "vuln")
  BY Names DEF Enrich, Writes, Sayings
<1>2. recorded' = recorded /\ answer' \in [Runs -> Answers]
  BY ToldLemma DEF Enrich
<1>3. "vuln" \in Nodes \cup {"done"} /\ "enrich" \in Nodes \cap Steps
  BY Names
<1> QED BY <1>1, <1>2, <1>3, PlainLemma

LEMMA VulnStep == ASSUME IInv, NEW r \in Runs, Vuln(r) PROVE IInv'
<1>1. \/ Skips(r, "vuln", "correlate")
      \/ \E c \in Channels \ {"verdict"}, x \in Sayings :
           Finish(r, "vuln", Put(r, c, x), <<"vuln">>, <<>>, "correlate")
  BY Names DEF Vuln, Writes, Sayings
<1>2. recorded' = recorded /\ answer' \in [Runs -> Answers]
  BY ToldLemma DEF Vuln
<1>3. "correlate" \in Nodes \cup {"done"} /\ "vuln" \in Nodes \cap Steps
  BY Names
<1> QED BY <1>1, <1>2, <1>3, PlainLemma

LEMMA CorrelateStep == ASSUME IInv, NEW r \in Runs, Correlate(r) PROVE IInv'
<1>1. /\ answer \in [Runs -> Answers] /\ recorded' = recorded
      /\ "correlate" \in Nodes \cap Steps /\ "cluster" \in Nodes \cup {"done"}
  BY Names DEF IInv, TypeOK, Answers, Correlate
<1>2. CASE \E says \in {"flagged", "quiet"} :
             /\ Finish(r, "correlate", Put(r, "correlation", says), <<"correlate">>, <<>>, "cluster")
             /\ answer' = [answer EXCEPT ![r].corr = says]
  <2>1. PICK says \in {"flagged", "quiet"} :
          /\ Finish(r, "correlate", Put(r, "correlation", says), <<"correlate">>, <<>>, "cluster")
          /\ answer' = [answer EXCEPT ![r].corr = says]
    BY <1>2
  <2>2. answer' \in [Runs -> Answers]
    BY <1>1, <2>1 DEF Answers
  <2>3. says \in Sayings /\ "correlation" \in Channels \ {"verdict"}
    BY Names DEF Sayings
  <2> QED BY <1>1, <2>1, <2>2, <2>3, PlainLemma
<1>3. CASE /\ answer' = answer
           /\ \/ Degrades(r, "correlate", "cluster")
              \/ \E c \in Channels \ {"verdict"}, x \in Sayings :
                   Finish(r, "correlate", Put(r, c, x), <<"correlate">>, <<"correlate">>, "cluster")
  BY <1>1, <1>3, PlainLemma
<1> QED BY <1>2, <1>3, Names DEF Correlate, Sayings

LEMMA ClusterStep == ASSUME IInv, NEW r \in Runs, Cluster(r) PROVE IInv'
<1>1. \/ Skips(r, "cluster", "label") \/ Degrades(r, "cluster", "label")
      \/ \E c \in Channels \ {"verdict"}, x \in Sayings :
           Finish(r, "cluster", Put(r, c, x), <<"cluster">>, <<>>, "label")
  BY Names DEF Cluster, Writes, Sayings
<1>2. recorded' = recorded /\ answer' \in [Runs -> Answers]
  BY ToldLemma DEF Cluster
<1>3. "label" \in Nodes \cup {"done"} /\ "cluster" \in Nodes \cap Steps
  BY Names
<1> QED BY <1>1, <1>2, <1>3, PlainLemma

LEMMA LabelStep == ASSUME IInv, NEW r \in Runs, Label(r) PROVE IInv'
<1>1. \/ Skips(r, "label", "analytics") \/ Degrades(r, "label", "analytics")
      \/ \E c \in Channels \ {"verdict"}, x \in Sayings :
           \/ Finish(r, "label", Put(r, c, x), <<"label">>, <<>>, "analytics")
           \/ Finish(r, "label", Put(r, c, x), <<"label">>, <<"label">>, "analytics")
  BY Names DEF Label, Writes, Sayings
<1>2. recorded' = recorded /\ answer' \in [Runs -> Answers]
  BY ToldLemma DEF Label
<1>3. "analytics" \in Nodes \cup {"done"} /\ "label" \in Nodes \cap Steps
  BY Names
<1> QED BY <1>1, <1>2, <1>3, PlainLemma

LEMMA BaselineStep == ASSUME IInv, NEW r \in Runs, Baseline(r) PROVE IInv'
<1>1. \/ Degrades(r, "baseline", AfterBaseline(r))
      \/ \E c \in Channels \ {"verdict"}, x \in Sayings :
           Finish(r, "baseline", Put(r, c, x), <<"baseline">>, <<>>, AfterBaseline(r))
  BY Names DEF Baseline, Writes, Sayings
<1>2. recorded' = recorded /\ answer' \in [Runs -> Answers]
  BY ToldLemma DEF Baseline
<1>3. AfterBaseline(r) \in Nodes \cup {"done"} /\ "baseline" \in Nodes \cap Steps
  BY Names, Routes
<1> QED BY <1>1, <1>2, <1>3, PlainLemma

LEMMA ReportStep == ASSUME IInv, NEW r \in Runs, Report(r) PROVE IInv'
<1>1. \/ Degrades(r, "report", AfterReport(r))
      \/ \E c \in Channels \ {"verdict"}, x \in Sayings :
           Finish(r, "report", Put(r, c, x), <<"report">>, <<>>, AfterReport(r))
  BY Names DEF Report, Writes, Sayings
<1>2. recorded' = recorded /\ answer' \in [Runs -> Answers]
  BY ToldLemma DEF Report
<1>3. AfterReport(r) \in Nodes \cup {"done"} /\ "report" \in Nodes \cap Steps
  BY Names, Routes
<1> QED BY <1>1, <1>2, <1>3, PlainLemma

LEMMA VerdictStep == ASSUME IInv, NEW r \in Runs, Verdict(r) PROVE IInv'
<1>1. /\ "verdict" \in Nodes \cap Steps /\ "done" \in Nodes \cup {"done"}
      /\ answer' \in [Runs -> Answers]
  BY Names DEF IInv, TypeOK, Answers, Verdict
<1>2. CASE recorded' = recorded /\ (Skips(r, "verdict", "done") \/ Degrades(r, "verdict", "done"))
  BY <1>1, <1>2, PlainLemma
<1>3. CASE recorded' = recorded \cup {r} /\ Writes(r, "verdict", "verdict", "done")
  <2>1. Finish(r, "verdict", Put(r, "verdict", "set"), <<"verdict">>, <<>>, "done")
    BY <1>3 DEF Writes
  <2>2. Active(r)
    BY <2>1 DEF Finish, Active, Ended
  <2>3. /\ Put(r, "verdict", "set") \in [Channels -> Values]
        /\ \A d \in Channels : Put(r, "verdict", "set")[d].run \in {"none", r}
        /\ Sound(Put(r, "verdict", "set"), recorded')
    BY <1>3, <2>2, ChanLemma, VerdictChannel DEF Sayings
  <2>4. <<"verdict">> \in Seq(Steps) /\ <<>> \in Seq(Steps)
    BY <1>1
  <2> QED BY <1>1, <1>3, <2>1, <2>3, <2>4, StepLemma
<1> QED BY <1>2, <1>3 DEF Verdict, Recording

(* A run that is gone leaves its last checkpoint behind.                   *)
LEMMA GoneLemma ==
  ASSUME IInv, NEW r \in Runs, NEW how \in {"crashed", "killed"}, pc[r] \notin Ended, Gone(r, how), Told
  PROVE  IInv'
<1>0. /\ pc' = [pc EXCEPT ![r] = how]
      /\ mem' = [mem EXCEPT ![r] = Fresh]
      /\ path' = [path EXCEPT ![r] = <<>>] /\ failed' = [failed EXCEPT ![r] = <<>>]
      /\ UNCHANGED <<durable, thread, req, fate, prior, inputs, overlap, answer, recorded>>
  BY DEF Gone, Told
<1>1. how \in Ended \ Pre /\ how # "done"
  BY DEF Ended, Pre
<1>2. /\ pc'[r] = how /\ \A q \in Runs \ {r} : pc'[q] = pc[q] /\ mem'[q] = mem[q]
      /\ pc' \in [Runs -> Nodes \cup Ended \cup {"input"}] /\ mem' \in [Runs -> States]
      /\ mem'[r] = Fresh
  BY <1>0, <1>1, BlankLemma DEF IInv, TypeOK
<1>3. TypeOK'
  <2>1. path' \in [Runs -> Seq(Steps)] /\ failed' \in [Runs -> Seq(Steps)]
    BY <1>0 DEF IInv, TypeOK
  <2>2. \A q \in Runs : Len(mem'[q].log) <= LogCap /\ Len(mem'[q].errs) <= LogCap
    <3>1. \A q \in Runs : Len(mem[q].log) <= LogCap /\ Len(mem[q].errs) <= LogCap
      BY DEF IInv, TypeOK
    <3>2. Len(Fresh.log) <= LogCap /\ Len(Fresh.errs) <= LogCap
      BY BlankLemma, GraphAssumption
    <3> QED BY <1>2, <3>1, <3>2
  <2> QED BY <1>0, <1>2, <2>1, <2>2 DEF IInv, TypeOK
<1>4. \A q \in Runs : Active(q)' => Active(q) /\ mem'[q] = mem[q]
  BY <1>1, <1>2 DEF Active
<1>5. Own'
  BY <1>1, <1>2, <1>4 DEF IInv, Own
<1>6. VerdictsKnown'
  <2>1. \A q \in recorded' : pc'[q] \notin Pre
    <3>1. recorded \subseteq Runs /\ recorded' = recorded
      BY <1>0 DEF IInv, TypeOK
    <3>2. \A q \in recorded : pc[q] \notin Pre
      BY DEF IInv, VerdictsKnown
    <3> QED BY <1>1, <1>2, <3>1, <3>2
  <2> QED BY <1>0, <1>4, <2>1 DEF IInv, VerdictsKnown
<1>7. \A q \in Runs : OnThread(q)' = OnThread(q) /\ req'[q] = req[q]
  BY <1>0 DEF OnThread
<1>8. Counts'
  BY <1>0, <1>4, <1>7 DEF IInv, Counts
<1> QED BY <1>3, <1>5, <1>6, <1>8 DEF IInv

LEMMA AnalyticsStep == ASSUME IInv, NEW r \in Runs, Analytics(r) PROVE IInv'
<1>1. Told
  BY DEF Analytics
<1>2. CASE pc[r] = "analytics" /\ Gone(r, "crashed")
  BY <1>1, <1>2, GoneLemma DEF Ended
<1>3. ASSUME NEW chan, NEW errors \in Seq(Steps),
             Finish(r, "analytics", chan, <<"graph", "killchain">>, errors, AfterAnalytics(r)),
             chan = mem[r].chan \/ chan = Put(r, "killchain", "set")
      PROVE  IInv'
  <2>1. <<"graph", "killchain">> \in Seq(Steps) /\ "analytics" \in Nodes
        /\ AfterAnalytics(r) \in Nodes \cup {"done"}
    BY Names, Routes
  <2>2. chan = mem[r].chan \/ \E c \in Channels \ {"verdict"}, x \in Sayings : chan = Put(r, c, x)
    BY <1>3, Names DEF Sayings
  <2>3. recorded' = recorded /\ answer' \in [Runs -> Answers]
    BY <1>1, ToldLemma
  <2> QED BY <1>3, <2>1, <2>2, <2>3, NodeLemma
<1>4. /\ <<"graph", "killchain">> \in Seq(Steps) /\ <<"graph">> \in Seq(Steps) /\ <<>> \in Seq(Steps)
  BY Names
<1> QED BY <1>2, <1>3, <1>4 DEF Analytics

LEMMA BeginStep == ASSUME IInv, NEW r \in Runs, Begin(r) PROVE IInv'
<1>0. /\ pc[r] = "idle"
      /\ pc' = [pc EXCEPT ![r] = "input"]
      /\ UNCHANGED <<durable, thread, req, fate, mem, path, failed, answer, recorded, inputs, overlap>>
  BY DEF Begin
<1> DEFINE p == IF OnThread(r)
                THEN [runs |-> thread[SubjectOf(req[r])].runs, verdict |-> thread[SubjectOf(req[r])].chan["verdict"]]
                ELSE NoPrior
<1>1. prior' = [prior EXCEPT ![r] = p]
  BY DEF Begin
<1>2. thread \in [Subjects -> States] /\ r \notin recorded
  BY <1>0 DEF IInv, TypeOK, VerdictsKnown, Pre
<1>3. /\ p \in [runs : Nat, verdict : Values]
      /\ p.verdict # NoValue => p.verdict.run \in recorded \ {r}
  <2>1. CASE OnThread(r)
    <3>1. SubjectOf(req[r]) \in Subjects
      BY <2>1, SubjectLemma
    <3>2. /\ thread[SubjectOf(req[r])].runs \in Nat
          /\ thread[SubjectOf(req[r])].chan["verdict"] \in Values
      BY <1>2, <3>1, VerdictChannel DEF States
    <3> QED BY <1>2, <2>1, <3>1, <3>2 DEF IInv, VerdictsKnown, Sound
  <2>2. CASE ~OnThread(r)
    BY <2>2 DEF NoPrior, Values
  <2> QED BY <2>1, <2>2
<1> HIDE DEF p
<1>4. /\ prior' \in [Runs -> [runs : Nat, verdict : Values]]
      /\ prior'[r] = p /\ \A q \in Runs \ {r} : prior'[q] = prior[q]
  BY <1>1, <1>3 DEF IInv, TypeOK
<1>5. /\ pc' \in [Runs -> Nodes \cup Ended \cup {"input"}]
      /\ pc'[r] = "input" /\ \A q \in Runs \ {r} : pc'[q] = pc[q]
  BY <1>0 DEF IInv, TypeOK
<1>6. TypeOK'
  BY <1>0, <1>4, <1>5 DEF IInv, TypeOK
<1>7. \A q \in Runs : Active(q)' = Active(q) /\ (pc'[q] = "done" <=> pc[q] = "done")
  BY <1>0, <1>5 DEF Active, Ended
<1>8. Own'
  BY <1>0, <1>7 DEF IInv, Own
<1>9. VerdictsKnown'
  <2>1. \A q \in recorded' : pc'[q] \notin Pre
    BY <1>0, <1>2, <1>5 DEF IInv, VerdictsKnown, TypeOK
  <2>2. \A q \in Runs : prior'[q].verdict # NoValue => prior'[q].verdict.run \in recorded' \ {q}
    BY <1>0, <1>3, <1>4 DEF IInv, VerdictsKnown
  <2> QED BY <1>0, <1>7, <2>1, <2>2 DEF IInv, VerdictsKnown
<1>10. \A q \in Runs : OnThread(q)' = OnThread(q) /\ req'[q] = req[q]
  BY <1>0 DEF OnThread
<1>11. Counts'
  BY <1>0, <1>7, <1>10 DEF IInv, Counts
<1> QED BY <1>6, <1>8, <1>9, <1>11 DEF IInv

(* The input written to a checkpoint.                                      *)
LEMMA ResetLemma ==
  ASSUME NEW s \in States, NEW r \in Runs,
         Len(s.log) <= LogCap, Len(s.errs) <= LogCap
  PROVE  /\ Reset(s, r) \in States
         /\ Reset(s, r).chan = Blank /\ Reset(s, r).runs = s.runs + 1
         /\ Len(Reset(s, r).log) <= LogCap /\ Len(Reset(s, r).errs) <= LogCap
<1>1. s.log \in Seq(Tags) /\ s.errs \in Seq(Tags) /\ s.runs \in Nat
  BY DEF States, Logs, Tags
<1>2. <<Marks(r)>> \in Seq(Tags)
  BY MarkLemma
<1> DEFINE log == IF durable THEN CappedAdd(s.log, <<Marks(r)>>) ELSE s.log
<1> DEFINE errs == IF durable THEN CappedAdd(s.errs, <<Marks(r)>>) ELSE s.errs
<1>3. log \in Seq(Tags) /\ Len(log) <= LogCap
  BY <1>1, <1>2, CappedLemma
<1>4. errs \in Seq(Tags) /\ Len(errs) <= LogCap
  BY <1>1, <1>2, CappedLemma
<1>5. Reset(s, r) = [chan |-> Blank, log |-> log, errs |-> errs, runs |-> s.runs + 1]
  BY DEF Reset
<1> HIDE DEF log, errs
<1>6. s.runs + 1 \in Nat /\ Blank \in [Channels -> Values]
  BY <1>1, BlankLemma
<1>7. [chan |-> Blank, log |-> log, errs |-> errs, runs |-> s.runs + 1] \in States
  BY <1>3, <1>4, <1>6, StateLemma
<1>8. /\ Reset(s, r).chan = Blank /\ Reset(s, r).runs = s.runs + 1
      /\ Reset(s, r).log = log /\ Reset(s, r).errs = errs
  BY <1>5
<1> QED BY <1>3, <1>4, <1>5, <1>7, <1>8

LEMMA InputStep == ASSUME IInv, NEW r \in Runs, Input(r) PROVE IInv'
<1> DEFINE s == SubjectOf(req[r])
<1> DEFINE c == IF OnThread(r) THEN thread[s] ELSE Fresh
<1> DEFINE u == Reset(c, r)
<1>0. /\ pc[r] = "input"
      /\ mem' = [mem EXCEPT ![r] = u]
      /\ thread' = Saved(r)
      /\ pc' = [pc EXCEPT ![r] = "recall"]
      /\ inputs' = IF OnThread(r) THEN [inputs EXCEPT ![s] = @ + 1] ELSE inputs
      /\ overlap' = IF Busy(s) THEN overlap \cup {s} ELSE overlap
      /\ UNCHANGED <<durable, req, fate, prior, path, failed, answer, recorded>>
  BY DEF Input
<1>1. OnThread(r) => s \in Subjects
  BY SubjectLemma
<1>2. c \in States /\ Len(c.log) <= LogCap /\ Len(c.errs) <= LogCap
  BY <1>1, BlankLemma, GraphAssumption DEF IInv, TypeOK
<1>3. c.runs \in Nat /\ (OnThread(r) => c.runs = thread[s].runs)
  BY <1>2 DEF States
<1>4. /\ u \in States /\ u.chan = Blank /\ u.runs = c.runs + 1
      /\ Len(u.log) <= LogCap /\ Len(u.errs) <= LogCap
  BY <1>2, ResetLemma
<1> HIDE DEF u, c
<1>5. /\ mem' \in [Runs -> States] /\ mem'[r] = u /\ \A q \in Runs \ {r} : mem'[q] = mem[q]
  BY <1>0, <1>4 DEF IInv, TypeOK
<1>6. /\ thread' \in [Subjects -> States]
      /\ OnThread(r) => thread'[s] = u
      /\ \A x \in Subjects : ~(OnThread(r) /\ x = s) => thread'[x] = thread[x]
  BY <1>0, <1>1, <1>4, <1>5 DEF IInv, TypeOK, Saved
<1>7. /\ inputs' \in [Subjects -> Nat]
      /\ OnThread(r) => inputs'[s] = inputs[s] + 1
      /\ \A x \in Subjects : ~(OnThread(r) /\ x = s) => inputs'[x] = inputs[x]
  BY <1>0, <1>1 DEF IInv, TypeOK
<1>8. /\ pc' \in [Runs -> Nodes \cup Ended \cup {"input"}]
      /\ pc'[r] = "recall" /\ \A q \in Runs \ {r} : pc'[q] = pc[q]
  BY <1>0, Names DEF IInv, TypeOK
<1>9. s \in Subjects \cup {"none"}
  BY DEF SubjectOf, Subjects
<1>10. TypeOK'
  <2>1. overlap' \subseteq Subjects \cup {"none"}
    BY <1>0, <1>9 DEF IInv, TypeOK
  <2>2. \A q \in Runs : Len(mem'[q].log) <= LogCap /\ Len(mem'[q].errs) <= LogCap
    BY <1>4, <1>5 DEF IInv, TypeOK
  <2>3. \A x \in Subjects : Len(thread'[x].log) <= LogCap /\ Len(thread'[x].errs) <= LogCap
    BY <1>4, <1>6 DEF IInv, TypeOK
  <2> QED BY <1>0, <1>5, <1>6, <1>7, <1>8, <2>1, <2>2, <2>3 DEF IInv, TypeOK
<1>11. \A q \in Runs \ {r} : Active(q)' = Active(q) /\ (pc'[q] = "done" <=> pc[q] = "done")
  BY <1>8 DEF Active
<1>12. Own'
  BY <1>4, <1>5, <1>8, <1>11, BlankLemma DEF IInv, Own, NoValue
<1>13. Sound(u.chan, recorded)
  BY <1>4, BlankLemma, VerdictChannel DEF Sound
<1>14. VerdictsKnown'
  <2>1. \A q \in recorded' : pc'[q] \notin Pre
    <3>1. recorded \subseteq Runs /\ recorded' = recorded
      BY <1>0 DEF IInv, TypeOK
    <3>2. \A q \in recorded : pc[q] \notin Pre
      BY DEF IInv, VerdictsKnown
    <3> QED BY <1>0, <1>8, <3>1, <3>2 DEF Pre
  <2>2. \A x \in Subjects : Sound(thread'[x].chan, recorded')
    BY <1>0, <1>6, <1>13 DEF IInv, VerdictsKnown
  <2>3. \A q \in Runs : Active(q)' => Sound(mem'[q].chan, recorded')
    BY <1>0, <1>5, <1>11, <1>13 DEF IInv, VerdictsKnown
  <2> QED BY <1>0, <2>1, <2>2, <2>3 DEF IInv, VerdictsKnown
<1>15. \A q \in Runs : OnThread(q)' = OnThread(q) /\ req'[q] = req[q]
  BY <1>0 DEF OnThread
<1>16. Counts'
  <2>1. \A x \in Subjects : inputs[x] \in Nat /\ inputs'[x] \in Nat /\ inputs[x] <= inputs'[x] /\ thread[x].runs \in Nat
    BY <1>1, <1>7 DEF IInv, TypeOK, States
  <2>2. \A x \in Subjects : thread'[x].runs <= inputs'[x]
    BY <1>3, <1>4, <1>6, <1>7, <2>1 DEF IInv, Counts
  <2>3. overlap \subseteq overlap'
    BY <1>0
  <2>4. \A x \in Subjects : x \notin overlap' => thread'[x].runs = inputs'[x]
    BY <1>3, <1>4, <1>6, <1>7, <2>1, <2>3 DEF IInv, Counts
  <2>5. ASSUME NEW q \in Runs, Active(q)', OnThread(q)'
        PROVE  /\ mem'[q].runs <= inputs'[SubjectOf(req'[q])]
               /\ SubjectOf(req'[q]) \notin overlap' => mem'[q].runs = inputs'[SubjectOf(req'[q])]
    <3>1. OnThread(q) /\ req'[q] = req[q] /\ SubjectOf(req[q]) \in Subjects
      BY <1>15, <2>5, SubjectLemma
    <3>2. CASE q = r
      <4>1. mem'[q].runs = thread'[s].runs
        BY <1>5, <1>6, <3>1, <3>2
      <4> QED BY <2>2, <2>4, <3>1, <3>2, <4>1
    <3>3. CASE q # r
      <4>1. Active(q) /\ mem'[q] = mem[q] /\ mem[q].runs \in Nat
        BY <1>5, <1>11, <2>5, <3>3 DEF IInv, TypeOK, States
      <4>2. /\ mem[q].runs <= inputs[SubjectOf(req[q])]
            /\ SubjectOf(req[q]) \notin overlap => mem[q].runs = inputs[SubjectOf(req[q])]
        BY <3>1, <4>1 DEF IInv, Counts
      <4>3. SubjectOf(req[q]) = s => s \in overlap'
        BY <1>0, <4>1 DEF Busy, Active
      <4>4. SubjectOf(req[q]) # s => inputs'[SubjectOf(req[q])] = inputs[SubjectOf(req[q])]
        BY <1>7, <3>1
      <4>5. mem[q].runs <= inputs'[SubjectOf(req[q])]
        BY <2>1, <3>1, <4>1, <4>2
      <4>6. ASSUME SubjectOf(req[q]) \notin overlap'
            PROVE  mem[q].runs = inputs'[SubjectOf(req[q])]
        BY <2>3, <4>2, <4>3, <4>4, <4>6
      <4> QED BY <3>1, <4>1, <4>5, <4>6
    <3> QED BY <3>2, <3>3
  <2> QED BY <2>2, <2>4, <2>5 DEF Counts
<1> QED BY <1>10, <1>12, <1>14, <1>16 DEF IInv

LEMMA KillStep == ASSUME IInv, NEW r \in Runs, Kill(r) PROVE IInv'
BY GoneLemma DEF Kill

----------------------------------------------------------------------------
(* The invariant.                                                          *)

LEMMA Initially == Init => IInv
<1> SUFFICES ASSUME Init PROVE IInv
  OBVIOUS
<1>1. /\ thread \in [Subjects -> States] /\ mem \in [Runs -> States]
      /\ \A s \in Subjects : thread[s] = Fresh
      /\ \A r \in Runs : mem[r] = Fresh /\ pc[r] = "idle" /\ prior[r] = NoPrior
  BY BlankLemma DEF Init
<1>2. req \in [Runs -> Requests] /\ fate \in [Runs -> Fates]
  BY GraphAssumption DEF Init
<1>3. /\ pc \in [Runs -> Nodes \cup Ended \cup {"input"}]
      /\ prior \in [Runs -> [runs : Nat, verdict : Values]]
      /\ path \in [Runs -> Seq(Steps)] /\ failed \in [Runs -> Seq(Steps)]
      /\ answer \in [Runs -> [fp : {"none", "suppressed", "open"}, corr : {"none", "flagged", "quiet"}]]
      /\ inputs \in [Subjects -> Nat]
  BY DEF Init, Ended, NoPrior, Values
<1>4. /\ \A r \in Runs : Len(mem[r].log) <= LogCap /\ Len(mem[r].errs) <= LogCap
      /\ \A s \in Subjects : Len(thread[s].log) <= LogCap /\ Len(thread[s].errs) <= LogCap
  BY <1>1, BlankLemma, GraphAssumption
<1>5. durable \in BOOLEAN /\ recorded = {} /\ overlap = {} /\ \A s \in Subjects : inputs[s] = 0
  BY DEF Init
<1>6. TypeOK
  BY <1>1, <1>2, <1>3, <1>4, <1>5 DEF TypeOK
<1>7. \A r \in Runs : ~Active(r) /\ pc[r] # "done"
  BY <1>1 DEF Active, Ended
<1>8. VerdictsKnown
  BY <1>1, <1>5, <1>7, BlankLemma, VerdictChannel DEF VerdictsKnown, Sound, NoPrior
<1>9. Counts
  BY <1>1, <1>5, <1>7, BlankLemma DEF Counts
<1> QED BY <1>6, <1>7, <1>8, <1>9 DEF IInv, Own

LEMMA Inductive == IInv /\ [Next]_vars => IInv'
<1> SUFFICES ASSUME IInv, [Next]_vars PROVE IInv'
  OBVIOUS
<1>1. ASSUME NEW r \in Runs, Begin(r) PROVE IInv'
  BY <1>1, BeginStep
<1>2. ASSUME NEW r \in Runs, Kill(r) PROVE IInv'
  BY <1>2, KillStep
<1>3. ASSUME NEW r \in Runs, Advance(r) PROVE IInv'
  <2>1. CASE Input(r)
    BY <2>1, InputStep
  <2>2. CASE Recall(r)
    BY <2>2, RecallStep
  <2>3. CASE Extract(r)
    BY <2>3, ExtractStep
  <2>4. CASE FpCheck(r)
    BY <2>4, FpCheckStep
  <2>5. CASE Enrich(r)
    BY <2>5, EnrichStep
  <2>6. CASE Vuln(r)
    BY <2>6, VulnStep
  <2>7. CASE Correlate(r)
    BY <2>7, CorrelateStep
  <2>8. CASE Cluster(r)
    BY <2>8, ClusterStep
  <2>9. CASE Label(r)
    BY <2>9, LabelStep
  <2>10. CASE Analytics(r)
    BY <2>10, AnalyticsStep
  <2>11. CASE Baseline(r)
    BY <2>11, BaselineStep
  <2>12. CASE Report(r)
    BY <2>12, ReportStep
  <2>13. CASE Verdict(r)
    BY <2>13, VerdictStep
  <2> QED BY <1>3, <2>1, <2>2, <2>3, <2>4, <2>5, <2>6, <2>7, <2>8, <2>9, <2>10, <2>11, <2>12, <2>13 DEF Advance
<1>4. CASE UNCHANGED vars
  BY <1>4 DEF vars, IInv, TypeOK, Own, VerdictsKnown, Counts, Active, OnThread, Sound
<1> QED BY <1>1, <1>2, <1>3, <1>4 DEF Next

LEMMA Invariant == Spec => []IInv
<1>1. Init => IInv
  BY Initially
<1>2. IInv /\ [Next]_vars => IInv'
  BY Inductive
<1> QED BY <1>1, <1>2, PTL DEF Spec

(* The workflow keeps its types: a durable thread and a run's state hold   *)
(* channels of the known kinds and logs within _STEP_LOG_CAP, whatever     *)
(* runs of the subject overlap, die or are killed.                         *)
THEOREM TypeCorrect == Spec => []TypeOK
<1>1. IInv => TypeOK
  BY DEF IInv
<1> QED BY <1>1, Invariant, PTL

(* What run_investigation reads of a subject's history before its input    *)
(* lands is true: the prior verdict is one that another run did record,    *)
(* and the run count is never above the runs started on the thread, and    *)
(* equal to them while no two runs of the subject have overlapped.         *)
THEOREM HistoryTold == Spec => []HistoryTrue
<1>1. IInv => HistoryTrue
  BY DEF IInv, VerdictsKnown, Counts, HistoryTrue
<1> QED BY <1>1, Invariant, PTL

(* Every output channel of a finished run was written by that run: nothing *)
(* of an earlier or an overlapping run of the same durable thread reaches  *)
(* the summary, whichever were killed and whatever their nodes met.        *)
THEOREM ChannelsKept == Spec => []ChannelsOwn
<1>1. IInv => ChannelsOwn
  BY DEF IInv, Own, ChannelsOwn
<1> QED BY <1>1, Invariant, PTL

-----------------------------------------------------------------------------
----------------------------------------------------------------------------
(* A run's own log and way.                                                *)

(* The steps a run can have logged when it comes to a node.                *)
MostSteps(n) ==
  IF n = "recall" THEN 0 ELSE IF n = "extract" THEN 1 ELSE IF n = "fp_check" THEN 2
  ELSE IF n = "enrich" THEN 3 ELSE IF n = "vuln" THEN 4 ELSE IF n = "correlate" THEN 5
  ELSE IF n = "cluster" THEN 6 ELSE IF n = "label" THEN 7 ELSE IF n = "analytics" THEN 8
  ELSE IF n = "baseline" THEN 10 ELSE IF n = "report" THEN 11 ELSE IF n = "verdict" THEN 12 ELSE 13

(* A log ends with a run's entries, and they begin at its marker when the  *)
(* run is durable, at the first line when it is not.                       *)
EndsWith(log, r, steps) ==
  /\ \A k \in 1 .. Len(steps) : log[Len(log) - Len(steps) + k] = Entry(r, steps[k])
  /\ IF durable THEN Len(log) > Len(steps) /\ log[Len(log) - Len(steps)] = Marks(r)
     ELSE Len(log) = Len(steps)
LogsKept(r) ==
  /\ Len(path[r]) <= MostSteps(pc[r]) /\ Len(failed[r]) <= Len(path[r])
  /\ EndsWith(mem[r].log, r, path[r]) /\ EndsWith(mem[r].errs, r, failed[r])

(* What is known of the way when a run comes to a node.                    *)
ToEnrich(r) == answer[r].fp # "suppressed" /\ (req[r].srcip \/ req[r].text # "none" \/ req[r].manifest)
OnItsWay(r) ==
  /\ mem[r].chan["correlation"].says = "flagged" <=> answer[r].corr = "flagged"
  /\ mem[r].chan["fp_validation"].says = "suppressed" <=> answer[r].fp = "suppressed"
  /\ pc[r] \in {"recall", "extract"} => mem[r].chan["extract_iocs"] = NoValue
  /\ pc[r] = "fp_check" => (mem[r].chan["extract_iocs"] # NoValue <=> req[r].text # "none")
  /\ pc[r] \in {"recall", "extract", "fp_check"} => ~Took(r, "enrich") /\ answer[r].fp = "none"
  /\ pc[r] \in {"recall", "extract", "fp_check", "enrich", "vuln", "correlate"} => answer[r].corr = "none"
  /\ pc[r] = "enrich" => ToEnrich(r)
  /\ pc[r] \in {"vuln", "correlate", "cluster", "label", "analytics", "baseline", "report", "verdict", "done"}
       => (Took(r, "enrich") <=> ToEnrich(r))
  /\ pc[r] \notin {"baseline", "report", "verdict", "done"} => ~Took(r, "baseline")
  /\ pc[r] = "baseline" => answer[r].corr = "flagged"
  /\ pc[r] \in {"report", "verdict", "done"} => (Took(r, "baseline") <=> answer[r].corr = "flagged")

OwnRun(r) ==
  /\ pc[r] \in Pre => path[r] = <<>> /\ failed[r] = <<>> /\ answer[r] = [fp |-> "none", corr |-> "none"]
  /\ Active(r) \/ pc[r] = "done" => LogsKept(r) /\ OnItsWay(r)
OwnRuns == \A r \in Runs : OwnRun(r)

(* A capped log ends as the whole one does.                                *)
LEMMA CappedEnd ==
  ASSUME NEW p \in Seq(Tags), NEW n \in Seq(Tags)
  PROVE  LET c == CappedAdd(p, n)
             total == Len(p) + Len(n)
         IN /\ total \in Nat /\ Len(c) = IF total > LogCap THEN LogCap ELSE total
            /\ \A k \in 0 .. Len(c) - 1 : c[Len(c) - k] = (p \o n)[total - k]
<1> DEFINE all == p \o n
<1> DEFINE total == Len(p) + Len(n)
<1> DEFINE first == IF total > LogCap THEN total - LogCap + 1 ELSE 1
<1> DEFINE c == CappedAdd(p, n)
<1>1. all \in Seq(Tags) /\ Len(all) = total /\ total \in Nat /\ LogCap \in Nat /\ LogCap > 0
  BY ConcatProperties, LenProperties, GraphAssumption
<1>2. c = SubSeq(all, first, total)
  BY <1>1 DEF CappedAdd
<1>3. first \in Int /\ first >= 1 /\ first <= total + 1
      /\ total - first + 1 = IF total > LogCap THEN LogCap ELSE total
  BY <1>1
<1>4. \A i \in 1 .. total : all[i] \in Tags
  BY <1>1, ElementOfSeq
<1> HIDE DEF all, total, first, c
<1>5. /\ Len(c) = IF first <= total THEN total - first + 1 ELSE 0
      /\ \A i \in 1 .. total - first + 1 : c[i] = all[first + i - 1]
  <2>1. \A i \in first .. total : all[i] \in Tags
    BY <1>1, <1>3, <1>4
  <2> QED BY <1>1, <1>2, <1>3, <2>1, SubSeqProperties
<1>6. Len(c) = total - first + 1
  BY <1>1, <1>3, <1>5
<1>7. \A k \in 0 .. Len(c) - 1 : c[Len(c) - k] = all[total - k]
  <2> SUFFICES ASSUME NEW k \in 0 .. Len(c) - 1 PROVE c[Len(c) - k] = all[total - k]
    OBVIOUS
  <2>1. Len(c) - k \in 1 .. total - first + 1 /\ first + (Len(c) - k) - 1 = total - k
    BY <1>1, <1>3, <1>6
  <2> QED BY <1>5, <2>1
<1> QED BY <1>1, <1>3, <1>6, <1>7 DEF all, total, c

(* The entries of a run stay at the end of its log while there is room for *)
(* them and the marker.                                                    *)
LEMMA EndsWithMore ==
  ASSUME NEW r \in Runs, NEW log \in Seq(Tags), NEW p \in Seq(Steps), NEW n \in Seq(Steps),
         EndsWith(log, r, p), Len(p) + Len(n) < LogCap
  PROVE  EndsWith(CappedAdd(log, Entries(r, n)), r, p \o n)
<1> DEFINE e == Entries(r, n)
<1> DEFINE c == CappedAdd(log, e)
<1> DEFINE m == Len(p) + Len(n)
<1>1. e \in Seq(Tags) /\ Len(e) = Len(n) /\ \A k \in 1 .. Len(n) : e[k] = Entry(r, n[k])
  BY EntriesLemma DEF Entries
<1>2. Len(p) \in Nat /\ Len(n) \in Nat /\ Len(log) \in Nat /\ LogCap \in Nat
  BY LenProperties, GraphAssumption
<1>3. p \o n \in Seq(Steps) /\ Len(p \o n) = m
      /\ \A i \in 1 .. m : (p \o n)[i] = IF i <= Len(p) THEN p[i] ELSE n[i - Len(p)]
  BY ConcatProperties
<1> DEFINE total == Len(log) + Len(n)
<1>4. /\ Len(c) = IF total > LogCap THEN LogCap ELSE total
      /\ \A k \in 0 .. Len(c) - 1 : c[Len(c) - k] = (log \o e)[total - k]
  BY <1>1, CappedEnd
<1>5. \A i \in 1 .. total : (log \o e)[i] = IF i <= Len(log) THEN log[i] ELSE e[i - Len(log)]
  BY <1>1, ConcatProperties
<1> HIDE DEF e, c
<1>6. Len(p) <= Len(log) /\ m <= Len(c) /\ m < LogCap /\ m <= total
  BY <1>2, <1>4 DEF EndsWith
<1>7. ASSUME NEW k \in 1 .. m PROVE c[Len(c) - m + k] = Entry(r, (p \o n)[k])
  <2>1. m - k \in 0 .. Len(c) - 1 /\ Len(c) - m + k = Len(c) - (m - k)
    BY <1>2, <1>4, <1>6
  <2>2. c[Len(c) - m + k] = (log \o e)[total - (m - k)]
    BY <1>4, <2>1
  <2>3. total - (m - k) \in 1 .. total /\ total - (m - k) = Len(log) - Len(p) + k
    BY <1>2, <1>6
  <2>4. CASE k <= Len(p)
    <3>1. (log \o e)[total - (m - k)] = log[Len(log) - Len(p) + k]
      BY <1>2, <1>5, <2>3, <2>4
    <3>2. k \in 1 .. Len(p) /\ (p \o n)[k] = p[k]
      BY <1>2, <1>3, <2>4
    <3> QED BY <2>2, <3>1, <3>2 DEF EndsWith
  <2>5. CASE k > Len(p)
    <3>1. (log \o e)[total - (m - k)] = e[k - Len(p)]
      <4> DEFINE i == total - (m - k)
      <4>1. i \in Int /\ Len(log) \in Int /\ i > Len(log) /\ i - Len(log) = k - Len(p)
        BY <1>2, <2>5
      <4>2. (log \o e)[i] = IF i <= Len(log) THEN log[i] ELSE e[i - Len(log)]
        BY <1>5, <2>3
      <4> HIDE DEF i
      <4>3. (log \o e)[i] = e[k - Len(p)]
        BY <4>1, <4>2
      <4> QED BY <4>3 DEF i
    <3>2. k - Len(p) \in 1 .. Len(n) /\ (p \o n)[k] = n[k - Len(p)]
      BY <1>2, <1>3, <2>5
    <3> QED BY <1>1, <2>2, <3>1, <3>2
  <2> QED BY <1>2, <2>4, <2>5
<1>8. CASE durable
  <2>1. Len(log) > Len(p) /\ log[Len(log) - Len(p)] = Marks(r)
    BY <1>8 DEF EndsWith
  <2>2. Len(c) > m
    BY <1>2, <1>4, <1>6, <2>1
  <2>3. m \in 0 .. Len(c) - 1
    BY <1>2, <1>6, <2>2
  <2>4. c[Len(c) - m] = (log \o e)[total - m]
    BY <1>4, <2>3
  <2>5. total - m = Len(log) - Len(p) /\ total - m \in 1 .. total /\ total - m <= Len(log)
    BY <1>2, <2>1
  <2>6. (log \o e)[total - m] = log[Len(log) - Len(p)]
    BY <1>5, <2>5
  <2> QED BY <1>3, <1>7, <1>8, <2>1, <2>2, <2>4, <2>6 DEF EndsWith, c, e
<1>9. CASE ~durable
  <2>1. Len(log) = Len(p)
    BY <1>9 DEF EndsWith
  <2>2. Len(c) = m
    BY <1>2, <1>4, <1>6, <2>1
  <2> QED BY <1>3, <1>7, <1>9, <2>2 DEF EndsWith, c, e
<1> QED BY <1>8, <1>9

(* What follows the last marker of such a log is those entries.            *)
LEMMA ThisRunIs ==
  ASSUME NEW r \in Runs, NEW log \in Seq(Tags), NEW p \in Seq(Steps), EndsWith(log, r, p)
  PROVE  ThisRun(log) = Entries(r, p)
<1> DEFINE m == Len(log) - Len(p)
<1> DEFINE last == IF Markers(log) = {} THEN 0 ELSE CHOOSE k \in Markers(log) : \A j \in Markers(log) : j <= k
<1>1. Len(p) \in Nat /\ Len(log) \in Nat /\ Len(p) <= Len(log)
  BY LenProperties DEF EndsWith
<1>2. \A k \in 1 .. Len(p) : p[k] \in Steps /\ p[k] # "start"
  BY ElementOfSeq DEF Steps
<1>3. \A k \in 1 .. Len(p) : log[m + k] = Entry(r, p[k]) /\ log[m + k].step # "start"
  BY <1>2 DEF EndsWith, Entry
<1>4. \A j \in Markers(log) : j \in 1 .. Len(log) /\ j <= m
  <2> SUFFICES ASSUME NEW j \in 1 .. Len(log), log[j].step = "start", j > m PROVE FALSE
    BY <1>1 DEF Markers
  <2>1. j - m \in 1 .. Len(p) /\ m + (j - m) = j
    BY <1>1
  <2> QED BY <1>3, <2>1
<1>5. last = m
  <2>1. CASE durable
    <3>1. m \in 1 .. Len(log) /\ log[m].step = "start"
      BY <1>1, <2>1 DEF EndsWith, Marks, Entry
    <3>2. m \in Markers(log)
      BY <3>1 DEF Markers
    <3>3. \A k \in Markers(log) : (\A j \in Markers(log) : j <= k) <=> k = m
      BY <1>1, <1>4, <3>2
    <3> HIDE DEF m
    <3> QED BY <3>2, <3>3
  <2>2. CASE ~durable
    <3>1. m = 0
      BY <1>1, <2>2 DEF EndsWith
    <3>2. Markers(log) = {}
      BY <1>1, <1>4, <3>1
    <3> QED BY <3>1, <3>2
  <2> QED BY <2>1, <2>2
<1> HIDE DEF last
<1>6. ThisRun(log) = SubSeq(log, m + 1, Len(log))
  <2>1. ThisRun(log) = SubSeq(log, last + 1, Len(log))
    BY DEF ThisRun, last
  <2> QED BY <1>5, <2>1
<1>7. \A i \in m + 1 .. Len(log) : log[i] \in Tags
  BY <1>1, ElementOfSeq
<1> DEFINE t == SubSeq(log, m + 1, Len(log))
<1>8. /\ t \in Seq(Tags) /\ Len(t) = Len(p)
      /\ \A i \in 1 .. Len(p) : t[i] = log[m + i]
  <2>1. m + 1 \in Int /\ Len(log) \in Int /\ Len(log) - (m + 1) + 1 = Len(p)
    BY <1>1
  <2>2. /\ t \in Seq(Tags) /\ Len(t) = IF m + 1 <= Len(log) THEN Len(log) - (m + 1) + 1 ELSE 0
        /\ \A i \in 1 .. Len(log) - (m + 1) + 1 : t[i] = log[m + 1 + i - 1]
    BY <1>7, <2>1, SubSeqProperties
  <2>3. \A i \in 1 .. Len(p) : m + 1 + i - 1 = m + i
    BY <1>1
  <2> HIDE DEF t
  <2>4. Len(t) = Len(p)
    BY <1>1, <2>1, <2>2
  <2>5. \A i \in 1 .. Len(p) : t[i] = log[m + i]
    BY <2>1, <2>2, <2>3
  <2> QED BY <2>2, <2>4, <2>5
<1>9. Entries(r, p) \in Seq(Tags) /\ Len(Entries(r, p)) = Len(p) /\ \A i \in 1 .. Len(p) : Entries(r, p)[i] = Entry(r, p[i])
  BY <1>1, EntriesLemma DEF Entries
<1> HIDE DEF t
<1>10. t = Entries(r, p)
  BY <1>3, <1>8, <1>9, SeqEqual
<1> QED BY <1>6, <1>10 DEF t

(* What the end of a node does to its run, and to the others.              *)
Moved(r, node, chan, steps, errors, next) ==
  /\ pc[r] = node /\ Active(r) /\ durable' = durable /\ req' = req
  /\ pc'[r] = next /\ mem'[r] = Update(r, chan, steps, errors) /\ mem'[r].chan = chan
  /\ path'[r] = path[r] \o steps /\ failed'[r] = failed[r] \o errors
  /\ \A q \in Runs \ {r} : /\ pc'[q] = pc[q] /\ mem'[q] = mem[q]
                           /\ path'[q] = path[q] /\ failed'[q] = failed[q]
  /\ path[r] \in Seq(Steps) /\ failed[r] \in Seq(Steps)
  /\ mem[r].log \in Seq(Tags) /\ mem[r].errs \in Seq(Tags)

LEMMA FinishIs ==
  ASSUME IInv, NEW r \in Runs, NEW node \in Nodes, NEW chan,
         NEW steps \in Seq(Steps), NEW errors \in Seq(Steps), NEW next \in Nodes \cup {"done"},
         Finish(r, node, chan, steps, errors, next)
  PROVE  Moved(r, node, chan, steps, errors, next)
<1>1. /\ pc[r] = node
      /\ mem' = [mem EXCEPT ![r] = Update(r, chan, steps, errors)]
      /\ pc' = [pc EXCEPT ![r] = next]
      /\ path' = [path EXCEPT ![r] = @ \o steps]
      /\ failed' = [failed EXCEPT ![r] = @ \o errors]
      /\ UNCHANGED <<durable, req, fate>>
  BY DEF Finish
<1>2. /\ pc \in [Runs -> Nodes \cup Ended \cup {"input"}] /\ mem \in [Runs -> States]
      /\ path \in [Runs -> Seq(Steps)] /\ failed \in [Runs -> Seq(Steps)]
  BY DEF IInv, TypeOK
<1>3. mem[r].log \in Seq(Tags) /\ mem[r].errs \in Seq(Tags)
  BY <1>2 DEF States, Logs, Tags
<1>4. Active(r)
  BY <1>1 DEF Active, Nodes, Ended
<1>5. Update(r, chan, steps, errors).chan = chan
  BY DEF Update
<1> QED BY <1>1, <1>2, <1>3, <1>4, <1>5 DEF Moved

(* The steps of another run leave a run's own facts alone.                 *)
LEMMA OthersKept ==
  ASSUME NEW q \in Runs, OwnRun(q), UNCHANGED <<durable, req>>,
         pc'[q] = pc[q], mem'[q] = mem[q], path'[q] = path[q], failed'[q] = failed[q], answer'[q] = answer[q]
  PROVE  OwnRun(q)'
<1>1. Active(q)' = Active(q) /\ (pc'[q] \in Pre <=> pc[q] \in Pre)
  BY DEF Active
<1>2. LogsKept(q) => LogsKept(q)'
  BY DEF LogsKept, EndsWith
<1>3. /\ ToEnrich(q)' = ToEnrich(q)
      /\ Took(q, "enrich")' = Took(q, "enrich") /\ Took(q, "baseline")' = Took(q, "baseline")
  BY DEF ToEnrich, Took
<1>4. OnItsWay(q) => OnItsWay(q)'
  BY <1>3 DEF OnItsWay
<1> QED BY <1>1, <1>2, <1>4 DEF OwnRun

(* The logs of a run whose node ends.                                      *)
LEMMA LogsStep ==
  ASSUME OwnRuns, LogCap >= 14, NEW r \in Runs, NEW node \in Nodes, NEW chan,
         NEW steps \in Seq(Steps), NEW errors \in Seq(Steps), NEW next \in Nodes \cup {"done"},
         Moved(r, node, chan, steps, errors, next),
         Len(errors) <= Len(steps), MostSteps(node) + Len(steps) <= MostSteps(next)
  PROVE  LogsKept(r)'
<1>1. /\ pc[r] = node /\ Active(r) /\ durable' = durable
      /\ pc'[r] = next /\ mem'[r] = Update(r, chan, steps, errors)
      /\ path'[r] = path[r] \o steps /\ failed'[r] = failed[r] \o errors
      /\ path[r] \in Seq(Steps) /\ failed[r] \in Seq(Steps) /\ mem[r].log \in Seq(Tags) /\ mem[r].errs \in Seq(Tags)
  BY DEF Moved
<1>2. LogsKept(r)
  BY <1>1 DEF OwnRuns, OwnRun
<1>3. /\ Len(path[r]) \in Nat /\ Len(failed[r]) \in Nat /\ Len(steps) \in Nat /\ Len(errors) \in Nat /\ LogCap \in Nat
      /\ Len(path[r] \o steps) = Len(path[r]) + Len(steps) /\ Len(failed[r] \o errors) = Len(failed[r]) + Len(errors)
  BY <1>1, LenProperties, ConcatProperties, GraphAssumption
<1>4. MostSteps(next) <= 13 /\ MostSteps(next) \in Nat /\ MostSteps(node) \in Nat
  BY DEF MostSteps
<1>5. Len(path[r]) <= MostSteps(node) /\ Len(failed[r]) <= Len(path[r])
  BY <1>1, <1>2 DEF LogsKept
<1>6. Len(path[r]) + Len(steps) < LogCap /\ Len(failed[r]) + Len(errors) < LogCap
  BY <1>3, <1>4, <1>5
<1>7. /\ mem'[r].log = CappedAdd(mem[r].log, Entries(r, steps))
      /\ mem'[r].errs = CappedAdd(mem[r].errs, Entries(r, errors))
  BY <1>1 DEF Update
<1>8. EndsWith(CappedAdd(mem[r].log, Entries(r, steps)), r, path[r] \o steps)
  <2>1. EndsWith(mem[r].log, r, path[r])
    BY <1>2 DEF LogsKept
  <2> QED BY <1>1, <1>6, <2>1, EndsWithMore
<1>9. EndsWith(CappedAdd(mem[r].errs, Entries(r, errors)), r, failed[r] \o errors)
  <2>1. EndsWith(mem[r].errs, r, failed[r])
    BY <1>2 DEF LogsKept
  <2> QED BY <1>1, <1>6, <2>1, EndsWithMore
<1>10. EndsWith(mem[r].log, r, path[r])' /\ EndsWith(mem[r].errs, r, failed[r])'
  BY <1>1, <1>7, <1>8, <1>9 DEF EndsWith
<1>11. Len(path'[r]) <= MostSteps(pc'[r]) /\ Len(failed'[r]) <= Len(path'[r])
  BY <1>1, <1>3, <1>4, <1>5
<1> QED BY <1>10, <1>11 DEF LogsKept

(* The steps a run has taken once its node ends.                           *)
LEMMA TookMore ==
  ASSUME IInv, NEW r \in Runs, NEW steps \in Seq(Steps), path'[r] = path[r] \o steps
  PROVE  \A x : Took(r, x)' <=> Took(r, x) \/ \E k \in 1 .. Len(steps) : steps[k] = x
<1>1. path[r] \in Seq(Steps)
  BY DEF IInv, TypeOK
<1>2. /\ Len(path[r]) \in Nat /\ Len(steps) \in Nat
      /\ Len(path'[r]) = Len(path[r]) + Len(steps)
      /\ \A i \in 1 .. Len(path[r]) + Len(steps) :
           path'[r][i] = IF i <= Len(path[r]) THEN path[r][i] ELSE steps[i - Len(path[r])]
  BY <1>1, ConcatProperties, LenProperties
<1>3. \A i \in 1 .. Len(path[r]) : i \in 1 .. Len(path'[r]) /\ path'[r][i] = path[r][i]
  BY <1>2
<1>4. \A k \in 1 .. Len(steps) : Len(path[r]) + k \in 1 .. Len(path'[r]) /\ path'[r][Len(path[r]) + k] = steps[k]
  BY <1>2
<1>5. \A i \in 1 .. Len(path'[r]) :
        \/ i \in 1 .. Len(path[r]) /\ path'[r][i] = path[r][i]
        \/ i - Len(path[r]) \in 1 .. Len(steps) /\ path'[r][i] = steps[i - Len(path[r])]
  BY <1>2
<1> QED BY <1>3, <1>4, <1>5 DEF Took

(* The steps a node logs, and where its run goes on from it.               *)
StepsOf(node) == IF node = "analytics" THEN <<"graph", "killchain">> ELSE <<node>>
GoesTo(r, node, chan, next) ==
  /\ node = "recall" => next = "extract"
  /\ node = "extract" => next = "fp_check"
  /\ node = "fp_check" => next = AfterFpCheck(r, chan)
  /\ node = "enrich" => next = "vuln"
  /\ node = "vuln" => next = "correlate"
  /\ node = "correlate" => next = "cluster"
  /\ node = "cluster" => next = "label"
  /\ node = "label" => next = "analytics"
  /\ node = "analytics" => next = AfterAnalytics(r)
  /\ node = "baseline" => next = AfterBaseline(r)
  /\ node = "report" => next = AfterReport(r)
  /\ node = "verdict" => next = "done"

(* What a node finds is what its channels say.                             *)
FindsAs(r, node, chan) ==
  /\ chan["correlation"].says = "flagged" <=> answer'[r].corr = "flagged"
  /\ chan["fp_validation"].says = "suppressed" <=> answer'[r].fp = "suppressed"
  /\ node = "recall" => chan["extract_iocs"] = NoValue
  /\ node = "extract" => (chan["extract_iocs"] # NoValue <=> req[r].text # "none")
  /\ node # "fp_check" => answer'[r].fp = answer[r].fp
  /\ node # "correlate" => answer'[r].corr = answer[r].corr

LEMMA StepsAre ==
  ASSUME NEW node \in Nodes
  PROVE  /\ StepsOf(node) \in Seq(Steps)
         /\ Len(StepsOf(node)) = IF node = "analytics" THEN 2 ELSE 1
         /\ (\E k \in 1 .. Len(StepsOf(node)) : StepsOf(node)[k] = "enrich") <=> node = "enrich"
         /\ (\E k \in 1 .. Len(StepsOf(node)) : StepsOf(node)[k] = "baseline") <=> node = "baseline"
<1>1. CASE node = "analytics"
  <2>1. StepsOf(node) = <<"graph", "killchain">>
    BY <1>1 DEF StepsOf
  <2>2. /\ <<"graph", "killchain">> \in Seq(Steps) /\ Len(<<"graph", "killchain">>) = 2
        /\ <<"graph", "killchain">>[1] = "graph" /\ <<"graph", "killchain">>[2] = "killchain"
    BY Names
  <2>3. \A k \in 1 .. 2 : k = 1 \/ k = 2
    OBVIOUS
  <2>4. \A k \in 1 .. 2 : StepsOf(node)[k] # "enrich" /\ StepsOf(node)[k] # "baseline"
    BY <2>1, <2>2, <2>3
  <2> QED BY <1>1, <2>1, <2>2, <2>4
<1>2. CASE node # "analytics"
  <2>1. StepsOf(node) = <<node>> /\ node \in Steps
    BY <1>2 DEF StepsOf, Nodes, Steps
  <2>2. \A k \in 1 .. 1 : k = 1
    OBVIOUS
  <2> QED BY <1>2, <2>1, <2>2
<1> QED BY <1>1, <1>2

LEMMA WayStep ==
  ASSUME IInv, OwnRuns, NEW r \in Runs, NEW node \in Nodes, NEW chan, NEW errors, NEW next,
         Moved(r, node, chan, StepsOf(node), errors, next),
         GoesTo(r, node, chan, next), FindsAs(r, node, chan)
  PROVE  OnItsWay(r)'
<1>1. /\ pc[r] = node /\ pc'[r] = next /\ mem'[r].chan = chan /\ req' = req
      /\ path'[r] = path[r] \o StepsOf(node)
  BY DEF Moved
<1>2. OnItsWay(r)
  BY DEF OwnRuns, OwnRun, Moved
<1>3. /\ Took(r, "enrich")' <=> Took(r, "enrich") \/ node = "enrich"
      /\ Took(r, "baseline")' <=> Took(r, "baseline") \/ node = "baseline"
  <2>1. StepsOf(node) \in Seq(Steps)
    BY StepsAre
  <2>2. \A x : Took(r, x)' <=> Took(r, x) \/ \E k \in 1 .. Len(StepsOf(node)) : StepsOf(node)[k] = x
    BY <1>1, <2>1, TookMore
  <2> QED BY <2>2, StepsAre
<1>4. ToEnrich(r)' <=> answer'[r].fp # "suppressed" /\ (req[r].srcip \/ req[r].text # "none" \/ req[r].manifest)
  BY <1>1 DEF ToEnrich
<1> USE DEF OnItsWay, FindsAs, GoesTo
<1>5. CASE node = "recall"
  BY <1>1, <1>2, <1>3, <1>4, <1>5
<1>6. CASE node = "extract"
  BY <1>1, <1>2, <1>3, <1>4, <1>6
<1>7. CASE node = "fp_check"
  <2>1. HasTargets(r) <=> (req[r].srcip \/ req[r].text # "none" \/ req[r].manifest)
    BY <1>1, <1>2, <1>7 DEF HasTargets
  <2> QED BY <1>1, <1>2, <1>3, <1>4, <1>7, <2>1 DEF AfterFpCheck
<1>8. CASE node = "enrich"
  BY <1>1, <1>2, <1>3, <1>4, <1>8 DEF ToEnrich
<1>9. CASE node \in {"vuln", "correlate", "cluster", "label"}
  BY <1>1, <1>2, <1>3, <1>4, <1>9 DEF ToEnrich
<1>10. CASE node = "analytics"
  BY <1>1, <1>2, <1>3, <1>4, <1>10 DEF ToEnrich, AfterAnalytics, AfterBaseline, VerdictOrEnd
<1>11. CASE node \in {"baseline", "report", "verdict"}
  BY <1>1, <1>2, <1>3, <1>4, <1>11 DEF ToEnrich, AfterBaseline, AfterReport, VerdictOrEnd
<1> QED BY <1>5, <1>6, <1>7, <1>8, <1>9, <1>10, <1>11 DEF Nodes

LEMMA RoomEnough ==
  ASSUME NEW r \in Runs, NEW node \in Nodes, NEW chan, NEW next, GoesTo(r, node, chan, next)
  PROVE  next \in Nodes \cup {"done"} /\ MostSteps(node) + Len(StepsOf(node)) <= MostSteps(next)
<1>1. Len(StepsOf(node)) = IF node = "analytics" THEN 2 ELSE 1
  BY StepsAre
<1> USE DEF GoesTo, MostSteps, Nodes
<1>2. CASE node \in {"recall", "extract", "fp_check", "enrich"}
  BY <1>1, <1>2 DEF AfterFpCheck
<1>3. CASE node \in {"vuln", "correlate", "cluster", "label"}
  BY <1>1, <1>3
<1>4. CASE node \in {"analytics", "baseline", "report", "verdict"}
  BY <1>1, <1>4 DEF AfterAnalytics, AfterBaseline, AfterReport, VerdictOrEnd
<1> QED BY <1>2, <1>3, <1>4

(* A node's end keeps every run's log and way its own.                     *)
LEMMA OwnStep ==
  ASSUME IInv, OwnRuns, LogCap >= 14, NEW r \in Runs, NEW node \in Nodes, NEW chan,
         NEW errors \in Seq(Steps), NEW next,
         Finish(r, node, chan, StepsOf(node), errors, next), Len(errors) <= Len(StepsOf(node)),
         GoesTo(r, node, chan, next), FindsAs(r, node, chan),
         \A q \in Runs \ {r} : answer'[q] = answer[q]
  PROVE  OwnRuns'
<1>1. next \in Nodes \cup {"done"} /\ MostSteps(node) + Len(StepsOf(node)) <= MostSteps(next)
      /\ StepsOf(node) \in Seq(Steps)
  BY RoomEnough, StepsAre
<1>2. Moved(r, node, chan, StepsOf(node), errors, next)
  BY <1>1, FinishIs
<1>3. OnItsWay(r)'
  BY <1>2, WayStep
<1>4. LogsKept(r)'
  BY <1>1, <1>2, LogsStep
<1>5. pc'[r] \notin Pre
  BY <1>1, <1>2 DEF Moved, Nodes, Pre
<1>6. OwnRun(r)'
  BY <1>3, <1>4, <1>5 DEF OwnRun
<1>7. ASSUME NEW q \in Runs \ {r} PROVE OwnRun(q)'
  <2>1. /\ durable' = durable /\ req' = req /\ pc'[q] = pc[q] /\ mem'[q] = mem[q]
        /\ path'[q] = path[q] /\ failed'[q] = failed[q] /\ answer'[q] = answer[q]
    BY <1>2 DEF Moved
  <2>2. OwnRun(q)
    BY DEF OwnRuns
  <2> QED BY <2>1, <2>2, OthersKept
<1> QED BY <1>6, <1>7 DEF OwnRuns

(* A node that finds nothing its run is routed by.                         *)
LEMMA QuietStep ==
  ASSUME IInv, OwnRuns, LogCap >= 14, NEW r \in Runs, NEW node \in Nodes, NEW chan,
         NEW errors \in Seq(Steps), NEW next,
         Finish(r, node, chan, StepsOf(node), errors, next), Len(errors) <= Len(StepsOf(node)),
         GoesTo(r, node, chan, next), node = "extract" => req[r].text = "none", answer' = answer,
         \/ chan = mem[r].chan
         \/ \E c \in Channels \ {"correlation", "fp_validation", "extract_iocs"}, x \in Sayings : chan = Put(r, c, x)
  PROVE  OwnRuns'
<1>1. pc[r] = node /\ Active(r)
  BY DEF Finish, Active, Nodes, Ended
<1>2. OnItsWay(r)
  BY <1>1 DEF OwnRuns, OwnRun
<1>3. \A c \in {"correlation", "fp_validation", "extract_iocs"} : chan[c] = mem[r].chan[c]
  <2>1. mem[r].chan \in [Channels -> Values]
    BY DEF IInv, TypeOK, States
  <2>2. \A c \in {"correlation", "fp_validation", "extract_iocs"} : c \in Channels
    BY DEF Channels
  <2>3. ASSUME NEW c \in Channels \ {"correlation", "fp_validation", "extract_iocs"}, NEW x \in Sayings,
               chan = Put(r, c, x)
        PROVE  \A d \in {"correlation", "fp_validation", "extract_iocs"} : chan[d] = mem[r].chan[d]
    BY <2>1, <2>2, <2>3 DEF Put
  <2> QED BY <2>3
<1>4. FindsAs(r, node, chan)
  BY <1>1, <1>2, <1>3 DEF OnItsWay, FindsAs
<1> QED BY <1>4, OwnStep

LEMMA PlainOwn ==
  ASSUME IInv, OwnRuns, LogCap >= 14, NEW r \in Runs, NEW node \in Nodes \cap Steps, NEW next,
         \/ Skips(r, node, next) \/ Degrades(r, node, next)
         \/ \E c \in Channels \ {"correlation", "fp_validation", "extract_iocs"}, x \in Sayings :
              \/ Finish(r, node, Put(r, c, x), <<node>>, <<>>, next)
              \/ Finish(r, node, Put(r, c, x), <<node>>, <<node>>, next),
         \A chan : chan = mem[r].chan \/ node # "fp_check" => GoesTo(r, node, chan, next),
         node = "fp_check" => Skips(r, node, next) \/ Degrades(r, node, next),
         node = "extract" => req[r].text = "none", answer' = answer
  PROVE  OwnRuns'
<1>1. /\ <<node>> \in Seq(Steps) /\ <<>> \in Seq(Steps) /\ Len(<<node>>) = 1 /\ Len(<<>>) = 0
      /\ StepsOf(node) = <<node>> /\ Len(StepsOf(node)) = 1
  BY DEF StepsOf, Steps
<1>2. CASE Skips(r, node, next)
  <2>1. Finish(r, node, mem[r].chan, StepsOf(node), <<>>, next) /\ GoesTo(r, node, mem[r].chan, next)
    BY <1>1, <1>2 DEF Skips
  <2>2. Len(<<>>) <= Len(StepsOf(node))
    BY <1>1
  <2> QED BY <1>1, <2>1, <2>2, QuietStep
<1>3. CASE Degrades(r, node, next)
  <2>1. Finish(r, node, mem[r].chan, StepsOf(node), <<node>>, next) /\ GoesTo(r, node, mem[r].chan, next)
    BY <1>1, <1>3 DEF Degrades
  <2>2. Len(<<node>>) <= Len(StepsOf(node))
    BY <1>1
  <2> QED BY <1>1, <2>1, <2>2, QuietStep
<1>4. ASSUME node # "fp_check",
             NEW c \in Channels \ {"correlation", "fp_validation", "extract_iocs"}, NEW x \in Sayings,
             NEW errors \in Seq(Steps), Len(errors) <= 1, Finish(r, node, Put(r, c, x), <<node>>, errors, next)
      PROVE  OwnRuns'
  <2> DEFINE chan == Put(r, c, x)
  <2>1. Finish(r, node, chan, StepsOf(node), errors, next) /\ GoesTo(r, node, chan, next)
        /\ Len(errors) <= Len(StepsOf(node))
    BY <1>1, <1>4
  <2>2. \E d \in Channels \ {"correlation", "fp_validation", "extract_iocs"}, y \in Sayings : chan = Put(r, d, y)
    OBVIOUS
  <2> HIDE DEF chan
  <2> QED BY <2>1, <2>2, QuietStep
<1>5. CASE node # "fp_check"
  <2>1. Len(<<node>>) <= 1 /\ Len(<<>>) <= 1
    BY <1>1
  <2> QED BY <1>1, <1>2, <1>3, <1>4, <1>5, <2>1
<1> QED BY <1>2, <1>3, <1>5

LEMMA OwnChannels ==
  \A c \in {"enrichment", "vulnerabilities", "clusters", "incident_label", "killchain", "baseline",
            "report_path", "verdict", "recalled_memory"} :
    c \in Channels \ {"correlation", "fp_validation", "extract_iocs"}
BY DEF Channels

LEMMA RecallOwn == ASSUME IInv, OwnRuns, LogCap >= 14, NEW r \in Runs, Recall(r) PROVE OwnRuns'
<1>1. \/ Skips(r, "recall", "extract") \/ Degrades(r, "recall", "extract")
      \/ \E c \in Channels \ {"correlation", "fp_validation", "extract_iocs"}, x \in Sayings :
           \/ Finish(r, "recall", Put(r, c, x), <<"recall">>, <<>>, "extract")
           \/ Finish(r, "recall", Put(r, c, x), <<"recall">>, <<"recall">>, "extract")
  BY OwnChannels DEF Recall, Writes, Sayings
<1>2. answer' = answer /\ "recall" \in Nodes \cap Steps
  BY Names DEF Recall, Told
<1>3. \A chan : GoesTo(r, "recall", chan, "extract")
  BY DEF GoesTo
<1> QED BY <1>1, <1>2, <1>3, PlainOwn

LEMMA EnrichOwn == ASSUME IInv, OwnRuns, LogCap >= 14, NEW r \in Runs, Enrich(r) PROVE OwnRuns'
<1>1. \/ Skips(r, "enrich", "vuln") \/ Degrades(r, "enrich", "vuln")
      \/ \E c \in Channels \ {"correlation", "fp_validation", "extract_iocs"}, x \in Sayings :
           Finish(r, "enrich", Put(r, c, x), <<"enrich">>, <<>>, "vuln")
  BY OwnChannels DEF Enrich, Writes, Sayings
<1>2. answer' = answer /\ "enrich" \in Nodes \cap Steps
  BY Names DEF Enrich, Told
<1>3. \A chan : GoesTo(r, "enrich", chan, "vuln")
  BY DEF GoesTo
<1> QED BY <1>1, <1>2, <1>3, PlainOwn

LEMMA VulnOwn == ASSUME IInv, OwnRuns, LogCap >= 14, NEW r \in Runs, Vuln(r) PROVE OwnRuns'
<1>1. \/ Skips(r, "vuln", "correlate")
      \/ \E c \in Channels \ {"correlation", "fp_validation", "extract_iocs"}, x \in Sayings :
           Finish(r, "vuln", Put(r, c, x), <<"vuln">>, <<>>, "correlate")
  BY OwnChannels DEF Vuln, Writes, Sayings
<1>2. answer' = answer /\ "vuln" \in Nodes \cap Steps
  BY Names DEF Vuln, Told
<1>3. \A chan : GoesTo(r, "vuln", chan, "correlate")
  BY DEF GoesTo
<1> QED BY <1>1, <1>2, <1>3, PlainOwn

LEMMA ClusterOwn == ASSUME IInv, OwnRuns, LogCap >= 14, NEW r \in Runs, Cluster(r) PROVE OwnRuns'
<1>1. \/ Skips(r, "cluster", "label") \/ Degrades(r, "cluster", "label")
      \/ \E c \in Channels \ {"correlation", "fp_validation", "extract_iocs"}, x \in Sayings :
           Finish(r, "cluster", Put(r, c, x), <<"cluster">>, <<>>, "label")
  BY OwnChannels DEF Cluster, Writes, Sayings
<1>2. answer' = answer /\ "cluster" \in Nodes \cap Steps
  BY Names DEF Cluster, Told
<1>3. \A chan : GoesTo(r, "cluster", chan, "label")
  BY DEF GoesTo
<1> QED BY <1>1, <1>2, <1>3, PlainOwn

LEMMA LabelOwn == ASSUME IInv, OwnRuns, LogCap >= 14, NEW r \in Runs, Label(r) PROVE OwnRuns'
<1>1. \/ Skips(r, "label", "analytics") \/ Degrades(r, "label", "analytics")
      \/ \E c \in Channels \ {"correlation", "fp_validation", "extract_iocs"}, x \in Sayings :
           \/ Finish(r, "label", Put(r, c, x), <<"label">>, <<>>, "analytics")
           \/ Finish(r, "label", Put(r, c, x), <<"label">>, <<"label">>, "analytics")
  BY OwnChannels DEF Label, Writes, Sayings
<1>2. answer' = answer /\ "label" \in Nodes \cap Steps
  BY Names DEF Label, Told
<1>3. \A chan : GoesTo(r, "label", chan, "analytics")
  BY DEF GoesTo
<1> QED BY <1>1, <1>2, <1>3, PlainOwn

LEMMA BaselineOwn == ASSUME IInv, OwnRuns, LogCap >= 14, NEW r \in Runs, Baseline(r) PROVE OwnRuns'
<1>1. \/ Degrades(r, "baseline", AfterBaseline(r))
      \/ \E c \in Channels \ {"correlation", "fp_validation", "extract_iocs"}, x \in Sayings :
           Finish(r, "baseline", Put(r, c, x), <<"baseline">>, <<>>, AfterBaseline(r))
  BY OwnChannels DEF Baseline, Writes, Sayings
<1>2. answer' = answer /\ "baseline" \in Nodes \cap Steps
  BY Names DEF Baseline, Told
<1>3. \A chan : GoesTo(r, "baseline", chan, AfterBaseline(r))
  BY DEF GoesTo
<1> QED BY <1>1, <1>2, <1>3, PlainOwn

LEMMA ReportOwn == ASSUME IInv, OwnRuns, LogCap >= 14, NEW r \in Runs, Report(r) PROVE OwnRuns'
<1>1. \/ Degrades(r, "report", AfterReport(r))
      \/ \E c \in Channels \ {"correlation", "fp_validation", "extract_iocs"}, x \in Sayings :
           Finish(r, "report", Put(r, c, x), <<"report">>, <<>>, AfterReport(r))
  BY OwnChannels DEF Report, Writes, Sayings
<1>2. answer' = answer /\ "report" \in Nodes \cap Steps
  BY Names DEF Report, Told
<1>3. \A chan : GoesTo(r, "report", chan, AfterReport(r))
  BY DEF GoesTo
<1> QED BY <1>1, <1>2, <1>3, PlainOwn

LEMMA VerdictOwn == ASSUME IInv, OwnRuns, LogCap >= 14, NEW r \in Runs, Verdict(r) PROVE OwnRuns'
<1>1. \/ Skips(r, "verdict", "done") \/ Degrades(r, "verdict", "done")
      \/ \E c \in Channels \ {"correlation", "fp_validation", "extract_iocs"}, x \in Sayings :
           Finish(r, "verdict", Put(r, c, x), <<"verdict">>, <<>>, "done")
  BY OwnChannels DEF Verdict, Recording, Writes, Sayings
<1>2. answer' = answer /\ "verdict" \in Nodes \cap Steps
  BY Names DEF Verdict
<1>3. \A chan : GoesTo(r, "verdict", chan, "done")
  BY DEF GoesTo
<1> QED BY <1>1, <1>2, <1>3, PlainOwn

LEMMA ExtractOwn == ASSUME IInv, OwnRuns, LogCap >= 14, NEW r \in Runs, Extract(r) PROVE OwnRuns'
<1>1. answer' = answer /\ "extract" \in Nodes \cap Steps /\ req[r].text \in Texts
  BY Names DEF Extract, Told, IInv, TypeOK, Requests
<1>2. \A chan : GoesTo(r, "extract", chan, "fp_check")
  BY DEF GoesTo
<1>3. CASE req[r].text = "none" /\ Skips(r, "extract", "fp_check")
  BY <1>1, <1>2, <1>3, PlainOwn
<1>4. CASE req[r].text # "none" /\ Finish(r, "extract", Put(r, "extract_iocs", req[r].text), <<"extract">>, <<>>, "fp_check")
  <2> DEFINE chan == Put(r, "extract_iocs", req[r].text)
  <2>1. pc[r] = "extract" /\ Active(r) /\ mem[r].chan \in [Channels -> Values]
    BY <1>4 DEF Finish, Active, Ended, IInv, TypeOK, States
  <2>2. OnItsWay(r)
    BY <2>1 DEF OwnRuns, OwnRun
  <2>3. /\ chan["extract_iocs"] = Says(r, req[r].text)
        /\ chan["correlation"] = mem[r].chan["correlation"] /\ chan["fp_validation"] = mem[r].chan["fp_validation"]
    BY <2>1 DEF Put, Channels
  <2>4. Says(r, req[r].text) # NoValue
    BY <1>4 DEF Says, NoValue
  <2>5. FindsAs(r, "extract", chan)
    BY <1>1, <1>4, <2>1, <2>2, <2>3, <2>4 DEF FindsAs, OnItsWay
  <2>6. /\ StepsOf("extract") = <<"extract">> /\ <<>> \in Seq(Steps) /\ Len(<<>>) <= Len(<<"extract">>)
    BY DEF StepsOf
  <2> QED BY <1>1, <1>2, <1>4, <2>5, <2>6, OwnStep
<1> QED BY <1>3, <1>4 DEF Extract

LEMMA FpCheckOwn == ASSUME IInv, OwnRuns, LogCap >= 14, NEW r \in Runs, FpCheck(r) PROVE OwnRuns'
<1>1. "fp_check" \in Nodes \cap Steps /\ answer \in [Runs -> Answers]
  BY Names DEF IInv, TypeOK, Answers
<1>2. CASE /\ answer' = answer
           /\ \/ Skips(r, "fp_check", AfterFpCheck(r, mem[r].chan))
              \/ Degrades(r, "fp_check", AfterFpCheck(r, mem[r].chan))
  <2>1. \A chan : chan = mem[r].chan => GoesTo(r, "fp_check", chan, AfterFpCheck(r, mem[r].chan))
    BY DEF GoesTo
  <2> QED BY <1>1, <1>2, <2>1, PlainOwn
<1>3. ASSUME NEW says \in {"suppressed", "open"},
             Finish(r, "fp_check", Put(r, "fp_validation", says), <<"fp_check">>, <<>>,
                    AfterFpCheck(r, Put(r, "fp_validation", says))),
             answer' = [answer EXCEPT ![r].fp = says]
      PROVE  OwnRuns'
  <2> DEFINE chan == Put(r, "fp_validation", says)
  <2>1. pc[r] = "fp_check" /\ Active(r) /\ mem[r].chan \in [Channels -> Values]
    BY <1>3 DEF Finish, Active, Ended, IInv, TypeOK, States
  <2>2. OnItsWay(r)
    BY <2>1 DEF OwnRuns, OwnRun
  <2>3. chan["fp_validation"] = Says(r, says) /\ chan["correlation"] = mem[r].chan["correlation"]
    BY <2>1 DEF Put, Channels
  <2>4. /\ answer'[r].fp = says /\ answer'[r].corr = answer[r].corr
        /\ \A q \in Runs \ {r} : answer'[q] = answer[q]
    BY <1>1, <1>3 DEF Answers
  <2>5. FindsAs(r, "fp_check", chan)
    BY <2>1, <2>2, <2>3, <2>4 DEF FindsAs, OnItsWay, Says
  <2>6. /\ StepsOf("fp_check") = <<"fp_check">> /\ <<>> \in Seq(Steps) /\ Len(<<>>) <= Len(<<"fp_check">>)
        /\ GoesTo(r, "fp_check", chan, AfterFpCheck(r, chan))
    BY DEF StepsOf, GoesTo
  <2> HIDE DEF chan
  <2>7. Finish(r, "fp_check", chan, <<"fp_check">>, <<>>, AfterFpCheck(r, chan))
    BY <1>3 DEF chan
  <2> QED BY <1>1, <2>4, <2>5, <2>6, <2>7, OwnStep
<1> QED BY <1>2, <1>3 DEF FpCheck

LEMMA CorrelateOwn == ASSUME IInv, OwnRuns, LogCap >= 14, NEW r \in Runs, Correlate(r) PROVE OwnRuns'
<1>1. "correlate" \in Nodes \cap Steps /\ answer \in [Runs -> Answers]
  BY Names DEF IInv, TypeOK, Answers
<1>2. \A chan : GoesTo(r, "correlate", chan, "cluster")
  BY DEF GoesTo
<1>3. CASE Degrades(r, "correlate", "cluster") /\ answer' = answer
  BY <1>1, <1>2, <1>3, PlainOwn
<1>4. ASSUME NEW says \in {"flagged", "quiet", "error"}, NEW errors \in Seq(Steps), Len(errors) <= 1,
             Finish(r, "correlate", Put(r, "correlation", says), <<"correlate">>, errors, "cluster"),
             IF says = "error" THEN answer' = answer ELSE answer' = [answer EXCEPT ![r].corr = says]
      PROVE  OwnRuns'
  <2> DEFINE chan == Put(r, "correlation", says)
  <2>1. pc[r] = "correlate" /\ Active(r) /\ mem[r].chan \in [Channels -> Values]
    BY <1>4 DEF Finish, Active, Ended, IInv, TypeOK, States
  <2>2. OnItsWay(r)
    BY <2>1 DEF OwnRuns, OwnRun
  <2>3. chan["correlation"] = Says(r, says) /\ chan["fp_validation"] = mem[r].chan["fp_validation"]
    BY <2>1 DEF Put, Channels
  <2>4. /\ answer'[r].fp = answer[r].fp /\ answer'[r].corr = IF says = "error" THEN answer[r].corr ELSE says
        /\ \A q \in Runs \ {r} : answer'[q] = answer[q]
    BY <1>1, <1>4 DEF Answers
  <2>5. FindsAs(r, "correlate", chan)
    BY <2>1, <2>2, <2>3, <2>4 DEF FindsAs, OnItsWay, Says
  <2>6. StepsOf("correlate") = <<"correlate">> /\ Len(<<"correlate">>) = 1
    BY DEF StepsOf
  <2> HIDE DEF chan
  <2>7. Finish(r, "correlate", chan, <<"correlate">>, errors, "cluster")
    BY <1>4 DEF chan
  <2> QED BY <1>1, <1>2, <1>4, <2>4, <2>5, <2>6, <2>7, OwnStep
<1>5. /\ <<>> \in Seq(Steps) /\ Len(<<>>) <= 1 /\ <<"correlate">> \in Seq(Steps) /\ Len(<<"correlate">>) <= 1
  BY <1>1
<1>6. CASE /\ Finish(r, "correlate", Put(r, "correlation", "error"), <<"correlate">>, <<"correlate">>, "cluster")
           /\ answer' = answer
  BY <1>4, <1>5, <1>6
<1>7. CASE \E says \in {"flagged", "quiet"} :
             /\ Finish(r, "correlate", Put(r, "correlation", says), <<"correlate">>, <<>>, "cluster")
             /\ answer' = [answer EXCEPT ![r].corr = says]
  BY <1>4, <1>5, <1>7
<1> QED BY <1>3, <1>6, <1>7 DEF Correlate

(* A run that is gone has no log and no way.                               *)
LEMMA GoneOwn ==
  ASSUME IInv, OwnRuns, NEW r \in Runs, NEW how \in {"crashed", "killed"}, Gone(r, how), Told
  PROVE  OwnRuns'
<1>1. /\ pc'[r] = how
      /\ \A q \in Runs \ {r} : /\ pc'[q] = pc[q] /\ mem'[q] = mem[q]
                               /\ path'[q] = path[q] /\ failed'[q] = failed[q]
      /\ durable' = durable /\ req' = req /\ answer' = answer
  BY DEF Gone, Told, IInv, TypeOK
<1>2. OwnRun(r)'
  BY <1>1 DEF OwnRun, Active, Pre, Ended
<1>3. ASSUME NEW q \in Runs \ {r} PROVE OwnRun(q)'
  <2>1. OwnRun(q)
    BY DEF OwnRuns
  <2> QED BY <1>1, <2>1, OthersKept
<1> QED BY <1>2, <1>3 DEF OwnRuns

LEMMA AnalyticsOwn == ASSUME IInv, OwnRuns, LogCap >= 14, NEW r \in Runs, Analytics(r) PROVE OwnRuns'
<1>1. Told /\ answer' = answer
  BY DEF Analytics, Told
<1>2. CASE Gone(r, "crashed")
  BY <1>1, <1>2, GoneOwn
<1>3. ASSUME NEW chan, NEW errors \in Seq(Steps), Len(errors) <= 2,
             Finish(r, "analytics", chan, <<"graph", "killchain">>, errors, AfterAnalytics(r)),
             chan = mem[r].chan \/ chan = Put(r, "killchain", "set")
      PROVE  OwnRuns'
  <2>1. /\ "analytics" \in Nodes /\ StepsOf("analytics") = <<"graph", "killchain">>
        /\ Len(StepsOf("analytics")) = 2 /\ GoesTo(r, "analytics", chan, AfterAnalytics(r))
    BY Names DEF StepsOf, GoesTo
  <2>2. \/ chan = mem[r].chan
        \/ \E c \in Channels \ {"correlation", "fp_validation", "extract_iocs"}, x \in Sayings : chan = Put(r, c, x)
    BY <1>3, OwnChannels DEF Sayings
  <2>3. Finish(r, "analytics", chan, StepsOf("analytics"), errors, AfterAnalytics(r))
        /\ Len(errors) <= Len(StepsOf("analytics"))
    BY <1>3, <2>1
  <2> QED BY <1>1, <2>1, <2>2, <2>3, QuietStep
<1>4. /\ <<"graph", "killchain">> \in Seq(Steps) /\ <<"graph">> \in Seq(Steps) /\ <<>> \in Seq(Steps)
      /\ Len(<<"graph", "killchain">>) <= 2 /\ Len(<<"graph">>) <= 2 /\ Len(<<>>) <= 2
  BY Names
<1> QED BY <1>2, <1>3, <1>4 DEF Analytics

LEMMA BeginOwn == ASSUME IInv, OwnRuns, NEW r \in Runs, Begin(r) PROVE OwnRuns'
<1>1. /\ pc[r] = "idle" /\ pc'[r] = "input" /\ \A q \in Runs \ {r} : pc'[q] = pc[q]
      /\ UNCHANGED <<durable, req, mem, path, failed, answer>>
  BY DEF Begin, IInv, TypeOK
<1>2. OwnRun(r)'
  BY <1>1 DEF OwnRuns, OwnRun, Active, Pre
<1>3. ASSUME NEW q \in Runs \ {r} PROVE OwnRun(q)'
  <2>1. OwnRun(q)
    BY DEF OwnRuns
  <2> QED BY <1>1, <2>1, OthersKept
<1> QED BY <1>2, <1>3 DEF OwnRuns

(* A log that a durable run begins ends with its marker.                   *)
LEMMA MarkEnds ==
  ASSUME NEW r \in Runs, NEW log \in Seq(Tags), NEW n \in Seq(Tags), Len(n) = 1, n[1] = Marks(r), durable
  PROVE  EndsWith(CappedAdd(log, n), r, <<>>)
<1> DEFINE c == CappedAdd(log, n)
<1> DEFINE total == Len(log) + Len(n)
<1>1. /\ Len(log) \in Nat /\ LogCap \in Nat /\ LogCap > 0
      /\ total \in 1 .. total /\ total - 0 = total /\ total - Len(log) = 1 /\ ~(total <= Len(log))
  BY LenProperties, GraphAssumption
<1>2. /\ Len(c) = IF total > LogCap THEN LogCap ELSE total
      /\ \A k \in 0 .. Len(c) - 1 : c[Len(c) - k] = (log \o n)[total - k]
  BY CappedEnd, Zenon
<1>3. \A i \in 1 .. total : (log \o n)[i] = IF i <= Len(log) THEN log[i] ELSE n[i - Len(log)]
  BY ConcatProperties, Zenon
<1> HIDE DEF c, total
<1>4. Len(c) > 0 /\ Len(c) \in Nat /\ 0 \in 0 .. Len(c) - 1 /\ Len(c) - 0 = Len(c)
  BY <1>1, <1>2
<1>5. c[Len(c)] = (log \o n)[total]
  BY <1>1, <1>2, <1>4
<1>6. (log \o n)[total] = n[1]
  BY <1>1, <1>3
<1>7. Len(<<>>) = 0 /\ 1 .. 0 = {}
  OBVIOUS
<1> QED BY <1>4, <1>5, <1>6, <1>7 DEF EndsWith, c

LEMMA MarkedLog ==
  ASSUME NEW r \in Runs, NEW log \in Seq(Tags), durable
  PROVE  EndsWith(CappedAdd(log, <<Marks(r)>>), r, <<>>)
<1>1. <<Marks(r)>> \in Seq(Tags) /\ Len(<<Marks(r)>>) = 1 /\ <<Marks(r)>>[1] = Marks(r)
  BY MarkLemma
<1> QED BY <1>1, MarkEnds

LEMMA InputOwn == ASSUME IInv, OwnRuns, NEW r \in Runs, Input(r) PROVE OwnRuns'
<1> DEFINE s == IF OnThread(r) THEN thread[SubjectOf(req[r])] ELSE Fresh
<1>1. /\ pc[r] = "input" /\ pc'[r] = "recall" /\ mem'[r] = Reset(s, r)
      /\ \A q \in Runs \ {r} : pc'[q] = pc[q] /\ mem'[q] = mem[q]
      /\ durable' = durable /\ req' = req /\ path' = path /\ failed' = failed /\ answer' = answer
  BY DEF Input, IInv, TypeOK
<1>2. s \in States
  BY SubjectLemma, BlankLemma DEF IInv, TypeOK
<1>3. s.log \in Seq(Tags) /\ s.errs \in Seq(Tags) /\ (~durable => s.log = <<>> /\ s.errs = <<>>)
  BY <1>2 DEF States, Logs, Tags, OnThread, Fresh
<1> HIDE DEF s
<1>4. path[r] = <<>> /\ failed[r] = <<>> /\ answer[r] = [fp |-> "none", corr |-> "none"]
  BY <1>1 DEF OwnRuns, OwnRun, Pre
<1>5. /\ mem'[r].chan = Blank
      /\ mem'[r].log = IF durable THEN CappedAdd(s.log, <<Marks(r)>>) ELSE s.log
      /\ mem'[r].errs = IF durable THEN CappedAdd(s.errs, <<Marks(r)>>) ELSE s.errs
  BY <1>1 DEF Reset
<1>6. EndsWith(mem[r].log, r, path[r])' /\ EndsWith(mem[r].errs, r, failed[r])'
  <2>1. CASE durable
    <3>1. /\ EndsWith(CappedAdd(s.log, <<Marks(r)>>), r, <<>>) /\ EndsWith(CappedAdd(s.errs, <<Marks(r)>>), r, <<>>)
      BY <1>3, <2>1, MarkedLog
    <3> QED BY <1>1, <1>4, <1>5, <2>1, <3>1 DEF EndsWith
  <2>2. CASE ~durable
    <3>1. Len(<<>>) = 0 /\ 1 .. 0 = {}
      OBVIOUS
    <3> QED BY <1>1, <1>3, <1>4, <1>5, <2>2, <3>1 DEF EndsWith
  <2> QED BY <2>1, <2>2
<1>7. LogsKept(r)'
  <2>1. Len(<<>>) = 0
    OBVIOUS
  <2> QED BY <1>1, <1>4, <1>6, <2>1 DEF LogsKept, MostSteps
<1>8. OnItsWay(r)'
  <2>1. Blank["correlation"] = NoValue /\ Blank["fp_validation"] = NoValue /\ Blank["extract_iocs"] = NoValue
    BY DEF Blank, Channels
  <2>2. \A x : ~Took(r, x)'
    <3>1. Len(<<>>) = 0 /\ 1 .. 0 = {}
      OBVIOUS
    <3> QED BY <1>1, <1>4, <3>1 DEF Took
  <2> QED BY <1>1, <1>4, <1>5, <2>1, <2>2 DEF OnItsWay, NoValue
<1>9. OwnRun(r)'
  BY <1>1, <1>7, <1>8 DEF OwnRun, Pre
<1>10. ASSUME NEW q \in Runs \ {r} PROVE OwnRun(q)'
  <2>1. OwnRun(q)
    BY DEF OwnRuns
  <2> QED BY <1>1, <2>1, OthersKept
<1> QED BY <1>9, <1>10 DEF OwnRuns

LEMMA OwnInductive == ASSUME LogCap >= 14, IInv, OwnRuns, [Next]_vars PROVE OwnRuns'
<1>1. ASSUME NEW r \in Runs, Begin(r) PROVE OwnRuns'
  BY <1>1, BeginOwn
<1>2. ASSUME NEW r \in Runs, Kill(r) PROVE OwnRuns'
  BY <1>2, GoneOwn DEF Kill
<1>3. ASSUME NEW r \in Runs, Advance(r) PROVE OwnRuns'
  BY <1>3, InputOwn, RecallOwn, ExtractOwn, FpCheckOwn, EnrichOwn, VulnOwn, CorrelateOwn, ClusterOwn,
     LabelOwn, AnalyticsOwn, BaselineOwn, ReportOwn, VerdictOwn DEF Advance
<1>4. CASE UNCHANGED vars
  <2>1. UNCHANGED <<durable, req>> /\ \A q \in Runs :
           /\ pc'[q] = pc[q] /\ mem'[q] = mem[q] /\ path'[q] = path[q] /\ failed'[q] = failed[q] /\ answer'[q] = answer[q]
    BY <1>4 DEF vars
  <2>2. \A q \in Runs : OwnRun(q)
    BY DEF OwnRuns
  <2> QED BY <2>1, <2>2, OthersKept DEF OwnRuns
<1> QED BY <1>1, <1>2, <1>3, <1>4 DEF Next

LEMMA OwnStart == Init => OwnRuns
<1> SUFFICES ASSUME Init, NEW r \in Runs PROVE OwnRun(r)
  BY DEF OwnRuns
<1>1. pc[r] = "idle" /\ path[r] = <<>> /\ failed[r] = <<>> /\ answer[r] = [fp |-> "none", corr |-> "none"]
  BY DEF Init
<1> QED BY <1>1 DEF OwnRun, Active, Ended

LEMMA OwnSummary == IInv /\ OwnRuns => SummaryIsOwn
<1> SUFFICES ASSUME IInv, OwnRuns PROVE SummaryIsOwn
  OBVIOUS
<1>1. ChannelsOwn
  BY DEF IInv, Own, ChannelsOwn
<1>2. LogsOwn
  <2> SUFFICES ASSUME NEW r \in Runs, pc[r] = "done"
               PROVE  ThisRun(mem[r].log) = Entries(r, path[r]) /\ ThisRun(mem[r].errs) = Entries(r, failed[r])
    BY DEF LogsOwn
  <2>1. /\ mem[r].log \in Seq(Tags) /\ mem[r].errs \in Seq(Tags)
        /\ path[r] \in Seq(Steps) /\ failed[r] \in Seq(Steps)
    BY DEF IInv, TypeOK, States, Logs, Tags
  <2>2. EndsWith(mem[r].log, r, path[r]) /\ EndsWith(mem[r].errs, r, failed[r])
    BY DEF OwnRuns, OwnRun, LogsKept
  <2> QED BY <2>1, <2>2, ThisRunIs
<1>3. RoutesByOwnFindings
  BY DEF RoutesByOwnFindings, OwnRuns, OwnRun, OnItsWay, ToEnrich
<1> QED BY <1>1, <1>2, <1>3 DEF SummaryIsOwn

(* The summary of a finished run speaks of that run only: its channels,    *)
(* its steps and its errors are the ones it wrote, and it was routed by    *)
(* what its own validator and correlation found, whatever other runs of    *)
(* the subject overlap, crash or are killed.  The cap has room for the     *)
(* thirteen steps and the marker of a run; _STEP_LOG_CAP is 200.           *)
THEOREM SummaryOwned == ASSUME LogCap >= 14 PROVE Spec => []SummaryIsOwn
<1>1. Init => IInv /\ OwnRuns
  BY Initially, OwnStart
<1>2. IInv /\ OwnRuns /\ [Next]_vars => (IInv /\ OwnRuns)'
  BY Inductive, OwnInductive
<1>3. IInv /\ OwnRuns => SummaryIsOwn
  BY OwnSummary
<1> QED BY <1>1, <1>2, <1>3, PTL DEF Spec
=============================================================================
