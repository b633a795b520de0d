--------------------------- MODULE ServiceProofs ---------------------------
(***************************************************************************)
(* Theorems about five services, each for every value of its constants:    *)
(* the reports to AbuseIPDB, the corpus and its query cache, the promotion *)
(* of indicators, the age of the Wazuh token, and the store of observed    *)
(* sources with the ledger it implements.                                  *)
(***************************************************************************)
EXTENDS AbuseReport, RagStore, IocStore, WazuhAuth, SourceStore, DataLemmas

-----------------------------------------------------------------------------
(* AbuseReport.  A call in one of the phases of an address has it in hand, *)
(* with the status that the phase begins with; what became eligible was    *)
(* judged so; and until it has an answer nothing is reported for a row     *)
(* that is still eligible.                                                 *)
Sent == {p \in Reporters \X Reportable : \E t \in 0..MaxClock : <<p[1], p[2], t>> \in reports}

HandOK(c) ==
  /\ pending[c] \in {"checking", "read"} =>
       hand[c] \in Reportable /\ table[c][hand[c]] = "harvested"
  /\ pending[c] \in {"posting", "answered"} =>
       hand[c] \in Reportable /\ table[c][hand[c]] = "eligible"
  /\ pending[c] = "answered" => <<c, hand[c]>> \in Sent
  /\ pending[c] \in {"submit", "posting", "answered"} => granted[c]
Warranted(c, a) == role[c][a] = "source" /\ (a \in Whitelisted => <<c, a>> \in unchecked)
RowOK(c, a) ==
  /\ pending[c] = "idle" => table[c][a] = "out"
  /\ table[c][a] = "eligible" => Warranted(c, a)
  /\ table[c][a] = "reported" => <<c, a>> \in Sent
  /\ <<c, a>> \in Sent =>
       /\ granted[c] /\ Warranted(c, a)
       /\ \/ table[c][a] \in {"reported", "failed"}
          \/ table[c][a] = "eligible" /\ pending[c] = "ended"
          \/ table[c][a] = "eligible" /\ pending[c] = "answered" /\ hand[c] = a
CallOK(c) == HandOK(c) /\ \A a \in Reportable : RowOK(c, a)
ReportInv == ReportTypeOK /\ \A c \in Reporters : CallOK(c)

LEMMA SentIs ==
  \A c \in Reporters, a \in Reportable :
    <<c, a>> \in Sent <=> \E t \in 0..MaxClock : <<c, a, t>> \in reports
BY DEF Sent

LEMMA AccountedSuffices == ReportInv => ReportsAccountedFor
<1> SUFFICES ASSUME ReportInv PROVE ReportsAccountedFor
  OBVIOUS
<1>0. reports \subseteq Reporters \X Reportable \X (0..MaxClock)
  BY DEF ReportInv, ReportTypeOK
<1>1. \A r \in reports : \E c \in Reporters, a \in Reportable, t \in 0..MaxClock : r = <<c, a, t>>
  BY <1>0
<1>2. \A c \in Reporters, a \in Reportable, t \in 0..MaxClock :
        <<c, a, t>>[1] = c /\ <<c, a, t>>[2] = a
  OBVIOUS
<1>3. ASSUME NEW c \in Reporters, NEW a \in Reportable, table[c][a] = "reported"
      PROVE  \E r \in reports : r[1] = c /\ r[2] = a
  <2>1. PICK t \in 0..MaxClock : <<c, a, t>> \in reports
    BY <1>3, SentIs DEF ReportInv, CallOK, RowOK
  <2> QED BY <2>1, <1>2
<1>4. ASSUME NEW r \in reports
      PROVE  LET c == r[1]
                 a == r[2]
             IN  /\ granted[c] /\ role[c][a] = "source"
                 /\ a \in Whitelisted => <<c, a>> \in unchecked
                 /\ \/ table[c][a] \in {"reported", "failed"}
                    \/ table[c][a] = "eligible" /\ pending[c] \in {"answered", "ended"}
  <2>1. PICK c \in Reporters, a \in Reportable, t \in 0..MaxClock : r = <<c, a, t>>
    BY <1>1
  <2>2. r[1] = c /\ r[2] = a /\ <<c, a>> \in Sent
    BY <2>1, SentIs
  <2> QED BY <2>2 DEF ReportInv, CallOK, RowOK, Warranted
<1> QED BY <1>3, <1>4 DEF ReportsAccountedFor

LEMMA ReportStart == ReportInit => ReportInv
BY ReportAssumption
   DEF ReportInit, ReportInv, ReportTypeOK, CallOK, HandOK, RowOK, Warranted, Sent,
       ReportPhases, Statuses, Roles, Never, NoAddr

LEMMA TurnTyped ==
  ASSUME ReportTypeOK, NEW c \in Reporters, NEW from \in ReportPhases, NEW to \in ReportPhases,
         Turn(c, from, to)
  PROVE  pending' \in [Reporters -> ReportPhases] /\ pending'[c] = to
           /\ \A d \in Reporters \ {c} : pending'[d] = pending[d]
BY DEF Turn, ReportTypeOK

LEMMA HoldTyped ==
  ASSUME ReportTypeOK, NEW c \in Reporters, NEW a \in Reportable \cup {NoAddr}, Hold(c, a)
  PROVE  hand' \in [Reporters -> Reportable \cup {NoAddr}] /\ hand'[c] = a
           /\ \A d \in Reporters \ {c} : hand'[d] = hand[d]
BY DEF Hold, ReportTypeOK

LEMMA SettleTyped ==
  ASSUME ReportTypeOK, NEW c \in Reporters, NEW status \in Statuses, hand[c] \in Reportable,
         Settle(c, status)
  PROVE  table' \in [Reporters -> [Reportable -> Statuses]]
           /\ \A d \in Reporters, a \in Reportable :
                table'[d][a] = IF d = c /\ a = hand[c] THEN status ELSE table[d][a]
BY DEF Settle, ReportTypeOK

LEMMA Names ==
  /\ {"idle", "evaluate", "checking", "read", "submit", "posting", "answered", "ended"} \subseteq ReportPhases
  /\ {"out", "harvested", "eligible", "manual_review", "skipped", "duplicate_local",
      "would_report", "reported", "failed", "stopped"} \subseteq Statuses
BY DEF ReportPhases, Statuses

LEMMA DropTyped ==
  ASSUME ReportTypeOK, NEW c \in Reporters, Drop(c)
  PROVE  hand' \in [Reporters -> Reportable \cup {NoAddr}]
           /\ \A d \in Reporters \ {c} : hand'[d] = hand[d]
BY HoldTyped DEF Drop

(* What a step of one call leaves alone.                                   *)
Aside(c) ==
  /\ \A d \in Reporters \ {c} : /\ pending'[d] = pending[d] /\ hand'[d] = hand[d]
                                /\ table'[d] = table[d] /\ role'[d] = role[d]
  /\ granted' = granted /\ unchecked \subseteq unchecked'
  /\ \A d \in Reporters \ {c}, a \in Reportable : <<d, a>> \in Sent' <=> <<d, a>> \in Sent

LEMMA OthersKept ==
  ASSUME ReportInv, ReportTypeOK', NEW c \in Reporters, Aside(c), CallOK(c)'
  PROVE  ReportInv'
<1> SUFFICES ASSUME NEW d \in Reporters, d # c PROVE CallOK(d)'
  BY DEF ReportInv
<1>1. /\ pending'[d] = pending[d] /\ hand'[d] = hand[d]
      /\ table'[d] = table[d] /\ role'[d] = role[d]
      /\ granted' = granted /\ unchecked \subseteq unchecked'
      /\ \A a \in Reportable : <<d, a>> \in Sent' <=> <<d, a>> \in Sent
  BY DEF Aside
<1>2. CallOK(d)
  BY DEF ReportInv
<1>3. HandOK(d)'
  BY <1>1, <1>2 DEF CallOK, HandOK
<1>4. ASSUME NEW a \in Reportable PROVE RowOK(d, a)'
  BY <1>1, <1>2 DEF CallOK, RowOK, Warranted
<1> QED BY <1>3, <1>4 DEF CallOK

LEMMA HarvestStep ==
  ASSUME ReportInv, NEW c \in Reporters, Harvest(c)
  PROVE  ReportInv'
<1>0. ReportTypeOK /\ CallOK(c)
  BY DEF ReportInv
<1>1. /\ pending' \in [Reporters -> ReportPhases] /\ pending'[c] = "evaluate"
      /\ \A d \in Reporters \ {c} : pending'[d] = pending[d]
      /\ pending[c] = "idle"
  BY <1>0, TurnTyped, Names DEF Harvest, Turn
<1>2. PICK found \in [Reportable -> {"out", "harvested"}] : table' = [table EXCEPT ![c] = found]
  BY DEF Harvest
<1>3. found \in [Reportable -> Statuses]
  BY Names
<1>4. /\ table' \in [Reporters -> [Reportable -> Statuses]] /\ table'[c] = found
      /\ \A d \in Reporters \ {c} : table'[d] = table[d]
  BY <1>0, <1>2, <1>3 DEF ReportTypeOK
<1>5. /\ role' \in [Reporters -> [Reportable -> Roles]]
      /\ \A d \in Reporters \ {c} : role'[d] = role[d]
  BY <1>0 DEF Harvest, ReportTypeOK
<1>6. UNCHANGED <<clock, ledger, cached, reports, hand, unchecked, granted>> /\ Sent' = Sent
  BY DEF Harvest, Sent
<1>7. \A a \in Reportable : <<c, a>> \notin Sent /\ table'[c][a] \notin {"eligible", "reported"}
  BY <1>0, <1>1, <1>4 DEF CallOK, RowOK
<1>8. ReportTypeOK'
  BY <1>0, <1>1, <1>4, <1>5, <1>6 DEF ReportTypeOK
<1>9. CallOK(c)'
  BY <1>1, <1>6, <1>7 DEF CallOK, HandOK, RowOK
<1>10. Aside(c)
  BY <1>1, <1>4, <1>5, <1>6 DEF Aside
<1> QED BY <1>8, <1>9, <1>10, OthersKept

LEMMA HarvestFailsStep ==
  ASSUME ReportInv, NEW c \in Reporters, HarvestFails(c)
  PROVE  ReportInv'
<1>0. ReportTypeOK /\ CallOK(c)
  BY DEF ReportInv
<1>1. /\ pending' \in [Reporters -> ReportPhases] /\ pending'[c] = "ended"
      /\ \A d \in Reporters \ {c} : pending'[d] = pending[d]
      /\ pending[c] = "idle"
  BY <1>0, TurnTyped, Names DEF HarvestFails, Turn
<1>2. /\ UNCHANGED <<clock, ledger, cached, reports, hand, table, role, unchecked, granted>>
      /\ Sent' = Sent
  BY DEF HarvestFails, Sent
<1>3. ReportTypeOK'
  BY <1>0, <1>1, <1>2 DEF ReportTypeOK
<1>4. CallOK(c)'
  BY <1>0, <1>1, <1>2 DEF CallOK, HandOK, RowOK, Warranted
<1>5. Aside(c)
  BY <1>1, <1>2 DEF Aside
<1> QED BY <1>3, <1>4, <1>5, OthersKept

LEMMA LookUpStep ==
  ASSUME ReportInv, NEW c \in Reporters, LookUp(c)
  PROVE  ReportInv'
<1>0. ReportTypeOK /\ CallOK(c)
  BY DEF ReportInv
<1>1. PICK a \in First(c, "harvested") :
        Turn(c, "evaluate", IF a \in cached THEN "read" ELSE "checking") /\ Hold(c, a)
  BY DEF LookUp
<1>2. a \in Reportable /\ table[c][a] = "harvested"
  BY DEF First, In
<1>3. /\ pending' \in [Reporters -> ReportPhases] /\ pending'[c] \in {"read", "checking"}
      /\ \A d \in Reporters \ {c} : pending'[d] = pending[d]
      /\ pending[c] = "evaluate"
  BY <1>0, <1>1, TurnTyped, Names DEF Turn
<1>4. /\ hand' \in [Reporters -> Reportable \cup {NoAddr}] /\ hand'[c] = a
      /\ \A d \in Reporters \ {c} : hand'[d] = hand[d]
  BY <1>0, <1>1, <1>2, HoldTyped
<1>5. UNCHANGED <<clock, ledger, cached, reports, table, role, unchecked, granted>> /\ Sent' = Sent
  BY DEF LookUp, Sent
<1>6. ReportTypeOK'
  BY <1>0, <1>3, <1>4, <1>5 DEF ReportTypeOK
<1>7. CallOK(c)'
  BY <1>0, <1>2, <1>3, <1>4, <1>5 DEF CallOK, HandOK, RowOK, Warranted
<1>8. Aside(c)
  BY <1>3, <1>4, <1>5 DEF Aside
<1> QED BY <1>6, <1>7, <1>8, OthersKept

LEMMA JudgeEffect ==
  ASSUME ReportTypeOK, NEW c \in Reporters, NEW checked \in BOOLEAN, hand[c] \in Reportable,
         Judge(c, checked)
  PROVE  /\ table' \in [Reporters -> [Reportable -> Statuses]]
         /\ \A d \in Reporters \ {c} : table'[d] = table[d]
         /\ \A a \in Reportable \ {hand[c]} : table'[c][a] = table[c][a]
         /\ table'[c][hand[c]] \in {"manual_review", "skipped", "duplicate_local", "eligible"}
         /\ table'[c][hand[c]] = "eligible" =>
              /\ role[c][hand[c]] = "source"
              /\ hand[c] \in Whitelisted => <<c, hand[c]>> \in unchecked'
         /\ unchecked \subseteq unchecked' /\ unchecked' \subseteq Reporters \X Reportable
         /\ hand' \in [Reporters -> Reportable \cup {NoAddr}]
         /\ \A d \in Reporters \ {c} : hand'[d] = hand[d]
<1>1. PICK status \in {StatusOf(c, hand[c], checked), "manual_review"} : Settle(c, status)
  BY DEF Judge
<1>2. status \in {"manual_review", "skipped", "duplicate_local", "eligible"}
  BY <1>1 DEF StatusOf
<1>3. /\ table' \in [Reporters -> [Reportable -> Statuses]]
      /\ \A d \in Reporters, a \in Reportable :
           table'[d][a] = IF d = c /\ a = hand[c] THEN status ELSE table[d][a]
  BY <1>1, <1>2, SettleTyped, Names
<1>4. \A d \in Reporters \ {c} : table'[d] = table[d]
  BY <1>1 DEF Settle, ReportTypeOK
<1>5. status = "eligible" => role[c][hand[c]] # "both" /\ ~(checked /\ hand[c] \in Whitelisted)
  BY <1>1 DEF StatusOf
<1>6. role[c][hand[c]] \in {"source", "both"}
  BY DEF ReportTypeOK, Roles
<1>7. unchecked' = IF checked THEN unchecked ELSE unchecked \cup {<<c, hand[c]>>}
  BY DEF Judge
<1>8. unchecked \subseteq Reporters \X Reportable
  BY DEF ReportTypeOK
<1>9. /\ hand' \in [Reporters -> Reportable \cup {NoAddr}]
      /\ \A d \in Reporters \ {c} : hand'[d] = hand[d]
  BY DropTyped DEF Judge
<1>10. unchecked \subseteq unchecked' /\ unchecked' \subseteq Reporters \X Reportable
  BY <1>7, <1>8
<1> QED BY <1>2, <1>3, <1>4, <1>5, <1>6, <1>7, <1>9, <1>10

(* The row in hand is judged: what the two answers of a look-up have in    *)
(* common.                                                                 *)
LEMMA JudgeStep ==
  ASSUME ReportInv, NEW c \in Reporters, NEW checked \in BOOLEAN, Judge(c, checked),
         pending[c] \in {"checking", "read"}, Turn(c, pending[c], "evaluate"),
         UNCHANGED <<clock, ledger, reports, role, granted>>, cached' \subseteq Reportable
  PROVE  ReportInv'
<1>0. ReportTypeOK /\ CallOK(c) /\ hand[c] \in Reportable /\ table[c][hand[c]] = "harvested"
  BY DEF ReportInv, CallOK, HandOK
<1>1. /\ pending' \in [Reporters -> ReportPhases] /\ pending'[c] = "evaluate"
      /\ \A d \in Reporters \ {c} : pending'[d] = pending[d]
  BY <1>0, TurnTyped, Names
<1>2. /\ table' \in [Reporters -> [Reportable -> Statuses]]
      /\ \A d \in Reporters \ {c} : table'[d] = table[d]
      /\ \A a \in Reportable \ {hand[c]} : table'[c][a] = table[c][a]
      /\ table'[c][hand[c]] \in {"manual_review", "skipped", "duplicate_local", "eligible"}
      /\ table'[c][hand[c]] = "eligible" =>
           /\ role[c][hand[c]] = "source"
           /\ hand[c] \in Whitelisted => <<c, hand[c]>> \in unchecked'
      /\ unchecked \subseteq unchecked' /\ unchecked' \subseteq Reporters \X Reportable
      /\ hand' \in [Reporters -> Reportable \cup {NoAddr}]
      /\ \A d \in Reporters \ {c} : hand'[d] = hand[d]
  BY <1>0, JudgeEffect
<1>3. Sent' = Sent
  BY DEF Sent
<1>4. ReportTypeOK'
  BY <1>0, <1>1, <1>2 DEF ReportTypeOK
<1>5. <<c, hand[c]>> \notin Sent
  BY <1>0 DEF CallOK, RowOK
<1>6. ASSUME NEW a \in Reportable, a = hand[c] PROVE RowOK(c, a)'
  BY <1>0, <1>1, <1>2, <1>3, <1>5, <1>6 DEF RowOK, Warranted
<1>7. ASSUME NEW a \in Reportable, a # hand[c] PROVE RowOK(c, a)'
  BY <1>0, <1>1, <1>2, <1>3, <1>7 DEF CallOK, RowOK, Warranted
<1>8. CallOK(c)'
  BY <1>1, <1>6, <1>7 DEF CallOK, HandOK
<1>9. Aside(c)
  BY <1>1, <1>2, <1>3 DEF Aside
<1> QED BY <1>4, <1>8, <1>9, OthersKept

LEMMA CheckStep ==
  ASSUME ReportInv, NEW c \in Reporters, CheckReturns(c) \/ CheckFails(c)
  PROVE  ReportInv'
<1>0. ReportTypeOK /\ CallOK(c)
  BY DEF ReportInv
<1>1. CASE CheckReturns(c)
  <2>1. pending[c] \in {"checking", "read"} /\ Turn(c, pending[c], "evaluate") /\ Judge(c, TRUE)
    BY <1>1 DEF CheckReturns, Turn
  <2>2. UNCHANGED <<clock, ledger, reports, role, granted>>
    BY <1>1 DEF CheckReturns
  <2>3. cached' \subseteq Reportable
    BY <1>0, <1>1, <2>1 DEF CheckReturns, CallOK, HandOK, ReportTypeOK
  <2> QED BY <2>1, <2>2, <2>3, JudgeStep
<1>2. CASE /\ Turn(c, "checking", "evaluate") /\ Judge(c, FALSE)
           /\ UNCHANGED <<clock, ledger, cached, reports, role, granted>>
  <2>1. pending[c] \in {"checking", "read"} /\ Turn(c, pending[c], "evaluate")
    BY <1>2 DEF Turn
  <2>2. cached' \subseteq Reportable
    BY <1>0, <1>2 DEF ReportTypeOK
  <2> QED BY <1>2, <2>1, <2>2, JudgeStep
<1>3. CASE /\ Turn(c, "checking", "ended") /\ Drop(c)
           /\ UNCHANGED <<table, unchecked, clock, ledger, cached, reports, role, granted>>
  <2>1. /\ pending' \in [Reporters -> ReportPhases] /\ pending'[c] = "ended"
        /\ \A d \in Reporters \ {c} : pending'[d] = pending[d]
        /\ pending[c] = "checking"
    BY <1>0, <1>3, TurnTyped, Names DEF Turn
  <2>2. /\ hand' \in [Reporters -> Reportable \cup {NoAddr}]
        /\ \A d \in Reporters \ {c} : hand'[d] = hand[d]
    BY <1>0, <1>3, DropTyped
  <2>3. Sent' = Sent
    BY <1>3 DEF Sent
  <2>4. ReportTypeOK'
    BY <1>0, <1>3, <2>1, <2>2 DEF ReportTypeOK
  <2>5. CallOK(c)'
    BY <1>0, <1>3, <2>1, <2>3 DEF CallOK, HandOK, RowOK, Warranted
  <2>6. Aside(c)
    BY <1>3, <2>1, <2>2, <2>3 DEF Aside
  <2> QED BY <2>4, <2>5, <2>6, OthersKept
<1> QED BY <1>1, <1>2, <1>3 DEF CheckFails

LEMMA PreviewStep ==
  ASSUME ReportInv, NEW c \in Reporters, Preview(c)
  PROVE  ReportInv'
<1>0. ReportTypeOK /\ CallOK(c)
  BY DEF ReportInv
<1>1. /\ pending' \in [Reporters -> ReportPhases] /\ pending'[c] = "ended"
      /\ \A d \in Reporters \ {c} : pending'[d] = pending[d]
  BY <1>0, TurnTyped, Names DEF Preview
<1>2. /\ UNCHANGED <<clock, ledger, cached, reports, hand, role, unchecked, granted>>
      /\ Sent' = Sent /\ ~granted[c]
  BY DEF Preview, Sent
<1> DEFINE row == [a \in Reportable |-> IF table[c][a] = "eligible" THEN "would_report" ELSE table[c][a]]
<1>3. table' = [table EXCEPT ![c] = row] /\ row \in [Reportable -> Statuses]
  BY <1>0, Names DEF Preview, ReportTypeOK
<1> HIDE DEF row
<1>4. /\ table' \in [Reporters -> [Reportable -> Statuses]] /\ table'[c] = row
      /\ \A d \in Reporters \ {c} : table'[d] = table[d]
  BY <1>0, <1>3 DEF ReportTypeOK
<1>5. \A a \in Reportable : /\ table'[c][a] # "eligible"
                            /\ table'[c][a] = "reported" => table[c][a] = "reported"
  BY <1>4 DEF row
<1>6. ReportTypeOK'
  BY <1>0, <1>1, <1>2, <1>4 DEF ReportTypeOK
<1>7. \A a \in Reportable : <<c, a>> \notin Sent
  BY <1>0, <1>2 DEF CallOK, RowOK
<1>8. CallOK(c)'
  BY <1>0, <1>1, <1>2, <1>5, <1>7 DEF CallOK, HandOK, RowOK
<1>9. Aside(c)
  BY <1>1, <1>2, <1>4 DEF Aside
<1> QED BY <1>6, <1>8, <1>9, OthersKept

LEMMA PhaseStep ==
  ASSUME ReportInv, NEW c \in Reporters, GoOn(c) \/ Summarise(c)
  PROVE  ReportInv'
<1>0. ReportTypeOK /\ CallOK(c)
  BY DEF ReportInv
<1>1. /\ pending' \in [Reporters -> ReportPhases] /\ pending'[c] \in {"submit", "ended"}
      /\ \A d \in Reporters \ {c} : pending'[d] = pending[d]
      /\ pending'[c] = "submit" => granted[c]
      /\ pending[c] \notin {"idle", "answered", "ended"}
  BY <1>0, TurnTyped, Names DEF GoOn, Summarise, Turn
<1>2. /\ UNCHANGED <<clock, ledger, cached, reports, hand, table, role, unchecked, granted>>
      /\ Sent' = Sent
  BY DEF GoOn, Summarise, Sent
<1>3. ReportTypeOK'
  BY <1>0, <1>1, <1>2 DEF ReportTypeOK
<1>4. CallOK(c)'
  BY <1>0, <1>1, <1>2 DEF CallOK, HandOK, RowOK, Warranted
<1>5. Aside(c)
  BY <1>1, <1>2 DEF Aside
<1> QED BY <1>3, <1>4, <1>5, OthersKept

LEMMA SubmitStep ==
  ASSUME ReportInv, NEW c \in Reporters, Submit(c)
  PROVE  ReportInv'
<1>0. ReportTypeOK /\ CallOK(c)
  BY DEF ReportInv
<1>1. PICK a \in First(c, "eligible") :
        /\ IF ReportedLately(a)
           THEN /\ Turn(c, "submit", "submit") /\ UNCHANGED hand
                /\ table' = [table EXCEPT ![c][a] = "duplicate_local"]
           ELSE Turn(c, "submit", "posting") /\ Hold(c, a) /\ UNCHANGED table
        /\ UNCHANGED <<clock, ledger, cached, reports, role, unchecked, granted>>
  BY DEF Submit
<1>2. a \in Reportable /\ table[c][a] = "eligible"
  BY DEF First, In
<1>3. /\ pending' \in [Reporters -> ReportPhases] /\ pending'[c] \in {"submit", "posting"}
      /\ \A d \in Reporters \ {c} : pending'[d] = pending[d]
      /\ pending[c] = "submit" /\ granted[c]
  BY <1>0, <1>1, TurnTyped, Names DEF Turn, CallOK, HandOK
<1>4. UNCHANGED <<clock, ledger, cached, reports, role, unchecked, granted>> /\ Sent' = Sent
  BY <1>1 DEF Sent
<1>5. <<c, a>> \notin Sent
  BY <1>0, <1>2, <1>3 DEF CallOK, RowOK
<1>6. CASE ReportedLately(a)
  <2>1. hand' = hand /\ pending'[c] = "submit" /\ table' = [table EXCEPT ![c][a] = "duplicate_local"]
    BY <1>0, <1>1, <1>6, TurnTyped, Names
  <2>2. /\ table' \in [Reporters -> [Reportable -> Statuses]]
        /\ \A d \in Reporters \ {c} : table'[d] = table[d]
        /\ table'[c][a] = "duplicate_local"
        /\ \A b \in Reportable \ {a} : table'[c][b] = table[c][b]
    BY <1>0, <1>2, <2>1, Names DEF ReportTypeOK
  <2>3. ReportTypeOK'
    BY <1>0, <1>3, <1>4, <2>1, <2>2 DEF ReportTypeOK
  <2>4. ASSUME NEW b \in Reportable PROVE RowOK(c, b)'
    <3>1. CASE b = a
      BY <3>1, <1>3, <1>4, <1>5, <2>2 DEF RowOK
    <3>2. CASE b # a
      BY <3>2, <1>0, <1>3, <1>4, <2>1, <2>2 DEF CallOK, RowOK, Warranted
    <3> QED BY <3>1, <3>2
  <2>5. CallOK(c)'
    BY <1>3, <1>4, <2>1, <2>4 DEF CallOK, HandOK
  <2>6. Aside(c)
    BY <1>3, <1>4, <2>1, <2>2 DEF Aside
  <2> QED BY <2>3, <2>5, <2>6, OthersKept
<1>7. CASE ~ReportedLately(a)
  <2>1. table' = table /\ Hold(c, a) /\ pending'[c] = "posting"
    BY <1>0, <1>1, <1>7, TurnTyped, Names
  <2>2. /\ hand' \in [Reporters -> Reportable \cup {NoAddr}] /\ hand'[c] = a
        /\ \A d \in Reporters \ {c} : hand'[d] = hand[d]
    BY <1>0, <1>2, <2>1, HoldTyped
  <2>3. ReportTypeOK'
    BY <1>0, <1>3, <1>4, <2>1, <2>2 DEF ReportTypeOK
  <2>4. CallOK(c)'
    BY <1>0, <1>2, <1>3, <1>4, <2>1, <2>2 DEF CallOK, HandOK, RowOK, Warranted
  <2>5. Aside(c)
    BY <1>3, <1>4, <2>1, <2>2 DEF Aside
  <2> QED BY <2>3, <2>4, <2>5, OthersKept
<1> QED BY <1>6, <1>7

LEMMA AcceptedStep ==
  ASSUME ReportInv, NEW c \in Reporters, Accepted(c)
  PROVE  ReportInv'
<1>0. ReportTypeOK /\ CallOK(c)
  BY DEF ReportInv
<1>1. /\ pending' \in [Reporters -> ReportPhases] /\ pending'[c] = "answered"
      /\ \A d \in Reporters \ {c} : pending'[d] = pending[d]
      /\ pending[c] = "posting"
  BY <1>0, Names DEF Accepted, ReportTypeOK
<1>2. hand[c] \in Reportable /\ table[c][hand[c]] = "eligible" /\ granted[c]
  BY <1>0, <1>1 DEF CallOK, HandOK
<1>3. UNCHANGED <<clock, ledger, cached, hand, table, role, unchecked, granted>>
  BY DEF Accepted
<1>4. reports' = reports \cup {<<c, hand[c], clock>>} /\ clock \in 0..MaxClock
  BY <1>0 DEF Accepted, ReportTypeOK
<1>5. reports' \subseteq Reporters \X Reportable \X (0..MaxClock)
  BY <1>0, <1>2, <1>4 DEF ReportTypeOK
<1>6. ASSUME NEW d \in Reporters, NEW a \in Reportable
      PROVE  <<d, a>> \in Sent' <=> (<<d, a>> \in Sent \/ (d = c /\ a = hand[c]))
  <2>1. <<d, a>> \in Sent' <=> \E t \in 0..MaxClock : <<d, a, t>> \in reports'
    BY DEF Sent
  <2>2. \A t \in 0..MaxClock :
          <<d, a, t>> \in reports' <=> (<<d, a, t>> \in reports \/ (d = c /\ a = hand[c] /\ t = clock))
    BY <1>4
  <2> QED BY <2>1, <2>2, <1>4, SentIs
<1>7. ReportTypeOK'
  BY <1>0, <1>1, <1>3, <1>5 DEF ReportTypeOK
<1>8. HandOK(c)'
  BY <1>1, <1>2, <1>3, <1>6 DEF HandOK
<1>9. ASSUME NEW a \in Reportable PROVE RowOK(c, a)'
  <2>1. CASE a = hand[c]
    BY <2>1, <1>0, <1>1, <1>2, <1>3 DEF CallOK, RowOK, Warranted
  <2>2. CASE a # hand[c]
    BY <2>2, <1>0, <1>1, <1>3, <1>6 DEF CallOK, RowOK, Warranted
  <2> QED BY <2>1, <2>2
<1>10. Aside(c)
  BY <1>1, <1>3, <1>6 DEF Aside
<1> QED BY <1>7, <1>8, <1>9, <1>10, OthersKept DEF CallOK

(* The row in hand is closed, as reported only after an answer; nothing    *)
(* becomes eligible, and what stops was not sent.                          *)
LEMMA CloseStep ==
  ASSUME ReportInv, NEW c \in Reporters, Reported(c) \/ Repeated(c) \/ PostFails(c)
  PROVE  ReportInv'
<1>0. ReportTypeOK /\ CallOK(c)
  BY DEF ReportInv
<1>1. /\ pending' \in [Reporters -> ReportPhases] /\ pending'[c] = "submit"
      /\ \A d \in Reporters \ {c} : pending'[d] = pending[d]
      /\ pending[c] \in {"posting", "answered"}
      /\ Reported(c) => pending[c] = "answered"
  BY <1>0, TurnTyped, Names DEF Reported, Repeated, PostFails, Turn
<1>2. /\ hand[c] \in Reportable /\ table[c][hand[c]] = "eligible" /\ granted[c]
      /\ Reported(c) => <<c, hand[c]>> \in Sent
  BY <1>0, <1>1 DEF CallOK, HandOK
<1>3. UNCHANGED <<clock, reports, role, unchecked, granted>> /\ Sent' = Sent
  BY DEF Reported, Repeated, PostFails, Sent
<1>4. /\ hand' \in [Reporters -> Reportable \cup {NoAddr}]
      /\ \A d \in Reporters \ {c} : hand'[d] = hand[d]
  BY <1>0, DropTyped DEF Reported, Repeated, PostFails
<1>5. ledger' \in [Reportable -> {Never} \cup 0..MaxClock] /\ cached' \subseteq Reportable
  BY <1>0, <1>2 DEF Reported, Repeated, PostFails, ReportTypeOK
<1>6. /\ table' \in [Reporters -> [Reportable -> Statuses]]
      /\ \A d \in Reporters \ {c} : table'[d] = table[d]
      /\ table'[c][hand[c]] \in {"reported", "failed"}
      /\ table'[c][hand[c]] = "reported" => Reported(c)
      /\ \A a \in Reportable \ {hand[c]} :
           \/ table'[c][a] = table[c][a]
           \/ pending[c] = "posting" /\ table[c][a] = "eligible" /\ table'[c][a] = "stopped"
  <2>1. ASSUME NEW status \in {"reported", "failed"}, Settle(c, status)
        PROVE  /\ table' \in [Reporters -> [Reportable -> Statuses]]
               /\ \A d \in Reporters \ {c} : table'[d] = table[d]
               /\ table'[c][hand[c]] = status
               /\ \A a \in Reportable \ {hand[c]} : table'[c][a] = table[c][a]
    BY <1>0, <1>2, <2>1, Names DEF Settle, ReportTypeOK
  <2>2. CASE Reported(c)
    BY <2>1, <2>2 DEF Reported
  <2>3. CASE Repeated(c) \/ (PostFails(c) /\ Settle(c, "failed"))
    BY <2>1, <2>3 DEF Repeated
  <2>4. CASE PostFails(c) /\ ~Settle(c, "failed")
    <3> DEFINE row == [a \in Reportable |->
                         IF a = hand[c] THEN "failed"
                         ELSE IF table[c][a] = "eligible" THEN "stopped" ELSE table[c][a]]
    <3>1. table' = [table EXCEPT ![c] = row] /\ pending[c] = "posting"
      BY <2>4 DEF PostFails
    <3>2. row \in [Reportable -> Statuses]
      BY <1>0, Names DEF ReportTypeOK
    <3>3. \A a \in Reportable : row[a] = IF a = hand[c] THEN "failed"
                         ELSE IF table[c][a] = "eligible" THEN "stopped" ELSE table[c][a]
      OBVIOUS
    <3> HIDE DEF row
    <3>4. /\ table' \in [Reporters -> [Reportable -> Statuses]] /\ table'[c] = row
          /\ \A d \in Reporters \ {c} : table'[d] = table[d]
      BY <1>0, <3>1, <3>2 DEF ReportTypeOK
    <3> QED BY <1>2, <3>1, <3>3, <3>4
  <2> QED BY <2>2, <2>3, <2>4
<1>7. ReportTypeOK'
  BY <1>0, <1>1, <1>3, <1>4, <1>5, <1>6 DEF ReportTypeOK
<1>8. HandOK(c)'
  BY <1>1, <1>2, <1>3 DEF HandOK
<1>9. ASSUME NEW a \in Reportable PROVE RowOK(c, a)'
  <2>1. CASE a = hand[c]
    BY <2>1, <1>0, <1>1, <1>2, <1>3, <1>6 DEF CallOK, RowOK, Warranted
  <2>2. CASE a # hand[c]
    BY <2>2, <1>0, <1>1, <1>3, <1>6 DEF CallOK, RowOK, Warranted
  <2> QED BY <2>1, <2>2
<1>10. Aside(c)
  BY <1>1, <1>3, <1>4, <1>6 DEF Aside
<1> QED BY <1>7, <1>8, <1>9, <1>10, OthersKept DEF CallOK

LEMMA PassesStep ==
  ASSUME ReportInv, Passes
  PROVE  ReportInv'
<1>0. ReportTypeOK
  BY DEF ReportInv
<1>1. /\ UNCHANGED <<ledger, reports, pending, hand, table, role, unchecked, granted>>
      /\ Sent' = Sent /\ clock' = clock + 1 /\ clock < MaxClock /\ cached' \in {cached, {}}
  BY DEF Passes, Sent
<1>2. clock' \in 0..MaxClock
  BY <1>0, <1>1, ReportAssumption DEF ReportTypeOK
<1>3. ReportTypeOK'
  BY <1>0, <1>1, <1>2 DEF ReportTypeOK
<1>4. ASSUME NEW c \in Reporters PROVE CallOK(c)'
  BY <1>1 DEF ReportInv, CallOK, HandOK, RowOK, Warranted
<1> QED BY <1>3, <1>4 DEF ReportInv

LEMMA RestartStep ==
  ASSUME ReportInv, ReporterRestarts
  PROVE  ReportInv'
<1>0. ReportTypeOK
  BY DEF ReportInv
<1>1. UNCHANGED <<clock, reports, table, role, unchecked, granted>> /\ Sent' = Sent
  BY DEF ReporterRestarts, Sent
<1>2. /\ pending' \in [Reporters -> ReportPhases]
      /\ \A c \in Reporters : pending'[c] = IF pending[c] = "idle" THEN "idle" ELSE "ended"
  BY Names DEF ReporterRestarts
<1>3. /\ hand' \in [Reporters -> Reportable \cup {NoAddr}] /\ cached' = {}
      /\ ledger' \in [Reportable -> {Never} \cup 0..MaxClock]
  BY DEF ReporterRestarts
<1>4. ReportTypeOK'
  BY <1>0, <1>1, <1>2, <1>3 DEF ReportTypeOK
<1>5. ASSUME NEW c \in Reporters PROVE CallOK(c)'
  BY <1>1, <1>2 DEF ReportInv, CallOK, HandOK, RowOK, Warranted
<1> QED BY <1>4, <1>5 DEF ReportInv

LEMMA ReportStutters == ReportInv /\ UNCHANGED reportVars => ReportInv'
BY DEF reportVars, ReportInv, ReportTypeOK, CallOK, HandOK, RowOK, Warranted, Sent

LEMMA ReportInvariant == ReportSpec => []ReportInv
<1>1. ReportInv /\ [ReportNext]_reportVars => ReportInv'
  BY HarvestStep, HarvestFailsStep, LookUpStep, CheckStep, PreviewStep, PhaseStep, SubmitStep,
     AcceptedStep, CloseStep, PassesStep, RestartStep, ReportStutters
     DEF ReportNext, CallStep
<1> QED BY <1>1, ReportStart, PTL DEF ReportSpec

(* ReportsAccountedFor: no report without the grant, of an address that is *)
(* also a destination, or of a whitelisted one that was looked up, and a   *)
(* call tells of every report it made, for any calls and addresses.        *)
THEOREM EveryReportToldOf == ReportSpec => []ReportsAccountedFor
BY ReportInvariant, AccountedSuffices, PTL
-----------------------------------------------------------------------------
(* RagStore.  While the log is empty, what the cache holds under the       *)
(* file's time, and what a query has fetched at that time, is the table;   *)
(* and the log is empty whenever no connection is open.                    *)
Stages == {"idle", "clear", "embed", "count", "insert", "ended"}
CacheInv ==
  /\ stage \in [Ingesters -> Stages] /\ reader \in {"idle", "looking", "holding"}
  /\ unsynced \in BOOLEAN /\ keyed \in BOOLEAN /\ seen \in BOOLEAN /\ visitor \in BOOLEAN
  /\ (keyed /\ ~unsynced) => matrix = Matchable(chunks)
  /\ Quiet => ~unsynced
  /\ (reader = "holding" /\ seen /\ ~unsynced) => held = Matchable(chunks)
  /\ reader # "idle" => ~keyed

LEMMA QuietIs ==
  /\ Quiet <=> (\A w \in Ingesters : stage[w] # "insert") /\ reader # "holding" /\ ~visitor
  /\ Quiet' <=> (\A w \in Ingesters : stage'[w] # "insert") /\ reader' # "holding" /\ ~visitor'
BY RagAssumption DEF Quiet, Open

LEMMA OpenBesides ==
  ASSUME NEW me \in Ingesters
  PROVE  Open(me) = {} <=> /\ \A w \in Ingesters \ {me} : stage[w] # "insert"
                           /\ reader # "holding" /\ ~visitor
BY RagAssumption DEF Open

LEMMA CacheStart == RagInit => CacheInv
<1> SUFFICES ASSUME RagInit PROVE CacheInv
  OBVIOUS
<1>1. \A w \in Ingesters : stage[w] = "idle"
  BY DEF RagInit
<1> QED BY <1>1 DEF RagInit, CacheInv, Stages

(* A step of a call that leaves the database closed.                       *)
LEMMA CallMoves ==
  ASSUME CacheInv, NEW w \in Ingesters, NEW from \in Stages, NEW to \in Stages,
         Move(w, from, to), from # "insert", UNCHANGED tableVars, UNCHANGED queryVars
  PROVE  CacheInv'
<1>1. /\ stage' \in [Ingesters -> Stages] /\ stage[w] = from
      /\ \A v \in Ingesters : stage'[v] = IF v = w THEN to ELSE stage[v]
  BY DEF CacheInv, Move
<1>2. UNCHANGED <<chunks, unsynced, seen, keyed, reader, held, matrix, visitor>>
  BY DEF tableVars, queryVars
<1>3. Quiet' => Quiet
  BY <1>1, <1>2, QuietIs
<1> QED BY <1>1, <1>2, <1>3 DEF CacheInv, Matchable

(* A transaction of a call: it opens no connection that stays, and if none *)
(* other is open the log is copied into the file.                          *)
LEMMA CallWrites ==
  ASSUME CacheInv, NEW w \in Ingesters, NEW from \in Stages, NEW to \in Stages \ {"insert"},
         NEW me,
         Move(w, from, to), UNCHANGED queryVars,
         \/ CommitsAndCloses(me)
         \/ Closes(me) /\ UNCHANGED chunks,
         Quiet' => Open(me) = {}
  PROVE  CacheInv'
<1>1. stage' \in [Ingesters -> Stages]
  BY DEF CacheInv, Move
<1>2. UNCHANGED <<reader, held, matrix, visitor>>
  BY DEF queryVars
<1>3. \/ keyed' = FALSE /\ seen' = FALSE /\ unsynced' \in BOOLEAN
      \/ UNCHANGED <<keyed, seen>> /\ unsynced' = TRUE
      \/ UNCHANGED <<keyed, seen, unsynced, chunks>>
  BY DEF CommitsAndCloses, Closes, FileChanges, FileStays
<1>4. Open(me) = {} => unsynced' = FALSE
  BY DEF CommitsAndCloses, Closes, CacheInv
<1>5. Quiet' => ~unsynced'
  BY <1>4
<1>6. unsynced' \in BOOLEAN /\ keyed' \in BOOLEAN /\ seen' \in BOOLEAN /\ (keyed' => keyed)
  <2>1. unsynced \in BOOLEAN /\ keyed \in BOOLEAN /\ seen \in BOOLEAN
    BY DEF CacheInv
  <2>2. CASE keyed' = FALSE /\ seen' = FALSE /\ unsynced' \in BOOLEAN
    BY <2>2
  <2>3. CASE UNCHANGED <<keyed, seen>> /\ unsynced' = TRUE
    BY <2>1, <2>3
  <2>4. CASE UNCHANGED <<keyed, seen, unsynced>>
    BY <2>1, <2>4
  <2> QED BY <1>3, <2>2, <2>3, <2>4
<1>7. (keyed' /\ ~unsynced') => matrix' = Matchable(chunks')
  BY <1>2, <1>3 DEF CacheInv, Matchable
<1>8. (reader' = "holding" /\ seen' /\ ~unsynced') => held' = Matchable(chunks')
  BY <1>2, <1>3 DEF CacheInv, Matchable
<1> QED BY <1>1, <1>2, <1>5, <1>6, <1>7, <1>8 DEF CacheInv, Matchable

LEMMA DeleteStep ==
  ASSUME CacheInv, NEW w \in Ingesters, delete_source(w)
  PROVE  CacheInv'
<1>1. Move(w, "clear", "embed") /\ UNCHANGED queryVars /\ "clear" \in Stages /\ "embed" \in Stages \ {"insert"}
  BY DEF delete_source, Stages
<1>2. \/ CommitsAndCloses("nobody")
      \/ Closes("nobody") /\ UNCHANGED chunks
  BY DEF delete_source
<1>3. \A v \in Ingesters : stage'[v] = "insert" <=> stage[v] = "insert"
  BY <1>1 DEF Move, CacheInv
<1>4. UNCHANGED <<reader, visitor>>
  BY <1>1 DEF queryVars
<1>5. Quiet' => Open("nobody") = {}
  BY <1>3, <1>4, QuietIs DEF Quiet
<1> QED BY <1>1, <1>2, <1>5, CallWrites

LEMMA InsertStep ==
  ASSUME CacheInv, NEW w \in Ingesters, _write_rows(w)
  PROVE  CacheInv'
<1>1. UNCHANGED queryVars /\ stage[w] = "insert"
  BY DEF _write_rows
<1>2. PICK to \in {"ended", "embed"} : Move(w, "insert", to)
  BY DEF _write_rows, Ends
<1>3. \/ CommitsAndCloses(w)
      \/ Closes(w) /\ UNCHANGED chunks
  BY DEF _write_rows, Inserted
<1>4. \A v \in Ingesters \ {w} : stage'[v] = stage[v]
  BY <1>2 DEF Move, CacheInv
<1>5. UNCHANGED <<reader, visitor>>
  BY <1>1 DEF queryVars
<1>6. Quiet' => Open(w) = {}
  BY <1>4, <1>5, QuietIs, OpenBesides
<1>7. "insert" \in Stages /\ to \in Stages \ {"insert"}
  BY <1>2 DEF Stages
<1> QED BY <1>1, <1>2, <1>3, <1>6, <1>7, CallWrites

LEMMA CallsKeepCache ==
  ASSUME CacheInv, NEW w \in Ingesters, IngestStep(w)
  PROVE  CacheInv'
<1>1. CASE blueteam_rag_ingest(w)
  <2>1. PICK to \in {"embed", "clear"} : Move(w, "idle", to)
    BY <1>1 DEF blueteam_rag_ingest, Ask
  <2>2. UNCHANGED tableVars /\ UNCHANGED queryVars
    BY <1>1 DEF blueteam_rag_ingest, Ask
  <2>3. "idle" \in Stages /\ to \in Stages
    BY DEF Stages
  <2> QED BY <2>1, <2>2, <2>3, CallMoves
<1>2. CASE add_documents(w)
  <2>1. PICK to \in {"ended", "count"} : Move(w, "embed", to)
    BY <1>2 DEF add_documents, Ends
  <2>2. UNCHANGED tableVars /\ UNCHANGED queryVars
    BY <1>2 DEF add_documents
  <2>3. "embed" \in Stages /\ to \in Stages
    BY DEF Stages
  <2> QED BY <2>1, <2>2, <2>3, CallMoves
<1>3. CASE CountRows(w)
  <2>1. Move(w, "count", "insert") /\ UNCHANGED tableVars /\ UNCHANGED queryVars
    BY <1>3 DEF CountRows
  <2>2. "count" \in Stages /\ "insert" \in Stages
    BY DEF Stages
  <2> QED BY <2>1, <2>2, CallMoves
<1> QED BY <1>1, <1>2, <1>3, DeleteStep, InsertStep DEF IngestStep

(* A query, and a visitor: what is fetched is what the table holds.        *)
LEMMA ReadersKeepCache ==
  ASSUME CacheInv, LookAtFile \/ FetchRows \/ FillCache \/ Visit \/ Leave
  PROVE  CacheInv'
<1>1. UNCHANGED <<stage, chunks>>
  BY DEF LookAtFile, FetchRows, FillCache, Visit, Leave, callVars, tableVars
<1>2. CASE LookAtFile
  BY <1>1, <1>2, QuietIs DEF LookAtFile, CacheInv, Matchable
<1>3. CASE FetchRows
  BY <1>1, <1>3, QuietIs DEF FetchRows, CacheInv, Matchable, tableVars
<1>4. CASE FillCache
  <2>1. Open("reader") = {} <=> (\A w \in Ingesters : stage[w] # "insert") /\ ~visitor
    BY RagAssumption DEF Open
  <2> DEFINE last == Open("reader") = {} /\ unsynced
  <2>2. /\ reader = "holding" /\ reader' = "idle" /\ UNCHANGED visitor
        /\ unsynced' = (unsynced /\ ~last) /\ seen' = (seen /\ ~last)
        /\ keyed' => (seen /\ ~last /\ matrix' = held)
        /\ keyed' \in BOOLEAN
    BY <1>4 DEF FillCache, CacheInv
  <2>3. Quiet' => ~unsynced'
    BY <1>1, <2>1, <2>2, QuietIs
  <2> QED BY <1>1, <2>2, <2>3 DEF CacheInv, Matchable
<1>5. CASE Visit
  BY <1>1, <1>5, QuietIs DEF Visit, CacheInv, Matchable, tableVars
<1>6. CASE Leave
  <2>1. Open("visitor") = {} <=> (\A w \in Ingesters : stage[w] # "insert") /\ reader # "holding"
    <3>1. \A x : x \in Open("visitor") <=>
                   (x \in Ingesters /\ stage[x] = "insert") \/ (x = "reader" /\ reader = "holding")
      BY RagAssumption DEF Open
    <3> QED BY <3>1
  <2>2. UNCHANGED <<reader, held, matrix>> /\ visitor' = FALSE
    BY <1>6 DEF Leave
  <2>3. \/ keyed' = FALSE /\ seen' = FALSE /\ unsynced' = FALSE
        \/ UNCHANGED <<keyed, seen, unsynced>>
    BY <1>6 DEF Leave, Closes, FileChanges, FileStays
  <2>4. Open("visitor") = {} => unsynced' = FALSE
    BY <1>6 DEF Leave, Closes, CacheInv
  <2>5. Quiet' => ~unsynced'
    BY <1>1, <2>1, <2>2, <2>4, QuietIs
  <2>6. CASE keyed' = FALSE /\ seen' = FALSE /\ unsynced' = FALSE
    BY <1>1, <2>2, <2>6 DEF CacheInv, Matchable
  <2>7. CASE UNCHANGED <<keyed, seen, unsynced>>
    BY <1>1, <2>2, <2>5, <2>7 DEF CacheInv, Matchable
  <2> QED BY <2>3, <2>6, <2>7
<1> QED BY <1>2, <1>3, <1>4, <1>5, <1>6

LEMMA RagElse == CacheInv /\ (EditCase \/ UNCHANGED ragVars) => CacheInv'
BY QuietIs DEF EditCase, ragVars, tableVars, callVars, queryVars, CacheInv, Matchable

LEMMA CacheInvariant == RagSpec => []CacheInv
<1>1. CacheInv /\ [RagNext]_ragVars => CacheInv'
  BY CallsKeepCache, ReadersKeepCache, RagElse DEF RagNext
<1> QED BY <1>1, CacheStart, PTL DEF RagSpec

(* CacheFresh: a query that the cache answers while no connection is open  *)
(* sees the rows of the table, for any number of ingesting calls.          *)
THEOREM QueriesSeeTheTable == RagSpec => []CacheFresh
<1>1. CacheInv => CacheFresh
  BY DEF CacheInv, CacheFresh
<1> QED BY <1>1, CacheInvariant, PTL
-----------------------------------------------------------------------------
(* What a call ingests: rows of its label, of which no two are the same to *)
(* the table, with the chunks of each parent and the parent of each chunk  *)
(* of a longer text.                                                       *)
Labels == {"cases", "pdf", "manual"}
Active == {"clear", "embed", "count", "insert"}
WholeIn(S, r) ==
  /\ r.parent => \A i \in 0 .. r.text - 1 :
       \E s \in S : ~s.parent /\ SameText(s, r) /\ s.seq = r.seq + i
  /\ (~r.parent /\ r.text > 1) => \E s \in S : s.parent /\ s.of = r.of /\ s.doc = r.doc
Proper(l, R) ==
  /\ R \subseteq RowsPossible /\ IsFiniteSet(R) /\ \A r \in R : r.of = l
  /\ \A r, s \in R : SameId(r, s) => r = s
  /\ ParentChild => \A r \in R : WholeIn(R, r)

(* The corpus: its groups are whole; until a race the rooms that were      *)
(* found are still there; and what is in the table of the label of a call  *)
(* that is alone is what it has submitted.                                 *)
RebuildOK(w) ==
  /\ alone[w] => \A u \in Ingesters \ {w} : stage[u] \in Active => label[u] # label[w]
  /\ (alone[w] /\ source[w] # "text" /\ stage[w] \in Active \ {"clear"})
       => Labelled(label[w]) = goal[w] \ left[w]
  /\ (alone[w] /\ source[w] # "text" /\ outcome[w] = "ok") => Labelled(label[w]) = goal[w]
IngestOK(w) ==
  /\ stage[w] # "ended" => outcome[w] = "none"
  /\ stage[w] # "idle" => Proper(label[w], goal[w]) /\ left[w] \subseteq goal[w]
  /\ source[w] = "pdf" => label[w] = "pdf"
  /\ stage[w] = "clear" \/ (source[w] # "pdf" /\ stage[w] \in Active) => left[w] = goal[w]
RoomOK ==
  ~raced => /\ Cardinality(chunks) <= MaxChunks
            /\ \A w \in Ingesters : stage[w] = "insert" => Cardinality(chunks) + room[w] <= MaxChunks
CallTypes ==
  /\ stage \in [Ingesters -> Active \cup {"idle", "ended"}]
  /\ source \in [Ingesters -> {"cases", "pdf", "text"}] /\ label \in [Ingesters -> Labels]
  /\ goal \in [Ingesters -> SUBSET RowsPossible] /\ left \in [Ingesters -> SUBSET RowsPossible]
  /\ room \in [Ingesters -> Nat] /\ alone \in [Ingesters -> BOOLEAN]
  /\ outcome \in [Ingesters -> {"none", "ok", "empty", "capped", "unavailable"}]
CorpusInv ==
  /\ CallTypes /\ truth \in Texts
  /\ chunks \subseteq RowsPossible /\ IsFiniteSet(chunks) /\ GroupsWhole /\ RoomOK
  /\ \A w \in Ingesters : IngestOK(w) /\ RebuildOK(w)

LEMMA ChunksBeforeType ==
  ASSUME NEW t \in Texts, NEW d \in Docs
  PROVE  ChunksBefore(t, d) \in Nat
<1> DEFINE B == {c \in Docs \X (1 .. MaxLength) : c[1] < d /\ c[2] <= t[c[1]]}
<1>1. IsFiniteSet(Docs) /\ IsFiniteSet(1 .. MaxLength)
  BY RagAssumption, FS_Interval
<1>2. IsFiniteSet(Docs \X (1 .. MaxLength))
  BY <1>1, FS_Product
<1>3. IsFiniteSet(B)
  <2>1. B \in SUBSET (Docs \X (1 .. MaxLength))
    OBVIOUS
  <2> HIDE DEF B
  <2> QED BY <1>2, <2>1, FS_Subset
<1> QED BY <1>3, FS_CardinalityType DEF ChunksBefore

LEMMA RowsOfProper ==
  ASSUME NEW l \in Labels, NEW t \in Texts
  PROVE  Proper(l, RowsOf(l, t))
<1> DEFINE R == RowsOf(l, t)
           Before(d) == ChunksBefore(t, d)
           Row(d, i, p) == [of |-> l, doc |-> d, seq |-> Before(d) + i, text |-> t[d], parent |-> p]
<1>1. \A r : r \in R <=> \/ \E d \in Docs : \E i \in 0 .. t[d] - 1 : r = Row(d, i, FALSE)
                         \/ \E d \in Docs : ParentChild /\ t[d] > 1 /\ r = Row(d, 0, TRUE)
  BY DEF RowsOf, RowOf
<1>2. \A d \in Docs : Before(d) \in Nat /\ t[d] \in 0 .. MaxLength
  BY ChunksBeforeType DEF Texts
<1> HIDE DEF R, Before
<1>a. ASSUME NEW r \in R
      PROVE  \E d \in Docs, i \in 0 .. MaxLength, p \in BOOLEAN : r = Row(d, i, p)
  <2>1. MaxLength \in Nat
    BY RagAssumption
  <2>2. CASE \E d \in Docs : \E i \in 0 .. t[d] - 1 : r = Row(d, i, FALSE)
    <3>0. PICK d \in Docs : \E i \in 0 .. t[d] - 1 : r = Row(d, i, FALSE)
      BY <2>2
    <3>1. PICK i \in 0 .. t[d] - 1 : r = Row(d, i, FALSE)
      BY <3>0
    <3>2. i \in 0 .. MaxLength
      BY <1>2, <2>1
    <3> HIDE DEF Row
    <3> QED BY <3>1, <3>2
  <2>3. CASE \E d \in Docs : r = Row(d, 0, TRUE)
    <3>1. 0 \in 0 .. MaxLength
      BY <2>1
    <3> HIDE DEF Row
    <3> QED BY <2>3, <3>1
  <2> QED BY <1>1, <2>2, <2>3
<1>3. R \subseteq RowsPossible /\ \A r \in R : r.of = l
  <2>1. \A d \in Docs, i \in Nat, p \in BOOLEAN : Row(d, i, p) \in RowsPossible
    BY <1>2 DEF RowsPossible, Labels
  <2>2. \A d \in Docs, i \in Nat, p \in BOOLEAN : Row(d, i, p).of = l
    OBVIOUS
  <2>3. \A r \in R : \E d \in Docs, i \in Nat, p \in BOOLEAN : r = Row(d, i, p)
    <3> HIDE DEF Row
    <3>1. 0 .. MaxLength \subseteq Nat
      OBVIOUS
    <3> QED BY <1>a, <3>1
  <2> HIDE DEF Row
  <2> QED BY <2>1, <2>2, <2>3
<1>4. ASSUME NEW r \in R, NEW s \in R, SameId(r, s) PROVE r = s
  BY <1>1, <1>2, <1>4 DEF SameId
<1>5. ASSUME ParentChild, NEW r \in R PROVE WholeIn(R, r)
  <2>1. ASSUME r.parent, NEW i \in 0 .. r.text - 1
        PROVE  \E s \in R : ~s.parent /\ SameText(s, r) /\ s.seq = r.seq + i
    <3>1. PICK d \in Docs : t[d] > 1 /\ r = Row(d, 0, TRUE)
      BY <1>1, <2>1
    <3>2. i \in 0 .. t[d] - 1 /\ r.seq = Before(d)
      BY <1>2, <2>1, <3>1
    <3>3. Row(d, i, FALSE) \in R
      BY <1>1, <3>2
    <3>4. SameText(Row(d, i, FALSE), r) /\ Row(d, i, FALSE).seq = r.seq + i /\ ~Row(d, i, FALSE).parent
      BY <3>1, <3>2 DEF SameText
    <3> QED BY <3>3, <3>4
  <2>2. ASSUME ~r.parent, r.text > 1 PROVE \E s \in R : s.parent /\ s.of = r.of /\ s.doc = r.doc
    <3>1. PICK d \in Docs : \E i \in 0 .. t[d] - 1 : r = Row(d, i, FALSE)
      BY <1>1, <2>2
    <3>2. Row(d, 0, TRUE) \in R
      BY <1>1, <1>5, <2>2, <3>1
    <3> QED BY <3>1, <3>2
  <2> QED BY <2>1, <2>2 DEF WholeIn
<1>6. IsFiniteSet(R)
  <2> DEFINE S == (Docs \X (0 .. MaxLength)) \X BOOLEAN
             f == [x \in S |-> Row(x[1][1], x[1][2], x[2])]
             T == {f[x] : x \in S}
  <2>1. IsFiniteSet(S)
    <3>1. IsFiniteSet(Docs) /\ IsFiniteSet(0 .. MaxLength)
      BY RagAssumption, FS_Interval
    <3>2. IsFiniteSet(BOOLEAN)
      <4>1. IsFiniteSet({TRUE} \cup {FALSE})
        BY FS_Singleton, FS_Union
      <4>2. BOOLEAN = {TRUE} \cup {FALSE}
        OBVIOUS
      <4> QED BY <4>1, <4>2
    <3> QED BY <3>1, <3>2, FS_Product
  <2>2. R \subseteq T
    <3> SUFFICES ASSUME NEW r \in R PROVE \E x \in S : r = f[x]
      OBVIOUS
    <3>1. PICK d \in Docs, i \in 0 .. MaxLength, p \in BOOLEAN : r = Row(d, i, p)
      BY <1>a
    <3>2. <<<<d, i>>, p>> \in S /\ f[<<<<d, i>>, p>>] = r
      BY <3>1
    <3> QED BY <3>2
  <2>3. f \in Surjection(S, T)
    BY DEF Surjection
  <2> HIDE DEF S, T, f
  <2>4. IsFiniteSet(T)
    BY <2>1, <2>3, FS_Surjection
  <2> QED BY <2>2, <2>4, FS_Subset
<1> QED BY <1>3, <1>4, <1>5, <1>6 DEF Proper, R

(* What a call writes is a part of what it has in hand, within the room it *)
(* found; and of a whole submission whole documents.                       *)
LEMMA KeptFits ==
  ASSUME CorpusInv, NEW w \in Ingesters, stage[w] = "insert"
  PROVE  /\ Kept(w) \subseteq Submitted(w) /\ Submitted(w) \subseteq left[w]
         /\ IsFiniteSet(Kept(w)) /\ Cardinality(Kept(w)) \in Nat /\ Cardinality(Kept(w)) <= room[w]
<1>1. Kept(w) \subseteq Submitted(w) /\ Submitted(w) \subseteq left[w]
  BY DEF Kept, Submitted, Leading
<1>2. /\ left[w] \subseteq goal[w] /\ goal[w] \subseteq RowsPossible /\ IsFiniteSet(goal[w])
      /\ room[w] \in Nat
  BY DEF CorpusInv, IngestOK, Proper, CallTypes
<1>3. IsFiniteSet(Submitted(w)) /\ IsFiniteSet(Kept(w))
  BY <1>1, <1>2, FS_Subset
<1>4. Cardinality(Kept(w)) \in Nat
  BY <1>3, FS_CardinalityType
<1>5. CASE Kept(w) = {}
  BY <1>1, <1>2, <1>3, <1>4, <1>5, FS_EmptySet
<1>6. CASE Kept(w) # {}
  <2> DEFINE f == [r \in Kept(w) |-> IF ParentChild THEN r.doc ELSE r.seq]
  <2>1. \A r \in Kept(w) : f[r] \in Int
    <3>1. \A r \in Kept(w) : r \in RowsPossible
      BY <1>1, <1>2
    <3>2. \A r \in RowsPossible : r.doc \in Docs /\ r.seq \in Nat
      BY DEF RowsPossible
    <3>3. Docs \subseteq Nat
      BY RagAssumption
    <3>4. \A r \in Kept(w) : r.doc \in Int /\ r.seq \in Int
      <4> SUFFICES ASSUME NEW r \in Kept(w) PROVE r.doc \in Int /\ r.seq \in Int
        OBVIOUS
      <4>1. r.doc \in Docs /\ r.seq \in Nat
        BY <3>1, <3>2
      <4> DEFINE d == r.doc
                 q == r.seq
      <4>2. d \in Docs /\ q \in Nat
        BY <4>1
      <4> HIDE DEF d, q
      <4>3. d \in Int /\ q \in Int
        BY <3>3, <4>2
      <4> QED BY <4>3 DEF d, q
    <3> QED BY <3>4
  <2>2. PICK r \in Kept(w) : \A s \in Kept(w) : f[s] <= f[r]
    <3> HIDE DEF f
    <3> QED BY <1>3, <1>6, <2>1, GreatestBy
  <2>3. Kept(w) \subseteq Through(Submitted(w), r)
    BY <1>1, <2>2 DEF Through
  <2>4. /\ Cardinality(Through(Submitted(w), r)) <= room[w]
        /\ Through(Submitted(w), r) \subseteq Submitted(w)
    BY DEF Kept, Through
  <2>5. IsFiniteSet(Through(Submitted(w), r))
    BY <1>3, <2>4, FS_Subset
  <2>6. /\ Cardinality(Kept(w)) <= Cardinality(Through(Submitted(w), r))
        /\ Cardinality(Through(Submitted(w), r)) \in Nat
    BY <2>3, <2>5, FS_Subset, FS_CardinalityType
  <2> QED BY <1>1, <1>2, <1>3, <1>4, <2>4, <2>6
<1> QED BY <1>5, <1>6

LEMMA KeptGroups ==
  ASSUME CorpusInv, NEW w \in Ingesters, stage[w] = "insert", ParentChild, source[w] # "pdf",
         NEW r \in Kept(w), NEW s \in goal[w], s.doc = r.doc
  PROVE  s \in Kept(w)
<1>1. Submitted(w) = goal[w]
  BY DEF CorpusInv, IngestOK, Active, Submitted
<1>2. Through(Submitted(w), s) = Through(Submitted(w), r)
  BY DEF Through
<1> QED BY <1>1, <1>2 DEF Kept

(* Whole documents in place of their former rows leave the groups whole.   *)
LEMMA GroupsKept ==
  ASSUME CorpusInv, NEW w \in Ingesters, stage[w] = "insert", chunks' = Inserted(w)
  PROVE  GroupsWhole'
<1> SUFFICES ASSUME ParentChild, NEW r \in chunks', r.of # "pdf" PROVE WholeIn(chunks', r)
  BY DEF GroupsWhole, WholeIn
<1>1. /\ chunks' = {x \in chunks : ~\E k \in Kept(w) : SameId(x, k)} \cup Kept(w)
      /\ Kept(w) \subseteq goal[w]
  BY KeptFits DEF Inserted, CorpusInv, IngestOK
<1>2. CASE r \in Kept(w)
  <2>1. Proper(label[w], goal[w]) /\ r \in goal[w]
    BY <1>1, <1>2 DEF CorpusInv, IngestOK
  <2>2. source[w] # "pdf"
    BY <2>1 DEF CorpusInv, IngestOK, Proper
  <2>3. WholeIn(goal[w], r)
    BY <2>1 DEF Proper
  <2>4. \A s \in goal[w] : s.doc = r.doc => s \in chunks'
    BY <1>1, <1>2, <2>2, KeptGroups
  <2> QED BY <2>3, <2>4 DEF WholeIn, SameText
<1>3. CASE r \in chunks
  <2>1. WholeIn(chunks, r)
    BY <1>3 DEF CorpusInv, GroupsWhole, WholeIn
  <2>2. ASSUME r.parent, NEW i \in 0 .. r.text - 1
        PROVE  \E s \in chunks' : ~s.parent /\ SameText(s, r) /\ s.seq = r.seq + i
    <3>1. PICK s \in chunks : ~s.parent /\ SameText(s, r) /\ s.seq = r.seq + i
      BY <2>1, <2>2 DEF WholeIn
    <3>2. CASE \E k \in Kept(w) : SameId(s, k)
      <4>1. PICK k \in Kept(w) : SameId(s, k)
        BY <3>2
      <4>2. k.parent \in BOOLEAN /\ s.parent \in BOOLEAN
        <5>1. k \in RowsPossible /\ s \in RowsPossible
          BY <1>1 DEF CorpusInv, IngestOK, Proper
        <5> QED BY <5>1 DEF RowsPossible
      <4>3. ~k.parent /\ SameText(k, r) /\ k.seq = r.seq + i
        BY <3>1, <4>1, <4>2 DEF SameId, SameText
      <4> QED BY <1>1, <4>3
    <3>3. CASE ~\E k \in Kept(w) : SameId(s, k)
      BY <1>1, <3>1, <3>3
    <3> QED BY <3>2, <3>3
  <2>3. ASSUME ~r.parent, r.text > 1
        PROVE  \E s \in chunks' : s.parent /\ s.of = r.of /\ s.doc = r.doc
    <3>1. PICK s \in chunks : s.parent /\ s.of = r.of /\ s.doc = r.doc
      BY <2>1, <2>3 DEF WholeIn
    <3>2. CASE \E k \in Kept(w) : SameId(s, k)
      <4>1. PICK k \in Kept(w) : SameId(s, k)
        BY <3>2
      <4>2. k.parent /\ k.of = r.of /\ k.doc = r.doc
        BY <3>1, <4>1 DEF SameId
      <4> QED BY <1>1, <4>2
    <3>3. CASE ~\E k \in Kept(w) : SameId(s, k)
      BY <1>1, <3>1, <3>3
    <3> QED BY <3>2, <3>3
  <2> QED BY <2>2, <2>3 DEF WholeIn
<1> QED BY <1>1, <1>2, <1>3

(* A call that writes or deletes rows of its label leaves the others'.     *)
LEMMA OtherRebuilds ==
  ASSUME CorpusInv, NEW v \in Ingesters, stage[v] \in Active, NEW w \in Ingesters, w # v,
         source' = source, label' = label, goal' = goal, alone' = alone,
         left'[w] = left[w], outcome'[w] = outcome[w],
         \A u \in Ingesters : u # v => stage'[u] = stage[u],
         \A l \in Labels : l # label[v] => Labelled(l)' = Labelled(l)
  PROVE  RebuildOK(w)'
<1>1. RebuildOK(w) /\ label[w] \in Labels
  BY DEF CorpusInv, CallTypes
<1>2. \A u \in Ingesters : stage'[u] \in Active => stage[u] \in Active
  OBVIOUS
<1>3. alone[w] => Labelled(label[w])' = Labelled(label[w])
  BY <1>1 DEF RebuildOK
<1> QED BY <1>1, <1>2, <1>3 DEF RebuildOK

(* One step of each kind.                                                  *)
LEMMA AskKeeps ==
  ASSUME CorpusInv, NEW v \in Ingesters, NEW s \in {"cases", "pdf", "text"}, NEW l \in Labels,
         NEW texts \in Texts, s = "pdf" => l = "pdf", Ask(v, s, l, texts)
  PROVE  CorpusInv'
<1> DEFINE R == RowsOf(l, texts)
           to == IF s = "text" THEN "embed" ELSE "clear"
<1>1. Proper(l, R)
  BY RowsOfProper
<1> HIDE DEF R
<1>2. /\ stage[v] = "idle" /\ stage' = [stage EXCEPT ![v] = to]
      /\ source' = [source EXCEPT ![v] = s] /\ label' = [label EXCEPT ![v] = l]
      /\ goal' = [goal EXCEPT ![v] = R] /\ left' = [left EXCEPT ![v] = R]
      /\ alone' = [w \in Ingesters |->
           IF w = v THEN \A u \in Ingesters : stage[u] \in {"idle", "ended"} \/ label[u] # l
           ELSE alone[w] /\ label[w] # l]
      /\ truth' = truth /\ raced' = raced /\ chunks' = chunks /\ room' = room /\ outcome' = outcome
  BY DEF Ask, Move, R, tableVars
<1>3. CallTypes /\ to \in {"embed", "clear"}
  BY DEF CorpusInv
<1>4. CallTypes'
  <2>1. R \in SUBSET RowsPossible
    BY <1>1 DEF Proper
  <2>2. alone' \in [Ingesters -> BOOLEAN]
    BY <1>2, <1>3 DEF CallTypes
  <2> HIDE DEF to
  <2> QED BY <1>2, <1>3, <2>1, <2>2 DEF CallTypes, Active
<1>6. ASSUME NEW w \in Ingesters PROVE IngestOK(w)' /\ RebuildOK(w)'
  <2>1. IngestOK(w) /\ RebuildOK(w)
    BY DEF CorpusInv
  <2>2. CASE w = v
    <3>1. /\ stage'[w] = to /\ source'[w] = s /\ label'[w] = l /\ goal'[w] = R /\ left'[w] = R
          /\ outcome'[w] = "none"
      BY <1>2, <1>3, <2>1, <2>2 DEF CallTypes, IngestOK
    <3>2. IngestOK(w)'
      BY <1>1, <1>3, <3>1 DEF IngestOK
    <3>3. alone'[w] => \A u \in Ingesters \ {w} : stage'[u] \in Active => label'[u] # label'[w]
      <4>1. alone'[w] = \A u \in Ingesters : stage[u] \in {"idle", "ended"} \/ label[u] # l
        BY <1>2, <2>2
      <4>2. \A u \in Ingesters \ {w} : stage'[u] = stage[u] /\ label'[u] = label[u]
        BY <1>2, <1>3, <2>2 DEF CallTypes
      <4> QED BY <3>1, <4>1, <4>2 DEF Active
    <3>4. source'[w] # "text" => stage'[w] = "clear"
      BY <3>1
    <3> QED BY <3>1, <3>2, <3>3, <3>4 DEF RebuildOK
  <2>3. CASE w # v
    <3>1. /\ stage'[w] = stage[w] /\ source'[w] = source[w] /\ label'[w] = label[w]
          /\ goal'[w] = goal[w] /\ left'[w] = left[w] /\ outcome'[w] = outcome[w]
          /\ alone'[w] = (alone[w] /\ label[w] # l)
      BY <1>2, <1>3, <2>3 DEF CallTypes
    <3>2. IngestOK(w)'
      BY <2>1, <3>1 DEF IngestOK
    <3>3. alone'[w] => \A u \in Ingesters \ {w} : stage'[u] \in Active => label'[u] # label'[w]
      <4>1. alone'[w] => alone[w] /\ label[w] # l
        BY <3>1
      <4>2. \A u \in Ingesters \ {v} : stage'[u] = stage[u] /\ label'[u] = label[u]
        BY <1>2, <1>3 DEF CallTypes
      <4>3. label'[v] = l
        BY <1>2, <1>3 DEF CallTypes
      <4> QED BY <2>1, <3>1, <4>1, <4>2, <4>3 DEF RebuildOK
    <3>4. {r \in chunks' : r.of = label'[w]} = {r \in chunks : r.of = label[w]}
      BY <1>2, <3>1
    <3> QED BY <2>1, <3>1, <3>2, <3>3, <3>4 DEF RebuildOK, Labelled
  <2> QED BY <2>2, <2>3
<1>7. RoomOK'
  <2>1. \A w \in Ingesters : stage'[w] = "insert" => stage[w] = "insert"
    <3> HIDE DEF to
    <3> QED BY <1>2, <1>3 DEF CallTypes
  <2> QED BY <1>2, <2>1 DEF CorpusInv, RoomOK
<1>8. GroupsWhole'
  BY <1>2 DEF CorpusInv, GroupsWhole
<1> QED BY <1>2, <1>4, <1>6, <1>7, <1>8 DEF CorpusInv

LEMMA DeleteKeeps ==
  ASSUME CorpusInv, NEW v \in Ingesters, delete_source(v)
  PROVE  CorpusInv'
<1>1. /\ stage[v] = "clear" /\ stage' = [stage EXCEPT ![v] = "embed"]
      /\ chunks' = chunks \ Labelled(label[v])
      /\ raced' = (raced \/ (chunks' # chunks /\ \E u \in Ingesters : stage[u] = "insert"))
      /\ truth' = truth /\ source' = source /\ label' = label /\ goal' = goal /\ left' = left
      /\ room' = room /\ outcome' = outcome /\ alone' = alone
  BY DEF delete_source, Move
<1>2. CallTypes /\ chunks \subseteq RowsPossible /\ IsFiniteSet(chunks) /\ IngestOK(v) /\ RebuildOK(v)
  BY DEF CorpusInv
<1>3. CallTypes'
  BY <1>1, <1>2 DEF CallTypes, Active
<1>4. chunks' \subseteq chunks /\ \A r : r \in chunks' <=> r \in chunks /\ r.of # label[v]
  BY <1>1 DEF Labelled
<1>5. /\ IsFiniteSet(chunks') /\ Cardinality(chunks') <= Cardinality(chunks)
      /\ Cardinality(chunks) \in Nat /\ Cardinality(chunks') \in Nat
  BY <1>2, <1>4, FS_Subset, FS_CardinalityType
<1>6. GroupsWhole'
  <2> SUFFICES ASSUME ParentChild, NEW r \in chunks', r.of # "pdf" PROVE WholeIn(chunks', r)
    BY DEF GroupsWhole, WholeIn
  <2>1. WholeIn(chunks, r) /\ r.of # label[v]
    BY <1>4 DEF CorpusInv, GroupsWhole, WholeIn
  <2> QED BY <1>4, <2>1 DEF WholeIn, SameText
<1>7. RoomOK'
  <2>1. \A u \in Ingesters : stage'[u] = "insert" => stage[u] = "insert"
    BY <1>1, <1>2 DEF CallTypes
  <2>2. \A u \in Ingesters : room[u] \in Nat
    BY <1>2 DEF CallTypes
  <2>3. MaxChunks \in Nat
    BY RagAssumption
  <2>4. RoomOK /\ (~raced' => ~raced)
    BY <1>1 DEF CorpusInv
  <2> SUFFICES ASSUME ~raced' PROVE RoomOK'
    BY DEF RoomOK
  <2>5. /\ Cardinality(chunks) <= MaxChunks
        /\ \A u \in Ingesters : stage[u] = "insert" => Cardinality(chunks) + room[u] <= MaxChunks
    BY <2>4 DEF RoomOK
  <2>6. Cardinality(chunks') <= MaxChunks
    BY <1>5, <2>3, <2>5
  <2>7. ASSUME NEW u \in Ingesters, stage'[u] = "insert" PROVE Cardinality(chunks') + room[u] <= MaxChunks
    BY <1>5, <2>1, <2>2, <2>3, <2>5, <2>7
  <2> QED BY <1>1, <2>6, <2>7 DEF RoomOK
<1>8. ASSUME NEW w \in Ingesters PROVE IngestOK(w)'
  <2>1. IngestOK(w) /\ (stage'[w] = stage[w] \/ (stage[w] = "clear" /\ stage'[w] = "embed"))
    BY <1>1, <1>2 DEF CorpusInv, CallTypes
  <2> QED BY <1>1, <2>1 DEF IngestOK, Active
<1>9. ASSUME NEW w \in Ingesters PROVE RebuildOK(w)'
  <2>1. \A u \in Ingesters : u # v => stage'[u] = stage[u]
    BY <1>1, <1>2 DEF CallTypes
  <2>2. \A l \in Labels : l # label[v] => Labelled(l)' = Labelled(l)
    BY <1>4 DEF Labelled
  <2>3. CASE w # v
    <3>1. stage[v] \in Active
      BY <1>1 DEF Active
    <3> QED BY <1>1, <2>1, <2>2, <2>3, <3>1, OtherRebuilds
  <2>4. CASE w = v
    <3>1. outcome'[w] = "none"
      BY <1>1, <1>2, <2>4 DEF IngestOK
    <3>2. alone'[w] => \A u \in Ingesters \ {w} : stage'[u] \in Active => label'[u] # label'[w]
      BY <1>1, <1>2, <2>1, <2>4 DEF RebuildOK
    <3>3. source'[w] # "text" => {r \in chunks' : r.of = label'[w]} = goal'[w] \ left'[w]
      <4>1. left[w] = goal[w]
        BY <1>1, <1>2, <2>4 DEF IngestOK
      <4> QED BY <1>1, <1>4, <2>4, <4>1
    <3> QED BY <3>1, <3>2, <3>3 DEF RebuildOK, Labelled
  <2> QED BY <2>3, <2>4
<1> QED BY <1>1, <1>2, <1>3, <1>4, <1>5, <1>6, <1>7, <1>8, <1>9 DEF CorpusInv

LEMMA CountKeeps ==
  ASSUME CorpusInv, NEW v \in Ingesters, add_documents(v) \/ CountRows(v)
  PROVE  CorpusInv'
<1>1. /\ truth' = truth /\ source' = source /\ label' = label /\ goal' = goal /\ left' = left
      /\ alone' = alone /\ raced' = raced /\ chunks' = chunks
  BY DEF add_documents, CountRows, tableVars
<1>2. CallTypes /\ IngestOK(v) /\ Cardinality(chunks) \in Nat /\ MaxChunks \in Nat
  BY FS_CardinalityType, RagAssumption DEF CorpusInv
<1>3. \/ /\ stage[v] = "embed" /\ stage' = [stage EXCEPT ![v] = "ended"] /\ room' = room
         /\ outcome' = [outcome EXCEPT ![v] = "empty"] \/ outcome' = [outcome EXCEPT ![v] = "unavailable"]
      \/ /\ stage[v] = "embed" /\ stage' = [stage EXCEPT ![v] = "count"] /\ room' = room
         /\ outcome' = outcome
      \/ /\ stage[v] = "count" /\ stage' = [stage EXCEPT ![v] = "insert"] /\ outcome' = outcome
         /\ room' = [room EXCEPT ![v] = IF Cardinality(chunks) < MaxChunks
                                        THEN MaxChunks - Cardinality(chunks) ELSE 0]
  BY DEF add_documents, CountRows, Ends, Move
<1>4. /\ \A u \in Ingesters : u # v => stage'[u] = stage[u] /\ outcome'[u] = outcome[u] /\ room'[u] = room[u]
      /\ stage[v] \in {"embed", "count"} /\ stage'[v] \in {"ended", "count", "insert"}
      /\ stage'[v] # "ended" => outcome'[v] = outcome[v]
      /\ outcome'[v] # "ok"
      /\ stage'[v] = "insert" => room'[v] = IF Cardinality(chunks) < MaxChunks
                                           THEN MaxChunks - Cardinality(chunks) ELSE 0
  BY <1>2, <1>3 DEF CallTypes, IngestOK
<1>5. CallTypes'
  <2>1. \A n \in Nat : [room EXCEPT ![v] = n] \in [Ingesters -> Nat]
    BY <1>2 DEF CallTypes
  <2>2. (IF Cardinality(chunks) < MaxChunks THEN MaxChunks - Cardinality(chunks) ELSE 0) \in Nat
    BY <1>2
  <2>3. room' \in [Ingesters -> Nat]
    BY <1>2, <1>3, <2>1, <2>2 DEF CallTypes
  <2>4. /\ stage' \in [Ingesters -> Active \cup {"idle", "ended"}]
        /\ outcome' \in [Ingesters -> {"none", "ok", "empty", "capped", "unavailable"}]
    BY <1>2, <1>3 DEF CallTypes, Active
  <2> QED BY <1>1, <1>2, <2>3, <2>4 DEF CallTypes
<1>6. RoomOK'
  <2> SUFFICES ASSUME ~raced PROVE RoomOK'
    BY <1>1 DEF RoomOK
  <2>1. /\ Cardinality(chunks) <= MaxChunks
        /\ \A u \in Ingesters : stage[u] = "insert" => Cardinality(chunks) + room[u] <= MaxChunks
    BY DEF CorpusInv, RoomOK
  <2>2. ASSUME NEW u \in Ingesters, stage'[u] = "insert" PROVE Cardinality(chunks) + room'[u] <= MaxChunks
    <3>1. CASE u # v
      BY <1>4, <2>1, <2>2, <3>1
    <3>2. CASE u = v
      BY <1>2, <1>4, <2>1, <2>2, <3>2
    <3> QED BY <3>1, <3>2
  <2> QED BY <1>1, <2>1, <2>2 DEF RoomOK
<1>7. ASSUME NEW w \in Ingesters PROVE IngestOK(w)'
  <2>1. IngestOK(w)
    BY DEF CorpusInv
  <2>2. CASE w # v
    BY <1>1, <1>4, <2>1, <2>2 DEF IngestOK
  <2>3. CASE w = v
    BY <1>1, <1>4, <2>1, <2>3 DEF IngestOK, Active
  <2> QED BY <2>2, <2>3
<1>8. ASSUME NEW w \in Ingesters PROVE RebuildOK(w)'
  <2>1. RebuildOK(w) /\ {r \in chunks' : r.of = label'[w]} = {r \in chunks : r.of = label[w]}
    BY <1>1 DEF CorpusInv
  <2>2. \A u \in Ingesters : stage'[u] \in Active => stage[u] \in Active
    BY <1>4 DEF Active
  <2>3. stage'[w] \in Active \ {"clear"} => stage[w] \in Active \ {"clear"}
    BY <1>4 DEF Active
  <2>4. outcome'[w] = "ok" => outcome[w] = "ok"
    BY <1>4
  <2> QED BY <1>1, <2>1, <2>2, <2>3, <2>4 DEF RebuildOK, Labelled
<1>9. GroupsWhole'
  BY <1>1 DEF CorpusInv, GroupsWhole
<1> QED BY <1>1, <1>5, <1>6, <1>7, <1>8, <1>9 DEF CorpusInv

LEMMA WriteKeeps ==
  ASSUME CorpusInv, NEW v \in Ingesters, _write_rows(v)
  PROVE  CorpusInv'
<1> DEFINE K == Kept(v)
           S == Submitted(v)
<1>1. /\ stage[v] = "insert" /\ chunks' = Inserted(v) /\ left' = [left EXCEPT ![v] = @ \ S]
      /\ raced' = (raced \/ (K # {} /\ \E u \in Ingesters \ {v} : stage[u] = "insert"))
      /\ truth' = truth /\ source' = source /\ label' = label /\ goal' = goal
      /\ room' = room /\ alone' = alone
  BY DEF _write_rows
<1>2. CallTypes /\ chunks \subseteq RowsPossible /\ IsFiniteSet(chunks) /\ IngestOK(v) /\ RebuildOK(v)
  BY DEF CorpusInv
<1>3. left'[v] = left[v] \ S
  BY <1>1, <1>2 DEF CallTypes
<1>4. \/ /\ K # S /\ stage' = [stage EXCEPT ![v] = "ended"]
         /\ outcome' = [outcome EXCEPT ![v] = "capped"]
      \/ /\ K = S /\ left'[v] = {} /\ stage' = [stage EXCEPT ![v] = "ended"]
         /\ outcome' = [outcome EXCEPT ![v] = "ok"]
      \/ /\ K = S /\ left'[v] # {} /\ stage' = [stage EXCEPT ![v] = "embed"] /\ outcome' = outcome
  BY DEF _write_rows, Ends, Move
<1>5. /\ K \subseteq S /\ S \subseteq left[v]
      /\ IsFiniteSet(K) /\ Cardinality(K) \in Nat /\ Cardinality(K) <= room[v]
  BY <1>1, KeptFits
<1>6. /\ Proper(label[v], goal[v]) /\ left[v] \subseteq goal[v]
      /\ K \subseteq goal[v] /\ goal[v] \subseteq RowsPossible
  BY <1>1, <1>2, <1>5 DEF IngestOK, Proper
<1>7. chunks' = {r \in chunks : ~\E k \in K : SameId(r, k)} \cup K
  BY <1>1 DEF Inserted
<1>8. GroupsWhole'
  BY <1>1, GroupsKept
<1> HIDE DEF K, S
<1>9. /\ \A u \in Ingesters : u # v => stage'[u] = stage[u] /\ outcome'[u] = outcome[u] /\ left'[u] = left[u]
      /\ stage'[v] \in {"ended", "embed"}
      /\ stage'[v] = "embed" => K = S /\ left'[v] # {} /\ outcome'[v] = outcome[v]
      /\ outcome'[v] = "ok" => K = S /\ left'[v] = {}
  BY <1>1, <1>2, <1>4 DEF CallTypes, IngestOK
<1>10. CallTypes'
  <2>1. /\ stage' \in [Ingesters -> Active \cup {"idle", "ended"}]
        /\ outcome' \in [Ingesters -> {"none", "ok", "empty", "capped", "unavailable"}]
    BY <1>2, <1>4 DEF CallTypes, Active
  <2>2. left' \in [Ingesters -> SUBSET RowsPossible]
    BY <1>1, <1>2 DEF CallTypes
  <2> QED BY <1>1, <1>2, <2>1, <2>2 DEF CallTypes
<1>11. chunks' \subseteq RowsPossible
  BY <1>2, <1>6, <1>7
<1>12. /\ IsFiniteSet(chunks') /\ Cardinality(chunks') \in Nat /\ Cardinality(chunks) \in Nat
       /\ Cardinality(chunks') <= Cardinality(chunks) + Cardinality(K)
  <2>1. /\ IsFiniteSet(chunks \cup K) /\ IsFiniteSet(chunks \cap K)
        /\ Cardinality(chunks \cup K) = Cardinality(chunks) + Cardinality(K) - Cardinality(chunks \cap K)
    BY <1>2, <1>5, FS_Union, FS_Intersection
  <2>2. chunks' \subseteq chunks \cup K
    BY <1>7
  <2>3. /\ IsFiniteSet(chunks') /\ Cardinality(chunks') <= Cardinality(chunks \cup K)
        /\ Cardinality(chunks') \in Nat /\ Cardinality(chunks \cup K) \in Nat
        /\ Cardinality(chunks \cap K) \in Nat /\ Cardinality(chunks) \in Nat
    BY <1>2, <2>1, <2>2, FS_Subset, FS_CardinalityType
  <2> QED BY <1>5, <2>1, <2>3
<1>13. RoomOK'
  <2> SUFFICES ASSUME ~raced' PROVE RoomOK'
    BY DEF RoomOK
  <2>1. ~raced /\ (K = {} \/ \A u \in Ingesters \ {v} : stage[u] # "insert")
    BY <1>1
  <2>2. /\ Cardinality(chunks) <= MaxChunks /\ Cardinality(chunks) + room[v] <= MaxChunks
        /\ \A u \in Ingesters : stage[u] = "insert" => Cardinality(chunks) + room[u] <= MaxChunks
    BY <1>1, <2>1 DEF CorpusInv, RoomOK
  <2>3. room[v] \in Nat /\ MaxChunks \in Nat
    BY <1>2, RagAssumption DEF CallTypes
  <2>4. Cardinality(chunks') <= MaxChunks
    BY <1>5, <1>12, <2>2, <2>3
  <2>5. ASSUME NEW u \in Ingesters, stage'[u] = "insert" PROVE Cardinality(chunks') + room[u] <= MaxChunks
    <3>1. u # v /\ stage[u] = "insert"
      BY <1>9, <2>5
    <3>2. K = {}
      BY <2>1, <3>1
    <3>3. chunks' = chunks
      BY <1>7, <3>2
    <3> QED BY <2>2, <3>1, <3>3
  <2> QED BY <1>1, <2>4, <2>5 DEF RoomOK
<1>14. ASSUME NEW w \in Ingesters PROVE IngestOK(w)'
  <2>1. IngestOK(w)
    BY DEF CorpusInv
  <2>2. CASE w # v
    BY <1>1, <1>9, <2>1, <2>2 DEF IngestOK
  <2>3. CASE w = v
    <3>1. source[v] # "pdf" => left'[v] = {}
      <4>1. source[v] # "pdf" => S = left[v]
        BY DEF S, Submitted
      <4> QED BY <1>3, <4>1
    <3>2. stage'[v] = "embed" => source[v] = "pdf" /\ outcome'[v] = "none"
      BY <1>1, <1>9, <2>1, <2>3, <3>1 DEF IngestOK
    <3>3. left'[v] \subseteq goal[v]
      BY <1>3, <1>6
    <3> QED BY <1>1, <1>6, <1>9, <2>1, <2>3, <3>2, <3>3 DEF IngestOK, Active
  <2> QED BY <2>2, <2>3
<1>15. ASSUME NEW w \in Ingesters PROVE RebuildOK(w)'
  <2>1. stage[v] \in Active /\ stage[v] # "clear"
    BY <1>1 DEF Active
  <2>2. CASE w # v
    <3>1. \A l \in Labels : l # label[v] => Labelled(l)' = Labelled(l)
      <4>1. \A r \in chunks, k \in K : SameId(r, k) => r.of = label[v]
        BY <1>6 DEF Proper, SameId
      <4>2. \A k \in K : k.of = label[v]
        BY <1>6 DEF Proper
      <4> QED BY <1>7, <4>1, <4>2 DEF Labelled
    <3> QED BY <1>1, <1>9, <2>1, <2>2, <3>1, OtherRebuilds
  <2>3. CASE w = v
    <3>1. alone'[w] => \A u \in Ingesters \ {w} : stage'[u] \in Active => label'[u] # label'[w]
      BY <1>1, <1>2, <1>9, <2>3 DEF RebuildOK
    <3>2. ASSUME alone[v], source[v] # "text", K = S
          PROVE  {r \in chunks' : r.of = label[v]} = goal[v] \ left'[v]
      <4>1. {r \in chunks : r.of = label[v]} = goal[v] \ left[v]
        BY <1>2, <2>1, <3>2 DEF RebuildOK, Labelled
      <4>2. \A k \in K : k.of = label[v]
        BY <1>6 DEF Proper
      <4>3. \A r \in goal[v] \ left[v], k \in K : ~SameId(r, k)
        <5> SUFFICES ASSUME NEW r \in goal[v] \ left[v], NEW k \in K, SameId(r, k) PROVE FALSE
          OBVIOUS
        <5>1. r = k
          BY <1>6 DEF Proper
        <5> QED BY <1>5, <5>1
      <4>4. {r \in chunks' : r.of = label[v]} = (goal[v] \ left[v]) \cup K
        BY <1>7, <4>1, <4>2, <4>3
      <4> QED BY <1>3, <1>5, <1>6, <3>2, <4>4
    <3>3. (alone[v] /\ source[v] # "text" /\ stage'[v] \in Active \ {"clear"})
            => {r \in chunks' : r.of = label[v]} = goal[v] \ left'[v]
      BY <1>9, <3>2 DEF Active
    <3>4. (alone[v] /\ source[v] # "text" /\ outcome'[v] = "ok")
            => {r \in chunks' : r.of = label[v]} = goal[v]
      BY <1>9, <3>2
    <3> QED BY <1>1, <2>3, <3>1, <3>3, <3>4 DEF RebuildOK, Labelled
  <2> QED BY <2>2, <2>3
<1>16. truth' \in Texts
  BY <1>1 DEF CorpusInv
<1> QED BY <1>8, <1>10, <1>11, <1>12, <1>13, <1>14, <1>15, <1>16 DEF CorpusInv

(* A query, a visitor or an edit of a case writes no row.                  *)
LEMMA ElseKeeps ==
  ASSUME CorpusInv,
         LookAtFile \/ FetchRows \/ FillCache \/ Visit \/ Leave \/ EditCase \/ UNCHANGED ragVars
  PROVE  CorpusInv'
<1>1. /\ stage' = stage /\ source' = source /\ label' = label /\ goal' = goal /\ left' = left
      /\ room' = room /\ outcome' = outcome /\ alone' = alone /\ raced' = raced /\ chunks' = chunks
  BY DEF LookAtFile, FetchRows, FillCache, Visit, Leave, EditCase, ragVars, callVars, tableVars
<1>2. truth' \in Texts
  <2>1. truth' = truth \/ \E d \in CaseDocs, n \in 0 .. MaxLength : truth' = [truth EXCEPT ![d] = n]
    BY DEF LookAtFile, FetchRows, FillCache, Visit, Leave, EditCase, ragVars
  <2> QED BY <2>1 DEF CorpusInv, Texts
<1>3. CallTypes' /\ RoomOK' /\ GroupsWhole'
  BY <1>1 DEF CorpusInv, CallTypes, RoomOK, GroupsWhole
<1>4. ASSUME NEW w \in Ingesters PROVE IngestOK(w)' /\ RebuildOK(w)'
  <2>1. IngestOK(w) /\ RebuildOK(w)
    BY DEF CorpusInv
  <2> QED BY <1>1, <2>1 DEF IngestOK, RebuildOK, Labelled
<1> QED BY <1>1, <1>2, <1>3, <1>4 DEF CorpusInv

LEMMA CorpusInvariant == RagSpec => []CorpusInv
<1>1. RagInit => CorpusInv
  <2> SUFFICES ASSUME RagInit PROVE CorpusInv
    OBVIOUS
  <2>1. truth \in Texts
    BY RagAssumption DEF RagInit, Texts
  <2>2. chunks = {} /\ IsFiniteSet(chunks) /\ Cardinality(chunks) = 0
    BY FS_EmptySet DEF RagInit
  <2>3. CallTypes
    BY DEF RagInit, CallTypes, Labels
  <2>4. RoomOK
    <3>1. MaxChunks \in Nat
      BY RagAssumption
    <3>2. \A w \in Ingesters : stage[w] = "idle"
      BY DEF RagInit
    <3> QED BY <2>2, <3>1, <3>2 DEF RoomOK
  <2>5. \A w \in Ingesters : IngestOK(w) /\ RebuildOK(w)
    BY DEF RagInit, IngestOK, RebuildOK, Active
  <2> QED BY <2>1, <2>2, <2>3, <2>4, <2>5 DEF CorpusInv, GroupsWhole
<1>2. CorpusInv /\ [RagNext]_ragVars => CorpusInv'
  <2> SUFFICES ASSUME CorpusInv, [RagNext]_ragVars PROVE CorpusInv'
    OBVIOUS
  <2>1. ASSUME NEW w \in Ingesters, IngestStep(w) PROVE CorpusInv'
    <3>1. CASE blueteam_rag_ingest(w)
      <4>1. truth \in Texts /\ File \in Texts /\ Posts \subseteq Texts
        BY RagAssumption DEF CorpusInv, Texts
      <4>2. CASE Ask(w, "cases", "cases", truth)
        BY <4>1, <4>2, AskKeeps DEF Labels
      <4>3. CASE Ask(w, "pdf", "pdf", File)
        BY <4>1, <4>3, AskKeeps DEF Labels
      <4>4. ASSUME NEW texts \in Posts, NEW l \in {"manual", "cases"}, Ask(w, "text", l, texts)
            PROVE  CorpusInv'
        <5>1. texts \in Texts /\ l \in Labels
          BY <4>1 DEF Labels
        <5> QED BY <4>4, <5>1, AskKeeps
      <4> QED BY <3>1, <4>2, <4>3, <4>4 DEF blueteam_rag_ingest
    <3> QED BY <2>1, <3>1, DeleteKeeps, CountKeeps, WriteKeeps DEF IngestStep
  <2> QED BY <2>1, ElseKeeps DEF RagNext
<1> QED BY <1>1, <1>2, PTL DEF RagSpec

(* CorpusTrue: what a rebuild says is done is what the sources gave it, no *)
(* query in the quiet is answered from an old cache, the cap holds but for *)
(* the race of the count, and no group is torn, for any number of calls.   *)
THEOREM CorpusIsTrue == RagSpec => []CorpusTrue
<1>1. CorpusInv => RebuildExact /\ CapUnlessRaced /\ GroupsWhole
  BY DEF CorpusInv, RebuildOK, RebuildExact, RoomOK, CapUnlessRaced
<1> QED BY <1>1, CorpusInvariant, QueriesSeeTheTable, PTL DEF CorpusTrue
-----------------------------------------------------------------------------
(* IocStore.  A count, in memory or in the file, is never more than what   *)
(* was seen, and either holds at most as many indicators as the cap.       *)
Store == [Indicators -> [last : Int, count : Nat]]
CountsOK(E) ==
  /\ E \in Store /\ \A i \in Indicators : E[i].count <= sightings[i]
  /\ Cardinality(KnownIocs(E)) <= IocMax
IocInv ==
  /\ CountsOK(iocs) /\ CountsOK(iocFile) /\ day \in Int
  /\ sightings \in [Indicators -> Nat] /\ \A i \in promoted : i \in Indicators /\ sightings[i] >= 3

LEMMA EvictedIs ==
  ASSUME NEW E \in Store, NEW F \in Evicted(E)
  PROVE  /\ F \in Store /\ Cardinality(KnownIocs(F)) <= IocMax
         /\ \A i \in Indicators : F[i] = E[i] \/ F[i] = NoIoc
<1> DEFINE live == {i \in KnownIocs(E) : day - E[i].last <= IocTtl}
           n == IF Cardinality(live) < IocMax THEN Cardinality(live) ELSE IocMax
<1>1. IsFiniteSet(live) /\ live \subseteq Indicators
  <2>1. live \subseteq Indicators
    BY DEF KnownIocs
  <2> QED BY <2>1, FS_Subset, IocAssumption
<1>2. Cardinality(live) \in Nat
  BY <1>1, FS_CardinalityType
<1>3. n <= IocMax
  BY <1>2, IocAssumption
<1>4. PICK K \in SUBSET live : /\ F = [i \in Indicators |-> IF i \in K THEN E[i] ELSE NoIoc]
                               /\ Cardinality(K) = n
  BY DEF Evicted
<1>5. \A i \in Indicators : F[i] = E[i] \/ F[i] = NoIoc
  BY <1>4
<1>6. F \in Store
  BY <1>4 DEF Store, NoIoc
<1>7. KnownIocs(F) \subseteq K
  BY <1>4 DEF KnownIocs, NoIoc
<1>8. IsFiniteSet(K)
  BY <1>1, FS_Subset
<1>9. Cardinality(KnownIocs(F)) <= Cardinality(K) /\ Cardinality(KnownIocs(F)) \in Nat
  BY <1>7, <1>8, FS_Subset, FS_CardinalityType
<1>10. Cardinality(KnownIocs(F)) <= IocMax
  <2>1. Cardinality(K) <= IocMax
    BY <1>3, <1>4
  <2>2. Cardinality(K) \in Nat
    BY <1>8, FS_CardinalityType
  <2> QED BY <1>9, <2>1, <2>2, IocAssumption
<1> QED BY <1>5, <1>6, <1>10

LEMMA IocStart == IocInit => IocInv
<1> SUFFICES ASSUME IocInit PROVE IocInv
  OBVIOUS
<1>1. iocs \in Store /\ iocFile = iocs /\ \A i \in Indicators : iocs[i] = NoIoc
  BY DEF IocInit, Store, NoIoc
<1>2. KnownIocs(iocs) = {}
  BY <1>1 DEF KnownIocs
<1>3. Cardinality(KnownIocs(iocs)) = 0
  BY <1>2, FS_EmptySet
<1>4. \A i \in Indicators : iocs[i].count <= sightings[i]
  BY <1>1 DEF IocInit, NoIoc
<1>5. CountsOK(iocs) /\ CountsOK(iocFile)
  BY <1>1, <1>3, <1>4, IocAssumption DEF CountsOK
<1> QED BY <1>5 DEF IocInit, IocInv

LEMMA RecordStep == IocInv /\ RecordIocs => IocInv'
<1> SUFFICES ASSUME IocInv, RecordIocs PROVE IocInv'
  OBVIOUS
<1>0. PICK B \in (SUBSET Indicators) \ {{}} : \E E \in Evicted(Recorded(B)) :
        /\ iocs' = E /\ iocFile' \in {E, iocFile}
        /\ sightings' = [i \in Indicators |-> IF i \in B THEN sightings[i] + 1 ELSE sightings[i]]
        /\ promoted' = promoted \cup Promotable(E)
        /\ day' = day
  BY DEF RecordIocs
<1>1. PICK E \in Evicted(Recorded(B)) :
        /\ iocs' = E /\ iocFile' \in {E, iocFile}
        /\ sightings' = [i \in Indicators |-> IF i \in B THEN sightings[i] + 1 ELSE sightings[i]]
        /\ promoted' = promoted \cup Promotable(E)
        /\ day' = day
  BY <1>0
<1>2. iocs \in Store /\ iocFile \in Store /\ sightings \in [Indicators -> Nat] /\ day \in Int
  BY DEF IocInv, CountsOK
<1>3. Recorded(B) \in Store
  BY <1>2 DEF Recorded, Store
<1>4. /\ sightings' \in [Indicators -> Nat]
      /\ \A i \in Indicators : sightings[i] <= sightings'[i]
      /\ \A i \in B : sightings'[i] = sightings[i] + 1
  BY <1>1, <1>2
<1>5. \A i \in Indicators : Recorded(B)[i].count <= sightings'[i]
  <2> SUFFICES ASSUME NEW i \in Indicators PROVE Recorded(B)[i].count <= sightings'[i]
    OBVIOUS
  <2>1. iocs[i].count \in Nat /\ iocs[i].count <= sightings[i] /\ sightings[i] \in Nat /\ sightings'[i] \in Nat
    BY <1>2, <1>4 DEF IocInv, CountsOK, Store
  <2>2. CASE i \in B
    BY <1>4, <2>1, <2>2 DEF Recorded
  <2>3. CASE i \notin B
    BY <1>4, <2>1, <2>3 DEF Recorded
  <2> QED BY <2>2, <2>3
<1>6. /\ E \in Store /\ Cardinality(KnownIocs(E)) <= IocMax
      /\ \A i \in Indicators : E[i] = Recorded(B)[i] \/ E[i] = NoIoc
  BY <1>1, <1>3, EvictedIs
<1>7. \A i \in Indicators : E[i].count <= sightings'[i]
  BY <1>4, <1>5, <1>6 DEF NoIoc
<1>8. \A i \in Indicators : iocFile[i].count <= sightings'[i]
  <2> SUFFICES ASSUME NEW i \in Indicators PROVE iocFile[i].count <= sightings'[i]
    OBVIOUS
  <2>1. iocFile[i].count \in Nat /\ iocFile[i].count <= sightings[i] /\ sightings[i] \in Nat /\ sightings'[i] \in Nat
    BY <1>2, <1>4 DEF IocInv, CountsOK, Store
  <2> QED BY <1>4, <2>1
<1>9. CountsOK(iocs)' /\ CountsOK(iocFile)'
  <2>1. CASE iocFile' = E
    BY <1>1, <1>6, <1>7, <2>1 DEF CountsOK, Store, KnownIocs, NoIoc
  <2>2. CASE iocFile' = iocFile
    BY <1>1, <1>2, <1>6, <1>7, <1>8, <2>2 DEF CountsOK, Store, IocInv, KnownIocs, NoIoc
  <2> QED BY <1>1, <2>1, <2>2
<1>10. ASSUME NEW i \in promoted' PROVE i \in Indicators /\ sightings'[i] >= 3
  <2>1. CASE i \in promoted
    <3>1. i \in Indicators /\ sightings[i] >= 3
      BY <2>1 DEF IocInv
    <3>2. sightings[i] \in Nat /\ sightings'[i] \in Nat /\ sightings[i] <= sightings'[i]
      BY <1>2, <1>4, <3>1
    <3> QED BY <3>1, <3>2
  <2>2. CASE i \in Promotable(E)
    <3>1. i \in Indicators /\ E[i].count >= 3
      BY <2>2 DEF Promotable, KnownIocs
    <3>2. E[i].count \in Nat /\ sightings'[i] \in Nat /\ E[i].count <= sightings'[i]
      BY <1>4, <1>6, <1>7, <3>1 DEF Store
    <3> QED BY <3>1, <3>2
  <2> QED BY <1>1, <1>10, <2>1, <2>2
<1> QED BY <1>1, <1>2, <1>4, <1>9, <1>10 DEF IocInv

LEMMA IocInvariant == IocSpec => []IocInv
<1>1. IocInv /\ NextDay => IocInv'
  BY DEF IocInv, NextDay, CountsOK, KnownIocs
<1>2. IocInv /\ ReloadIocs => IocInv'
  BY DEF IocInv, ReloadIocs, CountsOK, KnownIocs
<1>3. IocInv /\ UNCHANGED iocVars => IocInv'
  BY DEF IocInv, iocVars, CountsOK, KnownIocs
<1>4. IocInv /\ [IocNext]_iocVars => IocInv'
  BY <1>1, <1>2, <1>3, RecordStep DEF IocNext
<1> QED BY <1>4, IocStart, PTL DEF IocSpec

(* PromotionEarned: what is promoted to the attacker registry was seen     *)
(* three times, over any restarts, failed flushes and evictions, and the   *)
(* store keeps its cap, for any set of indicators and any times to live.   *)
THEOREM SeenThreeTimes == IocSpec => []PromotionEarned
<1>1. IocInv => PromotionEarned
  BY DEF IocInv, PromotionEarned, CountsOK
<1> QED BY <1>1, IocInvariant, PTL
-----------------------------------------------------------------------------
(* WazuhAuth.  Used counts the waits an attempt has begun.  What a call's  *)
(* token has of age, with what is left of the wait, never exceeds what was *)
(* left of its time when it was handed out, a lap for each retry, and a    *)
(* timeout for each wait: time only moves ticks from the one to the other. *)
Waits(n) == n * HttpTimeout
Laps(n) == n * Lap
Allowed(phase) == CASE phase = "reaching" -> ReachWaits
                    [] phase = "sending" -> Writes
                    [] OTHER -> Reads
EarlierWaits(phase) == CASE phase = "reaching" -> 0
                         [] phase = "sending" -> ReachWaits
                         [] OTHER -> ReachWaits + Writes
Used(r) == EarlierWaits(r.phase) + Allowed(r.phase) - r.more
Handed == (TokenTtl - RefreshBuffer) + Waits(Writes + Reads)
CallRecord ==
  [errand : Errands, phase : Phases, more : Nat, left : Nat, age : Nat, attempt : 0 .. Retries]
AgeOK(r) ==
  /\ r.phase \in Awake => r.more < Allowed(r.phase)
  /\ r.errand = "token" /\ r.phase \in {"sending", "reading"}
       => r.age + r.left <= Waits(Used(r) - ReachWaits)
  /\ r.errand = "request" /\ r.phase \in Awake
       => r.age + r.left < Handed + Laps(r.attempt) + Waits(Used(r))
  /\ r.phase = "asleep" => r.attempt < Retries
  /\ r.errand = "request" /\ r.phase = "asleep"
       => r.age + r.left < Handed + Laps(r.attempt) + Lap
AuthInv ==
  /\ token \in [age : Nat, left : 0 .. TokenTtl]
  /\ token.left > 0 => token.age + token.left <= TokenTtl + Waits(Writes + Reads)
  /\ call \in [Clients -> CallRecord]
  /\ \A c \in Clients : AgeOK(call[c])

LEMMA Product ==
  ASSUME NEW a \in Nat, NEW x \in Nat
  PROVE  a * x \in Nat /\ (a + 1) * x = a * x + x
OBVIOUS

LEMMA ProductGrows ==
  ASSUME NEW a \in Nat, NEW b \in Nat, NEW x \in Nat, a <= b
  PROVE  a * x <= b * x
OBVIOUS

LEMMA WaitsOK ==
  /\ \A n \in Nat : Waits(n) \in Nat /\ Waits(n + 1) = Waits(n) + HttpTimeout
  /\ \A m, n \in Nat : m <= n => Waits(m) <= Waits(n)
  /\ Waits(0) = 0 /\ Waits(1) = HttpTimeout
BY Product, ProductGrows, AuthAssumption DEF Waits

LEMMA WaitsAreNumbers ==
  /\ Waits(Writes + Reads) \in Nat
  /\ Waits(ReachWaits + Writes + Reads) \in Nat
<1>1. Writes + Reads \in Nat /\ ReachWaits + Writes + Reads \in Nat /\ HttpTimeout \in Nat
  BY AuthAssumption DEF ReachWaits
<1>2. \A n \in Nat : Waits(n) \in Nat
  BY WaitsOK
<1> DEFINE m == Writes + Reads
           n == ReachWaits + Writes + Reads
<1>3. m \in Nat /\ n \in Nat
  BY <1>1
<1> HIDE DEF m, n
<1>4. Waits(m) \in Nat /\ Waits(n) \in Nat
  BY <1>2, <1>3
<1> QED BY <1>4 DEF m, n

LEMMA LapsOK ==
  /\ Longest \in Nat /\ RetryAfterMax <= Longest /\ BackoffMax <= Longest
  /\ Lap \in Nat /\ Lap = Waits(ReachWaits + Writes + Reads) + Longest
  /\ Laps(0) = 0
  /\ \A n \in Nat : Laps(n) \in Nat /\ Laps(n + 1) = Laps(n) + Lap
  /\ \A m, n \in Nat : m <= n => Laps(m) <= Laps(n)
<1>1. Longest \in Nat /\ RetryAfterMax <= Longest /\ BackoffMax <= Longest
  BY AuthAssumption DEF Longest
<1>2. ReachWaits + Writes + Reads \in Nat
  BY AuthAssumption DEF ReachWaits
<1>3. Lap = Waits(ReachWaits + Writes + Reads) + Longest
  BY DEF Lap, Waits
<1>4. Lap \in Nat
  BY <1>1, <1>3, WaitsAreNumbers
<1> QED BY <1>1, <1>3, <1>4, Product, ProductGrows DEF Laps

LEMMA HandedOK == Handed \in Nat /\ TokenTtl \in Nat
BY WaitsAreNumbers, AuthAssumption DEF Handed

(* In a wait a call has used no more of them than there are.               *)
LEMMA UsedOK ==
  ASSUME NEW r \in CallRecord, r.phase \in Awake, AgeOK(r)
  PROVE  /\ Used(r) \in Nat /\ 1 <= Used(r) /\ Used(r) <= ReachWaits + Writes + Reads
         /\ ReachWaits + Writes + Reads \in Nat
         /\ r.phase = "reaching" => Used(r) <= ReachWaits
         /\ r.phase = "sending" => Used(r) > ReachWaits /\ Used(r) <= ReachWaits + Writes
         /\ r.phase = "reading" => Used(r) > ReachWaits + Writes
BY AuthAssumption DEF CallRecord, Awake, AgeOK, Used, EarlierWaits, Allowed, ReachWaits

LEMMA AuthStart == AuthInit => AuthInv
BY AuthAssumption
   DEF AuthInit, AuthInv, Rest, NoToken, AgeOK, CallRecord, Phases, Awake, Errands

LEMMA OneCall ==
  ASSUME AuthInv, NEW c \in Clients, NEW r \in CallRecord, call' = [call EXCEPT ![c] = r], AgeOK(r),
         \/ token' = token \/ token' = NoToken
         \/ /\ token' \in [age : Nat, left : 0 .. TokenTtl]
            /\ token'.age + token'.left <= TokenTtl + Waits(Writes + Reads)
  PROVE  AuthInv'
<1>1. call' \in [Clients -> CallRecord]
  BY DEF AuthInv
<1>2. \A d \in Clients : AgeOK(call'[d])
  BY DEF AuthInv
<1>3. /\ token' \in [age : Nat, left : 0 .. TokenTtl]
      /\ token'.left > 0 => token'.age + token'.left <= TokenTtl + Waits(Writes + Reads)
  BY AuthAssumption DEF AuthInv, NoToken
<1> QED BY <1>1, <1>2, <1>3 DEF AuthInv

(* An attempt begins, with a token younger than allowed, or for a token.   *)
LEMMA ReachStep ==
  ASSUME NEW c \in Clients, NEW errand \in {"token", "request"}, NEW age \in Nat,
         NEW attempt \in 0 .. Retries, Reach(c, errand, age, attempt),
         errand = "request" => age < Handed + Laps(attempt)
  PROVE  \E r \in CallRecord : AgeOK(r) /\ call' = [call EXCEPT ![c] = r]
<1> DEFINE r == [errand |-> errand, phase |-> "reaching", more |-> ReachWaits - 1,
                 left |-> HttpTimeout, age |-> age, attempt |-> attempt]
<1>1. r \in CallRecord
  BY AuthAssumption DEF CallRecord, Errands, Phases, Awake, ReachWaits
<1>2. Used(r) = 1
  BY DEF Used, EarlierWaits, Allowed, ReachWaits
<1>3. Laps(attempt) \in Nat /\ Handed \in Nat /\ HttpTimeout \in Nat
  BY LapsOK, HandedOK, AuthAssumption
<1>4. errand = "request" => r.age + r.left < Handed + Laps(r.attempt) + Waits(Used(r))
  BY <1>2, <1>3, WaitsOK
<1>5. AgeOK(r)
  BY <1>4 DEF AgeOK, Allowed, ReachWaits
<1> QED BY <1>1, <1>5 DEF Reach

LEMMA GetTokenStep ==
  ASSUME AuthInv, NEW c \in Clients, GetToken(c)
  PROVE  AuthInv'
<1>1. Retries \in Nat /\ Laps(0) = 0 /\ Handed \in Nat
  BY AuthAssumption, LapsOK, HandedOK
<1>2. token.age \in Nat /\ token.left \in Nat
  BY AuthAssumption DEF AuthInv
<1>3. CASE Good
  <2>1. token.age < Handed + Laps(0)
    <3>1. token.left > RefreshBuffer /\ token.age + token.left <= TokenTtl + Waits(Writes + Reads)
      BY <1>2, <1>3, AuthAssumption DEF Good, AuthInv
    <3> QED BY <1>1, <1>2, <3>1, WaitsAreNumbers, AuthAssumption DEF Handed
  <2>2. Reach(c, "request", token.age, 0)
    BY <1>3 DEF GetToken
  <2>3. \E r \in CallRecord : AgeOK(r) /\ call' = [call EXCEPT ![c] = r]
    BY <1>1, <1>2, <2>1, <2>2, ReachStep
  <2> QED BY <2>3, OneCall DEF GetToken
<1>4. CASE ~Good
  <2>1. Reach(c, "token", 0, 0)
    BY <1>4 DEF GetToken
  <2>2. \E r \in CallRecord : AgeOK(r) /\ call' = [call EXCEPT ![c] = r]
    BY <1>1, <2>1, ReachStep
  <2> QED BY <2>2, OneCall DEF GetToken
<1> QED BY <1>3, <1>4

(* One wait more, in the same phase or in the next.                        *)
LEMMA NextWait ==
  ASSUME AuthInv, NEW c \in Clients, call[c].phase \in Awake,
         NEW phase \in Awake, NEW more \in Nat, more < Allowed(phase),
         NEW age \in {0, call[c].age},
         call[c].errand = "request" => age = call[c].age,
         Enter(c, phase, more, age), token' = token,
         Used(call[c]) < EarlierWaits(phase) + Allowed(phase) - more,
         call[c].errand = "token" /\ phase # "reaching"
           => age = 0 \/ call[c].phase # "reaching"
  PROVE  AuthInv'
<1> DEFINE old == call[c]
           r == [old EXCEPT !.phase = phase, !.more = more, !.left = HttpTimeout, !.age = age]
<1>1. old \in CallRecord /\ AgeOK(old)
  BY DEF AuthInv
<1>2. /\ r \in CallRecord /\ r.phase = phase /\ r.more = more /\ r.left = HttpTimeout
      /\ r.age = age /\ r.errand = old.errand /\ r.attempt = old.attempt
  <2>1. old.age \in Nat /\ age \in Nat /\ HttpTimeout \in Nat /\ phase \in Phases
    BY <1>1, AuthAssumption DEF CallRecord, Phases
  <2> HIDE DEF old
  <2> QED BY <1>1, <2>1 DEF CallRecord
<1>3. call' = [call EXCEPT ![c] = r]
  BY <1>1 DEF Enter, AuthInv, CallRecord
<1>4. Used(r) = EarlierWaits(phase) + Allowed(phase) - more
  BY <1>2 DEF Used
<1>5. EarlierWaits(phase) \in Nat /\ Allowed(phase) \in Nat
  BY AuthAssumption DEF EarlierWaits, Allowed, ReachWaits, Awake
<1>6. Used(old) \in Nat /\ Used(r) \in Nat /\ Used(old) + 1 <= Used(r)
  BY <1>1, <1>4, <1>5, UsedOK
<1>7. HttpTimeout \in Nat /\ old.age \in Nat /\ old.left \in Nat /\ old.attempt \in 0 .. Retries
  BY <1>1, AuthAssumption DEF CallRecord
<1>8. old.errand = "request" => r.age + r.left < Handed + Laps(r.attempt) + Waits(Used(r))
  <2> SUFFICES ASSUME old.errand = "request"
               PROVE  r.age + r.left < Handed + Laps(r.attempt) + Waits(Used(r))
    OBVIOUS
  <2>1. old.age + old.left < Handed + Laps(old.attempt) + Waits(Used(old)) /\ age = old.age
    BY <1>1 DEF AgeOK
  <2>2. /\ Handed \in Nat /\ Laps(old.attempt) \in Nat
        /\ Waits(Used(old)) \in Nat /\ Waits(Used(r)) \in Nat
        /\ Waits(Used(old)) + HttpTimeout <= Waits(Used(r))
    <3>1. Retries \in Nat
      BY AuthAssumption
    <3>2. Used(old) + 1 \in Nat
      BY <1>6
    <3>3. Waits(Used(old) + 1) <= Waits(Used(r)) /\ Waits(Used(old) + 1) = Waits(Used(old)) + HttpTimeout
      BY <1>6, <3>2, WaitsOK
    <3> QED BY <1>6, <1>7, <3>1, <3>3, WaitsOK, LapsOK, HandedOK
  <2> QED BY <1>2, <1>7, <2>1, <2>2
<1>9. old.errand = "token" /\ phase \in {"sending", "reading"}
        => r.age + r.left <= Waits(Used(r) - ReachWaits)
  <2> SUFFICES ASSUME old.errand = "token", phase \in {"sending", "reading"}
               PROVE  r.age + r.left <= Waits(Used(r) - ReachWaits)
    OBVIOUS
  <2>1. Used(r) - ReachWaits \in Nat /\ Used(r) - ReachWaits >= 1
    BY <1>4, <1>5, AuthAssumption DEF EarlierWaits, ReachWaits, Allowed
  <2>2. CASE age = 0
    <3>1. Waits(1) <= Waits(Used(r) - ReachWaits)
      BY <2>1, WaitsOK
    <3> QED BY <1>2, <1>7, <2>2, <3>1, WaitsOK
  <2>3. CASE age # 0
    <3>1. old.phase \in {"sending", "reading"} /\ age = old.age
      BY <2>3 DEF Awake
    <3>2. old.age + old.left <= Waits(Used(old) - ReachWaits)
      BY <1>1, <3>1 DEF AgeOK
    <3>3. Used(old) > ReachWaits
      BY <1>1, <3>1, UsedOK, AuthAssumption DEF ReachWaits
    <3> DEFINE n == Used(old) - ReachWaits
    <3>4. n \in Nat /\ n + 1 \in Nat /\ n + 1 <= Used(r) - ReachWaits
      BY <1>6, <3>3 DEF ReachWaits
    <3>5. Waits(n + 1) = Waits(n) + HttpTimeout /\ Waits(n + 1) <= Waits(Used(r) - ReachWaits)
          /\ Waits(n) \in Nat /\ Waits(Used(r) - ReachWaits) \in Nat
      <4> HIDE DEF n
      <4> QED BY <2>1, <3>4, WaitsOK
    <3> QED BY <1>2, <1>7, <3>1, <3>2, <3>5
  <2> QED BY <2>2, <2>3
<1>10. AgeOK(r)
  <2>1. r.phase # "asleep" /\ r.phase \in Awake
    BY <1>2 DEF Awake
  <2> HIDE DEF r
  <2> QED BY <1>2, <1>8, <1>9, <2>1 DEF AgeOK
<1> QED BY <1>2, <1>3, <1>10, OneCall

LEMMA WaitStep ==
  ASSUME AuthInv, NEW c \in Clients, WaitOn(c) \/ SetOut(c) \/ GoOut(c)
  PROVE  AuthInv'
<1>1. call[c] \in CallRecord /\ AgeOK(call[c]) /\ token' = token
  BY DEF AuthInv, WaitOn, SetOut, GoOut
<1>2. CASE WaitOn(c)
  <2>1. /\ call[c].phase \in Awake /\ call[c].more > 0 /\ call[c].more \in Nat
        /\ Enter(c, call[c].phase, call[c].more - 1, call[c].age)
        /\ call[c].more < Allowed(call[c].phase)
    BY <1>1, <1>2 DEF WaitOn, CallRecord, AgeOK
  <2>2. /\ call[c].more - 1 \in Nat /\ call[c].more - 1 < Allowed(call[c].phase)
        /\ Allowed(call[c].phase) \in Nat /\ EarlierWaits(call[c].phase) \in Nat
    BY <2>1, AuthAssumption DEF Allowed, EarlierWaits, ReachWaits, Awake
  <2>3. Used(call[c]) < EarlierWaits(call[c].phase) + Allowed(call[c].phase) - (call[c].more - 1)
    BY <2>1, <2>2 DEF Used
  <2> QED
    <3>1. CASE call[c].errand = "token" /\ call[c].phase # "reaching"
      BY <1>1, <2>1, <2>2, <2>3, <3>1, NextWait
    <3>2. CASE ~(call[c].errand = "token" /\ call[c].phase # "reaching")
      BY <1>1, <2>1, <2>2, <2>3, <3>2, NextWait
    <3> QED BY <3>1, <3>2
<1>3. CASE SetOut(c)
  <2> DEFINE age == IF call[c].errand = "token" THEN 0 ELSE call[c].age
  <2>1. call[c].phase = "reaching" /\ Enter(c, "sending", Writes - 1, age)
    BY <1>3 DEF SetOut
  <2>2. /\ Writes - 1 \in Nat /\ Writes - 1 < Allowed("sending") /\ "sending" \in Awake
        /\ Used(call[c]) < EarlierWaits("sending") + Allowed("sending") - (Writes - 1)
    BY <1>1, <2>1, AuthAssumption, UsedOK DEF Allowed, EarlierWaits, ReachWaits, Awake
  <2>3. age \in {0, call[c].age} /\ call[c].phase \in Awake
    BY <2>1 DEF Awake
  <2> QED BY <1>1, <2>1, <2>2, <2>3, NextWait
<1>4. CASE GoOut(c)
  <2>1. call[c].phase = "sending" /\ Enter(c, "reading", Reads - 1, call[c].age)
    BY <1>4 DEF GoOut
  <2>2. /\ Reads - 1 \in Nat /\ Reads - 1 < Allowed("reading") /\ "reading" \in Awake
        /\ Used(call[c]) < EarlierWaits("reading") + Allowed("reading") - (Reads - 1)
        /\ call[c].phase \in Awake
    BY <1>1, <2>1, AuthAssumption, UsedOK DEF Allowed, EarlierWaits, ReachWaits, Awake
  <2> QED BY <1>1, <2>1, <2>2, NextWait
<1> QED BY <1>2, <1>3, <1>4

LEMMA RefreshedStep ==
  ASSUME AuthInv, NEW c \in Clients, Refreshed(c)
  PROVE  AuthInv'
<1>1. PICK age \in 0 .. call[c].age :
        token' = [age |-> age, left |-> TokenTtl] /\ Reach(c, "request", age, 0)
  BY DEF Refreshed
<1>2. /\ call[c] \in CallRecord /\ AgeOK(call[c])
      /\ call[c].errand = "token" /\ call[c].phase = "reading"
  BY DEF Refreshed, AuthInv
<1>3. call[c].age \in Nat /\ call[c].left \in Nat /\ age \in Nat
  BY <1>2 DEF CallRecord
<1>4. age <= Waits(Writes + Reads) /\ Waits(Writes + Reads) \in Nat
  <2>1. call[c].age + call[c].left <= Waits(Used(call[c]) - ReachWaits)
    BY <1>2 DEF AgeOK
  <2>2. /\ Used(call[c]) - ReachWaits \in Nat /\ Writes + Reads \in Nat
        /\ Used(call[c]) - ReachWaits <= Writes + Reads
    BY <1>2, UsedOK, AuthAssumption DEF ReachWaits, Awake
  <2>3. /\ Waits(Used(call[c]) - ReachWaits) <= Waits(Writes + Reads)
        /\ Waits(Used(call[c]) - ReachWaits) \in Nat /\ Waits(Writes + Reads) \in Nat
    BY <2>2, WaitsOK
  <2> QED BY <1>3, <2>1, <2>3
<1>5. age < Handed + Laps(0)
  BY <1>3, <1>4, LapsOK, AuthAssumption DEF Handed
<1>6. PICK r \in CallRecord : AgeOK(r) /\ call' = [call EXCEPT ![c] = r]
  BY <1>1, <1>3, <1>5, ReachStep, AuthAssumption
<1>7. /\ token' \in [age : Nat, left : 0 .. TokenTtl]
      /\ token'.age + token'.left <= TokenTtl + Waits(Writes + Reads)
  BY <1>1, <1>3, <1>4, AuthAssumption
<1> QED BY <1>6, <1>7, OneCall

LEMMA EndStep ==
  ASSUME AuthInv, NEW c \in Clients, RefreshFails(c) \/ Answered(c)
  PROVE  AuthInv'
<1>1. call' = [call EXCEPT ![c] = Rest] /\ token' \in {token, NoToken}
  BY DEF RefreshFails, Answered
<1>2. Rest \in CallRecord /\ AgeOK(Rest)
  BY AuthAssumption DEF Rest, CallRecord, Phases, Errands, Awake, AgeOK
<1> QED BY <1>1, <1>2, OneCall

(* What an attempt used, and a delay, make at most a lap.                  *)
LEMMA SleepStep ==
  ASSUME AuthInv, NEW c \in Clients, TryAgain(c) \/ Throttled(c)
  PROVE  AuthInv'
<1>1. PICK delay \in Nat : delay <= Longest /\ Sleep(c, delay)
  <2>1. RetryAfterMax \in Nat /\ BackoffMax \in Nat /\ Longest \in Nat
    BY LapsOK, AuthAssumption
  <2>2. CASE TryAgain(c)
    <3>1. PICK delay \in 0 .. BackoffMax : Sleep(c, delay)
      BY <2>2 DEF TryAgain
    <3>2. delay \in Nat /\ delay <= Longest
      BY <2>1, LapsOK
    <3> QED BY <3>1, <3>2
  <2>3. CASE Throttled(c)
    <3>1. PICK delay \in 0 .. RetryAfterMax : Sleep(c, delay)
      BY <2>3 DEF Throttled
    <3>2. delay \in Nat /\ delay <= Longest
      BY <2>1, LapsOK
    <3> QED BY <3>1, <3>2
  <2> QED BY <2>2, <2>3
<1> DEFINE old == call[c]
           r == [old EXCEPT !.phase = "asleep", !.more = 0, !.left = delay]
<1>2. /\ old \in CallRecord /\ AgeOK(old) /\ old.phase \in Awake /\ old.attempt < Retries
      /\ token' = token
  BY DEF TryAgain, Throttled, AuthInv, Awake
<1>3. /\ r \in CallRecord /\ r.phase = "asleep" /\ r.left = delay /\ r.age = old.age
      /\ r.errand = old.errand /\ r.attempt = old.attempt
  BY <1>2 DEF CallRecord, Phases
<1>4. call' = [call EXCEPT ![c] = r]
  BY <1>1, <1>2 DEF Sleep, AuthInv, CallRecord
<1>5. old.errand = "request" => r.age + r.left < Handed + Laps(r.attempt) + Lap
  <2> SUFFICES ASSUME old.errand = "request"
               PROVE  r.age + r.left < Handed + Laps(r.attempt) + Lap
    OBVIOUS
  <2>1. old.age + old.left < Handed + Laps(old.attempt) + Waits(Used(old))
    BY <1>2 DEF AgeOK
  <2>2. /\ Used(old) \in Nat /\ ReachWaits + Writes + Reads \in Nat
        /\ Used(old) <= ReachWaits + Writes + Reads
    BY <1>2, UsedOK
  <2>3. /\ Waits(Used(old)) <= Waits(ReachWaits + Writes + Reads)
        /\ Waits(Used(old)) \in Nat /\ Waits(ReachWaits + Writes + Reads) \in Nat
    BY <2>2, WaitsOK
  <2>4. /\ Handed \in Nat /\ Laps(old.attempt) \in Nat /\ old.age \in Nat /\ old.left \in Nat
        /\ Lap = Waits(ReachWaits + Writes + Reads) + Longest /\ Longest \in Nat
    <3>1. old.attempt \in Nat /\ old.age \in Nat /\ old.left \in Nat
      BY <1>2, AuthAssumption DEF CallRecord
    <3> HIDE DEF old
    <3> QED BY <3>1, HandedOK, LapsOK
  <2> QED BY <1>1, <1>3, <2>1, <2>3, <2>4
<1>6. AgeOK(r)
  <2>1. r.phase \notin Awake /\ r.phase \notin {"sending", "reading"}
    BY <1>3 DEF Awake
  <2> HIDE DEF r
  <2> QED BY <1>2, <1>3, <1>5, <2>1 DEF AgeOK
<1> QED BY <1>2, <1>3, <1>4, <1>6, OneCall

LEMMA WakeUpStep ==
  ASSUME AuthInv, NEW c \in Clients, WakeUp(c)
  PROVE  AuthInv'
<1> DEFINE old == call[c]
           age == IF old.errand = "token" THEN 0 ELSE old.age
<1>1. /\ old \in CallRecord /\ AgeOK(old) /\ old.phase = "asleep" /\ old.left = 0
      /\ Reach(c, old.errand, age, old.attempt + 1) /\ token' = token
  BY DEF WakeUp, AuthInv
<1>2. /\ old.attempt \in Nat /\ old.attempt + 1 \in 0 .. Retries /\ age \in Nat
      /\ old.errand \in Errands
  BY <1>1, AuthAssumption DEF AgeOK, CallRecord
<1>3. old.errand = "request" => age < Handed + Laps(old.attempt + 1)
  <2>1. old.age \in Nat /\ Laps(old.attempt) \in Nat /\ Lap \in Nat /\ Handed \in Nat
        /\ Laps(old.attempt + 1) = Laps(old.attempt) + Lap
    <3>1. old.age \in Nat
      BY <1>1 DEF CallRecord
    <3> HIDE DEF old, age
    <3> QED BY <1>2, <3>1, LapsOK, HandedOK
  <2>2. old.errand = "request" => old.age + old.left < Handed + Laps(old.attempt) + Lap
    BY <1>1 DEF AgeOK
  <2> QED BY <1>1, <2>1, <2>2
<1>4. CASE old.errand = "none"
  <2> DEFINE r == [errand |-> "none", phase |-> "reaching", more |-> ReachWaits - 1,
                   left |-> HttpTimeout, age |-> age, attempt |-> old.attempt + 1]
  <2>1. r \in CallRecord /\ AgeOK(r)
    BY <1>2, AuthAssumption DEF CallRecord, Errands, Phases, Awake, ReachWaits, AgeOK, Allowed
  <2> QED BY <1>1, <1>4, <2>1, OneCall DEF Reach
<1>5. CASE old.errand \in {"token", "request"}
  <2>1. \E r \in CallRecord : AgeOK(r) /\ call' = [call EXCEPT ![c] = r]
    <3> HIDE DEF age, old
    <3> QED BY <1>1, <1>2, <1>3, <1>5, ReachStep
  <2> QED BY <1>1, <2>1, OneCall
<1> QED BY <1>2, <1>4, <1>5 DEF Errands

LEMMA AuthTickStep ==
  ASSUME AuthInv, AuthTick
  PROVE  AuthInv'
<1>1. ASSUME NEW c \in Clients
      PROVE  call'[c] \in CallRecord /\ AgeOK(call'[c])
  <2>1. call[c] \in CallRecord /\ AgeOK(call[c])
    BY DEF AuthInv
  <2>2. CASE call[c].phase = "idle"
    BY <2>1, <2>2 DEF AuthTick
  <2>3. CASE call[c].phase # "idle"
    <3>1. call[c].left > 0
      BY <2>3 DEF AuthTick
    <3> DEFINE r == call'[c]
    <3>2. /\ r \in CallRecord /\ r.phase = call[c].phase /\ r.more = call[c].more
          /\ r.errand = call[c].errand /\ r.attempt = call[c].attempt
          /\ call[c].age \in Nat /\ call[c].left \in Nat
          /\ r.left = call[c].left - 1
          /\ r.age = IF call[c].errand = "request" \/ call[c].phase \in {"sending", "reading"}
                     THEN call[c].age + 1 ELSE call[c].age
      <4>1. /\ call[c].age \in Nat /\ call[c].left \in Nat /\ call[c].left - 1 \in Nat
            /\ call[c].age + 1 \in Nat
        BY <2>1, <3>1 DEF CallRecord
      <4>2. CASE Ageing(c)
        <5>1. call'[c] = [call[c] EXCEPT !.left = @ - 1, !.age = @ + 1]
          BY <2>3, <4>2 DEF AuthTick
        <5> QED BY <2>1, <4>1, <4>2, <5>1 DEF CallRecord, Ageing
      <4>3. CASE ~Ageing(c)
        <5>1. call'[c] = [call[c] EXCEPT !.left = @ - 1, !.age = @]
          BY <2>3, <4>3 DEF AuthTick
        <5> QED BY <2>1, <4>1, <4>3, <5>1 DEF CallRecord, Ageing
      <4> QED BY <4>2, <4>3
    <3>3. Used(r) = Used(call[c])
      BY <3>2 DEF Used
    <3>4. r.errand = "request" \/ r.phase \in {"sending", "reading"}
            => r.age + r.left = call[c].age + call[c].left
      BY <3>2
    <3> HIDE DEF r
    <3> QED BY <2>1, <3>2, <3>3, <3>4 DEF AgeOK, r
  <2> QED BY <2>2, <2>3
<1>2. call' \in [Clients -> CallRecord]
  BY <1>1 DEF AuthTick
<1>3. /\ token' \in [age : Nat, left : 0 .. TokenTtl]
      /\ token'.left > 0 => token'.age + token'.left <= TokenTtl + Waits(Writes + Reads)
  <2>1. token.age \in Nat /\ token.left \in 0 .. TokenTtl /\ TokenTtl \in Nat
    BY AuthAssumption DEF AuthInv
  <2>2. CASE token.left = 0
    BY <2>2 DEF AuthTick, AuthInv
  <2>3. CASE token.left # 0
    <3>1. token' = [age |-> token.age + 1, left |-> token.left - 1]
      BY <2>3 DEF AuthTick
    <3>2. token.left > 0
      BY <2>1, <2>3
    <3>3. token.age + token.left <= TokenTtl + Waits(Writes + Reads)
      BY <3>2 DEF AuthInv
    <3>4. token'.age = token.age + 1 /\ token'.left = token.left - 1
      BY <3>1
    <3> QED BY <2>1, <3>1, <3>2, <3>3, <3>4
  <2> QED BY <2>2, <2>3
<1> QED BY <1>1, <1>2, <1>3 DEF AuthInv

LEMMA AuthInvariant == AuthSpec => []AuthInv
<1>1. AuthInv /\ UNCHANGED authVars => AuthInv'
  BY DEF AuthInv, authVars
<1>2. AuthInv /\ [AuthNext]_authVars => AuthInv'
  BY <1>1, GetTokenStep, WaitStep, RefreshedStep, EndStep, SleepStep, WakeUpStep, AuthTickStep
     DEF AuthNext
<1> QED BY <1>2, AuthStart, PTL DEF AuthSpec

(* TokenAgeBounded: a token on the wire is younger than AgeBound, for any  *)
(* number of clients, retries, waits, timeouts, sleeps and times to live.  *)
THEOREM TokensStayYoung == AuthSpec => []TokenAgeBounded
<1>1. AuthInv => TokenAgeBounded
  <2> SUFFICES ASSUME AuthInv, NEW c \in Clients, OnTheWire(c)
               PROVE  call[c].age < AgeBound
    BY DEF TokenAgeBounded
  <2> DEFINE r == call[c]
             m == ReachWaits + Writes + 1
  <2>1. r \in CallRecord /\ AgeOK(r) /\ r.errand = "request" /\ r.phase \in Awake
    BY DEF AuthInv, OnTheWire, Awake
  <2>2. r.age + r.left < Handed + Laps(r.attempt) + Waits(Used(r))
    BY <2>1 DEF AgeOK
  <2>3. Used(r) \in Nat /\ m \in Nat /\ Used(r) <= m
    <3>1. CASE r.phase = "sending"
      BY <2>1, <3>1, UsedOK, AuthAssumption DEF ReachWaits
    <3>2. CASE r.phase = "reading" /\ r.more = Reads - 1
      BY <2>1, <3>2, UsedOK, AuthAssumption DEF Used, EarlierWaits, Allowed, ReachWaits
    <3> QED BY <3>1, <3>2 DEF OnTheWire
  <2>4. /\ Waits(Used(r)) <= Waits(m) /\ Waits(Used(r)) \in Nat /\ Waits(m) \in Nat
    <3> HIDE DEF r, m
    <3> QED BY <2>3, WaitsOK
  <2>5. Laps(r.attempt) <= Laps(Retries) /\ Laps(r.attempt) \in Nat /\ Laps(Retries) \in Nat
    <3>1. r.attempt \in Nat /\ r.attempt <= Retries /\ Retries \in Nat
      BY <2>1, AuthAssumption DEF CallRecord
    <3> HIDE DEF r
    <3> QED BY <3>1, LapsOK
  <2>6. AgeBound = Handed + Laps(Retries) + Waits(m) /\ Handed \in Nat
    BY HandedOK DEF AgeBound, Handed, Laps, Waits
  <2>7. r.age \in Nat /\ r.left \in Nat
    BY <2>1 DEF CallRecord
  <2> QED BY <2>2, <2>4, <2>5, <2>6, <2>7
<1> QED BY <1>1, AuthInvariant, PTL

-----------------------------------------------------------------------------
(* SourceStore.  What an ingest holds is indexed; a complete one has all   *)
(* that the index showed it of its window, and once its rows are saved the *)
(* store has learned them.  So has the record of a complete ingest what    *)
(* was shown, and a prediction what was shown to the records it found.     *)
Learned == rows \cup dropped

JobOK ==
  /\ job.pc # "idle" => job.window \in Windows /\ job.rows \subseteq feed
  /\ job.complete =>
       /\ job.pc \in {"save", "record"}
       /\ job.rows = InWindow(job.looked, job.window[1], job.window[2])
  /\ job.pc = "record" => job.rows \subseteq Learned
GuessOK ==
  /\ guess.status = "ok" => guess.pc # "idle"
  /\ guess.looked \subseteq guess.rows \cup dropped
GuessRecord ==
  [pc : {"idle", "gate", "done"}, start : Nat, asOf : Nat, rows : SUBSET Alerts,
   covered : BOOLEAN, looked : SUBSET Alerts, allow : BOOLEAN,
   status : {"none", "ok", "degraded", "corpus_unverified", "insufficient_history"}]
JobRecord ==
  [pc : {"idle", "save", "record", "purge"}, window : Nat \X Nat,
   rows : SUBSET Alerts, complete : BOOLEAN, looked : SUBSET Alerts]
RecordsHold == \A w \in Complete : InWindow(looked[w], w[1], w[2]) \subseteq Learned
SourceInv ==
  /\ now \in Nat /\ now <= MaxTime /\ feed \subseteq Alerts
  /\ ingests \in [Windows -> {"none", "complete", "degraded"}]
  /\ looked \in [Windows -> SUBSET Alerts]
  /\ job \in JobRecord /\ guess \in GuessRecord
  /\ rows \subseteq feed /\ dropped \subseteq feed
  /\ JobOK /\ GuessOK /\ RecordsHold

LEMMA WindowsAreNumbers == \A w \in Windows : w \in Nat \X Nat
BY SourceAssumption DEF Windows, Clock

LEMMA SourceStart == SourceInit => SourceInv
BY SourceAssumption
   DEF SourceInit, SourceInv, NoJob, NoGuess, JobOK, GuessOK, Complete, Learned, Alerts, Clock,
       JobRecord, GuessRecord, RecordsHold

(* What the index shows grows; time passes.                                *)
LEMMA ObserveStep ==
  ASSUME SourceInv, Observe \/ SourceTick
  PROVE  SourceInv'
<1>1. feed \subseteq feed' /\ feed' \subseteq Alerts
  BY DEF Observe, SourceTick, Alerts, Clock, SourceInv
<1>2. UNCHANGED <<rows, ingests, job, guess, looked, dropped>>
  BY DEF Observe, SourceTick
<1>3. now' \in Nat /\ now' <= MaxTime
  BY SourceAssumption DEF Observe, SourceTick, SourceInv
<1>4. JobOK' /\ GuessOK'
  BY <1>1, <1>2 DEF SourceInv, JobOK, GuessOK, Learned
<1>5. RecordsHold'
  BY <1>2 DEF SourceInv, RecordsHold, Complete, Learned
<1> QED BY <1>1, <1>2, <1>3, <1>4, <1>5 DEF SourceInv

(* The steps of an ingest.                                                 *)
LEMMA FetchStep ==
  ASSUME SourceInv, Fetch
  PROVE  SourceInv'
<1>1. PICK w \in Windows, complete \in BOOLEAN, S \in SUBSET feed :
        /\ complete => S = InWindow(feed, w[1], w[2])
        /\ job' = [pc |-> "save", window |-> w, rows |-> S, complete |-> complete,
                   looked |-> IF complete THEN feed ELSE {}]
  BY DEF Fetch
<1>2. UNCHANGED <<now, feed, rows, ingests, guess, looked, dropped>>
  BY DEF Fetch
<1>3. job' \in JobRecord
  BY <1>1, WindowsAreNumbers DEF SourceInv, JobRecord
<1>4. JobOK'
  <2>1. /\ job'.pc = "save" /\ job'.window = w /\ job'.rows = S /\ job'.complete = complete
        /\ job'.looked = IF complete THEN feed ELSE {}
    BY <1>1
  <2> QED BY <1>1, <1>2, <2>1 DEF JobOK
<1> QED BY <1>2, <1>3, <1>4 DEF SourceInv, GuessOK, RecordsHold, Complete, Learned

LEMMA SavedRows ==
  ASSUME SourceInv, SaveRows
  PROVE  /\ job.pc = "save" /\ job' = [job EXCEPT !.pc = "record"]
         /\ UNCHANGED <<now, feed, ingests, guess, looked>>
         /\ rows' \subseteq feed /\ dropped' \subseteq feed /\ dropped \subseteq dropped'
         /\ Learned' = Learned \cup job.rows
<1>1. PICK K \in Trimmed(rows \cup job.rows) :
        rows' = K /\ dropped' = dropped \cup ((rows \cup job.rows) \ K)
  BY DEF SaveRows
<1>2. K \subseteq rows \cup job.rows
  BY <1>1 DEF Trimmed
<1>3. job.rows \subseteq feed
  BY DEF SaveRows, SourceInv, JobOK
<1> QED BY <1>1, <1>2, <1>3 DEF SaveRows, Learned, SourceInv

LEMMA SaveRowsStep ==
  ASSUME SourceInv, SaveRows
  PROVE  SourceInv'
<1>1. job' \in JobRecord
  BY SavedRows DEF SourceInv, JobRecord
<1>2. /\ job'.pc = "record" /\ job'.window = job.window /\ job'.rows = job.rows
      /\ job'.complete = job.complete /\ job'.looked = job.looked
  BY SavedRows DEF SourceInv, JobRecord
<1>3. JobOK'
  BY SavedRows, <1>2 DEF SourceInv, JobOK
<1>4. GuessOK' /\ RecordsHold'
  BY SavedRows DEF SourceInv, GuessOK, RecordsHold, Complete
<1> QED BY <1>1, <1>3, <1>4, SavedRows DEF SourceInv

(* The record of an ingest goes over what it looked at, in one write.      *)
LEMMA SavedIngest ==
  ASSUME SourceInv, SaveIngest
  PROVE  /\ Complete' = IF job.complete THEN Complete \cup {job.window} ELSE Complete \ {job.window}
         /\ job.window \in Windows /\ job.rows \subseteq Learned
         /\ looked' = [looked EXCEPT ![job.window] = job.looked]
         /\ looked' \in [Windows -> SUBSET Alerts]
         /\ ingests' \in [Windows -> {"none", "complete", "degraded"}]
<1>1. /\ job.window \in Windows /\ job.complete \in BOOLEAN /\ job.looked \in SUBSET Alerts
      /\ ingests' = [ingests EXCEPT ![job.window] = IF job.complete THEN "complete" ELSE "degraded"]
      /\ looked' = [looked EXCEPT ![job.window] = job.looked]
  BY DEF SaveIngest, SourceInv, JobOK, JobRecord
<1>2. Complete' = IF job.complete THEN Complete \cup {job.window} ELSE Complete \ {job.window}
  BY <1>1 DEF Complete, SourceInv
<1> QED BY <1>1, <1>2 DEF SaveIngest, SourceInv, JobOK

LEMMA SaveIngestStep ==
  ASSUME SourceInv, SaveIngest
  PROVE  SourceInv'
<1>1. /\ job' = [NoJob EXCEPT !.pc = "purge"]
      /\ UNCHANGED <<now, feed, rows, guess, dropped>>
  BY DEF SaveIngest
<1>2. job' \in JobRecord /\ JobOK'
  <2>1. /\ job'.pc = "purge" /\ job'.window = <<0, 1>> /\ job'.rows = {}
        /\ job'.complete = FALSE /\ job' \in JobRecord
    BY <1>1 DEF JobRecord, NoJob
  <2>2. <<0, 1>> \in Windows
    BY SourceAssumption DEF Windows, Clock
  <2> QED BY <2>1, <2>2 DEF JobOK
<1>3. RecordsHold'
  <2> SUFFICES ASSUME NEW w \in Complete' PROVE InWindow(looked'[w], w[1], w[2]) \subseteq Learned
    BY <1>1 DEF RecordsHold, Learned
  <2>1. CASE w = job.window
    <3>1. job.complete /\ looked'[w] = job.looked
      BY <2>1, SavedIngest DEF SourceInv
    <3> QED BY <2>1, <3>1, SavedIngest DEF SourceInv, JobOK
  <2>2. CASE w # job.window
    <3>1. w \in Complete /\ w \in Windows /\ looked'[w] = looked[w]
      BY <2>2, SavedIngest DEF SourceInv, Complete
    <3> QED BY <3>1 DEF SourceInv, RecordsHold
  <2> QED BY <2>1, <2>2
<1> QED BY <1>1, <1>2, <1>3, SavedIngest DEF SourceInv, GuessOK

LEMMA PurgeStep ==
  ASSUME SourceInv, PurgeExpired \/ IngestDies
  PROVE  SourceInv'
<1>1. /\ job' = NoJob /\ UNCHANGED <<now, feed, ingests, guess, looked>>
      /\ Learned' = Learned /\ dropped \subseteq dropped'
      /\ rows' \subseteq feed /\ dropped' \subseteq feed
  BY DEF PurgeExpired, IngestDies, Learned, SourceInv
<1>2. GuessOK' /\ RecordsHold'
  BY <1>1 DEF SourceInv, GuessOK, RecordsHold, Complete
<1>3. JobOK' /\ job' \in JobRecord
  BY <1>1 DEF JobOK, NoJob, JobRecord
<1> QED BY <1>1, <1>2, <1>3 DEF SourceInv

(* A prediction.                                                           *)
LEMMA LoadRowsStep ==
  ASSUME SourceInv, LoadRows
  PROVE  SourceInv'
<1>1. UNCHANGED <<now, feed, rows, ingests, job, looked, dropped>>
  BY DEF LoadRows
<1>2. guess' \in GuessRecord /\ GuessOK'
  <2>1. CASE guess' = [NoGuess EXCEPT !.pc = "done", !.status = "insufficient_history"]
    BY <2>1 DEF NoGuess, GuessRecord, GuessOK
  <2>2. CASE guess' # [NoGuess EXCEPT !.pc = "done", !.status = "insufficient_history"]
    <3>1. PICK start \in Clock, asOf \in Clock, allow \in BOOLEAN :
            guess' = [pc |-> "gate", start |-> start, asOf |-> asOf,
                      rows |-> InWindow(rows, start, asOf),
                      covered |-> Covering(start, asOf) # {},
                      looked |-> InWindow(UNION {looked[w] : w \in Covering(start, asOf)}, start, asOf),
                      allow |-> allow, status |-> "none"]
      BY <2>2 DEF LoadRows
    <3>2. start \in Nat /\ asOf \in Nat
      BY SourceAssumption DEF Clock
    <3>3. ASSUME NEW w \in Covering(start, asOf), NEW e \in looked[w],
                 start <= e[2], e[2] < asOf
          PROVE  e \in Alerts /\ e \in Learned
      <4>1. /\ w \in Complete /\ w \in Windows /\ w[1] <= start /\ asOf <= w[2]
            /\ w[1] \in Nat /\ w[2] \in Nat
        BY WindowsAreNumbers DEF Covering, Complete
      <4>2. e \in Alerts /\ e[2] \in Nat
        BY <4>1, SourceAssumption DEF SourceInv, Alerts, Clock
      <4>3. e \in InWindow(looked[w], w[1], w[2])
        BY <3>2, <3>3, <4>1, <4>2 DEF InWindow
      <4> QED BY <4>1, <4>2, <4>3 DEF SourceInv, RecordsHold
    <3>4. InWindow(UNION {looked[w] : w \in Covering(start, asOf)}, start, asOf) \in SUBSET Alerts
      BY <3>3 DEF InWindow
    <3>5. InWindow(UNION {looked[w] : w \in Covering(start, asOf)}, start, asOf)
            \subseteq InWindow(rows, start, asOf) \cup dropped
      BY <3>3 DEF InWindow, Learned
    <3>6. InWindow(rows, start, asOf) \in SUBSET Alerts
      BY DEF InWindow, SourceInv
    <3>7. GuessOK'
      <4>1. /\ guess'.status = "none" /\ guess'.rows = InWindow(rows, start, asOf)
            /\ guess'.looked
                 = InWindow(UNION {looked[w] : w \in Covering(start, asOf)}, start, asOf)
        BY <3>1
      <4> QED BY <1>1, <3>5, <4>1 DEF GuessOK
    <3>8. guess' \in GuessRecord
      <4> HIDE DEF InWindow, Covering
      <4> QED BY <3>1, <3>2, <3>4, <3>6 DEF GuessRecord
    <3> QED BY <3>7, <3>8
  <2> QED BY <2>1, <2>2
<1> QED BY <1>1, <1>2 DEF SourceInv, JobOK, RecordsHold, Complete, Learned

LEMMA GateStep ==
  ASSUME SourceInv, Gate \/ Forget
  PROVE  SourceInv'
<1>1. UNCHANGED <<now, feed, rows, ingests, job, looked, dropped>>
  BY DEF Gate, Forget
<1>2. GuessOK' /\ guess' \in GuessRecord
  <2>1. CASE Forget
    BY <2>1 DEF Forget, NoGuess, GuessOK, GuessRecord
  <2>2. CASE Gate
    <3>1. PICK status \in {"ok", "degraded", "corpus_unverified"} :
            guess' = [guess EXCEPT !.pc = "done", !.status = status]
      BY <2>2 DEF Gate
    <3> QED BY <1>1, <3>1 DEF SourceInv, GuessOK, GuessRecord
  <2> QED BY <2>1, <2>2
<1> QED BY <1>1, <1>2 DEF SourceInv, JobOK, RecordsHold, Complete, Learned

LEMMA SourceInvariant == SourceSpec => []SourceInv
<1>1. SourceInv /\ UNCHANGED sourceVars => SourceInv'
  BY DEF SourceInv, sourceVars, JobOK, GuessOK, RecordsHold, Complete, Learned
<1>2. SourceInv /\ [SourceNext]_sourceVars => SourceInv'
  BY <1>1, ObserveStep, FetchStep, SaveRowsStep, SaveIngestStep, PurgeStep,
     LoadRowsStep, GateStep DEF SourceNext
<1> QED BY <1>2, SourceStart, PTL DEF SourceSpec

(* VerifiedHasAll: a prediction that calls its history verified has all of *)
(* it that the index showed to the ingests that vouched for it and that    *)
(* was not trimmed or purged, for any sources, windows (past or future),   *)
(* lag, cap and retention.                                                 *)
THEOREM VerifiedIsWhole == SourceSpec => []VerifiedHasAll
<1>1. SourceInv => VerifiedHasAll
  BY DEF SourceInv, GuessOK, VerifiedHasAll
<1> QED BY <1>1, SourceInvariant, PTL

(* LedgerKept: the store implements the ledger, whatever fails between its *)
(* transactions: each of its steps is one of the ledger or none.           *)
LookNow == IF job.complete THEN {<<job.window, job.rows>>} ELSE {}
VouchedNow == {<<w, InWindow(looked[w], w[1], w[2])>> : w \in Complete}

LEMMA VouchStep ==
  ASSUME SourceInv, SaveIngest
  PROVE  [Ledger!LedgerNext]_(Ledger!ledgerVars)
<1>1. UNCHANGED <<feed, rows, dropped>> /\ LookNow' = {}
  BY DEF SaveIngest, NoJob, LookNow
<1>2. \A w \in Windows \ {job.window} : looked'[w] = looked[w]
  BY SavedIngest DEF SourceInv
<1>3. CASE job.complete
  <2>1. LookNow = {<<job.window, job.rows>>} /\ job.rows \subseteq rows \cup dropped
    BY <1>3, SavedIngest DEF LookNow, Learned
  <2>2. InWindow(looked'[job.window], job.window[1], job.window[2]) = job.rows
    BY <1>3, SavedIngest DEF SourceInv, JobOK
  <2>3. Complete' = Complete \cup {job.window} /\ Complete \subseteq Windows
    BY <1>3, SavedIngest DEF Complete
  <2>4. VouchedNow' = {v \in VouchedNow : v[1] # job.window} \cup {<<job.window, job.rows>>}
    <3>1. ASSUME NEW v \in VouchedNow' PROVE v \in {x \in VouchedNow : x[1] # job.window} \cup {<<job.window, job.rows>>}
      <4>1. PICK w \in Complete' : v = <<w, InWindow(looked'[w], w[1], w[2])>>
        BY <3>1 DEF VouchedNow
      <4> QED BY <1>2, <2>2, <2>3, <4>1 DEF VouchedNow
    <3>2. ASSUME NEW v \in VouchedNow, v[1] # job.window PROVE v \in VouchedNow'
      <4>1. PICK w \in Complete : v = <<w, InWindow(looked[w], w[1], w[2])>>
        BY <3>2 DEF VouchedNow
      <4> QED BY <1>2, <2>3, <3>2, <4>1 DEF VouchedNow
    <3>3. <<job.window, job.rows>> \in VouchedNow'
      BY <2>2, <2>3 DEF VouchedNow
    <3> QED BY <3>1, <3>2, <3>3
  <2>5. <<job.window, job.rows>>[1] = job.window /\ <<job.window, job.rows>>[2] = job.rows
    OBVIOUS
  <2>6. Ledger!Vouch
    <3>1. /\ LookNow = IF job.complete THEN {<<job.window, job.rows>>} ELSE {}
          /\ VouchedNow = {<<w, InWindow(looked[w], w[1], w[2])>> : w \in Complete}
      BY DEF LookNow, VouchedNow
    <3>2. \E p \in LookNow : /\ p[2] \subseteq rows \cup dropped
                             /\ VouchedNow' = {v \in VouchedNow : v[1] # p[1]} \cup {p}
      BY <2>1, <2>4, <2>5
    <3> QED BY <1>1, <3>2 DEF Ledger!Vouch, LookNow, VouchedNow
  <2> QED BY <2>6 DEF Ledger!LedgerNext
<1>4. CASE ~job.complete
  <2>1. LookNow = {} /\ Complete' = Complete \ {job.window} /\ Complete \subseteq Windows
    BY <1>4, SavedIngest DEF LookNow, Complete
  <2>2. VouchedNow' = {<<w, InWindow(looked[w], w[1], w[2])>> : w \in Complete \ {job.window}}
    BY <1>2, <2>1 DEF VouchedNow
  <2>3. CASE job.window \in Complete
    <3> DEFINE p == <<job.window, InWindow(looked[job.window], job.window[1], job.window[2])>>
    <3>1. p \in VouchedNow /\ VouchedNow' = VouchedNow \ {p}
      BY <2>2, <2>3 DEF VouchedNow
    <3>2. \E q \in VouchedNow : VouchedNow' = VouchedNow \ {q}
      BY <3>1
    <3> QED BY <1>1, <2>1, <3>2 DEF Ledger!Retract, Ledger!LedgerNext, LookNow, VouchedNow
  <2>4. CASE job.window \notin Complete
    <3>1. VouchedNow' = VouchedNow
      BY <2>2, <2>4 DEF VouchedNow
    <3> QED BY <1>1, <2>1, <3>1 DEF Ledger!ledgerVars, LookNow, VouchedNow
  <2> QED BY <2>3, <2>4
<1> QED BY <1>3, <1>4

THEOREM StoreKeepsLedger == SourceSpec => LedgerKept
<1>1. SourceInit => Ledger!LedgerInit
  BY DEF SourceInit, Ledger!LedgerInit, Complete, NoJob
<1>2. ASSUME SourceInv, [SourceNext]_sourceVars
      PROVE  [Ledger!LedgerNext]_(Ledger!ledgerVars)
  <2>1. CASE Observe
    <3>1. PICK e \in Sources \X Clock : feed' = feed \cup {e}
      BY <2>1 DEF Observe
    <3>2. UNCHANGED <<rows, dropped, job, looked, Complete>>
      BY <2>1 DEF Observe, Complete
    <3> QED BY <3>1, <3>2 DEF Ledger!Happen, Ledger!LedgerNext
  <2>2. CASE Fetch
    <3>1. UNCHANGED <<feed, rows, dropped, looked, Complete>>
      BY <2>2 DEF Fetch, Complete
    <3>2. PICK w \in Windows, complete \in BOOLEAN, S \in SUBSET feed :
            /\ complete => S = InWindow(feed, w[1], w[2])
            /\ job' = [pc |-> "save", window |-> w, rows |-> S, complete |-> complete,
                       looked |-> IF complete THEN feed ELSE {}]
      BY <2>2 DEF Fetch
    <3>3. w \in Clock \X Clock /\ Ledger!Within(feed, w[1], w[2]) = InWindow(feed, w[1], w[2])
      BY DEF Windows, Ledger!Within, InWindow
    <3>4. CASE complete
      BY <3>1, <3>2, <3>3, <3>4 DEF Ledger!Look, Ledger!LedgerNext
    <3>5. CASE ~complete
      BY <3>1, <3>2, <3>5 DEF Ledger!LookEnds, Ledger!LedgerNext
    <3> QED BY <3>4, <3>5
  <2>3. CASE SaveRows
    <3>1. job.rows \subseteq feed /\ UNCHANGED <<feed, ingests, looked>>
      BY <1>2, <2>3, SavedRows DEF SourceInv, JobOK
    <3>2. rows' \cup dropped' = (rows \cup dropped) \cup job.rows
      BY <1>2, <2>3, SavedRows DEF Learned
    <3>3. job'.complete = job.complete /\ job'.window = job.window /\ job'.rows = job.rows
      BY <1>2, <2>3, SavedRows DEF SourceInv, JobRecord
    <3>4. Complete' = Complete
      BY <3>1 DEF Complete
    <3> QED BY <3>1, <3>2, <3>3, <3>4 DEF Ledger!Learn, Ledger!LedgerNext
  <2>4. CASE SaveIngest
    BY <1>2, <2>4, VouchStep
  <2>5. CASE PurgeExpired \/ IngestDies
    <3>1. /\ rows' \cup dropped' = rows \cup dropped /\ UNCHANGED <<feed, Complete, looked>>
          /\ ~job'.complete
      BY <2>5 DEF PurgeExpired, IngestDies, Complete, NoJob
    <3> QED BY <3>1 DEF Ledger!LookEnds, Ledger!LedgerNext
  <2>6. CASE SourceTick \/ LoadRows \/ Gate \/ Forget \/ UNCHANGED sourceVars
    <3>1. UNCHANGED <<feed, rows, dropped, ingests, job, looked>>
      BY <2>6 DEF SourceTick, LoadRows, Gate, Forget, sourceVars
    <3> QED BY <3>1 DEF Ledger!ledgerVars, Complete
  <2> QED BY <1>2, <2>1, <2>2, <2>3, <2>4, <2>5, <2>6 DEF SourceNext
<1> QED BY <1>1, <1>2, SourceInvariant, PTL DEF SourceSpec, LedgerKept, Ledger!LedgerSpec
=============================================================================
