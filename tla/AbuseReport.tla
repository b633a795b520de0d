---------------------------- MODULE AbuseReport -----------------------------
(***************************************************************************)
(* Reports to AbuseIPDB: a call harvests or is given addresses, looks each *)
(* of them up, and, when it may, submits the eligible ones one by one.     *)
(* Calls run beside each other in one process and share a ledger of recent *)
(* reports and a cache of look-ups, both lost when the process restarts.   *)
(***************************************************************************)
EXTENDS Integers

CONSTANTS
  Reporters,      (* calls of blueteam_abuseipdb_report                    *)
  Reportable,     (* numbered in the order in which a call lists them      *)
  Whitelisted,    (* those that AbuseIPDB whitelists or calls not public   *)
  Window,         (* REPORT_DUPLICATE_WINDOW_SECONDS                       *)
  MaxClock        (* bound on time                                         *)

ASSUME ReportAssumption ==
  Reportable \subseteq Nat \ {0} /\ Window \in Nat /\ MaxClock \in Nat

Never == -1
NoAddr == 0

VARIABLES
  clock,
  ledger,         (* _LAST_REPORT: when an address was last reported       *)
  cached,         (* the addresses whose look-up is cached                 *)
  reports,        (* what AbuseIPDB accepted: <<call, address, time>>      *)
  pending,        (* the phase of a call                                   *)
  hand,           (* the address a call is at                              *)
  table,          (* the status of each of its addresses                   *)
  role,           (* where the alerts show an address of a call            *)
  unchecked,      (* the table whose check_status is unavailable            *)
  granted         (* whether a call may submit: dry_run, confirm           *)

reportVars ==
  <<clock, ledger, cached, reports, pending, hand, table, role, unchecked, granted>>

ReportPhases == {"idle", "evaluate", "checking", "read", "submit", "posting", "answered", "ended"}
Statuses == {"out", "harvested", "eligible", "manual_review", "skipped", "duplicate_local",
             "would_report", "reported", "failed", "stopped"}
Roles == {"source", "both"}

ReportTypeOK ==
  /\ clock \in 0..MaxClock
  /\ ledger \in [Reportable -> {Never} \cup 0..MaxClock]
  /\ cached \subseteq Reportable
  /\ reports \subseteq Reporters \X Reportable \X (0..MaxClock)
  /\ pending \in [Reporters -> ReportPhases]
  /\ hand \in [Reporters -> Reportable \cup {NoAddr}]
  /\ table \in [Reporters -> [Reportable -> Statuses]]
  /\ role \in [Reporters -> [Reportable -> Roles]]
  /\ unchecked \subseteq Reporters \X Reportable
  /\ granted \in [Reporters -> BOOLEAN]

ReportInit ==
  /\ clock = 0 /\ reports = {}
  /\ ledger = [a \in Reportable |-> Never] /\ cached = {}
  /\ pending = [c \in Reporters |-> "idle"]
  /\ hand = [c \in Reporters |-> NoAddr]
  /\ table = [c \in Reporters |-> [a \in Reportable |-> "out"]]
  /\ role = [c \in Reporters |-> [a \in Reportable |-> "source"]] /\ unchecked = {}
  /\ granted \in [Reporters -> BOOLEAN]

ReportedLately(a) == ledger[a] # Never /\ clock - ledger[a] < Window
In(c, status) == {a \in Reportable : table[c][a] = status}
First(c, status) == {a \in In(c, status) : \A b \in In(c, status) : a <= b}
Hold(c, a) == hand' = [hand EXCEPT ![c] = a]
Drop(c) == Hold(c, NoAddr)
Settle(c, status) == table' = [table EXCEPT ![c][hand[c]] = status]
Turn(c, from, to) == pending[c] = from /\ pending' = [pending EXCEPT ![c] = to]
-----------------------------------------------------------------------------
(* Source addresses of enough alerts, less the excluded; one that is also  *)
(* a destination is ambiguous.  Without the alerts, or without the search  *)
(* for destinations, the call is refused.  Addresses that are given are    *)
(* candidates as they are.                                                 *)
Harvest(c) ==
  /\ Turn(c, "idle", "evaluate")
  /\ \E found \in [Reportable -> {"out", "harvested"}] : table' = [table EXCEPT ![c] = found]
  /\ \E roles \in [Reportable -> Roles] :
       /\ \A a \in Reportable : table'[c][a] = "out" => roles[a] = "source"
       /\ role' = [role EXCEPT ![c] = roles]
  /\ UNCHANGED <<clock, ledger, cached, reports, hand, unchecked, granted>>

HarvestFails(c) ==
  /\ Turn(c, "idle", "ended")
  /\ UNCHANGED <<clock, ledger, cached, reports, hand, table, role, unchecked, granted>>

(* check_ip: from the cache, or from AbuseIPDB.                            *)
LookUp(c) ==
  /\ \E a \in First(c, "harvested") :
       /\ Turn(c, "evaluate", IF a \in cached THEN "read" ELSE "checking")
       /\ Hold(c, a)
  /\ UNCHANGED <<clock, ledger, cached, reports, table, role, unchecked, granted>>

(* As _candidate_status would be without its first check.                  *)
StatusBeforeRole(c, a, checked) ==
  IF checked /\ a \in Whitelisted THEN "skipped"
  ELSE IF ReportedLately(a) THEN "duplicate_local" ELSE "eligible"

(* _candidate_status; checked is whether the look-up had an answer.        *)
StatusOf(c, a, checked) ==
  IF role[c][a] = "both" THEN "manual_review"
  ELSE IF checked /\ a \in Whitelisted THEN "skipped"
  ELSE IF ReportedLately(a) THEN "duplicate_local" ELSE "eligible"

(* The row of the address in hand; without an attack type it is left to a  *)
(* person.                                                                 *)
Judge(c, checked) ==
  /\ \E status \in {StatusOf(c, hand[c], checked), "manual_review"} : Settle(c, status)
  /\ unchecked' = IF checked THEN unchecked ELSE unchecked \cup {<<c, hand[c]>>}
  /\ Drop(c)

CheckReturns(c) ==
  /\ \/ Turn(c, "checking", "evaluate") /\ cached' = cached \cup {hand[c]}
     \/ Turn(c, "read", "evaluate") /\ UNCHANGED cached
  /\ Judge(c, TRUE)
  /\ UNCHANGED <<clock, ledger, reports, role, granted>>

(* An error of the look-up leaves the address unchecked; without a key     *)
(* there is no call.                                                       *)
CheckFails(c) ==
  /\ \/ Turn(c, "checking", "evaluate") /\ Judge(c, FALSE)
     \/ Turn(c, "checking", "ended") /\ Drop(c) /\ UNCHANGED <<table, unchecked>>
  /\ UNCHANGED <<clock, ledger, cached, reports, role, granted>>
-----------------------------------------------------------------------------
(* A preview, or a call that reporting is not enabled for, ends here.      *)
Evaluated(c) == In(c, "harvested") = {}

Preview(c) ==
  /\ Evaluated(c) /\ ~granted[c] /\ Turn(c, "evaluate", "ended")
  /\ table' = [table EXCEPT ![c] =
       [a \in Reportable |-> IF table[c][a] = "eligible" THEN "would_report" ELSE table[c][a]]]
  /\ UNCHANGED <<clock, ledger, cached, reports, hand, role, unchecked, granted>>

GoOn(c) ==
  /\ Evaluated(c) /\ granted[c]
  /\ \/ Turn(c, "evaluate", "submit")
     \/ Turn(c, "evaluate", "ended")
  /\ UNCHANGED <<clock, ledger, cached, reports, hand, table, role, unchecked, granted>>

(* report_ip looks at the ledger, lets go of it, and posts.                *)
Submit(c) ==
  \E a \in First(c, "eligible") :
    /\ IF ReportedLately(a)
       THEN /\ Turn(c, "submit", "submit") /\ UNCHANGED hand
            /\ table' = [table EXCEPT ![c][a] = "duplicate_local"]
       ELSE Turn(c, "submit", "posting") /\ Hold(c, a) /\ UNCHANGED table
    /\ UNCHANGED <<clock, ledger, cached, reports, role, unchecked, granted>>

(* AbuseIPDB accepts one report of an address in the window.               *)
Accepts(a) == \A r \in reports : r[2] = a => clock - r[3] >= Window
Accepted(c) ==
  /\ pending[c] = "posting" /\ Accepts(hand[c])
  /\ reports' = reports \cup {<<c, hand[c], clock>>}
  /\ pending' = [pending EXCEPT ![c] = "answered"]
  /\ UNCHANGED <<clock, ledger, cached, hand, table, role, unchecked, granted>>

(* An accepted report is entered in the ledger, and the look-ups of its    *)
(* address leave the cache.                                                *)
Reported(c) ==
  /\ Turn(c, "answered", "submit")
  /\ Settle(c, "reported") /\ Drop(c)
  /\ ledger' = [ledger EXCEPT ![hand[c]] = clock]
  /\ cached' = cached \ {hand[c]}
  /\ UNCHANGED <<clock, reports, role, unchecked, granted>>

(* The refusal of a repeated report is entered in the ledger too.          *)
Repeated(c) ==
  /\ ~Accepts(hand[c]) /\ Turn(c, "posting", "submit")
  /\ Settle(c, "failed") /\ Drop(c)
  /\ ledger' = [ledger EXCEPT ![hand[c]] = clock]
  /\ UNCHANGED <<clock, cached, reports, role, unchecked, granted>>

(* Any other failure, among them an answer that was lost.  A missing key,  *)
(* an open circuit and a spent quota stop what was still eligible.         *)
PostFails(c) ==
  /\ \E from \in {"posting", "answered"} : Turn(c, from, "submit")
  /\ \/ Settle(c, "failed")
     \/ /\ pending[c] = "posting"
        /\ table' = [table EXCEPT ![c] =
             [a \in Reportable |-> IF a = hand[c] THEN "failed"
                                  ELSE IF table[c][a] = "eligible" THEN "stopped" ELSE table[c][a]]]
  /\ Drop(c)
  /\ UNCHANGED <<clock, ledger, cached, reports, role, unchecked, granted>>

Summarise(c) ==
  /\ In(c, "eligible") = {} /\ Turn(c, "submit", "ended")
  /\ UNCHANGED <<clock, ledger, cached, reports, hand, table, role, unchecked, granted>>
-----------------------------------------------------------------------------
Passes ==
  /\ clock < MaxClock /\ clock' = clock + 1
  /\ cached' \in {cached, {}}               (* look-ups expire            *)
  /\ UNCHANGED <<ledger, reports, pending, hand, table, role, unchecked, granted>>

(* The process ends: its calls with it, its ledger and its cache.          *)
ReporterRestarts ==
  /\ \E c \in Reporters : pending[c] \notin {"idle", "ended"}
  /\ ledger' = [a \in Reportable |-> Never] /\ cached' = {}
  /\ pending' = [c \in Reporters |-> IF pending[c] = "idle" THEN "idle" ELSE "ended"]
  /\ hand' = [c \in Reporters |-> NoAddr]
  /\ UNCHANGED <<clock, reports, table, role, unchecked, granted>>

CallStep(c) ==
  \/ Harvest(c) \/ HarvestFails(c) \/ LookUp(c) \/ CheckReturns(c)
  \/ CheckFails(c) \/ Preview(c) \/ GoOn(c) \/ Submit(c) \/ Accepted(c)
  \/ Reported(c) \/ Repeated(c) \/ PostFails(c) \/ Summarise(c)

ReportNext == Passes \/ ReporterRestarts \/ \E c \in Reporters : CallStep(c)
ReportSpec == ReportInit /\ [][ReportNext]_reportVars
-----------------------------------------------------------------------------
(* Every report that AbuseIPDB has was sent by a call with the grant, for  *)
(* an address its alerts show only as a source, and for a whitelisted one  *)
(* only when it could not be looked up.  A call tells of what it reported: *)
(* what it calls reported was accepted, and what was accepted it calls     *)
(* reported or, when the answer was lost, failed.                          *)
ReportsAccountedFor ==
  /\ \A c \in Reporters, a \in Reportable :
       table[c][a] = "reported" => \E r \in reports : r[1] = c /\ r[2] = a
  /\ \A r \in reports :
       LET c == r[1]
           a == r[2]
       IN  /\ granted[c] /\ role[c][a] = "source"
           /\ a \in Whitelisted => <<c, a>> \in unchecked
           /\ \/ table[c][a] \in {"reported", "failed"}
              \/ table[c][a] = "eligible" /\ pending[c] \in {"answered", "ended"}
=============================================================================
