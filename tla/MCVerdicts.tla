---------------------------- MODULE MCVerdicts ----------------------------
(* A domain and an e-mail address at it. *)
EXTENDS Verdicts

MCIocs == {"domain", "mail"}
MCZone == [i \in MCIocs |-> {"domain"}]
MCMailDomain == [i \in MCIocs |-> "domain"]
MCDomains == {"domain"}
===========================================================================
