---------------------------- MODULE AlertReports ----------------------------
(***************************************************************************)
(* The tools that read alerts from the indexer, and the look-ups of the    *)
(* addresses in them: what each makes of the hits it is given.  A query    *)
(* that may be answered through either of the two fields a source address  *)
(* is mapped to has an Alt source: its results are merged, and an error    *)
(* counts only when nothing was merged.                                    *)
(***************************************************************************)
EXTENDS Evidence

Page == 2           (* what one request returns at most                    *)

Sum2(q, s, t) == HitsOf(q, s) + HitsOf(q, t)

(* One request, and its hits or aggregations as they are.                  *)
Simple(q) == Single(q, "alerts")
-----------------------------------------------------------------------------
(* Two windows of the same length; growth or decline by more than a        *)
(* quarter is a trend.  The totals are histogram counts, the exact counts  *)
(* only replace those of the addresses.                                    *)
Trend(now, before) ==
  CASE before = 0 /\ now = 0 -> "inactive"
    [] before = 0 /\ now > 0 -> "new_activity"
    [] before > 0 /\ 4 * now > 5 * before -> "accelerating"
    [] before > 0 /\ 4 * now < 3 * before -> "decelerating"
    [] OTHER -> "steady"

NowWindow == {"current", "currentAlt"}
WindowBefore == {"previous", "previousAlt"}

(* As Unread would be if only the present window had to answer.            *)
UnreadNow(q) == AllLost(q, NowWindow)
Unread(q) == AllLost(q, NowWindow) \/ AllLost(q, WindowBefore)

wazuh_attack_velocity(q) ==
  Configured(q,
    IF Has(q, "badWindow") \/ Unread(q) THEN Refusal
    ELSE Told({NowWindow, WindowBefore}, {},
              Trend(Sum2(q, "current", "currentAlt"), Sum2(q, "previous", "previousAlt"))))

wazuh_alert_timeline(q) ==
  FromQuery(q, "alerts",
    Told({{"alerts"}}, {}, IF q.out["alerts"] = 0 THEN "No Data" ELSE "none"))

(* Pages until a short one.  A page that fails after the first ends the    *)
(* scan without a word.                                                    *)
LaterPages(q) == q.out["page"] >= Page
wazuh_email_lookup(q) ==
  FromQuery(q, "page", Told(IF LaterPages(q) THEN Each({"page", "next"}) ELSE {{"page"}}, {}, "none"))

(* The addresses of named mailboxes, or of those the look-up above finds;  *)
(* both batches of mailboxes are searched, and a batch ends at an error.   *)
(* The reputation of an address is asked last.                             *)
Discovers(q) == ~Has(q, "emails")
wazuh_compromised_emails_analysis(q) ==
  IF Discovers(q) /\ (IsLost(q, "lookup") \/ q.out["lookup"] = 0) THEN Refusal
  ELSE LET addresses == Sum2(q, "batch", "batch2") > 0
           enriched == IF Has(q, "netra") /\ addresses THEN {"netra"} ELSE {}
       IN  Told(Each({"batch", "batch2"} \cup enriched), LostOf(q, enriched), "none")

(* Every page up to max_scanned, or nothing at all; short of the cap, or   *)
(* with a short last page, the scan is exhausted.                          *)
_wazuh_domain_lookup_full_scan(q) ==
  LET asked == IF q.out["page"] >= Page THEN {"page", "next"} ELSE {"page"}
      exhausted == \E s \in asked : q.out[s] < Page
  IN  IF \E s \in asked : IsLost(q, s) THEN Refusal
      ELSE Claiming(Told(Each(asked), {}, "none"), IF exhausted THEN "complete" ELSE "partial")

blueteam_whois_lookup(q) == FromQuery(q, "rdap", Told({{"rdap"}}, {}, "none"))

(* What is no list of certificates reads as none.                          *)
blueteam_crtsh_lookup(q) ==
  FromQuery(q, "crtsh", Told({{"crtsh"}}, {}, IF Has(q, "notAList") THEN "empty" ELSE "none"))
-----------------------------------------------------------------------------
(* A digest of the first page, which tells how many alerts it leaves out.  *)
blueteam_wazuh_alert_summarize(q) ==
  Configured(q, FromQuery(q, "alerts",
    Claiming(Told({{"alerts"}}, {}, "none"),
             IF q.out["alerts"] > Page THEN "partial" ELSE "complete")))

(* Two profiles side by side.  A profile that failed has a total of 0; the *)
(* JSON shows its error beside the verdict, the table does not.            *)
Ahead(q, a, b, margin) == HitsOf(q, a) > margin * HitsOf(q, b)
blueteam_wazuh_alert_compare(q) ==
  LET both == {"a", "b"}
      json == Has(q, "json")
      margin == IF json THEN 2 ELSE 1
  IN  Configured(q, Told(Each(both), IF json THEN LostOf(q, both) ELSE {},
        IF Ahead(q, "a", "b", margin) THEN "a more"
        ELSE IF Ahead(q, "b", "a", margin) THEN "b more" ELSE "comparable"))

(* The parts of the curated report: the totals and the entities, which for *)
(* addresses come from requests of their own; the count of the excluded    *)
(* wrappers, which a note owns up to; the window before; what providers    *)
(* say; and the advice, after the rule sequences of the worst addresses.   *)
CuratedTotals(q) ==
  FromQuery(q, "alerts",
    Told({{"alerts"}} \cup {{"wrappers"} : o \in {"dedup"} \cap q.opts}
           \cup {{"entities", "entitiesAlt"} : o \in {"srcip"} \cap q.opts},
         IF Has(q, "dedup") THEN LostOf(q, {"wrappers"}) ELSE {}, "none"))

CuratedEntities(q) ==
  IF Has(q, "srcip") THEN Sum2(q, "entities", "entitiesAlt") ELSE HitsOf(q, "alerts")

CuratedComparison(q) == IF Has(q, "compare") THEN {{"before"}} ELSE {}

Looked(q) == Has(q, "intel") /\ Has(q, "srcip") /\ CuratedEntities(q) > 0
CuratedIntel(q) == IF Looked(q) THEN {"intel"} ELSE {}

(* A reputation above Page is the malicious one; a worst level of ten, or  *)
(* that reputation, has the rules of an address looked up.                 *)
CuratedAdvice(q) == IF Looked(q) /\ HitsOf(q, "intel") > Page THEN "block" ELSE "review"
CuratedChains(q) ==
  IF /\ Has(q, "deep") /\ Has(q, "srcip") /\ CuratedEntities(q) > 0
     /\ Has(q, "critical") \/ CuratedAdvice(q) = "block"
  THEN {{"chain"}} ELSE {}

(* JSON returns before the advice, and is the format that shows the error  *)
(* of a provider.                                                          *)
blueteam_curated_threat_report(q) ==
  LET totals == CuratedTotals(q)
      json == Has(q, "json")
  IN  Configured(q,
        IF totals.status = "error" THEN Refusal
        ELSE Told(totals.views \cup CuratedComparison(q) \cup Each(CuratedIntel(q))
                    \cup (IF json THEN {} ELSE CuratedChains(q)),
                  totals.names \cup (IF json THEN LostOf(q, CuratedIntel(q)) ELSE {}),
                  IF json THEN "none" ELSE CuratedAdvice(q)))
-----------------------------------------------------------------------------
blueteam_wazuh_geo_distribution(q) == Configured(q, Simple(q))

(* The ranking is called truncated when the buckets fill their limit.      *)
blueteam_wazuh_geo_concentration(q) ==
  Configured(q, FromQuery(q, "alerts",
    Claiming(Told({{"alerts"}}, {}, "none"),
             IF q.out["alerts"] >= Page THEN "partial" ELSE "complete")))

blueteam_ai_bot_recon(q) ==
  LET sources == {"alerts", "alertsAlt"}
  IN  Configured(q, IF AllLost(q, sources) THEN Refusal ELSE Told({sources}, {}, "none"))

(* A field is called safe to aggregate only when it is in every index.     *)
blueteam_index_schema(q) ==
  FromQuery(q, "mapping",
    Told({{"mapping"}}, {},
         IF q.out["mapping"] = 0 THEN "missing"
         ELSE IF Has(q, "textSomewhere") THEN "unsafe" ELSE "safe"))

(* A refused query is the answer, in each of the three formats.            *)
wazuh_alert_dsl_query(q) ==
  IF Has(q, "script") \/ Has(q, "size") THEN Refusal ELSE Simple(q)

blueteam_wazuh_forensic_window(q) ==
  Configured(q, FromQuery(q, "alerts",
    IF q.out["alerts"] = 0 \/ Has(q, "absent") THEN Refusal
    ELSE Claiming(Told({{"alerts"}}, {}, "none"),
                  IF q.out["alerts"] > Page THEN "partial" ELSE "complete")))

blueteam_wazuh_vulnerabilities(q) == Configured(q, Simple(q))

(* A field that the index cannot aggregate, or whose capabilities could    *)
(* not be read, is refused before the search.                              *)
blueteam_wazuh_syscheck(q) ==
  Configured(q, IF Has(q, "byField") /\ HitsOf(q, "caps") = 0 THEN Refusal ELSE Simple(q))

blueteam_wazuh_compliance(q) ==
  Configured(q, IF Has(q, "unknownFramework") THEN Refusal ELSE Simple(q))

blueteam_wazuh_geo_heatmap(q) == Configured(q, Simple(q))
-----------------------------------------------------------------------------
(* Netra tells of its own sources how many answered.                       *)
netra_ip_analysis(q) ==
  Configured(q, FromQuery(q, "netra",
    Claiming(Told({{"netra"}}, {}, IF q.out["netra"] = 0 THEN "unavailable" ELSE "scored"),
             IF q.out["netra"] = Most THEN "complete" ELSE "partial")))

argus_ip_lookup(q) ==
  Configured(q, FromQuery(q, "argus",
    IF q.out["argus"] = 0 THEN Refusal ELSE Told({{"argus"}}, {}, "none")))

(* Only a boolean is a verdict of the blocklist.                           *)
sangfor_blocklist_check(q) ==
  Configured(q, FromQuery(q, "sangfor",
    Told({{"sangfor"}}, {},
         IF Has(q, "notABoolean") THEN "unknown"
         ELSE IF q.out["sangfor"] > 0 THEN "blocked" ELSE "not_blocked")))

(* Weights out of 20 of the three reputations, over those that answered    *)
(* with anything; a ThreatFox look-up without entries is none.  Every      *)
(* source has a row, and only that of AbuseIPDB tells a failure: the other *)
(* two read "not configured" when they failed, and ThreatFox also when it  *)
(* has no entry.                                                           *)
Weights == [crowdsec |-> 7, threatfox |-> 7, abuseipdb |-> 6]
Heard(q) ==
  {s \in DOMAIN Weights : ~IsLost(q, s) /\ (s = "threatfox" => q.out[s] > 0)}
Weighed(q, S) ==
  [score |-> (IF "crowdsec" \in S THEN 7 * q.out["crowdsec"] ELSE 0)
             + (IF "threatfox" \in S THEN 7 * q.out["threatfox"] ELSE 0)
             + (IF "abuseipdb" \in S THEN 6 * q.out["abuseipdb"] ELSE 0),
   weight |-> (IF "crowdsec" \in S THEN 7 ELSE 0) + (IF "threatfox" \in S THEN 7 ELSE 0)
              + (IF "abuseipdb" \in S THEN 6 ELSE 0)]

blueteam_unified_threat_score(q) ==
  LET sum == Weighed(q, Heard(q))
      reaches(tenths) == 10 * sum.score >= tenths * Most * sum.weight
  IN  Told(Each(DOMAIN Weights), LostOf(q, {"abuseipdb"}),
        IF Heard(q) = {} THEN "UNKNOWN"
        ELSE IF reaches(8) THEN "CRITICAL" ELSE IF reaches(5) THEN "HIGH"
        ELSE IF reaches(2) THEN "MEDIUM" ELSE "LOW")
=============================================================================
