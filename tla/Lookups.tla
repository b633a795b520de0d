------------------------------ MODULE Lookups -------------------------------
(***************************************************************************)
(* The tools that ask other services about an indicator or a               *)
(* vulnerability: the threat-intelligence providers, the vulnerability     *)
(* databases, and the verdicts drawn from them.  A provider that answers   *)
(* what the code rejects as malformed counts as one that failed.           *)
(***************************************************************************)
EXTENDS Evidence

Items == {"first", "second"}

threatfox_ioc_search(q) == Configured(q, Single(q, "threatfox"))
threatfox_ioc_search_bulk(q) == Configured(q, Uncaught(q, Items, ItemByItem(q, Items)))

otx_lookup(q) == Configured(q, Single(q, "otx"))
otx_lookup_bulk(q) == Configured(q, Uncaught(q, Items, ItemByItem(q, Items)))

urlhaus_lookup(q) == Single(q, "urlhaus")
urlhaus_hash_lookup(q) == Single(q, "urlhaus")
urlhaus_lookup_bulk(q) == Uncaught(q, Items, ItemByItem(q, Items))

(* An address that GreyNoise does not know is an answer.                   *)
greynoise_ip_context(q) == Single(q, "greynoise")

crowdsec_ip_reputation(q) == Configured(q, Single(q, "crowdsec"))
crowdsec_ip_reputation_bulk(q) == ItemByItem(q, Items)

(* The version of the MISP server is probed once per process; an answer    *)
(* shows it, or why the probe was skipped.                                 *)
blueteam_misp_ioc_lookup(q) ==
  Configured(q, FromQuery(q, "misp",
    IF Has(q, "probed") THEN Told({{"misp"}}, {}, "none")
    ELSE Told({{"misp"}, {"version"}}, LostOf(q, {"version"}), "none")))

(* A mailbox unknown to the log store was not found there.                 *)
stealer_log_check(q) ==
  FromQuery(q, "logs", Told({{"logs"}}, {}, IF q.out["logs"] > 0 THEN "found" ELSE "absent"))

(* The fingerprint is a hash of the handshakes that succeeded.             *)
Probes == {"tls12", "tls13", "tlsMin"}
jarm_fingerprint(q) ==
  IF Has(q, "private") \/ AllLost(q, Probes) THEN Told({}, {}, "none")
  ELSE Told({Probes}, {}, "fingerprint")

Vendors == {"microsoft", "redhat", "ubuntu"}
blueteam_cve_advisory(q) == Uncaught(q, Vendors, ItemByItem(q, Vendors))

(* RapidAPI: a request per address, in order; a failure of the process,    *)
(* such as a spent quota, ends the series, and the rest is told skipped.   *)
blueteam_ioc_search(q) == Single(q, "first")
blueteam_ioc_search_bulk(q) ==
  IF IsLost(q, "first") /\ Has(q, "processWide")
  THEN Told({{"first"}}, {"first"}, "skipped")
  ELSE ItemByItem(q, Items)
blueteam_breach_check(q) == Single(q, "breach")
blueteam_ip_intel_bulk(q) == Single(q, "intel")

blueteam_abuseipdb_check(q) == Configured(q, Single(q, "abuseipdb"))
-----------------------------------------------------------------------------
(* The providers of the aggregate: which of them are asked about an        *)
(* indicator of this type, and the risk each sees in it.                   *)
Type(q) == IF Has(q, "file") THEN "file" ELSE IF Has(q, "url") THEN "url" ELSE "IPv4"
Keyed(q) == ~Has(q, "unkeyed")
Band(n, none, some, many) == IF n = 0 THEN none ELSE IF n < Most THEN some ELSE many

(* A provider without a record gives no risk level at all, which reads as  *)
(* unknown and not as clean: that is so of ThreatFox and of GreyNoise.     *)
RiskNames == <<"unknown", "none", "low", "medium", "high">>
Unrated == 0
Clean == 1
Low == 2
Medium == 3
High == 4

Provider(q, s, asked, risk) ==
  [name |-> s, asked |-> asked, ok |-> asked /\ ~IsLost(q, s), risk |-> risk]

_crowdsec_provider(q) ==
  Provider(q, "crowdsec", Keyed(q) /\ Type(q) = "IPv4",
           Band(HitsOf(q, "crowdsec"), Clean, Low, High))
_threatfox_provider(q) ==
  Provider(q, "threatfox", Keyed(q), Band(HitsOf(q, "threatfox"), Unrated, Low, High))

(* The samples of a file come from a second request, and count for nothing *)
(* when it fails.                                                          *)
_otx_provider(q) ==
  LET samples == Type(q) = "file" /\ HitsOf(q, "otxMalware") > 0
  IN  Provider(q, "otx", Keyed(q),
               IF samples THEN High ELSE Band(HitsOf(q, "otx"), Clean, Medium, High))
_greynoise_provider(q) ==
  Provider(q, "greynoise", Type(q) = "IPv4",
           Band(HitsOf(q, "greynoise"), Unrated, IF Has(q, "benign") THEN Clean ELSE Low, High))
_abuseipdb_provider(q) ==
  Provider(q, "abuseipdb", Type(q) = "IPv4", Band(HitsOf(q, "abuseipdb"), Clean, Low, High))
_virustotal_provider(q) ==
  Provider(q, "virustotal", Keyed(q) /\ Type(q) # "url",
           Band(HitsOf(q, "virustotal"), Clean, Low, High))

(* The risk of the first provider in their order, of those that answered,  *)
(* that none of them exceeds; no level counts as much as "none" does.  The *)
(* rest have their error in the table, and the coverage counts them.       *)
RiskOrder(risk) == IF risk = Unrated THEN 0 ELSE risk - 1
Precedes(providers, i, j) ==
  \/ RiskOrder(providers[i].risk) > RiskOrder(providers[j].risk)
  \/ RiskOrder(providers[i].risk) = RiskOrder(providers[j].risk) /\ i <= j
_aggregate(providers) ==
  LET asked == {i \in DOMAIN providers : providers[i].asked}
      ok == {i \in DOMAIN providers : providers[i].ok}
      highest == CHOOSE i \in ok : \A j \in ok : Precedes(providers, i, j)
  IN  Told(Each({providers[i].name : i \in asked}), {providers[i].name : i \in asked \ ok},
           IF ok = {} THEN "unknown" ELSE RiskNames[providers[highest].risk + 1])

blueteam_threat_intel_aggregate(q) ==
  _aggregate(<<_crowdsec_provider(q), _threatfox_provider(q), _otx_provider(q),
               _greynoise_provider(q), _abuseipdb_provider(q), _virustotal_provider(q)>>)
-----------------------------------------------------------------------------
(* One vulnerability.  NVD and EPSS must answer; the KEV catalogue has a   *)
(* mirror, and reads as empty when neither answers; the two GitHub         *)
(* searches and the one for Nuclei templates read as empty one by one.     *)
_fetch_kev_catalog(q) == IF IsLost(q, "kev") THEN "kevMirror" ELSE "kev"
_lookup_kev(q) == HitsOf(q, _fetch_kev_catalog(q)) > 0

blueteam_cve_lookup(q) == Single(q, "nvd")
blueteam_cve_epss(q) == Single(q, "epss")
blueteam_cve_kev(q) ==
  Uncaught(q, {"kev"},
    Told({{"kev", "kevMirror"}}, {}, IF _lookup_kev(q) THEN "in_kev" ELSE "not_in_kev"))

PocNames == <<"NONE", "LOW_QUALITY", "HIGH_QUALITY", "EXPLOIT">>
PocSources == {"github", "githubExploit", "nuclei"}
Repository(q) ==
  IF HitsOf(q, "github") > HitsOf(q, "githubExploit")
  THEN HitsOf(q, "github") ELSE HitsOf(q, "githubExploit")

(* A repository counts by its score: Most is 5 or more, Fair is 3 or 4.    *)
Fair == 2
(* As search_poc would be if a template came before a repository.          *)
TemplateFirst(q) ==
  IF HitsOf(q, "nuclei") > 0 THEN 3 ELSE IF Repository(q) = Most THEN 4
  ELSE IF Repository(q) >= Fair THEN 3 ELSE IF Repository(q) > 0 THEN 2 ELSE 1
search_poc(q) ==
  IF Repository(q) = Most THEN 4
  ELSE IF HitsOf(q, "nuclei") > 0 \/ Repository(q) >= Fair THEN 3
  ELSE IF Repository(q) > 0 THEN 2 ELSE 1
blueteam_cve_poc(q) ==
  Uncaught(q, PocSources, Told({PocSources}, {}, PocNames[search_poc(q)]))

(* The scale of what NVD and EPSS say: a CVSS score in tenths, where NVD   *)
(* has a record, and a probability of exploitation in hundredths.          *)
Cvss(q) == Band(q.out["nvd"], 0, 75, 95)
Epss(q) == Band(q.out["epss"], 0, 20, 95)
HasPoc(q) == search_poc(q) > 1

(* In hundredths of a point: 20 for the CVSS score, 35 for EPSS, 30 for a  *)
(* KEV listing, 10 for an exploit; and the factors on top.  The urgency is *)
(* a scale of its own.                                                     *)
Labels == <<"LOW", "MEDIUM", "HIGH", "CRITICAL">>
Times(base, applies, percent) == IF applies THEN (base * percent) \div 100 ELSE base
score_cve(q) ==
  LET kev == _lookup_kev(q)
      base == Cvss(q) * 20 + Epss(q) * 35 + (IF kev THEN 3000 ELSE 0)
              + 100 * <<0, 3, 7, 10>>[search_poc(q)]
      risk == Times(Times(Times(base, kev /\ HasPoc(q), 115),
                          Cvss(q) >= 90 /\ Epss(q) > 70, 110), Has(q, "recent"), 105)
      label == IF kev THEN 4 ELSE IF risk <= 2500 THEN 1 ELSE IF risk <= 5000 THEN 2
               ELSE IF risk <= 7500 THEN 3 ELSE 4
      urgency == IF kev /\ Epss(q) > 50 THEN 6 ELSE IF kev THEN 5
                 ELSE IF Epss(q) > 50 THEN 4 ELSE IF Cvss(q) >= 90 THEN 3
                 ELSE IF Cvss(q) >= 70 THEN 2 ELSE 1
  IN  [label |-> label, urgency |-> urgency]

(* The decision table: exploitation, automatable, technical impact, and    *)
(* last the mission impact, on the scale Track, Track*, Attend, Act.       *)
Actions == <<"Track", "Track*", "Attend", "Act">>
DecisionTable ==
  [none   |-> [no  |-> [partial |-> <<1, 1, 1>>, total |-> <<1, 1, 2>>],
               yes |-> [partial |-> <<1, 1, 3>>, total |-> <<1, 1, 3>>]],
   poc    |-> [no  |-> [partial |-> <<1, 1, 2>>, total |-> <<1, 2, 3>>],
               yes |-> [partial |-> <<1, 1, 3>>, total |-> <<1, 2, 3>>]],
   active |-> [no  |-> [partial |-> <<1, 1, 3>>, total |-> <<1, 3, 4>>],
               yes |-> [partial |-> <<3, 3, 4>>, total |-> <<3, 4, 4>>]]]

_classify_exploitation(q) ==
  IF _lookup_kev(q) \/ Epss(q) >= 90 THEN "active"
  ELSE IF HasPoc(q) \/ Epss(q) >= 10 THEN "poc" ELSE "none"
_classify_automatable(q) ==
  IF Has(q, "controlled") THEN "no"
  ELSE IF _classify_exploitation(q) # "none" \/ Epss(q) >= 10 THEN "yes" ELSE "no"
ssvc_decision(q) ==
  LET technical == IF Cvss(q) >= 90 THEN "total" ELSE "partial"
      mission == IF Cvss(q) >= 90 THEN 3 ELSE IF Cvss(q) >= 70 THEN 2 ELSE 1
  IN  DecisionTable[_classify_exploitation(q)][_classify_automatable(q)][technical][mission]

_gather_cve_data(q, verdict) ==
  IF IsLost(q, "nvd") \/ IsLost(q, "epss") THEN Refusal
  ELSE Uncaught(q, {"kev"} \cup PocSources,
         Told({{"nvd"}, {"epss"}, {"kev", "kevMirror"}, PocSources}, {}, verdict))

blueteam_cve_score(q) == _gather_cve_data(q, Labels[score_cve(q).label])
blueteam_cve_ssvc(q) ==
  _gather_cve_data(q, IF q.out["nvd"] = 0 THEN "not_found" ELSE Actions[ssvc_decision(q)])
-----------------------------------------------------------------------------
(* cve.now.  An unavailable service is reported as such, never as an empty *)
(* result.                                                                 *)
blueteam_cve_now_lookup(q) == Single(q, "record")
blueteam_cve_now_feed(q) == Single(q, "feed")

(* What connects a CVE to an alert, strongest first: the alert names it;   *)
(* the request fits the product, the class and the file of the CVE; the    *)
(* asset runs an affected version; some of these overlap.                  *)
Relationships == <<"no_supported_match", "contextual_candidate", "vulnerability_exposure",
                   "attack_specific_match", "confirmed_cve_reference">>
assess_candidate(q) ==
  LET identified == Has(q, "exactProduct") \/ Has(q, "platform")
      family == Has(q, "sameFamily")
      classes == Has(q, "sameClass")
      inRange == Has(q, "inRange")
  IN  IF Has(q, "direct") THEN 5
      ELSE IF Has(q, "otherFamily") THEN 1
      ELSE IF /\ Has(q, "exactProduct") /\ classes /\ Has(q, "endpoint")
              /\ ~Has(q, "notInRange") THEN 4
      ELSE IF inRange /\ (identified \/ classes \/ family) THEN 3
      ELSE IF Has(q, "disjointText") /\ ~identified /\ ~family /\ ~Has(q, "endpoint")
              /\ ~inRange THEN 1
      ELSE IF identified \/ classes \/ family \/ Has(q, "endpoint") THEN 2 ELSE 1
assess(q) == Told({}, {}, Relationships[assess_candidate(q)])

(* The packages of the agent, when the call asks for them.                 *)
_agent_packages(q) == IF Has(q, "inventory") THEN {"inventory"} ELSE {}

(* The searches of correlate_alert: by the terms of the attack or by       *)
(* technology, with a second page when there is one and the mode allows    *)
(* it; by plugin; the feed when the candidates are few or unspecific; and  *)
(* the details of the best one.  Only the feed may fail.                   *)
SearchesOf(q) ==
  {"search"} \cup (IF Has(q, "pages") /\ q.out["search"] = Most THEN {"more"} ELSE {})
             \cup (IF Has(q, "plugin") THEN {"component"} ELSE {})
Candidates(q) == \E s \in SearchesOf(q) : HitsOf(q, s) > 0
Feed(q) ==
  IF /\ Has(q, "technology")
     /\ Has(q, "unspecific") \/ \A s \in SearchesOf(q) : HitsOf(q, s) < Most
  THEN {"feed"} ELSE {}
Detail(q) ==
  IF Has(q, "details") /\ (Candidates(q) \/ \E s \in Feed(q) : HitsOf(q, s) > 0)
  THEN {"detail"} ELSE {}
correlate_alert(q) ==
  LET asset == _agent_packages(q)
      needed == SearchesOf(q) \cup Detail(q)
      left == \/ q.out["search"] = Most /\ "more" \notin SearchesOf(q)
              \/ "more" \in SearchesOf(q) /\ q.out["more"] = Most
              \/ "component" \in SearchesOf(q) /\ q.out["component"] = Most
  IN  IF LostOf(q, needed) # {} THEN Refusal
      ELSE Claiming(Told(Each(needed \cup Feed(q) \cup asset),
                         LostOf(q, Feed(q) \cup asset), "candidates"),
                    IF left THEN "partial" ELSE "complete")

blueteam_cve_now_attack_correlate(q) ==
  LET asset == _agent_packages(q)
  IN  IF Has(q, "direct")
      THEN FromQuery(q, "record", Told(Each({"record"} \cup asset), LostOf(q, asset), "direct"))
      ELSE IF ~Has(q, "technology") /\ ~Has(q, "terms")
      THEN Told(Each(asset), LostOf(q, asset), "unmapped")
      ELSE correlate_alert(q)
-----------------------------------------------------------------------------
(* Every package of a manifest is queried on its own, and one whose query  *)
(* fails has no vulnerabilities.                                           *)
blueteam_dependency_scan(q) ==
  IF Has(q, "unparsable") THEN Refusal
  ELSE Uncaught(q, Items, Told(Each(Items), {}, "none"))

(* The state of the vulnerability pipeline.  What could not be read is     *)
(* shown as null, and the state is drawn from what could.                  *)
HealthSources == {"vuln", "packages", "latest", "vd", "covered", "registered"}
_classify(q) ==
  IF IsLost(q, "vuln") THEN "unavailable"
  ELSE IF q.out["vuln"] > 0
  THEN IF ~IsLost(q, "latest") /\ Has(q, "stale") THEN "degraded" ELSE "operational"
  ELSE IF HitsOf(q, "packages") = 0 \/ (~IsLost(q, "vd") /\ q.out["vd"] = 0) THEN "degraded"
  ELSE IF /\ ~IsLost(q, "covered") /\ ~IsLost(q, "registered")
          /\ q.out["covered"] < q.out["registered"] THEN "degraded"
  ELSE IF IsLost(q, "vd") \/ Has(q, "keyMissing") THEN "unverified" ELSE "operational"
blueteam_wazuh_vulnerability_health(q) ==
  Configured(q, Told(Each(HealthSources), LostOf(q, HealthSources), _classify(q)))
=============================================================================
