---------------------------- MODULE ToolAnswers -----------------------------
(***************************************************************************)
(* One call of a tool at a time: a question, what its sources return, and  *)
(* the answer that the tool makes of it.  The properties say what every    *)
(* answer owes to the sources it rests on.                                 *)
(***************************************************************************)
EXTENDS AlertReports, Lookups, Hunts, Documents

VARIABLE exchange

(* What questions are chosen from: the parts of a curated report that a    *)
(* call can ask for; what supports and what opposes a CVE; and disjoint    *)
(* clusters of three indicators.                                           *)
CuratedChoices ==
  {shown \cup parts : shown \in SUBSET {"json", "compare"},
     parts \in {{}, {"dedup"}, {"srcip"}, {"srcip", "intel"}, {"srcip", "intel", "deep"},
               {"srcip", "deep", "critical"}}}
AggregateSources ==
  {"crowdsec", "threatfox", "otx", "otxMalware", "greynoise", "abuseipdb", "virustotal"}
CveSources == {"nvd", "epss", "kev", "kevMirror"} \cup PocSources
CatalogueSearches == {"search", "more", "component"}
CatalogueRecords == {"feed", "detail", "inventory", "record"}
Supporting ==
  {"direct", "exactProduct", "platform", "sameFamily", "sameClass", "endpoint", "inRange"}
Opposing == {"otherFamily", "notInRange", "disjointText"}
Clusterings ==
  {S \in SUBSET ((SUBSET {1, 2, 3}) \ {{}}) : \A c, d \in S : c = d \/ c \cap d = {}}
SeriesOf(values) == UNION {[1 .. n -> values] : n \in 0 .. 3}
IndicatorClasses ==
  {"hash", "address", "private", "domain", "owned", "single", "internal", "email",
   "urlOfDomain", "urlOfOwned", "urlWithPassword", "otherScheme"}
-----------------------------------------------------------------------------
AlertQuestions ==
       CallsOf("wazuh_attack_velocity", {"current", "currentAlt", "previous", "previousAlt"}, {"badWindow"})
  \cup CallsOf("wazuh_alert_timeline", {"alerts"}, {})
  \cup CallsOf("wazuh_email_lookup", {"page", "next"}, {})
  \cup CallsOf("wazuh_compromised_emails_analysis", {"lookup", "batch", "batch2", "netra"}, {"emails", "netra"})
  \cup CallsOf("wazuh_domain_lookup", {"page", "next"}, {})
  \cup CallsOf("blueteam_whois_lookup", {"rdap"}, {})
  \cup CallsOf("blueteam_crtsh_lookup", {"crtsh"}, {"notAList"})
  \cup CallsOf("blueteam_wazuh_alert_summarize", {"alerts"}, {"unconfigured"})
  \cup CallsOf("blueteam_wazuh_alert_compare", {"a", "b"}, {"json"})
  \cup Calling("blueteam_curated_threat_report",
       {"alerts", "wrappers", "entities", "entitiesAlt", "before", "intel", "chain"},
       {Lost, 0, Most}, CuratedChoices)
  \cup CallsOf("blueteam_wazuh_geo_distribution", {"alerts"}, {"unconfigured"})
  \cup CallsOf("blueteam_wazuh_geo_concentration", {"alerts"}, {})
  \cup CallsOf("blueteam_ai_bot_recon", {"alerts", "alertsAlt"}, {})
  \cup CallsOf("blueteam_index_schema", {"mapping"}, {"textSomewhere"})
  \cup CallsOf("wazuh_alert_dsl_query", {"alerts"}, {"script", "size"})
  \cup CallsOf("blueteam_wazuh_forensic_window", {"alerts"}, {"absent"})
  \cup CallsOf("blueteam_wazuh_vulnerabilities", {"alerts"}, {})
  \cup CallsOf("blueteam_wazuh_syscheck", {"alerts", "caps"}, {"byField"})
  \cup CallsOf("blueteam_wazuh_compliance", {"alerts"}, {"unknownFramework"})
  \cup CallsOf("blueteam_wazuh_geo_heatmap", {"alerts"}, {})
  \cup CallsOf("netra_ip_analysis", {"netra"}, {})
  \cup CallsOf("argus_ip_lookup", {"argus"}, {})
  \cup CallsOf("sangfor_blocklist_check", {"sangfor"}, {"notABoolean"})
  \cup CallsOf("blueteam_unified_threat_score", {"crowdsec", "threatfox", "abuseipdb"}, {})

AlertAnswer(q) ==
  CASE q.tool = "wazuh_attack_velocity" -> wazuh_attack_velocity(q)
  [] q.tool = "wazuh_alert_timeline" -> wazuh_alert_timeline(q)
  [] q.tool = "wazuh_email_lookup" -> wazuh_email_lookup(q)
  [] q.tool = "wazuh_compromised_emails_analysis" -> wazuh_compromised_emails_analysis(q)
  [] q.tool = "wazuh_domain_lookup" -> _wazuh_domain_lookup_full_scan(q)
  [] q.tool = "blueteam_whois_lookup" -> blueteam_whois_lookup(q)
  [] q.tool = "blueteam_crtsh_lookup" -> blueteam_crtsh_lookup(q)
  [] q.tool = "blueteam_wazuh_alert_summarize" -> blueteam_wazuh_alert_summarize(q)
  [] q.tool = "blueteam_wazuh_alert_compare" -> blueteam_wazuh_alert_compare(q)
  [] q.tool = "blueteam_curated_threat_report" -> blueteam_curated_threat_report(q)
  [] q.tool = "blueteam_wazuh_geo_distribution" -> blueteam_wazuh_geo_distribution(q)
  [] q.tool = "blueteam_wazuh_geo_concentration" -> blueteam_wazuh_geo_concentration(q)
  [] q.tool = "blueteam_ai_bot_recon" -> blueteam_ai_bot_recon(q)
  [] q.tool = "blueteam_index_schema" -> blueteam_index_schema(q)
  [] q.tool = "wazuh_alert_dsl_query" -> wazuh_alert_dsl_query(q)
  [] q.tool = "blueteam_wazuh_forensic_window" -> blueteam_wazuh_forensic_window(q)
  [] q.tool = "blueteam_wazuh_vulnerabilities" -> blueteam_wazuh_vulnerabilities(q)
  [] q.tool = "blueteam_wazuh_syscheck" -> blueteam_wazuh_syscheck(q)
  [] q.tool = "blueteam_wazuh_compliance" -> blueteam_wazuh_compliance(q)
  [] q.tool = "blueteam_wazuh_geo_heatmap" -> blueteam_wazuh_geo_heatmap(q)
  [] q.tool = "netra_ip_analysis" -> netra_ip_analysis(q)
  [] q.tool = "argus_ip_lookup" -> argus_ip_lookup(q)
  [] q.tool = "sangfor_blocklist_check" -> sangfor_blocklist_check(q)
  [] q.tool = "blueteam_unified_threat_score" -> blueteam_unified_threat_score(q)

LookupQuestions ==
       CallsOf("threatfox_ioc_search", {"threatfox"}, {"unconfigured"})
  \cup CallsOf("threatfox_ioc_search_bulk", Items, {"uncaught"})
  \cup CallsOf("otx_lookup", {"otx"}, {})
  \cup CallsOf("otx_lookup_bulk", Items, {"uncaught"})
  \cup CallsOf("urlhaus_lookup", {"urlhaus"}, {})
  \cup CallsOf("urlhaus_hash_lookup", {"urlhaus"}, {})
  \cup CallsOf("urlhaus_lookup_bulk", Items, {"uncaught"})
  \cup CallsOf("greynoise_ip_context", {"greynoise"}, {})
  \cup CallsOf("crowdsec_ip_reputation", {"crowdsec"}, {})
  \cup CallsOf("crowdsec_ip_reputation_bulk", Items, {})
  \cup CallsOf("blueteam_misp_ioc_lookup", {"misp", "version"}, {"probed"})
  \cup CallsOf("stealer_log_check", {"logs"}, {})
  \cup CallsOf("jarm_fingerprint", Probes, {"private"})
  \cup CallsOf("blueteam_cve_advisory", Vendors, {"uncaught"})
  \cup CallsOf("blueteam_ioc_search", {"first"}, {})
  \cup CallsOf("blueteam_ioc_search_bulk", Items, {"processWide"})
  \cup CallsOf("blueteam_breach_check", {"breach"}, {})
  \cup CallsOf("blueteam_ip_intel_bulk", {"intel"}, {})
  \cup CallsOf("blueteam_abuseipdb_check", {"abuseipdb"}, {})
  \cup Calling("blueteam_threat_intel_aggregate", AggregateSources, {Lost, 0, Most},
       {{}, {"url"}, {"file"}, {"file", "unkeyed"}, {"unkeyed"}})
  \cup Calling("blueteam_threat_intel_aggregate", AggregateSources, {Lost, 0, 1},
       {{}, {"benign"}})
  \cup CallsOf("blueteam_cve_lookup", {"nvd"}, {})
  \cup CallsOf("blueteam_cve_epss", {"epss"}, {})
  \cup CallsOf("blueteam_cve_kev", {"kev", "kevMirror"}, {"uncaught"})
  \cup Calling("blueteam_cve_poc", PocSources, Outcomes \cup {Fair}, SUBSET {"uncaught"})
  \cup {q \in Calling("blueteam_cve_score", CveSources, {Lost, 0, Most}, {{}, {"recent"}, {"uncaught"}}) :
       q.out["githubExploit"] # Most}
  \cup {q \in Calling("blueteam_cve_ssvc", CveSources, {Lost, 0, Most}, {{}, {"controlled"}}) :
       q.out["githubExploit"] # Most}
  \cup CallsOf("blueteam_cve_now_lookup", {"record"}, {})
  \cup CallsOf("blueteam_cve_now_feed", {"feed"}, {})
  \cup Calling("assess_candidate", {}, {}, SUBSET (Supporting \cup Opposing))
  \cup {q \in Calling("blueteam_cve_now_attack_correlate", CatalogueSearches \cup CatalogueRecords,
                     {Lost, 1, Most},
                     (SUBSET {"terms", "technology", "pages", "plugin", "details", "inventory"})
                       \cup {{"direct"}, {"direct", "inventory"}}) :
       \A s \in CatalogueRecords : q.out[s] # 1}
  \cup CallsOf("blueteam_dependency_scan", Items, {"uncaught", "unparsable"})
  \cup Calling("blueteam_wazuh_vulnerability_health", HealthSources,
       {Lost, 0, Most}, {{}, {"stale"}, {"keyMissing"}})

LookupAnswer(q) ==
  CASE q.tool = "threatfox_ioc_search" -> threatfox_ioc_search(q)
  [] q.tool = "threatfox_ioc_search_bulk" -> threatfox_ioc_search_bulk(q)
  [] q.tool = "otx_lookup" -> otx_lookup(q)
  [] q.tool = "otx_lookup_bulk" -> otx_lookup_bulk(q)
  [] q.tool = "urlhaus_lookup" -> urlhaus_lookup(q)
  [] q.tool = "urlhaus_hash_lookup" -> urlhaus_hash_lookup(q)
  [] q.tool = "urlhaus_lookup_bulk" -> urlhaus_lookup_bulk(q)
  [] q.tool = "greynoise_ip_context" -> greynoise_ip_context(q)
  [] q.tool = "crowdsec_ip_reputation" -> crowdsec_ip_reputation(q)
  [] q.tool = "crowdsec_ip_reputation_bulk" -> crowdsec_ip_reputation_bulk(q)
  [] q.tool = "blueteam_misp_ioc_lookup" -> blueteam_misp_ioc_lookup(q)
  [] q.tool = "stealer_log_check" -> stealer_log_check(q)
  [] q.tool = "jarm_fingerprint" -> jarm_fingerprint(q)
  [] q.tool = "blueteam_cve_advisory" -> blueteam_cve_advisory(q)
  [] q.tool = "blueteam_ioc_search" -> blueteam_ioc_search(q)
  [] q.tool = "blueteam_ioc_search_bulk" -> blueteam_ioc_search_bulk(q)
  [] q.tool = "blueteam_breach_check" -> blueteam_breach_check(q)
  [] q.tool = "blueteam_ip_intel_bulk" -> blueteam_ip_intel_bulk(q)
  [] q.tool = "blueteam_abuseipdb_check" -> blueteam_abuseipdb_check(q)
  [] q.tool = "blueteam_threat_intel_aggregate" -> blueteam_threat_intel_aggregate(q)
  [] q.tool = "blueteam_cve_lookup" -> blueteam_cve_lookup(q)
  [] q.tool = "blueteam_cve_epss" -> blueteam_cve_epss(q)
  [] q.tool = "blueteam_cve_kev" -> blueteam_cve_kev(q)
  [] q.tool = "blueteam_cve_poc" -> blueteam_cve_poc(q)
  [] q.tool = "blueteam_cve_score" -> blueteam_cve_score(q)
  [] q.tool = "blueteam_cve_ssvc" -> blueteam_cve_ssvc(q)
  [] q.tool = "blueteam_cve_now_lookup" -> blueteam_cve_now_lookup(q)
  [] q.tool = "blueteam_cve_now_feed" -> blueteam_cve_now_feed(q)
  [] q.tool = "assess_candidate" -> assess(q)
  [] q.tool = "blueteam_cve_now_attack_correlate" -> blueteam_cve_now_attack_correlate(q)
  [] q.tool = "blueteam_dependency_scan" -> blueteam_dependency_scan(q)
  [] q.tool = "blueteam_wazuh_vulnerability_health" -> blueteam_wazuh_vulnerability_health(q)

HuntQuestions ==
       [tool : {"blueteam_attack_chain"}, out : [{"alerts"} -> {Lost, Most}],
        opts : SUBSET {}, series : SeriesOf(0 .. 3)]
  \cup [tool : {"blueteam_beacon_detect"}, out : [{"alerts"} -> {Lost, Most}],
        opts : SUBSET {"excluded", "unparsable"}, series : SeriesOf({1, 10, 12})]
  \cup [tool : {"blueteam_baseline_profile"}, out : [{"alerts"} -> {Lost, Most}],
        opts : SUBSET {}, series : SeriesOf({0, 1, 9})]
  \cup CallsOf("blueteam_threat_hunt", {"alerts", "addresses", "addressesAlt"}, {"byAddress", "unknownTemplate"})
  \cup CallsOf("blueteam_calendar_heatmap", {"alerts"}, {})
  \cup CallsOf("blueteam_baseline_drift", {"now", "before"}, {})
  \cup CallsOf("backfill", {"caps", "day1", "day2"}, {"noRoom", "refit", "roomTaken"})
  \cup CallsOf("blueteam_alert_cluster", {"recon", "access", "c2", "caps"}, {"status"})
  \cup Calling("blueteam_alert_cluster_assign",
       {"recon", "access", "c2", "caps"}, Outcomes,
       {{}, {"noFit"}, {"backfilled"}, {"otherWindow"}, {"cached"}})
  \cup CallsOf("blueteam_cluster_lineage", {"fits", "novelty"}, {"status", "behavior", "backfilled"})
  \cup CallsOf("blueteam_attack_graph", {"techniques1", "techniques2"}, {"stix", "confirmed", "noBundle"})
  \cup CallsOf("blueteam_pivot_suggest", {"techniques1", "techniques2"}, {"confirmed", "noBundle", "known"})
  \cup [tool : {"blueteam_campaign_watch"}, out : [{} -> {Most}], opts : {{}},
        before : Clusterings, now : Clusterings]
  \cup CallsOf("blueteam_incident_label", {"backend"}, {"noState"})
  \cup Calling("blueteam_tactic_forecast", {"model", "page", "count"}, Outcomes,
       (SUBSET {"json", "strict", "storeFull"}) \cup {{"status"}}
         \cup {{"predict"} \cup o : o \in SUBSET {"json", "byTactic", "otherKind"}})
  \cup CallsOf("blueteam_volume_forecast", {"model", "page"}, {"status", "predict", "otherKind"})
  \cup CallsOf("wazuh_alert_aggregate_analysis", {"alerts", "addresses", "addressesAlt"}, {})
  \cup CallsOf("blueteam_investigate_ip", {"summary", "timeline", "geo"}, {})
  \cup CallsOf("enrich_ips", {"crowdsec", "threatfox"}, {})
  \cup {q \in CallsOf("blueteam_semantic_search", {"rules", "builtin", "reranker"}, {"rerank"}) :
       q.out["builtin"] = Most}
  \cup CallsOf("semantic_search_alerts", {"count", "page", "next", "reranker"}, {"rerank"})

HuntAnswer(q) ==
  CASE q.tool = "blueteam_attack_chain" -> blueteam_attack_chain(q)
  [] q.tool = "blueteam_beacon_detect" -> blueteam_beacon_detect(q)
  [] q.tool = "blueteam_baseline_profile" -> blueteam_baseline_profile(q)
  [] q.tool = "blueteam_threat_hunt" -> blueteam_threat_hunt(q)
  [] q.tool = "blueteam_calendar_heatmap" -> blueteam_calendar_heatmap(q)
  [] q.tool = "blueteam_baseline_drift" -> blueteam_baseline_drift(q)
  [] q.tool = "backfill" -> _run_backfill(q)
  [] q.tool = "blueteam_alert_cluster" -> blueteam_alert_cluster(q)
  [] q.tool = "blueteam_alert_cluster_assign" -> blueteam_alert_cluster_assign(q)
  [] q.tool = "blueteam_cluster_lineage" -> blueteam_cluster_lineage(q)
  [] q.tool = "blueteam_attack_graph" -> blueteam_attack_graph(q)
  [] q.tool = "blueteam_pivot_suggest" -> blueteam_pivot_suggest(q)
  [] q.tool = "blueteam_campaign_watch" -> blueteam_campaign_watch(q)
  [] q.tool = "blueteam_incident_label" -> blueteam_incident_label(q)
  [] q.tool = "blueteam_tactic_forecast" -> blueteam_tactic_forecast(q)
  [] q.tool = "blueteam_volume_forecast" -> blueteam_volume_forecast(q)
  [] q.tool = "wazuh_alert_aggregate_analysis" -> wazuh_alert_aggregate_analysis(q)
  [] q.tool = "blueteam_investigate_ip" -> blueteam_investigate_ip(q)
  [] q.tool = "enrich_ips" -> _enrich_ips(q)
  [] q.tool = "blueteam_semantic_search" -> blueteam_semantic_search(q)
  [] q.tool = "semantic_search_alerts" -> _semantic_search_alerts(q)

DocumentQuestions ==
       CallsOf("blueteam_sigma_rule_validate", {}, {"notYaml", "noPySigma", "rejected", "strict", "findings"})
  \cup CallsOf("blueteam_sigma_rule_generate", {"alerts", "caps", "existing"}, {"text", "noFields"})
  \cup CallsOf("blueteam_sigma_rule_save", {}, {"notYaml", "incomplete", "badName", "taken"})
  \cup CallsOf("blueteam_sigma_rule_convert", {"caps"}, {"notYaml", "noPySigma", "rejected", "unconvertible", "savedSearch", "newShape"})
  \cup CallsOf("blueteam_yara_rule_validate", {}, {"uncompilable", "strict", "warnings"})
  \cup CallsOf("blueteam_yara_rule_generate", {"alerts"}, {"file", "text", "outside", "empty", "selfScan", "matches", "uncompilable"})
  \cup CallsOf("blueteam_yara_rule_save", {}, {"uncompilable", "badName", "taken"})
  \cup [tool : {"blueteam_check_webshell"}, out : [{"page", "hop"} -> {Lost, Most}],
        opts : SUBSET {"private", "privateHop", "redirect", "errorPage", "json"},
        series : [1 .. 4 -> 0 .. 2]]
  \cup [tool : {"blueteam_stix_export"}, out : [{} -> {Most}],
        opts : {{}} \cup {{gate} : gate \in {"disabled", "noIdentity", "noOwnedDomains",
                                             "badMarkings", "maskable", "outside", "unwritable"}},
        now : {S \in SUBSET IndicatorClasses : Cardinality(S) <= 2}]
  \cup CallsOf("blueteam_stix_analyze", {"bundle"}, {"local", "fresh", "stale", "loaded", "backingOff", "known"})
  \cup CallsOf("blueteam_stix_killchain", {"bundle", "alerts"}, {"stale", "loaded", "backingOff"})
  \cup CallsOf("blueteam_cve_attack_mapping", {"bundle"}, {"stale", "loaded", "backingOff", "mapped", "known"})
  \cup CallsOf("blueteam_export_report", {}, {"noLibrary", "outside", "unwritable", "crashes"})
  \cup CallsOf("blueteam_pdf_extract", {"page1", "page2"}, {"outside", "encrypted", "notPdf", "spent"})
  \cup CallsOf("blueteam_markitdown_convert", {}, {"outside", "tooBig", "otherType", "noLibrary", "crashes", "empty"})
  \cup CallsOf("blueteam_document_convert", {}, {"outside", "tooBig", "otherType", "noLibrary", "crashes", "badRange"})
  \cup Calling("blueteam_extract_iocs", {"text"}, {0, 1, Most}, {{}})
  \cup CallsOf("blueteam_rag_ingest", {"page1", "page2", "embedder"}, {"pdf", "encrypted", "full", "noStore"})
  \cup CallsOf("blueteam_rag_query", {"embedder", "reranker"}, {"rerank", "noCorpus"})

DocumentAnswer(q) ==
  CASE q.tool = "blueteam_sigma_rule_validate" -> blueteam_sigma_rule_validate(q)
  [] q.tool = "blueteam_sigma_rule_generate" -> blueteam_sigma_rule_generate(q)
  [] q.tool = "blueteam_sigma_rule_save" -> blueteam_sigma_rule_save(q)
  [] q.tool = "blueteam_sigma_rule_convert" -> blueteam_sigma_rule_convert(q)
  [] q.tool = "blueteam_yara_rule_validate" -> blueteam_yara_rule_validate(q)
  [] q.tool = "blueteam_yara_rule_generate" -> blueteam_yara_rule_generate(q)
  [] q.tool = "blueteam_yara_rule_save" -> blueteam_yara_rule_save(q)
  [] q.tool = "blueteam_check_webshell" -> blueteam_check_webshell(q)
  [] q.tool = "blueteam_stix_export" -> blueteam_stix_export(q)
  [] q.tool = "blueteam_stix_analyze" -> blueteam_stix_analyze(q)
  [] q.tool = "blueteam_stix_killchain" -> blueteam_stix_killchain(q)
  [] q.tool = "blueteam_cve_attack_mapping" -> blueteam_cve_attack_mapping(q)
  [] q.tool = "blueteam_export_report" -> blueteam_export_report(q)
  [] q.tool = "blueteam_pdf_extract" -> blueteam_pdf_extract(q)
  [] q.tool = "blueteam_markitdown_convert" -> blueteam_markitdown_convert(q)
  [] q.tool = "blueteam_document_convert" -> blueteam_document_convert(q)
  [] q.tool = "blueteam_extract_iocs" -> blueteam_extract_iocs(q)
  [] q.tool = "blueteam_rag_ingest" -> blueteam_rag_ingest(q)
  [] q.tool = "blueteam_rag_query" -> blueteam_rag_query(q)

-----------------------------------------------------------------------------
NoQuestion == [q |-> [tool |-> "none"], answer |-> Refusal]
ToolsInit == exchange = NoQuestion

Asked(q, answer) == exchange' = [q |-> q, answer |-> answer]
ReadAlerts == exchange = NoQuestion /\ \E q \in AlertQuestions : Asked(q, AlertAnswer(q))
LookUpIndicator == exchange = NoQuestion /\ \E q \in LookupQuestions : Asked(q, LookupAnswer(q))
HuntThreats == exchange = NoQuestion /\ \E q \in HuntQuestions : Asked(q, HuntAnswer(q))
HandleDocument == exchange = NoQuestion /\ \E q \in DocumentQuestions : Asked(q, DocumentAnswer(q))

ToolsNext == ReadAlerts \/ LookUpIndicator \/ HuntThreats \/ HandleDocument
ToolsSpec == ToolsInit /\ [][ToolsNext]_exchange
-----------------------------------------------------------------------------
(* The places where the code shows what a failed request would have told,  *)
(* and does not tell that it failed: in the unified score, a source that   *)
(* failed reads like one that is not configured or found nothing.          *)
Silent ==
  {<<"wazuh_email_lookup", {"next"}>>,
   <<"wazuh_compromised_emails_analysis", {"batch"}>>,
   <<"wazuh_compromised_emails_analysis", {"batch2"}>>,
   <<"blueteam_wazuh_alert_compare", {"a"}>>, <<"blueteam_wazuh_alert_compare", {"b"}>>,
   <<"blueteam_curated_threat_report", {"entities", "entitiesAlt"}>>,
   <<"blueteam_curated_threat_report", {"before"}>>,
   <<"blueteam_curated_threat_report", {"intel"}>>,
   <<"blueteam_curated_threat_report", {"chain"}>>,
   <<"blueteam_unified_threat_score", {"crowdsec"}>>,
   <<"blueteam_unified_threat_score", {"threatfox"}>>,
   <<"blueteam_cve_kev", {"kev", "kevMirror"}>>, <<"blueteam_cve_poc", PocSources>>,
   <<"blueteam_cve_score", {"kev", "kevMirror"}>>, <<"blueteam_cve_score", PocSources>>,
   <<"blueteam_cve_ssvc", {"kev", "kevMirror"}>>, <<"blueteam_cve_ssvc", PocSources>>,
   <<"blueteam_dependency_scan", {"first"}>>, <<"blueteam_dependency_scan", {"second"}>>,
   <<"blueteam_baseline_drift", {"before"}>>,
   <<"blueteam_threat_hunt", Addresses>>, <<"wazuh_alert_aggregate_analysis", Addresses>>,
   <<"blueteam_alert_cluster_assign", {"recon"}>>, <<"blueteam_alert_cluster_assign", {"access"}>>,
   <<"blueteam_alert_cluster_assign", {"c2"}>>,
   <<"blueteam_pivot_suggest", {"techniques1"}>>, <<"blueteam_pivot_suggest", {"techniques2"}>>,
   <<"blueteam_tactic_forecast", {"page"}>>,
   <<"blueteam_investigate_ip", {"summary"}>>, <<"blueteam_investigate_ip", {"timeline"}>>,
   <<"blueteam_investigate_ip", {"geo"}>>,
   <<"semantic_search_alerts", {"count"}>>, <<"semantic_search_alerts", {"page"}>>,
   <<"semantic_search_alerts", {"next"}>>,
   <<"blueteam_sigma_rule_generate", {"caps"}>>, <<"blueteam_sigma_rule_generate", {"existing"}>>,
   <<"blueteam_sigma_rule_convert", {"caps"}>>}

(* What a claim of completeness is not about: it is of the searches of     *)
(* cve.now, beside which the answer calls the feed not exhaustive and has  *)
(* the packages of the agent as a matter of their own.                     *)
Unclaimed ==
  {<<"blueteam_cve_now_attack_correlate", {"feed"}>>,
   <<"blueteam_cve_now_attack_correlate", {"inventory"}>>}

(* An answer shows nothing that no source stands behind, except where the  *)
(* code is silent; it blames no source that answered; and what it calls    *)
(* complete lacks no source that the claim is about.  "No hits" and        *)
(* "nobody answered" must differ.                                          *)
NoBlindAnswer ==
  exchange.answer.status = "ok" =>
    /\ \A view \in exchange.answer.views :
         \/ Sighted(exchange.q, exchange.answer, view)
         \/ <<exchange.q.tool, view>> \in Silent
    /\ Truthful(exchange.q, exchange.answer)
    /\ exchange.answer.claim = "complete" =>
         \A view \in exchange.answer.views :
           \/ \E s \in view : ~IsLost(exchange.q, s)
           \/ <<exchange.q.tool, view>> \in Unclaimed

(* The verdicts that are meant as scales, and the questions with more      *)
(* evidence than q: more hits from a source that answered, one more fact   *)
(* in favour of a CVE, one more signature in a page.                       *)
Scales ==
  [blueteam_threat_intel_aggregate |-> RiskNames,
   blueteam_cve_poc |-> PocNames, blueteam_cve_score |-> Labels,
   blueteam_cve_ssvc |-> <<"not_found">> \o Actions, assess_candidate |-> Relationships,
   blueteam_check_webshell |->
     <<"UNKNOWN", "CLEAN", "LOW_RISK", "LOGIN_PAGE", "SUSPICIOUS", "CONFIRMED">>]
Rank(q, verdict) == CHOOSE n \in DOMAIN Scales[q.tool] : Scales[q.tool][n] = verdict

More(q) ==
  (UNION {{[q EXCEPT !.out[s] = n] : n \in {n \in {1, Fair, Most} : n > q.out[s]}} :
            s \in {s \in DOMAIN q.out : ~IsLost(q, s)}})
  \cup {[q EXCEPT !.opts = @ \cup {fact}] :
          fact \in IF q.tool = "assess_candidate" THEN Supporting ELSE {}}
  \cup {[q EXCEPT !.series[i] = @ + 1] :
          i \in IF q.tool = "blueteam_check_webshell" THEN 1 .. 4 ELSE {}}

(* The one heading that says less than the evidence: a SUSPICIOUS page     *)
(* reads CLEAN in Markdown, where a page with less to it reads LOGIN_PAGE  *)
(* or LOW_RISK.                                                            *)
Misheaded(q) ==
  /\ q.tool = "blueteam_check_webshell"
  /\ ~Has(q, "json") /\ Enough(q) /\ _verdict(q.series) = "SUSPICIOUS"

(* More evidence never makes a verdict milder: whatever else was found,    *)
(* and whatever failed, a further hit, fact or signature leaves the risk,  *)
(* the priority or the relationship that the answer shows where it was, or *)
(* raises it, but for that heading.                                        *)
EvidenceNeverLowers ==
  (exchange.q.tool \in DOMAIN Scales /\ exchange.answer.status = "ok") =>
    \A q \in More(exchange.q) :
      LET answer == IF q.tool = "blueteam_check_webshell" THEN DocumentAnswer(q)
                    ELSE LookupAnswer(q)
      IN  Misheaded(q) \/ Rank(q, answer.verdict) >= Rank(q, exchange.answer.verdict)
=============================================================================
