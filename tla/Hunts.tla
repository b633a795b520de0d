------------------------------- MODULE Hunts --------------------------------
(***************************************************************************)
(* The tools that look for a pattern in the alerts, and the ones that keep *)
(* what they found: sequences, periods and baselines; the profiles of the  *)
(* addresses, their clusters and their lineages; the forecasts; and the    *)
(* graph of the indicators.  Where the numbers decide, a question carries  *)
(* them as its series.                                                     *)
(***************************************************************************)
EXTENDS Evidence, Sequences, SequencesExt

Total(series) == FoldLeft(LAMBDA s, v : s + v, 0, series)

(* The variance of n values, times n squared.                              *)
Spread(series) ==
  Len(series) * FoldLeft(LAMBDA s, v : s + v * v, 0, series) - Total(series) * Total(series)

(* Only the JSON rendering shows what the request warned of.               *)
Warned(q, sources) == IF Has(q, "json") THEN LostOf(q, sources) ELSE {}
-----------------------------------------------------------------------------
(* The rules an address fired in their order, each as the phase of a known *)
(* chain it stands for: a chain is found when two of its phases or more    *)
(* come one after the other, whatever came between.                        *)
Phases(series) == FoldLeft(LAMBDA n, phase : IF phase = n + 1 THEN n + 1 ELSE n, 0, series)
blueteam_attack_chain(q) ==
  Configured(q, FromQuery(q, "alerts",
    Told({{"alerts"}}, {},
         IF Len(q.series) < 2 THEN "insufficient_data"
         ELSE IF Phases(q.series) >= 2 THEN "chain" ELSE "none")))

(* The gaps between the events of an address: the smaller their deviation  *)
(* beside their mean, the more they look like a beacon.                    *)
Beacon(gaps) ==
  LET mean == Total(gaps) * Total(gaps)
  IN  CASE mean = 0 -> "no_beacon"
        [] 100 * Spread(gaps) <= mean -> "strong_beacon"
        [] 16 * Spread(gaps) <= mean -> "likely_beacon"
        [] 64 * Spread(gaps) <= 9 * mean -> "possible_beacon"
        [] OTHER -> "no_beacon"
blueteam_beacon_detect(q) ==
  IF Has(q, "excluded") THEN Told({}, {}, "benign")
  ELSE Configured(q, FromQuery(q, "alerts",
    Told({{"alerts"}}, {},
         IF Len(q.series) < 2 THEN "insufficient_data"
         ELSE IF Has(q, "unparsable") THEN "unparseable_timestamps" ELSE Beacon(q.series))))

(* A hunt by template.  The addresses come from requests of their own, and *)
(* are shown as they came.                                                 *)
Addresses == {"addresses", "addressesAlt"}
blueteam_threat_hunt(q) ==
  Configured(q,
    IF Has(q, "unknownTemplate") THEN Refusal
    ELSE FromQuery(q, "alerts",
           Told({{"alerts"}} \cup (IF Has(q, "byAddress") THEN {Addresses} ELSE {}), {}, "none")))

(* The last value beside the mean and the deviation of all of them, itself *)
(* included: n values are never more than the root of n - 1 deviations off. *)
Deviation(series) ==
  LET off == Len(series) * series[Len(series)] - Total(series)
      reaches(z) == Spread(series) > 0 /\ off * off >= z * z * Spread(series)
  IN  IF reaches(3) THEN "critical_anomaly" ELSE IF reaches(2) THEN "significant"
      ELSE IF reaches(1) THEN "elevated" ELSE "normal"
blueteam_baseline_profile(q) ==
  Configured(q, FromQuery(q, "alerts",
    Told({{"alerts"}}, {},
         IF Len(q.series) < 2 THEN "insufficient_data" ELSE Deviation(q.series))))

(* Hours of the week that stand out of all of them.                        *)
blueteam_calendar_heatmap(q) ==
  Configured(q, FromQuery(q, "alerts",
    Told({{"alerts"}}, {},
         CASE q.out["alerts"] = 0 -> "no_periodicity"
           [] q.out["alerts"] \in 1 .. Most - 1 -> "possible_periodicity"
           [] OTHER -> "strong_periodicity")))

(* Two windows, each empty when its request failed; only the present one   *)
(* is missed.                                                              *)
blueteam_baseline_drift(q) ==
  Configured(q,
    IF HitsOf(q, "now") = 0 THEN Refusal
    ELSE Told({{"now"}, {"before"}}, {},
              IF HitsOf(q, "before") = 0 THEN "insufficient_data" ELSE "compared"))
-----------------------------------------------------------------------------
(* The profiles of the addresses: one request per category, over the       *)
(* fields a probe found to hold addresses, or a default one.  What failed  *)
(* is counted.                                                             *)
AlertCategories == {"recon", "access", "c2"}
_srcip_buckets(q, category) == [found |-> HitsOf(q, category), failed |-> IsLost(q, category)]
fetch_srcip_profiles(q) ==
  [profiles |-> \E c \in AlertCategories : _srcip_buckets(q, c).found > 0,
   failures |-> {c \in AlertCategories : _srcip_buckets(q, c).failed},
   fallback |-> LostOf(q, {"caps"})]
_fetch_health(q) == fetch_srcip_profiles(q).failures \cup fetch_srcip_profiles(q).fallback

(* A backfill: a fit per day, of days without a failed request only, as    *)
(* long as the store has room for the new ones.  Somebody else may take    *)
(* the room while it runs.                                                 *)
Days == {"day1", "day2"}
_backfill_one_day(q, day) ==
  CASE IsLost(q, day) -> "incomplete"
    [] q.out[day] < Most -> "skipped"
    [] OTHER -> "ok"
_run_backfill(q) ==
  LET unseen == IF Has(q, "refit") THEN {} ELSE Days
      refused == IF Has(q, "roomTaken") THEN unseen ELSE {}
      fitted == {d \in Days \ refused : _backfill_one_day(q, d) = "ok"}
  IN  IF Has(q, "noRoom") /\ unseen # {} THEN Told({}, {}, "insufficient_capacity")
      ELSE IF HitsOf(q, "caps") = 0 THEN Told({}, LostOf(q, {"caps"}), "srcip_mapping_degraded")
      ELSE Claiming(Told(Each(Days \ refused), LostOf(q, Days \ refused),
                         IF fitted # {} THEN "fitted" ELSE "nothing"),
                    IF fitted = Days THEN "complete" ELSE "partial")

(* The fit of a window is stored and tells that a request failed.          *)
blueteam_alert_cluster(q) ==
  Configured(q,
    IF Has(q, "status") THEN Told({}, {}, "status")
    ELSE Told(Each(AlertCategories \cup {"caps"}), _fetch_health(q),
              IF ~fetch_srcip_profiles(q).profiles \/ \A c \in AlertCategories : HitsOf(q, c) < Most
              THEN "insufficient_data" ELSE "fitted"))

(* An address against the stored fit, which must be there, be of the same  *)
(* window and not a backfill; from the store if it is assigned already.    *)
(* Only an address that was not seen is told of a failed request.          *)
blueteam_alert_cluster_assign(q) ==
  Configured(q,
    IF {"noFit", "backfilled", "otherWindow"} \cap q.opts # {} THEN Refusal
    ELSE IF Has(q, "cached") THEN Told({}, {}, "assigned")
    ELSE IF ~fetch_srcip_profiles(q).profiles
    THEN Told(Each(AlertCategories), _fetch_health(q), "not_observed")
    ELSE Told(Each(AlertCategories), {}, "assigned"))

(* The fits of the store, followed from one to the next.  A backfilled fit *)
(* has no rate of novelty.                                                 *)
_novelty_by_fit(q) == IF Has(q, "backfilled") THEN {} ELSE {{"novelty"}}
blueteam_cluster_lineage(q) ==
  Configured(q, FromQuery(q, "fits",
    IF Has(q, "status") THEN Told({{"fits"}}, {}, "status")
    ELSE IF q.out["fits"] < 2 THEN Told({{"fits"}}, {}, "insufficient_data")
    ELSE IF Has(q, "behavior")
    THEN FromQuery(q, "novelty", Told({{"fits"}} \cup _novelty_by_fit(q), {}, "behavior"))
    ELSE Told({{"fits"}}, {}, "lineage")))
-----------------------------------------------------------------------------
(* The graph of the indicators in the store, with the techniques of the    *)
(* confirmed addresses when the ATT&CK bundle can be read.  The graph      *)
(* keeps the errors of those requests; the pivots leave them out.          *)
Techniques == {"techniques1", "techniques2"}
_add_stix_edges(q) == IF Has(q, "confirmed") /\ ~Has(q, "noBundle") THEN Techniques ELSE {}
blueteam_attack_graph(q) ==
  LET added == IF Has(q, "stix") THEN _add_stix_edges(q) ELSE {}
  IN  Told(Each(added), LostOf(q, added), "graph")
blueteam_pivot_suggest(q) ==
  Told(Each(_add_stix_edges(q)), {},
       IF Has(q, "known") THEN "neighbours" ELSE "enrich_self")

(* The campaigns of now against the last snapshot: a cluster that overlaps *)
(* none is new; one that does grows by what the snapshot's did not have.   *)
diff_campaigns(before, now) ==
  LET overlaps(c) == {b \in before : b \cap c # {}}
      best(c) == CHOOSE b \in overlaps(c) :
                   \A o \in overlaps(c) : Cardinality(o \cap c) <= Cardinality(b \cap c)
  IN  [new |-> {c \in now : overlaps(c) = {}},
       growth |-> {c \ best(c) : c \in {c \in now : overlaps(c) # {}}} \ {{}}]
blueteam_campaign_watch(q) ==
  Configured(q, Told({}, {},
    LET diff == diff_campaigns(q.before, q.now)
    IN  IF diff.new # {} THEN "new" ELSE IF diff.growth # {} THEN "growth" ELSE "same"))

(* The tactic of an incident; a backend that does not run is told.         *)
blueteam_incident_label(q) ==
  Configured(q,
    IF Has(q, "noState") THEN Refusal
    ELSE Told({{"backend"}}, LostOf(q, {"backend"}),
              IF IsLost(q, "backend") THEN "unavailable"
              ELSE IF q.out["backend"] = 0 THEN "uncertain" ELSE "label"))
-----------------------------------------------------------------------------
(* Training fetches the observations, adds them to the store and fits what *)
(* the store has for the window: all of it, if the fetch was complete and  *)
(* the store not at its cap.                                               *)
Sweep == {"page", "count"}
_corpus_block(q) ==
  IF LostOf(q, Sweep) = {} /\ q.out["count"] = q.out["page"] /\ ~Has(q, "storeFull")
  THEN "complete" ELSE "partial"

_tactic_train(q) ==
  IF HitsOf(q, "page") = 0
  THEN Told({{"page"}}, Warned(q, {"page"}), "insufficient_data")
  ELSE Claiming(Told(Each(Sweep), LostOf(q, Sweep),
                     IF q.out["page"] < Most THEN "insufficient_data"
                     ELSE IF Has(q, "strict") /\ _corpus_block(q) = "partial"
                     THEN "corpus_incomplete" ELSE "fitted"),
                _corpus_block(q))

(* A prediction takes a stored model and the present tactic of the caller, *)
(* or of an address.                                                       *)
_tactic_predict(q) ==
  IF HitsOf(q, "model") = 0 \/ Has(q, "otherKind") THEN Refusal
  ELSE IF Has(q, "byTactic") THEN Told({{"model"}}, {}, "predicted")
  ELSE Told({{"model"}, {"page"}}, Warned(q, {"page"}),
            IF HitsOf(q, "page") = 0 THEN "not_observed" ELSE "predicted")

_model_status(q) ==
  Told({{"model"}}, LostOf(q, {"model"}),
       IF IsLost(q, "model") THEN "error" ELSE IF q.out["model"] = 0 THEN "no_model" ELSE "ok")

blueteam_tactic_forecast(q) ==
  Configured(q, IF Has(q, "status") THEN _model_status(q)
                ELSE IF Has(q, "predict") THEN _tactic_predict(q) ELSE _tactic_train(q))

(* Counts per bucket instead; predicted from the stored ones alone.        *)
blueteam_volume_forecast(q) ==
  Configured(q,
    IF Has(q, "status") THEN _model_status(q)
    ELSE IF Has(q, "predict")
    THEN IF HitsOf(q, "model") = 0 \/ Has(q, "otherKind") THEN Refusal
         ELSE Told({{"model"}}, {}, "predicted")
    ELSE Told({{"page"}}, LostOf(q, {"page"}),
              IF IsLost(q, "page") THEN "error"
              ELSE IF q.out["page"] < Most THEN "insufficient_data" ELSE "fitted"))
-----------------------------------------------------------------------------
wazuh_alert_aggregate_analysis(q) ==
  Configured(q, FromQuery(q, "alerts", Told({{"alerts"}, Addresses}, {}, "none")))

(* Three requests side by side, each empty when it failed; no alert in the *)
(* first of them is no activity.                                           *)
Aspects == {"summary", "timeline", "geo"}
blueteam_investigate_ip(q) ==
  Configured(q, Told(Each(Aspects), {}, IF HitsOf(q, "summary") = 0 THEN "quiet" ELSE "active"))

(* An address has an entry if somebody knows it.                           *)
_enrich_ips(q) ==
  LET known == {s \in {"crowdsec", "threatfox"} : ~IsLost(q, s) /\ (s = "threatfox" => q.out[s] > 0)}
  IN  Told(Each(known), {}, IF known = {} THEN "absent" ELSE "entry")

(* A search by likeness, of the rules or of the alerts: the rules of the   *)
(* manager, or else the ones that come with the program; the alerts that   *)
(* the pages brought; and in the order of the reranker, or else by terms.  *)
_reranked(q) == IF Has(q, "rerank") THEN LostOf(q, {"reranker"}) ELSE {}
blueteam_semantic_search(q) ==
  Told({{"rules", "builtin"}}, _reranked(q),
       IF HitsOf(q, "rules") < Most THEN "builtin" ELSE "live")
_semantic_search_alerts(q) ==
  Configured(q,
    IF HitsOf(q, "count") = 0 \/ HitsOf(q, "page") = 0 THEN Told({{"count"}, {"page"}}, {}, "nothing")
    ELSE Told({{"count"}, {"page"}} \cup (IF q.out["page"] = Most THEN {{"next"}} ELSE {}),
              _reranked(q), "ranked"))
=============================================================================
