----------------------------- MODULE Documents ------------------------------
(***************************************************************************)
(* The tools that make or read documents: detection rules, STIX bundles,   *)
(* reports, PDF files, the knowledge base; the check of a page for a       *)
(* webshell; and the ATT&CK bundle that several tools look things up in.   *)
(* A gate is an option: what stops the tool when it is there.              *)
(***************************************************************************)
EXTENDS Evidence

Stops(q, gates) == gates \cap q.opts # {}
-----------------------------------------------------------------------------
(* A Sigma rule is checked by its schema, and by pySigma where that is     *)
(* installed: what only the schema has seen is still valid.                *)
parse_check(q) == Has(q, "noPySigma") \/ ~Has(q, "rejected")
blueteam_sigma_rule_validate(q) ==
  LET valid == /\ ~Has(q, "notYaml") /\ parse_check(q)
               /\ ~(Has(q, "strict") /\ Has(q, "findings"))
  IN  Told({}, {}, IF ~valid THEN "invalid"
                   ELSE IF Has(q, "noPySigma") THEN "schema-only" ELSE "valid")

(* The fields of the rule that no index maps, and the rules of the manager *)
(* that look like it; a look-up that fails leaves an empty list.           *)
_existing_rule_matches(q) == IF Has(q, "text") THEN {} ELSE {{"existing"}}
Verified(q) == IF Has(q, "noFields") THEN {} ELSE {{"caps"}}

blueteam_sigma_rule_generate(q) ==
  IF ~Has(q, "text") /\ HitsOf(q, "alerts") = 0 THEN Refusal
  ELSE Told(Verified(q) \cup _existing_rule_matches(q), {},
            IF Has(q, "text") \/ ~Has(q, "noFields") THEN "draft" ELSE "no-values")

(* A saved rule is staged, whatever its findings.                          *)
blueteam_sigma_rule_save(q) ==
  IF Stops(q, {"notYaml", "incomplete", "badName", "taken"}) THEN Refusal
  ELSE Told({}, {}, "saved")

(* A conversion does without the schema, and needs pySigma.  The saved     *)
(* search tells when it could not be pointed at the index.                 *)
_retarget_saved_search(q) == ~Has(q, "newShape")
convert(q) ==
  IF Stops(q, {"noPySigma", "rejected", "unconvertible"}) THEN Refusal
  ELSE Told({}, {}, IF Has(q, "savedSearch") /\ ~_retarget_saved_search(q)
                    THEN "wrong index" ELSE "converted")
blueteam_sigma_rule_convert(q) ==
  IF Has(q, "notYaml") THEN Refusal
  ELSE LET converted == convert(q)
       IN  IF converted.status = "error" THEN Refusal
           ELSE [converted EXCEPT !.views = Verified(q)]
-----------------------------------------------------------------------------
(* A YARA rule made from a sample counts as verified when it compiles and  *)
(* finds the sample again; one made from alerts or from text is a draft.   *)
_compile(q) == ~Has(q, "uncompilable")
_read_sample(q) == ~Stops(q, {"outside", "empty", "tooBig"})

blueteam_yara_rule_validate(q) ==
  Told({}, {}, IF _compile(q) /\ ~(Has(q, "strict") /\ Has(q, "warnings"))
               THEN "valid" ELSE "invalid")

blueteam_yara_rule_generate(q) ==
  LET sample == Has(q, "file")
      scanned == Has(q, "selfScan")
  IN  IF \/ sample /\ ~_read_sample(q)
         \/ ~sample /\ ~Has(q, "text") /\ HitsOf(q, "alerts") = 0 THEN Refusal
      ELSE Told({}, {}, IF ~_compile(q) THEN "invalid"
                        ELSE IF ~sample \/ ~scanned THEN "draft"
                        ELSE IF Has(q, "matches") THEN "verified" ELSE "unverified")

blueteam_yara_rule_save(q) ==
  IF ~_compile(q) \/ Stops(q, {"badName", "taken"}) THEN Refusal ELSE Told({}, {}, "saved")
-----------------------------------------------------------------------------
(* A page is fetched hop by hop, each of them to an address that was       *)
(* vetted, and its body searched: q.series are the signatures of high and  *)
(* of medium weight, those of a login page, and the rest.  No verdict      *)
(* without a body that was scanned.                                        *)
_verdict(series) ==
  IF series[1] >= 2 \/ (series[1] = 1 /\ series[2] >= 2) THEN "CONFIRMED"
  ELSE IF series[1] = 1 \/ series[2] >= 2 THEN "SUSPICIOUS"
  ELSE IF series[3] >= 1 THEN "LOGIN_PAGE"
  ELSE IF series[2] + series[4] > 0 THEN "LOW_RISK" ELSE "CLEAN"

_pinned_curl_args(q, hop) == ~Has(q, IF hop = "page" THEN "private" ELSE "privateHop")
Redirected(q) == Has(q, "redirect") /\ ~IsLost(q, "page")
Fetched(q) ==
  /\ _pinned_curl_args(q, "page") /\ ~IsLost(q, "page")
  /\ Redirected(q) => _pinned_curl_args(q, "hop") /\ ~IsLost(q, "hop")
Enough(q) == Fetched(q) /\ ~Stops(q, {"errorPage", "emptyBody"})

(* An answer in JSON has the verdict; one in Markdown a heading, and there *)
(* is none for SUSPICIOUS.                                                 *)
Heading(verdict) ==
  IF verdict \in {"CONFIRMED", "UNKNOWN", "LOGIN_PAGE", "LOW_RISK"} THEN verdict ELSE "CLEAN"

blueteam_check_webshell(q) ==
  LET v == IF Enough(q) THEN _verdict(q.series) ELSE "UNKNOWN"
  IN  Told(IF Enough(q) THEN {{IF Redirected(q) THEN "hop" ELSE "page"}} ELSE {}, {},
           IF Has(q, "json") THEN v ELSE Heading(v))

(* Only a confirmed webshell is registered as an attacker's.               *)
Registers(q) == blueteam_check_webshell(q).verdict = "CONFIRMED"
-----------------------------------------------------------------------------
(* What may leave the house.  q.now are the classes of the values that are *)
(* to be shared; what is the victim's own, internal or a person's is       *)
(* dropped with a reason, and so is what exceeds the room.                 *)
_host_shareable(class) == class \in {"address", "domain"}
classify_indicator(class) ==
  CASE class = "hash" -> "file"
    [] class = "urlOfDomain" -> IF _host_shareable("domain") THEN "url" ELSE "none"
    [] class = "urlOfOwned" -> IF _host_shareable("owned") THEN "url" ELSE "none"
    [] class \in {"email", "urlWithPassword", "otherScheme"} -> "none"
    [] OTHER -> IF _host_shareable(class) THEN class ELSE "none"
Shared(q) == {class \in q.now : classify_indicator(class) # "none"}

(* The gates come one after the other; the last one is that redaction has  *)
(* nothing to mask in the bundle.                                          *)
_write_bundle(q) == ~Has(q, "unwritable")
blueteam_stix_export(q) ==
  IF \/ Stops(q, {"disabled", "noIdentity", "noOwnedDomains"})
     \/ Shared(q) = {}
     \/ Stops(q, {"badMarkings", "maskable", "outside"})
     \/ ~_write_bundle(q)
  THEN Refusal
  ELSE Claiming(Told({}, {}, "written"),
                IF Shared(q) = q.now THEN "complete" ELSE "partial")
-----------------------------------------------------------------------------
(* The ATT&CK bundle: from a file, from a cache that is fresh, from the    *)
(* network, or again from the cache, however old.  While a retry is not    *)
(* due, and when a refresh fails, what was loaded before is served.        *)
_fetch_stix_bundle(q) ==
  Has(q, "local") \/ Has(q, "fresh") \/ ~IsLost(q, "bundle") \/ Has(q, "stale")
_load_stix(q) == Has(q, "loaded") \/ (~Has(q, "backingOff") /\ _fetch_stix_bundle(q))

blueteam_stix_analyze(q) ==
  IF ~_load_stix(q) THEN Refusal ELSE Told({}, {}, IF Has(q, "known") THEN "object" ELSE "not found")

(* A kill chain, of the techniques in the alerts of an address.            *)
_fetch_techniques_for_srcip(q) == IF IsLost(q, "alerts") THEN {} ELSE 1 .. q.out["alerts"]
_build_killchain(q) == _load_stix(q)
blueteam_stix_killchain(q) ==
  FromQuery(q, "alerts",
    IF _fetch_techniques_for_srcip(q) = {} THEN Told({{"alerts"}}, {}, "no_mitre_data")
    ELSE IF ~_build_killchain(q) THEN Refusal
    ELSE Told({{"alerts"}}, {}, "killchain"))

get_attack_mapping(q) ==
  IF Has(q, "mapped") \/ _load_stix(q) THEN Told({}, {}, "mapping") ELSE Refusal
blueteam_cve_attack_mapping(q) ==
  LET mapping == get_attack_mapping(q)
  IN  IF mapping.status = "error" THEN Refusal
      ELSE Told({}, {}, IF Has(q, "known") THEN "techniques" ELSE "none")
-----------------------------------------------------------------------------
(* Files.  A path is vetted before it is opened; a failure of the library  *)
(* is an error, never an empty document.                                   *)
blueteam_export_report(q) ==
  IF Stops(q, {"noLibrary", "outside", "unwritable", "crashes"}) THEN Refusal
  ELSE Told({}, {}, "written")

(* A PDF is read page by page until the budget of characters is spent: a   *)
(* page that cannot be read is named and skipped, one without text is not. *)
Pages == {"page1", "page2"}
_open_pdf(q) == ~Stops(q, {"outside", "encrypted", "notPdf"})
_read_page_batch(q, pages) == {p \in pages : HitsOf(q, p) > 0}
_extract_sync(q) ==
  LET read == IF Has(q, "spent") /\ HitsOf(q, "page1") > 0 THEN {"page1"} ELSE Pages
  IN  IF _read_page_batch(q, read) = {} THEN Refusal
      ELSE Claiming(Told(Each(read), LostOf(q, read), "text"),
                    IF read = Pages /\ LostOf(q, read) = {} THEN "complete" ELSE "partial")
blueteam_pdf_extract(q) == IF _open_pdf(q) THEN _extract_sync(q) ELSE Refusal

(* The converters: one takes a document without text for a failure, the    *)
(* other only a failure.                                                   *)
_convert_sync(q) == IF Stops(q, {"noLibrary", "crashes", "empty"}) THEN Refusal ELSE Told({}, {}, "text")
blueteam_markitdown_convert(q) ==
  IF Stops(q, {"outside", "tooBig", "otherType"}) THEN Refusal ELSE _convert_sync(q)
_parse_page_range(q) == ~Has(q, "badRange")
blueteam_document_convert(q) ==
  IF ~_parse_page_range(q) \/ Stops(q, {"outside", "tooBig", "otherType"}) THEN Refusal
  ELSE IF Stops(q, {"noLibrary", "crashes"}) THEN Refusal ELSE Told({}, {}, "text")

(* What is extracted is also recorded, as a lead.                          *)
_extract_iocs(q) == HitsOf(q, "text")
blueteam_extract_iocs(q) ==
  Told({{"text"}}, {}, IF _extract_iocs(q) = 0 THEN "none" ELSE "recorded")
-----------------------------------------------------------------------------
(* The knowledge base, seen from one call; RagStore has its rows.  The     *)
(* pages of a PDF that could be read are stored until the cap.             *)
Stored(q, answer) ==
  IF IsLost(q, "embedder") THEN Refusal
  ELSE [answer EXCEPT !.verdict = IF Has(q, "full") THEN "capped" ELSE "ingested",
                      !.claim = IF Has(q, "full") THEN "partial" ELSE answer.claim]
_ingest_pdf(q) ==
  IF ~_open_pdf(q) \/ _read_page_batch(q, Pages) = {} THEN Refusal
  ELSE Stored(q, Claiming(Told(Each(Pages), LostOf(q, Pages), "none"),
                          IF LostOf(q, Pages) = {} THEN "complete" ELSE "partial"))
blueteam_rag_ingest(q) ==
  IF Has(q, "noStore") THEN Refusal
  ELSE IF Has(q, "pdf") THEN _ingest_pdf(q)
  ELSE Stored(q, Claiming(Told({{"embedder"}}, {}, "none"), "complete"))

(* The best passages, in the order of the reranker if it runs; the tool    *)
(* says when it fell back to the order of the vectors.                     *)
rerank_hits(q) == IF Has(q, "rerank") THEN LostOf(q, {"reranker"}) ELSE {}
blueteam_rag_query(q) ==
  IF Has(q, "noCorpus") THEN Told({}, {}, "no_corpus")
  ELSE FromQuery(q, "embedder", Told({{"embedder"}}, rerank_hits(q), "passages"))
=============================================================================
