------------------------ MODULE MCInvestigationGraph ------------------------
(* Two runs.  The requests take every route between them; the fates let    *)
(* every node answer, fail, stall and be switched off.  The runs are       *)
(* interchangeable, so of two plans that differ by an exchange one is      *)
(* enough; runs of two subjects share nothing, so one such pair is enough. *)
EXTENDS InvestigationGraph, TLC
CONSTANTS r1, r2
Request(srcip, text, manifest, fp, report, record) ==
  [srcip |-> srcip, text |-> text, manifest |-> manifest, check_false_positive |-> fp,
   generate_report |-> report, record_verdict |-> record]
SomeRequests ==
  <<Request(TRUE, "iocs", FALSE, TRUE, FALSE, TRUE), Request(TRUE, "none", TRUE, FALSE, TRUE, FALSE),
    Request(FALSE, "plain", FALSE, FALSE, FALSE, TRUE), Request(FALSE, "none", FALSE, FALSE, FALSE, FALSE)>>
Good == [n \in Nodes |-> "ok"]
Mixed == [n \in Nodes |-> IF n \in {"recall", "label", "analytics", "report", "verdict"} THEN "fails"
                         ELSE IF n = "cluster" THEN "off" ELSE "stalls"]
Dead == [n \in Nodes |-> IF n = "analytics" THEN "stalls" ELSE IF n = "correlate" THEN "fails"
                         ELSE IF n \in {"recall", "label"} THEN "stalls" ELSE "off"]
SomeFates == <<Good, Mixed, Dead>>
Choice(a, b, c, d) ==
  (r1 :> [request |-> SomeRequests[a], fate |-> SomeFates[b]]) @@ (r2 :> [request |-> SomeRequests[c], fate |-> SomeFates[d]])
SomePlans ==
  {Choice(a, b, c, d) : <<a, b, c, d>> \in
     {<<a, b, c, d>> \in (1 .. 2) \X (1 .. 3) \X (1 .. 2) \X (1 .. 3) : 3 * a + b < 3 * c + d}}
  \cup {Choice(1, 1, 1, 1), Choice(3, 1, 3, 2), Choice(3, 1, 3, 3), Choice(1, 1, 3, 1), Choice(4, 1, 4, 2)}
=============================================================================
