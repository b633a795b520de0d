---------------------------- MODULE AlertPaging -----------------------------
(***************************************************************************)
(* Walks through the alerts of a window: a client calls a tool, follows    *)
(* the next_cursor of each answer and stops when there is none.  Alerts    *)
(* are indexed meanwhile.  A tool pages by whole alert: an answer holds as *)
(* many as fit, and an alert that fits into no answer is listed by its id. *)
(* The time window is computed again for every call: a relative one slides *)
(* forward between the calls of a walk, and alerts drop out of it.         *)
(*                                                                         *)
(* An alert is a number; At gives its timestamp, and two may share one.    *)
(***************************************************************************)
EXTENDS Integers, Sequences, FiniteSets, SequencesExt, FiniteSetsExt

CONSTANTS
  Alerts,       (* alerts, numbered in the order of their _id              *)
  At,           (* timestamp of each                                       *)
  TooLarge,         (* alerts larger than an answer may be                     *)
  Limit,        (* alerts asked for a page                                 *)
  Room,         (* alerts that fit an answer                               *)
  Blocks,       (* alerts a markdown answer renders (20)                   *)
  MaxScan,      (* max_scanned of an auto-paginated call, max_docs         *)
  TotalCap,     (* a total the indexer counts no further than (10 000)     *)
  TailLines,    (* _WAZUH_ALERTS_MAX_LINES                                 *)
  PagingTools   (* the tools a run walks with                              *)

ASSUME PagingAssumption ==
  /\ Alerts \subseteq Nat \ {0} /\ IsFiniteSet(Alerts)
  /\ At \in [Alerts -> Nat] /\ TooLarge \subseteq Alerts
  /\ {Limit, Room, Blocks, MaxScan, TotalCap, TailLines} \subseteq Nat \ {0}
  /\ PagingTools \subseteq {"alerts", "local", "search", "crawl", "crawlMarkdown", "domain", "export"}

VARIABLES
  index,    (* alerts the indexer holds of the window                      *)
  floor,    (* where the window begins; its end is now                     *)
  alertLog, (* lines of the local alerts.json                              *)
  walk      (* the client's walk and the call it waits for                 *)

pagingVars == <<index, floor, alertLog, walk>>

NoCursor == 0          (* no cursor *)
NoWalk == [tool |-> "none", state |-> "idle", cursor |-> NoCursor, scan |-> << >>,
           shown |-> {}, listed |-> {}, again |-> FALSE,
           base |-> {},    (* of the window since the walk began, and still *)
           capped |-> FALSE]            (* an answer met a total that is not exact *)
-----------------------------------------------------------------------------
(* Sorted by timestamp and _id; blueteam_wazuh_alerts sorts by timestamp   *)
(* alone, so that a cursor passes over what shares its timestamp.          *)
Later(a, b) == At[a] > At[b] \/ (At[a] = At[b] /\ a > b)
Newer(a, b) == At[a] > At[b]
After(tool, cursor) ==
  IF cursor = NoCursor THEN index
  ELSE {a \in index : IF tool = "alerts" THEN Newer(a, cursor) ELSE Later(a, cursor)}
InOrder(S) ==
  [i \in 1..Cardinality(S) |-> CHOOSE a \in S : Cardinality({b \in S : Later(a, b)}) = i - 1]
Hits(tool, cursor, size) ==
  LET hits == InOrder(After(tool, cursor)) IN SubSeq(hits, 1, Min({size, Len(hits)}))

(* _fit_document_prefix: the longest prefix that fits.                     *)
FitsAnswer(hits, k) == k <= Room /\ \A i \in 1..k : hits[i] \notin TooLarge
FitPrefix(hits) == Max({k \in 0..Len(hits) : FitsAnswer(hits, k)})

(* An answer of the first k hits: what it shows, what it lists, and the    *)
(* cursor, which is the last alert it shows, or the one it lists.          *)
Boundary(hits, k) == IF k > 0 THEN hits[k] ELSE hits[1]
PrefixBeforeNext(hits, k, rest) ==            (* a variant: one alert ahead *)
  [shows |-> ToSet(SubSeq(hits, 1, k)),
   lists |-> IF k = 0 /\ hits # << >> THEN {hits[1]} ELSE {},
   next |-> IF k < Len(hits) THEN hits[k + 1] ELSE rest]
Prefix(hits, k, rest) ==
  [shows |-> ToSet(SubSeq(hits, 1, k)),
   lists |-> IF k = 0 /\ hits # << >> THEN {hits[1]} ELSE {},
   next |-> IF k < Len(hits) THEN Boundary(hits, k) ELSE rest]

(* A page that is not full is the last one.                                *)
FullPage(hits) == IF Len(hits) >= Limit THEN Last(hits) ELSE NoCursor

(* blueteam_wazuh_alerts without a local file, and wazuh_alert_focused_     *)
(* crawl in json.  In markdown the crawl renders the first Blocks hits.    *)
Paged(hits) == Prefix(hits, FitPrefix(hits), FullPage(hits))
Rendered(hits) ==
  LET blocks == SubSeq(hits, 1, Min({Blocks, Len(hits)}))
  IN  Prefix(blocks, FitPrefix(blocks), FullPage(hits))

(* wazuh_domain_lookup does not page by what fits: _truncate_if_needed     *)
(* replaces an answer over the limit, its cursor with it, by an error.     *)
Refused(hits) == walk.tool = "domain" /\ ~FitsAnswer(hits, Len(hits))
Listed(hits) == [shows |-> ToSet(hits), lists |-> {}, next |-> FullPage(hits)]

(* blueteam_wazuh_indexer_search goes on while it has met fewer alerts in  *)
(* this call than match, with or without the cursor.                       *)
Searched(hits) ==
  Prefix(hits, FitPrefix(hits),
         IF hits # << >> /\ Len(hits) < Min({Cardinality(index), TotalCap}) THEN Last(hits) ELSE NoCursor)

(* The local file: the call reads the last lines, three times what it has  *)
(* skipped and wants, and skips that many from their beginning.            *)
Tail3(skip) == LET n == Min({(skip + Limit) * 3, TailLines, Len(alertLog)})
               IN SubSeq(alertLog, Len(alertLog) - n + 1, Len(alertLog))
LocalPage(skip) ==
  LET lines == Tail3(skip)
      kept == SubSeq(lines, skip + 1, Min({skip + Limit, Len(lines)}))
      scanned == Min({skip + Limit + 1, Len(lines)})   (* the line that stopped it, too *)
      k == FitPrefix(kept)
  IN  [shows |-> ToSet(SubSeq(kept, 1, k)),
       lists |-> IF k = 0 /\ kept # << >> THEN {kept[1]} ELSE {},
       next |-> IF k < Len(kept) THEN skip + (IF k > 0 THEN k ELSE 1)
                ELSE IF Len(kept) >= Limit THEN scanned ELSE NoCursor]
-----------------------------------------------------------------------------
PagingTypeOK ==
  /\ index \subseteq Alerts /\ floor \in Nat
  /\ ToSet(alertLog) \subseteq Alerts
  /\ walk.tool \in PagingTools \cup {"none"}
  /\ walk.state \in {"idle", "walking", "scanning", "ended", "failed"}
  /\ walk.shown \cup walk.listed \cup walk.base \cup ToSet(walk.scan) \subseteq Alerts

PagingInit ==
  /\ index \in SUBSET Alerts
  /\ alertLog = InOrder(index) /\ floor = 0
  /\ walk = NoWalk

(* An alert is written to the file and indexed;  not later than any before. *)
Arrive(a) ==
  /\ a \notin index /\ At[a] >= floor
  /\ \A b \in index : At[b] <= At[a]
  /\ index' = index \cup {a}
  /\ alertLog' = Append(alertLog, a)
  /\ UNCHANGED <<floor, walk>>

(* Time passes between two calls, and a relative window slides.            *)
Slide ==
  /\ walk.state = "walking" /\ walk.tool # "local"
  /\ \E a \in index :
       /\ floor' = At[a] + 1
       /\ index' = {b \in index : At[b] >= floor'}
       /\ walk' = [walk EXCEPT !.base = @ \cap index']
  /\ UNCHANGED alertLog

BeginWalk(tool) ==
  /\ walk.state = "idle"
  /\ walk' = [NoWalk EXCEPT !.tool = tool, !.state = "walking", !.base = index]
  /\ UNCHANGED <<index, floor, alertLog>>

Receive(page) ==
  walk' = [walk EXCEPT !.state = IF page.next = NoCursor THEN "ended" ELSE "walking",
                       !.cursor = page.next, !.scan = << >>,
                       !.shown = @ \cup page.shows, !.listed = @ \cup page.lists,
                       !.capped = @ \/ (walk.tool = "search" /\ Cardinality(index) > TotalCap),
                       !.again = @ \/ page.shows \cap (walk.shown \cup walk.listed) # {}]

(* One query, one answer.                                                  *)
Turn ==
  /\ walk.state = "walking" /\ walk.tool \notin {"search", "export"}
  /\ LET hits == Hits(walk.tool, walk.cursor, Limit)
     IN IF Refused(hits) THEN walk' = [walk EXCEPT !.state = "failed"]
        ELSE Receive(CASE walk.tool \in {"alerts", "crawl"} -> Paged(hits)
                       [] walk.tool = "crawlMarkdown" -> Rendered(hits)
                       [] walk.tool = "domain" -> Listed(hits)
                       [] walk.tool = "local" -> LocalPage(walk.cursor))
  /\ UNCHANGED <<index, floor, alertLog>>

(* A search asks for page after page until it has MaxScan alerts, a page   *)
(* is short, or a page fails; what it has by then it returns.              *)
ScanFrom == IF walk.scan = << >> THEN walk.cursor ELSE Last(walk.scan)
AskSearch ==
  /\ walk.tool = "search" /\ walk.state \in {"walking", "scanning"}
  /\ LET size == Min({Limit, MaxScan - Len(walk.scan)})
         hits == Hits("search", ScanFrom, size)
         scan == walk.scan \o hits
     IN IF Len(hits) < Limit \/ Len(scan) >= MaxScan
        THEN Receive(Searched(scan))
        ELSE walk' = [walk EXCEPT !.state = "scanning", !.scan = scan]
  /\ UNCHANGED <<index, floor, alertLog>>
SearchPageFails ==
  /\ walk.tool = "search" /\ walk.state = "scanning"
  /\ Receive(Searched(walk.scan))
  /\ UNCHANGED <<index, floor, alertLog>>

(* Export scrolls over what was indexed when it began, and says "partial"  *)
(* when a page fails.                                                      *)
Scroll ==
  /\ walk.tool = "export" /\ walk.state \in {"walking", "scanning"}
  /\ LET left == InOrder(walk.base \ walk.shown)
         page == SubSeq(left, 1, Min({Limit, Len(left), MaxScan - Cardinality(walk.shown)}))
     IN walk' = IF page = << >> THEN [walk EXCEPT !.state = "ended"]
                ELSE [walk EXCEPT !.state = "scanning", !.shown = @ \cup ToSet(page)]
  /\ UNCHANGED <<index, floor, alertLog>>

(* A failed query of any other call is an error answer.                    *)
TurnFails ==
  /\ walk.state = "walking" \/ (walk.tool = "export" /\ walk.state = "scanning")
  /\ walk' = [walk EXCEPT !.state = "failed"]
  /\ UNCHANGED <<index, floor, alertLog>>

PagingNext ==
  \/ \E a \in Alerts : Arrive(a)
  \/ Slide
  \/ \E tool \in PagingTools : BeginWalk(tool)
  \/ Turn \/ AskSearch \/ SearchPageFails \/ Scroll \/ TurnFails

PagingSpec == PagingInit /\ [][PagingNext]_pagingVars
-----------------------------------------------------------------------------
(* A walk that ended without an error has shown every alert that was there *)
(* from the beginning and did not drop out of its window, or listed it as  *)
(* too large, and none twice; a search, unless more matched than the       *)
(* indexer counts.                                                         *)
NothingLeftOut ==
  walk.state = "ended" /\ walk.tool \in {"search", "crawl", "domain"} /\ ~walk.capped =>
    walk.base \subseteq walk.shown \cup walk.listed /\ ~walk.again

(* The same of every tool that pages: "a next_cursor that resumes exactly  *)
(* after the last returned document".                                      *)
ResumesExactly ==
  walk.state = "ended" /\ walk.tool # "export" =>
    walk.base \subseteq walk.shown \cup walk.listed /\ ~walk.again
=============================================================================
