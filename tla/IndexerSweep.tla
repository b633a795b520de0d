---------------------------- MODULE IndexerSweep ----------------------------
(***************************************************************************)
(* The paged sweep of the alert index behind every forecast and ingest     *)
(* (tools/forecast.py), over the client's response cache                   *)
(* (wazuh/indexer.py).  Pages come newest first, each an await of its own, *)
(* while alerts are indexed late, or removed, on either side of the        *)
(* cursor; a closing count is to tell whether the sweep saw everything.    *)
(*                                                                         *)
(* An alert is a number, a newer one a larger number, and Stamp says which *)
(* alerts carry the same @timestamp.                                       *)
(***************************************************************************)
EXTENDS Integers, FiniteSets, FiniteSetsExt

CONSTANTS
  Newest,         (* alerts are 1 .. Newest                                *)
  Stamp,          (* [alert -> @timestamp], in the order of the alerts     *)
  PageSize,       (* fetch_page_size                                       *)
  MaxHits,        (* max_hits                                              *)
  MaxSweeps,      (* bound: sweeps of one window in a behaviour            *)
  MaxChanges      (* bound: alerts that come or go                         *)

Documents == 1 .. Newest
Modes == {"timestamp_id", "timestamp_only"}

ASSUME SweepAssumption ==
  /\ Newest \in Nat /\ PageSize \in Nat \ {0} /\ MaxHits \in Nat /\ MaxHits >= PageSize
  /\ Stamp \in [Documents -> Nat] /\ \A a, b \in Documents : a < b => Stamp[a] <= Stamp[b]

VARIABLES
  index,          (* alerts the index holds for the window                 *)
  removed,        (* alerts it once held                                   *)
  replies,        (* _INDEXER_CACHE: question -> answer                    *)
  sweep,          (* the fetch in progress                                 *)
  sweeps, changes (* counters of the bounds                                *)

sweepVars == <<index, removed, replies, sweep, sweeps, changes>>

(* A question is the body of a search: a page below a cursor, or the count.*)
Counting == [mode |-> "count", below |-> 0, size |-> 0]
PageOf(s) == [mode |-> s.mode, below |-> s.below,
              size |-> IF MaxHits - Cardinality(s.hits) < PageSize
                       THEN MaxHits - Cardinality(s.hits) ELSE PageSize]

(* The newest n of S.                                                      *)
TakeNewest(S, n) == {a \in S : Cardinality({b \in S : b >= a}) <= n}

(* What the index answers: shards that fail leave out their alerts.        *)
Answers(q, lost) ==
  [partial |-> lost # {},
   hits |-> IF q.mode = "count" THEN index \ lost
            ELSE TakeNewest({a \in index \ lost : a < q.below}, q.size)]

Idle == [pc |-> "idle", mode |-> "timestamp_id", below |-> Newest + 1, hits |-> {},
         pages |-> 0, partial |-> FALSE, stop |-> "none", complete |-> FALSE,
         counted |-> {}, fresh |-> TRUE]

SweepInit ==
  /\ index \in {{}, Documents \ {Newest}}
  /\ removed = {} /\ replies = {} /\ sweep = Idle /\ sweeps = 0 /\ changes = 0

BeginSweep ==
  /\ sweep.pc \in {"idle", "done"} /\ sweeps < MaxSweeps
  /\ sweep' = [Idle EXCEPT !.pc = "page"]
  /\ sweeps' = sweeps + 1
  /\ UNCHANGED <<index, removed, replies, changes>>

(* A cached answer is served while it lives; a new one is cached, partial  *)
(* or not.  An error is neither.                                           *)
Cached(q) == {r \in replies : r.to = q}
Asked(q, reply, fresh) ==
  \/ /\ \E r \in Cached(q) : reply = r.reply
     /\ ~fresh /\ UNCHANGED replies
  \/ /\ Cached(q) = {} /\ fresh
     /\ replies' = replies \cup {[to |-> q, reply |-> reply]}

(* search_after: with the _id as a tie break below the last hit, without   *)
(* it below every alert of that time.                                      *)
Cursor(s, hits) ==
  LET last == Min(hits)
  IN IF s.mode = "timestamp_id" THEN last
     ELSE Min({a \in Documents : Stamp[a] = Stamp[last]})

(* One page is in: go on, stop at the end, or stop at the cap.  A sweep is *)
(* counted when it ended by itself or at the cap, on whole shards, with    *)
(* the tie break.                                                          *)
AfterPage(s, reply) ==
  LET t == [s EXCEPT !.hits = @ \cup reply.hits, !.pages = @ + 1, !.partial = @ \/ reply.partial]
      asked == PageOf(s).size
      why == IF Cardinality(t.hits) >= MaxHits /\ Cardinality(reply.hits) = asked THEN "max_hits"
             ELSE IF t.partial THEN "shard_partial" ELSE "exhausted"
      more == Cardinality(reply.hits) = asked /\ Cardinality(t.hits) < MaxHits
  IN IF more THEN [t EXCEPT !.below = Cursor(s, reply.hits)]
     ELSE IF t.mode = "timestamp_id" /\ ~t.partial
     THEN [t EXCEPT !.pc = "count", !.stop = why]
     ELSE [t EXCEPT !.pc = "done", !.stop = why]

FetchPage ==
  /\ sweep.pc = "page"
  /\ \E lost \in {{}} \cup {{a} : a \in index}, fresh \in BOOLEAN :
       \E reply \in {Answers(PageOf(sweep), lost)} \cup {r.reply : r \in Cached(PageOf(sweep))} :
         /\ Asked(PageOf(sweep), reply, fresh)
         /\ sweep' = AfterPage(sweep, reply)
  /\ UNCHANGED <<index, removed, sweeps, changes>>

(* The index refuses to sort on _id: once, on the first page.              *)
FallBack ==
  /\ sweep.pc = "page" /\ sweep.pages = 0 /\ sweep.mode = "timestamp_id"
  /\ Cached(PageOf(sweep)) = {}
  /\ sweep' = [sweep EXCEPT !.mode = "timestamp_only"]
  /\ UNCHANGED <<index, removed, replies, sweeps, changes>>

(* A page fails: what was fetched is kept and called incomplete.           *)
PageFails ==
  /\ sweep.pc = "page" /\ Cached(PageOf(sweep)) = {}
  /\ sweep' = [sweep EXCEPT !.pc = "done", !.stop = "error"]
  /\ UNCHANGED <<index, removed, replies, sweeps, changes>>

(* A variant the property must tell from the code: an approximate count.   *)
AfterCountAtLeast(s, reply, fresh) ==
  [s EXCEPT !.pc = "done", !.counted = index, !.fresh = fresh,
            !.complete = ~reply.partial /\ Cardinality(reply.hits) >= Cardinality(s.hits)]

(* _count_tactic_observations, and the comparison with what was fetched.   *)
AfterCount(s, reply, fresh) ==
  LET whole == ~reply.partial /\ Cardinality(reply.hits) = Cardinality(s.hits)
  IN [s EXCEPT !.pc = "done", !.complete = whole, !.counted = index, !.fresh = fresh,
               !.stop = IF whole \/ @ = "max_hits" THEN @
                        ELSE IF reply.partial THEN "verification_failed" ELSE "count_mismatch"]

Count ==
  /\ sweep.pc = "count"
  /\ \E lost \in {{}} \cup {{a} : a \in index}, fresh \in BOOLEAN :
       \E reply \in {Answers(Counting, lost)} \cup {r.reply : r \in Cached(Counting)} :
         /\ Asked(Counting, reply, fresh)
         /\ sweep' = AfterCount(sweep, reply, fresh)
  /\ UNCHANGED <<index, removed, sweeps, changes>>

CountFails ==
  /\ sweep.pc = "count" /\ Cached(Counting) = {}
  /\ sweep' = [sweep EXCEPT !.pc = "done",
                            !.stop = IF @ = "exhausted" THEN "verification_failed" ELSE @]
  /\ UNCHANGED <<index, removed, replies, sweeps, changes>>

(* The world: alerts are indexed, late ones too, and rotated out; cached   *)
(* answers reach the end of their time.                                    *)
IndexAlert ==
  /\ changes < MaxChanges
  /\ \E a \in Documents \ (index \cup removed) : index' = index \cup {a}
  /\ changes' = changes + 1
  /\ UNCHANGED <<removed, replies, sweep, sweeps>>
RemoveAlert ==
  /\ changes < MaxChanges
  /\ \E a \in index : index' = index \ {a} /\ removed' = removed \cup {a}
  /\ changes' = changes + 1
  /\ UNCHANGED <<replies, sweep, sweeps>>
ExpireReply ==
  /\ \E r \in replies : replies' = replies \ {r}
  /\ UNCHANGED <<index, removed, sweep, sweeps, changes>>

SweepNext == BeginSweep \/ FetchPage \/ FallBack \/ PageFails \/ Count \/ CountFails
             \/ IndexAlert \/ RemoveAlert \/ ExpireReply

SweepSpec == SweepInit /\ [][SweepNext]_sweepVars
-----------------------------------------------------------------------------
SweepTypeOK ==
  /\ index \subseteq Documents /\ removed \subseteq Documents \ index
  /\ sweep.pc \in {"idle", "page", "count", "done"} /\ sweep.mode \in Modes
  /\ sweep.hits \subseteq Documents /\ sweep.below \in 0 .. Newest + 1
  /\ sweep.complete \in BOOLEAN
  /\ Cardinality(sweep.hits) <= MaxHits

(* A sweep that calls its window complete has every alert of the moment of *)
(* its count, whatever was indexed behind its cursor meanwhile: the count  *)
(* was asked of the index, not of the cache, and nothing was removed (one  *)
(* alert gone and another come leave the count as it was).                 *)
CompleteIsExact ==
  sweep.complete /\ sweep.fresh /\ removed = {} => sweep.hits = sweep.counted
=============================================================================
