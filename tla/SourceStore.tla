----------------------------- MODULE SourceStore -----------------------------
(***************************************************************************)
(* The store of observed attack sources (core/source_store.py) under its   *)
(* two users in tools/source_forecast.py: an ingest, which saves the rows  *)
(* of a window, then the record that vouches for the window, then purges,  *)
(* each in a transaction of its own; and a prediction, which loads rows    *)
(* and then looks for a record that covers them.  A row is the alert it    *)
(* was made from, <<source, time>>.  The index shows an alert up to        *)
(* IndexLag ticks after its time, and an ingest may ask for a window that  *)
(* is not over yet.                                                        *)
(***************************************************************************)
EXTENDS Integers, FiniteSets

CONSTANTS
  Sources,            (* source addresses                                  *)
  Internal,           (* those that are private or malformed               *)
  MaxTime,            (* bound: the last tick of a behaviour               *)
  Retention,          (* retention_days, in ticks; 0: rows are kept        *)
  IndexLag,           (* how late the index may show an alert, in ticks    *)
  MaxRows,            (* max_rows                                          *)
  MinObservations,    (* min_observations                                  *)
  RequireComplete     (* require_complete_corpus                           *)

Clock == 0 .. MaxTime
Alerts == Sources \X Clock

ASSUME SourceAssumption ==
  /\ Internal \subseteq Sources
  /\ MaxTime \in Nat \ {0} /\ Retention \in Nat /\ IndexLag \in Nat /\ MaxRows \in Nat \ {0}
  /\ MinObservations \in Nat /\ RequireComplete \in BOOLEAN

VARIABLES
  now,
  feed,               (* usable alerts the index shows                     *)
  rows,               (* source_observations                               *)
  ingests,            (* source_ingests, by window                         *)
  job,                (* the ingest in progress                            *)
  guess,              (* the prediction in progress, or its answer         *)
  looked,             (* what the index showed when the ingest that wrote
                         the record of a window looked (for properties)    *)
  dropped             (* rows trimmed or purged (read by properties only)  *)

sourceVars == <<now, feed, rows, ingests, job, guess, looked, dropped>>

Windows == {w \in Clock \X Clock : w[1] < w[2]}
InWindow(S, since, until) == {e \in S : since <= e[2] /\ e[2] < until}

NoJob == [pc |-> "idle", window |-> <<0, 1>>, rows |-> {}, complete |-> FALSE, looked |-> {}]
NoGuess == [pc |-> "idle", start |-> 0, asOf |-> 0, rows |-> {}, covered |-> FALSE,
            looked |-> {}, allow |-> FALSE, status |-> "none"]

(* Records of complete and consistent ingests whose window covers another. *)
Complete == {w \in Windows : ingests[w] = "complete"}
CoversAnyPart(since, until) == {w \in Complete : w[1] < until /\ w[2] > since}   (* a variant *)
Covering(since, until) == {w \in Complete : w[1] <= since /\ w[2] >= until}

SourceInit ==
  /\ now = 0 /\ feed = {} /\ rows = {} /\ dropped = {}
  /\ ingests = [w \in Windows |-> "none"] /\ looked = [w \in Windows |-> {}]
  /\ job = NoJob /\ guess = NoGuess

Observe ==
  /\ \E s \in Sources \ Internal, t \in Clock :
       /\ t <= now /\ now <= t + IndexLag
       /\ feed' = feed \cup {<<s, t>>}
  /\ UNCHANGED <<now, rows, ingests, job, guess, looked, dropped>>

SourceTick ==
  /\ now < MaxTime /\ now' = now + 1
  /\ UNCHANGED <<feed, rows, ingests, job, guess, looked, dropped>>

(* _ingest up to the first transaction.  Any window is taken, one that ends *)
(* in the future too.  A complete sweep has the alerts of the window that  *)
(* the index shows, a degraded one some of them.  A degraded sweep may be  *)
(* refused, and one without rows leaves no trace.                          *)
Fetch ==
  /\ job.pc = "idle"
  /\ \E w \in Windows, complete \in BOOLEAN, S \in SUBSET feed :
       /\ S \subseteq InWindow(feed, w[1], w[2])
       /\ complete => S = InWindow(feed, w[1], w[2])
       /\ (complete \/ ~RequireComplete) /\ S # {}
       /\ job' = [pc |-> "save", window |-> w, rows |-> S, complete |-> complete,
                   looked |-> IF complete THEN feed ELSE {}]
  /\ UNCHANGED <<now, feed, rows, ingests, guess, looked, dropped>>

(* INSERT OR IGNORE, then the rows beyond max_rows go, oldest first; rows  *)
(* of one time in any order.                                               *)
Trimmed(S) ==
  IF Cardinality(S) <= MaxRows THEN {S}
  ELSE {K \in SUBSET S : /\ Cardinality(K) = MaxRows
                         /\ \A e \in K, d \in S \ K : e[2] >= d[2]}

(* A variant: the record before the rows.                                  *)
RecordFirst ==
  /\ job.pc = "save"
  /\ ingests' = [ingests EXCEPT ![job.window] = IF job.complete THEN "complete" ELSE "degraded"]
  /\ looked' = [looked EXCEPT ![job.window] = job.looked]
  /\ job' = [job EXCEPT !.pc = "record"]
  /\ UNCHANGED <<now, feed, rows, guess, dropped>>

SaveRows ==
  /\ job.pc = "save"
  /\ \E K \in Trimmed(rows \cup job.rows) :
       /\ rows' = K
       /\ dropped' = dropped \cup ((rows \cup job.rows) \ K)
  /\ job' = [job EXCEPT !.pc = "record"]
  /\ UNCHANGED <<now, feed, ingests, guess, looked>>

(* save_ingest replaces the record of an earlier run of the same window.   *)
SaveIngest ==
  /\ job.pc = "record"
  /\ ingests' = [ingests EXCEPT ![job.window] = IF job.complete THEN "complete" ELSE "degraded"]
  /\ looked' = [looked EXCEPT ![job.window] = job.looked]
  /\ job' = [NoJob EXCEPT !.pc = "purge"]
  /\ UNCHANGED <<now, feed, rows, guess, dropped>>

PurgeExpired ==
  /\ job.pc = "purge"
  /\ LET old == {e \in rows : Retention > 0 /\ e[2] < now - Retention}
     IN rows' = rows \ old /\ dropped' = dropped \cup old
  /\ job' = NoJob
  /\ UNCHANGED <<now, feed, ingests, guess, looked>>

(* A transaction fails, or the process dies: what was committed stays.     *)
IngestDies ==
  /\ job.pc # "idle" /\ job' = NoJob
  /\ UNCHANGED <<now, feed, rows, ingests, guess, looked, dropped>>

(* _predict: the rows of the history, which may be too few.  covered and   *)
(* looked say, for the properties, whether a record covered the history at   *)
(* that moment, and what the index showed to the ingests that did.         *)
LoadRows ==
  /\ guess.pc = "idle"
  /\ \E start \in Clock, asOf \in Clock, allow \in BOOLEAN :
       LET loaded == InWindow(rows, start, asOf)
           cover == Covering(start, asOf)
       IN /\ start < asOf /\ asOf <= now
          /\ guess' = IF Cardinality(loaded) < MinObservations
                      THEN [NoGuess EXCEPT !.pc = "done", !.status = "insufficient_history"]
                      ELSE [pc |-> "gate", start |-> start, asOf |-> asOf, rows |-> loaded,
                            covered |-> cover # {},
                            looked |-> InWindow(UNION {looked[w] : w \in cover}, start, asOf),
                            allow |-> allow, status |-> "none"]
  /\ UNCHANGED <<now, feed, rows, ingests, job, looked, dropped>>

(* The second transaction: the record that covers the history.             *)
Gate ==
  /\ guess.pc = "gate"
  /\ guess' = [guess EXCEPT !.pc = "done",
                 !.status = IF Covering(guess.start, guess.asOf) # {} THEN "ok"
                            ELSE IF guess.allow THEN "degraded" ELSE "corpus_unverified"]
  /\ UNCHANGED <<now, feed, rows, ingests, job, looked, dropped>>

Forget ==
  /\ guess.pc = "done" /\ guess' = NoGuess
  /\ UNCHANGED <<now, feed, rows, ingests, job, looked, dropped>>

SourceNext == Observe \/ SourceTick \/ Fetch \/ SaveRows \/ SaveIngest \/ PurgeExpired
              \/ IngestDies \/ LoadRows \/ Gate \/ Forget

SourceSpec == SourceInit /\ [][SourceNext]_sourceVars
-----------------------------------------------------------------------------
SourceTypeOK ==
  /\ now \in Clock /\ feed \subseteq Alerts /\ rows \subseteq feed /\ dropped \subseteq feed
  /\ ingests \in [Windows -> {"none", "complete", "degraded"}]
  /\ looked \in [Windows -> SUBSET feed]
  /\ job.pc \in {"idle", "save", "record", "purge"} /\ job.window \in Windows
  /\ job.rows \subseteq feed /\ job.complete \in BOOLEAN /\ job.looked \subseteq feed
  /\ guess.pc \in {"idle", "gate", "done"} /\ guess.rows \subseteq feed /\ guess.looked \subseteq feed

(* A prediction that calls its history verified has every alert of it that *)
(* the index showed to an ingest whose record covered the history when the *)
(* rows were loaded, but for rows trimmed or purged since.                 *)
VerifiedHasAll ==
  guess.status = "ok" => guess.looked \subseteq guess.rows \cup dropped

(* A verified ingest bounds the history of a prediction                    *)
(* (source_store.py:184): what happened in it, and was indexed at once, is *)
(* in the rows.                                                            *)
VerifiedIsAllThatHappened ==
  guess.status = "ok" /\ guess.covered
    => InWindow(feed, guess.start, guess.asOf) \subseteq guess.rows \cup dropped

(* The store implements the ledger: rows before the word on them, whatever *)
(* fails between the two.                                                  *)
Ledger == INSTANCE SourceLedger WITH
  happened <- feed, learned <- rows \cup dropped,
  look <- IF job.complete THEN {<<job.window, job.rows>>} ELSE {},
  vouched <- {<<w, InWindow(looked[w], w[1], w[2])>> : w \in Complete}
LedgerKept == Ledger!LedgerSpec
=============================================================================
