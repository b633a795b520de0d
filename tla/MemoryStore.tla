---------------------------- MODULE MemoryStore ----------------------------
(***************************************************************************)
(* The investigation memory of one subject (core/memory_store.py): its     *)
(* rows in a SQLite table, record_decision as two transactions of          *)
(* concurrent writers, recall, withdrawal and retention.  No statement     *)
(* reads another subject's rows, so one subject is enough; record_unit,    *)
(* which no code calls, is left out.                                       *)
(*                                                                         *)
(* db is the committed table, a function from dedupe keys to rows, and txn *)
(* the uncommitted one of the writer that holds the write lock.  A row     *)
(* keeps what the properties tell apart: whether it is authoritative       *)
(* (type world, analyst, untainted), support_count, last_seen, and whether *)
(* it is withdrawn.                                                        *)
(***************************************************************************)
EXTENDS Integers, FiniteSets, FiniteSetsExt

CONSTANTS
  Writers,    (* threads and processes that record verdicts                *)
  Verdicts,   (* VERDICTS                                                  *)
  Notes,      (* analyst notes after strip(), NoNote included              *)
  NoNote,     (* the empty note                                            *)
  Marked,     (* the notes that contain AUTO_VERDICT_NOTE                  *)
  Folded,     (* _normalized_text, a function on Notes                     *)
  Cap,        (* _max_units_per_subject                                    *)
  Ttl,        (* _ttl_seconds, 0 when retention is off                     *)
  SupportCap, (* _SUPPORT_HORIZON_CAP                                      *)
  DecayAge,   (* the age at which the decay weight is _MIN_DECAY_EVICT     *)
  MaxMoment,  (* bound: the last moment                                   *)
  MaxCalls,   (* bound: record_decision calls                              *)
  Nobody      (* the lock is free                                          *)

ASSUME MemoryAssumption ==
  /\ NoNote \in Notes /\ Marked \subseteq Notes
  /\ IsFiniteSet(Notes) /\ IsFiniteSet(Verdicts)
  /\ Cap \in Nat \ {0} /\ Ttl \in Nat /\ SupportCap \in Nat \ {0} /\ DecayAge \in Nat
  /\ MaxMoment \in Nat /\ MaxCalls \in Nat
  /\ Nobody \notin Writers

VARIABLES
  moment,    (* the clock                                                 *)
  db,         (* the committed rows                                        *)
  lock,       (* the holder of SQLite's write lock                         *)
  txn,        (* the rows the lock's holder sees, and the confirmations it *)
              (* has deleted (the latter for the properties only)          *)
  pc,         (* idle, waiting for the lock, or writing with it            *)
  unit,       (* which of the two units is being written                   *)
  request,    (* the arguments of each call, and its _now_iso              *)
  decision,   (* the decision's outcome, of the last call                  *)
  (* History, read by the properties only:                                 *)
  calls,      (* calls so far                                              *)
  confirmed,  (* upserts that committed                                    *)
  expired     (* confirmations deleted by retention that committed         *)

memoryVars == <<moment, db, lock, txn, pc, unit, request, decision, calls, confirmed, expired>>

Trusts == {"analyst", "workflow"}
Keys == ({"decision"} \X Verdicts \X Trusts) \cup ({"reason"} \X (Notes \ {NoNote}) \X {"workflow"})
Rows == [world : BOOLEAN, support : Nat \ {0}, last : Nat, withdrawn : BOOLEAN]
IsStore(s) == DOMAIN s \subseteq Keys /\ s \in [DOMAIN s -> Rows]
Calls == [verdict : Verdicts, by : Trusts, note : Notes, at : Nat]
Empty == [k \in {} |-> 0]
NoTxn == [rows |-> Empty, gone |-> 0]

MemoryTypeOK ==
  /\ moment \in 0 .. MaxMoment
  /\ IsStore(db) /\ IsStore(txn.rows) /\ txn.gone \in Nat
  /\ lock \in Writers \cup {Nobody}
  /\ pc \in [Writers -> {"idle", "waiting", "writing"}]
  /\ unit \in [Writers -> {"decision", "reason"}]
  /\ request \in [Writers -> Calls]
  /\ decision \in [Writers -> {"none", "inserted", "reaffirmed", "capacity", "unavailable"}]
  /\ calls \in Nat /\ confirmed \in Nat /\ expired \in Nat

MemoryInit ==
  /\ moment = 0
  /\ db = Empty /\ txn = NoTxn
  /\ lock = Nobody
  /\ pc = [w \in Writers |-> "idle"]
  /\ unit = [w \in Writers |-> "decision"]
  /\ request \in [Writers -> [verdict : Verdicts, by : {"workflow"}, note : {NoNote}, at : {0}]]
  /\ decision = [w \in Writers |-> "none"]
  /\ calls = 0 /\ confirmed = 0 /\ expired = 0

----------------------------------------------------------------------------
(* Retention.                                                              *)

ProtectsDecisionsOnly(row) == row.world
Protected(row) == row.withdrawn \/ row.world

Lesser(m, n) == IF m < n THEN m ELSE n
Horizon(row) == Ttl * Lesser(row.support, SupportCap)

(* Past the retention horizon and below the decay floor.                   *)
Evictable(row) ==
  /\ ~Protected(row)
  /\ Ttl > 0
  /\ moment - row.last > Horizon(row)
  /\ moment - row.last > DecayAge

EvictableKeys(s) == {k \in DOMAIN s : Evictable(s[k])}
Without(s, K) == [k \in DOMAIN s \ K |-> s[k]]

(* _eviction_order: oldest last_seen, then least confirmed.                *)
Before(r, q) == r.last < q.last \/ (r.last = q.last /\ r.support < q.support)

(* As RoomFor would be if whatever is oldest went.                         *)
RoomOfOldest(s) ==
  LET over == Cardinality(DOMAIN s) - Cap + 1
  IN  {K \in SUBSET (DOMAIN s) :
         /\ Cardinality(K) = IF over < 0 THEN 0 ELSE over
         /\ \A k \in K, j \in DOMAIN s \ K : ~Before(s[j], s[k])}

(* The keys that go to make room: as many as are needed, in that order.    *)
RoomFor(s) ==
  LET over == Cardinality(DOMAIN s) - Cap + 1
      can == EvictableKeys(s)
  IN  {K \in SUBSET can :
         /\ Cardinality(K) = IF over < 0 THEN 0 ELSE Lesser(over, Cardinality(can))
         /\ \A k \in K, j \in can \ K : ~Before(s[j], s[k])}

(* Reasons fold when they are unprotected and their texts normalize alike. *)
Foldable(s) == {k \in DOMAIN s : k[1] = "reason" /\ ~Protected(s[k])}
Group(s, k) == {j \in Foldable(s) : Folded[j[2]] = Folded[k[2]]}

Support(s, K) == MapThenSumSet(LAMBDA k : s[k].support, K)
Latest(s, K) == CHOOSE t \in {s[k].last : k \in K} : \A k \in K : s[k].last <= t

Merged(s, k) ==
  [s[k] EXCEPT !.support = Support(s, Group(s, k)), !.last = Latest(s, Group(s, k))]

(* _consolidate_subject: one survivor of each group.  Which one (the oldest *)
(* first_seen, then the random unit_id) is left open.                      *)
Survivors(s) ==
  {S \in SUBSET Foldable(s) : \A k \in Foldable(s) : Cardinality(S \cap Group(s, k)) = 1}
Consolidate(s, S) ==
  [k \in (DOMAIN s \ Foldable(s)) \cup S |-> IF k \in S THEN Merged(s, k) ELSE s[k]]

----------------------------------------------------------------------------
(* record_decision.                                                        *)

(* Only a reduction of trust is read from the note.                        *)
Advisory(c) == c.by # "analyst" \/ c.note \in Marked

KeyIgnoresTrust(c, u) ==
  IF u = "decision" THEN <<"decision", c.verdict, "workflow">>
                    ELSE <<"reason", c.note, "workflow">>

(* The dedupe key: the trust class is part of a decision's.                *)
KeyOf(c, u) ==
  IF u = "decision"
  THEN <<"decision", c.verdict, IF Advisory(c) THEN "workflow" ELSE "analyst">>
  ELSE <<"reason", c.note, "workflow">>
FreshRowUncounted(c, u) ==
  [world |-> u = "decision" /\ ~Advisory(c), support |-> 0, last |-> c.at,
   withdrawn |-> FALSE]
FreshRow(c, u) ==
  [world |-> u = "decision" /\ ~Advisory(c), support |-> 1, last |-> c.at,
   withdrawn |-> FALSE]

(* _UPSERT: a conflict touches last_seen and support_count only.           *)
Upsert(s, c, u) ==
  LET key == KeyOf(c, u)
      row == IF key \in DOMAIN s
             THEN [s[key] EXCEPT !.support = @ + 1, !.last = c.at]
             ELSE FreshRow(c, u)
  IN  [k \in DOMAIN s \cup {key} |-> IF k = key THEN row ELSE s[k]]

(* A writer's timestamp is taken once, before it waits for the lock.       *)
Start(w, v, by, note) ==
  /\ pc[w] = "idle"
  /\ calls < MaxCalls
  /\ calls' = calls + 1
  /\ request' = [request EXCEPT ![w] = [verdict |-> v, by |-> by, note |-> note, at |-> moment]]
  /\ pc' = [pc EXCEPT ![w] = "waiting"]
  /\ unit' = [unit EXCEPT ![w] = "decision"]
  /\ decision' = [decision EXCEPT ![w] = "none"]
  /\ UNCHANGED <<moment, db, lock, txn, confirmed, expired>>

Retained(s, K) == [rows |-> Without(s, K), gone |-> Support(s, K)]

(* At the cap, duplicates are folded and then evidence expires.            *)
UnderPressure(s) ==
  IF Cardinality(DOMAIN s) < Cap THEN {[rows |-> s, gone |-> 0]}
  ELSE UNION {LET folded == Consolidate(s, S)
              IN  {Retained(folded, K) : K \in RoomFor(folded)} : S \in Survivors(s)}

BeginDeferred(w) ==
  /\ pc[w] = "waiting"
  /\ lock' = w
  /\ txn' \in UnderPressure(db)
  /\ pc' = [pc EXCEPT ![w] = "writing"]
  /\ UNCHANGED <<moment, db, unit, request, decision, calls, confirmed, expired>>

(* BEGIN IMMEDIATE, the count, and what it asks for.                       *)
Begin(w) ==
  /\ pc[w] = "waiting"
  /\ lock = Nobody
  /\ lock' = w
  /\ txn' \in UnderPressure(db)
  /\ pc' = [pc EXCEPT ![w] = "writing"]
  /\ UNCHANGED <<moment, db, unit, request, decision, calls, confirmed, expired>>

(* What follows a unit: the reason, or the answer.                         *)
Proceed(w, outcome) ==
  /\ decision' = IF unit[w] = "decision" THEN [decision EXCEPT ![w] = outcome] ELSE decision
  /\ IF /\ unit[w] = "decision"
        /\ outcome # "unavailable"
        /\ request[w].note # NoNote
        /\ ~Advisory(request[w])
     THEN /\ pc' = [pc EXCEPT ![w] = "waiting"]
          /\ unit' = [unit EXCEPT ![w] = "reason"]
     ELSE /\ pc' = [pc EXCEPT ![w] = "idle"]
          /\ UNCHANGED unit

Commit(w, s, outcome) ==
  /\ db' = s
  /\ confirmed' = confirmed + 1
  /\ expired' = expired + txn.gone
  /\ Proceed(w, outcome)

Rollback(w) ==
  /\ Proceed(w, "capacity")
  /\ UNCHANGED <<db, confirmed, expired>>

WriteUncounted(w) ==
  /\ pc[w] = "writing"
  /\ LET s == Upsert(txn.rows, request[w], unit[w])
     IN  Commit(w, s, "inserted")
  /\ lock' = Nobody
  /\ txn' = NoTxn
  /\ UNCHANGED <<moment, request, calls>>

(* The upsert, the second count, and COMMIT or ROLLBACK: a rollback takes  *)
(* the folding and the expiry back as well.                                *)
Write(w) ==
  /\ pc[w] = "writing"
  /\ LET key == KeyOf(request[w], unit[w])
         s == Upsert(txn.rows, request[w], unit[w])
     IN  IF key \in DOMAIN txn.rows THEN Commit(w, s, "reaffirmed")
         ELSE IF Cardinality(DOMAIN s) <= Cap THEN Commit(w, s, "inserted")
         ELSE Rollback(w)
  /\ lock' = Nobody
  /\ txn' = NoTxn
  /\ UNCHANGED <<moment, request, calls>>

(* _LOCK_TIMEOUT passes while another transaction holds the lock.          *)
LockTimeout(w) ==
  /\ pc[w] = "waiting"
  /\ lock # Nobody
  /\ Proceed(w, "unavailable")
  /\ UNCHANGED <<moment, db, lock, txn, request, calls, confirmed, expired>>

(* The process dies: SQLite frees its lock and drops its transaction.      *)
Crash(w) ==
  /\ pc[w] # "idle"
  /\ pc' = [pc EXCEPT ![w] = "idle"]
  /\ IF lock = w THEN lock' = Nobody /\ txn' = NoTxn ELSE UNCHANGED <<lock, txn>>
  /\ UNCHANGED <<moment, db, unit, request, decision, calls, confirmed, expired>>

----------------------------------------------------------------------------
(* The operator.                                                           *)

(* prune_memory: one transaction, which waits for the lock like any other. *)
PruneMemory ==
  /\ lock = Nobody
  /\ db # Empty
  /\ \E S \in Survivors(db) :
       LET folded == Consolidate(db, S)
           pruned == Retained(folded, EvictableKeys(folded))
       IN  db' = pruned.rows /\ expired' = expired + pruned.gone
  /\ UNCHANGED <<moment, lock, txn, pc, unit, request, decision, calls, confirmed>>

(* invalidate_unit.                                                        *)
Withdraw(k) ==
  /\ lock = Nobody
  /\ k \in DOMAIN db
  /\ db' = [db EXCEPT ![k].withdrawn = TRUE]
  /\ UNCHANGED <<moment, lock, txn, pc, unit, request, decision, calls, confirmed, expired>>

Tick ==
  /\ moment < MaxMoment
  /\ moment' = moment + 1
  /\ UNCHANGED <<db, lock, txn, pc, unit, request, decision, calls, confirmed, expired>>

MemoryNext ==
  \/ \E w \in Writers : Begin(w) \/ Write(w) \/ LockTimeout(w) \/ Crash(w)
  \/ \E w \in Writers, v \in Verdicts, by \in Trusts, n \in Notes : Start(w, v, by, n)
  \/ \E k \in Keys : Withdraw(k)
  \/ PruneMemory \/ Tick

MemorySpec == MemoryInit /\ [][MemoryNext]_memoryVars

----------------------------------------------------------------------------
(* Properties.                                                             *)

(* "Cap holds under contention": however writers, crashes and refusals     *)
(* interleave, a subject never has more than Cap rows.                     *)
CapHolds == Cardinality(DOMAIN db) <= Cap

(* No lost update and no double count: every confirmation that committed   *)
(* is in some row's support_count or was expired, whatever was folded into *)
(* what, rolled back or interrupted.                                       *)
ConfirmationsConserved == Support(db, DOMAIN db) + expired = confirmed

(* "Both are audit records": an authoritative decision or a withdrawn row  *)
(* never leaves the table, and neither changes class or comes back.        *)
AuditRowsKept ==
  [][\A k \in DOMAIN db : db[k].world \/ db[k].withdrawn =>
       /\ k \in DOMAIN db'
       /\ db'[k].world = db[k].world
       /\ db[k].withdrawn => db'[k].withdrawn]_memoryVars

(* An authoritative row is created or confirmed only by the call of an     *)
(* analyst whose note does not carry the workflow's marker.                *)
OnlyAnalystsConfirm ==
  [][\A k \in DOMAIN db' :
       /\ db'[k].world
       /\ k \in DOMAIN db => db'[k].support > db[k].support
       => /\ lock \in Writers
          /\ request[lock].by = "analyst" /\ request[lock].note \notin Marked]_memoryVars

(* Recall of a note: some row still shows its text.                        *)
Shown(s, text) ==
  {k \in DOMAIN s : k[1] = "reason" /\ ~s[k].withdrawn /\ Folded[k[2]] = text}

(* A recalled note that is not due for expiry stays recallable until it is *)
(* withdrawn: no fold, prune, rollback or crash loses it.                  *)
NotesSurvive ==
  [][\A k \in DOMAIN db :
       /\ k[1] = "reason" /\ ~db[k].withdrawn /\ ~Evictable(db[k])
       => \/ Shown(db', Folded[k[2]]) # {}
          \/ k \in DOMAIN db' /\ db'[k].withdrawn]_memoryVars
=============================================================================
