-------------------------- MODULE MemoryStoreProofs --------------------------
(***************************************************************************)
(* What holds of MemoryStore for every number of writers, verdicts, notes  *)
(* and rows: the cap, the permanence of audit rows, that only analysts     *)
(* confirm an authoritative row, that no confirmation is lost or counted   *)
(* twice, and that no note is lost.                                        *)
(*                                                                         *)
(* MemoryInv says that the lock's holder sees a trimmed version of the     *)
(* committed table, whatever the sums are; CountInv adds what the holder   *)
(* has kept of the confirmations and of the notes.                         *)
(***************************************************************************)
EXTENDS MemoryStore, DataLemmas

Shaped(s) ==
  \A k \in DOMAIN s : DOMAIN s[k] = {"world", "support", "last", "withdrawn"}

(* t is what folding and expiry may leave of s: no new row, no change of   *)
(* class or withdrawal, and every protected row as it was.                 *)
Trims(s, t) ==
  /\ DOMAIN t \subseteq DOMAIN s
  /\ Shaped(t)
  /\ \A k \in DOMAIN t : t[k].world = s[k].world /\ t[k].withdrawn = s[k].withdrawn
  /\ \A k \in DOMAIN s : Protected(s[k]) => k \in DOMAIN t /\ t[k] = s[k]

(* The class of a row is the one in its dedupe key, and the support of an  *)
(* authoritative row is a number.                                          *)
Classed(s) ==
  \A k \in DOMAIN s :
    /\ s[k].world = (k[1] = "decision" /\ k[3] = "analyst")
    /\ s[k].world => s[k].support \in Nat

LockInv ==
  /\ lock \in Writers \cup {Nobody}
  /\ \A w \in Writers : pc[w] = "writing" <=> lock = w
  /\ lock # Nobody => Trims(db, txn.rows)

ArgsInv ==
  /\ pc \in [Writers -> {"idle", "waiting", "writing"}]
  /\ unit \in [Writers -> {"decision", "reason"}]
  /\ request \in [Writers -> [verdict : Verdicts, by : Trusts, note : Notes, at : Nat]]
  /\ moment \in Nat

DbInv ==
  /\ IsFiniteSet(DOMAIN db)
  /\ Shaped(db)
  /\ Classed(db)
  /\ CapHolds

MemoryInv == LockInv /\ ArgsInv /\ DbInv

----------------------------------------------------------------------------
(* Retention only trims.                                                   *)

LEMMA TrimsRefl == ASSUME NEW s, Shaped(s) PROVE Trims(s, s)
BY DEF Trims

LEMMA TrimsTrans ==
  ASSUME NEW s, NEW t, NEW u, Trims(s, t), Trims(t, u)
  PROVE  Trims(s, u)
<1>1. DOMAIN u \subseteq DOMAIN s /\ Shaped(u)
  BY DEF Trims
<1>2. \A k \in DOMAIN u : u[k].world = s[k].world /\ u[k].withdrawn = s[k].withdrawn
  BY DEF Trims
<1>3. ASSUME NEW k \in DOMAIN s, Protected(s[k]) PROVE k \in DOMAIN u /\ u[k] = s[k]
  <2>1. k \in DOMAIN t /\ t[k] = s[k]
    BY <1>3 DEF Trims
  <2>2. Protected(t[k])
    BY <1>3, <2>1
  <2> QED BY <2>1, <2>2 DEF Trims
<1> QED BY <1>1, <1>2, <1>3 DEF Trims

LEMMA ConsolidateTrims ==
  ASSUME NEW s, Shaped(s), NEW S \in Survivors(s)
  PROVE  Trims(s, Consolidate(s, S))
<1> DEFINE f == Consolidate(s, S)
<1>1. S \subseteq Foldable(s) /\ Foldable(s) \subseteq DOMAIN s
  BY DEF Survivors, Foldable
<1>2. DOMAIN f = (DOMAIN s \ Foldable(s)) \cup S
  BY DEF Consolidate
<1>3. DOMAIN f \subseteq DOMAIN s
  BY <1>1, <1>2
<1>4. ASSUME NEW k \in DOMAIN f
      PROVE  /\ f[k].world = s[k].world /\ f[k].withdrawn = s[k].withdrawn
             /\ DOMAIN f[k] = {"world", "support", "last", "withdrawn"}
  <2>0. k \in DOMAIN s /\ DOMAIN s[k] = {"world", "support", "last", "withdrawn"}
    BY <1>3, <1>4 DEF Shaped
  <2>1. f[k] = IF k \in S THEN Merged(s, k) ELSE s[k]
    BY <1>2, <1>4 DEF Consolidate
  <2>2. CASE k \in S
    <3> DEFINE m == Support(s, Group(s, k))
               l == Latest(s, Group(s, k))
    <3> HIDE DEF m, l, f
    <3>1. f[k] = [s[k] EXCEPT !.support = m, !.last = l]
      BY <2>1, <2>2 DEF Merged, m, l
    <3> QED BY <2>0, <3>1
  <2>3. CASE k \notin S
    BY <2>0, <2>1, <2>3
  <2> QED BY <2>2, <2>3
<1>5. ASSUME NEW k \in DOMAIN s, Protected(s[k]) PROVE k \in DOMAIN f /\ f[k] = s[k]
  <2>1. k \notin Foldable(s)
    BY <1>5 DEF Foldable
  <2>2. k \notin S
    BY <2>1, <1>1
  <2> QED BY <1>5, <2>1, <2>2 DEF Consolidate
<1>6. Shaped(f)
  BY <1>4 DEF Shaped
<1> HIDE DEF f
<1>7. Trims(s, f)
  BY <1>3, <1>4, <1>5, <1>6 DEF Trims
<1> QED BY <1>7 DEF f

LEMMA WithoutTrims ==
  ASSUME NEW s, Shaped(s), NEW K, K \subseteq EvictableKeys(s)
  PROVE  Trims(s, Without(s, K))
<1>1. ASSUME NEW k \in K PROVE ~Protected(s[k])
  BY <1>1 DEF EvictableKeys, Evictable
<1> QED BY <1>1 DEF Trims, Without, Shaped

LEMMA PressureTrims ==
  ASSUME NEW s, Shaped(s), NEW t \in UnderPressure(s)
  PROVE  Trims(s, t.rows)
<1>1. CASE Cardinality(DOMAIN s) < Cap
  <2>1. t = [rows |-> s, gone |-> 0]
    BY <1>1 DEF UnderPressure
  <2> QED BY <2>1, TrimsRefl
<1>2. CASE ~(Cardinality(DOMAIN s) < Cap)
  <2>1. PICK S \in Survivors(s) :
          \E K \in RoomFor(Consolidate(s, S)) : t = Retained(Consolidate(s, S), K)
    BY <1>2 DEF UnderPressure
  <2>a. PICK K \in RoomFor(Consolidate(s, S)) : t = Retained(Consolidate(s, S), K)
    BY <2>1
  <2>2. Trims(s, Consolidate(s, S)) /\ Shaped(Consolidate(s, S))
    BY ConsolidateTrims DEF Trims
  <2>3. K \subseteq EvictableKeys(Consolidate(s, S))
    BY <2>a DEF RoomFor
  <2>4. Trims(Consolidate(s, S), Without(Consolidate(s, S), K))
    BY <2>2, <2>3, WithoutTrims
  <2>5. t.rows = Without(Consolidate(s, S), K)
    BY <2>a DEF Retained
  <2> QED BY <2>2, <2>4, <2>5, TrimsTrans
<1> QED BY <1>1, <1>2

LEMMA PruneTrims ==
  ASSUME Shaped(db), PruneMemory
  PROVE  Trims(db, db')
<1>1. PICK S \in Survivors(db) :
        db' = Without(Consolidate(db, S), EvictableKeys(Consolidate(db, S)))
  BY DEF PruneMemory, Retained
<1>2. Trims(db, Consolidate(db, S)) /\ Shaped(Consolidate(db, S))
  BY ConsolidateTrims DEF Trims
<1> QED BY <1>1, <1>2, WithoutTrims, TrimsTrans

----------------------------------------------------------------------------
(* One upsert.                                                             *)

(* t is s with a row under key, inserted or confirmed.                     *)
Puts(s, key, t) ==
  /\ DOMAIN t = DOMAIN s \cup {key}
  /\ Shaped(t)
  /\ \A k \in DOMAIN s : t[k].world = s[k].world /\ t[k].withdrawn = s[k].withdrawn
  /\ \A k \in DOMAIN s : k # key => t[k] = s[k]

LEMMA UpsertPuts ==
  ASSUME NEW c, NEW u, NEW s, Shaped(s)
  PROVE  Puts(s, KeyOf(c, u), Upsert(s, c, u))
<1> DEFINE f == Upsert(s, c, u)
           key == KeyOf(c, u)
<1>1. DOMAIN f = DOMAIN s \cup {key}
  BY DEF Upsert
<1>2. \A k \in DOMAIN s : k # key => f[k] = s[k]
  BY DEF Upsert
<1>3. CASE key \in DOMAIN s
  <2>1. f[key] = [s[key] EXCEPT !.support = @ + 1, !.last = c.at]
    BY <1>3 DEF Upsert
  <2>2. DOMAIN s[key] = {"world", "support", "last", "withdrawn"}
    BY <1>3 DEF Shaped
  <2> HIDE DEF f, key
  <2>3. f[key].world = s[key].world
    BY <2>1, <2>2
  <2>4. f[key].withdrawn = s[key].withdrawn
    BY <2>1, <2>2
  <2>5. DOMAIN f[key] = {"world", "support", "last", "withdrawn"}
    BY <2>1, <2>2
  <2>6. Shaped(f)
    BY <1>1, <1>2, <1>3, <2>5 DEF Shaped
  <2>7. \A k \in DOMAIN s : f[k].world = s[k].world /\ f[k].withdrawn = s[k].withdrawn
    BY <1>2, <2>3, <2>4
  <2>8. Puts(s, key, f)
    BY <1>1, <1>2, <2>6, <2>7 DEF Puts
  <2> QED BY <2>8 DEF f, key
<1>4. CASE key \notin DOMAIN s
  <2>1. f[key] = FreshRow(c, u)
    BY <1>4 DEF Upsert
  <2>2. DOMAIN f[key] = {"world", "support", "last", "withdrawn"}
    BY <2>1 DEF FreshRow
  <2> HIDE DEF f, key
  <2>3. Shaped(f)
    BY <1>1, <1>2, <2>2 DEF Shaped
  <2>4. Puts(s, key, f)
    BY <1>1, <1>2, <1>4, <2>3 DEF Puts
  <2> QED BY <2>4 DEF f, key
<1> QED BY <1>3, <1>4

LEMMA KeyTells ==
  ASSUME NEW c \in [verdict : Verdicts, by : Trusts, note : Notes, at : Nat],
         NEW u \in {"decision", "reason"}
  PROVE  /\ FreshRow(c, u).world
              = (KeyOf(c, u)[1] = "decision" /\ KeyOf(c, u)[3] = "analyst")
         /\ FreshRow(c, u).support = 1
         /\ FreshRow(c, u).world => ~Advisory(c)
<1>1. CASE u = "reason"
  BY <1>1 DEF FreshRow, KeyOf
<1>2. CASE u = "decision" /\ Advisory(c)
  BY <1>2 DEF FreshRow, KeyOf
<1>3. CASE u = "decision" /\ ~Advisory(c)
  BY <1>3 DEF FreshRow, KeyOf
<1> QED BY <1>1, <1>2, <1>3

LEMMA UpsertClassed ==
  ASSUME NEW c \in [verdict : Verdicts, by : Trusts, note : Notes, at : Nat],
         NEW u \in {"decision", "reason"}, NEW s, Shaped(s), Classed(s)
  PROVE  Classed(Upsert(s, c, u))
<1> DEFINE f == Upsert(s, c, u)
           key == KeyOf(c, u)
<1>1. SUFFICES ASSUME NEW k \in DOMAIN f
               PROVE  /\ f[k].world = (k[1] = "decision" /\ k[3] = "analyst")
                      /\ f[k].world => f[k].support \in Nat
  BY DEF Classed
<1>2. /\ DOMAIN f = DOMAIN s \cup {key}
      /\ \A j \in DOMAIN s : f[j].world = s[j].world
      /\ \A j \in DOMAIN s : j # key => f[j] = s[j]
  <2>1. Puts(s, key, f)
    BY UpsertPuts
  <2> HIDE DEF f, key
  <2> QED BY <2>1 DEF Puts
<1>3. CASE k \in DOMAIN s /\ k # key
  <2>1. f[k] = s[k]
    BY <1>2, <1>3
  <2> HIDE DEF f, key
  <2>2. f[k].world = (k[1] = "decision" /\ k[3] = "analyst")
    BY <2>1, <1>3, Zenon DEF Classed
  <2>3. f[k].world => f[k].support \in Nat
    BY <2>1, <1>3, Zenon DEF Classed
  <2> QED BY <2>2, <2>3
<1>4. CASE k \in DOMAIN s /\ k = key
  <2>1. f[k].world = s[k].world
    BY <1>2, <1>4
  <2>2. f[k] = [s[k] EXCEPT !.support = @ + 1, !.last = c.at]
    BY <1>4 DEF Upsert
  <2>3. DOMAIN s[k] = {"world", "support", "last", "withdrawn"}
    BY <1>4 DEF Shaped
  <2>4. f[k].support = s[k].support + 1
    <3> HIDE DEF f, key
    <3> QED BY <2>2, <2>3
  <2>5. s[k].world => s[k].support \in Nat
    BY <1>4 DEF Classed
  <2>6. f[k].world => f[k].support \in Nat
    BY <2>1, <2>4, <2>5
  <2> QED BY <2>1, <2>6, <1>4 DEF Classed
<1>5. CASE k \notin DOMAIN s
  <2>1. k = key
    BY <1>2, <1>5
  <2>2. f[k] = FreshRow(c, u)
    BY <2>1, <1>5 DEF Upsert
  <2> QED BY <2>1, <2>2, KeyTells
<1> QED BY <1>3, <1>4, <1>5

LEMMA TrimsClassed ==
  ASSUME NEW s, NEW t, Trims(s, t), Classed(s)
  PROVE  Classed(t)
<1> SUFFICES ASSUME NEW k \in DOMAIN t
             PROVE  /\ t[k].world = (k[1] = "decision" /\ k[3] = "analyst")
                    /\ t[k].world => t[k].support \in Nat
  BY DEF Classed
<1>1. k \in DOMAIN s /\ t[k].world = s[k].world
  BY DEF Trims
<1>2. t[k].world => t[k] = s[k]
  BY <1>1 DEF Trims, Protected
<1> QED BY <1>1, <1>2 DEF Classed

----------------------------------------------------------------------------
(* The inductive invariant.                                                *)

LEMMA InitInv == MemoryInit => MemoryInv
<1> SUFFICES ASSUME MemoryInit PROVE MemoryInv
  OBVIOUS
<1> USE MemoryAssumption DEF MemoryInit
<1>1. DOMAIN Empty = {}
  BY DEF Empty
<1>2. LockInv
  BY DEF LockInv
<1>3. ArgsInv
  BY DEF ArgsInv, Trusts
<1>4. DbInv
  <2>1. IsFiniteSet(DOMAIN db) /\ Cardinality(DOMAIN db) = 0
    BY <1>1, FS_EmptySet
  <2>2. Cardinality(DOMAIN db) <= Cap
    BY <2>1
  <2> QED BY <1>1, <2>1, <2>2 DEF DbInv, Shaped, Classed, CapHolds
<1> QED BY <1>2, <1>3, <1>4 DEF MemoryInv

(* What a committed write leaves behind, seen from the table before it.    *)
LEMMA CommitKeeps ==
  ASSUME MemoryInv, NEW w \in Writers, Write(w), db' # db
  PROVE  /\ Trims(db, txn.rows)
         /\ Puts(txn.rows, KeyOf(request[w], unit[w]), db')
         /\ db' = Upsert(txn.rows, request[w], unit[w])
         /\ \/ KeyOf(request[w], unit[w]) \in DOMAIN txn.rows
            \/ Cardinality(DOMAIN db') <= Cap
<1>1. lock # Nobody /\ Trims(db, txn.rows) /\ Shaped(txn.rows)
  BY MemoryAssumption DEF MemoryInv, LockInv, Write, Trims
<1>2. db' = Upsert(txn.rows, request[w], unit[w])
  BY DEF Write, Commit, Rollback
<1>3. \/ KeyOf(request[w], unit[w]) \in DOMAIN txn.rows
      \/ Cardinality(DOMAIN db') <= Cap
  BY <1>2 DEF Write, Commit, Rollback
<1> QED BY <1>1, <1>2, <1>3, UpsertPuts

LEMMA WriteKeepsDb ==
  ASSUME MemoryInv, NEW w \in Writers, Write(w)
  PROVE  DbInv'
<1>1. CASE db' = db
  BY <1>1 DEF MemoryInv, DbInv, Shaped, Classed, CapHolds
<1>2. CASE db' # db
  <2> DEFINE key == KeyOf(request[w], unit[w])
  <2>1. /\ Trims(db, txn.rows)
        /\ Puts(txn.rows, key, db')
        /\ db' = Upsert(txn.rows, request[w], unit[w])
        /\ key \in DOMAIN txn.rows \/ Cardinality(DOMAIN db') <= Cap
    BY <1>2, CommitKeeps
  <2>2. Classed(db')
    <3>1. Classed(txn.rows) /\ Shaped(txn.rows)
      BY <2>1, TrimsClassed DEF MemoryInv, DbInv, Trims
    <3>2. /\ request[w] \in [verdict : Verdicts, by : Trusts, note : Notes, at : Nat]
          /\ unit[w] \in {"decision", "reason"}
      BY DEF MemoryInv, ArgsInv
    <3> QED BY <2>1, <3>1, <3>2, UpsertClassed
  <2> HIDE DEF key
  <2>3. IsFiniteSet(DOMAIN db) /\ Cardinality(DOMAIN db) <= Cap
    BY DEF MemoryInv, DbInv, CapHolds
  <2>4. DOMAIN txn.rows \subseteq DOMAIN db /\ DOMAIN db' = DOMAIN txn.rows \cup {key}
    BY <2>1 DEF Trims, Puts
  <2>5. IsFiniteSet(DOMAIN txn.rows) /\ Cardinality(DOMAIN txn.rows) <= Cardinality(DOMAIN db)
    BY <2>3, <2>4, FS_Subset
  <2>6. IsFiniteSet(DOMAIN db')
    BY <2>4, <2>5, FS_AddElement
  <2>7. Cardinality(DOMAIN db') <= Cap
    <3>1. CASE key \in DOMAIN txn.rows
      <4>1. DOMAIN db' = DOMAIN txn.rows
        BY <3>1, <2>4
      <4>2. Cardinality(DOMAIN txn.rows) \in Nat /\ Cardinality(DOMAIN db) \in Nat
        BY <2>3, <2>5, FS_CardinalityType
      <4> QED BY <4>1, <4>2, <2>3, <2>5, MemoryAssumption
    <3> QED BY <2>1, <3>1
  <2>8. Shaped(db')
    BY <2>1 DEF Puts
  <2>9. Shaped(db)' /\ Classed(db)' /\ CapHolds' /\ IsFiniteSet(DOMAIN db)'
    BY <2>2, <2>6, <2>7, <2>8 DEF Shaped, Classed, CapHolds
  <2> QED BY <2>9 DEF DbInv
<1> QED BY <1>1, <1>2

LEMMA TrimKeepsDb ==
  ASSUME MemoryInv, Trims(db, db')
  PROVE  DbInv'
<1>1. Shaped(db') /\ DOMAIN db' \subseteq DOMAIN db
  BY DEF Trims
<1>2. Classed(db')
  BY TrimsClassed DEF MemoryInv, DbInv
<1>3. IsFiniteSet(DOMAIN db) /\ Cardinality(DOMAIN db) <= Cap
  BY DEF MemoryInv, DbInv, CapHolds
<1>4. IsFiniteSet(DOMAIN db') /\ Cardinality(DOMAIN db') <= Cardinality(DOMAIN db)
  BY <1>1, <1>3, FS_Subset
<1>5. Cardinality(DOMAIN db') <= Cap
  <2>1. Cardinality(DOMAIN db') \in Nat /\ Cardinality(DOMAIN db) \in Nat
    BY <1>3, <1>4, FS_CardinalityType
  <2> QED BY <2>1, <1>3, <1>4, MemoryAssumption
<1>6. Shaped(db)' /\ Classed(db)' /\ CapHolds' /\ IsFiniteSet(DOMAIN db)'
  BY <1>1, <1>2, <1>4, <1>5 DEF Shaped, Classed, CapHolds
<1> QED BY <1>6 DEF DbInv

LEMMA WithdrawKeepsDb ==
  ASSUME MemoryInv, NEW k \in Keys, Withdraw(k)
  PROVE  DbInv'
<1>1. k \in DOMAIN db /\ db' = [db EXCEPT ![k] = [db[k] EXCEPT !.withdrawn = TRUE]]
  BY DEF Withdraw
<1>2. DOMAIN db' = DOMAIN db
  BY <1>1
<1>3. \A j \in DOMAIN db : j # k => db'[j] = db[j]
  BY <1>1
<1>4. db'[k] = [db[k] EXCEPT !.withdrawn = TRUE]
  BY <1>1
<1>5. DOMAIN db[k] = {"world", "support", "last", "withdrawn"}
  BY <1>1 DEF MemoryInv, DbInv, Shaped
<1>6. /\ DOMAIN db'[k] = {"world", "support", "last", "withdrawn"}
      /\ db'[k].world = db[k].world
      /\ db'[k].support = db[k].support
  BY <1>4, <1>5
<1>7. Shaped(db)'
  BY <1>2, <1>3, <1>6 DEF MemoryInv, DbInv, Shaped
<1>8. Classed(db)'
  <2>1. SUFFICES ASSUME NEW j \in DOMAIN db
                 PROVE  /\ db'[j].world = (j[1] = "decision" /\ j[3] = "analyst")
                        /\ db'[j].world => db'[j].support \in Nat
    BY <1>2 DEF Classed
  <2>2. db'[j].world = db[j].world /\ db'[j].support = db[j].support
    BY <1>3, <1>6
  <2> QED BY <2>2 DEF MemoryInv, DbInv, Classed
<1>9. CapHolds' /\ IsFiniteSet(DOMAIN db)'
  BY <1>2 DEF MemoryInv, DbInv, CapHolds
<1> QED BY <1>7, <1>8, <1>9 DEF DbInv

LEMMA NextInv == MemoryInv /\ [MemoryNext]_memoryVars => MemoryInv'
<1> SUFFICES ASSUME MemoryInv, [MemoryNext]_memoryVars PROVE MemoryInv'
  OBVIOUS
<1> USE MemoryAssumption
<1>1. ASSUME NEW w \in Writers, NEW v \in Verdicts, NEW by \in Trusts, NEW n \in Notes,
             Start(w, v, by, n)
      PROVE  MemoryInv'
  <2>1. LockInv'
    BY <1>1 DEF MemoryInv, LockInv, ArgsInv, Start, Trims, Shaped
  <2>2. ArgsInv'
    BY <1>1 DEF MemoryInv, ArgsInv, Start
  <2>3. DbInv'
    BY <1>1 DEF MemoryInv, DbInv, Start, Shaped, Classed, CapHolds
  <2> QED BY <2>1, <2>2, <2>3 DEF MemoryInv
<1>2. ASSUME NEW w \in Writers, Begin(w) PROVE MemoryInv'
  <2>1. LockInv'
    <3>1. Trims(db, txn'.rows)
      BY <1>2, PressureTrims DEF Begin, MemoryInv, DbInv
    <3>2. \A x \in Writers : pc'[x] = "writing" <=> lock' = x
      BY <1>2 DEF MemoryInv, LockInv, ArgsInv, Begin
    <3>3. Trims(db, txn.rows)'
      BY <1>2, <3>1 DEF Begin, Trims, Shaped
    <3> QED BY <1>2, <3>2, <3>3 DEF LockInv, Begin
  <2>2. ArgsInv'
    BY <1>2 DEF MemoryInv, ArgsInv, Begin
  <2>3. DbInv'
    BY <1>2 DEF MemoryInv, DbInv, Begin, Shaped, Classed, CapHolds
  <2> QED BY <2>1, <2>2, <2>3 DEF MemoryInv
<1>3. ASSUME NEW w \in Writers, Write(w) PROVE MemoryInv'
  <2>0. \/ pc' = [pc EXCEPT ![w] = "waiting"] /\ unit' = [unit EXCEPT ![w] = "reason"]
        \/ pc' = [pc EXCEPT ![w] = "idle"] /\ unit' = unit
    BY <1>3 DEF Write, Commit, Rollback, Proceed
  <2>1. LockInv'
    BY <1>3, <2>0 DEF MemoryInv, LockInv, ArgsInv, Write
  <2>2. ArgsInv'
    BY <1>3, <2>0 DEF MemoryInv, ArgsInv, Write
  <2>3. DbInv'
    BY <1>3, WriteKeepsDb
  <2> QED BY <2>1, <2>2, <2>3 DEF MemoryInv
<1>4. ASSUME NEW w \in Writers, LockTimeout(w) PROVE MemoryInv'
  <2>0. \/ pc' = [pc EXCEPT ![w] = "waiting"] /\ unit' = [unit EXCEPT ![w] = "reason"]
        \/ pc' = [pc EXCEPT ![w] = "idle"] /\ unit' = unit
    BY <1>4 DEF LockTimeout, Proceed
  <2>1. LockInv'
    BY <1>4, <2>0 DEF MemoryInv, LockInv, ArgsInv, LockTimeout, Trims, Shaped
  <2>2. ArgsInv'
    BY <1>4, <2>0 DEF MemoryInv, ArgsInv, LockTimeout
  <2>3. DbInv'
    BY <1>4 DEF MemoryInv, DbInv, LockTimeout, Shaped, Classed, CapHolds
  <2> QED BY <2>1, <2>2, <2>3 DEF MemoryInv
<1>5. ASSUME NEW w \in Writers, Crash(w) PROVE MemoryInv'
  <2>1. LockInv'
    BY <1>5 DEF MemoryInv, LockInv, ArgsInv, Crash, Trims, Shaped
  <2>2. ArgsInv'
    BY <1>5 DEF MemoryInv, ArgsInv, Crash
  <2>3. DbInv'
    BY <1>5 DEF MemoryInv, DbInv, Crash, Shaped, Classed, CapHolds
  <2> QED BY <2>1, <2>2, <2>3 DEF MemoryInv
<1>6. ASSUME NEW k \in Keys, Withdraw(k) PROVE MemoryInv'
  <2>1. LockInv' /\ ArgsInv'
    BY <1>6 DEF MemoryInv, LockInv, ArgsInv, Withdraw
  <2> QED BY <1>6, <2>1, WithdrawKeepsDb DEF MemoryInv
<1>7. ASSUME PruneMemory PROVE MemoryInv'
  <2>1. LockInv' /\ ArgsInv'
    BY <1>7 DEF MemoryInv, LockInv, ArgsInv, PruneMemory
  <2>2. Trims(db, db')
    BY <1>7, PruneTrims DEF MemoryInv, DbInv
  <2> QED BY <2>1, <2>2, TrimKeepsDb DEF MemoryInv
<1>8. ASSUME Tick PROVE MemoryInv'
  <2>1. LockInv' /\ ArgsInv'
    BY <1>8 DEF MemoryInv, LockInv, ArgsInv, Tick, Trims, Shaped
  <2>2. DbInv'
    BY <1>8 DEF MemoryInv, DbInv, Tick, Shaped, Classed, CapHolds
  <2> QED BY <2>1, <2>2 DEF MemoryInv
<1>9. CASE UNCHANGED memoryVars
  BY <1>9 DEF memoryVars, MemoryInv, LockInv, ArgsInv, DbInv, Trims, Shaped, Classed, CapHolds
<1> QED BY <1>1, <1>2, <1>3, <1>4, <1>5, <1>6, <1>7, <1>8, <1>9 DEF MemoryNext

(* Retention only trims, one writer at a time holds the lock and sees every *)
(* protected row, and each row's class is the one in its key.              *)
THEOREM Inductive == MemorySpec => []MemoryInv
BY InitInv, NextInv, PTL DEF MemorySpec

(* A subject never has more than Cap rows.                                 *)
THEOREM Capped == MemorySpec => []CapHolds
<1>1. MemoryInv => CapHolds
  BY DEF MemoryInv, DbInv
<1> QED BY <1>1, Inductive, PTL

----------------------------------------------------------------------------
(* Steps.                                                                  *)

Audits == \A k \in DOMAIN db : db[k].world \/ db[k].withdrawn =>
            /\ k \in DOMAIN db'
            /\ db'[k].world = db[k].world
            /\ db[k].withdrawn => db'[k].withdrawn

LEMMA WriteAudits == ASSUME MemoryInv, NEW w \in Writers, Write(w), db' # db PROVE Audits
<1> DEFINE key == KeyOf(request[w], unit[w])
<1>1. Trims(db, txn.rows) /\ Puts(txn.rows, key, db')
  BY CommitKeeps
<1> HIDE DEF key
<1>2. ASSUME NEW k \in DOMAIN db, db[k].world \/ db[k].withdrawn
      PROVE  /\ k \in DOMAIN txn.rows /\ txn.rows[k] = db[k]
             /\ k \in DOMAIN db'
             /\ db'[k].world = txn.rows[k].world
             /\ db'[k].withdrawn = txn.rows[k].withdrawn
  <2>1. k \in DOMAIN txn.rows /\ txn.rows[k] = db[k]
    BY <1>1, <1>2 DEF Trims, Protected
  <2> QED BY <1>1, <2>1 DEF Puts
<1> QED BY <1>2 DEF Audits

LEMMA WithdrawAudits == ASSUME MemoryInv, NEW k \in Keys, Withdraw(k) PROVE Audits
<1>1. k \in DOMAIN db /\ db' = [db EXCEPT ![k] = [db[k] EXCEPT !.withdrawn = TRUE]]
  BY DEF Withdraw
<1>2. DOMAIN db' = DOMAIN db /\ \A j \in DOMAIN db : j # k => db'[j] = db[j]
  BY <1>1
<1>3. db'[k] = [db[k] EXCEPT !.withdrawn = TRUE]
  BY <1>1
<1>4. DOMAIN db[k] = {"world", "support", "last", "withdrawn"}
  BY <1>1 DEF MemoryInv, DbInv, Shaped
<1>5. db'[k].world = db[k].world /\ db'[k].withdrawn = TRUE
  BY <1>3, <1>4
<1> QED BY <1>2, <1>5 DEF Audits

LEMMA TrimAudits == ASSUME Trims(db, db') PROVE Audits
BY DEF Trims, Protected, Audits

LEMMA StepAudits == MemoryInv /\ [MemoryNext]_memoryVars => Audits
<1> SUFFICES ASSUME MemoryInv, [MemoryNext]_memoryVars PROVE Audits
  OBVIOUS
<1>1. CASE db' = db
  BY <1>1 DEF Audits
<1>2. CASE db' # db
  <2>1. CASE \E w \in Writers : Write(w)
    BY <2>1, <1>2, WriteAudits
  <2>2. CASE \E k \in Keys : Withdraw(k)
    BY <2>2, WithdrawAudits
  <2>3. CASE PruneMemory
    BY <2>3, PruneTrims, TrimAudits DEF MemoryInv, DbInv
  <2> QED BY <1>2, <2>1, <2>2, <2>3
          DEF MemoryNext, memoryVars, Start, Begin, LockTimeout, Crash, Tick
<1> QED BY <1>1, <1>2

(* Authoritative and withdrawn rows never leave the table, change class or *)
(* come back, through any fold, expiry, rollback or crash.                 *)
THEOREM AuditRows == MemorySpec => AuditRowsKept
<1>1. MemoryInv /\ [MemoryNext]_memoryVars => [Audits]_memoryVars
  BY StepAudits
<1> QED BY <1>1, Inductive, PTL DEF MemorySpec, AuditRowsKept, Audits

Confirms == \A k \in DOMAIN db' :
              /\ db'[k].world
              /\ k \in DOMAIN db => db'[k].support > db[k].support
              => /\ lock \in Writers
                 /\ request[lock].by = "analyst" /\ request[lock].note \notin Marked

LEMMA WriteConfirms == ASSUME MemoryInv, NEW w \in Writers, Write(w), db' # db PROVE Confirms
<1> DEFINE key == KeyOf(request[w], unit[w])
<1>1. SUFFICES ASSUME NEW k \in DOMAIN db', db'[k].world,
                      k \in DOMAIN db => db'[k].support > db[k].support
               PROVE  /\ lock \in Writers
                      /\ request[lock].by = "analyst" /\ request[lock].note \notin Marked
  BY DEF Confirms
<1>2. /\ Trims(db, txn.rows) /\ Puts(txn.rows, key, db')
      /\ db' = Upsert(txn.rows, request[w], unit[w])
  BY CommitKeeps
<1>3. lock = w
  BY DEF MemoryInv, LockInv, Write
<1>4. /\ request[w] \in [verdict : Verdicts, by : Trusts, note : Notes, at : Nat]
      /\ unit[w] \in {"decision", "reason"}
  BY DEF MemoryInv, ArgsInv
<1>5. k[1] = "decision" /\ k[3] = "analyst"
  <2>1. Classed(txn.rows) /\ Shaped(txn.rows)
    BY <1>2, TrimsClassed DEF MemoryInv, DbInv, Trims
  <2>2. Classed(db')
    BY <1>2, <1>4, <2>1, UpsertClassed
  <2> QED BY <2>2, <1>1 DEF Classed
<1>6. k = key
  <2> HIDE DEF key
  <2>1. SUFFICES ASSUME k # key PROVE FALSE
    OBVIOUS
  <2>2. k \in DOMAIN txn.rows /\ db'[k] = txn.rows[k]
    BY <1>1, <1>2, <2>1 DEF Puts
  <2>3. k \in DOMAIN db /\ txn.rows[k].world = db[k].world
    BY <1>2, <2>2 DEF Trims
  <2>4. db[k].world
    BY <1>1, <2>2, <2>3
  <2>5. txn.rows[k] = db[k]
    BY <1>2, <2>3, <2>4 DEF Trims, Protected
  <2>6. db[k].support \in Nat
    BY <2>3, <2>4 DEF MemoryInv, DbInv, Classed
  <2> QED BY <1>1, <2>2, <2>3, <2>5, <2>6
<1>7. ~Advisory(request[w])
  <2>1. CASE unit[w] = "decision"
    BY <1>5, <1>6, <2>1 DEF KeyOf
  <2>2. CASE unit[w] = "reason"
    BY <1>5, <1>6, <2>2 DEF KeyOf
  <2> QED BY <1>4, <2>1, <2>2
<1> QED BY <1>3, <1>7 DEF Advisory

LEMMA OthersConfirm ==
  ASSUME MemoryInv, DOMAIN db' \subseteq DOMAIN db,
         \A k \in DOMAIN db' : db'[k].world => db[k].world /\ db'[k].support = db[k].support
  PROVE  Confirms
<1> SUFFICES ASSUME NEW k \in DOMAIN db', db'[k].world, db'[k].support > db[k].support
             PROVE  FALSE
  BY DEF Confirms
<1>1. db[k].support \in Nat /\ db'[k].support = db[k].support
  BY DEF MemoryInv, DbInv, Classed
<1> QED BY <1>1

LEMMA StepConfirms == MemoryInv /\ [MemoryNext]_memoryVars => Confirms
<1> SUFFICES ASSUME MemoryInv, [MemoryNext]_memoryVars PROVE Confirms
  OBVIOUS
<1>1. CASE db' = db
  BY <1>1, OthersConfirm
<1>2. CASE db' # db
  <2>1. CASE \E w \in Writers : Write(w)
    BY <2>1, <1>2, WriteConfirms
  <2>2. ASSUME NEW k \in Keys, Withdraw(k) PROVE Confirms
    <3>1. k \in DOMAIN db /\ db' = [db EXCEPT ![k] = [db[k] EXCEPT !.withdrawn = TRUE]]
      BY <2>2 DEF Withdraw
    <3>2. DOMAIN db' = DOMAIN db /\ \A j \in DOMAIN db : j # k => db'[j] = db[j]
      BY <3>1
    <3>3. db'[k] = [db[k] EXCEPT !.withdrawn = TRUE]
      BY <3>1
    <3>4. DOMAIN db[k] = {"world", "support", "last", "withdrawn"}
      BY <3>1 DEF MemoryInv, DbInv, Shaped
    <3>5. db'[k].world = db[k].world /\ db'[k].support = db[k].support
      BY <3>3, <3>4
    <3> QED BY <3>2, <3>5, OthersConfirm
  <2>3. CASE PruneMemory
    <3>1. Trims(db, db')
      BY <2>3, PruneTrims DEF MemoryInv, DbInv
    <3>2. \A k \in DOMAIN db' : db'[k].world =>
             db[k].world /\ db'[k].support = db[k].support
      <4>1. SUFFICES ASSUME NEW k \in DOMAIN db', db'[k].world
                     PROVE  db[k].world /\ db'[k].support = db[k].support
        OBVIOUS
      <4>2. k \in DOMAIN db /\ db[k].world
        BY <3>1, <4>1 DEF Trims
      <4>3. db'[k] = db[k]
        BY <3>1, <4>2 DEF Trims, Protected
      <4> QED BY <4>2, <4>3
    <3> QED BY <3>1, <3>2, OthersConfirm DEF Trims
  <2> QED BY <1>2, <2>1, <2>2, <2>3
          DEF MemoryNext, memoryVars, Start, Begin, LockTimeout, Crash, Tick
<1> QED BY <1>1, <1>2

(* Only an analyst's own, unmarked call creates or confirms an                *)
(* authoritative row.                                                      *)
THEOREM AnalystsConfirm == MemorySpec => OnlyAnalystsConfirm
<1>1. MemoryInv /\ [MemoryNext]_memoryVars => [Confirms]_memoryVars
  BY StepConfirms
<1> QED BY <1>1, Inductive, PTL DEF MemorySpec, OnlyAnalystsConfirm, Confirms

-----------------------------------------------------------------------------
(* The sum of the supports of a set of rows.                               *)

Counted(s, K) == K \subseteq DOMAIN s /\ IsFiniteSet(K) /\ \A k \in K : s[k].support \in Nat
SupportsOf(s) == [k \in DOMAIN s |-> s[k].support]

(* It is the sum of a function, for which there are lemmas.                *)
LEMMA SupportIs ==
  ASSUME NEW s, NEW K, Counted(s, K)
  PROVE  /\ Summable(SupportsOf(s), K) /\ \A k \in K : SupportsOf(s)[k] = s[k].support
         /\ Support(s, K) = SumOver(SupportsOf(s), K)
<1> DEFINE f == SupportsOf(s)
           Adding(g, T) == IF T = {} THEN 0 ELSE s[Some(T)].support + g[T \ {Some(T)}]
           Adds(g) == g = [T \in SUBSET K |-> Adding(g, T)]
<1>1. DOMAIN f = DOMAIN s /\ \A k \in DOMAIN s : f[k] = s[k].support
  BY DEF SupportsOf
<1>2. Support(s, K) = (CHOOSE g : Adds(g))[K]
  BY DEF Support, MapThenSumSet, MapThenFoldSet, Some
<1> HIDE DEF f
<1>3. Summable(f, K) /\ \A k \in K : f[k] = s[k].support
  BY <1>1 DEF Summable, Counted
<1>4. ASSUME NEW g, NEW T \in SUBSET K PROVE Adding(g, T) = Summing(f, g, T)
  <2>1. CASE T = {}
    BY <2>1 DEF Summing
  <2>2. CASE T # {}
    <3>1. Some(T) \in K
      BY <2>2, SomeIn
    <3> QED BY <2>2, <3>1, <1>3 DEF Summing
  <2> QED BY <2>1, <2>2
<1> HIDE DEF Adding
<1>5. \A g : Adds(g) <=> SumsTo(f, K, g)
  <2> SUFFICES ASSUME NEW g PROVE Adds(g) <=> SumsTo(f, K, g)
    OBVIOUS
  <2>1. [T \in SUBSET K |-> Adding(g, T)] = [T \in SUBSET K |-> Summing(f, g, T)]
    BY <1>4
  <2> QED BY <2>1 DEF SumsTo
<1> DEFINE g == CHOOSE g : Adds(g)
           h == CHOOSE h : SumsTo(f, K, h)
<1> HIDE DEF Adds
<1>6. SumsTo(f, K, g) /\ SumsTo(f, K, h)
  BY <1>3, <1>5, SumExists
<1>7. Support(s, K) = g[K] /\ SumOver(f, K) = h[K]
  BY <1>2, SumIs
<1> HIDE DEF g, h
<1>8. g[K] = h[K]
  BY <1>3, <1>6, SumUnique
<1> QED BY <1>3, <1>7, <1>8 DEF f

LEMMA SupportType ==
  ASSUME NEW s, NEW K, Counted(s, K)
  PROVE  Support(s, K) \in Nat
<1>1. \A k \in K : SupportsOf(s)[k] \in Nat
  BY SupportIs DEF Counted
<1> QED BY <1>1, SupportIs, SumNat

(* Whichever element is taken first.                                       *)
LEMMA SupportLess ==
  ASSUME NEW s, NEW K, Counted(s, K), NEW a \in K
  PROVE  Support(s, K) = s[a].support + Support(s, K \ {a})
<1>1. Counted(s, K \ {a})
  BY FS_Subset DEF Counted
<1>2. SumOver(SupportsOf(s), K) = SupportsOf(s)[a] + SumOver(SupportsOf(s), K \ {a})
  BY SupportIs, SumLess
<1> QED BY <1>1, <1>2, SupportIs

(* What the rest of this section needs of the sum.                         *)
LEMMA SupportFacts ==
  ASSUME NEW s, NEW K, Counted(s, K)
  PROVE  /\ Support(s, {}) = 0
         /\ Support(s, K) \in Nat
         /\ \A a \in K : Support(s, K) = s[a].support + Support(s, K \ {a})
         /\ \A a \in K : s[a].support <= Support(s, K)
<1>1. Counted(s, {})
  BY FS_EmptySet DEF Counted
<1>2. Support(s, {}) = 0
  BY <1>1, SupportIs, SumFacts
<1>3. ASSUME NEW a \in K
      PROVE  Support(s, K) = s[a].support + Support(s, K \ {a}) /\ s[a].support <= Support(s, K)
  <2>1. Counted(s, K \ {a}) /\ s[a].support \in Nat
    BY FS_Subset DEF Counted
  <2>2. Support(s, K \ {a}) \in Nat
    BY <2>1, SupportType
  <2>3. Support(s, K) = s[a].support + Support(s, K \ {a})
    BY SupportLess
  <2> QED BY <2>1, <2>2, <2>3
<1> QED BY <1>2, <1>3, SupportType

(* Disjoint sets of rows.                                                  *)
LEMMA SupportUnion ==
  ASSUME NEW s, NEW A, NEW B, Counted(s, A), Counted(s, B), A \cap B = {}
  PROVE  Support(s, A \cup B) = Support(s, A) + Support(s, B)
<1> DEFINE H == {T \in SUBSET B : Support(s, A \cup T) = Support(s, A) + Support(s, T)}
<1>0. \A T \in SUBSET B : Counted(s, T) /\ Counted(s, A \cup T)
  BY FS_Subset, FS_Union DEF Counted
<1>1. {} \in H
  <2>1. Support(s, {}) = 0 /\ Support(s, A) \in Nat /\ A \cup {} = A
    BY SupportFacts
  <2> QED BY <2>1
<1>2. ASSUME NEW T \in SUBSET B, NEW x \in B, T \in H, x \notin T
      PROVE  T \cup {x} \in H
  <2> DEFINE U == T \cup {x}
  <2>1. U \in SUBSET B /\ x \in U /\ U \ {x} = T /\ x \in A \cup U /\ (A \cup U) \ {x} = A \cup T
    BY <1>2
  <2> HIDE DEF U
  <2>a. Counted(s, U) /\ Counted(s, A \cup U)
    BY <1>0, <2>1
  <2>2. Support(s, U) = s[x].support + Support(s, T)
    BY <2>1, <2>a, SupportLess
  <2>3. Support(s, A \cup U) = s[x].support + Support(s, A \cup T)
    BY <2>1, <2>a, SupportLess
  <2>4. Support(s, A) \in Nat /\ Support(s, T) \in Nat /\ s[x].support \in Nat
    BY <1>0, SupportFacts DEF Counted
  <2>5. Support(s, A \cup T) = Support(s, A) + Support(s, T)
    BY <1>2
  <2>6. Support(s, A \cup U) = Support(s, A) + Support(s, U)
    BY <2>2, <2>3, <2>4, <2>5
  <2> QED BY <2>1, <2>6 DEF U
<1>3. IsFiniteSet(B)
  BY DEF Counted
<1> HIDE DEF H
<1>4. B \in H
  BY <1>1, <1>2, <1>3, SetInduction
<1> QED BY <1>4 DEF H

(* Two tables that agree on the rows.                                      *)
LEMMA SupportSame ==
  ASSUME NEW s, NEW t, NEW K, Counted(s, K), Counted(t, K),
         \A k \in K : s[k].support = t[k].support
  PROVE  Support(s, K) = Support(t, K)
<1> DEFINE H == {T \in SUBSET K : Support(s, T) = Support(t, T)}
<1>0. \A T \in SUBSET K : Counted(s, T) /\ Counted(t, T)
  BY FS_Subset DEF Counted
<1>1. {} \in H
  <2>1. Support(s, {}) = 0 /\ Support(t, {}) = 0
    BY SupportFacts
  <2> QED BY <2>1
<1>2. ASSUME NEW T \in SUBSET K, NEW x \in K, T \in H, x \notin T
      PROVE  T \cup {x} \in H
  <2> DEFINE U == T \cup {x}
  <2>1. U \in SUBSET K /\ x \in U /\ U \ {x} = T
    BY <1>2
  <2> HIDE DEF U
  <2>2. Support(s, U) = s[x].support + Support(s, T)
    BY <1>0, <2>1, SupportFacts
  <2>3. Support(t, U) = t[x].support + Support(t, T)
    BY <1>0, <2>1, SupportFacts
  <2>4. Support(s, U) = Support(t, U)
    BY <1>2, <2>2, <2>3
  <2> QED BY <2>1, <2>4 DEF U
<1>3. IsFiniteSet(K)
  BY DEF Counted
<1> HIDE DEF H
<1>4. K \in H
  BY <1>1, <1>2, <1>3, SetInduction
<1> QED BY <1>4 DEF H

-----------------------------------------------------------------------------
(* Expiry.                                                                 *)

(* A table as the code keeps it: finite, and with whole rows.              *)
Table(s) == IsStore(s) /\ IsFiniteSet(DOMAIN s)
Total(s) == Support(s, DOMAIN s)

LEMMA TableCounts ==
  ASSUME NEW s, Table(s), NEW K \in SUBSET (DOMAIN s)
  PROVE  Counted(s, K) /\ Support(s, K) \in Nat /\ \A k \in K : s[k] \in Rows
<1>1. IsFiniteSet(K) /\ \A k \in K : s[k] \in Rows
  BY FS_Subset DEF Table, IsStore
<1>2. \A k \in K : s[k].support \in Nat
  BY <1>1 DEF Rows
<1>3. Counted(s, K)
  BY <1>1, <1>2 DEF Counted
<1> QED BY <1>1, <1>3, SupportType

(* Expiry takes out of the table what it says it took.                     *)
LEMMA RetainedCounts ==
  ASSUME NEW s, Table(s), NEW K \in SUBSET (DOMAIN s)
  PROVE  /\ Table(Without(s, K)) /\ Retained(s, K).gone \in Nat
         /\ Retained(s, K).rows = Without(s, K)
         /\ Total(Without(s, K)) + Retained(s, K).gone = Total(s)
<1> DEFINE t == Without(s, K)
           L == DOMAIN s \ K
<1>1. DOMAIN t = L /\ \A k \in L : t[k] = s[k]
  BY DEF Without
<1>2. Table(t)
  <2>1. IsFiniteSet(L)
    BY FS_Subset DEF Table
  <2>2. \A k \in L : s[k] \in Rows /\ k \in Keys
    BY DEF Table, IsStore
  <2>3. t \in [DOMAIN t -> Rows]
    BY <1>1, <2>2 DEF Without
  <2> QED BY <1>1, <2>1, <2>2, <2>3 DEF Table, IsStore
<1>3. Support(t, L) = Support(s, L)
  <2>1. Counted(t, L) /\ Counted(s, L)
    BY <1>1, <1>2, TableCounts
  <2> HIDE DEF t, L
  <2> QED BY <1>1, <2>1, SupportSame
<1>4. Support(s, L \cup K) = Support(s, L) + Support(s, K)
  <2>1. Counted(s, L) /\ Counted(s, K)
    BY TableCounts
  <2> QED BY <2>1, SupportUnion
<1>5. L \cup K = DOMAIN s
  OBVIOUS
<1>6. Support(s, K) \in Nat
  BY TableCounts
<1>7. Retained(s, K).gone = Support(s, K) /\ Retained(s, K).rows = t
  BY DEF Retained
<1>8. Total(t) = Support(s, L) /\ Total(s) = Support(s, L) + Support(s, K)
  BY <1>1, <1>3, <1>4, <1>5 DEF Total
<1> HIDE DEF t, L
<1>9. Table(t) /\ Retained(s, K).gone \in Nat /\ Retained(s, K).rows = t
      /\ Total(t) + Retained(s, K).gone = Total(s)
  BY <1>2, <1>6, <1>7, <1>8
<1> QED BY <1>9 DEF t

----------------------------------------------------------------------------
(* Folding.                                                                *)

LEMMA Groups ==
  ASSUME NEW s, NEW k \in Foldable(s)
  PROVE  /\ Group(s, k) \subseteq Foldable(s) /\ Foldable(s) \subseteq DOMAIN s
         /\ k \in Group(s, k)
         /\ \A j \in Group(s, k) : Group(s, j) = Group(s, k)
BY DEF Group, Foldable

(* A survivor stands for its group, and no two for the same.               *)
LEMMA OneOfEach ==
  ASSUME NEW s, IsFiniteSet(DOMAIN s), NEW S \in Survivors(s)
  PROVE  /\ S \subseteq Foldable(s)
         /\ \A k \in Foldable(s) : \E j \in S : j \in Group(s, k)
         /\ \A j \in S, k \in S : j # k => Group(s, j) \cap Group(s, k) = {}
<1>1. S \subseteq Foldable(s) /\ \A k \in Foldable(s) : Cardinality(S \cap Group(s, k)) = 1
  BY DEF Survivors
<1>2. ASSUME NEW k \in Foldable(s) PROVE \E j : S \cap Group(s, k) = {j}
  <2>1. IsFiniteSet(S \cap Group(s, k))
    BY FS_Subset, Groups
  <2> QED BY <1>1, <2>1, FS_Singleton
<1>3. \A k \in Foldable(s) : \E j \in S : j \in Group(s, k)
  BY <1>2
<1>4. ASSUME NEW j \in S, NEW k \in S, j # k PROVE Group(s, j) \cap Group(s, k) = {}
  <2> SUFFICES ASSUME NEW i \in Group(s, j), i \in Group(s, k) PROVE FALSE
    OBVIOUS
  <2>1. j \in Foldable(s) /\ k \in Foldable(s)
    BY <1>1
  <2>2. Group(s, i) = Group(s, j) /\ Group(s, i) = Group(s, k)
    BY <2>1, Groups
  <2>3. j \in Group(s, j) /\ k \in Group(s, j)
    BY <2>1, <2>2, Groups
  <2>4. PICK x : S \cap Group(s, j) = {x}
    BY <1>2, <2>1
  <2> QED BY <2>3, <2>4, <1>4
<1> QED BY <1>1, <1>3, <1>4

(* The survivor is as recent as any of its group.                          *)
LEMMA LatestIs ==
  ASSUME NEW s, Table(s), NEW K \in SUBSET (DOMAIN s), K # {}
  PROVE  Latest(s, K) \in Nat /\ \A k \in K : s[k].last <= Latest(s, K)
<1> DEFINE T == {s[k].last : k \in K}
           f == [k \in K |-> s[k].last]
<1>1. \A k \in K : s[k].last \in Nat
  BY TableCounts DEF Rows
<1>2. IsFiniteSet(T)
  <2>1. IsFiniteSet(K)
    BY FS_Subset DEF Table
  <2>2. f \in Surjection(K, T)
    BY DEF Surjection
  <2> HIDE DEF f, T
  <2> QED BY <2>1, <2>2, FS_Surjection
<1>3. T \subseteq Int /\ T # {}
  BY <1>1
<1>4. \E t \in T : \A y \in T : t >= y
  <2> HIDE DEF T
  <2> QED BY <1>2, <1>3, LeastOfFinite
<1>5. \E t \in T : \A k \in K : s[k].last <= t
  BY <1>1, <1>4
<1>6. Latest(s, K) = CHOOSE t \in T : \A k \in K : s[k].last <= t
  BY DEF Latest
<1>7. Latest(s, K) \in T /\ \A k \in K : s[k].last <= Latest(s, K)
  <2> HIDE DEF T
  <2> QED BY <1>5, <1>6
<1> QED BY <1>1, <1>7

(* What a survivor becomes.                                                *)
LEMMA MergedIs ==
  ASSUME NEW s, Table(s), NEW k \in Foldable(s)
  PROVE  /\ Merged(s, k) \in Rows
         /\ Merged(s, k).support = Support(s, Group(s, k))
         /\ Merged(s, k).world = s[k].world /\ ~Merged(s, k).withdrawn
         /\ \A j \in Group(s, k) : /\ s[j].support <= Merged(s, k).support
                                   /\ s[j].last <= Merged(s, k).last
<1> DEFINE G == Group(s, k)
           n == Support(s, G)
           l == Latest(s, G)
<1>1. G \in SUBSET (DOMAIN s) /\ k \in G
  BY Groups
<1>2. s[k] \in Rows /\ ~s[k].withdrawn
  <2>1. k \in DOMAIN s /\ ~Protected(s[k])
    BY DEF Foldable
  <2> QED BY <2>1 DEF Table, IsStore, Protected
<1>3. Merged(s, k) = [s[k] EXCEPT !.support = n, !.last = l]
  BY DEF Merged
<1> HIDE DEF G
<1>4. l \in Nat /\ \A j \in G : s[j].last <= l
  BY <1>1, LatestIs
<1>5. n \in Nat /\ \A j \in G : s[j].support <= n
  <2>1. Counted(s, G)
    BY <1>1, TableCounts
  <2> QED BY <2>1, SupportFacts
<1>6. n # 0
  <2>1. s[k].support \in Nat \ {0} /\ s[k].support <= n
    BY <1>1, <1>2, <1>5 DEF Rows
  <2> QED BY <2>1, <1>5
<1> HIDE DEF n, l
<1>7. /\ Merged(s, k) \in Rows /\ Merged(s, k).support = n /\ Merged(s, k).last = l
      /\ Merged(s, k).world = s[k].world /\ Merged(s, k).withdrawn = s[k].withdrawn
  BY <1>2, <1>3, <1>4, <1>5, <1>6 DEF Rows
<1> QED BY <1>2, <1>4, <1>5, <1>7 DEF G, n

(* Folding keeps the table whole, and the sum of what it confirms.         *)
LEMMA ConsolidateIs ==
  ASSUME NEW s, Table(s), NEW S \in Survivors(s)
  PROVE  LET t == Consolidate(s, S)
         IN  /\ S \subseteq Foldable(s) /\ Foldable(s) \subseteq DOMAIN s
             /\ DOMAIN t = (DOMAIN s \ Foldable(s)) \cup S
             /\ \A k \in S : t[k] = Merged(s, k)
             /\ \A k \in DOMAIN s \ Foldable(s) : t[k] = s[k]
             /\ Table(t)
<1> DEFINE t == Consolidate(s, S)
           D == (DOMAIN s \ Foldable(s)) \cup S
<1>1. S \subseteq Foldable(s) /\ Foldable(s) \subseteq DOMAIN s
  BY OneOfEach, Groups DEF Table, Foldable
<1>2. t = [k \in D |-> IF k \in S THEN Merged(s, k) ELSE s[k]]
  BY DEF Consolidate
<1>3. DOMAIN t = D /\ (\A k \in S : t[k] = Merged(s, k))
      /\ \A k \in DOMAIN s \ Foldable(s) : t[k] = s[k]
  BY <1>1, <1>2
<1>4. D \subseteq DOMAIN s /\ IsFiniteSet(D)
  BY <1>1, FS_Subset DEF Table
<1>5. \A k \in D : t[k] \in Rows
  <2> SUFFICES ASSUME NEW k \in D PROVE t[k] \in Rows
    OBVIOUS
  <2>1. CASE k \in S
    BY <1>1, <1>3, <2>1, MergedIs
  <2>2. CASE k \notin S
    BY <1>3, <2>2 DEF Table, IsStore
  <2> QED BY <2>1, <2>2
<1>6. Table(t)
  <2>1. DOMAIN t \subseteq Keys
    BY <1>3, <1>4 DEF Table, IsStore
  <2>2. t = [k \in DOMAIN t |-> t[k]]
    BY <1>2
  <2> HIDE DEF t, D
  <2>3. t \in [DOMAIN t -> Rows]
    BY <1>3, <1>5, <2>2
  <2> QED BY <1>3, <1>4, <2>1, <2>3 DEF Table, IsStore
<1> QED BY <1>1, <1>3, <1>6

LEMMA ConsolidateCounts ==
  ASSUME NEW s, Table(s), NEW S \in Survivors(s)
  PROVE  Total(Consolidate(s, S)) = Total(s)
<1> DEFINE t == Consolidate(s, S)
           Rest == DOMAIN s \ Foldable(s)
           Of(R) == UNION {Group(s, k) : k \in R}
           H == {R \in SUBSET S : Support(t, R) = Support(s, Of(R))}
<1>1. /\ S \subseteq Foldable(s) /\ Foldable(s) \subseteq DOMAIN s
      /\ DOMAIN t = Rest \cup S
      /\ \A k \in S : t[k] = Merged(s, k)
      /\ \A k \in Rest : t[k] = s[k]
      /\ Table(t)
  BY ConsolidateIs
<1>2. /\ \A k \in Foldable(s) : \E j \in S : j \in Group(s, k)
      /\ \A j \in S, k \in S : j # k => Group(s, j) \cap Group(s, k) = {}
  BY OneOfEach DEF Table
<1> HIDE DEF t
<1>3. \A R \in SUBSET S : Counted(t, R) /\ Of(R) \in SUBSET (DOMAIN s) /\ Counted(s, Of(R))
  <2> SUFFICES ASSUME NEW R \in SUBSET S
               PROVE  Counted(t, R) /\ Of(R) \in SUBSET (DOMAIN s) /\ Counted(s, Of(R))
    OBVIOUS
  <2>1. R \in SUBSET (DOMAIN t)
    BY <1>1
  <2>2. Of(R) \in SUBSET (DOMAIN s)
    BY <1>1, Groups
  <2> HIDE DEF Of
  <2> QED BY <2>1, <2>2, <1>1, TableCounts
<1>4. {} \in H
  <2>1. Counted(t, {}) /\ Counted(s, {}) /\ Of({}) = {}
    BY <1>3
  <2>2. Support(t, {}) = 0 /\ Support(s, {}) = 0
    BY <2>1, SupportFacts
  <2> QED BY <2>1, <2>2
<1>5. ASSUME NEW R \in SUBSET S, NEW x \in S, R \in H, x \notin R
      PROVE  R \cup {x} \in H
  <2> DEFINE U == R \cup {x}
             G == Group(s, x)
  <2>1. U \in SUBSET S /\ x \in U /\ U \ {x} = R /\ Of(U) = Of(R) \cup G
    BY <1>5
  <2>2. Of(R) \cap G = {}
    BY <1>2, <1>5
  <2>3. Counted(s, G) /\ t[x].support = Support(s, G) /\ Support(s, G) \in Nat
    <3>1. G \in SUBSET (DOMAIN s)
      BY <1>1, Groups
    <3>2. t[x].support = Support(s, G)
      BY <1>1, MergedIs
    <3> HIDE DEF G
    <3> QED BY <3>1, <3>2, TableCounts
  <2>4. Counted(t, U) /\ Counted(s, Of(R)) /\ Support(t, R) = Support(s, Of(R))
    BY <1>3, <1>5, <2>1
  <2>5. Support(s, Of(R)) \in Nat
    BY <2>4, SupportType
  <2> HIDE DEF U, G, Of
  <2>6. Support(t, U) = t[x].support + Support(t, R)
    BY <2>1, <2>4, SupportLess
  <2>7. Support(s, Of(U)) = Support(s, Of(R)) + Support(s, G)
    BY <2>1, <2>2, <2>3, <2>4, SupportUnion
  <2>8. Support(t, U) = Support(s, Of(U))
    BY <2>3, <2>4, <2>5, <2>6, <2>7
  <2> QED BY <2>1, <2>8 DEF U
<1>6. Support(t, S) = Support(s, Of(S))
  <2>1. IsFiniteSet(S)
    BY <1>1, FS_Subset DEF Table
  <2> HIDE DEF H
  <2>2. S \in H
    BY <1>4, <1>5, <2>1, SetInduction
  <2> QED BY <2>2 DEF H
<1>7. Of(S) = Foldable(s)
  <2>1. Of(S) \subseteq Foldable(s)
    BY <1>1, Groups
  <2>2. ASSUME NEW k \in Foldable(s) PROVE k \in Of(S)
    <3>1. PICK j \in S : j \in Group(s, k)
      BY <1>2
    <3>2. k \in Group(s, k) /\ Group(s, j) = Group(s, k)
      BY <3>1, Groups
    <3> QED BY <3>1, <3>2
  <2> QED BY <2>1, <2>2
<1> HIDE DEF Of
<1>8. Support(t, Rest) = Support(s, Rest)
  <2>1. Rest \in SUBSET (DOMAIN t) /\ Rest \in SUBSET (DOMAIN s)
    BY <1>1
  <2>2. Counted(t, Rest) /\ Counted(s, Rest)
    BY <1>1, <2>1, TableCounts
  <2> HIDE DEF Rest
  <2> QED BY <1>1, <2>2, SupportSame
<1>9. Support(t, Rest \cup S) = Support(t, Rest) + Support(t, S)
  <2>1. Rest \in SUBSET (DOMAIN t) /\ S \in SUBSET (DOMAIN t) /\ Rest \cap S = {}
    BY <1>1
  <2>2. Counted(t, Rest) /\ Counted(t, S)
    BY <1>1, <2>1, TableCounts
  <2> HIDE DEF Rest
  <2> QED BY <2>1, <2>2, SupportUnion
<1>10. Support(s, Rest \cup Foldable(s)) = Support(s, Rest) + Support(s, Foldable(s))
  <2>1. Rest \in SUBSET (DOMAIN s) /\ Foldable(s) \in SUBSET (DOMAIN s) /\ Rest \cap Foldable(s) = {}
    BY <1>1
  <2>2. Counted(s, Rest) /\ Counted(s, Foldable(s))
    BY <2>1, TableCounts
  <2> HIDE DEF Rest
  <2> QED BY <2>1, <2>2, SupportUnion
<1>11. Rest \cup Foldable(s) = DOMAIN s
  BY <1>1
<1> HIDE DEF Rest
<1>12. Total(t) = Total(s)
  BY <1>1, <1>6, <1>7, <1>8, <1>9, <1>10, <1>11 DEF Total
<1> QED BY <1>12 DEF t

----------------------------------------------------------------------------
(* Notes.                                                                  *)

Recallable(s, k) == k[1] = "reason" /\ ~s[k].withdrawn /\ ~Evictable(s[k])

(* Every recallable note of s is in t, in some row and still recallable.   *)
KeepsNotes(s, t) ==
  \A k \in DOMAIN s : Recallable(s, k) =>
    \E j \in DOMAIN t : Recallable(t, j) /\ Folded[j[2]] = Folded[k[2]]

(* Of two rows the fresher one expires later.                              *)
LEMMA FresherStays ==
  ASSUME NEW r \in Rows, NEW q \in Rows, moment \in Nat,
         r.world = q.world, ~r.withdrawn, ~q.withdrawn, q.support <= r.support, q.last <= r.last,
         ~Evictable(q)
  PROVE  ~Evictable(r)
<1> SUFFICES ASSUME ~r.world, Ttl > 0, moment - r.last > Horizon(r), moment - r.last > DecayAge
             PROVE  FALSE
  BY DEF Evictable, Protected
<1> DEFINE m == Lesser(r.support, SupportCap)
           n == Lesser(q.support, SupportCap)
<1>1. r.last \in Nat /\ q.last \in Nat /\ r.support \in Nat /\ q.support \in Nat
      /\ Ttl \in Nat /\ SupportCap \in Nat /\ DecayAge \in Nat
  BY MemoryAssumption DEF Rows
<1>2. m \in Nat /\ n \in Nat /\ n <= m
  BY <1>1 DEF Lesser
<1>3. Ttl * n <= Ttl * m /\ Ttl * n \in Nat /\ Ttl * m \in Nat
  <2> HIDE DEF m, n
  <2>1. m - n \in Nat /\ Ttl * (m - n) >= 0
    BY <1>1, <1>2
  <2>2. Ttl * m = Ttl * n + Ttl * (m - n)
    BY <1>1, <1>2
  <2>3. Ttl * n \in Nat /\ Ttl * m \in Nat /\ Ttl * (m - n) \in Nat
    BY <1>1, <1>2, <2>1
  <2> QED BY <2>1, <2>2, <2>3
<1>4. Horizon(r) = Ttl * m /\ Horizon(q) = Ttl * n
  BY DEF Horizon
<1> HIDE DEF m, n
<1>5. moment - q.last > Horizon(q) /\ moment - q.last > DecayAge
  BY <1>1, <1>3, <1>4
<1> QED BY <1>5 DEF Evictable, Protected

LEMMA ConsolidateKeepsNotes ==
  ASSUME NEW s, Table(s), NEW S \in Survivors(s), moment \in Nat
  PROVE  KeepsNotes(s, Consolidate(s, S))
<1> DEFINE t == Consolidate(s, S)
<1>1. /\ S \subseteq Foldable(s) /\ Foldable(s) \subseteq DOMAIN s
      /\ DOMAIN t = (DOMAIN s \ Foldable(s)) \cup S
      /\ \A k \in S : t[k] = Merged(s, k)
      /\ \A k \in DOMAIN s \ Foldable(s) : t[k] = s[k]
      /\ Table(t)
  BY ConsolidateIs
<1> HIDE DEF t
<1>2. ASSUME NEW k \in DOMAIN s, Recallable(s, k)
      PROVE  \E j \in DOMAIN t : Recallable(t, j) /\ Folded[j[2]] = Folded[k[2]]
  <2>1. CASE k \notin Foldable(s)
    BY <1>1, <1>2, <2>1 DEF Recallable
  <2>2. CASE k \in Foldable(s)
    <3>1. PICK j \in S : j \in Group(s, k)
      BY <2>2, OneOfEach DEF Table
    <3>2. Group(s, j) = Group(s, k) /\ k \in Group(s, j) /\ j \in Foldable(s)
      BY <2>2, <3>1, Groups
    <3>3. j[1] = "reason" /\ Folded[j[2]] = Folded[k[2]] /\ j \in DOMAIN t
      BY <1>1, <3>1 DEF Group, Foldable
    <3>4. /\ t[j] \in Rows /\ s[k] \in Rows
          /\ t[j].world = s[j].world /\ ~t[j].withdrawn
          /\ s[k].support <= t[j].support /\ s[k].last <= t[j].last
      BY <1>1, <3>1, <3>2, MergedIs DEF Table, IsStore
    <3>5. s[j].world = s[k].world
      <4>1. ~s[j].world /\ ~s[k].world
        BY <2>2, <3>2 DEF Foldable, Protected
      <4>2. s[j] \in Rows /\ s[k] \in Rows
        BY <1>1, <3>1 DEF Table, IsStore
      <4>3. s[j].world \in BOOLEAN /\ s[k].world \in BOOLEAN
        BY <4>2 DEF Rows
      <4> QED BY <4>1, <4>3
    <3>6. ~Evictable(t[j])
      <4>1. ~s[k].withdrawn /\ ~Evictable(s[k])
        BY <1>2 DEF Recallable
      <4> QED BY <3>4, <3>5, <4>1, FresherStays
    <3> QED BY <3>3, <3>4, <3>6 DEF Recallable
  <2> QED BY <2>1, <2>2
<1>3. KeepsNotes(s, t)
  BY <1>2 DEF KeepsNotes
<1> QED BY <1>3 DEF t

LEMMA RetainedKeepsNotes ==
  ASSUME NEW s, NEW K, K \subseteq EvictableKeys(s)
  PROVE  KeepsNotes(s, Without(s, K))
<1> SUFFICES ASSUME NEW k \in DOMAIN s, Recallable(s, k)
             PROVE  \E j \in DOMAIN Without(s, K) :
                      Recallable(Without(s, K), j) /\ Folded[j[2]] = Folded[k[2]]
  BY DEF KeepsNotes
<1>1. k \notin K
  BY DEF Recallable, EvictableKeys
<1>2. k \in DOMAIN Without(s, K) /\ Without(s, K)[k] = s[k]
  BY <1>1 DEF Without
<1> QED BY <1>2 DEF Recallable

LEMMA KeepsNotesOn ==
  ASSUME NEW s, NEW t, NEW u, KeepsNotes(s, t), KeepsNotes(t, u)
  PROVE  KeepsNotes(s, u)
<1> SUFFICES ASSUME NEW k \in DOMAIN s, Recallable(s, k)
             PROVE  \E j \in DOMAIN u : Recallable(u, j) /\ Folded[j[2]] = Folded[k[2]]
  BY DEF KeepsNotes
<1>1. PICK i \in DOMAIN t : Recallable(t, i) /\ Folded[i[2]] = Folded[k[2]]
  BY DEF KeepsNotes
<1>2. PICK j \in DOMAIN u : Recallable(u, j) /\ Folded[j[2]] = Folded[i[2]]
  BY <1>1 DEF KeepsNotes
<1> QED BY <1>1, <1>2

-----------------------------------------------------------------------------
(* The transactions.                                                       *)

LEMMA PressureKeeps ==
  ASSUME NEW s, Table(s), moment \in Nat, NEW t \in UnderPressure(s)
  PROVE  /\ Table(t.rows) /\ t.gone \in Nat /\ t = [rows |-> t.rows, gone |-> t.gone]
         /\ Total(t.rows) + t.gone = Total(s)
         /\ KeepsNotes(s, t.rows)
<1>1. CASE Cardinality(DOMAIN s) < Cap
  <2>1. t = [rows |-> s, gone |-> 0]
    BY <1>1 DEF UnderPressure
  <2>2. Total(s) \in Nat
    BY TableCounts DEF Total
  <2>3. t.rows = s /\ t.gone = 0
    BY <2>1
  <2>4. KeepsNotes(s, s)
    BY DEF KeepsNotes
  <2> QED BY <2>1, <2>2, <2>3, <2>4
<1>2. CASE ~(Cardinality(DOMAIN s) < Cap)
  <2>1. PICK S \in Survivors(s) :
          \E K \in RoomFor(Consolidate(s, S)) : t = Retained(Consolidate(s, S), K)
    BY <1>2 DEF UnderPressure
  <2> DEFINE f == Consolidate(s, S)
  <2>2. Table(f) /\ Total(f) = Total(s) /\ KeepsNotes(s, f)
    BY ConsolidateIs, ConsolidateCounts, ConsolidateKeepsNotes
  <2> HIDE DEF f
  <2>3. PICK K \in RoomFor(f) : t = Retained(f, K)
    BY <2>1 DEF f
  <2>4. K \subseteq EvictableKeys(f) /\ K \in SUBSET (DOMAIN f)
    BY DEF RoomFor, EvictableKeys
  <2>5. /\ Table(Without(f, K)) /\ t.gone \in Nat /\ t.rows = Without(f, K)
        /\ Total(Without(f, K)) + t.gone = Total(f)
    BY <2>2, <2>3, <2>4, RetainedCounts
  <2>6. KeepsNotes(f, Without(f, K))
    BY <2>4, RetainedKeepsNotes
  <2>7. KeepsNotes(s, t.rows)
    BY <2>2, <2>5, <2>6, KeepsNotesOn
  <2>8. t = [rows |-> t.rows, gone |-> t.gone]
    BY <2>3 DEF Retained
  <2> QED BY <2>2, <2>5, <2>7, <2>8
<1> QED BY <1>1, <1>2

LEMMA PruneKeeps ==
  ASSUME Table(db), moment \in Nat, expired \in Nat, PruneMemory
  PROVE  /\ Table(db') /\ expired' \in Nat
         /\ Total(db') + expired' = Total(db) + expired
         /\ KeepsNotes(db, db')
<1>1. PICK S \in Survivors(db) :
        LET f == Consolidate(db, S)
            p == Retained(f, EvictableKeys(f))
        IN  db' = p.rows /\ expired' = expired + p.gone
  BY DEF PruneMemory
<1> DEFINE f == Consolidate(db, S)
           K == EvictableKeys(f)
           p == Retained(f, K)
<1>2. Table(f) /\ Total(f) = Total(db) /\ KeepsNotes(db, f)
  BY ConsolidateIs, ConsolidateCounts, ConsolidateKeepsNotes
<1>3. db' = p.rows /\ expired' = expired + p.gone
  BY <1>1
<1> HIDE DEF f
<1>4. K \in SUBSET (DOMAIN f)
  BY DEF EvictableKeys
<1> HIDE DEF K
<1>5. /\ Table(Without(f, K)) /\ p.gone \in Nat /\ p.rows = Without(f, K)
      /\ Total(Without(f, K)) + p.gone = Total(f)
  BY <1>2, <1>4, RetainedCounts
<1>6. KeepsNotes(f, Without(f, K))
  BY RetainedKeepsNotes DEF K
<1>7. KeepsNotes(db, db')
  BY <1>2, <1>3, <1>5, <1>6, KeepsNotesOn
<1>8. Total(db') \in Nat
  BY <1>3, <1>5, TableCounts DEF Total
<1> HIDE DEF p
<1>9. Total(db') + expired' = Total(db) + expired /\ expired' \in Nat
  BY <1>2, <1>3, <1>5, <1>8
<1> QED BY <1>3, <1>5, <1>7, <1>9

(* A write of one unit confirms one thing once.                            *)
LEMMA UpsertCounts ==
  ASSUME NEW s, Table(s), NEW c \in Calls, NEW u \in {"decision", "reason"},
         u = "reason" => c.note # NoNote
  PROVE  LET t == Upsert(s, c, u)
         IN  /\ Table(t) /\ Total(t) = Total(s) + 1
             /\ \A k \in DOMAIN s : k \in DOMAIN t /\ t[k].withdrawn = s[k].withdrawn
<1> DEFINE t == Upsert(s, c, u)
           key == KeyOf(c, u)
           row == IF key \in DOMAIN s THEN [s[key] EXCEPT !.support = @ + 1, !.last = c.at]
                  ELSE FreshRow(c, u)
           D == DOMAIN s \cup {key}
           old == IF key \in DOMAIN s THEN s[key].support ELSE 0
<1>1. t = [k \in D |-> IF k = key THEN row ELSE s[k]]
  BY DEF Upsert
<1>2. key \in Keys
  BY DEF KeyOf, Keys, Calls, Trusts
<1>3. /\ row \in Rows /\ row.support = old + 1 /\ old \in Nat
      /\ key \in DOMAIN s => row.withdrawn = s[key].withdrawn
  <2>0. c.at \in Nat
    BY DEF Calls
  <2>1. CASE key \in DOMAIN s
    <3>1. s[key] \in Rows
      BY <2>1 DEF Table, IsStore
    <3>2. row = [s[key] EXCEPT !.support = s[key].support + 1, !.last = c.at] /\ old = s[key].support
      BY <2>1
    <3> HIDE DEF row, old, key
    <3>3. old \in Nat /\ old + 1 \in Nat \ {0}
      BY <3>1, <3>2 DEF Rows
    <3>4. /\ row \in Rows /\ row.support = old + 1 /\ row.withdrawn = s[key].withdrawn
      BY <2>0, <3>1, <3>2, <3>3 DEF Rows
    <3> QED BY <3>3, <3>4
  <2>2. CASE key \notin DOMAIN s
    <3>1. row = FreshRow(c, u) /\ old = 0
      BY <2>2
    <3>2. PICK b \in BOOLEAN : b = (u = "decision" /\ ~Advisory(c))
      OBVIOUS
    <3>3. FreshRow(c, u) = [world |-> b, support |-> 1, last |-> c.at, withdrawn |-> FALSE]
      BY <3>2 DEF FreshRow
    <3> HIDE DEF row, old, key
    <3>4. row \in Rows /\ row.support = 1
      BY <2>0, <3>1, <3>3 DEF Rows
    <3> QED BY <2>2, <3>1, <3>4
  <2> QED BY <2>1, <2>2
<1> HIDE DEF row, key, t
<1>4. /\ DOMAIN t = D /\ t[key] = row /\ \A k \in DOMAIN s : k # key => t[k] = s[k]
  BY <1>1
<1>5. Table(t)
  <2>1. IsFiniteSet(D)
    BY FS_AddElement DEF Table
  <2>2. D \subseteq Keys
    BY <1>2 DEF Table, IsStore
  <2>3. \A k \in D : (IF k = key THEN row ELSE s[k]) \in Rows
    BY <1>3 DEF Table, IsStore
  <2>4. t \in [DOMAIN t -> Rows]
    BY <1>1, <1>4, <2>3
  <2> QED BY <1>4, <2>1, <2>2, <2>4 DEF Table, IsStore
<1> DEFINE L == DOMAIN s \ {key}
<1>6. Counted(s, L) /\ Counted(t, L) /\ Counted(t, D) /\ Counted(s, DOMAIN s)
  <2>1. L \in SUBSET (DOMAIN s) /\ L \in SUBSET (DOMAIN t) /\ D \in SUBSET (DOMAIN t)
    BY <1>4
  <2> HIDE DEF L, D
  <2> QED BY <1>5, <2>1, TableCounts
<1>7. Support(t, L) = Support(s, L) /\ Support(s, L) \in Nat
  <2>1. \A k \in L : t[k].support = s[k].support
    BY <1>4
  <2> HIDE DEF L
  <2> QED BY <1>6, <2>1, SupportSame, SupportType
<1>8. Support(t, D) = row.support + Support(t, L)
  <2>1. key \in D /\ D \ {key} = L
    OBVIOUS
  <2> HIDE DEF D, L
  <2> QED BY <1>4, <1>6, <2>1, SupportLess
<1>9. Support(s, DOMAIN s) = old + Support(s, L)
  <2>1. CASE key \in DOMAIN s
    BY <1>6, <2>1, SupportLess
  <2>2. CASE key \notin DOMAIN s
    <3>1. L = DOMAIN s
      BY <2>2
    <3> QED BY <1>7, <2>2, <3>1
  <2> QED BY <2>1, <2>2
<1> HIDE DEF L, old
<1>10. Total(t) = Total(s) + 1
  BY <1>3, <1>4, <1>7, <1>8, <1>9 DEF Total
<1>11. \A k \in DOMAIN s : k \in DOMAIN t /\ t[k].withdrawn = s[k].withdrawn
  BY <1>3, <1>4
<1> QED BY <1>5, <1>10, <1>11 DEF t

-----------------------------------------------------------------------------
(* The inductive invariant of the counts and the notes.                    *)

(* A recallable note of s is shown by t.                                   *)
Shows(s, t) == \A k \in DOMAIN s : Recallable(s, k) => Shown(t, Folded[k[2]]) # {}

(* The holder of the lock sees a table that, with what it has expired,     *)
(* holds as many confirmations as the committed one, and shows its notes.  *)
TxnInv ==
  lock # Nobody => /\ Total(txn.rows) + txn.gone = Total(db)
                   /\ Shows(db, txn.rows)

TablesInv ==
  /\ MemoryTypeOK
  /\ Table(db) /\ Table(txn.rows)
  /\ \A w \in Writers : unit[w] = "reason" => request[w].note # NoNote
  /\ \A w \in Writers : pc[w] = "writing" <=> lock = w

CountInv == TablesInv /\ TxnInv /\ ConfirmationsConserved

LEMMA EmptyTable == Table(Empty) /\ Total(Empty) = 0
<1>1. DOMAIN Empty = {} /\ Empty \in [{} -> Rows]
  BY DEF Empty
<1>2. Table(Empty)
  BY <1>1, FS_EmptySet DEF Table, IsStore
<1>3. Counted(Empty, {})
  BY FS_EmptySet DEF Counted
<1> QED BY <1>1, <1>2, <1>3, SupportFacts DEF Total

LEMMA NoTxnTable == Table(NoTxn.rows) /\ NoTxn.gone = 0 /\ NoTxn.rows = Empty
BY EmptyTable DEF NoTxn

LEMMA CountInit == MemoryInit => CountInv
<1> SUFFICES ASSUME MemoryInit PROVE CountInv
  OBVIOUS
<1> USE MemoryAssumption
<1>1. db = Empty /\ txn = NoTxn /\ lock = Nobody /\ confirmed = 0 /\ expired = 0
  BY DEF MemoryInit
<1>2. Table(db) /\ Table(txn.rows) /\ txn.gone = 0 /\ Total(db) = 0
  BY <1>1, EmptyTable, NoTxnTable
<1>3. MemoryTypeOK
  <2>1. IsStore(db) /\ IsStore(txn.rows)
    BY <1>2 DEF Table
  <2>2. request \in [Writers -> Calls]
    BY DEF MemoryInit, Calls, Trusts
  <2> QED BY <1>1, <1>2, <2>1, <2>2 DEF MemoryInit, MemoryTypeOK
<1>4. \A w \in Writers : unit[w] # "reason" /\ pc[w] # "writing" /\ lock # w
  BY <1>1 DEF MemoryInit
<1>5. ConfirmationsConserved
  BY <1>1, <1>2 DEF ConfirmationsConserved, Total
<1> QED BY <1>1, <1>2, <1>3, <1>4, <1>5 DEF CountInv, TablesInv, TxnInv

----------------------------------------------------------------------------
(* The steps.                                                              *)

(* What the actions have in common: pc, unit and decision move on.         *)
Moves(w) ==
  /\ \/ pc' = [pc EXCEPT ![w] = "idle"] /\ unit' = unit
     \/ /\ pc' = [pc EXCEPT ![w] = "waiting"] /\ unit' = [unit EXCEPT ![w] = "reason"]
        /\ request[w].note # NoNote
  /\ decision' \in [Writers -> {"none", "inserted", "reaffirmed", "capacity", "unavailable"}]

LEMMA ProceedMoves ==
  ASSUME MemoryTypeOK, NEW w \in Writers,
         NEW outcome \in {"none", "inserted", "reaffirmed", "capacity", "unavailable"},
         Proceed(w, outcome)
  PROVE  Moves(w)
<1>1. decision' \in [Writers -> {"none", "inserted", "reaffirmed", "capacity", "unavailable"}]
  BY DEF Proceed, MemoryTypeOK
<1>2. \/ pc' = [pc EXCEPT ![w] = "idle"] /\ unit' = unit
      \/ /\ pc' = [pc EXCEPT ![w] = "waiting"] /\ unit' = [unit EXCEPT ![w] = "reason"]
         /\ request[w].note # NoNote
  BY DEF Proceed
<1> QED BY <1>1, <1>2 DEF Moves

LEMMA StartTables ==
  ASSUME TablesInv, NEW w \in Writers, NEW v \in Verdicts, NEW by \in Trusts, NEW n \in Notes,
         Start(w, v, by, n)
  PROVE  TablesInv'
<1> USE MemoryAssumption
<1>1. [verdict |-> v, by |-> by, note |-> n, at |-> moment] \in Calls
  BY DEF TablesInv, MemoryTypeOK, Calls
<1>2. /\ request' \in [Writers -> Calls]
      /\ pc' \in [Writers -> {"idle", "waiting", "writing"}]
      /\ unit' \in [Writers -> {"decision", "reason"}]
      /\ decision' \in [Writers -> {"none", "inserted", "reaffirmed", "capacity", "unavailable"}]
      /\ calls' \in Nat
  BY <1>1 DEF TablesInv, MemoryTypeOK, Start
<1>3. UNCHANGED <<moment, db, lock, txn, confirmed, expired>>
  BY DEF Start
<1>4. MemoryTypeOK'
  BY <1>2, <1>3 DEF TablesInv, MemoryTypeOK, IsStore
<1>5. (Table(db) /\ Table(txn.rows))'
  BY <1>3 DEF TablesInv, Table, IsStore
<1>6. \A x \in Writers : unit'[x] = "reason" => request'[x].note # NoNote
  BY DEF Start, TablesInv, MemoryTypeOK
<1>7. \A x \in Writers : pc'[x] = "writing" <=> lock' = x
  BY DEF Start, TablesInv, MemoryTypeOK
<1> QED BY <1>4, <1>5, <1>6, <1>7 DEF TablesInv

LEMMA StartCounts ==
  ASSUME CountInv, NEW w \in Writers, NEW v \in Verdicts, NEW by \in Trusts, NEW n \in Notes,
         Start(w, v, by, n)
  PROVE  CountInv'
<1>1. TablesInv'
  BY StartTables DEF CountInv
<1>2. UNCHANGED <<moment, db, lock, txn, confirmed, expired>>
  BY DEF Start
<1>3. TxnInv' /\ ConfirmationsConserved'
  BY <1>2 DEF CountInv, TxnInv, Total, Shows, Recallable, Evictable, ConfirmationsConserved
<1> QED BY <1>1, <1>3 DEF CountInv

LEMMA ShowsKept == ASSUME NEW s, NEW t, KeepsNotes(s, t) PROVE Shows(s, t)
<1> SUFFICES ASSUME NEW k \in DOMAIN s, Recallable(s, k) PROVE Shown(t, Folded[k[2]]) # {}
  BY DEF Shows
<1>1. PICK j \in DOMAIN t : Recallable(t, j) /\ Folded[j[2]] = Folded[k[2]]
  BY DEF KeepsNotes
<1>2. j \in Shown(t, Folded[k[2]])
  BY <1>1 DEF Shown, Recallable
<1> QED BY <1>2

LEMMA BeginCounts ==
  ASSUME CountInv, NEW w \in Writers, Begin(w)
  PROVE  CountInv'
<1> USE MemoryAssumption
<1>1. /\ Table(db) /\ moment \in Nat /\ txn' \in UnderPressure(db) /\ lock' = w /\ lock = Nobody
      /\ pc' = [pc EXCEPT ![w] = "writing"]
      /\ UNCHANGED <<moment, db, unit, request, decision, calls, confirmed, expired>>
  BY DEF CountInv, TablesInv, MemoryTypeOK, Begin
<1>2. /\ Table(txn'.rows) /\ txn'.gone \in Nat
      /\ Total(txn'.rows) + txn'.gone = Total(db)
      /\ KeepsNotes(db, txn'.rows)
  BY <1>1, PressureKeeps
<1>3. Shows(db, txn'.rows)
  BY <1>2, ShowsKept
<1>4. TxnInv'
  BY <1>1, <1>2, <1>3 DEF TxnInv, Shows, Recallable, Evictable, Total
<1>5. MemoryTypeOK'
  BY <1>1, <1>2 DEF CountInv, TablesInv, MemoryTypeOK, Table, IsStore
<1>6. (Table(db) /\ Table(txn.rows))'
  BY <1>1, <1>2 DEF Table, IsStore
<1>7. \A x \in Writers : pc'[x] = "writing" <=> lock' = x
  BY <1>1 DEF CountInv, TablesInv, MemoryTypeOK
<1>8. \A x \in Writers : unit'[x] = "reason" => request'[x].note # NoNote
  BY <1>1 DEF CountInv, TablesInv
<1>9. ConfirmationsConserved'
  BY <1>1 DEF CountInv, ConfirmationsConserved
<1> QED BY <1>4, <1>5, <1>6, <1>7, <1>8, <1>9 DEF CountInv, TablesInv

(* A write of the lock's holder commits one confirmation, or nothing.      *)
LEMMA WriteIs ==
  ASSUME CountInv, NEW w \in Writers, Write(w)
  PROVE  /\ Moves(w)
         /\ lock = w /\ lock' = Nobody /\ txn' = NoTxn /\ UNCHANGED <<moment, request, calls>>
         /\ \/ /\ db' = Upsert(txn.rows, request[w], unit[w])
               /\ confirmed' = confirmed + 1 /\ expired' = expired + txn.gone
            \/ UNCHANGED <<db, confirmed, expired>>
<1>1. lock = w /\ MemoryTypeOK
  BY DEF CountInv, TablesInv, Write
<1>2. lock' = Nobody /\ txn' = NoTxn /\ UNCHANGED <<moment, request, calls>>
  BY DEF Write
<1> DEFINE s == Upsert(txn.rows, request[w], unit[w])
<1>3. \/ Commit(w, s, "reaffirmed")
      \/ Commit(w, s, "inserted")
      \/ Rollback(w)
  BY DEF Write
<1> HIDE DEF s
<1>4. Moves(w)
  BY <1>1, <1>3, ProceedMoves DEF Commit, Rollback
<1>5. \/ db' = s /\ confirmed' = confirmed + 1 /\ expired' = expired + txn.gone
      \/ UNCHANGED <<db, confirmed, expired>>
  BY <1>3 DEF Commit, Rollback
<1> QED BY <1>1, <1>2, <1>4, <1>5 DEF s

LEMMA WriteTotals ==
  ASSUME CountInv, NEW w \in Writers, Write(w)
  PROVE  /\ Table(db') /\ confirmed' \in Nat /\ expired' \in Nat
         /\ Total(db') + expired' = confirmed'
         /\ Shows(db, db')
<1>1. /\ Table(db) /\ Table(txn.rows) /\ txn.gone \in Nat /\ confirmed \in Nat /\ expired \in Nat
      /\ request[w] \in Calls /\ unit[w] \in {"decision", "reason"}
      /\ unit[w] = "reason" => request[w].note # NoNote
      /\ Total(db) + expired = confirmed
  BY DEF CountInv, TablesInv, MemoryTypeOK, ConfirmationsConserved, Total
<1>2. Total(txn.rows) + txn.gone = Total(db) /\ Shows(db, txn.rows)
  BY WriteIs, MemoryAssumption DEF CountInv, TxnInv
<1>3. CASE UNCHANGED <<db, confirmed, expired>>
  <2>1. Shows(db, db)
    BY ShowsKept DEF KeepsNotes
  <2> QED BY <1>1, <1>3, <2>1
<1>4. CASE /\ db' = Upsert(txn.rows, request[w], unit[w])
           /\ confirmed' = confirmed + 1 /\ expired' = expired + txn.gone
  <2>1. /\ Table(db') /\ Total(db') = Total(txn.rows) + 1
        /\ \A k \in DOMAIN txn.rows : k \in DOMAIN db' /\ db'[k].withdrawn = txn.rows[k].withdrawn
    BY <1>1, <1>4, UpsertCounts
  <2>2. Total(txn.rows) \in Nat
    BY <1>1, TableCounts DEF Total
  <2>3. Total(db') + expired' = confirmed' /\ confirmed' \in Nat /\ expired' \in Nat
    BY <1>1, <1>2, <1>4, <2>1, <2>2
  <2>4. \A text : Shown(txn.rows, text) \subseteq Shown(db', text)
    BY <2>1 DEF Shown
  <2>5. Shows(db, db')
    BY <1>2, <2>4 DEF Shows
  <2> QED BY <2>1, <2>3, <2>5
<1> QED BY <1>3, <1>4, WriteIs

LEMMA WriteCounts ==
  ASSUME CountInv, NEW w \in Writers, Write(w)
  PROVE  CountInv'
<1> USE MemoryAssumption
<1>1. /\ Table(db') /\ confirmed' \in Nat /\ expired' \in Nat
      /\ Total(db') + expired' = confirmed'
  BY WriteTotals
<1>2. Moves(w) /\ lock = w /\ lock' = Nobody /\ txn' = NoTxn /\ UNCHANGED <<moment, request, calls>>
  BY WriteIs
<1>3. Table(txn'.rows) /\ txn'.gone = 0
  BY <1>2, NoTxnTable
<1>4. MemoryTypeOK'
  <2>1. pc' \in [Writers -> {"idle", "waiting", "writing"}] /\ unit' \in [Writers -> {"decision", "reason"}]
    BY <1>2 DEF Moves, CountInv, TablesInv, MemoryTypeOK
  <2>2. decision' \in [Writers -> {"none", "inserted", "reaffirmed", "capacity", "unavailable"}]
    BY <1>2 DEF Moves
  <2>3. IsStore(db') /\ IsStore(txn'.rows)
    BY <1>1, <1>3 DEF Table
  <2>4. moment \in 0 .. MaxMoment /\ request \in [Writers -> Calls] /\ calls \in Nat
    BY DEF CountInv, TablesInv, MemoryTypeOK
  <2>5. MemoryTypeOK'
    BY <1>1, <1>2, <1>3, <2>1, <2>2, <2>3, <2>4 DEF MemoryTypeOK, IsStore
  <2> QED BY <2>5
<1>5. (Table(db) /\ Table(txn.rows))'
  BY <1>1, <1>3 DEF Table, IsStore
<1>6. \A x \in Writers : pc'[x] = "writing" <=> lock' = x
  BY <1>2 DEF Moves, CountInv, TablesInv, MemoryTypeOK
<1>7. \A x \in Writers : unit'[x] = "reason" => request'[x].note # NoNote
  BY <1>2 DEF Moves, CountInv, TablesInv, MemoryTypeOK
<1>8. ConfirmationsConserved' /\ TxnInv'
  BY <1>1, <1>2 DEF ConfirmationsConserved, TxnInv, Total
<1> QED BY <1>4, <1>5, <1>6, <1>7, <1>8 DEF CountInv, TablesInv

(* A wait that ends, or a death: the committed table stays.                *)
LEMMA LeaveCounts ==
  ASSUME CountInv, NEW w \in Writers, LockTimeout(w) \/ Crash(w)
  PROVE  CountInv' /\ db' = db
<1> USE MemoryAssumption
<1>1. UNCHANGED <<moment, db, request, calls, confirmed, expired>>
  BY DEF LockTimeout, Crash
<1>2. /\ pc' \in [Writers -> {"idle", "waiting", "writing"}]
      /\ unit' \in [Writers -> {"decision", "reason"}]
      /\ decision' \in [Writers -> {"none", "inserted", "reaffirmed", "capacity", "unavailable"}]
      /\ \A x \in Writers : unit'[x] = "reason" => request[x].note # NoNote
      /\ \A x \in Writers : pc'[x] = "writing" <=> lock' = x
      /\ \/ UNCHANGED <<lock, txn>>
         \/ lock' = Nobody /\ txn' = NoTxn
  <2>1. CASE LockTimeout(w)
    <3>1. MemoryTypeOK /\ Proceed(w, "unavailable")
      BY <2>1 DEF CountInv, TablesInv, LockTimeout
    <3>2. Moves(w)
      BY <3>1, ProceedMoves
    <3>3. pc[w] = "waiting" /\ UNCHANGED <<lock, txn>>
      BY <2>1 DEF LockTimeout
    <3> QED BY <3>2, <3>3 DEF Moves, CountInv, TablesInv, MemoryTypeOK
  <2>2. CASE Crash(w)
    BY <2>2 DEF Crash, CountInv, TablesInv, MemoryTypeOK
  <2> QED BY <2>1, <2>2
<1>3. Table(txn'.rows) /\ txn'.gone \in Nat
  BY <1>2, NoTxnTable DEF CountInv, TablesInv, MemoryTypeOK
<1>4. Table(db')
  BY <1>1 DEF CountInv, TablesInv, Table, IsStore
<1>5. MemoryTypeOK'
  BY <1>1, <1>2, <1>3, <1>4 DEF CountInv, TablesInv, MemoryTypeOK, Table, IsStore
<1>6. TablesInv'
  BY <1>1, <1>2, <1>3, <1>4, <1>5 DEF TablesInv, Table, IsStore
<1>7. TxnInv' /\ ConfirmationsConserved'
  BY <1>1, <1>2 DEF CountInv, TxnInv, Total, Shows, Recallable, Evictable, ConfirmationsConserved
<1> QED BY <1>1, <1>6, <1>7 DEF CountInv

(* A step of the operator, who has no transaction open beside it.          *)
LEMMA OperatorCounts ==
  ASSUME CountInv, Table(db'), expired' \in Nat, Total(db') + expired' = Total(db) + expired,
         lock = Nobody, UNCHANGED <<moment, lock, txn, pc, unit, request, decision, calls, confirmed>>
  PROVE  CountInv'
<1>1. MemoryTypeOK'
  BY DEF CountInv, TablesInv, MemoryTypeOK, Table, IsStore
<1>2. TablesInv'
  BY <1>1 DEF CountInv, TablesInv, Table, IsStore
<1>3. ConfirmationsConserved'
  BY DEF CountInv, ConfirmationsConserved, Total
<1>4. TxnInv'
  BY DEF TxnInv
<1> QED BY <1>2, <1>3, <1>4 DEF CountInv

LEMMA WithdrawIs ==
  ASSUME CountInv, NEW k \in Keys, Withdraw(k)
  PROVE  /\ Table(db') /\ Total(db') = Total(db) /\ DOMAIN db' = DOMAIN db
         /\ k \in DOMAIN db /\ db'[k].withdrawn = TRUE
         /\ \A j \in DOMAIN db : j # k => db'[j] = db[j]
<1>1. k \in DOMAIN db /\ db' = [db EXCEPT ![k] = [db[k] EXCEPT !.withdrawn = TRUE]]
  BY DEF Withdraw
<1>2. Table(db) /\ db[k] \in Rows
  BY <1>1 DEF CountInv, TablesInv, Table, IsStore
<1>3. DOMAIN db' = DOMAIN db /\ \A j \in DOMAIN db : j # k => db'[j] = db[j]
  BY <1>1
<1>4. db'[k] = [db[k] EXCEPT !.withdrawn = TRUE]
  BY <1>1
<1>5. db'[k] \in Rows /\ db'[k].support = db[k].support /\ db'[k].withdrawn = TRUE
  BY <1>2, <1>4 DEF Rows
<1>6. Table(db')
  <2>1. db' = [j \in DOMAIN db' |-> db'[j]]
    BY <1>1
  <2>2. \A j \in DOMAIN db' : db'[j] \in Rows
    BY <1>2, <1>3, <1>5 DEF Table, IsStore
  <2>3. db' \in [DOMAIN db' -> Rows]
    BY <2>1, <2>2
  <2> QED BY <1>2, <1>3, <2>3 DEF Table, IsStore
<1>7. Total(db') = Total(db)
  <2>1. Counted(db, DOMAIN db) /\ Counted(db', DOMAIN db)
    BY <1>2, <1>3, <1>6, TableCounts
  <2>2. \A j \in DOMAIN db : db[j].support = db'[j].support
    BY <1>3, <1>5
  <2>3. Support(db, DOMAIN db) = Support(db', DOMAIN db)
    BY <2>1, <2>2, SupportSame
  <2> QED BY <1>3, <2>3 DEF Total
<1> QED BY <1>1, <1>3, <1>5, <1>6, <1>7

LEMMA WithdrawCounts ==
  ASSUME CountInv, NEW k \in Keys, Withdraw(k)
  PROVE  CountInv'
<1>1. Table(db') /\ Total(db') = Total(db)
  BY WithdrawIs
<1>2. /\ lock = Nobody
      /\ UNCHANGED <<moment, lock, txn, pc, unit, request, decision, calls, confirmed, expired>>
  BY DEF Withdraw
<1>3. expired \in Nat
  BY DEF CountInv, TablesInv, MemoryTypeOK
<1> QED BY <1>1, <1>2, <1>3, OperatorCounts

LEMMA PruneCounts ==
  ASSUME CountInv, PruneMemory
  PROVE  CountInv'
<1>1. Table(db) /\ moment \in Nat /\ expired \in Nat
  BY MemoryAssumption DEF CountInv, TablesInv, MemoryTypeOK
<1>2. Table(db') /\ expired' \in Nat /\ Total(db') + expired' = Total(db) + expired
  BY <1>1, PruneKeeps
<1>3. /\ lock = Nobody
      /\ UNCHANGED <<moment, lock, txn, pc, unit, request, decision, calls, confirmed>>
  BY DEF PruneMemory
<1> QED BY <1>2, <1>3, OperatorCounts

(* What is recallable later is recallable now.                             *)
LEMMA TickCounts ==
  ASSUME CountInv, Tick
  PROVE  CountInv'
<1> USE MemoryAssumption
<1>1. /\ UNCHANGED <<db, lock, txn, pc, unit, request, decision, calls, confirmed, expired>>
      /\ moment' = moment + 1 /\ moment' \in 0 .. MaxMoment /\ moment \in Nat
  BY DEF Tick, CountInv, TablesInv, MemoryTypeOK
<1>2. TablesInv' /\ ConfirmationsConserved'
  BY <1>1 DEF CountInv, TablesInv, MemoryTypeOK, Table, IsStore, ConfirmationsConserved
<1>3. ASSUME NEW k \in DOMAIN db, Recallable(db, k)' PROVE Recallable(db, k)
  <2>1. Table(db) /\ db[k] \in Rows /\ db' = db
    BY <1>1 DEF CountInv, TablesInv, Table, IsStore
  <2>2. db[k].last \in Nat /\ db[k].support \in Nat
    BY <2>1 DEF Rows
  <2>3. Horizon(db[k]) \in Int
    <3>1. Lesser(db[k].support, SupportCap) \in Nat
      BY <2>2 DEF Lesser
    <3> QED BY <3>1 DEF Horizon
  <2>4. moment - db[k].last > Horizon(db[k]) => moment + 1 - db[k].last > Horizon(db[k])
    BY <1>1, <2>2, <2>3
  <2>5. moment - db[k].last > DecayAge => moment + 1 - db[k].last > DecayAge
    BY <1>1, <2>2
  <2>6. Horizon(db[k])' = Horizon(db[k]) /\ Protected(db[k])' = Protected(db[k])
    BY <2>1 DEF Horizon, Protected
  <2>7. moment' = moment + 1 /\ db'[k] = db[k]
    BY <1>1, <2>1
  <2>8. Evictable(db[k]) => Evictable(db[k])'
    <3>1. moment' - db'[k].last = moment + 1 - db[k].last
      BY <1>1, <2>2, <2>7
    <3> QED BY <2>4, <2>5, <2>6, <3>1 DEF Evictable
  <2> QED BY <1>3, <2>1, <2>8 DEF Recallable
<1>4. TxnInv'
  <2>1. ASSUME lock # Nobody PROVE Shows(db, txn.rows)'
    <3>1. Shows(db, txn.rows)
      BY <2>1 DEF CountInv, TxnInv
    <3> SUFFICES ASSUME NEW k \in DOMAIN db, Recallable(db, k)'
                 PROVE  Shown(txn.rows, Folded[k[2]])' # {}
      BY <1>1 DEF Shows
    <3>2. Shown(txn.rows, Folded[k[2]]) # {}
      BY <1>3, <3>1 DEF Shows
    <3> QED BY <1>1, <3>2 DEF Shown
  <2> QED BY <1>1, <2>1 DEF CountInv, TxnInv, Total
<1> QED BY <1>2, <1>4 DEF CountInv

LEMMA CountNext == CountInv /\ [MemoryNext]_memoryVars => CountInv'
<1> SUFFICES ASSUME CountInv, [MemoryNext]_memoryVars PROVE CountInv'
  OBVIOUS
<1>1. CASE UNCHANGED memoryVars
  BY <1>1 DEF memoryVars, CountInv, TablesInv, MemoryTypeOK, Table, IsStore, TxnInv, Total, Shows,
              Recallable, Evictable, ConfirmationsConserved
<1>2. CASE \E w \in Writers : Begin(w) \/ Write(w) \/ LockTimeout(w) \/ Crash(w)
  BY <1>2, BeginCounts, WriteCounts, LeaveCounts
<1>3. CASE \E w \in Writers, v \in Verdicts, by \in Trusts, n \in Notes : Start(w, v, by, n)
  BY <1>3, StartCounts
<1>4. CASE \E k \in Keys : Withdraw(k)
  BY <1>4, WithdrawCounts
<1>5. CASE PruneMemory
  BY <1>5, PruneCounts
<1>6. CASE Tick
  BY <1>6, TickCounts
<1> QED BY <1>1, <1>2, <1>3, <1>4, <1>5, <1>6 DEF MemoryNext

(* Every confirmation that committed is in the support of some row or was  *)
(* expired, however folds, rollbacks, crashes and writers interleave.      *)
THEOREM ConfirmationsAreKept == MemorySpec => [](ConfirmationsConserved /\ MemoryTypeOK)
<1>1. CountInv => ConfirmationsConserved /\ MemoryTypeOK
  BY DEF CountInv, TablesInv
<1> QED BY <1>1, CountInit, CountNext, PTL DEF MemorySpec

Survive ==
  \A k \in DOMAIN db :
     /\ k[1] = "reason" /\ ~db[k].withdrawn /\ ~Evictable(db[k])
     => \/ Shown(db', Folded[k[2]]) # {}
        \/ k \in DOMAIN db' /\ db'[k].withdrawn

LEMMA StepSurvives == CountInv /\ [MemoryNext]_memoryVars => Survive
<1> SUFFICES ASSUME CountInv, [MemoryNext]_memoryVars, NEW k \in DOMAIN db, Recallable(db, k)
             PROVE  Shown(db', Folded[k[2]]) # {} \/ (k \in DOMAIN db' /\ db'[k].withdrawn)
  BY DEF Survive, Recallable
<1>1. CASE db' = db
  <2>1. k \in Shown(db', Folded[k[2]])
    BY <1>1 DEF Shown, Recallable
  <2> QED BY <2>1
<1>2. CASE \E w \in Writers : Write(w)
  BY <1>2, WriteTotals DEF Shows
<1>3. CASE PruneMemory
  <2>1. Table(db) /\ moment \in Nat /\ expired \in Nat
    BY MemoryAssumption DEF CountInv, TablesInv, MemoryTypeOK
  <2>2. Shows(db, db')
    BY <1>3, <2>1, PruneKeeps, ShowsKept
  <2> QED BY <2>2 DEF Shows
<1>4. ASSUME NEW j \in Keys, Withdraw(j)
      PROVE  Shown(db', Folded[k[2]]) # {} \/ (k \in DOMAIN db' /\ db'[k].withdrawn)
  <2>1. DOMAIN db' = DOMAIN db /\ db'[j].withdrawn = TRUE /\ (k # j => db'[k] = db[k])
    BY <1>4, WithdrawIs
  <2>2. k # j => k \in Shown(db', Folded[k[2]])
    BY <2>1 DEF Shown, Recallable
  <2> QED BY <2>1, <2>2
<1> QED BY <1>1, <1>2, <1>3, <1>4
        DEF MemoryNext, memoryVars, Start, Begin, LockTimeout, Crash, Tick

(* A note that is recallable and not due for expiry stays recallable until *)
(* it is withdrawn.                                                        *)
THEOREM NotesAreKept == MemorySpec => NotesSurvive
<1>1. CountInv /\ [MemoryNext]_memoryVars => [Survive]_memoryVars
  BY StepSurvives
<1>2. MemorySpec => []CountInv
  BY CountInit, CountNext, PTL DEF MemorySpec
<1> QED BY <1>1, <1>2, PTL DEF MemorySpec, NotesSurvive, Survive
=============================================================================
