-------------------------- MODULE VerdictsProofs --------------------------
(***************************************************************************)
(* Proofs about the two indicator stores and the validator that reads      *)
(* them, for every set of indicators, domain relation, TTL, cap, sweep     *)
(* interval and bound on time and writes.                                  *)
(*                                                                         *)
(* The inductive invariant says of each store that a held entry is no      *)
(* newer than the last registration of its indicator and had not expired   *)
(* when the store was last swept, and that while the last flush reached    *)
(* the file, memory and file differ only by entries that have expired.     *)
(* HonourInv says of each that, at the times when nothing has been lost,   *)
(* it still holds what was registered last and is not due.                 *)
(***************************************************************************)
EXTENDS Verdicts, FiniteSetTheorems, TLAPS

Timely(s, last, ttl, t) ==
  /\ s \in Stores
  /\ s.swept <= t
  /\ \A i \in Iocs : s.entries[i] # NoEntry =>
       /\ s.entries[i].ts <= last[i]
       /\ ttl = 0 \/ s.swept - s.entries[i].ts <= ttl
  /\ \A i \in Iocs : s.file[i] # NoEntry => s.file[i].ts <= last[i]
  /\ s.saved => \A i \in Iocs : \/ s.file[i] = s.entries[i]
                                \/ s.entries[i] = NoEntry /\ Expired(s.file[i], ttl, t)

Clock(last, t) == last \in [Iocs -> Times] /\ \A i \in Iocs : last[i] <= t

Bounded(s, max) ==
  max > 0 => Cardinality(Held(s.entries)) <= max /\ Cardinality(Held(s.file)) <= max

RegistryOK ==
  /\ Clock(lastLead, now) /\ Timely(registry, lastLead, RegistryTtl, now)
  /\ persistent => Bounded(registry, RegistryMax)

KbOK ==
  /\ Clock(lastFalse, now) /\ Timely(kb, lastFalse, KbTtl, now)
  /\ persistent => Bounded(kb, KbMax)

RestOK ==
  /\ now \in 0 .. MaxTime
  /\ persistent \in BOOLEAN
  /\ domains \subseteq Iocs
  /\ run \in Runs
  /\ writes \in 0 .. MaxWrites
  /\ lastTrue \in [Iocs -> Times]
  /\ forgot \in BOOLEAN

IInv == RegistryOK /\ KbOK /\ RestOK

----------------------------------------------------------------------------
(* The operators of a store.                                               *)

LEMMA EntryTypes ==
  /\ NoEntry \in Entries
  /\ \A e \in Entries : e.ts \in -1 .. MaxTime
  /\ \A e \in Entries : e # NoEntry => e.ts \in 0 .. MaxTime /\ e.source \in Sources
  /\ \A src \in Sources, t \in 0 .. MaxTime : [ts |-> t, source |-> src] \in Entries
BY TtlStoreAssumption DEF Entries, NoEntry, Sources

(* A sweep keeps the entries that have not expired, and only those.        *)
LEMMA SweepLemma ==
  ASSUME NEW E \in [Iocs -> Entries], NEW ttl \in Nat, NEW t \in Nat
  PROVE  /\ SweptEntries(E, ttl, t) \in [Iocs -> Entries]
         /\ \A i \in Iocs : SweptEntries(E, ttl, t)[i] = IF Expired(E[i], ttl, t) THEN NoEntry ELSE E[i]
BY EntryTypes DEF SweptEntries

LEMMA ForcedLemma ==
  ASSUME NEW s, NEW last, NEW ttl \in Nat, NEW t \in 0 .. MaxTime,
         Clock(last, t), Timely(s, last, ttl, t)
  PROVE  /\ Timely(ForcedSweep(s, ttl, t), last, ttl, t)
         /\ \A i \in Iocs : s.entries[i] = NoEntry => ForcedSweep(s, ttl, t).entries[i] = NoEntry
<1> DEFINE S == SweptEntries(s.entries, ttl, t)
<1> DEFINE r == [entries |-> S, file |-> s.file, swept |-> t, saved |-> s.saved]
<1>0. s \in Stores /\ s.entries \in [Iocs -> Entries] /\ t \in Nat
  BY TtlStoreAssumption DEF Timely, Stores
<1>1. S \in [Iocs -> Entries] /\ \A i \in Iocs : S[i] = IF Expired(s.entries[i], ttl, t) THEN NoEntry ELSE s.entries[i]
  BY <1>0, SweepLemma
<1> HIDE DEF S
<1>2. r \in Stores /\ r.entries = S /\ r.file = s.file /\ r.swept = t /\ r.saved = s.saved
  BY <1>0, <1>1, TtlStoreAssumption DEF Stores, Never
<1>3. ForcedSweep(s, ttl, t) = r
  BY DEF ForcedSweep, S
<1> HIDE DEF r
<1>4. \A i \in Iocs : s.entries[i] \in Entries
  BY <1>0
<1>5. \A i \in Iocs : S[i] # NoEntry => S[i].ts <= last[i] /\ (ttl = 0 \/ t - S[i].ts <= ttl)
  BY <1>1, <1>4, EntryTypes DEF Timely, Expired
<1>6. s.saved => \A i \in Iocs : s.file[i] = S[i] \/ (S[i] = NoEntry /\ Expired(s.file[i], ttl, t))
  BY <1>1 DEF Timely
<1>7. Timely(r, last, ttl, t)
  BY <1>2, <1>5, <1>6 DEF Timely
<1>8. \A i \in Iocs : s.entries[i] = NoEntry => S[i] = NoEntry
  BY <1>1
<1> QED BY <1>2, <1>3, <1>7, <1>8

LEMMA LazyLemma ==
  ASSUME NEW s, NEW last, NEW ttl \in Nat, NEW t \in 0 .. MaxTime,
         Clock(last, t), Timely(s, last, ttl, t)
  PROVE  /\ Timely(LazySweep(s, ttl, t), last, ttl, t)
         /\ \A i \in Iocs : s.entries[i] = NoEntry => LazySweep(s, ttl, t).entries[i] = NoEntry
         /\ t - LazySweep(s, ttl, t).swept < SweepInterval
<1>1. CASE t - s.swept < SweepInterval
  BY <1>1 DEF LazySweep
<1>2. CASE ~(t - s.swept < SweepInterval)
  <2>1. LazySweep(s, ttl, t) = ForcedSweep(s, ttl, t)
    BY <1>2 DEF LazySweep
  <2>2. s \in Stores
    BY DEF Timely
  <2>3. ForcedSweep(s, ttl, t).swept = t
    BY <2>2 DEF ForcedSweep, Stores
  <2> QED BY <2>1, <2>3, ForcedLemma, TtlStoreAssumption
<1> QED BY <1>1, <1>2

(* A lookup's answer is founded: what it finds is no older than the TTL    *)
(* and one sweep interval.                                                 *)
LEMMA FreshLemma ==
  ASSUME NEW s, NEW last, NEW ttl \in Nat, NEW t \in 0 .. MaxTime,
         Clock(last, t), Timely(s, last, ttl, t), t - s.swept < SweepInterval,
         NEW i \in Iocs, s.entries[i] # NoEntry
  PROVE  last[i] >= 0 /\ (ttl = 0 \/ t - last[i] < ttl + SweepInterval)
<1>1. s.entries[i] \in Entries /\ s.swept \in Int
  BY TtlStoreAssumption DEF Timely, Stores, Never
<1>2. s.entries[i].ts \in 0 .. MaxTime
  BY <1>1, EntryTypes
<1>3. last[i] \in Int
  BY DEF Clock, Times
<1> QED BY <1>1, <1>2, <1>3, TtlStoreAssumption DEF Timely

(* What the cap leaves is a part of what was held, with the new entry.     *)
LEMMA CappedLemma ==
  ASSUME NEW E \in [Iocs -> Entries], NEW i \in Iocs, NEW max \in Nat, NEW F \in Capped(E, i, max),
         E[i] # NoEntry
  PROVE  /\ F \in [Iocs -> Entries]
         /\ \A j \in Iocs : F[j] = E[j] \/ F[j] = NoEntry
         /\ max > 0 => Cardinality(Held(F)) <= max
<1>1. CASE max > 0 /\ Cardinality(Held(E)) > max
  <2>1. PICK K \in SUBSET Iocs : KeepsNewest(E, K, i, max)
                                /\ F = [j \in Iocs |-> IF j \in K THEN E[j] ELSE NoEntry]
    BY <1>1 DEF Capped
  <2>2. Held(F) = K
    BY <2>1 DEF KeepsNewest, Held
  <2>3. Cardinality(K) = max
    BY <2>1 DEF KeepsNewest
  <2> QED BY <2>1, <2>2, <2>3, EntryTypes
<1>2. CASE ~(max > 0 /\ Cardinality(Held(E)) > max)
  <2>1. F = E
    BY <1>2 DEF Capped
  <2>2. IsFiniteSet(Held(E))
    BY TtlStoreAssumption, FS_Subset DEF Held
  <2>3. Cardinality(Held(E)) \in Nat
    BY <2>2, FS_CardinalityType
  <2> QED BY <1>2, <2>1, <2>3
<1> QED BY <1>1, <1>2

LEMMA PutLemma ==
  ASSUME NEW E \in [Iocs -> Entries], NEW i \in Iocs, NEW e \in Entries
  PROVE  /\ Put(E, i, e) \in [Iocs -> Entries]
         /\ \A j \in Iocs : Put(E, i, e)[j] = IF j = i THEN e ELSE E[j]
BY DEF Put

LEMMA RegisteredLemma ==
  ASSUME NEW s, NEW last, NEW ttl \in Nat, NEW max \in Nat, NEW t \in 0 .. MaxTime,
         NEW i \in Iocs, NEW src \in Sources, NEW p \in BOOLEAN,
         Clock(last, t), Timely(s, last, ttl, t),
         NEW r \in Registered(s, i, src, ttl, max, t, p)
  PROVE  Clock([last EXCEPT ![i] = t], t) /\ Timely(r, [last EXCEPT ![i] = t], ttl, t)
<1> DEFINE e == [ts |-> t, source |-> src]
<1> DEFINE E == Put(s.entries, i, e)
<1> DEFINE S == SweptEntries(E, ttl, t)
<1> DEFINE next == [last EXCEPT ![i] = t]
<1>0. s \in Stores /\ s.entries \in [Iocs -> Entries] /\ s.file \in [Iocs -> Entries] /\ t \in Nat
  BY TtlStoreAssumption DEF Timely, Stores
<1>1. e \in Entries /\ e.ts = t /\ e # NoEntry
  BY EntryTypes, TtlStoreAssumption DEF NoEntry
<1> HIDE DEF e
<1>2. E \in [Iocs -> Entries] /\ \A j \in Iocs : E[j] = IF j = i THEN e ELSE s.entries[j]
  BY <1>0, <1>1, PutLemma
<1> HIDE DEF E
<1>3. S \in [Iocs -> Entries] /\ \A j \in Iocs : S[j] = IF Expired(E[j], ttl, t) THEN NoEntry ELSE E[j]
  BY <1>0, <1>2, SweepLemma
<1> HIDE DEF S
<1>4. Clock(next, t) /\ next[i] = t /\ \A j \in Iocs : j # i => next[j] = last[j]
  BY TtlStoreAssumption DEF Clock, Times
<1>5. \A j \in Iocs : last[j] <= next[j]
  BY <1>4 DEF Clock, Times
<1> HIDE DEF next
<1>6. \A j \in Iocs : last[j] \in Int /\ next[j] \in Int
  BY <1>4 DEF Clock, Times
<1>7. \A j \in Iocs : s.file[j] # NoEntry => s.file[j].ts <= next[j]
  <2>1. \A j \in Iocs : s.file[j].ts \in Int
    BY <1>0, EntryTypes
  <2> QED BY <2>1, <1>5, <1>6 DEF Timely
<1>8. \A j \in Iocs : E[j] # NoEntry => E[j].ts <= next[j]
  <2>1. \A j \in Iocs : E[j].ts \in Int
    BY <1>2, EntryTypes
  <2> QED BY <2>1, <1>1, <1>2, <1>4, <1>5, <1>6 DEF Timely
<1>9. S[i] # NoEntry
  BY <1>1, <1>2, <1>3, <1>0 DEF Expired
<1>10. CASE p
  <2>1. PICK F \in Capped(S, i, max), ok \in BOOLEAN :
          r = [entries |-> F, file |-> IF ok THEN F ELSE s.file, swept |-> t, saved |-> ok]
    BY <1>10 DEF Registered, S, E, e
  <2>2. F \in [Iocs -> Entries] /\ \A j \in Iocs : F[j] = S[j] \/ F[j] = NoEntry
    BY <1>3, <1>9, CappedLemma
  <2>3. \A j \in Iocs : F[j] # NoEntry => F[j].ts <= next[j] /\ (ttl = 0 \/ t - F[j].ts <= ttl)
    <3>1. \A j \in Iocs : F[j].ts \in Int
      BY <2>2, EntryTypes
    <3>2. \A j \in Iocs : F[j] # NoEntry => F[j] = E[j] /\ ~Expired(E[j], ttl, t)
      BY <2>2, <1>3
    <3> QED BY <3>1, <3>2, <1>8 DEF Expired
  <2>4. r \in Stores
    BY <2>1, <2>2, <1>0, TtlStoreAssumption DEF Stores, Never
  <2>5. r.entries = F /\ r.swept = t /\ r.saved = ok /\ r.file = IF ok THEN F ELSE s.file
    BY <2>1
  <2>6. \A j \in Iocs : r.file[j] # NoEntry => r.file[j].ts <= next[j]
    BY <2>3, <2>5, <1>7
  <2> QED BY <2>3, <2>4, <2>5, <2>6, <1>4 DEF Timely, next
<1>11. CASE ~p
  <2>1. r = [entries |-> E, file |-> s.file, swept |-> s.swept, saved |-> FALSE]
    BY <1>11 DEF Registered, E, e
  <2>2. r \in Stores /\ r.entries = E /\ r.file = s.file /\ r.swept = s.swept /\ r.saved = FALSE
    BY <2>1, <1>0, <1>2 DEF Stores
  <2>3. s.swept \in Int /\ s.swept <= t
    BY <1>0, TtlStoreAssumption DEF Timely, Stores, Never
  <2>4. \A j \in Iocs : E[j] # NoEntry => ttl = 0 \/ s.swept - E[j].ts <= ttl
    BY <1>1, <1>2, <2>3 DEF Timely
  <2> QED BY <2>2, <2>3, <2>4, <1>4, <1>7, <1>8 DEF Timely, next
<1> QED BY <1>10, <1>11

LEMMA LoadLemma ==
  ASSUME NEW s, NEW last, NEW ttl \in Nat, NEW t \in 0 .. MaxTime,
         Clock(last, t), Timely(s, last, ttl, t)
  PROVE  /\ Timely(Load(s, ttl, t), last, ttl, t)
         /\ s.saved => \A i \in Iocs : s.entries[i] = NoEntry => Load(s, ttl, t).entries[i] = NoEntry
<1> DEFINE S == SweptEntries(s.file, ttl, t)
<1>0. s \in Stores /\ s.file \in [Iocs -> Entries] /\ t \in Nat
  BY TtlStoreAssumption DEF Timely, Stores
<1>1. S \in [Iocs -> Entries] /\ \A i \in Iocs : S[i] = IF Expired(s.file[i], ttl, t) THEN NoEntry ELSE s.file[i]
  BY <1>0, SweepLemma
<1>2. Load(s, ttl, t) = [entries |-> S, file |-> s.file, swept |-> Never, saved |-> s.saved]
  BY DEF Load
<1> HIDE DEF S
<1>3. Load(s, ttl, t) \in Stores
  BY <1>0, <1>1, <1>2, TtlStoreAssumption DEF Stores, Never
<1>4. \A i \in Iocs : S[i] # NoEntry => S[i].ts <= last[i] /\ (ttl = 0 \/ Never - S[i].ts <= ttl)
  <2>1. \A i \in Iocs : S[i] # NoEntry => S[i] = s.file[i] /\ S[i].ts \in 0 .. MaxTime
    BY <1>1, EntryTypes
  <2> QED BY <2>1, TtlStoreAssumption DEF Timely, Never
<1>5. \A i \in Iocs : s.file[i] = S[i] \/ (S[i] = NoEntry /\ Expired(s.file[i], ttl, t))
  BY <1>1
<1>6. Never <= t
  BY TtlStoreAssumption DEF Never
<1>7. s.saved => \A i \in Iocs : s.entries[i] = NoEntry => S[i] = NoEntry
  BY <1>1 DEF Timely
<1>8. \A i \in Iocs : s.file[i] # NoEntry => s.file[i].ts <= last[i]
  BY DEF Timely
<1> QED BY <1>2, <1>3, <1>4, <1>5, <1>6, <1>7, <1>8 DEF Timely

(* What has expired stays expired as time passes.                          *)
LEMMA TickLemma ==
  ASSUME NEW s, NEW last, NEW ttl \in Nat, NEW t \in 0 .. MaxTime,
         Clock(last, t), Timely(s, last, ttl, t)
  PROVE  Clock(last, t + 1) /\ Timely(s, last, ttl, t + 1)
<1>1. s.swept \in Int /\ \A i \in Iocs : s.file[i].ts \in Int
  BY EntryTypes, TtlStoreAssumption DEF Timely, Stores, Never
<1>2. \A i \in Iocs : Expired(s.file[i], ttl, t) => Expired(s.file[i], ttl, t + 1)
  BY <1>1 DEF Expired
<1>3. \A i \in Iocs : last[i] \in Int
  BY DEF Clock, Times
<1> QED BY <1>1, <1>2, <1>3 DEF Timely, Clock

(* A store that holds a part of what another holds is within its cap.      *)
LEMMA PartLemma ==
  ASSUME NEW E \in [Iocs -> Entries], NEW F \in [Iocs -> Entries],
         \A i \in Iocs : F[i] # NoEntry => E[i] # NoEntry
  PROVE  Cardinality(Held(F)) <= Cardinality(Held(E))
<1>1. Held(F) \subseteq Held(E)
  BY DEF Held
<1>2. IsFiniteSet(Held(E))
  BY TtlStoreAssumption, FS_Subset DEF Held
<1> QED BY <1>1, <1>2, FS_Subset

LEMMA CardLemma ==
  ASSUME NEW E \in [Iocs -> Entries]
  PROVE  Cardinality(Held(E)) \in Nat
<1>1. IsFiniteSet(Held(E))
  BY TtlStoreAssumption, FS_Subset DEF Held
<1> QED BY <1>1, FS_CardinalityType

(* Sweeps, registrations and loads keep a persisted store within its cap.  *)
LEMMA BoundedSweep ==
  ASSUME NEW s \in Stores, NEW ttl \in Nat, NEW max \in Nat, NEW t \in 0 .. MaxTime, Bounded(s, max)
  PROVE  Bounded(ForcedSweep(s, ttl, t), max) /\ Bounded(LazySweep(s, ttl, t), max)
<1> DEFINE S == SweptEntries(s.entries, ttl, t)
<1>0. s.entries \in [Iocs -> Entries] /\ t \in Nat
  BY TtlStoreAssumption DEF Stores
<1>1. S \in [Iocs -> Entries] /\ \A i \in Iocs : S[i] # NoEntry => s.entries[i] # NoEntry
  BY <1>0, SweepLemma
<1>2. ForcedSweep(s, ttl, t).entries = S /\ ForcedSweep(s, ttl, t).file = s.file
  BY DEF ForcedSweep
<1> HIDE DEF S
<1>3. Cardinality(Held(S)) <= Cardinality(Held(s.entries))
  BY <1>0, <1>1, PartLemma
<1>4. Cardinality(Held(S)) \in Nat /\ Cardinality(Held(s.entries)) \in Nat
  BY <1>0, <1>1, CardLemma
<1>5. Bounded(ForcedSweep(s, ttl, t), max)
  BY <1>2, <1>3, <1>4 DEF Bounded
<1> QED BY <1>5 DEF LazySweep

LEMMA BoundedLoad ==
  ASSUME NEW s \in Stores, NEW ttl \in Nat, NEW max \in Nat, NEW t \in 0 .. MaxTime, Bounded(s, max)
  PROVE  Bounded(Load(s, ttl, t), max)
<1> DEFINE S == SweptEntries(s.file, ttl, t)
<1>0. s.file \in [Iocs -> Entries] /\ t \in Nat
  BY TtlStoreAssumption DEF Stores
<1>1. S \in [Iocs -> Entries] /\ \A i \in Iocs : S[i] # NoEntry => s.file[i] # NoEntry
  BY <1>0, SweepLemma
<1>2. Load(s, ttl, t).entries = S /\ Load(s, ttl, t).file = s.file
  BY DEF Load
<1> HIDE DEF S
<1>3. Cardinality(Held(S)) <= Cardinality(Held(s.file))
  BY <1>0, <1>1, PartLemma
<1>4. Cardinality(Held(S)) \in Nat /\ Cardinality(Held(s.file)) \in Nat
  BY <1>0, <1>1, CardLemma
<1> QED BY <1>2, <1>3, <1>4 DEF Bounded

LEMMA BoundedRegistered ==
  ASSUME NEW s \in Stores, NEW ttl \in Nat, NEW max \in Nat, NEW t \in 0 .. MaxTime,
         NEW i \in Iocs, NEW src \in Sources, Bounded(s, max),
         NEW r \in Registered(s, i, src, ttl, max, t, TRUE)
  PROVE  Bounded(r, max)
<1> DEFINE e == [ts |-> t, source |-> src]
<1> DEFINE E == Put(s.entries, i, e)
<1> DEFINE S == SweptEntries(E, ttl, t)
<1>0. s.entries \in [Iocs -> Entries] /\ t \in Nat
  BY TtlStoreAssumption DEF Stores
<1>1. e \in Entries /\ e.ts = t /\ e # NoEntry
  BY EntryTypes, TtlStoreAssumption DEF NoEntry
<1>2. PICK F \in Capped(S, i, max), ok \in BOOLEAN :
        r = [entries |-> F, file |-> IF ok THEN F ELSE s.file, swept |-> t, saved |-> ok]
  BY DEF Registered
<1> HIDE DEF e
<1>3. E \in [Iocs -> Entries] /\ E[i] = e
  BY <1>0, <1>1, PutLemma
<1> HIDE DEF E
<1>4. S \in [Iocs -> Entries] /\ S[i] # NoEntry
  BY <1>0, <1>1, <1>3, SweepLemma DEF Expired
<1> HIDE DEF S
<1>5. max > 0 => Cardinality(Held(F)) <= max
  BY <1>4, CappedLemma
<1> QED BY <1>2, <1>5 DEF Bounded

----------------------------------------------------------------------------
(* The steps.                                                              *)

LEMMA StartLemma ==
  ASSUME NEW ttl \in Nat, NEW max \in Nat
  PROVE  /\ Clock([i \in Iocs |-> -1], 0)
         /\ Timely(Empty, [i \in Iocs |-> -1], ttl, 0)
         /\ Bounded(Empty, max)
<1>1. Empty \in Stores
  BY EntryTypes, TtlStoreAssumption DEF Empty, Stores, Never
<1>2. Held(Empty.entries) = {} /\ Held(Empty.file) = {}
  BY DEF Held, Empty
<1>3. Clock([i \in Iocs |-> -1], 0)
  BY TtlStoreAssumption DEF Clock, Times
<1>4. Timely(Empty, [i \in Iocs |-> -1], ttl, 0)
  BY <1>1, TtlStoreAssumption DEF Timely, Empty, Never
<1>5. Bounded(Empty, max)
  BY <1>2, FS_EmptySet DEF Bounded
<1> QED BY <1>3, <1>4, <1>5

(* What one step does to one store: the store s of time t, with the last   *)
(* registrations last, becomes the store r.                                *)
LEMMA ReadStep ==
  ASSUME NEW s, NEW r, NEW last, NEW ttl \in Nat, NEW max \in Nat, NEW t \in 0 .. MaxTime,
         NEW p \in BOOLEAN, Clock(last, t), Timely(s, last, ttl, t), p => Bounded(s, max),
         r \in {LazySweep(s, ttl, t), ForcedSweep(s, ttl, t)} \/ r = Load(s, ttl, t)
  PROVE  /\ Timely(r, last, ttl, t)
         /\ p => Bounded(r, max)
         /\ s.saved => ~Revives(s, r)
<1>1. s \in Stores
  BY DEF Timely
<1>2. CASE r = LazySweep(s, ttl, t)
  BY <1>1, <1>2, LazyLemma, BoundedSweep DEF Revives
<1>3. CASE r = ForcedSweep(s, ttl, t)
  BY <1>1, <1>3, ForcedLemma, BoundedSweep DEF Revives
<1>4. CASE r = Load(s, ttl, t)
  BY <1>1, <1>4, LoadLemma, BoundedLoad DEF Revives
<1> QED BY <1>2, <1>3, <1>4

LEMMA WriteStep ==
  ASSUME NEW s, NEW r, NEW last, NEW ttl \in Nat, NEW max \in Nat, NEW t \in 0 .. MaxTime,
         NEW p \in BOOLEAN, Clock(last, t), Timely(s, last, ttl, t), p => Bounded(s, max),
         NEW i \in Iocs, NEW src \in Sources, r \in Registered(s, i, src, ttl, max, t, p)
  PROVE  /\ Clock([last EXCEPT ![i] = t], t)
         /\ Timely(r, [last EXCEPT ![i] = t], ttl, t)
         /\ p => Bounded(r, max)
<1>1. s \in Stores
  BY DEF Timely
<1>2. Clock([last EXCEPT ![i] = t], t) /\ Timely(r, [last EXCEPT ![i] = t], ttl, t)
  BY RegisteredLemma
<1>3. ASSUME p PROVE Bounded(r, max)
  <2>1. r \in Registered(s, i, src, ttl, max, t, TRUE) /\ Bounded(s, max)
    BY <1>3
  <2> QED BY <1>1, <2>1, BoundedRegistered
<1> QED BY <1>2, <1>3

LEMMA RunTypes ==
  ASSUME NEW phase \in Phases, NEW signal \in Signals, NEW degraded \in BOOLEAN,
         NEW found \in Hits, NEW matches \in Hits
  PROVE  Run(phase, signal, degraded, found, matches) \in Runs
BY DEF Run, Runs

LEMMA IdleType == Idle \in Runs
BY RunTypes DEF Idle, Phases, Signals, Hits

THEOREM Initially == Init => IInv
<1> SUFFICES ASSUME Init PROVE IInv
  OBVIOUS
<1>1. RegistryOK
  BY StartLemma, VerdictsAssumption DEF Init, RegistryOK
<1>2. KbOK
  BY StartLemma, VerdictsAssumption DEF Init, KbOK
<1>3. run \in Runs
  BY IdleType DEF Init
<1>4. RestOK
  <2>1. now \in 0 .. MaxTime /\ writes \in 0 .. MaxWrites
    BY TtlStoreAssumption, VerdictsAssumption DEF Init
  <2>2. lastTrue \in [Iocs -> Times]
    BY TtlStoreAssumption DEF Init, Times
  <2> QED BY <1>3, <2>1, <2>2 DEF Init, RestOK
<1> QED BY <1>1, <1>2, <1>4 DEF IInv

(* A registration of an attacker.                                          *)
LEMMA RegisterLemma ==
  ASSUME IInv, NEW i \in Iocs, NEW src \in Sources, RegisterAttacker(i, src),
         lastLead' = [lastLead EXCEPT ![i] = now], UNCHANGED <<now, persistent>>
  PROVE  RegistryOK' /\ domains' \subseteq Iocs
<1>1. registry' \in Registered(registry, i, src, RegistryTtl, RegistryMax, now, persistent)
  BY DEF RegisterAttacker
<1>2. now \in 0 .. MaxTime /\ persistent \in BOOLEAN /\ domains \subseteq Iocs
  BY DEF IInv, RestOK
<1>3. /\ Clock(lastLead', now) /\ Timely(registry', lastLead', RegistryTtl, now)
      /\ persistent => Bounded(registry', RegistryMax)
  BY <1>1, <1>2, WriteStep, VerdictsAssumption DEF IInv, RegistryOK
<1>4. domains' \subseteq Iocs
  BY <1>2 DEF RegisterAttacker, DomainsAfter, DomainsOf
<1> QED BY <1>3, <1>4 DEF RegistryOK

THEOREM Inductive == IInv /\ [Next]_vars => IInv'
<1> SUFFICES ASSUME IInv, [Next]_vars PROVE IInv'
  OBVIOUS
<1> USE VerdictsAssumption
<1>0. now \in 0 .. MaxTime /\ persistent \in BOOLEAN /\ domains \subseteq Iocs
  BY DEF IInv, RestOK
<1>1. ASSUME NEW i \in Iocs, Lead(i) PROVE IInv'
  <2>1. RegistryOK' /\ domains' \subseteq Iocs
    BY <1>1, RegisterLemma DEF Lead, Sources
  <2>2. KbOK'
    BY <1>1 DEF Lead, IInv, KbOK
  <2>3. RestOK'
    BY <1>1, <2>1 DEF Lead, IInv, RestOK
  <2> QED BY <2>1, <2>2, <2>3 DEF IInv
<1>2. ASSUME NEW i \in Iocs, NEW who \in {"analyst", "workflow"}, MarkTrue(i, who) PROVE IInv'
  <2>1. RegistryOK' /\ domains' \subseteq Iocs
    BY <1>2, RegisterLemma DEF MarkTrue, Sources
  <2>2. KbOK'
    BY <1>2 DEF MarkTrue, IInv, KbOK
  <2>3. RestOK'
    BY <1>2, <2>1, TtlStoreAssumption DEF MarkTrue, IInv, RestOK, Times
  <2> QED BY <2>1, <2>2, <2>3 DEF IInv
<1>3. ASSUME NEW i \in Iocs, MarkFalse(i) PROVE IInv'
  <2>1. kb' \in Registered(kb, i, "verdict", KbTtl, KbMax, now, persistent)
    BY <1>3 DEF MarkFalse
  <2>2. /\ Clock([lastFalse EXCEPT ![i] = now], now)
        /\ Timely(kb', [lastFalse EXCEPT ![i] = now], KbTtl, now)
        /\ persistent => Bounded(kb', KbMax)
    BY <1>0, <2>1, WriteStep DEF IInv, KbOK, Sources
  <2>3. KbOK'
    BY <1>3, <2>2 DEF MarkFalse, KbOK
  <2>4. RegistryOK'
    BY <1>3 DEF MarkFalse, IInv, RegistryOK
  <2>5. RestOK'
    BY <1>3 DEF MarkFalse, IInv, RestOK
  <2> QED BY <2>3, <2>4, <2>5 DEF IInv
<1>4. ASSUME NEW i \in Iocs, Assemble(i) PROVE IInv'
  <2>1. RegistryOK'
    <3>1. /\ Timely(registry', lastLead, RegistryTtl, now)
          /\ persistent => Bounded(registry', RegistryMax)
      BY <1>0, <1>4, ReadStep DEF Assemble, IInv, RegistryOK
    <3> QED BY <1>4, <3>1 DEF Assemble, told, IInv, RegistryOK
  <2>2. KbOK'
    <3>1. Timely(kb', lastFalse, KbTtl, now) /\ (persistent => Bounded(kb', KbMax))
      BY <1>0, <1>4, ReadStep DEF Assemble, IInv, KbOK
    <3> QED BY <1>4, <3>1 DEF Assemble, told, IInv, KbOK
  <2>3. run' \in Runs
    <3>1. \A present, source : SignalOf(present, source) \in Signals
      BY DEF SignalOf, Signals
    <3>2. \/ run' = Run("retrieving", "none", FALSE, "none", "none")
          \/ \E signal \in Signals : run' = Run("deciding", signal, signal = "none", "none", "none")
      BY <1>4, <3>1 DEF Assemble
    <3>3. "retrieving" \in Phases /\ "deciding" \in Phases /\ "none" \in Signals /\ "none" \in Hits
      BY DEF Phases, Signals, Hits
    <3>4. \A signal \in Signals : Run("deciding", signal, signal = "none", "none", "none") \in Runs
      BY <3>3, RunTypes
    <3>5. Run("retrieving", "none", FALSE, "none", "none") \in Runs
      BY <3>3, RunTypes
    <3> QED BY <3>2, <3>4, <3>5
  <2>4. domains' \subseteq Iocs
    BY <1>0, <1>4 DEF Assemble, DomainsAfter
  <2>5. RestOK'
    BY <1>4, <2>3, <2>4 DEF Assemble, told, IInv, RestOK
  <2> QED BY <2>1, <2>2, <2>5 DEF IInv
<1>5. ASSUME Retrieve \/ Rerank \/ Decide PROVE IInv'
  <2>1. UNCHANGED <<now, persistent, stores, writes, told>>
    BY <1>5 DEF Retrieve, Rerank, Decide
  <2>2. run.found \in Hits
    BY DEF IInv, RestOK, Runs
  <2>3. run' \in Runs
    <3>1. "none" \in Signals /\ {"none", "few", "enough"} \subseteq Hits
          /\ {"reranking", "deciding"} \subseteq Phases
      BY DEF Phases, Signals, Hits
    <3>2. CASE Retrieve
      <4>1. \E phase \in Phases, degraded \in BOOLEAN, found \in Hits, matches \in Hits :
              run' = Run(phase, "none", degraded, found, matches)
        BY <3>1, <3>2 DEF Retrieve
      <4> QED BY <3>1, <4>1, RunTypes
    <3>3. CASE Rerank
      <4>1. \E matches \in Hits : run' = Run("deciding", "none", FALSE, run.found, matches)
        BY <2>2, <3>1, <3>3 DEF Rerank
      <4> QED BY <2>2, <3>1, <4>1, RunTypes
    <3>4. CASE Decide
      BY <3>4, IdleType DEF Decide
    <3> QED BY <1>5, <3>2, <3>3, <3>4
  <2> QED BY <2>1, <2>3 DEF stores, told, IInv, RegistryOK, KbOK, RestOK
<1>6. CASE ReadRegistry
  <2>1. /\ Timely(registry', lastLead, RegistryTtl, now)
        /\ persistent => Bounded(registry', RegistryMax)
    BY <1>0, <1>6, ReadStep DEF ReadRegistry, IInv, RegistryOK
  <2>2. domains' \subseteq Iocs
    BY <1>0, <1>6 DEF ReadRegistry, DomainsAfter
  <2> QED BY <1>6, <2>1, <2>2 DEF ReadRegistry, told, IInv, RegistryOK, KbOK, RestOK
<1>7. CASE ReadKb
  <2>1. Timely(kb', lastFalse, KbTtl, now) /\ (persistent => Bounded(kb', KbMax))
    BY <1>0, <1>7, ReadStep DEF ReadKb, IInv, KbOK
  <2> QED BY <1>7, <2>1 DEF ReadKb, told, IInv, RegistryOK, KbOK, RestOK
<1>8. CASE Restart
  <2>1. /\ Timely(registry', lastLead, RegistryTtl, now)
        /\ persistent => Bounded(registry', RegistryMax)
    BY <1>0, <1>8, ReadStep DEF Restart, IInv, RegistryOK
  <2>2. Timely(kb', lastFalse, KbTtl, now) /\ (persistent => Bounded(kb', KbMax))
    BY <1>0, <1>8, ReadStep DEF Restart, IInv, KbOK
  <2>3. run' \in Runs
    BY <1>8, IdleType DEF Restart
  <2>4. forgot' \in BOOLEAN
    BY <1>8 DEF Restart
  <2>5. domains' \subseteq Iocs
    BY <1>8 DEF Restart, DomainsOf
  <2> QED BY <1>8, <2>1, <2>2, <2>3, <2>4, <2>5 DEF Restart, IInv, RegistryOK, KbOK, RestOK
<1>9. CASE Tick
  <2>1. now' \in 0 .. MaxTime /\ now' = now + 1
    BY <1>0, <1>9, TtlStoreAssumption DEF Tick
  <2>2. Clock(lastLead, now') /\ Timely(registry, lastLead, RegistryTtl, now')
    BY <1>0, <2>1, TickLemma DEF IInv, RegistryOK
  <2>3. Clock(lastFalse, now') /\ Timely(kb, lastFalse, KbTtl, now')
    BY <1>0, <2>1, TickLemma DEF IInv, KbOK
  <2> QED BY <1>9, <2>1, <2>2, <2>3 DEF Tick, stores, told, IInv, RegistryOK, KbOK, RestOK
<1>10. CASE UNCHANGED vars
  BY <1>10 DEF vars, IInv, RegistryOK, KbOK, RestOK
<1> QED BY <1>1, <1>2, <1>3, <1>4, <1>5, <1>6, <1>7, <1>8, <1>9, <1>10 DEF Next

LEMMA Invariant == Spec => []IInv
BY Initially, Inductive, PTL DEF Spec

(* TypeOK: every store holds only entries, of times that have come; every  *)
(* validation is in a phase with a signal of the graph.                    *)
THEOREM TypeCorrect == Spec => []TypeOK
<1>1. IInv => TypeOK
  BY DEF IInv, RegistryOK, KbOK, RestOK, Timely, Clock, TypeOK
<1> QED BY <1>1, Invariant, PTL

(* CapsHold: with the paths configured neither store ever holds more       *)
(* entries than its cap, whatever the restarts and failed flushes.         *)
THEOREM CapsKept == Spec => []CapsHold
<1>1. IInv => CapsHold
  BY DEF IInv, RegistryOK, KbOK, Bounded, CapsHold, Within
<1> QED BY <1>1, Invariant, PTL

(* AnswersFounded: a signal of the validator rests on a registration that  *)
(* is at most the TTL and one sweep interval old.                          *)
THEOREM Founded == Spec => AnswersFounded
<1> DEFINE Founding ==
      \A i \in Iocs :
        Answers(i) =>
          /\ run'.signal \in {"suppressed_exact", "conflicting_state"}
               => FreshEnough(lastFalse[i], KbTtl)
          /\ run'.signal \in {"likely_true_positive", "conflicting_state"}
               => \E j \in Zone[i] \cup {i} : FreshEnough(lastLead[j], RegistryTtl)
<1>1. IInv => Founding
  <2> SUFFICES ASSUME IInv, NEW i \in Iocs, Assemble(i)
               PROVE  /\ run'.signal \in {"suppressed_exact", "conflicting_state"}
                           => FreshEnough(lastFalse[i], KbTtl)
                      /\ run'.signal \in {"likely_true_positive", "conflicting_state"}
                           => \E j \in Zone[i] \cup {i} : FreshEnough(lastLead[j], RegistryTtl)
    BY DEF Answers
  <2> USE VerdictsAssumption
  <2>0. now \in 0 .. MaxTime
    BY DEF IInv, RestOK
  <2>1. /\ Clock(lastFalse, now) /\ Timely(kb', lastFalse, KbTtl, now)
        /\ now - kb'.swept < SweepInterval
    BY <2>0, LazyLemma DEF Assemble, IInv, KbOK
  <2>2. /\ Clock(lastLead, now) /\ Timely(registry', lastLead, RegistryTtl, now)
        /\ now - registry'.swept < SweepInterval
    BY <2>0, LazyLemma DEF Assemble, IInv, RegistryOK
  <2>3. kb'.entries[i] # NoEntry => FreshEnough(lastFalse[i], KbTtl)
    BY <2>0, <2>1, FreshLemma DEF FreshEnough
  <2>4. \A j \in Iocs : registry'.entries[j] # NoEntry => FreshEnough(lastLead[j], RegistryTtl)
    BY <2>0, <2>2, FreshLemma DEF FreshEnough
  <2>5. PICK source \in RegistrySources(registry'.entries, domains', i) :
          \/ run' = Run("retrieving", "none", FALSE, "none", "none")
          \/ run' = Run("deciding", SignalOf(kb'.entries[i] # NoEntry, source),
                        SignalOf(kb'.entries[i] # NoEntry, source) = "none", "none", "none")
    BY DEF Assemble
  <2>6. \/ run'.signal = "none"
        \/ run'.signal = SignalOf(kb'.entries[i] # NoEntry, source)
    BY <2>5 DEF Run
  <2>7. run'.signal \in {"suppressed_exact", "conflicting_state"} => kb'.entries[i] # NoEntry
    BY <2>6 DEF SignalOf
  <2>8. run'.signal \in {"likely_true_positive", "conflicting_state"} => source # "none"
    BY <2>6 DEF SignalOf
  <2>9. source # "none" => \E j \in Zone[i] \cup {i} : j \in Iocs /\ registry'.entries[j] # NoEntry
    <3>1. Zone[i] \subseteq Iocs
      OBVIOUS
    <3> QED BY <2>5, <3>1 DEF RegistrySources, NoEntry
  <2> QED BY <2>3, <2>4, <2>7, <2>8, <2>9
<1>2. IInv => [Founding]_vars
  BY <1>1
<1>3. Spec => [][Founding]_vars
  BY <1>2, Invariant, PTL
<1> QED BY <1>3 DEF AnswersFounded

(* NothingRevived: an entry that memory had dropped does not come back     *)
(* without a new registration, unless a flush had failed to drop it from   *)
(* the file.                                                               *)
THEOREM NeverRevived == Spec => NothingRevived
<1> DEFINE Kept == (registry.saved => ~Revives(registry, registry') \/ writes' > writes)
                   /\ (kb.saved => ~Revives(kb, kb') \/ writes' > writes)
<1>1. IInv /\ [Next]_vars => [Kept]_vars
  <2> SUFFICES ASSUME IInv, Next PROVE Kept
    BY DEF vars
  <2> USE VerdictsAssumption
  <2>0. now \in 0 .. MaxTime /\ persistent \in BOOLEAN /\ writes \in Int
    BY DEF IInv, RestOK
  <2>1. CASE \E i \in Iocs, who \in {"analyst", "workflow"} : Lead(i) \/ MarkFalse(i) \/ MarkTrue(i, who)
    BY <2>0, <2>1 DEF Lead, MarkFalse, MarkTrue
  <2>2. CASE \E i \in Iocs : Assemble(i)
    BY <2>0, <2>2, ReadStep DEF Assemble, IInv, RegistryOK, KbOK
  <2>3. CASE UNCHANGED <<registry, kb>>
    BY <2>3 DEF Revives
  <2>4. CASE ReadRegistry
    BY <2>0, <2>4, ReadStep DEF ReadRegistry, IInv, RegistryOK, Revives
  <2>5. CASE ReadKb
    BY <2>0, <2>5, ReadStep DEF ReadKb, IInv, KbOK, Revives
  <2>6. CASE Restart
    BY <2>0, <2>6, ReadStep DEF Restart, IInv, RegistryOK, KbOK
  <2> QED BY <2>1, <2>2, <2>3, <2>4, <2>5, <2>6 DEF Next, Retrieve, Rerank, Decide, Tick, stores
<1>2. Spec => [][Kept]_vars
  BY <1>1, Invariant, PTL DEF Spec
<1> QED BY <1>2 DEF NothingRevived

-----------------------------------------------------------------------------
----------------------------------------------------------------------------
(* What a store remembers: the last registration of an indicator, as long  *)
(* as its TTL and as fewer than the cap were registered since.             *)
Since(last, i) == {j \in Iocs \ {i} : last[j] >= last[i]}
Due(last, i, ttl, max, t, p) ==
  /\ last[i] >= 0
  /\ ttl = 0 \/ t - last[i] <= ttl
  /\ ~p \/ max = 0 \/ Cardinality(Since(last, i)) < max
Remembers(s, last, ttl, max, t, p) ==
  \A i \in Iocs : Due(last, i, ttl, max, t, p) => s.entries[i] # NoEntry /\ s.entries[i].ts = last[i]

HonourInv ==
  /\ ~forgot => /\ Remembers(registry, lastLead, RegistryTtl, RegistryMax, now, persistent)
                /\ Remembers(kb, lastFalse, KbTtl, KbMax, now, persistent)
  /\ \A i \in Iocs : lastTrue[i] <= lastLead[i]

LEMMA SinceFinite ==
  ASSUME NEW T, T \subseteq Iocs, NEW U, U \subseteq T
  PROVE  /\ IsFiniteSet(T) /\ Cardinality(T) \in Nat /\ Cardinality(U) \in Nat
         /\ Cardinality(U) <= Cardinality(T)
<1>1. IsFiniteSet(T)
  BY TtlStoreAssumption, FS_Subset
<1>2. IsFiniteSet(U) /\ Cardinality(U) <= Cardinality(T)
  BY <1>1, FS_Subset
<1> QED BY <1>1, <1>2, FS_CardinalityType

LEMMA RemembersRead ==
  ASSUME NEW s, NEW r, NEW last, NEW ttl \in Nat, NEW max \in Nat, NEW t \in 0 .. MaxTime,
         NEW p \in BOOLEAN, Clock(last, t), Timely(s, last, ttl, t),
         Remembers(s, last, ttl, max, t, p),
         r \in {LazySweep(s, ttl, t), ForcedSweep(s, ttl, t)} \/ (s.saved /\ r = Load(s, ttl, t))
  PROVE  Remembers(r, last, ttl, max, t, p)
<1>0. s.entries \in [Iocs -> Entries] /\ s.file \in [Iocs -> Entries] /\ t \in Nat
  BY TtlStoreAssumption DEF Timely, Stores
<1> SUFFICES ASSUME NEW i \in Iocs, Due(last, i, ttl, max, t, p)
             PROVE  r.entries[i] # NoEntry /\ r.entries[i].ts = last[i]
  BY DEF Remembers
<1>1. s.entries[i] # NoEntry /\ s.entries[i].ts = last[i]
  BY DEF Remembers
<1>2. ~Expired(s.entries[i], ttl, t)
  <2>1. last[i] \in Int /\ (ttl = 0 \/ t - last[i] <= ttl)
    BY DEF Clock, Times, Due
  <2> QED BY <1>0, <1>1, <2>1 DEF Expired
<1>3. ForcedSweep(s, ttl, t).entries[i] = s.entries[i]
  <2>1. ForcedSweep(s, ttl, t).entries = SweptEntries(s.entries, ttl, t)
    BY DEF ForcedSweep
  <2> QED BY <1>0, <1>2, <2>1, SweepLemma
<1>4. LazySweep(s, ttl, t).entries[i] = s.entries[i]
  BY <1>3 DEF LazySweep
<1>5. s.saved => Load(s, ttl, t).entries[i] = s.entries[i]
  <2> SUFFICES ASSUME s.saved PROVE Load(s, ttl, t).entries[i] = s.entries[i]
    OBVIOUS
  <2>1. s.file[i] = s.entries[i]
    BY <1>1 DEF Timely
  <2>2. Load(s, ttl, t).entries = SweptEntries(s.file, ttl, t)
    BY DEF Load
  <2> QED BY <1>0, <1>2, <2>1, <2>2, SweepLemma
<1> QED BY <1>1, <1>3, <1>4, <1>5

(* The cap takes the oldest: what it takes was followed by a cap of others.*)
LEMMA RemembersCapped ==
  ASSUME NEW E \in [Iocs -> Entries], NEW i \in Iocs, NEW max \in Nat, max > 0,
         NEW F \in Capped(E, i, max), NEW last \in [Iocs -> Times],
         \A j \in Iocs : E[j] # NoEntry => E[j].ts <= last[j],
         \A j \in Iocs : last[j] <= last[i],
         E[i] # NoEntry, NEW k \in Iocs, E[k] # NoEntry, E[k].ts = last[k],
         Cardinality(Since(last, k)) < max
  PROVE  F[k] = E[k]
<1>1. CASE ~(max > 0 /\ Cardinality(Held(E)) > max)
  BY <1>1 DEF Capped
<1>2. CASE max > 0 /\ Cardinality(Held(E)) > max
  <2>1. PICK K \in SUBSET Iocs : KeepsNewest(E, K, i, max)
                                /\ F = [j \in Iocs |-> IF j \in K THEN E[j] ELSE NoEntry]
    BY <1>2 DEF Capped
  <2>2. ASSUME k \notin K PROVE FALSE
    <3>1. \A j \in K : E[j] # NoEntry /\ E[j].ts \in Int /\ last[j] \in Int /\ last[k] \in Int
      BY <2>1, EntryTypes, TtlStoreAssumption DEF KeepsNewest, Held, Times
    <3>2. k \in Held(E) \ K
      BY <2>2 DEF Held
    <3>3. ASSUME NEW j \in K PROVE last[j] >= last[k] /\ j # k
      <4>1. CASE j = i
        BY <2>2, <4>1, <3>1
      <4>2. CASE j # i
        <5>1. E[j].ts >= E[k].ts
          BY <2>1, <3>2, <4>2 DEF KeepsNewest
        <5> QED BY <2>2, <3>1, <5>1
      <4> QED BY <4>1, <4>2
    <3>4. K \subseteq Since(last, k)
      BY <3>3 DEF Since
    <3>5. Cardinality(K) <= Cardinality(Since(last, k)) /\ Cardinality(Since(last, k)) \in Nat
      <4>1. Since(last, k) \subseteq Iocs
        BY DEF Since
      <4> QED BY <3>4, <4>1, SinceFinite
    <3>6. Cardinality(K) = max
      BY <2>1 DEF KeepsNewest
    <3> QED BY <3>5, <3>6
  <2> QED BY <2>1, <2>2
<1> QED BY <1>1, <1>2

LEMMA RemembersWrite ==
  ASSUME NEW s, NEW r, NEW last, NEW ttl \in Nat, NEW max \in Nat, NEW t \in 0 .. MaxTime,
         NEW p \in BOOLEAN, Clock(last, t), Timely(s, last, ttl, t),
         Remembers(s, last, ttl, max, t, p),
         NEW i \in Iocs, NEW src \in Sources, r \in Registered(s, i, src, ttl, max, t, p)
  PROVE  Remembers(r, [last EXCEPT ![i] = t], ttl, max, t, p)
<1> DEFINE e == [ts |-> t, source |-> src]
           E == Put(s.entries, i, e)
           S == SweptEntries(E, ttl, t)
           next == [last EXCEPT ![i] = t]
<1>0. s \in Stores /\ s.entries \in [Iocs -> Entries] /\ t \in Nat
  BY TtlStoreAssumption DEF Timely, Stores
<1>1. e \in Entries /\ e.ts = t /\ e # NoEntry
  BY EntryTypes, TtlStoreAssumption DEF NoEntry
<1>r. \/ p /\ \E F \in Capped(S, i, max) : r.entries = F
      \/ ~p /\ r.entries = E
  BY DEF Registered
<1> HIDE DEF e
<1>2. E \in [Iocs -> Entries] /\ \A j \in Iocs : E[j] = IF j = i THEN e ELSE s.entries[j]
  BY <1>0, <1>1, PutLemma
<1> HIDE DEF E
<1>3. S \in [Iocs -> Entries] /\ \A j \in Iocs : S[j] = IF Expired(E[j], ttl, t) THEN NoEntry ELSE E[j]
  BY <1>0, <1>2, SweepLemma
<1> HIDE DEF S
<1>4. /\ next \in [Iocs -> Times] /\ next[i] = t
      /\ \A j \in Iocs : j # i => next[j] = last[j]
      /\ \A j \in Iocs : next[j] <= t /\ last[j] <= next[j]
      /\ \A j \in Iocs : next[j] \in Int /\ last[j] \in Int
  BY TtlStoreAssumption DEF Clock, Times
<1> HIDE DEF next
<1> SUFFICES ASSUME NEW k \in Iocs, Due(next, k, ttl, max, t, p)
             PROVE  r.entries[k] # NoEntry /\ r.entries[k].ts = next[k]
  BY DEF Remembers, next
<1>5. E[k] # NoEntry /\ E[k].ts = next[k]
  <2>1. CASE k = i
    BY <1>1, <1>2, <1>4, <2>1
  <2>2. CASE k # i
    <3>1. Since(last, k) \subseteq Since(next, k) /\ Since(next, k) \subseteq Iocs
      BY <1>4, <2>2 DEF Since
    <3>2. /\ Cardinality(Since(last, k)) <= Cardinality(Since(next, k))
          /\ Cardinality(Since(last, k)) \in Nat /\ Cardinality(Since(next, k)) \in Nat
      BY <3>1, SinceFinite
    <3>3. Due(last, k, ttl, max, t, p)
      BY <1>4, <2>2, <3>2 DEF Due
    <3> QED BY <1>2, <1>4, <2>2, <3>3 DEF Remembers
  <2> QED BY <2>1, <2>2
<1>6. S[k] = E[k]
  <2>1. ~Expired(E[k], ttl, t)
    BY <1>0, <1>4, <1>5 DEF Expired, Due
  <2> QED BY <1>3, <2>1
<1>7. S[i] = e
  BY <1>0, <1>1, <1>2, <1>3 DEF Expired
<1>8. CASE ~p
  BY <1>5, <1>8, <1>r
<1>9. CASE p
  <2>1. PICK F \in Capped(S, i, max) : r.entries = F
    BY <1>9, <1>r
  <2>2. CASE max = 0
    BY <1>5, <1>6, <2>1, <2>2 DEF Capped
  <2>3. CASE max # 0
    <3>1. Cardinality(Since(next, k)) < max /\ max > 0
      BY <1>9, <2>3 DEF Due
    <3>2. \A j \in Iocs : S[j] # NoEntry => S[j].ts <= next[j]
      <4> SUFFICES ASSUME NEW j \in Iocs, S[j] # NoEntry PROVE S[j].ts <= next[j]
        OBVIOUS
      <4>1. S[j] = E[j]
        BY <1>3
      <4>2. CASE j = i
        BY <1>1, <1>2, <1>4, <4>1, <4>2
      <4>3. CASE j # i
        BY <1>2, <1>4, <4>1, <4>3 DEF Timely
      <4> QED BY <4>2, <4>3
    <3>3. \A j \in Iocs : next[j] <= next[i]
      BY <1>4
    <3>4. F[k] = S[k]
      BY <1>1, <1>3, <1>4, <1>5, <1>6, <1>7, <3>1, <3>2, <3>3, RemembersCapped
    <3> QED BY <1>5, <1>6, <2>1, <3>4
  <2> QED BY <2>2, <2>3
<1> QED BY <1>8, <1>9

LEMMA HonourStart == Init => HonourInv
BY DEF Init, HonourInv, Remembers, Due

LEMMA HonourStep == IInv /\ HonourInv /\ [Next]_vars => HonourInv'
<1> SUFFICES ASSUME IInv, HonourInv, [Next]_vars PROVE HonourInv'
  OBVIOUS
<1> USE VerdictsAssumption
<1>0. /\ now \in 0 .. MaxTime /\ persistent \in BOOLEAN /\ now \in Nat
      /\ lastTrue \in [Iocs -> Times] /\ lastLead \in [Iocs -> Times]
      /\ \A i \in Iocs : lastTrue[i] \in Int /\ lastLead[i] \in Int /\ lastLead[i] <= now
  BY TtlStoreAssumption DEF IInv, RestOK, RegistryOK, Clock, Times
<1>1. ASSUME NEW i \in Iocs, NEW src \in Sources, RegisterAttacker(i, src),
             lastLead' = [lastLead EXCEPT ![i] = now],
             lastTrue' \in {lastTrue, [lastTrue EXCEPT ![i] = now]},
             UNCHANGED <<now, persistent, kb, lastFalse, forgot>>
      PROVE  HonourInv'
  <2>1. ASSUME ~forgot
        PROVE Remembers(registry', [lastLead EXCEPT ![i] = now], RegistryTtl, RegistryMax, now, persistent)
    <3>1. /\ registry' \in Registered(registry, i, src, RegistryTtl, RegistryMax, now, persistent)
          /\ Clock(lastLead, now) /\ Timely(registry, lastLead, RegistryTtl, now)
          /\ Remembers(registry, lastLead, RegistryTtl, RegistryMax, now, persistent)
      BY <1>1, <2>1 DEF RegisterAttacker, HonourInv, IInv, RegistryOK
    <3>2. now \in 0 .. MaxTime /\ persistent \in BOOLEAN
      BY <1>0
    <3> QED BY <3>1, <3>2, RemembersWrite
  <2>2. \A j \in Iocs : lastTrue'[j] <= lastLead'[j]
    BY <1>0, <1>1 DEF HonourInv
  <2> QED BY <1>1, <2>1, <2>2 DEF HonourInv
<1>2. ASSUME NEW i \in Iocs, Lead(i) PROVE HonourInv'
  BY <1>1, <1>2 DEF Lead, Sources
<1>3. ASSUME NEW i \in Iocs, NEW who \in {"analyst", "workflow"}, MarkTrue(i, who) PROVE HonourInv'
  BY <1>1, <1>3 DEF MarkTrue, Sources
<1>4. ASSUME NEW i \in Iocs, MarkFalse(i) PROVE HonourInv'
  <2>1. ASSUME ~forgot
        PROVE Remembers(kb', [lastFalse EXCEPT ![i] = now], KbTtl, KbMax, now, persistent)
    <3>1. /\ kb' \in Registered(kb, i, "verdict", KbTtl, KbMax, now, persistent)
          /\ Clock(lastFalse, now) /\ Timely(kb, lastFalse, KbTtl, now)
          /\ Remembers(kb, lastFalse, KbTtl, KbMax, now, persistent)
          /\ "verdict" \in Sources
      BY <1>4, <2>1 DEF MarkFalse, HonourInv, IInv, KbOK, Sources
    <3> QED BY <1>0, <1>1, <3>1, RemembersWrite
  <2> QED BY <1>4, <2>1 DEF MarkFalse, HonourInv
<1>5. ASSUME registry' \in {LazySweep(registry, RegistryTtl, now), ForcedSweep(registry, RegistryTtl, now)}
             \/ (registry.saved /\ registry' = Load(registry, RegistryTtl, now)), ~forgot
      PROVE  Remembers(registry', lastLead, RegistryTtl, RegistryMax, now, persistent)
  BY <1>0, <1>5, RemembersRead DEF HonourInv, IInv, RegistryOK
<1>6. ASSUME kb' \in {LazySweep(kb, KbTtl, now), ForcedSweep(kb, KbTtl, now)}
             \/ (kb.saved /\ kb' = Load(kb, KbTtl, now)), ~forgot
      PROVE  Remembers(kb', lastFalse, KbTtl, KbMax, now, persistent)
  BY <1>0, <1>6, RemembersRead DEF HonourInv, IInv, KbOK
<1>7. ASSUME NEW i \in Iocs, Assemble(i) PROVE HonourInv'
  BY <1>5, <1>6, <1>7 DEF Assemble, HonourInv, told
<1>8. CASE Retrieve \/ Rerank \/ Decide \/ UNCHANGED vars
  BY <1>8 DEF Retrieve, Rerank, Decide, HonourInv, told, stores, vars
<1>9. CASE ReadRegistry
  BY <1>5, <1>9 DEF ReadRegistry, HonourInv, told
<1>10. CASE ReadKb
  BY <1>6, <1>10 DEF ReadKb, HonourInv, told
<1>11. CASE Restart
  <2>1. ~forgot' => ~forgot /\ registry.saved /\ kb.saved
    BY <1>11 DEF Restart
  <2> QED BY <1>5, <1>6, <1>11, <2>1 DEF Restart, HonourInv
<1>12. CASE Tick
  <2>1. now' = now + 1
    BY <1>12 DEF Tick
  <2>2. ASSUME NEW last, NEW ttl \in Nat, NEW max \in Nat, NEW s, Clock(last, now),
               Remembers(s, last, ttl, max, now, persistent)
        PROVE  Remembers(s, last, ttl, max, now + 1, persistent)
    <3>1. \A i \in Iocs : last[i] \in Int
      BY <2>2 DEF Clock, Times
    <3>2. \A i \in Iocs : Due(last, i, ttl, max, now + 1, persistent)
                            => Due(last, i, ttl, max, now, persistent)
      BY <1>0, <3>1 DEF Due
    <3> QED BY <2>2, <3>2 DEF Remembers
  <2>3. Clock(lastLead, now) /\ Clock(lastFalse, now)
    BY DEF IInv, RegistryOK, KbOK
  <2> QED BY <1>12, <2>1, <2>2, <2>3 DEF Tick, HonourInv, told, stores
<1> QED BY <1>2, <1>3, <1>4, <1>7, <1>8, <1>9, <1>10, <1>11, <1>12 DEF Next

(* While an analyst's verdict is within its TTL, and no cap or lost file   *)
(* took it, the validator goes by it: for any indicators, domains, TTLs,   *)
(* caps and sweep interval, whatever the other store, the sweeps, the      *)
(* flushes and the restarts did since.                                     *)
THEOREM Honoured == Spec => VerdictsHonoured
<1> DEFINE Honouring ==
      \A i \in Iocs :
       Answers(i) /\ ~forgot =>
         /\ Recent(lastTrue[i], RegistryTtl) /\ Uncrowded(lastLead, i, lastTrue[i], RegistryMax)
              => run'.signal \in {"likely_true_positive", "conflicting_state"}
         /\ Recent(lastFalse[i], KbTtl) /\ Uncrowded(lastFalse, i, lastFalse[i], KbMax)
              => run'.signal \in {"suppressed_exact", "conflicting_state"}
<1>1. IInv /\ HonourInv => Honouring
  <2> SUFFICES ASSUME IInv, HonourInv, NEW i \in Iocs, Assemble(i), ~forgot
               PROVE  /\ Recent(lastTrue[i], RegistryTtl)
                         /\ Uncrowded(lastLead, i, lastTrue[i], RegistryMax)
                           => run'.signal \in {"likely_true_positive", "conflicting_state"}
                      /\ Recent(lastFalse[i], KbTtl) /\ Uncrowded(lastFalse, i, lastFalse[i], KbMax)
                           => run'.signal \in {"suppressed_exact", "conflicting_state"}
    BY DEF Answers
  <2> USE VerdictsAssumption
  <2>0. /\ now \in 0 .. MaxTime /\ persistent \in BOOLEAN /\ now \in Nat
        /\ \A j \in Iocs : lastTrue[j] \in Int /\ lastLead[j] \in Int
    BY TtlStoreAssumption DEF IInv, RestOK, RegistryOK, Clock, Times
  <2>1. /\ Remembers(registry', lastLead, RegistryTtl, RegistryMax, now, persistent)
        /\ Remembers(kb', lastFalse, KbTtl, KbMax, now, persistent)
    BY <2>0, RemembersRead DEF Assemble, HonourInv, IInv, RegistryOK, KbOK
  <2>2. PICK source \in RegistrySources(registry'.entries, domains', i), configured \in BOOLEAN :
          LET signal == SignalOf(kb'.entries[i] # NoEntry, source)
          IN run' = IF signal = "none" /\ configured
                    THEN Run("retrieving", "none", FALSE, "none", "none")
                    ELSE Run("deciding", signal, signal = "none", "none", "none")
    BY DEF Assemble
  <2> DEFINE signal == SignalOf(kb'.entries[i] # NoEntry, source)
  <2>3. signal # "none" => run'.signal = signal
    BY <2>2 DEF Run
  <2>4. ASSUME Recent(lastTrue[i], RegistryTtl), Uncrowded(lastLead, i, lastTrue[i], RegistryMax)
        PROVE  run'.signal \in {"likely_true_positive", "conflicting_state"}
    <3>1. lastTrue[i] <= lastLead[i]
      BY DEF HonourInv
    <3>2. Since(lastLead, i) \subseteq {j \in Iocs \ {i} : lastLead[j] >= lastTrue[i]}
      BY <2>0, <3>1 DEF Since
    <3>3. /\ Cardinality(Since(lastLead, i))
               <= Cardinality({j \in Iocs \ {i} : lastLead[j] >= lastTrue[i]})
          /\ Cardinality(Since(lastLead, i)) \in Nat
          /\ Cardinality({j \in Iocs \ {i} : lastLead[j] >= lastTrue[i]}) \in Nat
      <4>1. {j \in Iocs \ {i} : lastLead[j] >= lastTrue[i]} \subseteq Iocs
        OBVIOUS
      <4> QED BY <3>2, <4>1, SinceFinite
    <3>4. Due(lastLead, i, RegistryTtl, RegistryMax, now, persistent)
      BY <2>0, <2>4, <3>1, <3>3 DEF Due, Recent, Uncrowded
    <3>5. registry'.entries[i] # NoEntry
      BY <2>1, <3>4 DEF Remembers
    <3>6. registry'.entries[i].source \in Sources
      <4>1. registry' \in Stores
        BY <2>0, LazyLemma DEF Assemble, IInv, RegistryOK, Timely
      <4>2. registry'.entries[i] \in Entries
        BY <4>1 DEF Stores
      <4> QED BY <3>5, <4>2, EntryTypes
    <3>7. source # "none"
      BY <2>2, <3>5, <3>6 DEF RegistrySources, Sources
    <3>8. signal \in {"likely_true_positive", "conflicting_state"}
      BY <3>7 DEF SignalOf
    <3> QED BY <2>3, <3>8
  <2>5. ASSUME Recent(lastFalse[i], KbTtl), Uncrowded(lastFalse, i, lastFalse[i], KbMax)
        PROVE  run'.signal \in {"suppressed_exact", "conflicting_state"}
    <3>1. Due(lastFalse, i, KbTtl, KbMax, now, persistent)
      BY <2>5 DEF Due, Recent, Uncrowded, Since
    <3>2. kb'.entries[i] # NoEntry
      BY <2>1, <3>1 DEF Remembers
    <3>3. signal \in {"suppressed_exact", "conflicting_state"}
      BY <3>2 DEF SignalOf
    <3> QED BY <2>3, <3>3
  <2> QED BY <2>4, <2>5
<1>2. IInv /\ HonourInv => [Honouring]_vars
  BY <1>1
<1>3. Spec => []HonourInv
  BY HonourStart, HonourStep, Invariant, PTL DEF Spec
<1>4. Spec => [][Honouring]_vars
  BY <1>2, <1>3, Invariant, PTL
<1> QED BY <1>4 DEF VerdictsHonoured
=============================================================================
