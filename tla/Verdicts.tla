------------------------------ MODULE Verdicts ------------------------------
(***************************************************************************)
(* What the platform remembers of an indicator, and what it says of it.    *)
(* Two stores of one shape are written by mark_investigated and by         *)
(* automated finders: the attacker registry and the false-positive set.    *)
(* The validator graph (fp_validator_graph.py) reads both, and asks the    *)
(* corpus only when neither knows the indicator.                           *)
(*                                                                         *)
(* An action is one stretch of a coroutine between two awaits.  A kill     *)
(* between the flush of a store and the answer of mark_investigated is     *)
(* Mark followed by Restart; a kill inside the flush is a Mark whose flush *)
(* failed followed by Restart.                                             *)
(***************************************************************************)
EXTENDS Integers, FiniteSets

CONSTANTS
  Iocs,           (* indicators, normalised                                *)
  SweepInterval,  (* _SWEEP_INTERVAL: a lookup sweeps at most this often   *)
  MaxTime,        (* bound: the last tick of a behaviour                   *)
  Zone,         (* the indicators that, registered as domains, match this  *)
                (* one: its own domain, and the domain one label up        *)
  MailDomain,   (* the domain of an e-mail address; other kinds map to     *)
                (* themselves                                              *)
  Domains,      (* the indicators that are domains                         *)
  RegistryTtl, RegistryMax,   (* BLUETEAM_ATTACKER_REGISTRY_TTL, _MAX      *)
  KbTtl, KbMax,               (* BLUETEAM_FALSE_POSITIVE_TTL, _MAX         *)
  MaxWrites     (* bound: registrations of a behaviour                     *)

ASSUME TtlStoreAssumption ==
  IsFiniteSet(Iocs) /\ SweepInterval \in Nat \ {0} /\ MaxTime \in Nat
ASSUME VerdictsAssumption ==
  /\ Zone \in [Iocs -> SUBSET Iocs]
  /\ MailDomain \in [Iocs -> Iocs]
  /\ Domains \subseteq Iocs
  /\ RegistryTtl \in Nat /\ RegistryMax \in Nat
  /\ KbTtl \in Nat /\ KbMax \in Nat
  /\ MaxWrites \in Nat

(* The in-memory indicator store with a time to live, a cap and a JSONL    *)
(* file, as core/attacker_registry.py and core/false_positive_kb.py both   *)
(* write it.  Every function of it runs to its end without an await; a     *)
(* store is therefore a value, and each operator below maps the store an   *)
(* operation finds to the store or stores it can leave.                    *)
(*                                                                         *)
(* A store is a record: entries (memory), file (what the next process will *)
(* read), swept (_LAST_SWEEP) and saved (did the last flush reach the      *)
(* file; read by properties only).                                         *)

(* Who wrote an entry: mark_investigated, or Engine A, an enrichment, a    *)
(* promotion or the web-shell check.                                       *)
Sources == {"verdict", "automated"}

NoEntry == [ts |-> -1, source |-> "none"]
Entries == [ts : 0 .. MaxTime, source : Sources] \cup {NoEntry}
Never == -SweepInterval     (* _LAST_SWEEP = 0.0, long before any clock    *)

Stores == [entries : [Iocs -> Entries], file : [Iocs -> Entries],
           swept : Never .. MaxTime, saved : BOOLEAN]

Empty == [entries |-> [i \in Iocs |-> NoEntry], file |-> [i \in Iocs |-> NoEntry],
          swept |-> Never, saved |-> TRUE]

Held(E) == {i \in Iocs : E[i] # NoEntry}

(* A TTL of zero never expires.                                            *)
Expired(e, ttl, now) == ttl > 0 /\ now - e.ts > ttl

SweepsNothing(E, ttl, now) == E
SweptEntries(E, ttl, now) ==
  [i \in Iocs |-> IF Expired(E[i], ttl, now) THEN NoEntry ELSE E[i]]

(* _sweep_expired(force=True), by the statistics.                          *)
ForcedSweep(s, ttl, now) ==
  [entries |-> SweptEntries(s.entries, ttl, now), file |-> s.file, swept |-> now, saved |-> s.saved]

(* _sweep_expired(), on every lookup.                                      *)
LazySweep(s, ttl, now) ==
  IF now - s.swept < SweepInterval THEN s ELSE ForcedSweep(s, ttl, now)

(* The cap: the oldest go first and the one just written is the newest.    *)
(* Two entries of one tick were written in some order.                     *)
KeepsNewest(E, K, i, max) ==
  /\ K \subseteq Held(E) /\ i \in K
  /\ Cardinality(K) = max
  /\ \A j \in K \ {i}, k \in Held(E) \ K : E[j].ts >= E[k].ts

Capped(E, i, max) ==
  IF max > 0 /\ Cardinality(Held(E)) > max
  THEN {[j \in Iocs |-> IF j \in K THEN E[j] ELSE NoEntry] :
          K \in {L \in SUBSET Iocs : KeepsNewest(E, L, i, max)}}
  ELSE {E}

Put(E, i, e) == [j \in Iocs |-> IF j = i THEN e ELSE E[j]]

(* Variants the properties must tell from the code: the cap before the     *)
(* insertion, an expiry time for a time stamp, a load without the TTL.     *)
CapsBeforeAdding(s, i, source, ttl, max, now, persistent) ==
  LET E == SweptEntries(s.entries, ttl, now)
      new == [ts |-> now, source |-> source]
  IN IF persistent
     THEN {[entries |-> Put(E, i, new), file |-> Put(E, i, new), swept |-> now, saved |-> TRUE]}
     ELSE {[s EXCEPT !.entries = Put(E, i, new), !.saved = FALSE]}
StampsExpiry(s, i, source, ttl, max, now, persistent) ==
  {[s EXCEPT !.entries = Put(@, i, [ts |-> now + ttl, source |-> source])]}
LoadsAll(s, ttl, now) ==
  [entries |-> s.file, file |-> s.file, swept |-> now, saved |-> s.saved]

(* register: add, then _flush.  Without a path the flush returns at once:  *)
(* no sweep, no cap.  With one, the rewrite of the file can fail; a kill   *)
(* inside it leaves the old file too, as the rename is the last step.      *)
Registered(s, i, source, ttl, max, now, persistent) ==
  LET E == Put(s.entries, i, [ts |-> now, source |-> source])
  IN IF persistent
     THEN {[entries |-> F, file |-> IF ok THEN F ELSE s.file, swept |-> now, saved |-> ok] :
             F \in Capped(SweptEntries(E, ttl, now), i, max), ok \in BOOLEAN}
     ELSE {[entries |-> E, file |-> s.file, swept |-> s.swept, saved |-> FALSE]}

(* Import in a new process: the unexpired lines of the file.               *)
Load(s, ttl, now) ==
  [entries |-> SweptEntries(s.file, ttl, now), file |-> s.file, swept |-> Never, saved |-> s.saved]
-----------------------------------------------------------------------------
VARIABLES
  now,          (* time.time(), in ticks                                   *)
  persistent,   (* are the two paths configured                            *)
  registry,     (* the attacker registry                                   *)
  domains,      (* _ATTACKER_DOMAINS                                       *)
  kb,           (* the false-positive set                                  *)
  run,          (* the validation in progress                              *)
  writes,       (* registrations so far                                    *)
  (* History, read by the properties only:                                 *)
  lastLead,     (* when each indicator was last registered as an attacker  *)
  lastTrue,     (* when an analyst last called it a true positive          *)
  lastFalse,    (* when mark_investigated last called it a false positive  *)
  forgot        (* a restart lost registrations that no file held          *)

told == <<lastLead, lastTrue, lastFalse, forgot>>
stores == <<registry, domains, kb>>
vars == <<now, persistent, registry, domains, kb, run, writes,
          lastLead, lastTrue, lastFalse, forgot>>

Signals == {"none", "conflicting_state", "suppressed_exact", "likely_true_positive"}
Phases == {"idle", "retrieving", "reranking", "deciding"}
(* Corpus hits: none, some, or min_matches of them and above the rerank    *)
(* score floor.                                                            *)
Hits == {"none", "few", "enough"}

(* A validation in progress.                                               *)
Runs == [phase : Phases, signal : Signals, degraded : BOOLEAN, found : Hits, matches : Hits]
Run(phase, signal, degraded, found, matches) ==
  [phase |-> phase, signal |-> signal, degraded |-> degraded, found |-> found, matches |-> matches]
Idle == Run("idle", "none", FALSE, "none", "none")

Times == -1 .. MaxTime

TypeOK ==
  /\ now \in 0 .. MaxTime
  /\ persistent \in BOOLEAN
  /\ registry \in Stores /\ kb \in Stores
  /\ domains \subseteq Iocs
  /\ run \in Runs
  /\ writes \in 0 .. MaxWrites
  /\ lastLead \in [Iocs -> Times] /\ lastTrue \in [Iocs -> Times] /\ lastFalse \in [Iocs -> Times]
  /\ forgot \in BOOLEAN

Init ==
  /\ now = 0
  /\ persistent \in BOOLEAN
  /\ registry = Empty /\ kb = Empty
  /\ domains = {}
  /\ run = Idle
  /\ writes = 0
  /\ lastLead = [i \in Iocs |-> -1]
  /\ lastTrue = lastLead /\ lastFalse = lastLead
  /\ forgot = FALSE

----------------------------------------------------------------------------
(* The registry's derived domain set.                                      *)

(* _add_entry and _load: a domain, or the domain of an address.            *)
DomainsOf(I) == {i \in Iocs : \E j \in I : i = MailDomain[j] /\ i \in Domains}

(* _remove_entry discards the indicator itself, never an address's domain. *)
DomainsAfter(before, E) == before \ {i \in Iocs : registry.entries[i] # NoEntry /\ E[i] = NoEntry}

RegisterAttacker(i, source) ==
  /\ registry' \in Registered(registry, i, source, RegistryTtl, RegistryMax, now, persistent)
  /\ domains' = DomainsAfter(domains \cup DomainsOf({i}), registry'.entries)

----------------------------------------------------------------------------
(* Writers.                                                                *)

(* Engine A, an enrichment, an automatic promotion, the web-shell check.   *)
Lead(i) ==
  /\ writes < MaxWrites
  /\ RegisterAttacker(i, "automated")
  /\ writes' = writes + 1
  /\ lastLead' = [lastLead EXCEPT ![i] = now]
  /\ UNCHANGED <<now, persistent, kb, run, lastTrue, lastFalse, forgot>>

(* blueteam_mark_investigated with verdict true_positive, called by an     *)
(* analyst or by the workflow's verdict step (recorded_by="workflow"):     *)
(* the registration does not ask which.                                    *)
MarkTrue(i, who) ==
  /\ writes < MaxWrites
  /\ RegisterAttacker(i, "verdict")
  /\ writes' = writes + 1
  /\ lastLead' = [lastLead EXCEPT ![i] = now]
  /\ lastTrue' = IF who = "analyst" THEN [lastTrue EXCEPT ![i] = now] ELSE lastTrue
  /\ UNCHANGED <<now, persistent, kb, run, lastFalse, forgot>>

(* ... with verdict false_positive.  Neither verdict withdraws the other.  *)
MarkFalse(i) ==
  /\ writes < MaxWrites
  /\ kb' \in Registered(kb, i, "verdict", KbTtl, KbMax, now, persistent)
  /\ writes' = writes + 1
  /\ lastFalse' = [lastFalse EXCEPT ![i] = now]
  /\ UNCHANGED <<now, persistent, registry, domains, run, lastLead, lastTrue, forgot>>

----------------------------------------------------------------------------
(* The validator.                                                          *)

(* attacker_ioc_source: the entry of the value itself, else of whichever   *)
(* matching domain the iteration over the set meets first.                 *)
RegistrySources(E, D, i) ==
  IF E[i] # NoEntry THEN {E[i].source}
  ELSE IF D \cap Zone[i] = {} THEN {"none"}
  ELSE {E[d].source : d \in D \cap Zone[i]}

AttackerFirst(exact, source) ==
  IF source # "none" THEN "likely_true_positive" ELSE IF exact THEN "suppressed_exact" ELSE "none"
SignalOf(exact, source) ==
  IF exact /\ source # "none" THEN "conflicting_state"
  ELSE IF exact THEN "suppressed_exact"
  ELSE IF source # "none" THEN "likely_true_positive"
  ELSE "none"

(* assemble_evidence up to its first await: both lookups, and the corpus   *)
(* only when neither matched and the store is configured.                  *)
Assemble(i) ==
  /\ run.phase = "idle"
  /\ kb' = LazySweep(kb, KbTtl, now)
  /\ registry' = LazySweep(registry, RegistryTtl, now)
  /\ domains' = DomainsAfter(domains, registry'.entries)
  /\ \E source \in RegistrySources(registry'.entries, domains', i), configured \in BOOLEAN :
       LET signal == SignalOf(kb'.entries[i] # NoEntry, source)
       IN run' = IF signal = "none" /\ configured
                 THEN Run("retrieving", "none", FALSE, "none", "none")
                 ELSE Run("deciding", signal, signal = "none", "none", "none")
  /\ UNCHANGED <<now, persistent, writes, told>>

(* rag_store.query: it times out or reports itself unavailable (degraded), *)
(* or it was searched and found something or not.                          *)
Retrieve ==
  /\ run.phase = "retrieving"
  /\ \/ run' = Run("deciding", "none", TRUE, "none", "none")
     \/ run' = Run("deciding", "none", FALSE, "none", "none")
     \/ \E found \in {"few", "enough"} :
          \/ run' = Run("reranking", "none", FALSE, found, "none")
          \/ run' = Run("deciding", "none", FALSE, found, found)
  /\ UNCHANGED <<now, persistent, stores, writes, told>>

(* rerank_hits: a timeout returns before kb_matches is set.                *)
Rerank ==
  /\ run.phase = "reranking"
  /\ \E matches \in {"none", "few", run.found} :
       run' = Run("deciding", "none", FALSE, run.found, matches)
  /\ UNCHANGED <<now, persistent, stores, writes, told>>

(* _route_after_evidence and the three terminal nodes.                     *)
Outcome ==
  IF run.degraded THEN "validation_incomplete"
  ELSE IF run.signal # "none" THEN run.signal
  ELSE IF run.matches = "enough" THEN "likely_false_positive"
  ELSE "insufficient_evidence"

(* The verdict is returned; nothing is written.                            *)
Decide ==
  /\ run.phase = "deciding"
  /\ run' = Idle
  /\ UNCHANGED <<now, persistent, stores, writes, told>>

----------------------------------------------------------------------------
(* The environment.                                                        *)

(* Other readers.  Redaction and the attack graph look into the registry,  *)
(* which sweeps at intervals; the metrics resource sweeps it by force.     *)
ReadRegistry ==
  /\ registry' \in {LazySweep(registry, RegistryTtl, now), ForcedSweep(registry, RegistryTtl, now)}
  /\ domains' = DomainsAfter(domains, registry'.entries)
  /\ UNCHANGED <<now, persistent, kb, run, writes, told>>

(* So do the 3-Sum engine, and the tool that lists the set.                *)
ReadKb ==
  /\ kb' \in {LazySweep(kb, KbTtl, now), ForcedSweep(kb, KbTtl, now)}
  /\ UNCHANGED <<now, persistent, registry, domains, run, writes, told>>

(* The process ends, however it does, and a new one imports the stores.    *)
Restart ==
  /\ registry' = Load(registry, RegistryTtl, now)
  /\ kb' = Load(kb, KbTtl, now)
  /\ domains' = DomainsOf(Held(registry'.entries))
  /\ run' = Idle
  /\ forgot' = (forgot \/ ~registry.saved \/ ~kb.saved)
  /\ UNCHANGED <<now, persistent, writes, lastLead, lastTrue, lastFalse>>

Tick ==
  /\ now < MaxTime
  /\ now' = now + 1
  /\ UNCHANGED <<persistent, stores, run, writes, told>>

Next ==
  \/ \E i \in Iocs : Lead(i) \/ MarkFalse(i) \/ Assemble(i)
  \/ \E i \in Iocs, who \in {"analyst", "workflow"} : MarkTrue(i, who)
  \/ Retrieve \/ Rerank \/ Decide \/ ReadRegistry \/ ReadKb \/ Restart \/ Tick

Spec == Init /\ [][Next]_vars

----------------------------------------------------------------------------
(* Properties.                                                             *)

(* A time last recorded and not older than ttl (0: never too old).         *)
Recent(t, ttl) == t >= 0 /\ (ttl = 0 \/ now - t <= ttl)

(* Fewer than max other indicators were written at time t or later, so the *)
(* cap cannot have evicted an entry of time t.                             *)
Uncrowded(last, i, t, max) ==
  ~persistent \/ max = 0 \/ Cardinality({j \in Iocs \ {i} : last[j] >= t}) < max

Answers(i) == run.phase = "idle" /\ run'.phase # "idle" /\ Assemble(i)

(* An analyst's verdict is what the validator goes by: while it is         *)
(* within its TTL, and no cap or lost file took it, a true positive is     *)
(* never answered as suppressed nor put to the corpus, and a false         *)
(* positive is never answered as a true one nor put to the corpus,         *)
(* whatever the other store, the sweeps and the restarts did since.        *)
VerdictsHonoured ==
  [][\A i \in Iocs :
       Answers(i) /\ ~forgot =>
         /\ Recent(lastTrue[i], RegistryTtl) /\ Uncrowded(lastLead, i, lastTrue[i], RegistryMax)
              => run'.signal \in {"likely_true_positive", "conflicting_state"}
         /\ Recent(lastFalse[i], KbTtl) /\ Uncrowded(lastFalse, i, lastFalse[i], KbMax)
              => run'.signal \in {"suppressed_exact", "conflicting_state"}]_vars

(* No answer outlives its reason: a signal rests on a registration at most *)
(* TTL and one sweep interval old, through evictions, failed flushes and   *)
(* restarts ("expired entries are skipped on lookup" holds to within the   *)
(* sweep interval).                                                        *)
FreshEnough(t, ttl) == t >= 0 /\ (ttl = 0 \/ now - t < ttl + SweepInterval)

AnswersFounded ==
  [][\A i \in Iocs :
       Answers(i) =>
         /\ run'.signal \in {"suppressed_exact", "conflicting_state"}
              => FreshEnough(lastFalse[i], KbTtl)
         /\ run'.signal \in {"likely_true_positive", "conflicting_state"}
              => \E j \in Zone[i] \cup {i} : FreshEnough(lastLead[j], RegistryTtl)]_vars

(* The caps hold whenever the stores are persisted, across restarts.       *)
Within(s, max) == max > 0 => Cardinality(Held(s.entries)) <= max
CapsHold == persistent => Within(registry, RegistryMax) /\ Within(kb, KbMax)

(* Nothing that memory had dropped comes back with a restart, unless a     *)
(* flush had failed to drop it from the file.                              *)
Revives(s, t) == \E i \in Iocs : s.entries[i] = NoEntry /\ t.entries[i] # NoEntry
NothingRevived ==
  [][(registry.saved => ~Revives(registry, registry') \/ writes' > writes)
     /\ (kb.saved => ~Revives(kb, kb') \/ writes' > writes)]_vars
=============================================================================
