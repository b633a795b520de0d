------------------------------ MODULE RapidApi ------------------------------
(***************************************************************************)
(* The account-wide RapidAPI budget (threat_intel/rapidapi_quota.py), the  *)
(* one-slot limiter and persistent answer cache (threat_intel/_cache.py)   *)
(* and the request path that ties them together (threat_intel/rapidapi.py). *)
(* Several tool calls run the path concurrently, clients cancel them, the  *)
(* process is killed and restarted, the state file can refuse a write, and *)
(* the month rolls over.                                                   *)
(*                                                                         *)
(* Time is abstract: an arm window is not armed, open or expired, and the  *)
(* environment expires it.  disk and diskKeys are what _load would find    *)
(* after the appends and rewrites so far: the last quota record and the    *)
(* unexpired answers.  A breaker that refuses the request (module ApiCall) *)
(* is a choice of the environment here.                                    *)
(***************************************************************************)
EXTENDS Integers, Sequences, FiniteSets

CONSTANTS
  Callers,    (* concurrent tool calls                                     *)
  Keys,       (* cache keys: host and path, or the hash of a bulk IP list  *)
  Allowance,  (* min(budget, monthly_cap), armed by the operator           *)
  CacheSize,  (* maxsize of the persistent cache                           *)
  Months,     (* bound: months a behaviour covers                          *)
  MaxLost     (* bound: requests lost to kills and cancellations per month *)

ASSUME RapidApiAssumption ==
  /\ Allowance \in Nat \ {0}
  /\ CacheSize \in Nat \ {0}
  /\ Months \in Nat \ {0}
  /\ MaxLost \in Nat

VARIABLES
  month,      (* the wall clock's month                                    *)
  qmonth,     (* _month of the budget object                               *)
  spent,      (* _spent                                                    *)
  armed,      (* _armed_at: "no", "open" or "expired"                      *)
  cache,      (* keys of the unexpired entries in memory                   *)
  disk,       (* the quota record on disk: month, spent, armed             *)
  diskKeys,   (* the unexpired answers on disk                             *)
  place,      (* idle, waiting, pacing or inflight                         *)
  key,        (* what each caller asks for                                 *)
  waiters,    (* the semaphore's waiters, first come first served          *)
  free,       (* the semaphore's value                                     *)
  (* History, read by the properties only:                                 *)
  sent,       (* requests the provider billed this month                   *)
  lost,       (* of them, those charged to no counter that survived        *)
  unsaved,    (* quota records whose append failed, since the last success *)
  slotLost,   (* the slot was taken by a caller that is gone               *)
  windowOver  (* this month's arm window has expired                       *)

budget == <<qmonth, spent, armed>>
store == <<cache, disk, diskKeys, unsaved>>
limiter == <<waiters, free, slotLost>>
rapidVars == <<month, qmonth, spent, armed, cache, disk, diskKeys, place, key, waiters, free,
          sent, lost, unsaved, slotLost, windowOver>>

ArmWindows == {"no", "open", "expired"}

RapidTypeOK ==
  /\ month \in 1 .. Months /\ qmonth \in 1 .. Months
  /\ spent \in Nat
  /\ armed \in ArmWindows
  /\ cache \subseteq Keys
  /\ disk \in [m : 0 .. Months, s : Nat, a : ArmWindows]
  /\ diskKeys \subseteq Keys
  /\ place \in [Callers -> {"idle", "waiting", "pacing", "inflight"}]
  /\ key \in [Callers -> Keys]
  /\ waiters \in Seq(Callers)
  /\ free \in 0 .. 1
  /\ sent \in Nat /\ lost \in Nat /\ unsaved \in Nat
  /\ slotLost \in BOOLEAN /\ windowOver \in BOOLEAN

(* A first start, with no state file.                                      *)
RapidInit ==
  /\ month = 1 /\ qmonth = 1
  /\ spent = 0
  /\ armed = "no"
  /\ cache = {}
  /\ disk = [m |-> 0, s |-> 0, a |-> "no"]
  /\ diskKeys = {}
  /\ place = [c \in Callers |-> "idle"]
  /\ key \in [Callers -> Keys]
  /\ waiters = << >>
  /\ free = 1
  /\ sent = 0 /\ lost = 0 /\ unsaved = 0
  /\ slotLost = FALSE /\ windowOver = FALSE

----------------------------------------------------------------------------
(* The state file.                                                         *)

ForgetsQuota(added) ==
  /\ UNCHANGED <<disk, unsaved>>
  /\ diskKeys' \in {diskKeys, diskKeys \cup added}

(* _persist, then a set() when there is an answer: the quota record is     *)
(* appended or its write fails; so is the answer; and an append that fills *)
(* the file rewrites it from memory.                                       *)
Persist(added) ==
  \/ /\ disk' = [m |-> qmonth', s |-> spent', a |-> armed']
     /\ unsaved' = 0
     /\ diskKeys' \in {diskKeys, diskKeys \cup added, cache'}
  \/ /\ disk' = disk
     /\ unsaved' = unsaved + 1
     /\ diskKeys' \in {diskKeys, diskKeys \cup added}

(* set(): a full cache gives up an entry, even when k only replaces one.   *)
Remember(k) ==
  IF Cardinality(cache) < CacheSize
  THEN cache' = cache \cup {k}
  ELSE \E victim \in cache : cache' = (cache \ {victim}) \cup {k}

----------------------------------------------------------------------------
(* The limiter.                                                            *)

NeverReleases(c) == place' = [place EXCEPT ![c] = "idle"] /\ UNCHANGED limiter

(* __aexit__: the slot goes back and the caller returns.                   *)
Release(c) ==
  /\ free' = free + 1
  /\ place' = [place EXCEPT ![c] = "idle"]
  /\ UNCHANGED <<waiters, slotLost>>

(* _rapidapi_get and _rapidapi_post: a cached answer is returned at once,  *)
(* and changes nothing; otherwise the caller queues for the slot.          *)
Ask(c, k) ==
  /\ place[c] = "idle"
  /\ k \notin cache
  /\ place' = [place EXCEPT ![c] = "waiting"]
  /\ key' = [key EXCEPT ![c] = k]
  /\ waiters' = Append(waiters, c)
  /\ UNCHANGED <<month, budget, store, free, slotLost, sent, lost, windowOver>>

AcquireUnguarded(c) ==
  /\ waiters # << >> /\ Head(waiters) = c
  /\ free' = free - 1
  /\ waiters' = Tail(waiters)
  /\ place' = [place EXCEPT ![c] = "pacing"]
  /\ UNCHANGED <<month, budget, store, key, slotLost, sent, lost, windowOver>>
AcquireForFree(c) ==
  /\ waiters # << >> /\ Head(waiters) = c
  /\ free > 0
  /\ waiters' = Tail(waiters)
  /\ place' = [place EXCEPT ![c] = "pacing"]
  /\ UNCHANGED <<month, budget, store, key, free, slotLost, sent, lost, windowOver>>

(* __aenter__: the slot is taken, then the min_interval sleep begins.      *)
Acquire(c) ==
  /\ waiters # << >> /\ Head(waiters) = c
  /\ free > 0
  /\ free' = free - 1
  /\ waiters' = Tail(waiters)
  /\ place' = [place EXCEPT ![c] = "pacing"]
  /\ UNCHANGED <<month, budget, store, key, slotLost, sent, lost, windowOver>>

----------------------------------------------------------------------------
(* The budget.                                                             *)

CurrentSpent == IF qmonth = month THEN spent ELSE 0
CurrentArm == IF qmonth = month THEN armed ELSE "no"

(* _roll: a new month starts at zero, and the first check of a month arms  *)
(* the window.                                                             *)
Roll ==
  /\ qmonth' = month
  /\ spent' = CurrentSpent
  /\ armed' = IF CurrentArm = "no" THEN "open" ELSE CurrentArm

(* check: _roll saves what it armed, then refuses when spent or expired.   *)
Check ==
  /\ Roll
  /\ UNCHANGED cache
  /\ IF CurrentArm = "no" THEN Persist({}) ELSE UNCHANGED <<disk, diskKeys, unsaved>>
Allowed == spent' < Allowance /\ armed' # "expired"

Charge == spent' = spent + 1 /\ UNCHANGED <<qmonth, armed>>

----------------------------------------------------------------------------
(* One request.                                                            *)

(* The pacing sleep is over: check, and unless it or the circuit breaker   *)
(* refuses, the request leaves.  There is no await in between.             *)
Request(c) ==
  /\ place[c] = "pacing"
  /\ Check
  /\ \/ /\ Allowed
        /\ place' = [place EXCEPT ![c] = "inflight"]
        /\ sent' = sent + 1
        /\ UNCHANGED limiter
     \/ /\ Release(c)
        /\ UNCHANGED sent
  /\ UNCHANGED <<month, key, lost, windowOver>>

(* The provider answers, or the attempt fails: charged either way.  A body *)
(* that is JSON is cached once the slot is back.                           *)
Answer(c) ==
  /\ place[c] = "inflight"
  /\ Charge
  /\ Release(c)
  /\ \/ Remember(key[c]) /\ Persist({key[c]})
     \/ UNCHANGED cache /\ Persist({})
  /\ UNCHANGED <<month, key, sent, lost, windowOver>>

(* The client cancels the tool call: CancelledError is no Exception, so    *)
(* nothing is charged; and during the sleep of __aenter__ it leaves no     *)
(* __aexit__ to give the slot back.                                        *)
Cancel(c) ==
  /\ \/ /\ place[c] = "waiting"
        /\ \E i \in 1 .. Len(waiters) :
             /\ waiters[i] = c
             /\ waiters' = SubSeq(waiters, 1, i - 1) \o SubSeq(waiters, i + 1, Len(waiters))
        /\ place' = [place EXCEPT ![c] = "idle"]
        /\ UNCHANGED <<free, slotLost, lost>>
     \/ /\ place[c] = "pacing"
        /\ place' = [place EXCEPT ![c] = "idle"]
        /\ slotLost' = TRUE
        /\ UNCHANGED <<waiters, free, lost>>
     \/ /\ place[c] = "inflight"
        /\ lost < MaxLost
        /\ Release(c)
        /\ lost' = lost + 1
  /\ UNCHANGED <<month, budget, store, key, sent, windowOver>>

----------------------------------------------------------------------------
(* The environment.                                                        *)

InFlight == IF \E c \in Callers : place[c] = "inflight" THEN 1 ELSE 0

(* __init__ and _resume: this month's record is taken up again.            *)
Resume ==
  /\ qmonth' = month
  /\ spent' = IF disk.m = month THEN disk.s ELSE 0
  /\ armed' = IF disk.m = month THEN disk.a ELSE "no"

(* _load: the unexpired answers that fit; the file is then rewritten.      *)
Load ==
  /\ cache' \in {K \in SUBSET diskKeys :
                   Cardinality(K) = IF Cardinality(diskKeys) > CacheSize
                                    THEN CacheSize ELSE Cardinality(diskKeys)}
  /\ diskKeys' \in {diskKeys, cache'}
  /\ UNCHANGED disk

(* The process is killed at any point and started again.                   *)
Restart ==
  /\ lost + unsaved + InFlight <= MaxLost
  /\ lost' = lost + unsaved + InFlight
  /\ unsaved' = 0
  /\ windowOver' = (windowOver /\ unsaved = 0)
  /\ Resume
  /\ Load
  /\ place' = [c \in Callers |-> "idle"]
  /\ waiters' = << >> /\ free' = 1 /\ slotLost' = FALSE
  /\ UNCHANGED <<month, key, sent>>

(* A cached answer's TTL ends, in memory and on disk (one wall clock).     *)
ExpireAnswer(k) ==
  /\ k \in cache \cup diskKeys
  /\ cache' = cache \ {k}
  /\ diskKeys' = diskKeys \ {k}
  /\ UNCHANGED <<month, budget, disk, place, key, limiter, sent, lost, unsaved, windowOver>>

(* The arm window ends, for the object and for the record on disk.         *)
ExpireWindow ==
  /\ armed = "open"
  /\ armed' = "expired"
  /\ disk' = [disk EXCEPT !.a = IF @ = "open" THEN "expired" ELSE @]
  /\ windowOver' = (windowOver \/ qmonth = month)
  /\ UNCHANGED <<month, qmonth, spent, cache, diskKeys, place, key, limiter, sent, lost, unsaved>>

(* The account's pool refills.                                             *)
NextMonth ==
  /\ month < Months
  /\ month' = month + 1
  /\ sent' = 0 /\ lost' = 0 /\ unsaved' = 0 /\ windowOver' = FALSE
  /\ UNCHANGED <<budget, cache, disk, diskKeys, place, key, limiter>>

RapidNext ==
  \/ \E c \in Callers : Acquire(c) \/ Request(c) \/ Answer(c) \/ Cancel(c)
  \/ \E c \in Callers, k \in Keys : Ask(c, k)
  \/ \E k \in Keys : ExpireAnswer(k)
  \/ Restart \/ ExpireWindow \/ NextMonth

(* asyncio wakes the first waiter, its sleep returns, and HTTP_TIMEOUT     *)
(* ends every request.                                                     *)
RapidFairness ==
  \A c \in Callers : WF_rapidVars(Acquire(c)) /\ WF_rapidVars(Request(c)) /\ WF_rapidVars(Answer(c))

RapidSpec == RapidInit /\ [][RapidNext]_rapidVars
RapidFairSpec == RapidSpec /\ RapidFairness

----------------------------------------------------------------------------
(* Properties.                                                             *)

Holds(c) == place[c] \in {"pacing", "inflight"}

(* The account is never billed for more than the allowance in a month,     *)
(* over any interleaving, restart and rollover, except for the requests    *)
(* whose charge a kill, a cancellation or a refused write destroyed.       *)
SpendBounded == sent <= Allowance + lost

(* The one slot is free, or held by exactly one caller, or leaked by a     *)
(* caller cancelled while pacing; it is never given back twice.            *)
OneSlot ==
  /\ free = 1 <=> ~slotLost /\ \A c \in Callers : ~Holds(c)
  /\ \A c, d \in Callers : Holds(c) /\ Holds(d) => c = d
  /\ slotLost => \A c \in Callers : ~Holds(c)

(* Once a month's arm window has expired no request leaves that month,     *)
(* however often the process is restarted: "the window does not re-arm on  *)
(* restart".  (A record that could not be written is not remembered.)      *)
OneWindowPerMonth == [][sent' > sent => ~windowOver]_rapidVars

(* Every caller that queues gets its turn, unless the slot has leaked.     *)
WaitersServed == \A c \in Callers : place[c] = "waiting" ~> (place[c] # "waiting" \/ slotLost)

(* "Callers must have checked the cache first: a cache hit costs no quota" *)
(* (rapidapi.py): no request is sent for an answer that is cached.         *)
NoPaidDuplicate ==
  [][\A c \in Callers : place[c] = "pacing" /\ place'[c] = "inflight" => key[c] \notin cache]_rapidVars
=============================================================================
