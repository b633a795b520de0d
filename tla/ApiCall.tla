------------------------------ MODULE ApiCall ------------------------------
(***************************************************************************)
(* Outbound HTTP: the per-upstream circuit breaker and the concurrent      *)
(* _api_call coroutines that consult it (mcp_server/core/http_client.py).  *)
(* One upstream is modelled: breakers are keyed by upstream and share      *)
(* nothing.  Every method of the breaker runs without an await, so each    *)
(* action below is one stretch of a coroutine between two awaits.          *)
(*                                                                         *)
(* _failures is kept only up to FailureThreshold, because the code asks    *)
(* nothing of it but `_failures >= failure_threshold`.  _opened_at is kept *)
(* as its age, saturated at RecoveryTimeout, because the code asks nothing *)
(* of it but whether that much time has passed.                            *)
(***************************************************************************)
EXTENDS Integers

CONSTANTS
  Calls,             (* concurrent tool calls to the upstream              *)
  FailureThreshold,  (* failures that open the breaker (5 in the code)     *)
  RecoveryTimeout,   (* ticks it stays open before a trial (60 s)          *)
  MaxRetries         (* extra attempts of one call (1 by default)          *)

ASSUME ApiCallAssumption ==
  /\ FailureThreshold \in Nat \ {0}
  /\ RecoveryTimeout \in Nat \ {0}
  /\ MaxRetries \in Nat

VARIABLES
  failures,   (* _failures, saturated                                      *)
  age,        (* time.monotonic() - _opened_at, saturated                  *)
  halfOpen,   (* _half_open                                                *)
  pc,         (* where each call is: idle, inflight or sleeping            *)
  attempt,    (* each call's attempt number                                *)
  (* History, read by the properties only:                                 *)
  trial,      (* was this request admitted while open, and has any outcome *)
              (* re-armed the breaker since (stale) or not (fresh)         *)
  leaked,     (* a fresh trial ended without telling the breaker           *)
  quiet       (* time since the last failure or throttle, saturated        *)

breaker == <<failures, age, halfOpen>>
history == <<trial, leaked, quiet>>
vars == <<failures, age, halfOpen, pc, attempt, trial, leaked, quiet>>

Saturate(n, top) == IF n > top THEN top ELSE n

TypeOK ==
  /\ failures \in 0 .. FailureThreshold
  /\ age \in 0 .. RecoveryTimeout
  /\ halfOpen \in BOOLEAN
  /\ pc \in [Calls -> {"idle", "inflight", "sleeping"}]
  /\ attempt \in [Calls -> 0 .. MaxRetries]
  /\ trial \in [Calls -> {"none", "fresh", "stale"}]
  /\ leaked \in BOOLEAN
  /\ quiet \in 0 .. RecoveryTimeout

Init ==
  /\ failures = 0
  /\ age = RecoveryTimeout
  /\ halfOpen = FALSE
  /\ pc = [c \in Calls |-> "idle"]
  /\ attempt = [c \in Calls |-> 0]
  /\ trial = [c \in Calls |-> "none"]
  /\ leaked = FALSE
  /\ quiet = RecoveryTimeout

----------------------------------------------------------------------------
(* The breaker.                                                            *)

Open == failures >= FailureThreshold

(* before_call: admitted when closed; when open, only after the recovery   *)
(* time and only if no trial is out.                                       *)
Admits == Open => age >= RecoveryTimeout /\ ~halfOpen

(* Variants of the breaker that the properties must tell from the code.    *)
ThrottledKeepsClock == halfOpen' = FALSE /\ UNCHANGED <<failures, age>>
ThrottledKeepsTrial == age' = 0 /\ UNCHANGED <<failures, halfOpen>>
FailureKeepsTrial ==
  failures' = Saturate(failures + 1, FailureThreshold) /\ age' = 0 /\ UNCHANGED halfOpen

MarkTrial == halfOpen' = (halfOpen \/ Open)

OnSuccess == failures' = 0 /\ age' = RecoveryTimeout /\ halfOpen' = FALSE

OnFailure ==
  /\ failures' = Saturate(failures + 1, FailureThreshold)
  /\ age' = 0
  /\ halfOpen' = FALSE

OnThrottled == age' = 0 /\ halfOpen' = FALSE /\ UNCHANGED failures

OnLiveness == IF halfOpen THEN OnSuccess ELSE UNCHANGED breaker

----------------------------------------------------------------------------
(* One call.                                                               *)

(* History: an outcome that reaches the breaker ends c's request and makes *)
(* every other trial stale.                                                *)
Settle(c) ==
  /\ trial' = [d \in Calls |-> IF d = c \/ trial[d] = "none" THEN "none" ELSE "stale"]
  /\ leaked' = FALSE

(* The request leaves: `if not breaker.before_call()` passed.              *)
Send(c) ==
  /\ Admits
  /\ MarkTrial
  /\ pc' = [pc EXCEPT ![c] = "inflight"]
  /\ trial' = [trial EXCEPT ![c] = IF Open THEN "fresh" ELSE "none"]
  /\ UNCHANGED <<failures, age, leaked, quiet>>

(* A tool calls _api_call.  A refused first attempt raises CircuitOpenError *)
(* and changes nothing, so only the admitted one is a step.                *)
Start(c) ==
  /\ pc[c] = "idle"
  /\ attempt' = [attempt EXCEPT ![c] = 0]
  /\ Send(c)

(* The backoff or Retry-After sleep ends: the loop asks the breaker again. *)
Retry(c) ==
  /\ pc[c] = "sleeping"
  /\ UNCHANGED attempt
  /\ \/ Send(c)
     \/ /\ ~Admits
        /\ pc' = [pc EXCEPT ![c] = "idle"]
        /\ UNCHANGED <<breaker, history>>

Return(c) == pc' = [pc EXCEPT ![c] = "idle"] /\ UNCHANGED attempt

RetriesForever(c) == pc' = [pc EXCEPT ![c] = "sleeping"] /\ UNCHANGED attempt
RetriesOnceMore(c) ==
  /\ pc' = [pc EXCEPT ![c] = IF attempt[c] <= MaxRetries THEN "sleeping" ELSE "idle"]
  /\ attempt' = [attempt EXCEPT ![c] = @ + 1]

(* `if attempt < max_retries: sleep; continue`, otherwise `raise`.         *)
RetryOrRaise(c) ==
  IF attempt[c] < MaxRetries
  THEN /\ pc' = [pc EXCEPT ![c] = "sleeping"]
       /\ attempt' = [attempt EXCEPT ![c] = @ + 1]
  ELSE Return(c)

Succeed(c) == OnSuccess /\ Return(c) /\ UNCHANGED quiet

(* Any 4xx but 429.                                                        *)
ClientError(c) == OnLiveness /\ Return(c) /\ UNCHANGED quiet

(* 429: retried only when Retry-After is usable.                           *)
Throttle(c) ==
  /\ OnThrottled
  /\ RetryOrRaise(c) \/ Return(c)
  /\ quiet' = 0

(* 5xx or 3xx, a timeout, a refused connection, a protocol error.          *)
Fail(c) == OnFailure /\ RetryOrRaise(c) /\ quiet' = 0

(* The upstream's answer, or its absence, reaches the breaker.             *)
Respond(c) ==
  /\ pc[c] = "inflight"
  /\ Settle(c)
  /\ Succeed(c) \/ ClientError(c) \/ Throttle(c) \/ Fail(c)

(* The await ends in an exception no handler names: httpx.ReadError or     *)
(* WriteError, or the CancelledError of a caller's asyncio.wait_for.  The  *)
(* breaker is not told.                                                    *)
Abort(c) ==
  /\ pc[c] # "idle"
  /\ Return(c)
  /\ leaked' = (leaked \/ trial[c] = "fresh")
  /\ trial' = [trial EXCEPT ![c] = "none"]
  /\ UNCHANGED <<breaker, quiet>>

Tick ==
  /\ age' = Saturate(age + 1, RecoveryTimeout)
  /\ quiet' = Saturate(quiet + 1, RecoveryTimeout)
  /\ UNCHANGED <<failures, halfOpen, pc, attempt, trial, leaked>>

Next ==
  \/ \E c \in Calls : Start(c) \/ Retry(c) \/ Respond(c) \/ Abort(c)
  \/ Tick

(* httpx bounds every request by HTTP_TIMEOUT and asyncio.sleep returns,   *)
(* so a call that waits is woken; time passes; callers keep asking.        *)
Fairness ==
  /\ \A c \in Calls : WF_vars(Respond(c)) /\ WF_vars(Retry(c))
  /\ WF_vars(Tick)
  /\ WF_vars(\E c \in Calls : Start(c))

Spec == Init /\ [][Next]_vars
FairSpec == Spec /\ Fairness

----------------------------------------------------------------------------
(* Properties.                                                             *)

TrialInFlight == \E c \in Calls : trial[c] # "none"

(* _half_open is set exactly while one trial admitted since the last       *)
(* outcome is in flight, or after such a trial was aborted: no outcome of  *)
(* any other call, early or late, leaves the flag without an owner.        *)
HalfOpenHasOwner ==
  /\ halfOpen <=> leaked \/ \E c \in Calls : trial[c] = "fresh"
  /\ \A c, d \in Calls : trial[c] = "fresh" /\ trial[d] = "fresh" => c = d
  /\ leaked => \A c \in Calls : trial[c] # "fresh"

(* While the breaker is open no request, first or retried, leaves for the  *)
(* upstream until recovery_timeout has passed since anyone's last failure  *)
(* or throttle, whatever the calls still in flight report meanwhile.       *)
NoRequestWhileCooling ==
  [][\A c \in Calls :
       Open /\ pc[c] # "inflight" /\ pc'[c] = "inflight" => quiet >= RecoveryTimeout]_vars

(* Every call ends, whatever the upstream answers and however often the    *)
(* breaker opens between its attempts.                                     *)
CallsFinish == \A c \in Calls : pc[c] # "idle" ~> pc[c] = "idle"

(* While callers keep asking, an open breaker lets a trial through or      *)
(* closes, unless a trial was aborted.                                     *)
ProbeUnlessAborted == Open ~> (~Open \/ TrialInFlight \/ leaked)

(* What CircuitBreaker's docstring promises without that exception: it     *)
(* "refuses new requests for recovery_timeout seconds, then allows a       *)
(* single half-open trial".                                                *)
ProbeEventually == Open ~> (~Open \/ TrialInFlight)
=============================================================================
