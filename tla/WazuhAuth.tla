----------------------------- MODULE WazuhAuth -----------------------------
(***************************************************************************)
(* The manager of the Wazuh token (wazuh/auth.py) under concurrent api_get *)
(* calls.  The request for a token and the request that carries it both go *)
(* through _api_call: an attempt is a row of waits, each with the timeout  *)
(* to itself, and after a failed attempt comes a sleep and the same        *)
(* request again, while a token that was good when handed out grows old.   *)
(* Time is kept as ages and as what is left until an instant, so there is  *)
(* no last tick.                                                           *)
(***************************************************************************)
EXTENDS Integers

CONSTANTS
  Clients,        (* concurrent callers of api_get                         *)
  TokenTtl,       (* _TOKEN_TTL                                            *)
  RefreshBuffer,  (* _REFRESH_BUFFER                                       *)
  HttpTimeout,    (* HTTP_TIMEOUT, which bounds each wait of a request     *)
  Writes, Reads,  (* how many waits it takes to send a request, and to     *)
                  (* read its answer: each has its own timeout             *)
  RetryAfterMax,  (* _RETRY_AFTER_MAX                                      *)
  BackoffMax,     (* the longest backoff of _api_call                      *)
  Retries         (* max_retries of _api_call                              *)

ASSUME AuthAssumption ==
  /\ TokenTtl \in Nat /\ RefreshBuffer \in 0 .. TokenTtl - 1
  /\ HttpTimeout \in Nat /\ Writes \in Nat \ {0} /\ Reads \in Nat \ {0}
  /\ RetryAfterMax \in Nat /\ BackoffMax \in Nat /\ Retries \in Nat

VARIABLES
  token,          (* _token: its age, and what is left until _expiry       *)
  call            (* what each caller does                                 *)

authVars == <<token, call>>

NoToken == [age |-> 0, left |-> 0]

(* A call asks for a token or sends a request with one; it reaches for a   *)
(* connection (a place in the pool, TCP, TLS), sends, reads, or sleeps     *)
(* between attempts.  more counts the waits of the phase still to come,    *)
(* left the ticks until the one it is in times out or the sleep is over,   *)
(* and age those since the token was issued, at the earliest.              *)
Errands == {"none", "token", "request"}
Awake == {"reaching", "sending", "reading"}
Phases == Awake \cup {"idle", "asleep"}
ReachWaits == 3
Rest == [errand |-> "none", phase |-> "idle", more |-> 0, left |-> 0, age |-> 0, attempt |-> 0]

(* An attempt begins.                                                      *)
Reach(c, errand, age, attempt) ==
  call' = [call EXCEPT ![c] = [errand |-> errand, phase |-> "reaching", more |-> ReachWaits - 1,
                               left |-> HttpTimeout, age |-> age, attempt |-> attempt]]
Enter(c, phase, more, age) ==
  call' = [call EXCEPT ![c].phase = phase, ![c].more = more, ![c].left = HttpTimeout,
                       ![c].age = age]
Sleep(c, delay) ==
  call' = [call EXCEPT ![c].phase = "asleep", ![c].more = 0, ![c].left = delay]

AuthInit == token = NoToken /\ call = [c \in Clients |-> Rest]

(* A variant: a token is used to its last second.                          *)
HeldGood == token.left > 0

(* get_token                                                               *)
Good == token.left > RefreshBuffer
GetToken(c) ==
  /\ call[c].phase = "idle"
  /\ IF Good THEN Reach(c, "request", token.age, 0) ELSE Reach(c, "token", 0, 0)
  /\ UNCHANGED token

(* The next wait of the same phase.                                        *)
WaitOn(c) ==
  /\ call[c].phase \in Awake /\ call[c].more > 0
  /\ Enter(c, call[c].phase, call[c].more - 1, call[c].age)
  /\ UNCHANGED token

(* There is a connection, from the pool or after all three waits: the      *)
(* request goes out.  The Manager issues a token from then on.             *)
SetOut(c) ==
  /\ call[c].phase = "reaching"
  /\ Enter(c, "sending", Writes - 1, IF call[c].errand = "token" THEN 0 ELSE call[c].age)
  /\ UNCHANGED token

(* The request is out: the answer is awaited.                              *)
GoOut(c) ==
  /\ call[c].phase = "sending"
  /\ Enter(c, "reading", Reads - 1, call[c].age)
  /\ UNCHANGED token

(* _refresh: the answer was issued while it was under way, and its time to *)
(* live is counted from its arrival.  Several callers do this side by      *)
(* side; each sends what it was given.                                     *)
Refreshed(c) ==
  /\ call[c].errand = "token" /\ call[c].phase = "reading"
  /\ \E age \in 0 .. call[c].age :
       /\ token' = [age |-> age, left |-> TokenTtl]
       /\ Reach(c, "request", age, 0)

(* An error status, a timeout, a connection error, an open breaker or an   *)
(* empty answer: _invalidate forgets whatever token there is by now.       *)
(* Another error, or a cancelled call, leaves it.                          *)
RefreshFails(c) ==
  /\ call[c].errand = "token"
  /\ \/ call[c].phase \in Awake /\ token' = NoToken
     \/ UNCHANGED token
  /\ call' = [call EXCEPT ![c] = Rest]

(* The call ends, also with 401 or an error: the token is kept.            *)
Answered(c) ==
  /\ call[c].errand = "request"
  /\ call' = [call EXCEPT ![c] = Rest]
  /\ UNCHANGED token

(* A failure or a timeout, then a backoff.                                 *)
TryAgain(c) ==
  /\ call[c].phase \in Awake /\ call[c].attempt < Retries
  /\ \E delay \in 0 .. BackoffMax : Sleep(c, delay)
  /\ UNCHANGED token

(* A 429 that says when to come back.                                      *)
Throttled(c) ==
  /\ call[c].phase = "reading" /\ call[c].attempt < Retries
  /\ \E delay \in 0 .. RetryAfterMax : Sleep(c, delay)
  /\ UNCHANGED token

(* The same request, with the same token.                                  *)
WakeUp(c) ==
  /\ call[c].phase = "asleep" /\ call[c].left = 0
  /\ Reach(c, call[c].errand, IF call[c].errand = "token" THEN 0 ELSE call[c].age,
           call[c].attempt + 1)
  /\ UNCHANGED token

(* Time passes, but no wait outlasts its timeout, and no sleep its delay.  *)
Ageing(c) == call[c].errand = "request" \/ call[c].phase \in {"sending", "reading"}
AuthTick ==
  /\ \A c \in Clients : call[c].phase # "idle" => call[c].left > 0
  /\ call' = [c \in Clients |->
                IF call[c].phase = "idle" THEN call[c]
                ELSE [call[c] EXCEPT !.left = @ - 1, !.age = IF Ageing(c) THEN @ + 1 ELSE @]]
  /\ token' = IF token.left = 0 THEN token ELSE [age |-> token.age + 1, left |-> token.left - 1]

AuthNext ==
  \/ \E c \in Clients : \/ GetToken(c) \/ WaitOn(c) \/ SetOut(c) \/ GoOut(c)
                        \/ Refreshed(c) \/ RefreshFails(c) \/ Answered(c)
                        \/ TryAgain(c) \/ Throttled(c) \/ WakeUp(c)
  \/ AuthTick

AuthSpec == AuthInit /\ [][AuthNext]_authVars
-----------------------------------------------------------------------------
AuthTypeOK ==
  /\ token \in [age : Nat, left : 0 .. TokenTtl]
  /\ call \in [Clients -> [errand : Errands, phase : Phases, more : Nat, left : Nat,
                           age : Nat, attempt : 0 .. Retries]]

(* The Manager judges the token of a request from when it goes out until   *)
(* the first wait for the answer is over.                                  *)
OnTheWire(c) ==
  /\ call[c].errand = "request"
  /\ \/ call[c].phase = "sending"
     \/ call[c].phase = "reading" /\ call[c].more = Reads - 1

(* How old the token on the wire can be: it was good for more than the     *)
(* buffer by the manager's clock, which starts when the token arrives; it  *)
(* was issued up to Writes + Reads waits before that; and the request      *)
(* takes its waits, all of them and a sleep over again for each retry.     *)
Longest == IF RetryAfterMax > BackoffMax THEN RetryAfterMax ELSE BackoffMax
Lap == (ReachWaits + Writes + Reads) * HttpTimeout + Longest
AgeBound == (TokenTtl - RefreshBuffer) + (Writes + Reads) * HttpTimeout
            + Retries * Lap + (ReachWaits + Writes + 1) * HttpTimeout
TokenAgeBounded ==
  \A c \in Clients : OnTheWire(c) => call[c].age < AgeBound

(* No token expires during a request: what is on the wire has time left    *)
(* (auth.py:40-41).                                                        *)
NoExpiryMidRequest ==
  \A c \in Clients : OnTheWire(c) => call[c].age < TokenTtl
=============================================================================
