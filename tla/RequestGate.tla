----------------------------- MODULE RequestGate -----------------------------
(***************************************************************************)
(* What stands before a request of the HTTP transport: the sliding window  *)
(* of each client, the origin, the key and the scope of the tool           *)
(* (core/server_auth.py); and before a destructive tool the fixed window   *)
(* shared by all (core/audit.py).                                          *)
(***************************************************************************)
EXTENDS Integers, Sequences, FiniteSets

CONSTANTS
  Peers,          (* client addresses                                      *)
  PeerLimit,      (* BLUETEAM_HTTP_RATE_LIMIT                              *)
  ToolLimit,      (* BLUETEAM_RATE_LIMIT                                   *)
  WindowLength,   (* both windows, in ticks                                *)
  MaxKeys,        (* _MAX_KEYS                                             *)
  MaxSecond,      (* bound: the last tick of a behaviour                   *)
  MaxRequests     (* bound: requests of a tick                             *)

ASSUME GateAssumption ==
  /\ PeerLimit \in Nat \ {0} /\ ToolLimit \in Nat \ {0} /\ WindowLength \in Nat \ {0}
  /\ MaxKeys \in Nat /\ MaxSecond \in Nat /\ MaxRequests \in Nat

VARIABLES
  second,
  hits,           (* _hits: times of each client's admitted requests       *)
  count, reset,   (* _rate_limit_count, _rate_limit_reset_time             *)
  admitted,       (* every admission, client and time                      *)
  executed,       (* every execution of a destructive tool: time           *)
  asked           (* requests of this tick                                 *)

gateVars == <<second, hits, count, reset, admitted, executed, asked>>

NoHits == <<>>
Tracked(h) == {p \in Peers : h[p] # NoHits}

GateInit ==
  /\ second = 0 /\ hits = [p \in Peers |-> NoHits]
  /\ count = 0 /\ reset = -1 /\ admitted = <<>> /\ executed = <<>> /\ asked = 0

(* Hits that have left the window are dropped, from the left.              *)
Over(at) == second - at >= WindowLength
Stale(s) == CHOOSE n \in 0 .. Len(s) :
  (\A i \in 1 .. n : Over(s[i])) /\ (n < Len(s) => ~Over(s[n + 1]))
Recent(s) == SubSeq(s, Stale(s) + 1, Len(s))

(* A variant the property must tell from the code: a sweep that forgets    *)
(* every other client.                                                     *)
SweepOthers(h, p) == [q \in Peers |-> IF q = p THEN h[q] ELSE NoHits]

(* Past _MAX_KEYS the clients without a recent hit are forgotten.          *)
Swept(h, p) ==
  IF Cardinality(Tracked(h)) > MaxKeys
  THEN [q \in Peers |-> IF h[q] = NoHits \/ Over(h[q][Len(h[q])]) THEN NoHits ELSE h[q]]
  ELSE h

(* allow: a refused request is not a hit.                                  *)
Admit(p) ==
  /\ Len(Recent(hits[p])) < PeerLimit
  /\ hits' = Swept([hits EXCEPT ![p] = Append(Recent(@), second)], p)
  /\ admitted' = Append(admitted, [peer |-> p, at |-> second])
Refuse(p) ==
  /\ Len(Recent(hits[p])) >= PeerLimit
  /\ hits' = [hits EXCEPT ![p] = Recent(@)]
  /\ UNCHANGED admitted

(* _check_rate_limit: the window starts with its first request, and the    *)
(* refused ones count.                                                     *)
WindowOver == second > reset
CheckRateLimit(destructive) ==
  IF ~destructive THEN UNCHANGED <<count, reset, executed>>
  ELSE LET n == IF WindowOver THEN 1 ELSE count + 1
       IN /\ count' = n
          /\ reset' = IF WindowOver THEN second + WindowLength ELSE reset
          /\ executed' = IF n <= ToolLimit THEN Append(executed, second) ELSE executed

(* dispatch, in its order: the window, then the origin, the key, the body  *)
(* and the scope, any of which ends the request; then the tool.            *)
Outcomes == {"origin", "unauthorized", "body", "scope", "passed"}
Dispatch(p) ==
  /\ asked < MaxRequests /\ asked' = asked + 1
  /\ \/ /\ Refuse(p) /\ UNCHANGED <<count, reset, executed>>
     \/ /\ Admit(p)
        /\ \E outcome \in Outcomes, destructive \in BOOLEAN :
             CheckRateLimit(outcome = "passed" /\ destructive)
  /\ UNCHANGED second

GateTick ==
  /\ second < MaxSecond /\ second' = second + 1 /\ asked' = 0
  /\ UNCHANGED <<hits, count, reset, admitted, executed>>

GateNext == GateTick \/ \E p \in Peers : Dispatch(p)

GateSpec == GateInit /\ [][GateNext]_gateVars
-----------------------------------------------------------------------------
GateTypeOK ==
  /\ second \in 0 .. MaxSecond /\ asked \in 0 .. MaxRequests
  /\ \A p \in Peers : Len(hits[p]) <= PeerLimit
  /\ count \in Nat /\ reset \in -1 .. MaxSecond + WindowLength
  /\ executed \in Seq(0 .. second)

(* No client is admitted more than its limit within any window, whatever   *)
(* the sweep of stale clients forgets; destructive tools run at most twice *)
(* their limit within any window, which can be met at both of its ends.    *)
FallsIn(at, t) == t <= at /\ at < t + WindowLength
Executions(t) == {i \in 1 .. Len(executed) : FallsIn(executed[i], t)}
Admissions(p, t) ==
  {i \in 1 .. Len(admitted) : admitted[i].peer = p /\ FallsIn(admitted[i].at, t)}
LimitsHold ==
  \A t \in 0 .. second :
    /\ Cardinality(Executions(t)) <= 2 * ToolLimit
    /\ \A p \in Peers : Cardinality(Admissions(p, t)) <= PeerLimit
=============================================================================
