--------------------------- MODULE CallPathProofs ---------------------------
(***************************************************************************)
(* What the calls of a tool guarantee: ApiCall's breaker for any number of *)
(* concurrent calls, any threshold, recovery time and retry count;         *)
(* RapidApi's budget for any number of callers and cache keys, any         *)
(* allowance and any number of months; a walk through the pages of a tool; *)
(* the triggers of the three-category correlation; the entries of the      *)
(* audit log; the ladder of a playbook.  Each from one inductive invariant *)
(* of its own, and each for the composition that MCToolCalls checks.       *)
(***************************************************************************)
EXTENDS MCToolCalls, DataLemmas

-----------------------------------------------------------------------------
(* ApiCall.                                                                *)
(* The age of _opened_at is the time since the last failure or throttle    *)
(* whenever the breaker is open: what makes the guard of before_call,      *)
(* which reads only the age, speak about everyone's outcomes.              *)
ClockIsQuiet == Open => age = quiet

IInv == TypeOK /\ HalfOpenHasOwner /\ ClockIsQuiet

(* Saturation stays below its top and above zero.                          *)
LEMMA SaturateType ==
  ASSUME NEW top \in Nat, NEW n \in Nat
  PROVE  Saturate(n, top) \in 0 .. top
BY DEF Saturate

LEMMA InitIInv == Init => IInv
<1> SUFFICES ASSUME Init
             PROVE  IInv
  OBVIOUS
<1> USE DEF Init
<1>1. TypeOK
  <2>1. 0 \in 0 .. FailureThreshold /\ 0 \in 0 .. MaxRetries
        /\ RecoveryTimeout \in 0 .. RecoveryTimeout
    BY ApiCallAssumption
  <2>2. attempt \in [Calls -> 0 .. MaxRetries]
    BY <2>1
  <2> QED
    BY <2>1, <2>2 DEF TypeOK
<1>2. HalfOpenHasOwner
  BY DEF HalfOpenHasOwner
<1>3. ClockIsQuiet
  BY DEF ClockIsQuiet
<1> QED
  BY <1>1, <1>2, <1>3 DEF IInv

----------------------------------------------------------------------------
(* One lemma per kind of step.                                             *)

LEMMA SendIInv ==
  ASSUME IInv, NEW c \in Calls, pc[c] # "inflight", trial[c] = "none",
         attempt' \in [Calls -> 0 .. MaxRetries], Send(c)
  PROVE  IInv'
<1> USE DEF IInv, Send, MarkTrial, Admits, Open
<1>1. TypeOK'
  BY DEF TypeOK
<1>2. ClockIsQuiet'
  BY DEF ClockIsQuiet
<1>3. HalfOpenHasOwner'
  <2>1. CASE Open
    <3>1. /\ ~halfOpen /\ ~leaked
          /\ \A d \in Calls : trial[d] # "fresh"
      BY <2>1 DEF HalfOpenHasOwner
    <3>2. \A d \in Calls : trial'[d] = "fresh" <=> d = c
      BY <2>1, <3>1 DEF TypeOK
    <3>3. halfOpen' /\ ~leaked'
      BY <2>1, <3>1
    <3> QED
      BY <3>2, <3>3 DEF HalfOpenHasOwner
  <2>2. CASE ~Open
    <3>1. halfOpen' = halfOpen /\ leaked' = leaked
      BY <2>2 DEF TypeOK
    <3>2. trial' = trial
      BY <2>2 DEF TypeOK
    <3> QED
      BY <3>1, <3>2 DEF HalfOpenHasOwner
  <2> QED
    BY <2>1, <2>2
<1> QED
  BY <1>1, <1>2, <1>3

(* An idle or sleeping call holds no trial: the other half of what Send    *)
(* needs, an invariant of its own.                                         *)
TrialOnlyInFlight == \A c \in Calls : trial[c] # "none" => pc[c] = "inflight"

LEMMA SettleIInv ==
  ASSUME IInv, NEW c \in Calls, Respond(c)
  PROVE  IInv'
<1> USE DEF IInv, Respond
<1>1. Saturate(failures + 1, FailureThreshold) \in 0 .. FailureThreshold
  <2>1. FailureThreshold \in Nat /\ failures + 1 \in Nat
    BY ApiCallAssumption DEF TypeOK
  <2> QED BY <2>1, SaturateType
<1>2. /\ pc' \in [Calls -> {"idle", "inflight", "sleeping"}]
      /\ attempt' \in [Calls -> 0 .. MaxRetries]
  BY ApiCallAssumption
     DEF TypeOK, Succeed, ClientError, Throttle, Fail, RetryOrRaise, Return
<1>3. /\ trial' \in [Calls -> {"none", "fresh", "stale"}]
      /\ \A d \in Calls : trial'[d] # "fresh"
      /\ leaked' = FALSE
  BY DEF Settle, TypeOK
<1>4. /\ failures' \in 0 .. FailureThreshold
      /\ age' \in 0 .. RecoveryTimeout
      /\ quiet' \in 0 .. RecoveryTimeout
      /\ halfOpen' = FALSE
      /\ ClockIsQuiet'
  <2>1. CASE Succeed(c)
    BY <2>1, ApiCallAssumption DEF TypeOK, Succeed, OnSuccess, ClockIsQuiet, Open
  <2>2. CASE ClientError(c) /\ halfOpen
    BY <2>2, ApiCallAssumption
       DEF TypeOK, ClientError, OnLiveness, OnSuccess, ClockIsQuiet, Open
  <2>3. CASE ClientError(c) /\ ~halfOpen
    BY <2>3, ApiCallAssumption
       DEF TypeOK, ClientError, OnLiveness, breaker, ClockIsQuiet, Open
  <2>4. CASE Throttle(c)
    BY <2>4, ApiCallAssumption DEF TypeOK, Throttle, OnThrottled, ClockIsQuiet, Open
  <2>5. CASE Fail(c)
    BY <2>5, <1>1, ApiCallAssumption DEF TypeOK, Fail, OnFailure, ClockIsQuiet, Open
  <2> QED
    BY <2>1, <2>2, <2>3, <2>4, <2>5
<1>5. HalfOpenHasOwner'
  BY <1>3, <1>4 DEF HalfOpenHasOwner
<1> QED
  BY <1>2, <1>3, <1>4, <1>5 DEF TypeOK

LEMMA AbortIInv ==
  ASSUME IInv, NEW c \in Calls, Abort(c)
  PROVE  IInv'
<1> USE DEF IInv, Abort, Return, breaker
<1>1. TypeOK' /\ ClockIsQuiet'
  BY DEF TypeOK, ClockIsQuiet, Open
<1>2. \A d \in Calls : trial'[d] = "fresh" <=> d # c /\ trial[d] = "fresh"
  BY DEF TypeOK
<1>3. HalfOpenHasOwner'
  BY <1>2 DEF HalfOpenHasOwner
<1> QED
  BY <1>1, <1>3

LEMMA TickIInv == IInv /\ Tick => IInv'
<1> SUFFICES ASSUME IInv, Tick
             PROVE  IInv'
  OBVIOUS
<1>1. age' \in 0 .. RecoveryTimeout /\ quiet' \in 0 .. RecoveryTimeout
  BY ApiCallAssumption, SaturateType DEF IInv, Tick, TypeOK
<1> QED
  BY <1>1 DEF IInv, Tick, TypeOK, HalfOpenHasOwner, ClockIsQuiet, Open

----------------------------------------------------------------------------

LEMMA TrialOnlyInFlightStep ==
  ASSUME TypeOK, TrialOnlyInFlight, [Next]_vars
  PROVE  TrialOnlyInFlight'
<1> USE DEF TrialOnlyInFlight, TypeOK
<1>1. ASSUME NEW c \in Calls, Start(c) \/ (Retry(c) /\ Send(c))
      PROVE  TrialOnlyInFlight'
  BY <1>1 DEF Start, Retry, Send
<1>2. ASSUME NEW c \in Calls, Retry(c), ~Send(c)
      PROVE  TrialOnlyInFlight'
  BY <1>2 DEF Retry, history
<1>3. ASSUME NEW c \in Calls, Respond(c)
      PROVE  TrialOnlyInFlight'
  <2>1. \A d \in Calls \ {c} : pc'[d] = pc[d]
    BY <1>3 DEF Respond, Succeed, ClientError, Throttle, Fail, RetryOrRaise, Return
  <2>2. trial' = [d \in Calls |-> IF d = c \/ trial[d] = "none" THEN "none" ELSE "stale"]
    BY <1>3 DEF Respond, Settle
  <2> QED
    BY <2>1, <2>2
<1>4. ASSUME NEW c \in Calls, Abort(c)
      PROVE  TrialOnlyInFlight'
  BY <1>4 DEF Abort, Return
<1>5. CASE Tick
  BY <1>5 DEF Tick
<1>6. CASE UNCHANGED vars
  BY <1>6 DEF vars
<1> QED
  BY <1>1, <1>2, <1>3, <1>4, <1>5, <1>6 DEF Next

LEMMA StepIInv ==
  ASSUME IInv, TrialOnlyInFlight, [Next]_vars
  PROVE  IInv'
<1>1. ASSUME NEW c \in Calls, Start(c)
      PROVE  IInv'
  <2>1. attempt' \in [Calls -> 0 .. MaxRetries]
    BY <1>1, ApiCallAssumption DEF Start, IInv, TypeOK
  <2>2. trial[c] = "none" /\ pc[c] # "inflight"
    BY <1>1 DEF Start, TrialOnlyInFlight
  <2> QED
    BY <1>1, <2>1, <2>2, SendIInv DEF Start
<1>2. ASSUME NEW c \in Calls, Retry(c)
      PROVE  IInv'
  <2>1. trial[c] = "none" /\ pc[c] # "inflight"
    BY <1>2 DEF Retry, TrialOnlyInFlight
  <2>2. CASE Send(c)
    <3>1. attempt' \in [Calls -> 0 .. MaxRetries]
      BY <1>2 DEF Retry, IInv, TypeOK
    <3> QED
      BY <2>1, <2>2, <3>1, SendIInv
  <2>3. CASE ~Send(c)
    BY <1>2, <2>3
       DEF Retry, breaker, history, IInv, TypeOK, HalfOpenHasOwner, ClockIsQuiet, Open
  <2> QED
    BY <2>2, <2>3
<1>3. ASSUME NEW c \in Calls, Respond(c)
      PROVE  IInv'
  BY <1>3, SettleIInv
<1>4. ASSUME NEW c \in Calls, Abort(c)
      PROVE  IInv'
  BY <1>4, AbortIInv
<1>5. CASE Tick
  BY <1>5, TickIInv
<1>6. CASE UNCHANGED vars
  BY <1>6 DEF vars, IInv, TypeOK, HalfOpenHasOwner, ClockIsQuiet, Open
<1> QED
  BY <1>1, <1>2, <1>3, <1>4, <1>5, <1>6 DEF Next

----------------------------------------------------------------------------

(* The strengthened invariant of every behaviour.                          *)
THEOREM Inductive == Spec => [](IInv /\ TrialOnlyInFlight)
<1>1. Init => IInv /\ TrialOnlyInFlight
  BY InitIInv DEF Init, TrialOnlyInFlight
<1>2. IInv /\ TrialOnlyInFlight /\ [Next]_vars => (IInv /\ TrialOnlyInFlight)'
  BY StepIInv, TrialOnlyInFlightStep DEF IInv
<1> QED
  BY <1>1, <1>2, PTL DEF Spec

(* Every variable keeps its type; the failure count never passes the       *)
(* threshold it is compared with.                                          *)
THEOREM TypeCorrect == Spec => []TypeOK
<1>1. IInv => TypeOK
  BY DEF IInv
<1> QED
  BY <1>1, Inductive, PTL

(* _half_open always has exactly one owner: a trial in flight, or one that *)
(* was aborted.                                                            *)
THEOREM HalfOpenOwned == Spec => []HalfOpenHasOwner
<1>1. IInv => HalfOpenHasOwner
  BY DEF IInv
<1> QED
  BY <1>1, Inductive, PTL

(* An open breaker sends nothing until recovery_timeout has passed since   *)
(* the last failure or throttle of any call.                               *)
THEOREM Cooling == Spec => NoRequestWhileCooling
<1>1. ASSUME IInv, [Next]_vars
      PROVE  [\A c \in Calls : Open /\ pc[c] # "inflight" /\ pc'[c] = "inflight"
                                 => quiet >= RecoveryTimeout]_vars
  <2> SUFFICES ASSUME NEW c \in Calls, Open, pc[c] # "inflight", pc'[c] = "inflight", Next
               PROVE  quiet >= RecoveryTimeout
    BY <1>1 DEF vars
  <2>1. PICK d \in Calls : Start(d) \/ Retry(d) \/ Respond(d) \/ Abort(d)
    BY DEF Next, Tick
  <2>2. ~Respond(d) /\ ~Abort(d)
    BY <1>1 DEF IInv, TypeOK, Respond, Abort, Succeed, ClientError, Throttle, Fail,
                RetryOrRaise, Return
  <2>3. Send(d)
    BY <1>1, <2>1, <2>2 DEF Start, Retry, IInv, TypeOK
  <2> QED
    BY <1>1, <2>3 DEF Send, Admits, IInv, ClockIsQuiet
<1> QED
  BY <1>1, Inductive, PTL DEF Spec, NoRequestWhileCooling

-----------------------------------------------------------------------------
(* RapidApi.                                                               *)
DiskSpent == IF disk.m = month THEN disk.s ELSE 0

(* A month in which nobody has checked the budget yet has billed nothing.  *)
MonthBehind == qmonth <= month /\ (qmonth # month => sent = 0)

(* What was billed is on the counter, in flight, or known to be lost.      *)
Accounted == sent <= CurrentSpent + InFlight + lost

(* The counter on disk lags by no more than the refused writes.            *)
SpentSaved == qmonth = month => spent <= DiskSpent + unsaved

(* Without refused writes the armed window is on disk as it is in memory.  *)
ArmSaved ==
  qmonth = month /\ unsaved = 0 /\ armed # "no" => disk.m = month /\ disk.a = armed

(* An expired window of this month is still the one in memory.             *)
WindowKnown == windowOver => qmonth = month /\ armed = "expired"

Money == MonthBehind /\ Accounted /\ SpentSaved /\ SpendBounded
Window == ArmSaved /\ WindowKnown
RapidInv == RapidTypeOK /\ OneSlot /\ Money /\ Window

----------------------------------------------------------------------------
(* Facts about the operators the actions share.                            *)

LEMMA InFlightType == InFlight \in 0 .. 1
BY DEF InFlight

(* A caller that is pacing is the only holder: nothing is in flight.       *)
LEMMA PacingAlone ==
  ASSUME OneSlot, NEW c \in Callers, place[c] = "pacing"
  PROVE  InFlight = 0
BY DEF OneSlot, Holds, InFlight

LEMMA InFlightAlone ==
  ASSUME RapidTypeOK, OneSlot, NEW c \in Callers, place[c] = "inflight",
         place' = [place EXCEPT ![c] = "idle"]
  PROVE  InFlight = 1 /\ InFlight' = 0
BY DEF OneSlot, Holds, InFlight, RapidTypeOK

(* Persist keeps the record well typed, and either saves the current       *)
(* counters or counts one more refused write.                              *)
LEMMA PersistOutcome ==
  ASSUME RapidTypeOK, NEW added \in SUBSET Keys, cache' \in SUBSET Keys,
         qmonth' \in 1 .. Months, spent' \in Nat, armed' \in ArmWindows, Persist(added)
  PROVE  /\ disk' \in [m : 0 .. Months, s : Nat, a : ArmWindows]
         /\ diskKeys' \in SUBSET Keys
         /\ unsaved' \in Nat
         /\ \/ disk' = [m |-> qmonth', s |-> spent', a |-> armed'] /\ unsaved' = 0
            \/ disk' = disk /\ unsaved' = unsaved + 1
BY RapidApiAssumption DEF RapidTypeOK, Persist

----------------------------------------------------------------------------
LEMMA RapidInitInv == RapidInit => RapidInv
<1> SUFFICES ASSUME RapidInit
             PROVE  RapidInv
  OBVIOUS
<1> USE RapidApiAssumption DEF RapidInit
<1>1. RapidTypeOK
  <2>1. << >> \in Seq(Callers)
    OBVIOUS
  <2>2. disk \in [m : 0 .. Months, s : Nat, a : ArmWindows]
    BY DEF ArmWindows
  <2>3. 1 \in 1 .. Months /\ 0 \in Nat /\ 1 \in 0 .. 1 /\ armed \in ArmWindows
    BY DEF ArmWindows
  <2>4. place \in [Callers -> {"idle", "waiting", "pacing", "inflight"}]
    OBVIOUS
  <2> QED
    BY <2>1, <2>2, <2>3, <2>4 DEF RapidTypeOK
<1>2. OneSlot
  BY DEF OneSlot, Holds
<1>3. Money
  BY DEF Money, MonthBehind, Accounted, SpentSaved, SpendBounded, DiskSpent,
         CurrentSpent, InFlight
<1>4. Window
  BY DEF Window, ArmSaved, WindowKnown
<1> QED
  BY <1>1, <1>2, <1>3, <1>4 DEF RapidInv

----------------------------------------------------------------------------
(* Types.                                                                  *)

LEMMA CheckType ==
  ASSUME RapidTypeOK, Check
  PROVE  /\ qmonth' \in 1 .. Months /\ spent' \in Nat /\ armed' \in ArmWindows
         /\ cache' \in SUBSET Keys
         /\ disk' \in [m : 0 .. Months, s : Nat, a : ArmWindows]
         /\ diskKeys' \in SUBSET Keys /\ unsaved' \in Nat
<1>1. qmonth' \in 1 .. Months /\ spent' \in Nat /\ armed' \in ArmWindows /\ cache' \in SUBSET Keys
  BY DEF RapidTypeOK, Check, Roll, CurrentSpent, CurrentArm, ArmWindows
<1>2. CASE CurrentArm = "no"
  BY <1>1, <1>2, PersistOutcome DEF Check
<1>3. CASE CurrentArm # "no"
  BY <1>1, <1>3 DEF Check, RapidTypeOK
<1> QED
  BY <1>1, <1>2, <1>3

LEMMA TypeStep ==
  ASSUME RapidInv, [RapidNext]_rapidVars
  PROVE  RapidTypeOK'
<1> USE DEF RapidInv
<1>1. ASSUME NEW c \in Callers, NEW k \in Keys, Ask(c, k)
      PROVE  RapidTypeOK'
  BY <1>1 DEF RapidTypeOK, Ask, budget, store
<1>2. ASSUME NEW c \in Callers, Acquire(c)
      PROVE  RapidTypeOK'
  <2>1. waiters' \in Seq(Callers)
    BY <1>2 DEF Acquire, RapidTypeOK
  <2> QED
    BY <1>2, <2>1 DEF RapidTypeOK, Acquire, budget, store
<1>3. ASSUME NEW c \in Callers, Request(c)
      PROVE  RapidTypeOK'
  <2>1. free = 0
    BY <1>3 DEF Request, OneSlot, Holds, RapidTypeOK
  <2>2. /\ free' \in 0 .. 1 /\ slotLost' \in BOOLEAN /\ waiters' \in Seq(Callers)
        /\ place' \in [Callers -> {"idle", "waiting", "pacing", "inflight"}]
        /\ sent' \in Nat
    BY <1>3, <2>1 DEF Request, Release, limiter, RapidTypeOK
  <2>3. /\ qmonth' \in 1 .. Months /\ spent' \in Nat /\ armed' \in ArmWindows
        /\ cache' \in SUBSET Keys
        /\ disk' \in [m : 0 .. Months, s : Nat, a : ArmWindows]
        /\ diskKeys' \in SUBSET Keys /\ unsaved' \in Nat
    BY <1>3, CheckType DEF Request
  <2>4. UNCHANGED <<month, key, lost, windowOver>>
    BY <1>3 DEF Request
  <2> QED
    BY <2>2, <2>3, <2>4 DEF RapidTypeOK
<1>4. ASSUME NEW c \in Callers, Answer(c)
      PROVE  RapidTypeOK'
  <2>1. free = 0
    BY <1>4 DEF Answer, OneSlot, Holds, RapidTypeOK
  <2>2. /\ free' \in 0 .. 1 /\ slotLost' \in BOOLEAN /\ waiters' \in Seq(Callers)
        /\ place' \in [Callers -> {"idle", "waiting", "pacing", "inflight"}]
        /\ qmonth' \in 1 .. Months /\ spent' \in Nat /\ armed' \in ArmWindows
    BY <1>4, <2>1 DEF Answer, Release, Charge, RapidTypeOK
  <2>3. key[c] \in Keys /\ {} \in SUBSET Keys /\ {key[c]} \in SUBSET Keys
    BY DEF RapidTypeOK
  <2>4. PICK added \in SUBSET Keys : Persist(added)
    BY <1>4, <2>3 DEF Answer
  <2>5. cache' \in SUBSET Keys
    BY <1>4, <2>3 DEF Answer, Remember, RapidTypeOK
  <2>6. disk' \in [m : 0 .. Months, s : Nat, a : ArmWindows] /\ diskKeys' \in SUBSET Keys
        /\ unsaved' \in Nat
    BY <2>2, <2>4, <2>5, PersistOutcome
  <2>7. UNCHANGED <<month, key, sent, lost, windowOver>>
    BY <1>4 DEF Answer
  <2> QED
    BY <2>2, <2>5, <2>6, <2>7 DEF RapidTypeOK
<1>5. ASSUME NEW c \in Callers, Cancel(c)
      PROVE  RapidTypeOK'
  <2>1. waiters' \in Seq(Callers)
    <3>1. \A i \in 1 .. Len(waiters) :
            SubSeq(waiters, 1, i - 1) \o SubSeq(waiters, i + 1, Len(waiters)) \in Seq(Callers)
      BY DEF RapidTypeOK
    <3> QED
      BY <1>5, <3>1 DEF Cancel, RapidTypeOK, Release
  <2>2. place[c] = "inflight" => free = 0
    BY DEF OneSlot, Holds, RapidTypeOK
  <2>3. /\ place' \in [Callers -> {"idle", "waiting", "pacing", "inflight"}]
        /\ free' \in 0 .. 1 /\ lost' \in Nat /\ slotLost' \in BOOLEAN
    <3>1. CASE place[c] = "waiting"
      BY <1>5, <3>1 DEF Cancel, RapidTypeOK
    <3>2. CASE place[c] = "pacing"
      BY <1>5, <3>2 DEF Cancel, RapidTypeOK
    <3>3. CASE place[c] = "inflight"
      BY <1>5, <2>2, <3>3 DEF Cancel, Release, RapidTypeOK
    <3> QED
      BY <1>5, <3>1, <3>2, <3>3 DEF Cancel
  <2>4. UNCHANGED <<month, qmonth, spent, armed, cache, disk, diskKeys, unsaved, key, sent,
                    windowOver>>
    BY <1>5 DEF Cancel, budget, store
  <2> QED
    BY <2>1, <2>3, <2>4 DEF RapidTypeOK
<1>6. CASE Restart
  <2>1. lost' \in Nat /\ unsaved' \in Nat
    BY <1>6, InFlightType DEF Restart, RapidTypeOK
  <2>2. qmonth' \in 1 .. Months /\ spent' \in Nat /\ armed' \in ArmWindows
    BY <1>6 DEF Restart, Resume, RapidTypeOK, ArmWindows
  <2>3. cache' \in SUBSET Keys /\ diskKeys' \in SUBSET Keys /\ disk' = disk
    BY <1>6 DEF Restart, Load, RapidTypeOK
  <2>4. /\ place' \in [Callers -> {"idle", "waiting", "pacing", "inflight"}]
        /\ waiters' \in Seq(Callers) /\ free' \in 0 .. 1 /\ slotLost' \in BOOLEAN
    <3>1. << >> \in Seq(Callers) /\ 1 \in 0 .. 1
      OBVIOUS
    <3>2. place' \in [Callers -> {"idle", "waiting", "pacing", "inflight"}]
      BY <1>6 DEF Restart
    <3> QED
      BY <1>6, <3>1, <3>2 DEF Restart
  <2>6. windowOver' \in BOOLEAN
    BY <1>6, Zenon DEF Restart
  <2>5. UNCHANGED <<month, key, sent>>
    BY <1>6 DEF Restart
  <2> QED
    BY <2>1, <2>2, <2>3, <2>4, <2>5, <2>6 DEF RapidTypeOK
<1>7. ASSUME NEW k \in Keys, ExpireAnswer(k)
      PROVE  RapidTypeOK'
  BY <1>7 DEF RapidTypeOK, ExpireAnswer, budget, limiter
<1>8. CASE ExpireWindow
  <2>1. disk' \in [m : 0 .. Months, s : Nat, a : ArmWindows]
    BY <1>8 DEF ExpireWindow, RapidTypeOK, ArmWindows
  <2>2. armed' \in ArmWindows /\ windowOver' \in BOOLEAN
    BY <1>8 DEF ExpireWindow, RapidTypeOK, ArmWindows
  <2>3. UNCHANGED <<month, qmonth, spent, cache, diskKeys, place, key, limiter, sent, lost, unsaved>>
    BY <1>8 DEF ExpireWindow
  <2> QED
    BY <2>1, <2>2, <2>3 DEF RapidTypeOK, limiter
<1>9. CASE NextMonth
  <2>1. month' \in 1 .. Months
    BY <1>9, RapidApiAssumption DEF RapidTypeOK, NextMonth
  <2>3. sent' \in Nat /\ lost' \in Nat /\ unsaved' \in Nat /\ windowOver' \in BOOLEAN
    BY <1>9 DEF NextMonth
  <2>2. UNCHANGED <<qmonth, spent, armed, cache, disk, diskKeys, place, key, waiters, free, slotLost>>
    BY <1>9 DEF NextMonth, budget, limiter
  <2> QED
    BY <2>1, <2>2, <2>3 DEF RapidTypeOK
<1>10. CASE UNCHANGED rapidVars
  BY <1>10 DEF RapidTypeOK, rapidVars
<1> QED
  BY <1>1, <1>2, <1>3, <1>4, <1>5, <1>6, <1>7, <1>8, <1>9, <1>10 DEF RapidNext

----------------------------------------------------------------------------
(* The slot.                                                               *)

LEMMA SlotStep ==
  ASSUME RapidInv, [RapidNext]_rapidVars
  PROVE  OneSlot'
<1> USE DEF RapidInv, RapidTypeOK, OneSlot, Holds
<1>1. ASSUME NEW c \in Callers, NEW k \in Keys, Ask(c, k)
      PROVE  OneSlot'
  BY <1>1 DEF Ask
<1>2. ASSUME NEW c \in Callers, Acquire(c)
      PROVE  OneSlot'
  BY <1>2 DEF Acquire
<1>3. ASSUME NEW c \in Callers, Request(c)
      PROVE  OneSlot'
  BY <1>3 DEF Request, Release, limiter
<1>4. ASSUME NEW c \in Callers, Answer(c)
      PROVE  OneSlot'
  BY <1>4 DEF Answer, Release
<1>5. ASSUME NEW c \in Callers, Cancel(c)
      PROVE  OneSlot'
  <2>1. CASE place[c] = "waiting"
    BY <1>5, <2>1 DEF Cancel
  <2>2. CASE place[c] = "pacing"
    <3>1. /\ free = 0 /\ free' = free /\ slotLost' = TRUE
          /\ \A d \in Callers : ~Holds(d)'
      BY <1>5, <2>2 DEF Cancel
    <3> QED
      BY <3>1
  <2>3. CASE place[c] = "inflight"
    BY <1>5, <2>3 DEF Cancel, Release
  <2> QED
    BY <1>5, <2>1, <2>2, <2>3 DEF Cancel
<1>6. CASE Restart
  BY <1>6 DEF Restart
<1>7. CASE UNCHANGED <<place, limiter>>
  BY <1>7 DEF limiter
<1> QED
  BY <1>1, <1>2, <1>3, <1>4, <1>5, <1>6, <1>7
     DEF RapidNext, ExpireAnswer, ExpireWindow, NextMonth, rapidVars, limiter

----------------------------------------------------------------------------
(* The money and the window: steps that touch the budget.                  *)

(* Check leaves a current counter that is covered on disk as before, and   *)
(* an armed window that is saved unless its write was refused.             *)
LEMMA CheckOutcome ==
  ASSUME RapidInv, Check, UNCHANGED <<month, windowOver, lost>>
  PROVE  /\ qmonth' = month /\ spent' = CurrentSpent /\ SpentSaved' /\ Window'
         /\ armed' = "expired" \/ ~windowOver
<1> USE DEF RapidInv
<1>1. qmonth' = month /\ spent' = CurrentSpent /\ armed' # "no"
  BY DEF Check, Roll, CurrentArm
<1>2. /\ qmonth' \in 1 .. Months /\ spent' \in Nat /\ armed' \in ArmWindows
      /\ cache' \in SUBSET Keys
  BY CheckType
<1>3. windowOver => armed' = "expired"
  BY DEF Window, WindowKnown, Check, Roll, CurrentArm
<1>4. CASE CurrentArm = "no"
  <2>1. \/ disk' = [m |-> qmonth', s |-> spent', a |-> armed'] /\ unsaved' = 0
        \/ disk' = disk /\ unsaved' = unsaved + 1
    BY <1>2, <1>4, PersistOutcome DEF Check
  <2>2. CASE disk' = [m |-> qmonth', s |-> spent', a |-> armed'] /\ unsaved' = 0
    BY <1>1, <1>2, <1>3, <2>2
       DEF SpentSaved, DiskSpent, Window, ArmSaved, WindowKnown, RapidTypeOK
  <2>3. CASE disk' = disk /\ unsaved' = unsaved + 1
    <3>1. spent' <= DiskSpent + unsaved
      BY <1>1, <2>3 DEF CurrentSpent, Money, SpentSaved, DiskSpent, RapidTypeOK
    <3>2. SpentSaved'
      BY <1>1, <1>2, <2>3, <3>1 DEF SpentSaved, DiskSpent, RapidTypeOK
    <3> QED
      BY <1>1, <1>3, <2>3, <3>2 DEF Window, ArmSaved, WindowKnown, RapidTypeOK
  <2> QED
    BY <2>1, <2>2, <2>3
<1>5. CASE CurrentArm # "no"
  <2>1. qmonth = month /\ spent' = spent /\ armed' = armed /\ UNCHANGED <<disk, unsaved>>
    BY <1>5 DEF Check, Roll, CurrentArm, CurrentSpent
  <2> QED
    BY <1>1, <1>3, <2>1 DEF Money, SpentSaved, DiskSpent, Window, ArmSaved, WindowKnown
<1> QED
  BY <1>1, <1>3, <1>4, <1>5

LEMMA RequestStep ==
  ASSUME RapidInv, NEW c \in Callers, Request(c)
  PROVE  Money' /\ Window' /\ (sent' > sent => ~windowOver)
<1> USE DEF RapidInv
<1>1. /\ qmonth' = month /\ spent' = CurrentSpent /\ SpentSaved' /\ Window'
      /\ armed' = "expired" \/ ~windowOver
  BY CheckOutcome DEF Request
<1>2. InFlight = 0
  BY PacingAlone DEF Request
<1>3. spent' \in Nat /\ InFlight' \in 0 .. 1
  BY CheckType, InFlightType DEF Request, InFlight
<1>4. UNCHANGED <<month, lost>>
  BY DEF Request
<1>5. sent <= spent' + lost
  BY <1>1, <1>2, <1>3 DEF Money, Accounted, RapidTypeOK
<1>6. CASE Allowed /\ place' = [place EXCEPT ![c] = "inflight"] /\ sent' = sent + 1
  <2>1. InFlight' = 1
    BY <1>6 DEF InFlight, RapidTypeOK
  <2>2. Accounted' /\ SpendBounded'
    BY <1>1, <1>3, <1>4, <1>5, <1>6, <2>1, RapidApiAssumption
       DEF Accounted, SpendBounded, CurrentSpent, Allowed, RapidTypeOK
  <2> QED
    BY <1>1, <1>4, <1>6, <2>2 DEF Money, MonthBehind, Allowed, RapidTypeOK
<1>7. CASE sent' = sent
  <2>1. Accounted'
    <3>1. sent' <= spent' + InFlight' + lost'
      <4>1. sent' <= spent' + lost' /\ sent' \in Nat /\ lost' \in Nat
        BY <1>4, <1>5, <1>7 DEF RapidTypeOK
      <4>2. spent' \in Nat /\ InFlight' \in Nat
        BY <1>3
      <4>3. \A a, b, d, e \in Nat : a <= b + d => a <= b + e + d
        OBVIOUS
      <4> QED
        BY <4>1, <4>2, <4>3
    <3>2. CurrentSpent' = spent'
      BY <1>1, <1>4 DEF CurrentSpent
    <3> QED
      BY <3>1, <3>2 DEF Accounted
  <2>2. SpendBounded'
    BY <1>4, <1>7 DEF Money, SpendBounded
  <2> QED
    BY <1>1, <1>4, <1>7, <2>1, <2>2 DEF Money, MonthBehind, RapidTypeOK
<1> QED
  BY <1>6, <1>7 DEF Request

LEMMA AnswerStep ==
  ASSUME RapidInv, NEW c \in Callers, Answer(c)
  PROVE  Money' /\ Window'
<1> USE DEF RapidInv
<1>1. /\ spent' = spent + 1
      /\ UNCHANGED <<month, qmonth, armed, sent, lost, windowOver>>
  BY DEF Answer, Charge
<1>2. InFlight = 1 /\ InFlight' = 0
  BY InFlightAlone DEF Answer, Release
<1>3. \/ disk' = [m |-> qmonth', s |-> spent', a |-> armed'] /\ unsaved' = 0
      \/ disk' = disk /\ unsaved' = unsaved + 1
  <2>1. key[c] \in Keys /\ {} \in SUBSET Keys /\ {key[c]} \in SUBSET Keys
    BY DEF RapidTypeOK
  <2>2. PICK added \in SUBSET Keys : Persist(added)
    BY <2>1 DEF Answer
  <2>3. cache' \in SUBSET Keys
    BY <2>1 DEF Answer, Remember, RapidTypeOK
  <2> QED
    BY <1>1, <2>2, <2>3, PersistOutcome DEF RapidTypeOK
<1>4. MonthBehind' /\ SpendBounded'
  BY <1>1 DEF Money, MonthBehind, SpendBounded
<1>5. Accounted'
  BY <1>1, <1>2 DEF Money, MonthBehind, Accounted, CurrentSpent, RapidTypeOK
<1>6. SpentSaved' /\ Window'
  <2>1. CASE disk' = [m |-> qmonth', s |-> spent', a |-> armed'] /\ unsaved' = 0
    BY <1>1, <2>1 DEF SpentSaved, DiskSpent, Window, ArmSaved, WindowKnown, RapidTypeOK
  <2>2. CASE disk' = disk /\ unsaved' = unsaved + 1
    BY <1>1, <2>2
       DEF Money, SpentSaved, DiskSpent, Window, ArmSaved, WindowKnown, RapidTypeOK
  <2> QED
    BY <1>3, <2>1, <2>2
<1> QED
  BY <1>4, <1>5, <1>6 DEF Money

LEMMA CancelStep ==
  ASSUME RapidInv, NEW c \in Callers, Cancel(c)
  PROVE  Money' /\ Window'
<1> USE DEF RapidInv
<1>1. UNCHANGED <<month, qmonth, spent, armed, disk, unsaved, sent, windowOver>>
  BY DEF Cancel, budget, store
<1>2. Window' /\ SpentSaved' /\ MonthBehind'
  BY <1>1 DEF Money, Window, ArmSaved, WindowKnown, SpentSaved, DiskSpent, MonthBehind
<1>3. \/ lost' = lost /\ InFlight' = InFlight
      \/ lost' = lost + 1 /\ InFlight = 1 /\ InFlight' = 0
  <2>1. CASE place[c] = "waiting" \/ place[c] = "pacing"
    BY <2>1 DEF Cancel, InFlight, RapidTypeOK
  <2>2. CASE place[c] = "inflight"
    BY <2>2, InFlightAlone DEF Cancel, Release
  <2> QED
    BY <2>1, <2>2 DEF Cancel
<1>4. Accounted' /\ SpendBounded'
  BY <1>1, <1>3, InFlightType, RapidApiAssumption
     DEF Money, Accounted, SpendBounded, CurrentSpent, RapidTypeOK
<1> QED
  BY <1>2, <1>4 DEF Money

LEMMA RestartStep ==
  ASSUME RapidInv, Restart
  PROVE  Money' /\ Window'
<1> USE DEF RapidInv
<1>1. /\ qmonth' = month /\ spent' = DiskSpent /\ disk' = disk
      /\ UNCHANGED <<month, sent>>
      /\ lost' = lost + unsaved + InFlight /\ unsaved' = 0
  BY DEF Restart, Resume, Load, DiskSpent
<1>2. InFlight' = 0
  BY DEF Restart, InFlight
<1>3. DiskSpent \in Nat
  BY DEF DiskSpent, RapidTypeOK
<1>4. sent <= DiskSpent + lost'
  <2>1. CASE qmonth = month
    BY <1>1, <1>3, <2>1, InFlightType DEF Money, Accounted, SpentSaved, CurrentSpent, RapidTypeOK
  <2>2. CASE qmonth # month
    BY <1>1, <1>3, <2>2, InFlightType DEF Money, MonthBehind, RapidTypeOK
  <2> QED
    BY <2>1, <2>2
<1>5. Money'
  <2>1. MonthBehind' /\ SpentSaved'
    BY <1>1, <1>3 DEF MonthBehind, SpentSaved, DiskSpent, RapidTypeOK
  <2>2. Accounted'
    BY <1>1, <1>2, <1>3, <1>4, InFlightType DEF Accounted, CurrentSpent, RapidTypeOK
  <2>3. SpendBounded'
    BY <1>1, InFlightType, RapidApiAssumption DEF Money, SpendBounded, RapidTypeOK
  <2> QED
    BY <2>1, <2>2, <2>3 DEF Money
<1>6. Window'
  BY <1>1 DEF Restart, Resume, Window, ArmSaved, WindowKnown
<1> QED
  BY <1>5, <1>6

LEMMA MoneyStep ==
  ASSUME RapidInv, [RapidNext]_rapidVars
  PROVE  Money' /\ Window'
<1> USE DEF RapidInv
<1>1. ASSUME NEW c \in Callers, Request(c)
      PROVE  Money' /\ Window'
  BY <1>1, RequestStep
<1>2. ASSUME NEW c \in Callers, Answer(c)
      PROVE  Money' /\ Window'
  BY <1>2, AnswerStep
<1>3. ASSUME NEW c \in Callers, Cancel(c)
      PROVE  Money' /\ Window'
  BY <1>3, CancelStep
<1>4. CASE Restart
  BY <1>4, RestartStep
<1>5. CASE ExpireWindow
  <2>1. /\ UNCHANGED <<month, qmonth, spent, place, sent, lost, unsaved>>
        /\ disk'.m = disk.m /\ disk'.s = disk.s
    BY <1>5 DEF ExpireWindow, limiter, RapidTypeOK
  <2>2. Money'
    BY <2>1 DEF Money, MonthBehind, Accounted, SpentSaved, SpendBounded, CurrentSpent,
                DiskSpent, InFlight
  <2>3. Window'
    BY <1>5, <2>1 DEF ExpireWindow, Window, ArmSaved, WindowKnown, RapidTypeOK
  <2> QED
    BY <2>2, <2>3
<1>6. CASE NextMonth
  BY <1>6, InFlightType, RapidApiAssumption
     DEF NextMonth, budget, limiter, Money, MonthBehind, Accounted, SpentSaved, SpendBounded,
         CurrentSpent, InFlight, Window, ArmSaved, WindowKnown, RapidTypeOK
<1>7. ASSUME UNCHANGED <<month, budget, disk, unsaved, sent, lost, windowOver>>,
             InFlight' = InFlight
      PROVE  Money' /\ Window'
  BY <1>7 DEF budget, Money, MonthBehind, Accounted, SpentSaved, SpendBounded, CurrentSpent,
              DiskSpent, Window, ArmSaved, WindowKnown
<1>8. ASSUME NEW c \in Callers, NEW k \in Keys, Ask(c, k)
      PROVE  Money' /\ Window'
  <2>1. InFlight' = InFlight
    BY <1>8 DEF Ask, InFlight, RapidTypeOK
  <2> QED
    BY <1>7, <1>8, <2>1 DEF Ask, store
<1>9. ASSUME NEW c \in Callers, Acquire(c)
      PROVE  Money' /\ Window'
  <2>1. InFlight' = InFlight
    BY <1>9 DEF Acquire, InFlight, RapidTypeOK, OneSlot, Holds
  <2> QED
    BY <1>7, <1>9, <2>1 DEF Acquire, store
<1>10. ASSUME NEW k \in Keys, ExpireAnswer(k)
       PROVE  Money' /\ Window'
  BY <1>7, <1>10 DEF ExpireAnswer, InFlight
<1>11. CASE UNCHANGED rapidVars
  BY <1>7, <1>11 DEF rapidVars, budget, InFlight
<1> QED
  BY <1>1, <1>2, <1>3, <1>4, <1>5, <1>6, <1>8, <1>9, <1>10, <1>11 DEF RapidNext

----------------------------------------------------------------------------
(* The invariant that carries the three properties.                        *)
THEOREM RapidInductive == RapidSpec => []RapidInv
<1>1. RapidInv /\ [RapidNext]_rapidVars => RapidInv'
  BY TypeStep, SlotStep, MoneyStep DEF RapidInv
<1> QED
  BY <1>1, RapidInitInv, PTL DEF RapidSpec

(* No month bills more than the allowance, losses aside.                   *)
THEOREM Spending == RapidSpec => []SpendBounded
<1>1. RapidInv => SpendBounded
  BY DEF RapidInv, Money
<1> QED
  BY <1>1, RapidInductive, PTL

(* The slot has one owner at most and is never given back twice.           *)
THEOREM Slot == RapidSpec => []OneSlot
<1>1. RapidInv => OneSlot
  BY DEF RapidInv
<1> QED
  BY <1>1, RapidInductive, PTL

(* An expired window stays closed for its month, across restarts.          *)
THEOREM WindowClosed == RapidSpec => OneWindowPerMonth
<1>1. ASSUME RapidInv, [RapidNext]_rapidVars
      PROVE  [sent' > sent => ~windowOver]_rapidVars
  <2>1. ASSUME NEW c \in Callers, Request(c)
        PROVE  sent' > sent => ~windowOver
    BY <1>1, <2>1, RequestStep
  <2>2. ASSUME RapidNext, ~ \E c \in Callers : Request(c), sent \in Nat
        PROVE  ~(sent' > sent)
    <3>1. sent' = sent \/ sent' = 0
      BY <2>2 DEF RapidNext, Ask, Acquire, Answer, Cancel, Restart, ExpireAnswer, ExpireWindow,
                  NextMonth
    <3> QED
      BY <2>2, <3>1
  <2>3. sent \in Nat
    BY <1>1 DEF RapidInv, RapidTypeOK
  <2> QED
    BY <1>1, <2>1, <2>2, <2>3 DEF rapidVars
<1> QED
  BY <1>1, RapidInductive, PTL DEF RapidSpec, OneWindowPerMonth

-----------------------------------------------------------------------------
(* AlertPaging.  The order of the pages.                                   *)
LEMMA LaterIsOrder ==
  /\ \A a \in Alerts : ~Later(a, a)
  /\ \A a, b \in Alerts : a = b \/ Later(a, b) \/ Later(b, a)
  /\ \A a, b, c \in Alerts : Later(a, b) /\ Later(b, c) => Later(a, c)
<1>1. \A a \in Alerts : a \in Nat /\ At[a] \in Nat
  BY PagingAssumption
<1> QED BY <1>1 DEF Later

Sorted(h) == \A i, j \in 1 .. Len(h) : i < j => Later(h[j], h[i])

(* The order as a relation, for the ranks of DataLemmas.                   *)
LaterFirst == {xy \in Alerts \X Alerts : Later(xy[2], xy[1])}

LEMMA InOrderIs ==
  ASSUME NEW S \in SUBSET Alerts
  PROVE  /\ InOrder(S) \in Seq(S) /\ Len(InOrder(S)) = Cardinality(S)
         /\ ToSet(InOrder(S)) = S /\ Sorted(InOrder(S))
<1> DEFINE s == InOrder(S)
<1>1. \A a, b \in S : <<a, b>> \in LaterFirst <=> Later(b, a)
  BY DEF LaterFirst
<1>2. IsFiniteSet(S) /\ Orders(LaterFirst, S)
  <2>1. IsFiniteSet(S)
    BY PagingAssumption, FS_Subset
  <2> QED BY <1>1, <2>1, LaterIsOrder DEF Orders
<1>3. s = [i \in 1 .. Cardinality(S) |->
            CHOOSE a \in S : Cardinality({b \in S : Later(a, b)}) = i - 1]
  BY DEF InOrder
<1> HIDE DEF s
<1>4. ASSUME NEW a \in S PROVE RankOf(a, LaterFirst, S) = Cardinality({b \in S : Later(a, b)})
  <2>1. Below(a, LaterFirst, S) = {b \in S : Later(a, b)}
    BY <1>1 DEF Below
  <2> QED BY <2>1 DEF RankOf
<1>5. ASSUME NEW i \in 1 .. Cardinality(S) PROVE s[i] \in S /\ RankOf(s[i], LaterFirst, S) = i - 1
  <2>1. \E a \in S : Cardinality({b \in S : Later(a, b)}) = i - 1
    BY <1>2, <1>4, RanksFilled
  <2>2. s[i] \in S /\ Cardinality({b \in S : Later(s[i], b)}) = i - 1
    BY <1>3, <2>1
  <2> QED BY <1>4, <2>2
<1>6. ByRank(s, LaterFirst, S)
  <2>1. s \in [1 .. Cardinality(S) -> S]
    BY <1>3, <1>5
  <2> QED BY <1>5, <2>1 DEF ByRank
<1>7. /\ s \in Seq(S) /\ Len(s) = Cardinality(S) /\ ToSet(s) = S
      /\ \A i, j \in 1 .. Len(s) : i < j => <<s[i], s[j]>> \in LaterFirst
  BY <1>2, <1>6, RanksSorted
<1>8. Sorted(s)
  BY <1>7 DEF Sorted, LaterFirst
<1> QED BY <1>7, <1>8 DEF s

LEMMA LesserIs ==
  ASSUME NEW a \in Int, NEW b \in Int
  PROVE  Min({a, b}) \in {a, b} /\ Min({a, b}) <= a /\ Min({a, b}) <= b
<1>1. \E x \in {a, b} : \A y \in {a, b} : x <= y
  BY LeastOfFinite, FS_AddElement, FS_EmptySet
<1> QED BY <1>1 DEF Min

(* What follows a cursor, in order; and a sequence that is the beginning   *)
(* of that, except for alerts that came later than the walk.               *)
ToCome(c) == {a \in Alerts : c = NoCursor \/ Later(a, c)}
Begins(h, S) ==
  /\ h \in Seq(Alerts) /\ Sorted(h)
  /\ \A a \in S \ ToSet(h) : \A i \in 1 .. Len(h) : Later(a, h[i])

LEMMA HitsBegin ==
  ASSUME index \in SUBSET Alerts, NEW tool, tool # "alerts", NEW c, NEW size \in Nat
  PROVE  LET h == Hits(tool, c, size)
             S == index \cap ToCome(c)
         IN  /\ Begins(h, S) /\ ToSet(h) \subseteq S /\ Len(h) <= size /\ Len(h) \in Nat
             /\ Len(h) < size => ToSet(h) = S
<1> DEFINE S == index \cap ToCome(c)
           s == InOrder(S)
           m == Min({size, Len(s)})
           h == SubSeq(s, 1, m)
<1>1. Hits(tool, c, size) = h
  <2>1. After(tool, c) = S
    BY DEF After, ToCome
  <2> QED BY <2>1 DEF Hits
<1>2. /\ s \in Seq(Alerts) /\ s \in Seq(S) /\ ToSet(s) = S /\ Sorted(s) /\ Len(s) \in Nat
      /\ \A i \in 1 .. Len(s) : s[i] \in S
  <2>1. S \in SUBSET Alerts
    BY DEF ToCome
  <2> HIDE DEF S
  <2>2. s \in Seq(S) /\ ToSet(s) = S /\ Sorted(s)
    BY <2>1, InOrderIs
  <2>3. Len(s) \in Nat /\ \A i \in 1 .. Len(s) : s[i] \in S
    BY <2>2, LenProperties, ElementsIs
  <2>4. s \in Seq(Alerts)
    <3>1. s = [i \in 1 .. Len(s) |-> s[i]] /\ \A i \in 1 .. Len(s) : s[i] \in Alerts
      BY <2>1, <2>2, <2>3
    <3> QED BY <2>3, <3>1, SeqDef
  <2> QED BY <2>2, <2>3, <2>4
<1> HIDE DEF S, s
<1>3. m \in 0 .. Len(s) /\ m <= size /\ (m < size => m = Len(s))
  <2>1. size \in Int /\ Len(s) \in Int
    BY <1>2
  <2>2. m \in {size, Len(s)} /\ m <= size /\ m <= Len(s)
    BY <2>1, LesserIs
  <2> HIDE DEF m
  <2> QED BY <1>2, <2>2
<1> HIDE DEF m
<1>4. h \in Seq(Alerts) /\ Len(h) = m /\ \A i \in 1 .. m : h[i] = s[i]
  <2>1. \A i \in 1 .. m : s[i] \in Alerts
    BY <1>2, <1>3, ElementsIs, LenProperties
  <2>2. Len(h) = m /\ h \in Seq(Alerts)
    BY <1>2, <1>3, ElementsOfParts
  <2>3. \A i \in 1 .. m : h[i] = s[i]
    BY <1>2, <1>3, <2>1, SubSeqProperties
  <2> QED BY <2>2, <2>3
<1> HIDE DEF h
<1>5. ToSet(h) = {s[i] : i \in 1 .. m}
  BY <1>4, ElementsIs
<1>6. ToSet(s) = {s[i] : i \in 1 .. Len(s)}
  BY <1>2, ElementsIs
<1>7. Begins(h, S)
  <2>1. Sorted(h)
    BY <1>2, <1>3, <1>4 DEF Sorted
  <2>2. ASSUME NEW a \in S \ ToSet(h), NEW i \in 1 .. m PROVE Later(a, h[i])
    <3>1. PICK j \in 1 .. Len(s) : a = s[j]
      BY <1>2, <1>6
    <3>2. j \notin 1 .. m
      BY <1>5, <3>1
    <3>3. i \in 1 .. Len(s) /\ i < j
      BY <1>2, <1>3, <3>2
    <3> QED BY <1>2, <1>4, <3>1, <3>3 DEF Sorted
  <2> QED BY <1>4, <2>1, <2>2 DEF Begins
<1>8. ToSet(h) \subseteq S /\ Len(h) <= size /\ Len(h) \in Nat /\ (Len(h) < size => ToSet(h) = S)
  BY <1>2, <1>3, <1>4, <1>5, <1>6
<1> QED BY <1>1, <1>7, <1>8 DEF S

LEMMA FitPrefixType ==
  ASSUME NEW h \in Seq(Alerts)
  PROVE  FitPrefix(h) \in 0 .. Len(h)
<1> DEFINE T == {k \in 0 .. Len(h) : FitsAnswer(h, k)}
<1>1. Len(h) \in Nat /\ Room \in Nat
  BY PagingAssumption, LenProperties
<1>2. 0 \in T
  BY <1>1 DEF FitsAnswer
<1>3. T \in SUBSET (0 .. Len(h)) /\ IsFiniteSet(0 .. Len(h))
  BY <1>1, FS_Interval
<1> HIDE DEF T
<1>4. IsFiniteSet(T) /\ T \subseteq Int
  <2>1. IsFiniteSet(T)
    BY <1>3, FS_Subset
  <2> QED BY <1>1, <1>3, <2>1
<1>5. \E x \in T : \A y \in T : x >= y
  BY <1>2, <1>4, LeastOfFinite
<1>6. Max(T) \in T
  BY <1>5 DEF Max
<1> QED BY <1>3, <1>6 DEF FitPrefix, T

(* What an answer must tell for the walk to go on from its cursor.         *)
Presented(page) == page.shows \cup page.lists
Uncounted == walk.tool = "search" /\ Cardinality(index) > TotalCap
PageOK(page, S) ==
  /\ Presented(page) \subseteq ToCome(walk.cursor) \cap index
  /\ page.next = NoCursor => Uncounted \/ S \subseteq Presented(page)
  /\ page.next # NoCursor => /\ page.next \in ToCome(walk.cursor)
                             /\ S \ ToCome(page.next) \subseteq Presented(page)
                             /\ Presented(page) \cap ToCome(page.next) = {}

LEMMA TurnAt ==
  ASSUME NEW S, S \subseteq ToCome(walk.cursor), NEW h, Begins(h, S),
         ToSet(h) \subseteq ToCome(walk.cursor) \cap index,
         NEW m \in 1 .. Len(h), NEW page, Presented(page) = {h[i] : i \in 1 .. m}, page.next = h[m]
  PROVE  PageOK(page, S)
<1>1. /\ h \in Seq(Alerts) /\ Len(h) \in Nat /\ ToSet(h) = {h[i] : i \in 1 .. Len(h)}
      /\ \A i \in 1 .. Len(h) : h[i] \in Alerts
  BY ElementsIs, LenProperties DEF Begins
<1>2. h[m] \in ToCome(walk.cursor) /\ h[m] \in Alerts
  BY <1>1
<1>3. h[m] # NoCursor
  BY <1>2, PagingAssumption DEF NoCursor
<1>4. Presented(page) \subseteq ToSet(h)
  BY <1>1
<1>5. ASSUME NEW a \in S \ ToCome(h[m]) PROVE a \in Presented(page)
  <2>1. a \in Alerts /\ ~Later(a, h[m])
    BY <1>3, <1>5 DEF ToCome
  <2>2. a \in ToSet(h)
    BY <2>1, <1>5 DEF Begins
  <2>3. PICK j \in 1 .. Len(h) : a = h[j]
    BY <1>1, <2>2
  <2>4. ~ (m < j)
    BY <2>1, <2>3 DEF Begins, Sorted
  <2>5. j \in 1 .. m
    BY <1>1, <2>4
  <2> QED BY <2>3, <2>5
<1>6. ASSUME NEW i \in 1 .. m PROVE h[i] \notin ToCome(h[m])
  <2>1. i = m \/ i < m
    BY <1>1
  <2>2. h[i] \in Alerts /\ i \in 1 .. Len(h)
    BY <1>1
  <2>3. i < m => Later(h[m], h[i])
    BY <2>2 DEF Begins, Sorted
  <2>4. ~Later(h[i], h[m])
    BY <1>2, <2>1, <2>2, <2>3, LaterIsOrder
  <2> QED BY <1>3, <2>4 DEF ToCome
<1> QED BY <1>2, <1>3, <1>4, <1>5, <1>6 DEF PageOK

LEMMA TurnAll ==
  ASSUME NEW S, S \subseteq ToCome(walk.cursor), NEW h, Begins(h, S),
         ToSet(h) \subseteq ToCome(walk.cursor) \cap index,
         NEW page, Presented(page) = ToSet(h),
         \/ h # <<>> /\ page.next = Last(h)
         \/ page.next = NoCursor /\ (Uncounted \/ S \subseteq ToSet(h))
  PROVE  PageOK(page, S)
<1>1. CASE page.next = NoCursor /\ (Uncounted \/ S \subseteq ToSet(h))
  BY <1>1 DEF PageOK
<1>2. CASE h # <<>> /\ page.next = Last(h)
  <2>1. Len(h) \in 1 .. Len(h) /\ ToSet(h) = {h[i] : i \in 1 .. Len(h)} /\ Last(h) = h[Len(h)]
    <3>1. h \in Seq(Alerts) /\ Len(h) \in Nat
      BY LenProperties DEF Begins
    <3> QED BY <1>2, <3>1, ElementsIs DEF Last
  <2> QED BY <1>2, <2>1, TurnAt
<1> QED BY <1>1, <1>2

LEMMA TurnPrefix ==
  ASSUME NEW S, S \subseteq ToCome(walk.cursor), NEW h, Begins(h, S),
         ToSet(h) \subseteq ToCome(walk.cursor) \cap index,
         NEW k \in 0 .. Len(h), NEW rest,
         \/ h # <<>> /\ rest = Last(h)
         \/ rest = NoCursor /\ (Uncounted \/ S \subseteq ToSet(h))
  PROVE  PageOK(Prefix(h, k, rest), S)
<1> DEFINE page == Prefix(h, k, rest)
<1> SUFFICES PageOK(page, S)
  OBVIOUS
<1>1. /\ h \in Seq(Alerts) /\ Len(h) \in Nat /\ ToSet(h) = {h[i] : i \in 1 .. Len(h)}
      /\ h # <<>> => Len(h) >= 1
      /\ h = <<>> => Len(h) = 0
  BY ElementsIs, LenProperties DEF Begins
<1>2. ToSet(SubSeq(h, 1, k)) = {h[i] : i \in 1 .. k}
  <2> DEFINE t == SubSeq(h, 1, k)
  <2>1. Len(t) = k /\ t \in Seq(Alerts)
    BY <1>1, ElementsOfParts
  <2>2. \A i \in 1 .. k : h[i] \in Alerts
    BY <1>1, LenProperties
  <2>3. \A i \in 1 .. k : t[i] = h[i]
    BY <1>1, <2>2, SubSeqProperties
  <2> HIDE DEF t
  <2>4. ToSet(t) = {t[i] : i \in 1 .. k}
    BY <2>1, ElementsIs
  <2> QED BY <2>3, <2>4 DEF t
<1>3. CASE k < Len(h)
  <2> DEFINE m == IF k > 0 THEN k ELSE 1
  <2>1. m \in 1 .. Len(h) /\ h # <<>>
    BY <1>1, <1>3
  <2>2. Presented(page) = {h[i] : i \in 1 .. m}
    <3>1. Presented(page) = {h[i] : i \in 1 .. k} \cup (IF k = 0 THEN {h[1]} ELSE {})
      BY <1>2, <2>1 DEF Prefix, Presented
    <3>2. CASE k = 0
      BY <3>1, <3>2
    <3>3. CASE k > 0
      BY <3>1, <3>3
    <3> QED BY <3>2, <3>3
  <2>3. page.next = h[m]
    BY <1>3 DEF Prefix, Boundary
  <2> HIDE DEF m, page
  <2> QED BY <2>1, <2>2, <2>3, TurnAt
<1>4. CASE k = Len(h)
  <2>1. Presented(page) = ToSet(h)
    BY <1>1, <1>2, <1>4 DEF Prefix, Presented
  <2>2. page.next = rest
    BY <1>1, <1>4 DEF Prefix
  <2> HIDE DEF page
  <2> QED BY <2>1, <2>2, TurnAll
<1> QED BY <1>1, <1>3, <1>4

-----------------------------------------------------------------------------
(* The walks of which NothingLeftOut speaks.  Whatever was there at the    *)
(* beginning and is not ahead of the cursor has been told, and nothing     *)
(* that is ahead of it; a scan is the beginning of what is ahead.          *)
WholeTools == {"search", "crawl", "domain"}
Due == walk.base \cap ToCome(walk.cursor)
WalkShape ==
  walk = [tool |-> walk.tool, state |-> walk.state, cursor |-> walk.cursor, scan |-> walk.scan,
          shown |-> walk.shown, listed |-> walk.listed, again |-> walk.again, base |-> walk.base,
          capped |-> walk.capped]
Underway ==
  /\ walk.cursor \in Alerts \cup {NoCursor} /\ ~walk.again
  /\ walk.base \ ToCome(walk.cursor) \subseteq walk.shown \cup walk.listed
  /\ (walk.shown \cup walk.listed) \cap ToCome(walk.cursor) = {}
Scanned ==
  /\ walk.tool = "search" /\ walk.scan # <<>> /\ Len(walk.scan) < MaxScan
  /\ Begins(walk.scan, Due) /\ ToSet(walk.scan) \subseteq ToCome(walk.cursor) \cap index
WalkInv ==
  /\ WalkShape /\ index \in SUBSET Alerts /\ walk.base \subseteq index
  /\ walk.tool \in WholeTools =>
       /\ walk.state \in {"walking", "scanning"} => Underway
       /\ walk.state = "walking" => walk.scan = <<>>
       /\ walk.state = "scanning" => Scanned
  /\ NothingLeftOut

LEMMA WalkStarts == PagingInit => WalkInv
<1> SUFFICES ASSUME PagingInit PROVE WalkInv
  OBVIOUS
<1>1. index \in SUBSET Alerts /\ walk = NoWalk
  BY DEF PagingInit
<1>2. walk.tool = "none" /\ walk.state = "idle" /\ walk.base = {} /\ WalkShape
  BY <1>1 DEF NoWalk, WalkShape
<1> QED BY <1>1, <1>2 DEF WalkInv, WholeTools, NothingLeftOut

LEMMA ArriveKeeps ==
  ASSUME WalkInv, NEW a \in Alerts, Arrive(a)
  PROVE  WalkInv'
<1>1. walk' = walk /\ index' = index \cup {a}
  BY DEF Arrive
<1>2. WalkShape' /\ (Underway <=> Underway') /\ (NothingLeftOut <=> NothingLeftOut')
  BY <1>1 DEF WalkInv, WalkShape, Underway, NothingLeftOut, ToCome
<1>3. Scanned => Scanned'
  BY <1>1 DEF Scanned, Due, ToCome, Begins, Sorted
<1> QED BY <1>1, <1>2, <1>3 DEF WalkInv

(* A window that slides takes alerts out of the base of the walk, too.     *)
LEMMA SlideKeeps ==
  ASSUME WalkInv, Slide
  PROVE  WalkInv'
<1>1. /\ walk.state = "walking" /\ index' \subseteq index /\ WalkShape
      /\ walk' = [walk EXCEPT !.base = @ \cap index']
  BY DEF Slide, WalkInv
<1>2. /\ WalkShape' /\ walk'.tool = walk.tool /\ walk'.base = walk.base \cap index'
      /\ walk'.cursor = walk.cursor /\ walk'.state = "walking" /\ walk'.scan = walk.scan
      /\ walk'.shown = walk.shown /\ walk'.listed = walk.listed /\ walk'.again = walk.again
  BY <1>1 DEF WalkShape
<1>3. Underway => Underway'
  BY <1>2 DEF Underway, ToCome
<1>4. NothingLeftOut'
  BY <1>2 DEF NothingLeftOut
<1> QED BY <1>1, <1>2, <1>3, <1>4 DEF WalkInv

LEMMA BeginKeeps ==
  ASSUME WalkInv, NEW tool \in PagingTools, BeginWalk(tool)
  PROVE  WalkInv'
<1>1. /\ index' = index /\ walk'.base = index /\ walk'.state = "walking" /\ walk'.scan = <<>>
      /\ walk'.shown = {} /\ walk'.listed = {} /\ walk'.cursor = NoCursor /\ walk'.again = FALSE
      /\ WalkShape'
  BY DEF BeginWalk, NoWalk, WalkShape
<1>2. index \subseteq ToCome(NoCursor)
  BY DEF WalkInv, ToCome
<1>3. Underway'
  BY <1>1, <1>2 DEF Underway, ToCome
<1> QED BY <1>1, <1>3 DEF WalkInv, NothingLeftOut

LEMMA ReceiveIs ==
  ASSUME WalkShape, NEW page, Receive(page)
  PROVE  /\ WalkShape' /\ walk'.tool = walk.tool /\ walk'.base = walk.base
         /\ walk'.state = (IF page.next = NoCursor THEN "ended" ELSE "walking")
         /\ walk'.cursor = page.next /\ walk'.scan = <<>>
         /\ walk'.shown = walk.shown \cup page.shows
         /\ walk'.listed = walk.listed \cup page.lists
         /\ walk'.capped = (walk.capped \/ (walk.tool = "search" /\ Cardinality(index) > TotalCap))
         /\ walk'.again = (walk.again \/ page.shows \cap (walk.shown \cup walk.listed) # {})
BY DEF WalkShape, Receive

LEMMA ReceiveKeeps ==
  ASSUME WalkInv, walk.tool \in WholeTools, walk.state \in {"walking", "scanning"},
         NEW page, PageOK(page, Due), Receive(page), index' = index
  PROVE  WalkInv'
<1>1. Underway /\ WalkShape /\ index \in SUBSET Alerts /\ walk.base \subseteq index
  BY DEF WalkInv
<1>2. ~walk'.again
  <2>1. page.shows \subseteq ToCome(walk.cursor)
    BY DEF PageOK, Presented
  <2> QED BY <1>1, <2>1, ReceiveIs DEF Underway
<1>3. walk'.shown \cup walk'.listed = walk.shown \cup walk.listed \cup Presented(page)
  BY <1>1, ReceiveIs DEF Presented
<1>4. CASE page.next = NoCursor
  <2>1. walk'.state = "ended"
    BY <1>1, <1>4, ReceiveIs
  <2>2. ~walk'.capped => walk'.base \subseteq walk'.shown \cup walk'.listed
    <3>1. SUFFICES ASSUME ~walk'.capped PROVE walk'.base \subseteq walk'.shown \cup walk'.listed
      OBVIOUS
    <3>2. ~Uncounted /\ walk'.base = walk.base
      BY <1>1, <3>1, ReceiveIs DEF Uncounted
    <3>3. Due \subseteq Presented(page)
      BY <1>4, <3>2 DEF PageOK
    <3> QED BY <1>1, <1>3, <3>2, <3>3 DEF Underway, Due
  <2>3. NothingLeftOut'
    BY <1>2, <2>2 DEF NothingLeftOut
  <2> QED BY <1>1, <2>1, <2>3, ReceiveIs DEF WalkInv
<1>5. CASE page.next # NoCursor
  <2>1. walk'.state = "walking" /\ walk'.cursor = page.next /\ walk'.scan = <<>>
    BY <1>1, <1>5, ReceiveIs
  <2>2. /\ page.next \in ToCome(walk.cursor) /\ page.next \in Alerts
        /\ Due \ ToCome(page.next) \subseteq Presented(page) /\ Presented(page) \cap ToCome(page.next) = {}
    BY <1>5 DEF PageOK, ToCome
  <2>3. ToCome(page.next) \subseteq ToCome(walk.cursor)
    BY <1>1, <1>5, <2>2, LaterIsOrder DEF ToCome, Underway
  <2>4. /\ walk.base \ ToCome(page.next) \subseteq walk'.shown \cup walk'.listed
        /\ (walk'.shown \cup walk'.listed) \cap ToCome(page.next) = {}
    BY <1>1, <1>3, <2>2, <2>3 DEF Underway, Due
  <2>5. Underway'
    <3>1. ToCome(walk.cursor)' = ToCome(page.next) /\ walk'.base = walk.base
      BY <1>1, <2>1, ReceiveIs DEF ToCome
    <3> QED BY <1>2, <2>1, <2>2, <2>4, <3>1 DEF Underway
  <2>6. NothingLeftOut'
    BY <2>1 DEF NothingLeftOut
  <2> QED BY <1>1, <2>1, <2>5, <2>6, ReceiveIs DEF WalkInv
<1> QED BY <1>4, <1>5

(* The walks of other tools.                                               *)
LEMMA OthersKeep ==
  ASSUME WalkInv, walk.tool \notin WholeTools, WalkShape', index' = index,
         walk'.tool = walk.tool, walk'.base = walk.base
  PROVE  WalkInv'
BY DEF WalkInv, NothingLeftOut, WholeTools

(* A walk that ends in an error.                                           *)
LEMMA FailedKeeps ==
  ASSUME WalkInv, walk' = [walk EXCEPT !.state = "failed"], index' = index
  PROVE  WalkInv'
<1>1. WalkShape /\ index' = index
  BY DEF WalkInv
<1>2. WalkShape' /\ walk'.tool = walk.tool /\ walk'.base = walk.base /\ walk'.state = "failed"
  BY <1>1 DEF WalkShape
<1> QED BY <1>1, <1>2 DEF WalkInv, NothingLeftOut

LEMMA BeginsLess ==
  ASSUME NEW h, NEW S, Begins(h, S), NEW T \in SUBSET S
  PROVE  Begins(h, T)
BY DEF Begins

LEMMA TurnKeeps ==
  ASSUME WalkInv, Turn
  PROVE  WalkInv'
<1> DEFINE hits == Hits(walk.tool, walk.cursor, Limit)
           S == index \cap ToCome(walk.cursor)
<1>1. walk.state = "walking" /\ index' = index /\ WalkShape /\ index \in SUBSET Alerts
  BY DEF Turn, WalkInv
<1>2. Limit \in Nat \ {0}
  BY PagingAssumption
<1>0. CASE Refused(hits)
  <2>1. walk' = [walk EXCEPT !.state = "failed"]
    BY <1>0 DEF Turn
  <2> QED BY <1>1, <2>1, FailedKeeps
<1>3. CASE ~Refused(hits) /\ walk.tool \notin WholeTools
  <2>1. PICK page : Receive(page)
    BY <1>3 DEF Turn
  <2> QED BY <1>1, <1>3, <2>1, ReceiveIs, OthersKeep
<1>4. CASE ~Refused(hits) /\ walk.tool \in {"crawl", "domain"}
  <2>1. /\ Begins(hits, S) /\ ToSet(hits) \subseteq S /\ Len(hits) <= Limit /\ Len(hits) \in Nat
        /\ Len(hits) < Limit => ToSet(hits) = S
    BY <1>1, <1>2, <1>4, HitsBegin
  <2>2. /\ walk.tool = "crawl" => Receive(Paged(hits))
        /\ walk.tool = "domain" => Receive(Listed(hits))
    BY <1>4 DEF Turn
  <2> HIDE DEF hits
  <2>3. Due \in SUBSET S /\ Due \subseteq ToCome(walk.cursor)
    BY DEF WalkInv, Due
  <2>4. Begins(hits, Due)
    BY <2>1, <2>3, BeginsLess
  <2>5. \/ hits # <<>> /\ FullPage(hits) = Last(hits)
        \/ FullPage(hits) = NoCursor /\ (Uncounted \/ Due \subseteq ToSet(hits))
    <3>1. CASE Len(hits) >= Limit
      <4>1. hits # <<>>
        BY <1>2, <2>1, <3>1, ElementsIs DEF Begins
      <4> QED BY <3>1, <4>1 DEF FullPage
    <3>2. CASE ~(Len(hits) >= Limit)
      BY <1>2, <2>1, <2>3, <3>2 DEF FullPage
    <3> QED BY <3>1, <3>2
  <2>6. ToSet(hits) \subseteq ToCome(walk.cursor) \cap index
    BY <2>1
  <2>7. CASE walk.tool = "crawl"
    <3>1. FitPrefix(hits) \in 0 .. Len(hits)
      BY <2>4, FitPrefixType DEF Begins
    <3>2. PageOK(Paged(hits), Due)
      BY <2>3, <2>4, <2>5, <2>6, <3>1, TurnPrefix DEF Paged
    <3> QED BY <1>1, <2>2, <2>7, <3>2, ReceiveKeeps DEF WholeTools
  <2>8. CASE walk.tool = "domain"
    <3> DEFINE page == Listed(hits)
    <3>1. Presented(page) = ToSet(hits) /\ page.next = FullPage(hits)
      BY DEF Listed, Presented
    <3>2. Receive(page)
      BY <2>2, <2>8
    <3> HIDE DEF page
    <3>3. PageOK(page, Due)
      BY <2>3, <2>4, <2>5, <2>6, <3>1, TurnAll
    <3> QED BY <1>1, <2>8, <3>2, <3>3, ReceiveKeeps DEF WholeTools
  <2> QED BY <1>4, <2>7, <2>8
<1>5. walk.tool # "search"
  BY DEF Turn
<1> QED BY <1>0, <1>3, <1>4, <1>5 DEF WholeTools

-----------------------------------------------------------------------------
(* A search goes on from the last alert it has scanned.                    *)
LEMMA SortedCount ==
  ASSUME NEW h \in Seq(Alerts), Sorted(h)
  PROVE  Len(h) <= Cardinality(ToSet(h)) /\ IsFiniteSet(ToSet(h))
<1> DEFINE T == ToSet(h)
           n == Len(h)
<1>1. n \in Nat /\ T = {h[i] : i \in 1 .. n} /\ \A i \in 1 .. n : h[i] \in Alerts
  BY ElementsIs, LenProperties
<1>2. h \in [1 .. n -> T]
  BY <1>1, LenProperties
<1>3. \A i, j \in 1 .. n : h[i] = h[j] => i = j
  <2> SUFFICES ASSUME NEW i \in 1 .. n, NEW j \in 1 .. n, h[i] = h[j], i < j PROVE FALSE
    BY <1>1
  <2>1. Later(h[j], h[i])
    BY DEF Sorted
  <2> QED BY <1>1, <2>1, LaterIsOrder
<1>4. h \in Injection(1 .. n, T)
  BY <1>2, <1>3 DEF Injection, IsInjective
<1>5. IsFiniteSet(T)
  BY ElementsFew
<1>6. Cardinality(1 .. n) <= Cardinality(T)
  BY <1>4, <1>5, FS_Injection
<1>7. Cardinality(1 .. n) = n
  <2>1. n \in Int /\ 1 \in Int
    BY <1>1
  <2>2. Cardinality(1 .. n) = IF 1 > n THEN 0 ELSE n - 1 + 1
    BY <2>1, FS_Interval
  <2> QED BY <1>1, <2>2
<1> QED BY <1>5, <1>6, <1>7

LEMMA ScanGoesOn ==
  ASSUME WalkInv, walk.tool = "search", walk.state \in {"walking", "scanning"}, NEW size \in Nat
  PROVE  LET hits == Hits("search", ScanFrom, size)
             scan == walk.scan \o hits
         IN  /\ Begins(scan, Due) /\ ToSet(scan) \subseteq ToCome(walk.cursor) \cap index
             /\ Len(scan) = Len(walk.scan) + Len(hits) /\ Len(walk.scan) \in Nat
             /\ Len(hits) \in Nat /\ Len(hits) <= size
             /\ Len(hits) < size => Due \subseteq ToSet(scan)
<1> DEFINE old == walk.scan
           hits == Hits("search", ScanFrom, size)
           scan == old \o hits
           R == index \cap ToCome(ScanFrom)
<1> SUFFICES /\ Begins(scan, Due) /\ ToSet(scan) \subseteq ToCome(walk.cursor) \cap index
             /\ Len(scan) = Len(old) + Len(hits) /\ Len(old) \in Nat
             /\ Len(hits) \in Nat /\ Len(hits) <= size
             /\ Len(hits) < size => Due \subseteq ToSet(scan)
  OBVIOUS
<1>1. /\ index \in SUBSET Alerts /\ walk.base \subseteq index /\ Underway
      /\ walk.state = "walking" => old = <<>>
      /\ walk.state = "scanning" => Scanned
  BY DEF WalkInv, WholeTools
<1>2. /\ Begins(hits, R) /\ ToSet(hits) \subseteq R /\ Len(hits) <= size /\ Len(hits) \in Nat
      /\ Len(hits) < size => ToSet(hits) = R
  BY <1>1, HitsBegin
<1> HIDE DEF hits
<1>3. CASE old = <<>>
  <2>1. ScanFrom = walk.cursor
    BY <1>3 DEF ScanFrom
  <2>2. scan = hits /\ Len(old) = 0
    <3>1. hits \in Seq(Alerts)
      BY <1>2 DEF Begins
    <3> QED BY <1>3, <3>1, ElementsOfEmpty, ConcatEmptySeq
  <2>3. Due \in SUBSET R
    BY <1>1, <2>1 DEF Due
  <2>4. Begins(hits, Due)
    BY <1>2, <2>3, BeginsLess
  <2> HIDE DEF scan
  <2> QED BY <1>2, <2>1, <2>2, <2>3, <2>4
<1>4. CASE old # <<>>
  <2>1. Scanned
    BY <1>1, <1>4
  <2>2. ScanFrom = Last(old)
    BY <1>4 DEF ScanFrom
  <2> DEFINE n == Len(old)
             last == old[n]
  <2>3. /\ old \in Seq(Alerts) /\ Sorted(old) /\ n \in Nat /\ n >= 1 /\ n \in 1 .. n
        /\ ToSet(old) = {old[i] : i \in 1 .. n} /\ \A i \in 1 .. n : old[i] \in Alerts
        /\ hits \in Seq(Alerts) /\ Sorted(hits)
    <3>1. old \in Seq(Alerts) /\ Sorted(old) /\ hits \in Seq(Alerts) /\ Sorted(hits)
      BY <1>2, <2>1 DEF Scanned, Begins
    <3>2. n \in Nat /\ n >= 1
      BY <1>4, <3>1, ElementsIs, LenProperties
    <3> QED BY <3>1, <3>2, ElementsIs, LenProperties
  <2>4. /\ ScanFrom = last /\ last \in Alerts /\ last # NoCursor /\ last \in ToCome(walk.cursor)
        /\ ToSet(old) \subseteq ToCome(walk.cursor) \cap index
    <3>1. ScanFrom = last /\ last \in Alerts /\ last \in ToSet(old)
      BY <2>2, <2>3 DEF Last
    <3>2. ToSet(old) \subseteq ToCome(walk.cursor) \cap index
      BY <2>1 DEF Scanned
    <3> QED BY <3>1, <3>2, PagingAssumption DEF NoCursor
  <2>5. ToCome(last) \subseteq ToCome(walk.cursor)
    BY <1>1, <2>4, LaterIsOrder DEF ToCome, Underway
  <2>6. \A a \in ToCome(last) : \A i \in 1 .. n : Later(a, old[i])
    <3> SUFFICES ASSUME NEW a \in ToCome(last), NEW i \in 1 .. n PROVE Later(a, old[i])
      OBVIOUS
    <3>1. a \in Alerts /\ Later(a, last) /\ old[i] \in Alerts
      BY <2>3, <2>4 DEF ToCome
    <3>2. i < n => Later(last, old[i])
      BY <2>3 DEF Sorted
    <3>3. i = n \/ i < n
      BY <2>3
    <3> QED BY <2>4, <3>1, <3>2, <3>3, LaterIsOrder
  <2>7. /\ scan \in Seq(Alerts) /\ Len(scan) = n + Len(hits)
        /\ ToSet(scan) = ToSet(old) \cup ToSet(hits)
        /\ \A i \in 1 .. Len(scan) : scan[i] = IF i <= n THEN old[i] ELSE hits[i - n]
    BY <2>3, ElementsOfConcat, ConcatProperties
  <2>8. ToSet(scan) \subseteq ToCome(walk.cursor) \cap index
    BY <1>2, <2>4, <2>5, <2>7
  <2>9. Sorted(scan)
    <3> SUFFICES ASSUME NEW i \in 1 .. Len(scan), NEW j \in 1 .. Len(scan), i < j
                 PROVE  Later(scan[j], scan[i])
      BY DEF Sorted
    <3>1. CASE j <= n
      <4>1. i \in 1 .. n /\ j \in 1 .. n /\ scan[i] = old[i] /\ scan[j] = old[j]
        BY <2>3, <2>7, <3>1
      <4> QED BY <2>3, <4>1 DEF Sorted
    <3>2. CASE n < i
      <4>1. /\ i - n \in 1 .. Len(hits) /\ j - n \in 1 .. Len(hits) /\ i - n < j - n
            /\ scan[i] = hits[i - n] /\ scan[j] = hits[j - n]
        BY <1>2, <2>3, <2>7, <3>2
      <4> QED BY <2>3, <4>1 DEF Sorted
    <3>3. CASE i <= n /\ n < j
      <4>1. i \in 1 .. n /\ scan[i] = old[i] /\ j - n \in 1 .. Len(hits) /\ scan[j] = hits[j - n]
        BY <1>2, <2>3, <2>7, <3>3
      <4>2. hits[j - n] \in ToCome(last)
        BY <1>2, <2>3, <2>4, <4>1, ElementsIs
      <4> QED BY <2>6, <4>1, <4>2
    <3> QED BY <2>3, <2>7, <3>1, <3>2, <3>3
  <2>10. ASSUME NEW a \in Due \ ToSet(old) PROVE a \in R
    <3>1. Later(a, last) /\ a \in Alerts
      BY <2>1, <2>3, <2>10, <1>1 DEF Scanned, Begins, Due
    <3> QED BY <1>1, <2>4, <2>10, <3>1 DEF ToCome, Due
  <2> HIDE DEF scan
  <2>11. ASSUME NEW a \in Due \ ToSet(scan), NEW i \in 1 .. Len(scan) PROVE Later(a, scan[i])
    <3>1. a \in R /\ a \in R \ ToSet(hits) /\ a \in ToCome(last)
      BY <2>4, <2>7, <2>10, <2>11
    <3>2. CASE i <= n
      BY <2>3, <2>6, <2>7, <3>1, <3>2
    <3>3. CASE n < i
      <4>1. i - n \in 1 .. Len(hits) /\ scan[i] = hits[i - n]
        BY <1>2, <2>3, <2>7, <3>3
      <4> QED BY <1>2, <3>1, <4>1 DEF Begins
    <3> QED BY <2>3, <2>7, <3>2, <3>3
  <2>12. Begins(scan, Due)
    BY <2>7, <2>9, <2>11 DEF Begins
  <2>13. Len(hits) < size => Due \subseteq ToSet(scan)
    BY <1>2, <2>7, <2>10
  <2> QED BY <1>2, <2>3, <2>7, <2>8, <2>12, <2>13
<1> QED BY <1>3, <1>4

(* It ends when nothing follows, or it has met as many as there are.       *)
LEMMA SearchedOK ==
  ASSUME WalkInv, walk.tool = "search", walk.state \in {"walking", "scanning"}, NEW scan,
         Begins(scan, Due), ToSet(scan) \subseteq ToCome(walk.cursor) \cap index,
         scan = <<>> => Due = {}
  PROVE  PageOK(Searched(scan), Due)
<1> DEFINE all == Min({Cardinality(index), TotalCap})
           rest == IF scan # <<>> /\ Len(scan) < all THEN Last(scan) ELSE NoCursor
<1>1. scan \in Seq(Alerts) /\ Sorted(scan) /\ Len(scan) \in Nat
  BY LenProperties DEF Begins
<1>2. IsFiniteSet(index) /\ Cardinality(index) \in Nat /\ TotalCap \in Nat
  <2>1. index \in SUBSET Alerts
    BY DEF WalkInv
  <2> QED BY <2>1, PagingAssumption, FS_Subset, FS_CardinalityType
<1>3. ASSUME ~Uncounted, ~(Len(scan) < all) PROVE ToSet(scan) = index
  <2>1. Cardinality(index) <= TotalCap
    BY <1>2, <1>3 DEF Uncounted
  <2>2. all \in {Cardinality(index), TotalCap} /\ all <= Cardinality(index) /\ all <= TotalCap
    <3>1. Cardinality(index) \in Int /\ TotalCap \in Int
      BY <1>2
    <3> QED BY <3>1, LesserIs
  <2>3. ToSet(scan) \in SUBSET index
    OBVIOUS
  <2> HIDE DEF all
  <2>4. Len(scan) <= Cardinality(ToSet(scan)) /\ Cardinality(ToSet(scan)) \in Nat
    BY <1>1, SortedCount, FS_CardinalityType
  <2>5. Cardinality(ToSet(scan)) <= Cardinality(index)
    BY <1>2, <2>3, FS_Subset
  <2>6. all = Cardinality(index)
    BY <1>2, <2>1, <2>2
  <2>7. Cardinality(index) = Cardinality(ToSet(scan))
    BY <1>1, <1>2, <1>3, <2>4, <2>5, <2>6
  <2> QED BY <1>2, <2>3, <2>7, FS_Subset
<1> HIDE DEF all
<1>4. \/ scan # <<>> /\ rest = Last(scan)
      \/ rest = NoCursor /\ (Uncounted \/ Due \subseteq ToSet(scan))
  <2>1. Due \subseteq index
    BY DEF WalkInv, Due
  <2> QED BY <1>3, <2>1
<1> HIDE DEF rest
<1>5. FitPrefix(scan) \in 0 .. Len(scan)
  BY <1>1, FitPrefixType
<1>6. Searched(scan) = Prefix(scan, FitPrefix(scan), rest)
  BY DEF Searched, rest, all
<1>7. Due \subseteq ToCome(walk.cursor)
  BY DEF Due
<1> QED BY <1>4, <1>5, <1>6, <1>7, TurnPrefix

LEMMA AskKeeps ==
  ASSUME WalkInv, AskSearch
  PROVE  WalkInv'
<1> DEFINE size == Min({Limit, MaxScan - Len(walk.scan)})
           hits == Hits("search", ScanFrom, size)
           scan == walk.scan \o hits
<1>1. /\ walk.tool = "search" /\ walk.state \in {"walking", "scanning"} /\ index' = index
      /\ WalkShape /\ walk.tool \in WholeTools
      /\ IF Len(hits) < Limit \/ Len(scan) >= MaxScan
         THEN Receive(Searched(scan))
         ELSE walk' = [walk EXCEPT !.state = "scanning", !.scan = scan]
  BY DEF AskSearch, WalkInv, WholeTools
<1>2. Limit \in Nat \ {0} /\ MaxScan \in Nat \ {0}
  BY PagingAssumption
<1>3. Len(walk.scan) \in Nat /\ Len(walk.scan) < MaxScan
  <2>1. CASE walk.state = "walking"
    BY <1>1, <1>2, <2>1, ElementsOfEmpty DEF WalkInv
  <2>2. CASE walk.state = "scanning"
    <3>1. walk.scan \in Seq(Alerts) /\ Len(walk.scan) < MaxScan
      BY <1>1, <2>2 DEF WalkInv, Scanned, Begins
    <3> QED BY <3>1, LenProperties
  <2> QED BY <1>1, <2>1, <2>2
<1>4. size \in Nat \ {0} /\ size <= Limit
  <2>1. MaxScan - Len(walk.scan) \in Nat \ {0}
    BY <1>2, <1>3
  <2>2. MaxScan - Len(walk.scan) \in Int /\ Limit \in Int
    BY <1>2, <2>1
  <2>3. /\ size \in {Limit, MaxScan - Len(walk.scan)} /\ size <= Limit
    BY <2>2, LesserIs
  <2> HIDE DEF size
  <2> QED BY <1>2, <2>1, <2>3
<1> HIDE DEF size
<1>5. /\ Begins(scan, Due) /\ ToSet(scan) \subseteq ToCome(walk.cursor) \cap index
      /\ Len(scan) = Len(walk.scan) + Len(hits)
      /\ Len(hits) \in Nat /\ Len(hits) <= size
      /\ Len(hits) < size => Due \subseteq ToSet(scan)
  BY <1>1, <1>4, ScanGoesOn
<1> HIDE DEF hits, scan
<1>6. CASE Len(hits) < Limit \/ Len(scan) >= MaxScan
  <2>1. scan = <<>> => Due = {}
    BY <1>3, <1>4, <1>5, ElementsOfEmpty
  <2>2. PageOK(Searched(scan), Due)
    BY <1>1, <1>5, <2>1, SearchedOK
  <2> QED BY <1>1, <1>6, <2>2, ReceiveKeeps
<1>7. CASE ~(Len(hits) < Limit \/ Len(scan) >= MaxScan)
  <2>1. walk' = [walk EXCEPT !.state = "scanning", !.scan = scan]
    BY <1>1, <1>7
  <2>2. /\ WalkShape' /\ walk'.tool = walk.tool /\ walk'.base = walk.base /\ walk'.cursor = walk.cursor
        /\ walk'.state = "scanning" /\ walk'.scan = scan /\ walk'.shown = walk.shown
        /\ walk'.listed = walk.listed /\ walk'.again = walk.again
    BY <1>1, <2>1 DEF WalkShape
  <2>3. scan # <<>> /\ Len(scan) < MaxScan
    BY <1>2, <1>3, <1>5, <1>7, ElementsOfEmpty
  <2>4. Scanned'
    <3>1. Due' = Due /\ ToCome(walk.cursor)' = ToCome(walk.cursor)
      BY <2>2 DEF Due, ToCome
    <3> QED BY <1>1, <1>5, <2>2, <2>3, <3>1 DEF Scanned, Begins, Sorted
  <2>5. Underway'
    BY <1>1, <2>2 DEF WalkInv, Underway, ToCome
  <2>6. NothingLeftOut'
    BY <2>2 DEF NothingLeftOut
  <2> QED BY <1>1, <2>2, <2>4, <2>5, <2>6 DEF WalkInv
<1> QED BY <1>6, <1>7

LEMMA PageFailKeeps ==
  ASSUME WalkInv, SearchPageFails
  PROVE  WalkInv'
<1>1. /\ walk.tool = "search" /\ walk.state = "scanning" /\ walk.tool \in WholeTools
      /\ Receive(Searched(walk.scan)) /\ index' = index
  BY DEF SearchPageFails, WholeTools
<1>2. Scanned
  BY <1>1 DEF WalkInv
<1>3. PageOK(Searched(walk.scan), Due)
  BY <1>1, <1>2, SearchedOK DEF Scanned
<1> QED BY <1>1, <1>3, ReceiveKeeps

LEMMA ScrollKeeps ==
  ASSUME WalkInv, Scroll
  PROVE  WalkInv'
<1>1. walk.tool \notin WholeTools /\ index' = index /\ WalkShape
  BY DEF Scroll, WholeTools, WalkInv
<1>2. WalkShape' /\ walk'.tool = walk.tool /\ walk'.base = walk.base
  BY <1>1 DEF Scroll, WalkShape
<1> QED BY <1>1, <1>2, OthersKeep

LEMMA FailKeeps ==
  ASSUME WalkInv, TurnFails
  PROVE  WalkInv'
BY FailedKeeps DEF TurnFails

(* A walk that ended has told of every alert that was there when it began  *)
(* and stayed in its window, and shown none twice, for any alerts, page    *)
(* sizes, answers, caps, arrivals and slides: NothingLeftOut.              *)
THEOREM WalksAreWhole == PagingSpec => []NothingLeftOut
<1>1. PagingInit => WalkInv
  BY WalkStarts
<1>2. WalkInv /\ [PagingNext]_pagingVars => WalkInv'
  <2> SUFFICES ASSUME WalkInv, [PagingNext]_pagingVars PROVE WalkInv'
    OBVIOUS
  <2>1. CASE UNCHANGED pagingVars
    BY <2>1 DEF pagingVars, WalkInv, WalkShape, Underway, Scanned, Due, ToCome, Begins, Sorted,
                NothingLeftOut
  <2>2. CASE \E a \in Alerts : Arrive(a)
    BY <2>2, ArriveKeeps
  <2>9. CASE Slide
    BY <2>9, SlideKeeps
  <2>3. CASE \E tool \in PagingTools : BeginWalk(tool)
    BY <2>3, BeginKeeps
  <2>4. CASE Turn
    BY <2>4, TurnKeeps
  <2>5. CASE AskSearch
    BY <2>5, AskKeeps
  <2>6. CASE SearchPageFails
    BY <2>6, PageFailKeeps
  <2>7. CASE Scroll
    BY <2>7, ScrollKeeps
  <2>8. CASE TurnFails
    BY <2>8, FailKeeps
  <2> QED BY <2>1, <2>2, <2>3, <2>4, <2>5, <2>6, <2>7, <2>8, <2>9 DEF PagingNext
<1>3. WalkInv => NothingLeftOut
  BY DEF WalkInv
<1> QED BY <1>1, <1>2, <1>3, PTL DEF PagingSpec

-----------------------------------------------------------------------------
(* ThreeSum.  What a source is worth, and what its cluster is.             *)
Worth == [Categories -> [Suspects -> Nat]]

LEMMA CoverageIs ==
  ASSUME NEW scores \in Worth, NEW c \in Categories, NEW s \in Suspects, NEW graph \in BOOLEAN
  PROVE  LET P == {s} \cup (IF graph THEN Mates[s] ELSE {})
         IN  /\ Coverage(scores, c, s, graph) \in Nat
             /\ \A t \in P : scores[c][t] <= Coverage(scores, c, s, graph)
             /\ \E t \in P : scores[c][t] = Coverage(scores, c, s, graph)
<1> DEFINE P == {s} \cup (IF graph THEN Mates[s] ELSE {})
           T == {scores[c][t] : t \in P}
<1>1. P \in SUBSET Suspects /\ s \in P
  BY ThreeSumAssumption
<1>2. IsFiniteSet(P)
  BY <1>1, ThreeSumAssumption, FS_Subset
<1> HIDE DEF P
<1>3. T \subseteq Int /\ T \subseteq Nat /\ T # {}
  BY <1>1 DEF Worth
<1>4. IsFiniteSet(T)
  <2> DEFINE f == [t \in P |-> scores[c][t]]
  <2>1. f \in Surjection(P, T)
    BY DEF Surjection
  <2> HIDE DEF f, T
  <2> QED BY <1>2, <2>1, FS_Surjection
<1> HIDE DEF T
<1>5. Max(T) \in T /\ \A x \in T : x <= Max(T)
  BY <1>3, <1>4, MaxIs
<1>6. Coverage(scores, c, s, graph) = Max(T)
  BY DEF Coverage, T, P
<1>7. /\ Max(T) \in Nat /\ \A t \in P : scores[c][t] <= Max(T)
      /\ \E t \in P : scores[c][t] = Max(T)
  BY <1>3, <1>5 DEF T
<1> QED BY <1>6, <1>7 DEF P

(* With every bound on the amounts gone: what is shown of an address is    *)
(* what its entries come to when every category answered.                  *)
LEMMA ScoresAre ==
  ASSUME levels \in Levels, NEW answered, NEW without, NEW boost \in [Categories -> Nat]
  PROVE  LET scores == Boosted(Scores("week", answered, without), without, boost)
         IN  /\ scores \in Worth
             /\ \A c \in Categories, s \in Suspects :
                  scores[c][s] = IF s \in without THEN 0
                                 ELSE Higher(IF c \in answered THEN levels[s][c]["week"] ELSE 0,
                                             IF s = Vulnerable THEN boost[c] ELSE 0)
<1> DEFINE raw == Scores("week", answered, without)
           scores == Boosted(raw, without, boost)
<1>1. \A c \in Categories, s \in Suspects : levels[s][c]["week"] \in Nat /\ boost[c] \in Nat
  BY ThreeSumAssumption DEF Spans
<1>2. \A c \in Categories, s \in Suspects :
        raw[c][s] = IF c \in answered /\ s \notin without THEN levels[s][c]["week"] ELSE 0
  BY DEF Scores
<1> HIDE DEF raw
<1>3. \A c \in Categories, s \in Suspects :
        scores[c][s] = IF s = Vulnerable /\ s \notin without THEN Higher(raw[c][s], boost[c]) ELSE raw[c][s]
  BY DEF Boosted
<1>4. scores = [c \in Categories |-> [s \in Suspects |-> scores[c][s]]]
  BY DEF Boosted
<1> HIDE DEF scores
<1>5. \A c \in Categories, s \in Suspects :
        /\ scores[c][s] \in Nat
        /\ scores[c][s] = IF s \in without THEN 0
                          ELSE Higher(IF c \in answered THEN levels[s][c]["week"] ELSE 0,
                                      IF s = Vulnerable THEN boost[c] ELSE 0)
  BY <1>1, <1>2, <1>3 DEF Higher
<1>6. scores \in Worth
  BY <1>4, <1>5 DEF Worth
<1> QED BY <1>5, <1>6 DEF scores, raw

(* More in every category is no smaller a sum, and no fewer categories.    *)
LEMMA TimesGrows ==
  ASSUME NEW w \in Nat, NEW a \in Nat, NEW b \in Nat, a <= b
  PROVE  w * a \in Nat /\ w * a <= w * b
<1>1. b = a + (b - a) /\ b - a \in Nat
  OBVIOUS
<1> DEFINE d == b - a
<1>2. w * (a + d) = w * a + w * d
  BY <1>1
<1>3. w * d \in Nat /\ w * a \in Nat
  BY <1>1
<1>4. w * b = w * a + w * d
  BY <1>1, <1>2
<1> HIDE DEF d
<1> QED BY <1>3, <1>4

LEMMA SumGrows ==
  ASSUME NEW worth \in [Categories -> Nat], NEW more \in [Categories -> Nat],
         NEW weights \in [Categories -> Nat], NEW s \in Suspects, NEW graph \in BOOLEAN,
         \A c \in Categories : worth[c] <= more[c]
  PROVE  /\ WeightedSum(worth, weights, s, graph) \in Nat
         /\ WeightedSum(worth, weights, s, graph) <= WeightedSum(more, weights, s, graph)
<1>1. \A c \in Categories : /\ weights[c] * worth[c] \in Nat /\ weights[c] * more[c] \in Nat
                            /\ weights[c] * worth[c] <= weights[c] * more[c]
  <2> SUFFICES ASSUME NEW c \in Categories
               PROVE  /\ weights[c] * worth[c] \in Nat /\ weights[c] * more[c] \in Nat
                      /\ weights[c] * worth[c] <= weights[c] * more[c]
    OBVIOUS
  <2>1. weights[c] \in Nat /\ worth[c] \in Nat /\ more[c] \in Nat /\ worth[c] <= more[c] /\ more[c] <= more[c]
    OBVIOUS
  <2>2. weights[c] * more[c] \in Nat
    BY <2>1, TimesGrows
  <2> QED BY <2>1, <2>2, TimesGrows
<1> DEFINE x(c) == weights[c] * worth[c]
           y(c) == weights[c] * more[c]
           z == IF graph THEN Suspicion[s] ELSE 0
<1>2. /\ x("A") \in Nat /\ x("B") \in Nat /\ x("C") \in Nat
      /\ y("A") \in Nat /\ y("B") \in Nat /\ y("C") \in Nat
      /\ x("A") <= y("A") /\ x("B") <= y("B") /\ x("C") <= y("C")
  BY <1>1 DEF Categories
<1>3. z \in Nat
  BY ThreeSumAssumption
<1>4. /\ WeightedSum(worth, weights, s, graph) = x("A") + x("B") + x("C") + z
      /\ WeightedSum(more, weights, s, graph) = y("A") + y("B") + y("C") + z
  BY DEF WeightedSum
<1> HIDE DEF x, y, z
<1> QED BY <1>2, <1>3, <1>4

LEMMA CategoriesAreFinite == IsFiniteSet(Categories)
<1>1. Categories = {"A"} \cup {"B"} \cup {"C"}
  BY DEF Categories
<1>2. IsFiniteSet({"A"}) /\ IsFiniteSet({"B"}) /\ IsFiniteSet({"C"})
  BY FS_Singleton
<1>3. IsFiniteSet({"A"} \cup {"B"})
  BY <1>2, FS_Union
<1> QED BY <1>1, <1>2, <1>3, FS_Union

LEMMA CountGrows ==
  ASSUME NEW S \in SUBSET Categories, NEW T \in SUBSET Categories, S \subseteq T, Cardinality(S) >= 2
  PROVE  Cardinality(T) >= 2
<1>1. IsFiniteSet(T) /\ IsFiniteSet(S)
  BY CategoriesAreFinite, FS_Subset
<1>2. Cardinality(S) <= Cardinality(T) /\ Cardinality(S) \in Nat /\ Cardinality(T) \in Nat
  BY <1>1, FS_Subset, FS_CardinalityType
<1> QED BY <1>2

(* An engine that ran says of a source what its evidence says.             *)
Justified(k, triggers) ==
  /\ triggers \subseteq Suspects
  /\ \A s \in triggers : s \notin k.without /\ Chained(s, k)
Exhaustive(k, triggers) ==
  \A s \in Suspects \ k.without :
    (\E c \in Categories : Shown(s, c, k) > 0) /\ Chained(s, k) => s \in triggers

LEMMA EngineIs ==
  ASSUME levels \in Levels, NEW k, k.graph \in BOOLEAN, k.boost \in [Categories -> Nat],
         k.weights \in [Categories -> Nat], k.threshold \in Nat,
         NEW answered \in SUBSET Categories
  PROVE  LET scores == Boosted(Scores("week", answered, k.without), k.without, k.boost)
             triggers == EngineA(scores, k.graph, k.threshold, k.weights)
         IN  Justified(k, triggers) /\ (answered = Categories => Exhaustive(k, triggers))
<1> DEFINE scores == Boosted(Scores("week", answered, k.without), k.without, k.boost)
           cover(s) == [c \in Categories |-> Coverage(scores, c, s, k.graph)]
           present(s) == {c \in Categories : cover(s)[c] > 0}
           total(s) == WeightedSum(cover(s), k.weights, s, k.graph)
           shown(s, pick) == [c \in Categories |-> Shown(pick[c], c, k)]
           there(s, pick) == {c \in Categories : shown(s, pick)[c] > 0}
           triggers == EngineA(scores, k.graph, k.threshold, k.weights)
<1> SUFFICES Justified(k, triggers) /\ (answered = Categories => Exhaustive(k, triggers))
  OBVIOUS
<1>1. triggers = {s \in Suspects : /\ \E c \in Categories : scores[c][s] > 0
                                  /\ Cardinality(present(s)) >= 2 /\ total(s) >= k.threshold}
  BY DEF EngineA
<1>2. /\ scores \in Worth
      /\ \A c \in Categories, s \in Suspects :
           scores[c][s] = IF s \in k.without THEN 0
                          ELSE Higher(IF c \in answered THEN levels[s][c]["week"] ELSE 0,
                                      IF s = Vulnerable THEN k.boost[c] ELSE 0)
  BY ScoresAre
<1> HIDE DEF scores, triggers
<1>3. \A c \in Categories, s \in Suspects :
        /\ Shown(s, c, k) \in Nat /\ scores[c][s] \in Nat
        /\ scores[c][s] <= Shown(s, c, k)
        /\ s \in k.without => scores[c][s] = 0
        /\ answered = Categories /\ s \notin k.without => scores[c][s] = Shown(s, c, k)
  <2> SUFFICES ASSUME NEW c \in Categories, NEW s \in Suspects
               PROVE  /\ Shown(s, c, k) \in Nat /\ scores[c][s] \in Nat
                      /\ scores[c][s] <= Shown(s, c, k)
                      /\ s \in k.without => scores[c][s] = 0
                      /\ answered = Categories /\ s \notin k.without => scores[c][s] = Shown(s, c, k)
    OBVIOUS
  <2>1. levels[s][c]["week"] \in Nat /\ k.boost[c] \in Nat
    BY ThreeSumAssumption DEF Spans
  <2>2. Shown(s, c, k) = Higher(levels[s][c]["week"], IF s = Vulnerable THEN k.boost[c] ELSE 0)
    BY DEF Shown
  <2>3. scores[c][s] = IF s \in k.without THEN 0
                       ELSE Higher(IF c \in answered THEN levels[s][c]["week"] ELSE 0,
                                   IF s = Vulnerable THEN k.boost[c] ELSE 0)
    BY <1>2
  <2> QED BY <2>1, <2>2, <2>3 DEF Higher
<1>4. \A s \in Suspects : Party(s, k) \subseteq Suspects /\ s \in Party(s, k)
  BY ThreeSumAssumption DEF Party
<1>5. \A s \in Suspects : /\ cover(s) \in [Categories -> Nat]
                          /\ \A c \in Categories :
                               /\ \A t \in Party(s, k) : scores[c][t] <= cover(s)[c]
                               /\ \E t \in Party(s, k) : scores[c][t] = cover(s)[c]
  BY <1>2, CoverageIs DEF Party
<1> HIDE DEF cover
<1>6. \A s \in Suspects : \A pick \in [Categories -> Party(s, k) \ k.without] :
        /\ shown(s, pick) \in [Categories -> Nat]
        /\ Chain(s, pick, k) <=> /\ Cardinality(there(s, pick)) >= 2
                                 /\ WeightedSum(shown(s, pick), k.weights, s, k.graph) >= k.threshold
  <2> SUFFICES ASSUME NEW s \in Suspects, NEW pick \in [Categories -> Party(s, k) \ k.without]
               PROVE  /\ shown(s, pick) \in [Categories -> Nat]
                      /\ Chain(s, pick, k) <=> /\ Cardinality(there(s, pick)) >= 2
                                 /\ WeightedSum(shown(s, pick), k.weights, s, k.graph) >= k.threshold
    OBVIOUS
  <2>1. \A c \in Categories : pick[c] \in Suspects
    BY <1>4
  <2>2. shown(s, pick) \in [Categories -> Nat]
    BY <1>3, <2>1
  <2>3. there(s, pick) = {c \in Categories : Shown(pick[c], c, k) > 0}
    OBVIOUS
  <2> QED BY <2>2, <2>3 DEF Chain
<1> HIDE DEF shown
<1>7. Justified(k, triggers)
  <2> SUFFICES ASSUME NEW s \in triggers
               PROVE  s \in Suspects /\ s \notin k.without /\ Chained(s, k)
    BY DEF Justified
  <2>1. /\ s \in Suspects /\ \E c \in Categories : scores[c][s] > 0
        /\ Cardinality(present(s)) >= 2 /\ total(s) >= k.threshold
    BY <1>1
  <2>2. s \notin k.without
    BY <1>3, <2>1
  <2>3. \A c \in Categories : \E t \in Party(s, k) \ k.without : cover(s)[c] <= Shown(t, c, k)
    <3> SUFFICES ASSUME NEW c \in Categories
                 PROVE  \E t \in Party(s, k) \ k.without : cover(s)[c] <= Shown(t, c, k)
      OBVIOUS
    <3>1. PICK t \in Party(s, k) : scores[c][t] = cover(s)[c]
      BY <1>5, <2>1
    <3>2. t \in Suspects /\ cover(s)[c] <= Shown(t, c, k)
      BY <1>3, <1>4, <2>1, <3>1
    <3>3. CASE t \notin k.without
      BY <3>2, <3>3
    <3>4. CASE t \in k.without
      <4>1. cover(s)[c] = 0 /\ Shown(s, c, k) \in Nat
        BY <1>3, <2>1, <3>1, <3>2, <3>4
      <4>2. s \in Party(s, k) \ k.without
        BY <1>4, <2>1, <2>2
      <4> QED BY <4>1, <4>2
    <3> QED BY <3>3, <3>4
  <2> DEFINE pick == [c \in Categories |-> CHOOSE t \in Party(s, k) \ k.without : cover(s)[c] <= Shown(t, c, k)]
  <2>4. \A c \in Categories : pick[c] \in Party(s, k) \ k.without /\ cover(s)[c] <= Shown(pick[c], c, k)
    BY <2>3
  <2>5. pick \in [Categories -> Party(s, k) \ k.without]
    BY <2>4
  <2> HIDE DEF pick
  <2>6. \A c \in Categories : shown(s, pick)[c] = Shown(pick[c], c, k) /\ cover(s)[c] <= shown(s, pick)[c]
    BY <2>4 DEF shown
  <2>7. cover(s) \in [Categories -> Nat] /\ shown(s, pick) \in [Categories -> Nat]
    BY <1>5, <1>6, <2>1, <2>5
  <2>8. total(s) \in Nat /\ total(s) <= WeightedSum(shown(s, pick), k.weights, s, k.graph)
    BY <2>1, <2>6, <2>7, SumGrows
  <2>9. WeightedSum(shown(s, pick), k.weights, s, k.graph) \in Nat
    <3>1. \A c \in Categories : shown(s, pick)[c] <= shown(s, pick)[c]
      BY <2>7
    <3> QED BY <2>1, <2>7, <3>1, SumGrows
  <2>10. present(s) \subseteq there(s, pick)
    BY <2>6, <2>7
  <2>11. Cardinality(there(s, pick)) >= 2
    BY <2>1, <2>10, CountGrows
  <2>12. WeightedSum(shown(s, pick), k.weights, s, k.graph) >= k.threshold
    <3> HIDE DEF total
    <3> QED BY <2>1, <2>8, <2>9
  <2>13. Chain(s, pick, k)
    BY <1>6, <2>1, <2>5, <2>11, <2>12
  <2> QED BY <2>1, <2>2, <2>5, <2>13 DEF Chained
<1>8. ASSUME answered = Categories PROVE Exhaustive(k, triggers)
  <2> SUFFICES ASSUME NEW s \in Suspects, s \notin k.without,
                      NEW c \in Categories, Shown(s, c, k) > 0, Chained(s, k)
               PROVE  s \in triggers
    BY DEF Exhaustive
  <2>1. scores[c][s] > 0
    BY <1>3, <1>8
  <2>2. PICK pick \in [Categories -> Party(s, k) \ k.without] : Chain(s, pick, k)
    BY DEF Chained
  <2>3. /\ shown(s, pick) \in [Categories -> Nat] /\ Cardinality(there(s, pick)) >= 2
        /\ WeightedSum(shown(s, pick), k.weights, s, k.graph) >= k.threshold
    BY <1>6, <2>2
  <2>4. \A d \in Categories : shown(s, pick)[d] <= cover(s)[d]
    <3> SUFFICES ASSUME NEW d \in Categories PROVE shown(s, pick)[d] <= cover(s)[d]
      OBVIOUS
    <3>1. pick[d] \in Party(s, k) /\ pick[d] \notin k.without /\ pick[d] \in Suspects
      BY <1>4
    <3>2. scores[d][pick[d]] = Shown(pick[d], d, k)
      BY <1>3, <1>8, <3>1
    <3>3. scores[d][pick[d]] <= cover(s)[d]
      BY <1>5, <3>1
    <3> QED BY <3>2, <3>3 DEF shown
  <2>5. cover(s) \in [Categories -> Nat]
    BY <1>5
  <2>6. /\ WeightedSum(shown(s, pick), k.weights, s, k.graph) \in Nat
        /\ WeightedSum(shown(s, pick), k.weights, s, k.graph) <= total(s)
    BY <2>3, <2>4, <2>5, SumGrows
  <2>7. total(s) \in Nat
    <3>1. \A d \in Categories : cover(s)[d] <= cover(s)[d]
      BY <2>5
    <3> QED BY <2>5, <3>1, SumGrows
  <2>8. there(s, pick) \subseteq present(s)
    BY <2>3, <2>4, <2>5
  <2>9. Cardinality(present(s)) >= 2
    BY <2>3, <2>8, CountGrows
  <2>10. total(s) >= k.threshold
    <3> HIDE DEF total
    <3> QED BY <2>3, <2>6, <2>7
  <2> QED BY <1>1, <2>1, <2>9, <2>10
<1> QED BY <1>7, <1>8

-----------------------------------------------------------------------------
(* The call in progress has read its exclusions, and its triggers, once    *)
(* the engine has run, are those of its evidence.                          *)
CallShape ==
  call = [stage |-> call.stage, a |-> call.a, b |-> call.b, graph |-> call.graph,
          tiers |-> call.tiers, threshold |-> call.threshold, weights |-> call.weights,
          boost |-> call.boost, without |-> call.without,
          triggers |-> call.triggers, failedA |-> call.failedA, anomalies |-> call.anomalies,
          failedB |-> call.failedB]
SaidShape ==
  said = [kind |-> said.kind, triggers |-> said.triggers, anomalies |-> said.anomalies,
          without |-> said.without, degraded |-> said.degraded, graph |-> said.graph,
          threshold |-> said.threshold, weights |-> said.weights,
          boost |-> said.boost, whole |-> said.whole, slow |-> said.slow, burst |-> said.burst,
          steady |-> said.steady]
Terms(k) ==
  /\ k.graph \in BOOLEAN /\ k.threshold \in Nat
  /\ k.weights \in [Categories -> Nat] /\ k.boost \in [Categories -> Nat]
SumInv ==
  /\ levels \in Levels /\ CallShape /\ Terms(call)
  /\ Justified(call, call.triggers)
  /\ call.stage \notin {"engineB", "tiers"} => call.triggers = {}
  /\ call.stage \in {"engineB", "tiers"} /\ call.a /\ call.failedA = 0 => Exhaustive(call, call.triggers)
  /\ SaidShape
  /\ said.kind # "none" => /\ Justified(said, said.triggers)
                          /\ (said.whole => Exhaustive(said, said.triggers))

LEMMA Nobody ==
  ASSUME NEW k
  PROVE  Justified(k, {})
BY DEF Justified

(* What is said of the evidence depends on these fields of a call.         *)
LEMMA SameEvidence ==
  ASSUME NEW j, NEW k, j.graph = k.graph, j.without = k.without, j.boost = k.boost,
         j.threshold = k.threshold, j.weights = k.weights, NEW T
  PROVE  (Justified(j, T) <=> Justified(k, T)) /\ (Exhaustive(j, T) <=> Exhaustive(k, T))
<1>1. \A s, c : Shown(s, c, j) = Shown(s, c, k)
  BY DEF Shown
<1>2. \A s : Party(s, j) = Party(s, k)
  BY DEF Party
<1>3. \A s, pick : Chain(s, pick, j) <=> Chain(s, pick, k)
  BY <1>1 DEF Chain
<1>4. \A s : Chained(s, j) <=> Chained(s, k)
  BY <1>2, <1>3 DEF Chained
<1> QED BY <1>1, <1>4 DEF Justified, Exhaustive

(* The evidence of a step that leaves the alerts alone.                    *)
LEMMA PrimedEvidence ==
  ASSUME levels' = levels
  PROVE  /\ \A s, k : (Chained(s, k))' = Chained(s, k)
         /\ \A s, c, k : (Shown(s, c, k))' = Shown(s, c, k)
BY DEF Chained, Chain, Shown, Party, WeightedSum

LEMMA SumStarts == ThreeSumInit => SumInv
<1> SUFFICES ASSUME ThreeSumInit PROVE SumInv
  OBVIOUS
<1>1. /\ levels \in Levels /\ CallShape /\ Terms(call) /\ call.triggers = {}
      /\ call.stage = "idle" /\ said.kind = "none"
  BY DEF ThreeSumInit, NoCall, NoAnswer, CallShape, Terms, Nothing
<1>2. said = NoAnswer
  BY DEF ThreeSumInit
<1> QED BY <1>1, <1>2, Nobody DEF SumInv, NoAnswer, SaidShape

(* A step that leaves the last answer alone.                               *)
LEMMA CallStep ==
  ASSUME SumInv, levels' = levels, said' = said, CallShape',
         Terms(call'),
         Justified(call', call'.triggers),
         call'.stage \notin {"engineB", "tiers"} => call'.triggers = {},
         call'.stage \in {"engineB", "tiers"} /\ call'.a /\ call'.failedA = 0
           => Exhaustive(call', call'.triggers)
  PROVE  SumInv'
<1>1. said'.kind # "none" => /\ Justified(said', said'.triggers)
                              /\ (said'.whole => Exhaustive(said', said'.triggers))
  BY DEF SumInv
<1>2. (Justified(call, call.triggers))'
  BY PrimedEvidence DEF Justified
<1>3. (call.stage \in {"engineB", "tiers"} /\ call.a /\ call.failedA = 0 => Exhaustive(call, call.triggers))'
  BY PrimedEvidence DEF Exhaustive
<1>4. SaidShape'
  BY DEF SumInv, SaidShape
<1>5. (said.kind # "none" => Justified(said, said.triggers) /\ (said.whole => Exhaustive(said, said.triggers)))'
  <2> SUFFICES ASSUME said'.kind # "none"
               PROVE  (Justified(said, said.triggers))' /\ (said.whole => Exhaustive(said, said.triggers))'
    OBVIOUS
  <2>1. Justified(said', said'.triggers) /\ (said'.whole => Exhaustive(said', said'.triggers))
    BY <1>1
  <2>2. (Justified(said, said.triggers))'
    BY <2>1, PrimedEvidence DEF Justified
  <2>3. (said.whole => Exhaustive(said, said.triggers))'
    BY <2>1, PrimedEvidence DEF Exhaustive
  <2> QED BY <2>2, <2>3
<1>6. Terms(call)'
  BY DEF Terms
<1> QED BY <1>2, <1>3, <1>4, <1>5, <1>6 DEF SumInv

LEMMA CorrelateKeeps ==
  ASSUME SumInv, NEW request \in Requests, Correlate(request)
  PROVE  SumInv'
<1>1. Terms(request)
  BY ThreeSumAssumption DEF Terms
<1>2. /\ levels' = levels /\ said' = said /\ CallShape' /\ call'.graph = request.graph
      /\ call'.boost = request.boost /\ call'.threshold = request.threshold
      /\ call'.weights = request.weights /\ call'.triggers = {}
      /\ call'.stage = IF request.graph THEN "cluster" ELSE "engineA"
  BY DEF Correlate, NoCall, CallShape
<1>3. Justified(call', {})
  BY Nobody
<1>4. call'.stage \notin {"engineB", "tiers"}
  BY <1>2
<1>5. Terms(call')
  BY <1>1, <1>2 DEF Terms
<1> QED BY <1>2, <1>3, <1>4, <1>5, CallStep

LEMMA BuildKeeps ==
  ASSUME SumInv, BuildGraph
  PROVE  SumInv'
<1>1. CallShape /\ call.triggers = {} /\ Terms(call)
  BY DEF SumInv, BuildGraph
<1>2. /\ levels' = levels /\ said' = said /\ CallShape' /\ Terms(call') /\ call'.triggers = {}
      /\ call'.stage \in {"engineA", "idle"}
  <2>1. CASE call' = [call EXCEPT !.stage = "engineA"]
    BY <1>1, <2>1 DEF BuildGraph, CallShape, Terms
  <2>2. CASE call' = NoCall
    BY <2>2 DEF BuildGraph, NoCall, CallShape, Terms, Nothing
  <2> QED BY <2>1, <2>2 DEF BuildGraph
<1>3. Justified(call', {})
  BY Nobody
<1> QED BY <1>2, <1>3, CallStep

LEMMA OfThree ==
  ASSUME NEW answered \in SUBSET Categories
  PROVE  Cardinality(answered) \in 0 .. 3 /\ (Cardinality(answered) = 3 => answered = Categories)
<1>4. IsFiniteSet(Categories)
  BY CategoriesAreFinite
<1>5. Cardinality(Categories) <= 3
  <2> DEFINE f == [i \in 1 .. 3 |-> IF i = 1 THEN "A" ELSE IF i = 2 THEN "B" ELSE "C"]
  <2>1. f \in [1 .. 3 -> Categories] /\ f[1] = "A" /\ f[2] = "B" /\ f[3] = "C"
    BY DEF Categories
  <2> HIDE DEF f
  <2>2. \A c \in Categories : \E i \in 1 .. 3 : f[i] = c
    BY <2>1 DEF Categories
  <2>3. ExistsSurjection(1 .. 3, Categories)
    BY <2>1, <2>2 DEF Surjection, ExistsSurjection
  <2> QED BY <2>3, FS_SurjCardinalityBound
<1> QED BY <1>4, <1>5, FS_Subset, FS_CardinalityType

LEMMA RunAKeeps ==
  ASSUME SumInv, RunA
  PROVE  SumInv'
<1>1. /\ CallShape /\ call.triggers = {} /\ Terms(call)
      /\ levels \in Levels /\ levels' = levels /\ said' = said
  BY DEF SumInv, RunA
<1>2. CASE call.a
  <2> DEFINE triggers(answered) == EngineA(Boosted(Scores("week", answered, call.without), call.without, call.boost),
                                           call.graph, call.threshold, call.weights)
  <2>1. PICK answered \in SUBSET Categories :
          call' = [call EXCEPT !.stage = "engineB", !.failedA = 3 - Cardinality(answered),
                               !.triggers = triggers(answered)]
    BY <1>2 DEF RunA
  <2>2. /\ Justified(call, triggers(answered))
        /\ answered = Categories => Exhaustive(call, triggers(answered))
    BY <1>1, EngineIs DEF Terms
  <2> HIDE DEF triggers
  <2>3. /\ CallShape' /\ call'.graph = call.graph /\ call'.boost = call.boost /\ call'.without = call.without
        /\ call'.threshold = call.threshold /\ call'.weights = call.weights
        /\ call'.triggers = triggers(answered) /\ call'.stage = "engineB"
        /\ call'.failedA = 3 - Cardinality(answered)
    BY <1>1, <2>1 DEF CallShape
  <2>4. call'.failedA = 0 => answered = Categories
    BY <2>3, OfThree
  <2>5. Justified(call', call'.triggers) /\ (answered = Categories => Exhaustive(call', call'.triggers))
    BY <2>2, <2>3, SameEvidence
  <2>6. Terms(call')
    BY <1>1, <2>3 DEF Terms
  <2> QED BY <1>1, <2>3, <2>4, <2>5, <2>6, CallStep
<1>3. CASE ~call.a
  <2>1. /\ CallShape' /\ Terms(call')
        /\ call'.triggers = {} /\ call'.stage = "engineB" /\ ~call'.a
    BY <1>1, <1>3 DEF RunA, CallShape, Terms
  <2>2. Justified(call', {})
    BY Nobody
  <2> QED BY <1>1, <2>1, <2>2, CallStep
<1> QED BY <1>2, <1>3

LEMMA RunBKeeps ==
  ASSUME SumInv, RunB
  PROVE  SumInv'
<1>1. /\ CallShape /\ Terms(call) /\ call.stage = "engineB"
      /\ Justified(call, call.triggers) /\ levels' = levels /\ said' = said
      /\ call.a /\ call.failedA = 0 => Exhaustive(call, call.triggers)
  BY DEF SumInv, RunB
<1>2. \/ call' = [call EXCEPT !.stage = "tiers"]
      \/ \E n, m : call' = [call EXCEPT !.stage = "tiers", !.failedB = n, !.anomalies = m]
  BY DEF RunB
<1>3. /\ CallShape' /\ call'.graph = call.graph /\ call'.boost = call.boost /\ call'.without = call.without
      /\ call'.threshold = call.threshold /\ call'.weights = call.weights
      /\ call'.triggers = call.triggers /\ call'.stage = "tiers" /\ call'.a = call.a /\ call'.failedA = call.failedA
  BY <1>1, <1>2 DEF CallShape
<1>4. /\ Justified(call', call'.triggers)
      /\ Exhaustive(call, call.triggers) => Exhaustive(call', call'.triggers)
  BY <1>1, <1>3, SameEvidence
<1>5. Terms(call')
  BY <1>1, <1>3 DEF Terms
<1> QED BY <1>1, <1>3, <1>4, <1>5, CallStep

LEMMA ConcludeKeeps ==
  ASSUME SumInv, Conclude
  PROVE  SumInv'
<1>2. /\ Justified(call, call.triggers) /\ levels' = levels /\ call' = NoCall /\ levels \in Levels
      /\ call.a /\ call.failedA = 0 => Exhaustive(call, call.triggers)
  BY DEF SumInv, Conclude
<1>3. /\ said'.triggers = call.triggers /\ said'.graph = call.graph /\ said'.without = call.without
      /\ said'.threshold = call.threshold /\ said'.weights = call.weights
      /\ said'.boost = call.boost /\ (said'.whole <=> call.a /\ call.failedA = 0)
      /\ said'.kind = "fresh" /\ SaidShape'
  <2> DEFINE runs(answered) == IF call.tiers THEN TierRuns(call.triggers, call, answered) ELSE <<{}, {}, {}>>
             say(answered) ==
               [kind |-> "fresh", triggers |-> call.triggers, anomalies |-> call.anomalies,
                without |-> call.without, degraded |-> Degraded(call),
                graph |-> call.graph, threshold |-> call.threshold,
                weights |-> call.weights, boost |-> call.boost,
                whole |-> call.a /\ call.failedA = 0,
                slow |-> SlowBurn(runs(answered)), burst |-> BurstOnly(runs(answered)),
                steady |-> Persistent(runs(answered))]
  <2>1. PICK answered \in [1..2 -> SUBSET Categories] : said' = say(answered)
    BY ZenonT(30) DEF Conclude
  <2> HIDE DEF runs
  <2> QED BY <2>1 DEF SaidShape
<1>4. Justified(said', said'.triggers) /\ (said'.whole => Exhaustive(said', said'.triggers))
  BY <1>2, <1>3, SameEvidence
<1>5. (Justified(said, said.triggers) /\ (said.whole => Exhaustive(said, said.triggers)))'
  BY <1>2, <1>4, PrimedEvidence DEF Justified, Exhaustive
<1>6. CallShape' /\ Terms(call)' /\ call'.triggers = {} /\ call'.stage = "idle"
  BY <1>2 DEF NoCall, CallShape, Terms, Nothing
<1>7. (Justified(call, call.triggers))'
  BY <1>6 DEF Justified
<1> QED BY <1>2, <1>3, <1>5, <1>6, <1>7 DEF SumInv

LEMMA ReplayKeeps ==
  ASSUME SumInv, ReplayLast
  PROVE  SumInv'
<1>1. /\ levels' = levels /\ call' = call /\ said.kind # "none" /\ said' = [said EXCEPT !.kind = "replayed"]
      /\ SaidShape
  BY DEF SumInv, ReplayLast
<1>2. /\ said'.triggers = said.triggers /\ said'.graph = said.graph /\ said'.without = said.without
      /\ said'.boost = said.boost /\ said'.whole = said.whole
      /\ said'.threshold = said.threshold /\ said'.weights = said.weights
      /\ SaidShape'
  BY <1>1 DEF SaidShape
<1>3. Justified(said', said'.triggers) /\ (said'.whole => Exhaustive(said', said'.triggers))
  BY <1>1, <1>2, SameEvidence DEF SumInv
<1>4. (Justified(said, said.triggers) /\ (said.whole => Exhaustive(said, said.triggers)))'
  <2>1. (Justified(said, said.triggers))'
    BY <1>1, <1>3, PrimedEvidence DEF Justified
  <2>2. (said.whole => Exhaustive(said, said.triggers))'
    BY <1>1, <1>3, PrimedEvidence DEF Exhaustive
  <2> QED BY <2>1, <2>2
<1>5. (Justified(call, call.triggers))' /\ CallShape' /\ Terms(call)'
  BY <1>1, PrimedEvidence DEF SumInv, Justified, CallShape, Terms
<1>6. (call.stage \in {"engineB", "tiers"} /\ call.a /\ call.failedA = 0 => Exhaustive(call, call.triggers))'
  BY <1>1, PrimedEvidence DEF SumInv, Exhaustive
<1> QED BY <1>1, <1>2, <1>4, <1>5, <1>6 DEF SumInv

(* A flagged source is not one that the analysts had suppressed, and its   *)
(* evidence holds a chain over two categories that weighs the threshold of *)
(* the call; with every answer in hand no source with alerts and such a    *)
(* chain is missed: TriggersEarned of ThreeSum, for any addresses,         *)
(* clusters, amounts, weights, thresholds, boosts, suspicions, failed      *)
(* queries, calls and suppressions.                                        *)
THEOREM TriggersAreEarned == ThreeSumSpec => []TriggersEarned
<1>1. ThreeSumInit => SumInv
  BY SumStarts
<1>2. SumInv /\ [ThreeSumNext]_threeSumVars => SumInv'
  <2> SUFFICES ASSUME SumInv, [ThreeSumNext]_threeSumVars PROVE SumInv'
    OBVIOUS
  <2>1. ASSUME levels' = levels, call' = call, said' = said PROVE SumInv'
    <3>1. CallShape' /\ Terms(call')
      BY <2>1 DEF SumInv, CallShape
    <3>2. /\ Justified(call', call'.triggers)
          /\ call'.stage \notin {"engineB", "tiers"} => call'.triggers = {}
          /\ call'.stage \in {"engineB", "tiers"} /\ call'.a /\ call'.failedA = 0
               => Exhaustive(call', call'.triggers)
      BY <2>1 DEF SumInv
    <3> QED BY <2>1, <3>1, <3>2, CallStep
  <2>2. CASE UNCHANGED threeSumVars
    BY <2>1, <2>2 DEF threeSumVars
  <2>3. CASE ReplayLast
    BY <2>3, ReplayKeeps
  <2>4. CASE \E request \in Requests : Correlate(request)
    BY <2>4, CorrelateKeeps
  <2>5. CASE BuildGraph
    BY <2>5, BuildKeeps
  <2>6. CASE RunA
    BY <2>6, RunAKeeps
  <2>7. CASE RunB
    BY <2>7, RunBKeeps
  <2>8. CASE Conclude
    BY <2>8, ConcludeKeeps
  <2>9. CASE \E s \in Suspects : Suppress(s) \/ ForgetKb(s)
    BY <2>1, <2>9 DEF Suppress, ForgetKb
  <2> QED BY <2>2, <2>3, <2>4, <2>5, <2>6, <2>7, <2>8, <2>9 DEF ThreeSumNext
<1>3. SumInv => TriggersEarned
  BY DEF SumInv, TriggersEarned, Justified, Exhaustive
<1> QED BY <1>1, <1>2, <1>3, PTL DEF ThreeSumSpec

-----------------------------------------------------------------------------
Placed == ToSet(queue) \cup ToSet(hand) \cup ToSet(flushed) \cup ToSet(file)
Places == Len(queue) + Len(hand) + Len(flushed) + Len(file)
Lists == queue \in Seq(Nat) /\ hand \in Seq(Nat) /\ flushed \in Seq(Nat) /\ file \in Seq(Nat)
AuditInv ==
  /\ Lists
  /\ Placed \cup refused = 1 .. made /\ Places + Cardinality(refused) = made
  /\ made \in 0 .. MaxEntries
  /\ main \in {"serving", "putting", "put", "flushing", "dying", "ended"}
  /\ worker \in {"waiting", "taking", "writing"} /\ held \in BOOLEAN
  /\ main = "putting" => made < MaxEntries
  /\ worker = "waiting" => hand = <<>>
  /\ main \in {"dying", "ended"} => queue = <<>>
  /\ main = "ended" => flushed = <<>>

LEMMA AuditStart == AuditInit => AuditInv
<1> SUFFICES ASSUME AuditInit PROVE AuditInv
  OBVIOUS
<1>1. Lists
  BY EmptySeq DEF AuditInit, Lists
<1>2. Placed = {} /\ Places = 0
  BY ElementsOfEmpty DEF AuditInit, Placed, Places
<1>3. refused = {} /\ Cardinality(refused) = 0 /\ made = 0 /\ made \in 0 .. MaxEntries
  BY FS_EmptySet, AuditAssumption DEF AuditInit
<1>4. Placed \cup refused = 1 .. made /\ Places + Cardinality(refused) = made
  BY <1>2, <1>3
<1> QED BY <1>1, <1>3, <1>4 DEF AuditInit, AuditInv

(* Sequences that hold every number to m, with those of a set, have places *)
(* for them.                                                               *)
LEMMA UnionFew ==
  ASSUME NEW A, NEW B, IsFiniteSet(A), IsFiniteSet(B)
  PROVE  /\ IsFiniteSet(A \cup B) /\ Cardinality(A) \in Nat /\ Cardinality(B) \in Nat
         /\ Cardinality(A \cup B) \in Nat
         /\ Cardinality(A \cup B) <= Cardinality(A) + Cardinality(B)
<1>1. /\ IsFiniteSet(A \cup B)
      /\ Cardinality(A \cup B) = Cardinality(A) + Cardinality(B) - Cardinality(A \cap B)
  BY FS_Union
<1>2. IsFiniteSet(A \cap B)
  BY FS_Intersection
<1>3. /\ Cardinality(A) \in Nat /\ Cardinality(B) \in Nat /\ Cardinality(A \cap B) \in Nat
      /\ Cardinality(A \cup B) \in Nat
  BY <1>1, <1>2, FS_CardinalityType
<1> QED BY <1>1, <1>3

LEMMA PlacesEnough ==
  ASSUME NEW a \in Seq(Nat), NEW b \in Seq(Nat), NEW c \in Seq(Nat), NEW d \in Seq(Nat),
         NEW r, IsFiniteSet(r), NEW m \in Nat,
         ToSet(a) \cup ToSet(b) \cup ToSet(c) \cup ToSet(d) \cup r = 1 .. m
  PROVE  Len(a) + Len(b) + Len(c) + Len(d) + Cardinality(r) >= m
<1> DEFINE A == ToSet(a) B == ToSet(b) C == ToSet(c) D == ToSet(d)
<1>1. /\ IsFiniteSet(A) /\ Cardinality(A) <= Len(a) /\ Len(a) \in Nat
      /\ IsFiniteSet(B) /\ Cardinality(B) <= Len(b) /\ Len(b) \in Nat
      /\ IsFiniteSet(C) /\ Cardinality(C) <= Len(c) /\ Len(c) \in Nat
      /\ IsFiniteSet(D) /\ Cardinality(D) <= Len(d) /\ Len(d) \in Nat
  BY ElementsFew
<1>2. A \cup B \cup C \cup D \cup r = 1 .. m
  OBVIOUS
<1> HIDE DEF A, B, C, D
<1>3. /\ IsFiniteSet(A \cup B) /\ Cardinality(A) \in Nat /\ Cardinality(B) \in Nat
      /\ Cardinality(A \cup B) <= Cardinality(A) + Cardinality(B)
  BY <1>1, UnionFew
<1>4. /\ IsFiniteSet(A \cup B \cup C) /\ Cardinality(C) \in Nat /\ Cardinality(A \cup B) \in Nat
      /\ Cardinality(A \cup B \cup C) <= Cardinality(A \cup B) + Cardinality(C)
  BY <1>1, <1>3, UnionFew
<1>5. /\ IsFiniteSet(A \cup B \cup C \cup D)
      /\ Cardinality(D) \in Nat /\ Cardinality(A \cup B \cup C) \in Nat
      /\ Cardinality(A \cup B \cup C \cup D) <= Cardinality(A \cup B \cup C) + Cardinality(D)
  BY <1>1, <1>4, UnionFew
<1>6. /\ Cardinality(r) \in Nat /\ Cardinality(A \cup B \cup C \cup D) \in Nat
      /\ Cardinality(A \cup B \cup C \cup D \cup r)
           <= Cardinality(A \cup B \cup C \cup D) + Cardinality(r)
  BY <1>5, UnionFew
<1>7. Cardinality(1 .. m) = m
  BY FS_Interval
<1>8. Cardinality(A \cup B \cup C \cup D \cup r) = m
  BY <1>2, <1>7
<1>9. Len(a) + Len(b) + Len(c) + Len(d) + Cardinality(r) >= m
  BY <1>1, <1>3, <1>4, <1>5, <1>6, <1>8
<1> QED BY <1>9

LEMMA Joined ==
  \A s, t \in Seq(Nat) : /\ s \o t \in Seq(Nat) /\ Len(s \o t) = Len(s) + Len(t)
                         /\ ToSet(s \o t) = ToSet(s) \cup ToSet(t)
BY ElementsOfConcat

LEMMA RefusedFinite ==
  ASSUME AuditInv
  PROVE  IsFiniteSet(refused) /\ Cardinality(refused) \in Nat /\ made \in Nat
<1>1. made \in Nat /\ refused \subseteq 1 .. made
  BY AuditAssumption DEF AuditInv
<1>2. IsFiniteSet(1 .. made)
  BY <1>1, FS_Interval
<1> QED BY <1>1, <1>2, FS_Subset, FS_CardinalityType

(* A write, in part or whole.                                              *)
LEMMA WrittenIs ==
  ASSUME AuditInv, NEW batch \in Seq(Nat), Written(batch)
  PROVE  /\ file' \in Seq(Nat) /\ IsFiniteSet(refused') /\ Cardinality(refused') \in Nat
         /\ ToSet(file') \cup refused' = ToSet(file) \cup ToSet(batch) \cup refused
         /\ Len(file') + Cardinality(refused') <= Len(file) + Len(batch) + Cardinality(refused)
<1>1. PICK n \in 0 .. Len(batch) :
        /\ file' = file \o SubSeq(batch, 1, n)
        /\ refused' = refused \cup ToSet(SubSeq(batch, n + 1, Len(batch)))
  BY DEF Written
<1> DEFINE done == SubSeq(batch, 1, n) rest == SubSeq(batch, n + 1, Len(batch))
<1>2. /\ done \in Seq(Nat) /\ rest \in Seq(Nat) /\ Len(done) = n /\ Len(rest) = Len(batch) - n
      /\ ToSet(batch) = ToSet(done) \cup ToSet(rest)
  BY ElementsOfParts
<1>3. file' = file \o done /\ refused' = refused \cup ToSet(rest)
  BY <1>1
<1> HIDE DEF done, rest
<1>4. file \in Seq(Nat) /\ Len(file) \in Nat /\ Len(batch) \in Nat
  BY LenProperties DEF AuditInv, Lists
<1>5. /\ file' \in Seq(Nat) /\ Len(file') = Len(file) + n
      /\ ToSet(file') = ToSet(file) \cup ToSet(done)
  <2>1. /\ file \o done \in Seq(Nat) /\ Len(file \o done) = Len(file) + Len(done)
        /\ ToSet(file \o done) = ToSet(file) \cup ToSet(done)
    BY <1>2, <1>4, Joined
  <2> QED BY <1>2, <1>3, <2>1
<1>6. /\ IsFiniteSet(refused') /\ Cardinality(refused') \in Nat
      /\ Cardinality(refused') <= Cardinality(refused) + Cardinality(ToSet(rest))
      /\ Cardinality(refused) \in Nat /\ Cardinality(ToSet(rest)) \in Nat
      /\ Cardinality(ToSet(rest)) <= Len(rest)
  BY <1>2, <1>3, RefusedFinite, ElementsFew, UnionFew
<1> QED BY <1>2, <1>3, <1>4, <1>5, <1>6

LEMMA PutStep ==
  ASSUME AuditInv, PutEntry
  PROVE  AuditInv'
<1>1. /\ made \in Nat /\ made' = made + 1 /\ made' \in 0 .. MaxEntries /\ made' \in Nat
      /\ queue' = Append(queue, made') /\ queue \in Seq(Nat) /\ Len(queue) \in Nat
  BY AuditAssumption, LenProperties DEF AuditInv, PutEntry, Lists
<1>2. /\ queue' \in Seq(Nat) /\ Len(queue') = Len(queue) + 1
      /\ ToSet(queue') = ToSet(queue) \cup {made'}
  BY <1>1, ElementsOfAppend
<1>3. Lists' /\ Len(hand) \in Nat /\ Len(flushed) \in Nat /\ Len(file) \in Nat
  BY <1>2, LenProperties DEF AuditInv, PutEntry, Lists
<1>4. Placed' = Placed \cup {made'} /\ Places' = Places + 1 /\ Places \in Nat
  BY <1>1, <1>2, <1>3 DEF PutEntry, Placed, Places
<1>5. Placed' \cup refused' = 1 .. made'
  <2>1. 1 .. made' = 1 .. made \cup {made'}
    BY <1>1
  <2> QED BY <1>4, <2>1 DEF AuditInv, PutEntry
<1>6. Places' + Cardinality(refused') = made'
  <2>1. Cardinality(refused) \in Nat /\ refused' = refused /\ Places + Cardinality(refused) = made
    BY RefusedFinite DEF AuditInv, PutEntry
  <2>2. Cardinality(refused') = Cardinality(refused)
    BY <2>1
  <2>3. Places' = Places + 1 /\ Places \in Nat
    BY <1>4
  <2>4. made' = made + 1 /\ made \in Nat
    BY <1>1
  <2> QED BY <2>1, <2>2, <2>3, <2>4
<1> QED BY <1>1, <1>3, <1>5, <1>6 DEF AuditInv, PutEntry

LEMMA FlushTakeStep ==
  ASSUME AuditInv, FlushTake
  PROVE  AuditInv'
<1>1. CASE queue # <<>>
  <2>1. /\ flushed' = Append(flushed, Head(queue)) /\ queue' = Tail(queue)
        /\ UNCHANGED <<held, main, worker, hand, file, refused, made>> /\ Lists
    BY <1>1 DEF AuditInv, FlushTake
  <2>2. /\ queue' \in Seq(Nat) /\ Len(queue') = Len(queue) - 1 /\ Head(queue) \in Nat
        /\ ToSet(queue) = ToSet(queue') \cup {Head(queue)}
    BY <1>1, <2>1, ElementsOfTail DEF Lists
  <2>3. /\ flushed' \in Seq(Nat) /\ Len(flushed') = Len(flushed) + 1
        /\ ToSet(flushed') = ToSet(flushed) \cup {Head(queue)}
    BY <2>1, <2>2, ElementsOfAppend DEF Lists
  <2>4. /\ Len(queue) \in Nat /\ Len(hand) \in Nat /\ Len(flushed) \in Nat
        /\ Len(file) \in Nat /\ Lists'
    BY <2>1, <2>2, <2>3, LenProperties DEF Lists
  <2>5. Placed' = Placed /\ Places' = Places
    BY <2>1, <2>2, <2>3, <2>4 DEF Placed, Places
  <2> QED BY <2>1, <2>4, <2>5 DEF AuditInv, FlushTake
<1>2. CASE queue = <<>>
  BY <1>2 DEF AuditInv, FlushTake, Lists, Placed, Places
<1> QED BY <1>1, <1>2

LEMMA FlushWriteStep ==
  ASSUME AuditInv, FlushWrite
  PROVE  AuditInv'
<1>1. /\ flushed' = <<>> /\ Written(flushed) /\ Lists /\ UNCHANGED <<queue, held, main, worker, hand, made>>
  BY DEF AuditInv, FlushWrite
<1>2. /\ file' \in Seq(Nat) /\ IsFiniteSet(refused') /\ Cardinality(refused') \in Nat
      /\ ToSet(file') \cup refused' = ToSet(file) \cup ToSet(flushed) \cup refused
      /\ Len(file') + Cardinality(refused') <= Len(file) + Len(flushed) + Cardinality(refused)
  BY <1>1, WrittenIs DEF Lists
<1>3. Lists' /\ Len(queue) \in Nat /\ Len(hand) \in Nat /\ Len(flushed) \in Nat
      /\ Len(file) \in Nat /\ Len(file') \in Nat /\ Cardinality(refused) \in Nat
      /\ ToSet(flushed') = {} /\ Len(flushed') = 0
  BY <1>1, <1>2, EmptySeq, LenProperties, ElementsOfEmpty, RefusedFinite DEF Lists
<1>4. Placed' \cup refused' = 1 .. made'
  BY <1>1, <1>2, <1>3 DEF AuditInv, Placed
<1>5. Places' + Cardinality(refused') <= made'
  BY <1>1, <1>2, <1>3 DEF AuditInv, Places
<1>6. Places' + Cardinality(refused') >= made' /\ Places' \in Nat /\ made' \in Nat
  <2>1. /\ ToSet(queue') \cup ToSet(hand') \cup ToSet(flushed') \cup ToSet(file') \cup refused'
             = 1 .. made'
        /\ made' \in Nat
    BY <1>1, <1>4, RefusedFinite DEF Placed
  <2>2. Len(queue') + Len(hand') + Len(flushed') + Len(file') + Cardinality(refused') >= made'
    BY <1>2, <1>3, <2>1, PlacesEnough DEF Lists
  <2> QED BY <1>1, <1>3, <2>1, <2>2 DEF Places
<1>7. Places' + Cardinality(refused') = made'
  BY <1>2, <1>5, <1>6
<1> QED BY <1>1, <1>3, <1>4, <1>7 DEF AuditInv

LEMMA TakeStep ==
  ASSUME AuditInv, Take
  PROVE  AuditInv'
<1>1. /\ hand = <<>> /\ hand' = <<Head(queue)>> /\ queue' = Tail(queue) /\ worker' = "taking"
      /\ UNCHANGED <<held, main, flushed, file, refused, made>> /\ Lists /\ queue # <<>>
  BY DEF AuditInv, Take
<1>2. /\ queue' \in Seq(Nat) /\ Len(queue') = Len(queue) - 1 /\ Head(queue) \in Nat
      /\ ToSet(queue) = ToSet(queue') \cup {Head(queue)}
  BY <1>1, ElementsOfTail DEF Lists
<1>3. hand' = Append(hand, Head(queue))
  BY <1>1
<1>4. /\ hand' \in Seq(Nat) /\ Len(hand') = Len(hand) + 1
      /\ ToSet(hand') = ToSet(hand) \cup {Head(queue)}
  <2>1. /\ Append(hand, Head(queue)) \in Seq(Nat)
        /\ Len(Append(hand, Head(queue))) = Len(hand) + 1
        /\ ToSet(Append(hand, Head(queue))) = ToSet(hand) \cup {Head(queue)}
    <3> DEFINE e == Head(queue)
    <3>1. hand \in Seq(Nat) /\ e \in Nat
      BY <1>1, <1>2 DEF Lists
    <3> HIDE DEF e
    <3>2. /\ Append(hand, e) \in Seq(Nat) /\ Len(Append(hand, e)) = Len(hand) + 1
          /\ ToSet(Append(hand, e)) = ToSet(hand) \cup {e}
      BY <3>1, ElementsOfAppend
    <3> QED BY <3>2 DEF e
  <2> QED BY <1>3, <2>1
<1>5. /\ Len(queue) \in Nat /\ Len(hand) \in Nat /\ Len(flushed) \in Nat
      /\ Len(file) \in Nat /\ Lists'
  BY <1>1, <1>2, <1>4, LenProperties DEF Lists
<1>6. Placed' = Placed /\ Places' = Places
  BY <1>1, <1>2, <1>4, <1>5 DEF Placed, Places
<1> QED BY <1>1, <1>5, <1>6 DEF AuditInv, Take

LEMMA TakeMoreStep ==
  ASSUME AuditInv, TakeMore
  PROVE  AuditInv'
<1>1. CASE queue # <<>>
  <2>1. /\ hand' = Append(hand, Head(queue)) /\ queue' = Tail(queue) /\ worker = "taking"
        /\ UNCHANGED <<held, main, worker, flushed, file, refused, made>> /\ Lists
    BY <1>1 DEF AuditInv, TakeMore
  <2>2. /\ queue' \in Seq(Nat) /\ Len(queue') = Len(queue) - 1 /\ Head(queue) \in Nat
        /\ ToSet(queue) = ToSet(queue') \cup {Head(queue)}
    BY <1>1, <2>1, ElementsOfTail DEF Lists
  <2>3. /\ hand' \in Seq(Nat) /\ Len(hand') = Len(hand) + 1
        /\ ToSet(hand') = ToSet(hand) \cup {Head(queue)}
    BY <2>1, <2>2, ElementsOfAppend DEF Lists
  <2>4. /\ Len(queue) \in Nat /\ Len(hand) \in Nat /\ Len(flushed) \in Nat
        /\ Len(file) \in Nat /\ Lists'
    BY <2>1, <2>2, <2>3, LenProperties DEF Lists
  <2>5. Placed' = Placed /\ Places' = Places
    BY <2>1, <2>2, <2>3, <2>4 DEF Placed, Places
  <2> QED BY <1>1, <2>1, <2>4, <2>5 DEF AuditInv
<1>2. CASE queue = <<>>
  BY <1>2 DEF AuditInv, TakeMore, Lists, Placed, Places
<1> QED BY <1>1, <1>2

LEMMA WriteBatchStep ==
  ASSUME AuditInv, WriteBatch
  PROVE  AuditInv'
<1>1. /\ hand' = <<>> /\ worker' = "waiting" /\ Written(hand) /\ Lists
      /\ UNCHANGED <<queue, held, main, flushed, made>>
  BY DEF AuditInv, WriteBatch
<1>2. /\ file' \in Seq(Nat) /\ IsFiniteSet(refused') /\ Cardinality(refused') \in Nat
      /\ ToSet(file') \cup refused' = ToSet(file) \cup ToSet(hand) \cup refused
      /\ Len(file') + Cardinality(refused') <= Len(file) + Len(hand) + Cardinality(refused)
  BY <1>1, WrittenIs DEF Lists
<1>3. Lists' /\ Len(queue) \in Nat /\ Len(hand) \in Nat /\ Len(flushed) \in Nat
      /\ Len(file) \in Nat /\ Len(file') \in Nat /\ Cardinality(refused) \in Nat
      /\ ToSet(hand') = {} /\ Len(hand') = 0
  BY <1>1, <1>2, EmptySeq, LenProperties, ElementsOfEmpty, RefusedFinite DEF Lists
<1>4. Placed' \cup refused' = 1 .. made'
  BY <1>1, <1>2, <1>3 DEF AuditInv, Placed
<1>5. Places' + Cardinality(refused') <= made'
  BY <1>1, <1>2, <1>3 DEF AuditInv, Places
<1>6. Places' + Cardinality(refused') >= made' /\ Places' \in Nat /\ made' \in Nat
  <2>1. /\ ToSet(queue') \cup ToSet(hand') \cup ToSet(flushed') \cup ToSet(file') \cup refused'
             = 1 .. made'
        /\ made' \in Nat
    BY <1>1, <1>4, RefusedFinite DEF Placed
  <2>2. Len(queue') + Len(hand') + Len(flushed') + Len(file') + Cardinality(refused') >= made'
    BY <1>2, <1>3, <2>1, PlacesEnough DEF Lists
  <2> QED BY <1>1, <1>3, <2>1, <2>2 DEF Places
<1>7. Places' + Cardinality(refused') = made'
  BY <1>2, <1>5, <1>6
<1> QED BY <1>1, <1>3, <1>4, <1>7 DEF AuditInv

(* Every entry was refused, or is once in the queue, in a batch or in the  *)
(* file, and when the process has ended none is left in the queue or with  *)
(* the flush: for any number of entries and a signal at any point.         *)
THEOREM NoEntryLostOrDoubled == AuditSpec => [](AuditConserved /\ AuditTypeOK)
<1>1. ASSUME AuditInv, [AuditNext]_auditVars PROVE AuditInv'
  <2>1. ASSUME LockQueue PROVE AuditInv'
    BY <1>1, <2>1 DEF AuditInv, LockQueue, Lists, Placed, Places
  <2>2. ASSUME PutEntry PROVE AuditInv'
    BY <1>1, <2>2, PutStep
  <2>3. ASSUME UnlockQueue PROVE AuditInv'
    BY <1>1, <2>3 DEF AuditInv, UnlockQueue, Lists, Placed, Places
  <2>4. ASSUME ShutDown PROVE AuditInv'
    BY <1>1, <2>4 DEF AuditInv, ShutDown, Lists, Placed, Places
  <2>5. ASSUME End PROVE AuditInv'
    BY <1>1, <2>5 DEF AuditInv, End, Lists, Placed, Places
  <2>6. ASSUME UNCHANGED auditVars PROVE AuditInv'
    BY <1>1, <2>6 DEF AuditInv, auditVars, Lists, Placed, Places
  <2> QED BY <1>1, <2>1, <2>2, <2>3, <2>4, <2>5, <2>6, FlushTakeStep, FlushWriteStep, TakeStep,
             TakeMoreStep, WriteBatchStep DEF AuditNext
<1>2. ASSUME AuditInv PROVE AuditConserved /\ AuditTypeOK
  <2> USE <1>2
  <2>1. /\ queue \in Seq(Nat) /\ hand \in Seq(Nat) /\ flushed \in Seq(Nat) /\ file \in Seq(Nat)
        /\ Len(queue) \in Nat /\ Len(hand) \in Nat /\ Len(flushed) \in Nat /\ Len(file) \in Nat
    BY LenProperties DEF AuditInv, Lists
  <2>2. /\ queue \o hand \in Seq(Nat) /\ Len(queue \o hand) = Len(queue) + Len(hand)
        /\ ToSet(queue \o hand) = ToSet(queue) \cup ToSet(hand)
    BY <2>1, Joined
  <2>3. /\ (queue \o hand) \o flushed \in Seq(Nat)
        /\ Len((queue \o hand) \o flushed) = Len(queue \o hand) + Len(flushed)
        /\ ToSet((queue \o hand) \o flushed) = ToSet(queue \o hand) \cup ToSet(flushed)
    BY <2>1, <2>2, Joined
  <2>4. /\ Len(((queue \o hand) \o flushed) \o file) = Len((queue \o hand) \o flushed) + Len(file)
        /\ ToSet(((queue \o hand) \o flushed) \o file)
             = ToSet((queue \o hand) \o flushed) \cup ToSet(file)
    BY <2>1, <2>3, Joined
  <2> DEFINE all == queue \o hand \o flushed \o file
  <2>5. ToSet(all) = Placed /\ Len(all) = Places
    BY <2>1, <2>2, <2>3, <2>4 DEF Placed, Places
  <2> HIDE DEF all
  <2>6. ToSet(all) \cup refused = 1 .. made /\ Len(all) + Cardinality(refused) = made
    BY <2>5 DEF AuditInv
  <2>7. AuditConserved
    BY <2>6 DEF AuditInv, AuditConserved, all
  <2>8. AuditTypeOK
    BY DEF AuditInv, AuditTypeOK, Placed
  <2> QED BY <2>7, <2>8
<1> QED BY <1>1, <1>2, AuditStart, PTL DEF AuditSpec

-----------------------------------------------------------------------------
PlaybookRun ==
  [at : PlaybookStages, text : BOOLEAN, srcip : {NoAddress, "given"}, explicit : BOOLEAN,
   template : Templates, srcips : {{}, Found}, selected : {NoAddress} \cup Found,
   retry : 0 .. Len(Ladder), tried : SUBSET Templates, investigated : BOOLEAN, errors : Nat]
(* What a run has hunted: the rungs it has left, with the one it is about  *)
(* to hunt, and, once it has nothing to go on, the whole ladder.           *)
NothingFound(s) == s.selected = NoAddress /\ s.srcip = NoAddress /\ ~s.text
Climbed(s) ==
  /\ s.at \in {"new", "select"} => s.retry = 0
  /\ s.at = "hunt" => \A i \in 1 .. s.retry : Ladder[i] \in s.tried \cup {s.template}
  /\ s.at = "supervise" => s.template \in s.tried /\ \A i \in 1 .. s.retry : Ladder[i] \in s.tried
  /\ s.at = "investigate" => ~NothingFound(s)
  /\ s.at = "end" /\ NothingFound(s) => ToSet(Ladder) \subseteq s.tried
PlaybookInv ==
  /\ liveIndex \in {"unasked", "asked", "loaded", "unavailable"}
  /\ run \in [Runs -> PlaybookRun]
  /\ \A r \in Runs : Climbed(run[r])

LEMMA LadderIs ==
  /\ Len(Ladder) \in Nat /\ Len(Ladder) >= 1
  /\ \A i \in 1 .. Len(Ladder) : Ladder[i] \in Templates
  /\ ToSet(Ladder) = {Ladder[i] : i \in 1 .. Len(Ladder)}
<1>1. Ladder \in Seq(Templates) /\ Len(Ladder) \in Nat /\ Len(Ladder) > 0
  BY PlaybookAssumption, LenProperties
<1> QED BY <1>1, ElementsIs, ElementOfSeq

LEMMA PlaybookStart == PlaybookInit => PlaybookInv
<1> SUFFICES ASSUME PlaybookInit PROVE PlaybookInv
  OBVIOUS
<1>1. Ladder[1] \in Templates /\ 0 \in 0 .. Len(Ladder)
  BY LadderIs
<1>2. NewRun \in PlaybookRun
  BY <1>1 DEF NewRun, PlaybookRun, PlaybookStages
<1>3. Climbed(NewRun)
  BY DEF Climbed, NewRun
<1> QED BY <1>2, <1>3 DEF PlaybookInit, PlaybookInv

(* A step of one run.                                                      *)
LEMMA PlaybookStepOf ==
  ASSUME PlaybookInv, NEW r \in Runs, NEW s, run' = [run EXCEPT ![r] = s],
         s \in PlaybookRun, Climbed(s),
         liveIndex' \in {"unasked", "asked", "loaded", "unavailable"}
  PROVE  PlaybookInv'
<1>1. run' \in [Runs -> PlaybookRun]
  BY DEF PlaybookInv
<1>2. \A q \in Runs : run'[q] = IF q = r THEN s ELSE run[q]
  BY DEF PlaybookInv
<1>3. \A q \in Runs : Climbed(run'[q])
  BY <1>2 DEF PlaybookInv
<1> QED BY <1>1, <1>3 DEF PlaybookInv, Climbed, NothingFound

LEMMA StartPlaybookStep ==
  ASSUME PlaybookInv, NEW r \in Runs, StartPlaybook(r)
  PROVE  PlaybookInv'
<1>1. run[r] \in PlaybookRun /\ Climbed(run[r]) /\ run[r].at = "new"
  BY DEF PlaybookInv, StartPlaybook
<1>2. PICK text \in BOOLEAN, srcip \in {NoAddress, "given"}, t \in Templates, explicit \in BOOLEAN :
        run' = [run EXCEPT ![r].at = "select", ![r].text = text, ![r].srcip = srcip,
                           ![r].template = t, ![r].explicit = explicit]
  BY DEF StartPlaybook
<1> DEFINE s == [run[r] EXCEPT !.at = "select", !.text = text, !.srcip = srcip,
                               !.template = t, !.explicit = explicit]
<1>3. run' = [run EXCEPT ![r] = s]
  BY <1>2
<1>4. s \in PlaybookRun /\ s.at = "select" /\ s.retry = 0
  BY <1>1 DEF PlaybookRun, PlaybookStages, Climbed
<1>5. liveIndex' \in {"unasked", "asked", "loaded", "unavailable"}
  BY DEF PlaybookInv, StartPlaybook
<1> HIDE DEF s
<1>6. Climbed(s)
  BY <1>4 DEF Climbed
<1> QED BY <1>3, <1>4, <1>5, <1>6, PlaybookStepOf

LEMMA SelectStep ==
  ASSUME PlaybookInv, NEW r \in Runs, Select(r)
  PROVE  PlaybookInv'
<1>1. run[r] \in PlaybookRun /\ Climbed(run[r]) /\ run[r].at = "select"
  BY DEF PlaybookInv, Select
<1>2. PICK t \in IF run[r].explicit THEN {run[r].template} ELSE Templates :
        run' = [run EXCEPT ![r].at = "hunt", ![r].template = t]
  BY DEF Select
<1>3. t \in Templates
  BY <1>1, <1>2 DEF PlaybookRun
<1> DEFINE s == [run[r] EXCEPT !.at = "hunt", !.template = t]
<1>4. run' = [run EXCEPT ![r] = s]
  BY <1>2
<1>5. s \in PlaybookRun /\ s.at = "hunt" /\ s.retry = 0
  BY <1>1, <1>3 DEF PlaybookRun, PlaybookStages, Climbed
<1>6. liveIndex' \in {"unasked", "asked", "loaded", "unavailable"}
  BY DEF PlaybookInv, Select
<1> HIDE DEF s
<1>7. Climbed(s)
  BY <1>5 DEF Climbed
<1> QED BY <1>4, <1>5, <1>6, <1>7, PlaybookStepOf

LEMMA HuntStep ==
  ASSUME PlaybookInv, NEW r \in Runs, Hunt(r)
  PROVE  PlaybookInv'
<1>1. run[r] \in PlaybookRun /\ Climbed(run[r]) /\ run[r].at = "hunt"
  BY DEF PlaybookInv, Hunt
<1>2. PICK found \in {{}, Found}, failed \in BOOLEAN :
        run' = [run EXCEPT ![r].at = "supervise", ![r].srcips = found,
                           ![r].tried = @ \cup {run[r].template},
                           ![r].errors = IF failed THEN @ + 1 ELSE @]
  BY DEF Hunt
<1> DEFINE n == IF failed THEN run[r].errors + 1 ELSE run[r].errors
           tried == run[r].tried \cup {run[r].template}
           s == [run[r] EXCEPT !.at = "supervise", !.srcips = found, !.tried = tried, !.errors = n]
<1>3. run' = [run EXCEPT ![r] = s]
  BY <1>2
<1>4. /\ run[r].errors \in Nat /\ run[r].template \in Templates /\ run[r].tried \subseteq Templates
  BY <1>1 DEF PlaybookRun
<1>5. s \in PlaybookRun
  <2>1. n \in Nat /\ tried \in SUBSET Templates
    BY <1>4
  <2> HIDE DEF n, tried
  <2> QED BY <1>1, <2>1 DEF PlaybookRun, PlaybookStages
<1>6. /\ s.at = "supervise" /\ s.retry = run[r].retry /\ s.template = run[r].template
      /\ s.tried = run[r].tried \cup {run[r].template}
  BY <1>1 DEF PlaybookRun
<1>7. liveIndex' \in {"unasked", "asked", "loaded", "unavailable"}
  BY DEF PlaybookInv, Hunt
<1> HIDE DEF s
<1>8. Climbed(s)
  BY <1>1, <1>6 DEF Climbed
<1> QED BY <1>3, <1>5, <1>7, <1>8, PlaybookStepOf

LEMMA SuperviseStep ==
  ASSUME PlaybookInv, NEW r \in Runs, Supervise(r)
  PROVE  PlaybookInv'
<1> DEFINE s == [run[r] EXCEPT !.selected = IF run[r].srcips # {} /\ @ = NoAddress
                                            THEN CHOOSE a \in run[r].srcips : TRUE ELSE @]
           n == Len(Ladder)
           k == Rung(s)
           up == [s EXCEPT !.at = "hunt", !.template = Ladder[k + 1], !.retry = k + 1]
           next == IF s.selected # NoAddress \/ s.srcip # NoAddress \/ s.text
                   THEN [s EXCEPT !.at = "investigate"]
                   ELSE IF s.retry < n /\ k < n THEN up ELSE [s EXCEPT !.at = "end"]
<1>1. run[r] \in PlaybookRun /\ Climbed(run[r]) /\ run[r].at = "supervise"
  BY DEF PlaybookInv, Supervise
<1>2. run' = [run EXCEPT ![r] = next]
  BY DEF Supervise
<1>3. run[r].srcips # {} => (CHOOSE a \in run[r].srcips : TRUE) \in Found
  BY <1>1 DEF PlaybookRun, Found
<1>4. s \in PlaybookRun /\ s.at = "supervise" /\ s.retry = run[r].retry
      /\ s.template = run[r].template /\ s.tried = run[r].tried
  BY <1>1, <1>3 DEF PlaybookRun
<1>5. s.template \in s.tried /\ \A i \in 1 .. s.retry : Ladder[i] \in s.tried
  BY <1>1, <1>4 DEF Climbed
<1>6. liveIndex' \in {"unasked", "asked", "loaded", "unavailable"}
  BY DEF PlaybookInv, Supervise
<1> HIDE DEF s
<1>7. s.retry \in 0 .. n /\ n \in Nat
  BY <1>4, LadderIs DEF PlaybookRun
<1>8. /\ k \in Nat /\ s.retry <= k
      /\ k # s.retry => k = s.retry + 1 /\ s.retry < n /\ Ladder[k] = s.template
  BY <1>7 DEF Rung
<1>9. \A i \in 1 .. k : Ladder[i] \in s.tried
  <2> SUFFICES ASSUME NEW i \in 1 .. k PROVE Ladder[i] \in s.tried
    OBVIOUS
  <2>1. i \in 1 .. s.retry \/ (i = k /\ k # s.retry)
    BY <1>7, <1>8
  <2> QED BY <1>5, <1>8, <2>1
<1> HIDE DEF k
<1>10. CASE s.selected # NoAddress \/ s.srcip # NoAddress \/ s.text
  <2> DEFINE t == [s EXCEPT !.at = "investigate"]
  <2>1. t \in PlaybookRun /\ t.at = "investigate" /\ t.selected = s.selected /\ t.srcip = s.srcip
        /\ t.text = s.text
    BY <1>4 DEF PlaybookRun, PlaybookStages
  <2>2. next = t
    BY <1>10
  <2> HIDE DEF t
  <2>3. Climbed(t)
    BY <1>10, <2>1 DEF Climbed, NothingFound
  <2> QED BY <1>2, <1>6, <2>1, <2>2, <2>3, PlaybookStepOf
<1>11. CASE ~(s.selected # NoAddress \/ s.srcip # NoAddress \/ s.text) /\ s.retry < n /\ k < n
  <2>1. k + 1 \in 1 .. n /\ Ladder[k + 1] \in Templates /\ k + 1 \in 0 .. n
    BY <1>7, <1>8, <1>11, LadderIs
  <2>2. up \in PlaybookRun /\ up.at = "hunt" /\ up.template = Ladder[k + 1] /\ up.retry = k + 1
        /\ up.tried = s.tried
    BY <1>4, <2>1 DEF PlaybookRun, PlaybookStages
  <2>3. next = up
    BY <1>11
  <2> HIDE DEF up
  <2>4. \A i \in 1 .. up.retry : Ladder[i] \in up.tried \cup {up.template}
    <3> SUFFICES ASSUME NEW i \in 1 .. k + 1 PROVE Ladder[i] \in s.tried \cup {Ladder[k + 1]}
      BY <2>2
    <3>1. i \in 1 .. k \/ i = k + 1
      BY <1>8
    <3> QED BY <1>9, <3>1
  <2>5. Climbed(up)
    BY <2>2, <2>4 DEF Climbed
  <2> QED BY <1>2, <1>6, <2>2, <2>3, <2>5, PlaybookStepOf
<1>12. CASE ~(s.selected # NoAddress \/ s.srcip # NoAddress \/ s.text) /\ ~(s.retry < n /\ k < n)
  <2> DEFINE t == [s EXCEPT !.at = "end"]
  <2>1. t \in PlaybookRun /\ t.at = "end" /\ t.tried = s.tried
    BY <1>4 DEF PlaybookRun, PlaybookStages
  <2>2. next = t
    BY <1>12
  <2>3. \A i \in 1 .. n : i \in 1 .. k
    BY <1>7, <1>8, <1>12
  <2>4. ToSet(Ladder) \subseteq s.tried
    BY <1>9, <2>3, LadderIs
  <2> HIDE DEF t
  <2>5. Climbed(t)
    BY <2>1, <2>4 DEF Climbed
  <2> QED BY <1>2, <1>6, <2>1, <2>2, <2>5, PlaybookStepOf
<1> QED BY <1>10, <1>11, <1>12

LEMMA InvestigateStep ==
  ASSUME PlaybookInv, NEW r \in Runs, Investigate(r)
  PROVE  PlaybookInv'
<1>1. run[r] \in PlaybookRun /\ Climbed(run[r]) /\ run[r].at = "investigate"
  BY DEF PlaybookInv, Investigate
<1>2. PICK failed \in BOOLEAN :
       run' = [run EXCEPT ![r].at = "end", ![r].investigated = ~failed,
                          ![r].errors = IF failed THEN @ + 1 ELSE @]
  BY DEF Investigate
<1> DEFINE n == IF failed THEN run[r].errors + 1 ELSE run[r].errors
           done == ~failed
           s == [run[r] EXCEPT !.at = "end", !.investigated = done, !.errors = n]
<1>3. run' = [run EXCEPT ![r] = s]
  BY <1>2
<1>4. run[r].errors \in Nat
  BY <1>1 DEF PlaybookRun
<1>5. s \in PlaybookRun
  <2>1. n \in Nat /\ done \in BOOLEAN
    BY <1>4
  <2> HIDE DEF n, done
  <2> QED BY <1>1, <2>1 DEF PlaybookRun, PlaybookStages
<1>6. s.at = "end" /\ s.selected = run[r].selected /\ s.srcip = run[r].srcip /\ s.text = run[r].text
  BY <1>1 DEF PlaybookRun
<1>7. liveIndex' \in {"unasked", "asked", "loaded", "unavailable"}
  BY DEF PlaybookInv, Investigate
<1> HIDE DEF s
<1>8. Climbed(s)
  BY <1>1, <1>6 DEF Climbed, NothingFound
<1> QED BY <1>3, <1>5, <1>7, <1>8, PlaybookStepOf

(* A run that ends with nothing to investigate has tried every template of *)
(* the ladder, whichever it began with: for any ladder, templates and      *)
(* number of runs.                                                         *)
THEOREM WholeLadderTried == PlaybookSpec => [](GivesUpAfterAll /\ PlaybookTypeOK)
<1>1. ASSUME PlaybookInv, [PlaybookNext]_playbookVars PROVE PlaybookInv'
  <2>1. ASSUME RulesAnswer PROVE PlaybookInv'
    BY <1>1, <2>1 DEF PlaybookInv, RulesAnswer, Climbed, NothingFound
  <2>2. ASSUME UNCHANGED playbookVars PROVE PlaybookInv'
    BY <1>1, <2>2 DEF PlaybookInv, playbookVars, Climbed, NothingFound
  <2> QED BY <1>1, <2>1, <2>2, StartPlaybookStep, SelectStep, HuntStep, SuperviseStep,
             InvestigateStep DEF PlaybookNext
<1>2. PlaybookInv => GivesUpAfterAll
  BY DEF PlaybookInv, Climbed, NothingFound, GivesUpAfterAll
<1>3. PlaybookInv => PlaybookTypeOK
  BY DEF PlaybookInv, PlaybookRun, PlaybookTypeOK
<1> QED BY <1>1, <1>2, <1>3, PlaybookStart, PTL DEF PlaybookSpec

-----------------------------------------------------------------------------
(* AlertPaging: the types.  A cursor is an alert or a place in the file,   *)
(* and 0 is no cursor: all of them are numbers.                            *)
PagingTypes ==
  /\ index \in SUBSET Alerts /\ floor \in Nat /\ alertLog \in Seq(Alerts)
  /\ walk \in [tool : PagingTools \cup {"none"},
               state : {"idle", "walking", "scanning", "ended", "failed"}, cursor : Nat,
               scan : Seq(Alerts), shown : SUBSET Alerts, listed : SUBSET Alerts, again : BOOLEAN,
               base : SUBSET Alerts, capped : BOOLEAN]
  /\ walk.state # "idle" => walk.tool \in PagingTools

LEMMA PageNumbers ==
  /\ Limit \in Nat \ {0} /\ Room \in Nat /\ Blocks \in Nat /\ MaxScan \in Nat /\ TotalCap \in Nat
  /\ TailLines \in Nat /\ Alerts \subseteq Nat \ {0} /\ IsFiniteSet(Alerts)
  /\ PagingTools \subseteq {"alerts", "local", "search", "crawl", "crawlMarkdown", "domain", "export"}
BY PagingAssumption

LEMMA CutType ==
  ASSUME NEW s \in Seq(Alerts), NEW m \in Nat \ {0}, NEW n \in Int, n <= Len(s)
  PROVE  SubSeq(s, m, n) \in Seq(Alerts) /\ ToSet(SubSeq(s, m, n)) \subseteq Alerts
<1>0. Len(s) \in Nat
  BY LenProperties
<1>1. SubSeq(s, m, n) \in Seq(Alerts)
  <2>1. \A i \in m..n : s[i] \in Alerts
    BY <1>0, ElementOfSeq
  <2> QED BY <2>1, SubSeqProperties
<1>2. ToSet(SubSeq(s, m, n)) \subseteq Alerts
  BY <1>1, ElementsIs, ElementOfSeq
<1> QED BY <1>1, <1>2

LEMMA LeastOfThree ==
  ASSUME NEW a \in Int, NEW b \in Int, NEW c \in Int
  PROVE  LET m == Min({a, b, c}) IN m \in Int /\ m <= a /\ m <= b /\ m <= c
<1>1. IsFiniteSet({a, b, c})
  <2>1. IsFiniteSet({a}) /\ IsFiniteSet({a} \cup {b}) /\ IsFiniteSet(({a} \cup {b}) \cup {c})
    BY FS_Singleton, FS_AddElement
  <2>2. {a, b, c} = ({a} \cup {b}) \cup {c}
    OBVIOUS
  <2> QED BY <2>1, <2>2
<1>2. \E x \in {a, b, c} : \A y \in {a, b, c} : x <= y
  BY <1>1, LeastOfFinite
<1> QED BY <1>2 DEF Min

LEMMA HitsType ==
  ASSUME PagingTypes, NEW tool, NEW cursor, NEW size \in Int
  PROVE  Hits(tool, cursor, size) \in Seq(Alerts)
<1> DEFINE s == InOrder(After(tool, cursor))
<1>1. After(tool, cursor) \in SUBSET Alerts
  BY DEF After, PagingTypes
<1>2. s \in Seq(Alerts) /\ Len(s) \in Nat
  <2>1. s \in Seq(After(tool, cursor))
    BY <1>1, InOrderIs
  <2>2. s \in Seq(Alerts)
    BY <1>1, <2>1, SeqDef
  <2> QED BY <2>2, LenProperties
<1> HIDE DEF s
<1> DEFINE n == Min({size, Len(s)})
<1>3. n \in Int /\ n <= Len(s)
  <2>1. Len(s) \in Int
    BY <1>2
  <2> HIDE DEF s
  <2>2. Min({size, Len(s)}) \in {size, Len(s)} /\ Min({size, Len(s)}) <= Len(s)
    BY <2>1, LesserIs
  <2> QED BY <2>1, <2>2
<1> HIDE DEF n
<1>4. SubSeq(s, 1, n) \in Seq(Alerts)
  <2>1. 1 \in Nat \ {0}
    OBVIOUS
  <2> QED BY <1>2, <1>3, <2>1, CutType
<1> QED BY <1>4 DEF Hits, s, n

PageType == [shows : SUBSET Alerts, lists : SUBSET Alerts, next : Nat]
LEMMA PrefixType ==
  ASSUME NEW h \in Seq(Alerts), NEW rest \in Nat
  PROVE  Prefix(h, FitPrefix(h), rest) \in PageType
<1> DEFINE k == FitPrefix(h)
<1>1. k \in 0..Len(h) /\ Len(h) \in Nat
  BY FitPrefixType, LenProperties
<1> HIDE DEF k
<1>2. ToSet(SubSeq(h, 1, k)) \subseteq Alerts
  BY <1>1, CutType
<1>3. \A i \in 1..Len(h) : h[i] \in Alerts /\ h[i] \in Nat
  BY ElementOfSeq, PageNumbers
<1>4. h # << >> => Len(h) > 0
  BY <1>1, EmptySeq
<1>5. (IF k = 0 /\ h # << >> THEN {h[1]} ELSE {}) \subseteq Alerts
  BY <1>1, <1>3, <1>4
<1>6. (IF k < Len(h) THEN Boundary(h, k) ELSE rest) \in Nat
  BY <1>1, <1>3 DEF Boundary
<1>7. Prefix(h, k, rest) \in PageType
  BY <1>2, <1>5, <1>6 DEF Prefix, PageType
<1> QED BY <1>7 DEF k

LEMMA FullPageType ==
  ASSUME NEW h \in Seq(Alerts)
  PROVE  FullPage(h) \in Nat
<1>1. Len(h) \in Nat /\ (Len(h) > 0 => h[Len(h)] \in Alerts)
  BY LenProperties, ElementOfSeq
<1>2. CASE Len(h) >= Limit
  <2>1. FullPage(h) = h[Len(h)] /\ Len(h) > 0
    BY <1>1, <1>2, PageNumbers DEF FullPage, Last
  <2> QED BY <1>1, <2>1, PageNumbers
<1>3. CASE ~(Len(h) >= Limit)
  BY <1>3 DEF FullPage, NoCursor
<1> QED BY <1>2, <1>3

LEMMA PagesAre ==
  ASSUME NEW h \in Seq(Alerts)
  PROVE  Paged(h) \in PageType /\ Rendered(h) \in PageType /\ Listed(h) \in PageType
         /\ Searched(h) \in PageType
<1>1. FullPage(h) \in Nat
  BY FullPageType
<1>2. Paged(h) \in PageType
  BY <1>1, PrefixType DEF Paged
<1>3. Rendered(h) \in PageType
  <2> DEFINE n == Min({Blocks, Len(h)})
             blocks == SubSeq(h, 1, n)
  <2>1. n \in Int /\ n <= Len(h)
    <3>1. Len(h) \in Int /\ Blocks \in Int
      BY LenProperties, PageNumbers
    <3>2. Min({Blocks, Len(h)}) \in {Blocks, Len(h)} /\ Min({Blocks, Len(h)}) <= Len(h)
      BY <3>1, LesserIs
    <3> QED BY <3>1, <3>2
  <2> HIDE DEF n
  <2>2. blocks \in Seq(Alerts)
    <3>1. 1 \in Nat \ {0}
      OBVIOUS
    <3> QED BY <2>1, <3>1, CutType
  <2> HIDE DEF blocks
  <2>3. Prefix(blocks, FitPrefix(blocks), FullPage(h)) \in PageType
    BY <1>1, <2>2, PrefixType
  <2> QED BY <2>3 DEF Rendered, blocks, n
<1>4. Listed(h) \in PageType
  <2>1. ToSet(h) \subseteq Alerts
    BY ElementsIs, ElementOfSeq
  <2> QED BY <1>1, <2>1 DEF Listed, PageType
<1>5. Searched(h) \in PageType
  <2> DEFINE rest == IF h # << >> /\ Len(h) < Min({Cardinality(index), TotalCap})
                     THEN Last(h) ELSE NoCursor
  <2>1. rest \in Nat
    <3>1. h # << >> => h[Len(h)] \in Alerts
      BY EmptySeq, LenProperties, ElementOfSeq
    <3> QED BY <3>1, PageNumbers DEF Last, NoCursor
  <2> HIDE DEF rest
  <2>2. Prefix(h, FitPrefix(h), rest) \in PageType
    BY <2>1, PrefixType
  <2> QED BY <2>2 DEF Searched, rest
<1> QED BY <1>2, <1>3, <1>4, <1>5

LEMMA LocalIs ==
  ASSUME PagingTypes, NEW skip \in Nat
  PROVE  LocalPage(skip) \in PageType
<1> DEFINE all == Len(alertLog)
           n == Min({(skip + Limit) * 3, TailLines, all})
           lines == SubSeq(alertLog, all - n + 1, all)
           m == Min({skip + Limit, Len(lines)})
           kept == SubSeq(lines, skip + 1, m)
           scanned == Min({skip + Limit + 1, Len(lines)})
           k == FitPrefix(kept)
<1>0. all \in Nat /\ skip + Limit \in Nat /\ (skip + Limit) * 3 \in Nat /\ TailLines \in Nat
      /\ skip + 1 \in Nat \ {0} /\ skip + Limit + 1 \in Nat
  BY LenProperties, PageNumbers DEF PagingTypes
<1>1. n \in Int /\ n <= all
  <2> DEFINE reads == (skip + Limit) * 3
  <2>1. reads \in Int /\ TailLines \in Int /\ all \in Int
    BY <1>0
  <2> HIDE DEF all, reads
  <2>2. LET least == Min({reads, TailLines, all}) IN
        least \in Int /\ least <= reads /\ least <= TailLines /\ least <= all
    BY <2>1, LeastOfThree
  <2>3. n = Min({reads, TailLines, all})
    BY DEF reads
  <2> QED BY <2>2, <2>3
<1> HIDE DEF n
<1>2. lines \in Seq(Alerts) /\ Len(lines) \in Nat
  <2>1. all - n + 1 \in Nat \ {0} /\ all \in Int /\ all <= Len(alertLog)
    BY <1>0, <1>1
  <2>2. alertLog \in Seq(Alerts)
    BY DEF PagingTypes
  <2> HIDE DEF all
  <2>3. lines \in Seq(Alerts)
    BY <2>1, <2>2, CutType
  <2> QED BY <2>3, LenProperties
<1> HIDE DEF lines
<1>3. m \in Int /\ m <= Len(lines)
  <2>1. skip + Limit \in Int /\ Len(lines) \in Int
    BY <1>0, <1>2
  <2>2. m \in {skip + Limit, Len(lines)} /\ m <= Len(lines)
    BY <2>1, LesserIs
  <2> HIDE DEF m
  <2> QED BY <2>1, <2>2
<1> HIDE DEF m
<1>4. kept \in Seq(Alerts) /\ Len(kept) \in Nat
  <2>1. kept \in Seq(Alerts)
    BY <1>0, <1>2, <1>3, CutType
  <2> QED BY <2>1, LenProperties
<1> HIDE DEF kept
<1>5. k \in 0..Len(kept)
  BY <1>4, FitPrefixType
<1> HIDE DEF k
<1>6. scanned \in Nat
  <2>1. skip + Limit + 1 \in Int /\ Len(lines) \in Int
    BY <1>0, <1>2
  <2>2. Min({skip + Limit + 1, Len(lines)}) \in {skip + Limit + 1, Len(lines)}
    BY <2>1, LesserIs
  <2> QED BY <1>0, <1>2, <2>2
<1> HIDE DEF scanned
<1>7. ToSet(SubSeq(kept, 1, k)) \subseteq Alerts
  BY <1>4, <1>5, CutType
<1>8. (IF k = 0 /\ kept # << >> THEN {kept[1]} ELSE {}) \subseteq Alerts
  <2>1. kept # << >> => kept[1] \in Alerts
    BY <1>4, EmptySeq, ElementOfSeq
  <2> QED BY <2>1
<1>9. (IF k < Len(kept) THEN skip + (IF k > 0 THEN k ELSE 1)
       ELSE IF Len(kept) >= Limit THEN scanned ELSE NoCursor) \in Nat
  BY <1>4, <1>5, <1>6 DEF NoCursor
<1>10. LocalPage(skip)
       = [shows |-> ToSet(SubSeq(kept, 1, k)),
          lists |-> IF k = 0 /\ kept # << >> THEN {kept[1]} ELSE {},
          next |-> IF k < Len(kept) THEN skip + (IF k > 0 THEN k ELSE 1)
                   ELSE IF Len(kept) >= Limit THEN scanned ELSE NoCursor]
  BY DEF LocalPage, Tail3, kept, k, m, lines, n, scanned
<1> QED BY <1>7, <1>8, <1>9, <1>10 DEF PageType

LEMMA ReceiveTypes ==
  ASSUME PagingTypes, walk.state # "idle", NEW page \in PageType, Receive(page),
         UNCHANGED <<index, floor, alertLog>>
  PROVE  PagingTypes'
<1>1. page.shows \in SUBSET Alerts /\ page.lists \in SUBSET Alerts /\ page.next \in Nat
  BY DEF PageType
<1>2. << >> \in Seq(Alerts)
  BY EmptySeq
<1> DEFINE state == IF page.next = NoCursor THEN "ended" ELSE "walking"
           capped == walk.capped \/ (walk.tool = "search" /\ Cardinality(index) > TotalCap)
           again == walk.again \/ page.shows \cap (walk.shown \cup walk.listed) # {}
<1>3. walk' = [tool |-> walk.tool, state |-> state, cursor |-> page.next, scan |-> << >>,
               shown |-> walk.shown \cup page.shows, listed |-> walk.listed \cup page.lists,
               again |-> again, base |-> walk.base, capped |-> capped]
  BY DEF Receive, PagingTypes
<1>4. state \in {"ended", "walking"} /\ capped \in BOOLEAN /\ again \in BOOLEAN
  BY DEF PagingTypes
<1> HIDE DEF state, capped, again
<1>5. walk' \in [tool : PagingTools \cup {"none"},
                state : {"idle", "walking", "scanning", "ended", "failed"}, cursor : Nat,
                scan : Seq(Alerts), shown : SUBSET Alerts, listed : SUBSET Alerts, again : BOOLEAN,
                base : SUBSET Alerts, capped : BOOLEAN]
  BY <1>1, <1>2, <1>3, <1>4 DEF PagingTypes
<1>6. walk'.tool \in PagingTools
  BY <1>3 DEF PagingTypes
<1> QED BY <1>5, <1>6 DEF PagingTypes

LEMMA PagingTypesBegin == PagingInit => PagingTypes
<1> SUFFICES ASSUME PagingInit PROVE PagingTypes
  OBVIOUS
<1>1. index \in SUBSET Alerts /\ walk = NoWalk /\ alertLog = InOrder(index) /\ floor \in Nat
  BY DEF PagingInit
<1>2. alertLog \in Seq(Alerts)
  <2>1. alertLog \in Seq(index)
    BY <1>1, InOrderIs
  <2> QED BY <1>1, <2>1, SeqDef
<1>3. << >> \in Seq(Alerts)
  BY EmptySeq
<1> QED BY <1>1, <1>2, <1>3 DEF PagingTypes, NoWalk, NoCursor

LEMMA PagingTypesStep == PagingTypes /\ [PagingNext]_pagingVars => PagingTypes'
<1> SUFFICES ASSUME PagingTypes, [PagingNext]_pagingVars PROVE PagingTypes'
  OBVIOUS
<1>1. ASSUME NEW a \in Alerts, Arrive(a) PROVE PagingTypes'
  <2>1. /\ index' \in SUBSET Alerts /\ alertLog' \in Seq(Alerts)
        /\ walk' = walk /\ floor' = floor
    BY <1>1, AppendProperties DEF Arrive, PagingTypes
  <2> QED BY <2>1 DEF PagingTypes
<1>2. ASSUME NEW tool \in PagingTools, BeginWalk(tool) PROVE PagingTypes'
  <2>1. << >> \in Seq(Alerts) /\ index \in SUBSET Alerts
    BY EmptySeq DEF PagingTypes
  <2>2. walk' = [tool |-> tool, state |-> "walking", cursor |-> NoCursor, scan |-> << >>,
                 shown |-> {}, listed |-> {}, again |-> FALSE, base |-> index, capped |-> FALSE]
    BY <1>2 DEF BeginWalk, NoWalk
  <2>3. index' = index /\ alertLog' = alertLog /\ floor' = floor
    BY <1>2 DEF BeginWalk
  <2> QED BY <2>1, <2>2, <2>3 DEF PagingTypes, NoCursor
<1>3. ASSUME Turn PROVE PagingTypes'
  <2> DEFINE hits == Hits(walk.tool, walk.cursor, Limit)
             page == CASE walk.tool \in {"alerts", "crawl"} -> Paged(hits)
                       [] walk.tool = "crawlMarkdown" -> Rendered(hits)
                       [] walk.tool = "domain" -> Listed(hits)
                       [] walk.tool = "local" -> LocalPage(walk.cursor)
  <2>1. /\ walk.state = "walking" /\ walk.tool \notin {"search", "export"}
        /\ Receive(page) \/ walk' = [walk EXCEPT !.state = "failed"]
        /\ UNCHANGED <<index, floor, alertLog>>
    <3>1. CASE Refused(hits)
      BY <1>3, <3>1 DEF Turn
    <3>2. CASE ~Refused(hits)
      BY <1>3, <3>2 DEF Turn
    <3> QED BY <3>1, <3>2
  <2>2. walk.cursor \in Nat /\ walk.tool \in PagingTools /\ Limit \in Int
    BY <2>1, PageNumbers DEF PagingTypes
  <2>3. hits \in Seq(Alerts)
    BY <2>2, HitsType
  <2> HIDE DEF hits
  <2>4. /\ Paged(hits) \in PageType /\ Rendered(hits) \in PageType /\ Listed(hits) \in PageType
        /\ LocalPage(walk.cursor) \in PageType
    BY <2>2, <2>3, PagesAre, LocalIs
  <2>5. walk.tool \in {"alerts", "crawl", "crawlMarkdown", "domain", "local"}
    BY <2>1, <2>2, PageNumbers
  <2>6. page \in PageType
    BY <2>4, <2>5
  <2> HIDE DEF page
  <2>7. CASE Receive(page)
    BY <2>1, <2>6, <2>7, ReceiveTypes
  <2>8. CASE walk' = [walk EXCEPT !.state = "failed"]
    BY <2>1, <2>8 DEF PagingTypes
  <2> QED BY <2>1, <2>7, <2>8
<1>4. ASSUME AskSearch PROVE PagingTypes'
  <2> DEFINE size == Min({Limit, MaxScan - Len(walk.scan)})
             hits == Hits("search", ScanFrom, size)
             scan == walk.scan \o hits
  <2>1. /\ walk.state \in {"walking", "scanning"}
        /\ UNCHANGED <<index, floor, alertLog>>
        /\ Receive(Searched(scan)) \/ walk' = [walk EXCEPT !.state = "scanning", !.scan = scan]
    BY <1>4 DEF AskSearch
  <2>2. walk.scan \in Seq(Alerts) /\ Len(walk.scan) \in Nat
    BY LenProperties DEF PagingTypes
  <2>3. size \in Int
    <3>1. Limit \in Int /\ MaxScan - Len(walk.scan) \in Int
      BY <2>2, PageNumbers
    <3>2. size \in {Limit, MaxScan - Len(walk.scan)}
      BY <3>1, LesserIs
    <3> QED BY <3>1, <3>2
  <2> HIDE DEF size
  <2>4. hits \in Seq(Alerts)
    BY <2>3, HitsType
  <2> HIDE DEF hits
  <2>5. scan \in Seq(Alerts)
    BY <2>2, <2>4, ConcatProperties
  <2> HIDE DEF scan
  <2>6. CASE Receive(Searched(scan))
    <3>1. Searched(scan) \in PageType
      BY <2>5, PagesAre
    <3> QED BY <2>1, <2>6, <3>1, ReceiveTypes
  <2>7. CASE walk' = [walk EXCEPT !.state = "scanning", !.scan = scan]
    BY <2>1, <2>5, <2>7 DEF PagingTypes
  <2> QED BY <2>1, <2>6, <2>7
<1>5. ASSUME SearchPageFails PROVE PagingTypes'
  <2>1. walk.scan \in Seq(Alerts)
    BY DEF PagingTypes
  <2>2. Searched(walk.scan) \in PageType
    BY <2>1, PagesAre
  <2> QED BY <1>5, <2>2, ReceiveTypes DEF SearchPageFails
<1>6. ASSUME Scroll PROVE PagingTypes'
  <2> DEFINE left == InOrder(walk.base \ walk.shown)
             least == Min({Limit, Len(left), MaxScan - Cardinality(walk.shown)})
             page == SubSeq(left, 1, least)
  <2>1. /\ walk.tool = "export" /\ walk.state \in {"walking", "scanning"}
        /\ UNCHANGED <<index, floor, alertLog>>
        /\ \/ walk' = [walk EXCEPT !.state = "ended"]
           \/ walk' = [walk EXCEPT !.state = "scanning", !.shown = @ \cup ToSet(page)]
    BY <1>6 DEF Scroll
  <2>2. left \in Seq(Alerts) /\ Len(left) \in Nat
    <3>1. walk.base \ walk.shown \in SUBSET Alerts
      BY DEF PagingTypes
    <3>2. left \in Seq(walk.base \ walk.shown)
      BY <3>1, InOrderIs
    <3>3. left \in Seq(Alerts)
      BY <3>1, <3>2, SeqDef
    <3> QED BY <3>3, LenProperties
  <2> HIDE DEF left
  <2>3. least \in Int /\ least <= Len(left)
    <3> DEFINE room == MaxScan - Cardinality(walk.shown)
    <3>1. room \in Int
      <4>1. IsFiniteSet(walk.shown)
        BY PageNumbers, FS_Subset DEF PagingTypes
      <4> QED BY <4>1, PageNumbers, FS_CardinalityType
    <3>2. Limit \in Int /\ Len(left) \in Int
      BY <2>2, PageNumbers
    <3> HIDE DEF room
    <3>3. LET m == Min({Limit, Len(left), room}) IN m \in Int /\ m <= Limit /\ m <= Len(left) /\ m <= room
      BY <3>1, <3>2, LeastOfThree
    <3> QED BY <3>3 DEF room
  <2> HIDE DEF least
  <2>4. ToSet(page) \subseteq Alerts
    <3>1. 1 \in Nat \ {0}
      OBVIOUS
    <3> QED BY <2>2, <2>3, <3>1, CutType
  <2> HIDE DEF page
  <2>5. CASE walk' = [walk EXCEPT !.state = "ended"]
    BY <2>1, <2>5 DEF PagingTypes
  <2>6. CASE walk' = [walk EXCEPT !.state = "scanning", !.shown = @ \cup ToSet(page)]
    BY <2>1, <2>4, <2>6 DEF PagingTypes
  <2> QED BY <2>1, <2>5, <2>6
<1>7. ASSUME TurnFails PROVE PagingTypes'
  BY <1>7 DEF TurnFails, PagingTypes
<1>9. ASSUME Slide PROVE PagingTypes'
  <2>1. PICK a \in index :
          /\ floor' = At[a] + 1
          /\ index' = {b \in index : At[b] >= floor'}
          /\ walk' = [walk EXCEPT !.base = @ \cap index']
          /\ alertLog' = alertLog /\ walk.state = "walking"
    BY <1>9 DEF Slide
  <2>2. floor' \in Nat
    BY <2>1, PagingAssumption DEF PagingTypes
  <2>3. index' \in SUBSET Alerts /\ walk.base \cap index' \in SUBSET Alerts
    BY <2>1 DEF PagingTypes
  <2> QED BY <2>1, <2>2, <2>3 DEF PagingTypes
<1>8. CASE UNCHANGED pagingVars
  BY <1>8 DEF pagingVars, PagingTypes
<1> QED BY <1>1, <1>2, <1>3, <1>4, <1>5, <1>6, <1>7, <1>8, <1>9 DEF PagingNext

LEMMA PagingTypesSay == PagingTypes => PagingTypeOK
<1> SUFFICES ASSUME PagingTypes PROVE PagingTypeOK
  OBVIOUS
<1>1. ToSet(alertLog) \subseteq Alerts /\ ToSet(walk.scan) \subseteq Alerts
  BY ElementsIs, ElementOfSeq DEF PagingTypes
<1> QED BY <1>1 DEF PagingTypes, PagingTypeOK

-----------------------------------------------------------------------------
(* ThreeSum: the types.  A call counts the queries that failed, of three,  *)
(* and the buckets in which three series of two spike.                     *)
SumTypes ==
  /\ levels \in Levels /\ suppressed \in [{"history", "kb"} -> SUBSET Suspects]
  /\ call \in [stage : Stages, a : BOOLEAN, b : BOOLEAN, graph : BOOLEAN, tiers : BOOLEAN,
               threshold : Nat,
               weights : [Categories -> Nat], boost : [Categories -> Nat], without : SUBSET Suspects, triggers : SUBSET Suspects,
               failedA : 0 .. 3, anomalies : 0 .. 2, failedB : 0 .. 3]
  /\ SaidShape /\ said.kind \in {"none", "fresh", "replayed"} /\ said.triggers \in SUBSET Suspects
  /\ calls \in 0 .. MaxCalls

(* A series that was not answered is empty, and the others have two        *)
(* buckets: as many as the shortest can spike.                             *)
LEMMA SpikesFew ==
  ASSUME NEW z, \A c \in Categories : Len(z[c]) \in 0 .. 2
  PROVE  EngineB(z) \in 0 .. 2
<1> DEFINE lengths == {Len(z[c]) : c \in Categories}
<1>1. IsFiniteSet(lengths)
  <2>1. lengths = {Len(z["A"])} \cup {Len(z["B"])} \cup {Len(z["C"])}
    BY DEF Categories
  <2>2. /\ IsFiniteSet({Len(z["A"])}) /\ IsFiniteSet({Len(z["B"])}) /\ IsFiniteSet({Len(z["C"])})
    BY FS_Singleton
  <2>3. IsFiniteSet({Len(z["A"])} \cup {Len(z["B"])})
    BY <2>2, FS_Union
  <2> HIDE DEF lengths
  <2> QED BY <2>1, <2>2, <2>3, FS_Union
<1>2. lengths # {} /\ lengths \subseteq 0 .. 2
  BY DEF Categories
<1>3. Length(z) \in 0 .. 2
  <2> HIDE DEF lengths
  <2>1. \A x \in lengths : x \in Int
    BY <1>2
  <2>2. \E x \in lengths : \A y \in lengths : x <= y
    BY <1>1, <1>2, <2>1, LeastOfFinite
  <2>3. Min(lengths) \in lengths
    BY <2>2 DEF Min
  <2> QED BY <1>2, <2>3 DEF Length, lengths
<1> DEFINE spikes == {i \in 1 .. Length(z) : /\ AllReach(z, i, 2)
                                             /\ AllReach(z, i - 1, 1) \/ AllReach(z, i + 1, 1)}
<1>4. spikes \subseteq 1 .. Length(z)
  OBVIOUS
<1> HIDE DEF spikes
<1>5. IsFiniteSet(1 .. Length(z)) /\ Cardinality(1 .. Length(z)) <= 2
  BY <1>3, FS_Interval
<1>6. IsFiniteSet(spikes) /\ Cardinality(spikes) <= Cardinality(1 .. Length(z))
  BY <1>4, <1>5, FS_Subset
<1>7. Cardinality(spikes) \in Nat /\ Cardinality(1 .. Length(z)) \in Nat
  BY <1>5, <1>6, FS_CardinalityType
<1>8. Cardinality(spikes) \in 0 .. 2
  BY <1>5, <1>6, <1>7
<1> QED BY <1>8 DEF EngineB, spikes

LEMMA SumTypesBegin == ThreeSumInit => SumTypes
<1> SUFFICES ASSUME ThreeSumInit PROVE SumTypes
  OBVIOUS
<1>1. said = NoAnswer /\ call = NoCall
  BY DEF ThreeSumInit
<1>2. calls \in 0 .. MaxCalls
  BY ThreeSumAssumption DEF ThreeSumInit
<1>3. SaidShape /\ said.kind = "none" /\ said.triggers = {}
  BY <1>1 DEF NoAnswer, SaidShape
<1> QED BY <1>1, <1>2, <1>3 DEF ThreeSumInit, SumTypes, NoCall, Stages, Nothing

LEMMA SumTypesStep ==
  ASSUME SumTypes, [ThreeSumNext]_threeSumVars
  PROVE  SumTypes'
<1> DEFINE CallSet == [stage : Stages, a : BOOLEAN, b : BOOLEAN, graph : BOOLEAN, tiers : BOOLEAN,
                       threshold : Nat,
               weights : [Categories -> Nat], boost : [Categories -> Nat], without : SUBSET Suspects, triggers : SUBSET Suspects,
                       failedA : 0 .. 3, anomalies : 0 .. 2, failedB : 0 .. 3]
<1>0. NoCall \in CallSet
  BY DEF NoCall, Stages, Nothing
<1>1. ASSUME NEW k \in CallSet, call' = k,
             UNCHANGED <<levels, suppressed, said>>, calls' \in 0 .. MaxCalls
      PROVE  SumTypes'
  BY <1>1 DEF SumTypes, SaidShape
<1>2. CASE ReplayLast
  <2>1. said' = [said EXCEPT !.kind = "replayed"] /\ UNCHANGED <<levels, suppressed, call, calls>>
    BY <1>2 DEF ReplayLast
  <2>2. SaidShape' /\ said'.kind = "replayed" /\ said'.triggers = said.triggers
    BY <2>1 DEF SumTypes, SaidShape
  <2> QED BY <2>1, <2>2 DEF SumTypes
<1>3. ASSUME NEW request \in Requests, Correlate(request) PROVE SumTypes'
  <2>1. /\ request.a \in BOOLEAN /\ request.b \in BOOLEAN /\ request.graph \in BOOLEAN
        /\ request.tiers \in BOOLEAN /\ request.boost \in [Categories -> Nat]
        /\ request.threshold \in Nat /\ request.weights \in [Categories -> Nat] /\ MaxCalls \in Nat
    BY ThreeSumAssumption
  <2>2. PICK readable \in BOOLEAN :
          call' = [NoCall EXCEPT !.stage = IF request.graph THEN "cluster" ELSE "engineA",
                                 !.a = request.a, !.b = request.b, !.graph = request.graph,
                                 !.tiers = request.tiers, !.boost = request.boost,
                                 !.threshold = request.threshold, !.weights = request.weights,
                                 !.without = Excluded(readable)]
    BY <1>3 DEF Correlate
  <2>3. Excluded(readable) \in SUBSET Suspects
    BY DEF Excluded, SumTypes
  <2>4. call' \in CallSet
    BY <2>1, <2>2, <2>3, <1>0 DEF Stages
  <2>5. calls' \in 0 .. MaxCalls /\ UNCHANGED <<levels, suppressed, said>>
    BY <1>3, <2>1 DEF Correlate, SumTypes
  <2> QED BY <1>1, <2>4, <2>5
<1>4. CASE BuildGraph
  <2>1. call' = NoCall \/ call' = [call EXCEPT !.stage = "engineA"]
    BY <1>4 DEF BuildGraph
  <2>2. call' \in CallSet
    BY <2>1, <1>0 DEF SumTypes, Stages
  <2> QED BY <1>1, <1>4, <2>2 DEF BuildGraph, SumTypes
<1>5. CASE RunA
  <2>1. CASE call.a
    <3> DEFINE flagged(answered) == EngineA(Boosted(Scores("week", answered, call.without), call.without, call.boost),
                                            call.graph, call.threshold, call.weights)
    <3>1. PICK answered \in SUBSET Categories :
            call' = [call EXCEPT !.stage = "engineB", !.failedA = 3 - Cardinality(answered),
                                 !.triggers = flagged(answered)]
      BY <1>5, <2>1 DEF RunA
    <3>2. flagged(answered) \in SUBSET Suspects
      BY DEF EngineA
    <3>3. 3 - Cardinality(answered) \in 0 .. 3
      BY OfThree
    <3> HIDE DEF flagged
    <3>4. call' \in CallSet
      BY <3>1, <3>2, <3>3 DEF SumTypes, Stages
    <3> QED BY <1>1, <1>5, <3>4 DEF RunA, SumTypes
  <2>2. CASE ~call.a
    <3>1. call' \in CallSet
      BY <1>5, <2>2 DEF RunA, SumTypes, Stages
    <3> QED BY <1>1, <1>5, <3>1 DEF RunA, SumTypes
  <2> QED BY <2>1, <2>2
<1>6. CASE RunB
  <2>1. CASE call.b
    <3> DEFINE heard(answered, z) == [c \in Categories |-> IF c \in answered THEN z[c] ELSE <<>>]
    <3>1. PICK answered \in SUBSET Categories, z \in [Categories -> Series] :
            call' = [call EXCEPT !.stage = "tiers", !.failedB = 3 - Cardinality(answered),
                                 !.anomalies = EngineB(heard(answered, z))]
      BY <1>6, <2>1 DEF RunB
    <3>2. EngineB(heard(answered, z)) \in 0 .. 2
      <4>1. \A c \in Categories : Len(heard(answered, z)[c]) \in 0 .. 2
        <5>1. \A s \in Series \cup {<<>>} : Len(s) \in 0 .. 2
          BY DEF Series
        <5>2. \A c \in Categories : heard(answered, z)[c] \in Series \cup {<<>>}
          OBVIOUS
        <5> QED BY <5>1, <5>2
      <4> HIDE DEF heard
      <4> QED BY <4>1, SpikesFew
    <3>3. 3 - Cardinality(answered) \in 0 .. 3
      BY OfThree
    <3> HIDE DEF heard
    <3>4. call' \in CallSet
      BY <3>1, <3>2, <3>3 DEF SumTypes, Stages
    <3> QED BY <1>1, <1>6, <3>4 DEF RunB, SumTypes
  <2>2. CASE ~call.b
    <3>1. call' \in CallSet
      BY <1>6, <2>2 DEF RunB, SumTypes, Stages
    <3> QED BY <1>1, <1>6, <3>1 DEF RunB, SumTypes
  <2> QED BY <2>1, <2>2
<1>7. CASE Conclude
  <2> DEFINE runs(answered) == IF call.tiers THEN TierRuns(call.triggers, call, answered) ELSE <<{}, {}, {}>>
             say(answered) ==
               [kind |-> "fresh", triggers |-> call.triggers, anomalies |-> call.anomalies,
                without |-> call.without, degraded |-> Degraded(call),
                graph |-> call.graph, threshold |-> call.threshold,
                weights |-> call.weights, boost |-> call.boost,
                whole |-> call.a /\ call.failedA = 0,
                slow |-> SlowBurn(runs(answered)), burst |-> BurstOnly(runs(answered)),
                steady |-> Persistent(runs(answered))]
  <2>1. PICK answered \in [1..2 -> SUBSET Categories] : said' = say(answered)
    BY <1>7, ZenonT(30) DEF Conclude
  <2> HIDE DEF runs
  <2>2. SaidShape' /\ said'.kind = "fresh" /\ said'.triggers = call.triggers
    BY <2>1 DEF SaidShape
  <2>3. call' = NoCall /\ UNCHANGED <<levels, suppressed, calls>>
    BY <1>7 DEF Conclude
  <2> QED BY <1>0, <2>2, <2>3 DEF SumTypes
<1>8. ASSUME NEW s \in Suspects, Suppress(s) \/ ForgetKb(s) PROVE SumTypes'
  <2>1. suppressed' \in [{"history", "kb"} -> SUBSET Suspects]
    <3>1. CASE Suppress(s)
      BY <3>1 DEF Suppress, SumTypes
    <3>2. CASE ForgetKb(s)
      BY <3>2 DEF ForgetKb, SumTypes
    <3> QED BY <1>8, <3>1, <3>2
  <2>2. UNCHANGED <<levels, call, said, calls>>
    BY <1>8 DEF Suppress, ForgetKb
  <2> QED BY <2>1, <2>2 DEF SumTypes, SaidShape
<1>9. CASE UNCHANGED threeSumVars
  BY <1>9 DEF threeSumVars, SumTypes, SaidShape
<1> QED BY <1>2, <1>3, <1>4, <1>5, <1>6, <1>7, <1>8, <1>9 DEF ThreeSumNext

LEMMA SumTypesSay == SumTypes => ThreeSumTypeOK
BY DEF SumTypes, ThreeSumTypeOK

-----------------------------------------------------------------------------
(* The areas side by side.  A step of the whole is a step of one area and  *)
(* leaves the variables of every other alone.                              *)
LEMMA StepOfOneArea ==
  ASSUME [ToolCallsNext]_toolCallVars
  PROVE  /\ [Next]_vars /\ [RapidNext]_rapidVars /\ [AuditNext]_auditVars
         /\ [PlaybookNext]_playbookVars /\ [ThreeSumNext]_threeSumVars /\ [Pose]_question
         /\ [PagingNext]_pagingVars /\ [ToolsNext]_exchange
<1>1. CASE UNCHANGED toolCallVars
  BY <1>1 DEF toolCallVars
<1>2. CASE Http
  BY <1>2 DEF Http
<1>3. CASE Rapid
  BY <1>3 DEF Rapid
<1>4. CASE Audit
  BY <1>4 DEF Audit
<1>5. CASE Playbook
  BY <1>5 DEF Playbook
<1>6. CASE ThreeSums
  BY <1>6 DEF ThreeSums
<1>7. CASE Cores
  BY <1>7 DEF Cores
<1>8. CASE Paging
  BY <1>8 DEF Paging
<1>9. CASE Tools
  BY <1>9 DEF Tools
<1> QED BY <1>1, <1>2, <1>3, <1>4, <1>5, <1>6, <1>7, <1>8, <1>9 DEF ToolCallsNext

(* A behaviour of the areas side by side is a behaviour of each of them,   *)
(* whatever the run looks at: what is proved of an area holds where TLC    *)
(* checks them together.                                                   *)
THEOREM EveryAreaIsItself ==
  ToolCallsSpec => /\ Spec /\ RapidFairSpec /\ AuditSpec /\ PlaybookSpec
                   /\ ThreeSumSpec /\ CoresSpec /\ PagingSpec /\ ToolsSpec
<1>1. ToolCallsInit => /\ Init /\ RapidInit /\ AuditInit /\ PlaybookInit
                       /\ ThreeSumInit /\ CoresInit /\ PagingInit /\ ToolsInit
  BY DEF ToolCallsInit
<1>2. [ToolCallsNext]_toolCallVars =>
        /\ [Next]_vars /\ [RapidNext]_rapidVars /\ [AuditNext]_auditVars
        /\ [PlaybookNext]_playbookVars /\ [ThreeSumNext]_threeSumVars /\ [Pose]_question
        /\ [PagingNext]_pagingVars /\ [ToolsNext]_exchange
  BY StepOfOneArea
<1> QED BY <1>1, <1>2, PTL DEF ToolCallsSpec, Spec, RapidSpec, RapidFairSpec, AuditSpec, PlaybookSpec,
                               ThreeSumSpec, CoresSpec, PagingSpec, ToolsSpec

(* Every area keeps its types where TLC checks them together: CallsTypeOK  *)
(* of MCToolCalls, for every value of the constants of its areas.          *)
THEOREM EveryAreaKeepsItsTypes == ToolCallsSpec => []CallsTypeOK
<1>1. RapidInv => RapidTypeOK
  BY DEF RapidInv
<1>2. ThreeSumSpec => []ThreeSumTypeOK
  <2>1. SumTypes /\ [ThreeSumNext]_threeSumVars => SumTypes'
    BY SumTypesStep
  <2> QED BY <2>1, SumTypesBegin, SumTypesSay, PTL DEF ThreeSumSpec
<1>3. PagingSpec => []PagingTypeOK
  <2>1. PagingTypes /\ [PagingNext]_pagingVars => PagingTypes'
    BY PagingTypesStep
  <2> QED BY <2>1, PagingTypesBegin, PagingTypesSay, PTL DEF PagingSpec
<1>4. TypeOK /\ RapidTypeOK /\ AuditTypeOK /\ PlaybookTypeOK /\ ThreeSumTypeOK /\ PagingTypeOK => CallsTypeOK
  BY DEF CallsTypeOK
<1> QED BY <1>1, <1>2, <1>3, <1>4, EveryAreaIsItself, TypeCorrect, RapidInductive, NoEntryLostOrDoubled,
           WholeLadderTried, PTL DEF RapidFairSpec
=============================================================================
