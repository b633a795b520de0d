---------------------------- MODULE SourceLedger ----------------------------
(***************************************************************************)
(* What the source store promises, without transactions, trimming or       *)
(* crashes: for a stretch of time it vouches at most once, for the alerts  *)
(* that one complete look at the index found there, and only when it has   *)
(* learned them all.  What is indexed after the look is not vouched for.   *)
(***************************************************************************)
EXTENDS Integers

CONSTANTS
  Sources,        (* source addresses of alerts                            *)
  Clock           (* the times of a behaviour                              *)

VARIABLES
  happened,       (* alerts the index shows: <<source, time>>              *)
  learned,        (* those the store has held at some time                 *)
  look,           (* the look in hand, if any: {<<window, what it found>>} *)
  vouched         (* looks it vouches for, one for a window                *)

ledgerVars == <<happened, learned, look, vouched>>

Within(S, since, until) == {e \in S : since <= e[2] /\ e[2] < until}

LedgerInit == happened = {} /\ learned = {} /\ look = {} /\ vouched = {}

(* An alert is indexed, at its time or late.                               *)
Happen ==
  /\ \E e \in Sources \X Clock : happened' = happened \cup {e}
  /\ UNCHANGED <<learned, look, vouched>>

Look ==
  /\ \E w \in Clock \X Clock : look' = {<<w, Within(happened, w[1], w[2])>>}
  /\ UNCHANGED <<happened, learned, vouched>>

Learn ==
  /\ \E S \in SUBSET happened : learned' = learned \cup S
  /\ UNCHANGED <<happened, look, vouched>>

(* The word on a look, which ends it and replaces an earlier word on the   *)
(* same window.                                                            *)
Vouch ==
  /\ \E p \in look :
       /\ p[2] \subseteq learned
       /\ vouched' = {v \in vouched : v[1] # p[1]} \cup {p}
  /\ look' = {}
  /\ UNCHANGED <<happened, learned>>

(* A later, degraded run of the same window takes its word back.           *)
Retract ==
  /\ \E p \in vouched : vouched' = vouched \ {p}
  /\ UNCHANGED <<happened, learned, look>>

LookEnds ==
  /\ look' = {}
  /\ UNCHANGED <<happened, learned, vouched>>

LedgerNext == Happen \/ Look \/ Learn \/ Vouch \/ Retract \/ LookEnds

LedgerSpec == LedgerInit /\ [][LedgerNext]_ledgerVars
=============================================================================
