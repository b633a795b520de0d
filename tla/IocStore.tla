------------------------------ MODULE IocStore ------------------------------
(***************************************************************************)
(* The indicator store (core/ioc_store.py): sightings in memory, evicted   *)
(* by age and down to a cap in every flush, and the promotion of what was  *)
(* seen often and lately to the attacker registry, after which redaction   *)
(* leaves it unmasked.  No operation awaits; between two of them the       *)
(* process can be restarted.                                               *)
(***************************************************************************)
EXTENDS Integers, FiniteSets

CONSTANTS
  Indicators,     (* addresses                                             *)
  IocMax,         (* BLUETEAM_IOC_STORE_MAX                                *)
  IocTtl,         (* the later of BLUETEAM_IOC_STORE_TTL and the age at    *)
                  (* which the decay weight falls below 0.01               *)
  PromoteAge,     (* the age at which the decay weight falls below 0.8     *)
  MaxDay,         (* bound: the last tick of a behaviour                   *)
  MaxSightings    (* bound: sightings of each indicator                    *)

ASSUME IocAssumption ==
  /\ IsFiniteSet(Indicators)
  /\ IocMax \in Nat \ {0} /\ IocTtl \in Nat \ {0} /\ PromoteAge \in Nat
  /\ MaxDay \in Nat /\ MaxSightings \in Nat

VARIABLES
  iocs, iocFile,  (* indicator -> [last, count], count 0: none             *)
  sightings,      (* indicator -> times it was ever recorded               *)
  promoted,       (* indicators given to the attacker registry             *)
  day

iocVars == <<iocs, iocFile, sightings, promoted, day>>

Days == 0 .. MaxDay
NoIoc == [last |-> -1, count |-> 0]
KnownIocs(E) == {i \in Indicators : E[i] # NoIoc}

IocInit ==
  /\ iocs = [i \in Indicators |-> NoIoc] /\ iocFile = iocs
  /\ sightings = [i \in Indicators |-> 0] /\ promoted = {} /\ day = 0

(* A variant the property must tell from the code: a sighting counts for   *)
(* all that is known.                                                      *)
CountsAll(B) ==
  [i \in Indicators |-> IF i \in B \/ iocs[i] # NoIoc
                        THEN [last |-> day, count |-> iocs[i].count + 1] ELSE NoIoc]

(* _flush: by age, then down to the cap, least recently seen first (the    *)
(* decay weight falls with the age); memory loses them too, whatever       *)
(* becomes of the write.                                                   *)
Evicted(E) ==
  LET live == {i \in KnownIocs(E) : day - E[i].last <= IocTtl}
      n == IF Cardinality(live) < IocMax THEN Cardinality(live) ELSE IocMax
  IN {[i \in Indicators |-> IF i \in K THEN E[i] ELSE NoIoc] :
        K \in {K \in SUBSET live : /\ Cardinality(K) = n
                                   /\ \A k \in K, d \in live \ K : E[k].last >= E[d].last}}

(* record_iocs, and then _maybe_promote over all that are left.            *)
Recorded(B) == [i \in Indicators |-> IF i \in B THEN [last |-> day, count |-> iocs[i].count + 1]
                                     ELSE iocs[i]]
Promotable(E) == {i \in KnownIocs(E) : E[i].count >= 3 /\ day - E[i].last <= PromoteAge}
RecordIocs ==
  /\ \E B \in (SUBSET Indicators) \ {{}} : \E E \in Evicted(Recorded(B)) :
       /\ \A i \in B : sightings[i] < MaxSightings
       /\ iocs' = E /\ iocFile' \in {E, iocFile}
       /\ sightings' = [i \in Indicators |-> IF i \in B THEN sightings[i] + 1 ELSE sightings[i]]
       /\ promoted' = promoted \cup Promotable(E)
  /\ UNCHANGED day

NextDay ==
  /\ day < MaxDay /\ day' = day + 1
  /\ UNCHANGED <<iocs, iocFile, sightings, promoted>>

(* The next process loads what the file has, expired or not.               *)
ReloadIocs == iocs' = iocFile /\ UNCHANGED <<iocFile, sightings, promoted, day>>

IocNext == RecordIocs \/ NextDay \/ ReloadIocs

IocSpec == IocInit /\ [][IocNext]_iocVars
-----------------------------------------------------------------------------
IocTypeOK ==
  /\ day \in Days /\ promoted \subseteq Indicators
  /\ \A i \in Indicators : /\ iocs[i].last \in -1 .. day /\ iocFile[i].last \in -1 .. day
                           /\ sightings[i] \in 0 .. MaxSightings

(* Nothing is promoted to the attacker registry that was not itself seen   *)
(* three times, whatever restarts, failed flushes and evictions did to its *)
(* count in between, and the cap holds in memory and on file.              *)
PromotionEarned ==
  /\ \A i \in promoted : sightings[i] >= 3
  /\ Cardinality(KnownIocs(iocs)) <= IocMax /\ Cardinality(KnownIocs(iocFile)) <= IocMax
=============================================================================
