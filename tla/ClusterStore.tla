---------------------------- MODULE ClusterStore ----------------------------
(***************************************************************************)
(* The store of cluster fits (core/cluster_store.py): fits, their          *)
(* centroids and the assignments of entities to them, written by           *)
(* concurrent threads and processes.  save_fit looks for an existing fit   *)
(* before its first write opens the transaction; an assignment is computed *)
(* from a fit that was loaded earlier.                                     *)
(***************************************************************************)
EXTENDS Integers, FiniteSets

CONSTANTS
  Fits,           (* fit ids; a backfill reuses the id of its window       *)
  Entities,       (* entity keys                                           *)
  Fitters,        (* concurrent callers                                    *)
  MaxFits,        (* BLUETEAM_CLUSTER_MAX_FITS                             *)
  FitTtl,         (* ttl_seconds; 0: fits are kept                         *)
  MaxHour,        (* bound: the last tick of a behaviour                   *)
  MaxSaves        (* bound: fits computed in a behaviour                   *)

ASSUME ClusterAssumption ==
  MaxFits \in Nat \ {0} /\ FitTtl \in Nat /\ MaxHour \in Nat /\ MaxSaves \in Nat

VARIABLES
  hour,
  fits,           (* fit -> [created, made], made numbers the computation  *)
  centroids,      (* fit -> the computation its centroids are from         *)
  assigned,       (* {[entity, fit, made]}: made is the centroids' it used *)
  writer,         (* what each caller is about to write                    *)
  saves,
  evicted         (* was a fit trimmed by the last enforced save?          *)

clusterVars == <<hour, fits, centroids, assigned, writer, saves, evicted>>

NoFit == [created |-> -1, made |-> 0]
Stored == {f \in Fits : fits[f] # NoFit}
Resting == [does |-> "nothing", fit |-> NoFit, id |-> CHOOSE f \in Fits : TRUE,
            enforce |-> FALSE, made |-> 0]

ClusterInit ==
  /\ hour = 0 /\ fits = [f \in Fits |-> NoFit] /\ centroids = [f \in Fits |-> 0]
  /\ assigned = {} /\ writer = [w \in Fitters |-> Resting] /\ saves = 0 /\ evicted = FALSE

ClusterTick ==
  /\ hour < MaxHour /\ hour' = hour + 1
  /\ UNCHANGED <<fits, centroids, assigned, writer, saves, evicted>>

(* save_fit up to its first write: the existing row, or none.              *)
LookForFit(w) ==
  /\ writer[w].does = "nothing" /\ saves < MaxSaves
  /\ \E f \in Fits, enforce \in BOOLEAN :
       writer' = [writer EXCEPT ![w] = [does |-> "save", id |-> f, fit |-> fits[f],
                                        enforce |-> enforce, made |-> saves + 1]]
  /\ saves' = saves + 1
  /\ UNCHANGED <<hour, fits, centroids, assigned, evicted>>

(* A variant the property must tell from the code: the count is off by one *)
CountsOneMore(s) == s.enforce /\ s.fit = NoFit /\ Cardinality(Stored) > MaxFits

(* The newest MaxFits by creation; fits of one time in any order.          *)
NewestOf(F) ==
  LET S == {f \in Fits : F[f] # NoFit}
  IN IF Cardinality(S) <= MaxFits THEN {S}
     ELSE {K \in SUBSET S : /\ Cardinality(K) = MaxFits
                            /\ \A k \in K, d \in S \ K : F[k].created >= F[d].created}

CountRefuses(s) == s.enforce /\ s.fit = NoFit /\ Cardinality(Stored) >= MaxFits
AssignmentsBut(f) == {a \in assigned : a.fit # f}

(* The transaction: clear, count if it is enforced and the fit was new,    *)
(* insert with the creation time of the row that was seen, trim.  The      *)
(* refusal rolls the clearing back.                                        *)
SaveFit(w) ==
  LET s == writer[w]
      new == [created |-> IF s.fit = NoFit THEN hour ELSE s.fit.created, made |-> s.made]
      F == [fits EXCEPT ![s.id] = new]
  IN /\ s.does = "save"
     /\ IF CountRefuses(s)
        THEN UNCHANGED <<fits, centroids, assigned, evicted>>
        ELSE \E K \in NewestOf(F) :
               /\ fits' = [f \in Fits |-> IF f \in K THEN F[f] ELSE NoFit]
               /\ centroids' = [f \in Fits |-> IF f \notin K THEN 0 ELSE
                                               IF f = s.id THEN s.made ELSE centroids[f]]
               /\ assigned' = {a \in AssignmentsBut(s.id) : a.fit \notin {f \in Fits : F[f] # NoFit} \ K}
               /\ evicted' = (s.enforce /\ s.fit = fits[s.id] /\ ~(Stored \subseteq K))
     /\ writer' = [writer EXCEPT ![w] = Resting]
     /\ UNCHANGED <<hour, saves>>

(* load_fit, then an assignment by its centroids.                          *)
LoadFit(w) ==
  /\ writer[w].does = "nothing"
  /\ \E f \in Stored :
       writer' = [writer EXCEPT ![w] = [does |-> "assign", id |-> f, fit |-> fits[f],
                                        enforce |-> FALSE, made |-> centroids[f]]]
  /\ UNCHANGED <<hour, fits, centroids, assigned, saves, evicted>>
RecordAssignment(w) ==
  LET s == writer[w]
  IN /\ s.does = "assign"
     /\ \E e \in Entities :
          assigned' = {a \in assigned : a.entity # e \/ a.fit # s.id}
                      \cup {[entity |-> e, fit |-> s.id, made |-> s.made]}
     /\ writer' = [writer EXCEPT ![w] = Resting]
     /\ UNCHANGED <<hour, fits, centroids, saves, evicted>>

(* A caller's transaction fails or its process dies.                       *)
GiveUp(w) ==
  /\ writer[w].does # "nothing" /\ writer' = [writer EXCEPT ![w] = Resting]
  /\ UNCHANGED <<hour, fits, centroids, assigned, saves, evicted>>

PurgeFits ==
  LET old == {f \in Stored : FitTtl > 0 /\ fits[f].created < hour - FitTtl}
  IN /\ old # {}
     /\ fits' = [f \in Fits |-> IF f \in old THEN NoFit ELSE fits[f]]
     /\ centroids' = [f \in Fits |-> IF f \in old THEN 0 ELSE centroids[f]]
     /\ assigned' = {a \in assigned : a.fit \notin old}
     /\ UNCHANGED <<hour, writer, saves, evicted>>

ClusterNext ==
  \/ ClusterTick \/ PurgeFits
  \/ \E w \in Fitters : LookForFit(w) \/ SaveFit(w) \/ LoadFit(w) \/ RecordAssignment(w) \/ GiveUp(w)

ClusterSpec == ClusterInit /\ [][ClusterNext]_clusterVars
-----------------------------------------------------------------------------
ClusterTypeOK ==
  /\ hour \in 0 .. MaxHour /\ saves \in 0 .. MaxSaves
  /\ \A f \in Fits : fits[f].created \in -1 .. hour /\ centroids[f] \in 0 .. MaxSaves
  /\ \A a \in assigned : a.entity \in Entities /\ a.fit \in Fits

(* A fit and its centroids are one: whoever reads finds the centroids of   *)
(* the computation the fit is from, and never more fits than the cap.  "a  *)
(* concurrent writer cannot slip a fit between the count and the insert":  *)
(* an enforced save costs no stored fit its place, as long as the row it   *)
(* looked for is still as it was.                                          *)
FitsKept ==
  /\ Cardinality(Stored) <= MaxFits
  /\ \A f \in Fits : centroids[f] = fits[f].made
  /\ ~evicted
=============================================================================
