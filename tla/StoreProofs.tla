---------------------------- MODULE StoreProofs -----------------------------
(***************************************************************************)
(* Theorems about what is kept over many steps, each for every value of    *)
(* its constants: the cases, the fits, a complete sweep of the indexer,    *)
(* the history file, and the windows of the limiters.  At the end the      *)
(* services side by side, as MCServices checks them: each is itself there, *)
(* and keeps its types.                                                    *)
(***************************************************************************)
EXTENDS MCServices, ServiceProofs, MemoryStoreProofs

-----------------------------------------------------------------------------
(* CaseStore.  A case in memory is what its callers were answered; one     *)
(* that is safe is so in the file too, and in memory, with the same texts, *)
(* but for one whose line a load has dropped; the file has the cap.        *)
CaseInv ==
  /\ cases \in [Cases -> NoCase .. MaxItems] /\ caseFile \in [Cases -> NoCase .. MaxItems]
  /\ answered \in [Cases -> 0 .. MaxItems] /\ created \in 0 .. MaxCases
  /\ Known(cases) \subseteq 1 .. created /\ Known(caseFile) \subseteq 1 .. created
  /\ \A k \in Cases : k > created => answered[k] = 0
  /\ \A k \in Known(cases) : cases[k] = answered[k]
  /\ texts \in [Cases -> CaseTexts] /\ fileTexts \in [Cases -> CaseTexts] /\ up \in BOOLEAN
  /\ safe \subseteq Cases
  /\ \A k \in safe : caseFile[k] = answered[k] /\ k \in Known(caseFile)
  /\ \A k \in safe : k \in Known(cases) \/ fileTexts[k] # "plain"
  /\ Cardinality(Known(caseFile)) <= CaseMax

(* The newest cases are at most the cap: all but the oldest of them are    *)
(* newer than it, and it has fewer than the cap before it.                 *)
LEMMA NewestCasesFew ==
  ASSUME NEW c
  PROVE  IsFiniteSet(NewestCases(c)) /\ Cardinality(NewestCases(c)) <= CaseMax
<1> DEFINE N == NewestCases(c)
<1>1. /\ N \subseteq Known(c) /\ Known(c) \subseteq Cases /\ N \subseteq Int /\ Known(c) \subseteq Int
      /\ \A k \in N : Cardinality({j \in Known(c) : j > k}) < CaseMax
  BY DEF NewestCases, Known, Cases
<1>2. IsFiniteSet(Known(c)) /\ IsFiniteSet(N)
  <2>1. IsFiniteSet(Cases)
    BY FS_Interval, CaseAssumption DEF Cases
  <2>2. Known(c) \in SUBSET Cases /\ N \in SUBSET Cases
    BY <1>1
  <2> HIDE DEF N
  <2> QED BY <2>1, <2>2, FS_Subset
<1> HIDE DEF N
<1>3. CASE N = {}
  BY <1>3, FS_EmptySet, CaseAssumption DEF N
<1>4. CASE N # {}
  <2>1. PICK k \in N : \A y \in N : k <= y
    BY <1>1, <1>2, <1>4, LeastOfFinite
  <2> DEFINE Newer == {j \in Known(c) : j > k}
  <2>2. N \ {k} \subseteq Newer
    BY <1>1, <2>1
  <2>3. IsFiniteSet(Newer) /\ Cardinality(Newer) < CaseMax
    BY <1>1, <1>2, FS_Subset
  <2> HIDE DEF Newer
  <2>4. Cardinality(N \ {k}) <= Cardinality(Newer) /\ Cardinality(N \ {k}) = Cardinality(N) - 1
    BY <1>2, <2>2, <2>3, FS_Subset, FS_RemoveElement
  <2>5. Cardinality(N) \in Nat /\ Cardinality(Newer) \in Nat
    BY <1>2, <2>3, FS_CardinalityType
  <2> QED BY <1>2, <2>3, <2>4, <2>5, CaseAssumption DEF N
<1> QED BY <1>3, <1>4

LEMMA CaseStart == CaseInit => CaseInv
<1> SUFFICES ASSUME CaseInit PROVE CaseInv
  OBVIOUS
<1>1. Known(cases) = {} /\ Known(caseFile) = {}
  BY DEF CaseInit, Known
<1>2. NoCase \in NoCase .. MaxItems /\ 0 \in 0 .. MaxItems
  BY CaseAssumption DEF NoCase
<1> QED BY <1>1, <1>2, FS_EmptySet, CaseAssumption DEF CaseInit, CaseInv, CaseTexts

(* What a flush of c leaves, when c is what callers are answered.          *)
LEMMA Flushed ==
  ASSUME CaseInv, NEW c \in [Cases -> NoCase .. MaxItems], NEW t \in [Cases -> CaseTexts],
         FlushCases(c, t), up' = up,
         created' \in 0 .. MaxCases, created <= created', Known(c) \subseteq 1 .. created',
         answered' \in [Cases -> 0 .. MaxItems],
         \A k \in Cases : k > created' => answered'[k] = 0,
         \A k \in Known(c) : c[k] = answered'[k],
         \A k \in safe : c[k] = cases[k] => answered'[k] = answered[k]
  PROVE  CaseInv'
<1>1. cases' = c /\ texts' = t
  BY DEF FlushCases
<1>2. CASE caseFile' = CaseLines(c) /\ fileTexts' = t /\ safe' = NewestCases(c)
  <2>1. NewestCases(c) \subseteq Known(c) /\ NewestCases(c) \subseteq Cases
    BY DEF NewestCases, Known
  <2>2. CaseLines(c) \in [Cases -> NoCase .. MaxItems]
    BY CaseAssumption DEF CaseLines, NoCase
  <2>3. Known(CaseLines(c)) = NewestCases(c) /\ \A k \in NewestCases(c) : CaseLines(c)[k] = c[k]
    BY <2>1 DEF CaseLines, Known
  <2>4. Known(caseFile)' = Known(caseFile') /\ Known(cases)' = Known(c)
    BY <1>1 DEF Known
  <2> QED BY <1>1, <1>2, <2>1, <2>2, <2>3, <2>4, NewestCasesFew DEF CaseInv
<1>3. CASE /\ caseFile' = caseFile /\ fileTexts' = fileTexts
           /\ safe' = {k \in safe : c[k] = cases[k]}
  <2>1. Known(caseFile)' = Known(caseFile) /\ Known(cases)' = Known(c)
    BY <1>1, <1>3 DEF Known
  <2>2. safe' \subseteq Cases
    BY <1>3 DEF CaseInv
  <2>3. Known(caseFile) \subseteq 1 .. created'
    BY DEF CaseInv
  <2>4. ASSUME NEW k \in safe'
        PROVE  /\ caseFile'[k] = answered'[k] /\ k \in Known(caseFile)'
               /\ k \in Known(cases)' \/ fileTexts'[k] # "plain"
    <3>1. k \in safe /\ c[k] = cases[k] /\ k \in Cases
      BY <1>3, <2>2, <2>4
    <3>2. k \in Known(cases) => k \in Known(c)
      BY <3>1 DEF Known
    <3> QED BY <1>3, <2>1, <3>1, <3>2 DEF CaseInv
  <2> QED BY <1>1, <1>3, <2>1, <2>2, <2>3, <2>4 DEF CaseInv
<1> QED BY <1>2, <1>3 DEF FlushCases

LEMMA CreateStep ==
  ASSUME CaseInv, CreateCase
  PROVE  CaseInv'
<1> DEFINE c == [cases EXCEPT ![created'] = 0]
<1>1. /\ created < MaxCases /\ created' = created + 1 /\ answered' = answered /\ up' = up
      /\ \E text \in CaseTexts : FlushCases(c, [texts EXCEPT ![created'] = text])
  BY DEF CreateCase
<1>0. PICK text \in CaseTexts : FlushCases(c, [texts EXCEPT ![created'] = text])
  BY <1>1
<1> DEFINE t == [texts EXCEPT ![created'] = text]
<1>2. created' \in Cases /\ created' \in 0 .. MaxCases /\ created <= created'
  BY <1>1, CaseAssumption DEF CaseInv, Cases
<1>3. c \in [Cases -> NoCase .. MaxItems] /\ Known(c) = Known(cases) \cup {created'}
  BY <1>2, CaseAssumption DEF CaseInv, Known, NoCase
<1>4. \A k \in Known(c) : c[k] = answered[k]
  BY <1>1, <1>2, <1>3 DEF CaseInv, Known
<1>5. Known(c) \subseteq 1 .. created' /\ \A k \in Cases : k > created' => answered[k] = 0
  <2>1. Known(cases) \subseteq 1 .. created /\ created \in Nat /\ created' = created + 1
        /\ \A k \in Cases : k \in Nat /\ (k > created => answered[k] = 0)
    BY <1>1 DEF CaseInv, Cases
  <2> HIDE DEF c
  <2> QED BY <1>3, <2>1
<1>6. t \in [Cases -> CaseTexts] /\ FlushCases(c, t)
  BY <1>0 DEF CaseInv
<1> HIDE DEF c, t
<1> QED BY <1>1, <1>2, <1>3, <1>4, <1>5, <1>6, Flushed DEF CaseInv

LEMMA AddStep ==
  ASSUME CaseInv, AddToCase
  PROVE  CaseInv'
<1>1. PICK k \in Known(cases), text \in CaseTexts :
        /\ answered[k] < MaxItems
        /\ FlushCases([cases EXCEPT ![k] = @ + 1], [texts EXCEPT ![k] = Together(@, text)])
        /\ answered' = [answered EXCEPT ![k] = cases[k] + 1] /\ created' = created /\ up' = up
  BY DEF AddToCase
<1> DEFINE c == [cases EXCEPT ![k] = @ + 1] t == [texts EXCEPT ![k] = Together(@, text)]
<1>2. k \in Cases /\ k <= created /\ cases[k] = answered[k] /\ cases[k] + 1 \in 0 .. MaxItems
  <2>1. k \in Cases /\ k \in 1 .. created /\ cases[k] = answered[k] /\ answered[k] \in 0 .. MaxItems
    BY DEF CaseInv, Known
  <2> QED BY <1>1, <2>1, CaseAssumption DEF CaseInv
<1>3. c \in [Cases -> NoCase .. MaxItems] /\ Known(c) = Known(cases)
  BY <1>2, CaseAssumption DEF CaseInv, Known, NoCase
<1>4. answered' \in [Cases -> 0 .. MaxItems] /\ \A j \in Known(c) : c[j] = answered'[j]
  BY <1>1, <1>2, <1>3 DEF CaseInv, Known
<1>5. \A j \in safe : c[j] = cases[j] => answered'[j] = answered[j]
  BY <1>1, <1>2 DEF CaseInv, Known
<1>6. \A j \in Cases : j > created' => answered'[j] = 0
  BY <1>1, <1>2 DEF CaseInv, Cases
<1>7. FlushCases(c, t)
  BY <1>1
<1>9. t \in [Cases -> CaseTexts]
  <2>1. Together(texts[k], text) \in CaseTexts
    BY <1>2 DEF CaseInv, Together, CaseTexts
  <2> QED BY <1>2, <2>1 DEF CaseInv
<1> HIDE DEF c, t
<1>8. created' \in 0 .. MaxCases /\ created <= created' /\ Known(c) \subseteq 1 .. created'
  BY <1>1, <1>3 DEF CaseInv
<1> QED BY <1>1, <1>3, <1>4, <1>5, <1>6, <1>7, <1>8, <1>9, Flushed

LEMMA ReloadStep ==
  ASSUME CaseInv, Reload
  PROVE  CaseInv'
<1>1. UNCHANGED <<caseFile, fileTexts, created, safe>>
  BY DEF Reload
<1>2. Known(caseFile)' = Known(caseFile)
  BY <1>1 DEF Known
<1>3. CASE up' = FALSE /\ UNCHANGED <<cases, texts, answered>>
  <2>1. Known(cases)' = Known(cases)
    BY <1>3 DEF Known
  <2> QED BY <1>1, <1>2, <1>3, <2>1 DEF CaseInv
<1>4. CASE /\ up' = TRUE /\ texts' = fileTexts
           /\ cases' = [k \in Cases |-> IF k \in ReadBack THEN caseFile[k] ELSE NoCase]
           /\ answered' = [k \in Cases |-> IF k \in ReadBack \ safe THEN caseFile[k]
                                           ELSE answered[k]]
  <2>1. /\ ReadBack \subseteq Known(caseFile) /\ ReadBack \subseteq Cases
        /\ Known(caseFile) \subseteq 1 .. created
    BY DEF ReadBack, Known, CaseInv
  <2>2. \A k \in ReadBack : caseFile[k] \in 0 .. MaxItems
    BY CaseAssumption DEF CaseInv, ReadBack, Known, NoCase
  <2>3. Known(cases)' = ReadBack
    BY <1>4, <2>1 DEF Known
  <2>4. /\ cases' \in [Cases -> NoCase .. MaxItems]
        /\ answered' \in [Cases -> 0 .. MaxItems]
    BY <1>4, <2>2, CaseAssumption DEF CaseInv, NoCase
  <2>5. \A k \in ReadBack : cases'[k] = answered'[k]
    BY <1>4, <2>1 DEF CaseInv
  <2>6. \A k \in Cases : k > created => answered'[k] = 0
    <3> SUFFICES ASSUME NEW k \in Cases, k > created PROVE answered'[k] = 0
      OBVIOUS
    <3>1. k \notin ReadBack
      BY <2>1 DEF CaseInv
    <3> QED BY <1>4, <3>1 DEF CaseInv
  <2>7. ASSUME NEW k \in safe
        PROVE  /\ caseFile[k] = answered'[k] /\ k \in Known(caseFile)
               /\ k \in ReadBack \/ fileTexts[k] # "plain"
    BY <1>4, <2>7 DEF CaseInv, ReadBack
  <2> QED BY <1>1, <1>2, <1>4, <2>1, <2>3, <2>4, <2>5, <2>6, <2>7 DEF CaseInv
<1> QED BY <1>3, <1>4 DEF Reload

(* A case that reached the file among the newest, without a line separator *)
(* in its texts, holds, in memory and on file, all its callers were told   *)
(* of, over restarts, failed flushes and later cases, and the file keeps   *)
(* its cap: for any cap and any number of cases and changes.               *)
THEOREM CasesAreKept == CaseSpec => [](CasesKept /\ CaseTypeOK)
<1>1. CaseInv /\ UNCHANGED caseVars => CaseInv'
  BY DEF CaseInv, caseVars, Known
<1>2. CaseInv /\ [CaseNext]_caseVars => CaseInv'
  BY <1>1, CreateStep, AddStep, ReloadStep DEF CaseNext
<1>3. CaseInv => CasesKept /\ CaseTypeOK
  BY DEF CaseInv, CasesKept, CaseTypeOK, Known
<1> QED BY <1>2, <1>3, CaseStart, PTL DEF CaseSpec

-----------------------------------------------------------------------------
(* ClusterStore.  A stored fit has the centroids of its computation, there *)
(* are at most the cap of them, and what a caller is about to save is a    *)
(* computation of its own.                                                 *)
FitRow == [created : -1 .. hour, made : 0 .. MaxSaves]
WriterOK(s) ==
  s.does # "nothing" =>
    /\ s.id \in Fits /\ s.fit \in FitRow /\ s.made \in 0 .. MaxSaves
    /\ s.does = "save" => s.made # 0
ClusterInv ==
  /\ hour \in 0 .. MaxHour /\ saves \in 0 .. MaxSaves
  /\ fits \in [Fits -> FitRow] /\ centroids \in [Fits -> 0 .. MaxSaves]
  /\ \A a \in assigned : a.entity \in Entities /\ a.fit \in Fits
  /\ DOMAIN writer = Fitters /\ \A w \in Fitters : WriterOK(writer[w])
  /\ IsFiniteSet(Stored) /\ Cardinality(Stored) <= MaxFits
  /\ \A f \in Fits : centroids[f] = fits[f].made
  /\ ~evicted

LEMMA ClusterStart == ClusterInit => ClusterInv
<1> SUFFICES ASSUME ClusterInit PROVE ClusterInv
  OBVIOUS
<1>1. Stored = {}
  BY DEF ClusterInit, Stored
<1>2. NoFit \in FitRow /\ 0 \in 0 .. MaxSaves /\ 0 \in 0 .. MaxHour
  BY ClusterAssumption DEF ClusterInit, FitRow, NoFit
<1> QED BY <1>1, <1>2, FS_EmptySet, ClusterAssumption
        DEF ClusterInit, ClusterInv, WriterOK, Resting, NoFit

(* What leaves the tables alone: the callers' other steps.                 *)
LEMMA WriterStep ==
  ASSUME ClusterInv, NEW w \in Fitters, NEW s, writer' = [writer EXCEPT ![w] = s], WriterOK(s),
         UNCHANGED <<hour, fits, centroids, evicted>>, saves' \in 0 .. MaxSaves,
         \A a \in assigned' : a.entity \in Entities /\ a.fit \in Fits
  PROVE  ClusterInv'
<1>1. FitRow' = FitRow /\ Stored' = Stored
  BY DEF FitRow, Stored
<1>2. \A v \in Fitters : WriterOK(writer[v])'
  BY <1>1 DEF ClusterInv, WriterOK
<1> QED BY <1>1, <1>2 DEF ClusterInv

LEMMA LookStep ==
  ASSUME ClusterInv, NEW w \in Fitters, LookForFit(w)
  PROVE  ClusterInv'
<1>1. PICK f \in Fits, enforce \in BOOLEAN :
        writer' = [writer EXCEPT ![w] = [does |-> "save", id |-> f, fit |-> fits[f],
                                         enforce |-> enforce, made |-> saves + 1]]
  BY DEF LookForFit
<1>2. saves + 1 \in 0 .. MaxSaves /\ saves + 1 # 0 /\ saves' = saves + 1
      /\ UNCHANGED <<hour, fits, centroids, assigned, evicted>>
  BY ClusterAssumption DEF LookForFit, ClusterInv
<1>3. fits[f] \in FitRow
  BY DEF ClusterInv
<1>4. WriterOK([does |-> "save", id |-> f, fit |-> fits[f], enforce |-> enforce, made |-> saves + 1])
  BY <1>2, <1>3 DEF WriterOK
<1>5. \A a \in assigned' : a.entity \in Entities /\ a.fit \in Fits
  BY <1>2 DEF ClusterInv
<1> QED BY <1>1, <1>2, <1>4, <1>5, WriterStep

LEMMA LoadStep ==
  ASSUME ClusterInv, NEW w \in Fitters, LoadFit(w)
  PROVE  ClusterInv'
<1>1. PICK f \in Stored :
        writer' = [writer EXCEPT ![w] = [does |-> "assign", id |-> f, fit |-> fits[f],
                                         enforce |-> FALSE, made |-> centroids[f]]]
  BY DEF LoadFit
<1>2. f \in Fits /\ fits[f] \in FitRow /\ centroids[f] \in 0 .. MaxSaves
  BY DEF ClusterInv, Stored
<1>3. WriterOK([does |-> "assign", id |-> f, fit |-> fits[f], enforce |-> FALSE, made |-> centroids[f]])
  BY <1>2 DEF WriterOK
<1>4. UNCHANGED <<hour, fits, centroids, assigned, saves, evicted>>
  BY DEF LoadFit
<1>5. saves' \in 0 .. MaxSaves /\ \A a \in assigned' : a.entity \in Entities /\ a.fit \in Fits
  BY <1>4 DEF ClusterInv
<1> QED BY <1>1, <1>3, <1>4, <1>5, WriterStep

LEMMA RestStep ==
  ASSUME ClusterInv, NEW w \in Fitters, RecordAssignment(w) \/ GiveUp(w)
  PROVE  ClusterInv'
<1>1. WriterOK(Resting)
  BY DEF WriterOK, Resting
<1>2. writer' = [writer EXCEPT ![w] = Resting] /\ UNCHANGED <<hour, fits, centroids, saves, evicted>>
  BY DEF RecordAssignment, GiveUp
<1>3. \A a \in assigned' : a.entity \in Entities /\ a.fit \in Fits
  <2>1. CASE GiveUp(w)
    BY <2>1 DEF GiveUp, ClusterInv
  <2>2. CASE RecordAssignment(w)
    <3>1. writer[w].id \in Fits
      BY <2>2 DEF RecordAssignment, ClusterInv, WriterOK
    <3> QED BY <2>2, <3>1 DEF RecordAssignment, ClusterInv
  <2> QED BY <2>1, <2>2
<1>4. saves' \in 0 .. MaxSaves
  BY <1>2 DEF ClusterInv
<1> QED BY <1>1, <1>2, <1>3, <1>4, WriterStep

(* The fits that a save keeps.  An enforced save of a fit whose row is as  *)
(* it was keeps all that were there.                                       *)
LEMMA FitsOfSave ==
  ASSUME ClusterInv, NEW F \in [Fits -> FitRow], NEW id \in Fits, F[id] # NoFit,
         \A f \in Fits \ {id} : F[f] = fits[f], NEW K \in NewestOf(F)
  PROVE  /\ K \subseteq Stored \cup {id} /\ IsFiniteSet(K) /\ Cardinality(K) <= MaxFits
         /\ fits[id] # NoFit \/ Cardinality(Stored) < MaxFits => Stored \subseteq K
<1> DEFINE S == {f \in Fits : F[f] # NoFit}
<1>1. S = Stored \cup {id}
  BY DEF Stored
<1>2. IsFiniteSet(Stored) /\ Cardinality(Stored) <= MaxFits
  BY DEF ClusterInv
<1>3. /\ IsFiniteSet(S) /\ Cardinality(Stored) \in Nat
      /\ Cardinality(S) = IF id \in Stored THEN Cardinality(Stored) ELSE Cardinality(Stored) + 1
  BY <1>1, <1>2, FS_AddElement, FS_CardinalityType
<1>4. K \in IF Cardinality(S) <= MaxFits THEN {S}
            ELSE {L \in SUBSET S : /\ Cardinality(L) = MaxFits
                                   /\ \A k \in L, d \in S \ L : F[k].created >= F[d].created}
  BY DEF NewestOf
<1> HIDE DEF S
<1>5. K \subseteq S /\ IsFiniteSet(K)
  BY <1>3, <1>4, FS_Subset
<1>6. Cardinality(K) <= MaxFits
  BY <1>4, ClusterAssumption
<1>7. fits[id] # NoFit \/ Cardinality(Stored) < MaxFits => Cardinality(S) <= MaxFits
  BY <1>2, <1>3, ClusterAssumption DEF Stored
<1> QED BY <1>1, <1>4, <1>5, <1>6, <1>7

LEMMA SaveFitStep ==
  ASSUME ClusterInv, NEW w \in Fitters, SaveFit(w)
  PROVE  ClusterInv'
<1> DEFINE s == writer[w]
           new == [created |-> IF s.fit = NoFit THEN hour ELSE s.fit.created, made |-> s.made]
           F == [fits EXCEPT ![s.id] = new]
<1>1. /\ s.does = "save" /\ writer' = [writer EXCEPT ![w] = Resting] /\ hour' = hour /\ saves' = saves
      /\ IF CountRefuses(s)
         THEN UNCHANGED <<fits, centroids, assigned, evicted>>
         ELSE \E K \in NewestOf(F) :
               /\ fits' = [f \in Fits |-> IF f \in K THEN F[f] ELSE NoFit]
               /\ centroids' = [f \in Fits |-> IF f \notin K THEN 0 ELSE
                                               IF f = s.id THEN s.made ELSE centroids[f]]
               /\ assigned' = {a \in AssignmentsBut(s.id) : a.fit \notin {f \in Fits : F[f] # NoFit} \ K}
               /\ evicted' = (s.enforce /\ s.fit = fits[s.id] /\ ~(Stored \subseteq K))
  BY DEF SaveFit
<1>2. s.id \in Fits /\ s.fit \in FitRow /\ s.made \in 0 .. MaxSaves /\ s.made # 0
  BY <1>1 DEF ClusterInv, WriterOK
<1>3. FitRow' = FitRow /\ NoFit \in FitRow /\ WriterOK(Resting)' /\ NoFit.made = 0
  BY <1>1, ClusterAssumption DEF FitRow, ClusterInv, NoFit, WriterOK, Resting
<1>4. \A v \in Fitters : WriterOK(writer[v])'
  BY <1>1, <1>3 DEF ClusterInv, WriterOK
<1>5. CASE CountRefuses(s)
  <2>1. Stored' = Stored /\ UNCHANGED <<fits, centroids, assigned, evicted>>
    BY <1>1, <1>5 DEF Stored
  <2> QED BY <1>1, <1>3, <1>4, <2>1 DEF ClusterInv
<1>6. CASE ~CountRefuses(s)
  <2>1. new \in FitRow /\ new # NoFit /\ new.made = s.made
    BY <1>2, ClusterAssumption DEF FitRow, NoFit, ClusterInv
  <2> HIDE DEF new
  <2>2. F \in [Fits -> FitRow] /\ F[s.id] = new /\ \A f \in Fits \ {s.id} : F[f] = fits[f]
    BY <1>2, <2>1 DEF ClusterInv
  <2>3. PICK K \in NewestOf(F) :
               /\ fits' = [f \in Fits |-> IF f \in K THEN F[f] ELSE NoFit]
               /\ centroids' = [f \in Fits |-> IF f \notin K THEN 0 ELSE
                                               IF f = s.id THEN s.made ELSE centroids[f]]
               /\ assigned' = {a \in AssignmentsBut(s.id) : a.fit \notin {f \in Fits : F[f] # NoFit} \ K}
               /\ evicted' = (s.enforce /\ s.fit = fits[s.id] /\ ~(Stored \subseteq K))
    BY <1>1, <1>6
  <2> HIDE DEF F
  <2>4. /\ K \subseteq Stored \cup {s.id} /\ IsFiniteSet(K) /\ Cardinality(K) <= MaxFits
        /\ fits[s.id] # NoFit \/ Cardinality(Stored) < MaxFits => Stored \subseteq K
    BY <1>2, <2>1, <2>2, FitsOfSave
  <2>5. K \subseteq Fits
    BY <1>2, <2>4 DEF Stored
  <2>6. Stored' \subseteq K
    BY <2>3 DEF Stored
  <2>7. IsFiniteSet(Stored') /\ Cardinality(Stored') <= MaxFits
    <3>1. IsFiniteSet(Stored') /\ Cardinality(Stored') <= Cardinality(K)
      BY <2>4, <2>6, FS_Subset
    <3>2. Cardinality(K) \in Nat /\ Cardinality(Stored') \in Nat
      BY <2>4, <3>1, FS_CardinalityType
    <3> QED BY <2>4, <3>1, <3>2, ClusterAssumption
  <2>8. ~evicted'
    <3> SUFFICES ASSUME s.enforce, s.fit = fits[s.id] PROVE Stored \subseteq K
      BY <2>3
    <3>1. CASE fits[s.id] # NoFit
      BY <2>4, <3>1
    <3>2. CASE fits[s.id] = NoFit
      <4>1. ~(Cardinality(Stored) >= MaxFits)
        BY <1>6, <3>2 DEF CountRefuses
      <4>2. Cardinality(Stored) \in Nat
        BY FS_CardinalityType DEF ClusterInv
      <4> QED BY <2>4, <4>1, <4>2, ClusterAssumption
    <3> QED BY <3>1, <3>2
  <2>9. fits' \in [Fits -> FitRow] /\ centroids' \in [Fits -> 0 .. MaxSaves]
    BY <1>2, <1>3, <2>2, <2>3, ClusterAssumption DEF ClusterInv
  <2>10. \A f \in Fits : centroids'[f] = fits'[f].made
    BY <1>2, <1>3, <2>1, <2>2, <2>3 DEF ClusterInv
  <2>11. \A a \in assigned' : a.entity \in Entities /\ a.fit \in Fits
    BY <2>3 DEF AssignmentsBut, ClusterInv
  <2> HIDE DEF s
  <2>12. DOMAIN writer' = Fitters
    BY <1>1 DEF ClusterInv
  <2> QED BY <1>1, <1>3, <1>4, <2>7, <2>8, <2>9, <2>10, <2>11, <2>12 DEF ClusterInv
<1> QED BY <1>5, <1>6

LEMMA PurgeFitsStep ==
  ASSUME ClusterInv, PurgeFits
  PROVE  ClusterInv'
<1>1. PICK old \in SUBSET Fits :
        /\ fits' = [f \in Fits |-> IF f \in old THEN NoFit ELSE fits[f]]
        /\ centroids' = [f \in Fits |-> IF f \in old THEN 0 ELSE centroids[f]]
        /\ assigned' = {a \in assigned : a.fit \notin old}
        /\ UNCHANGED <<hour, writer, saves, evicted>>
  BY DEF PurgeFits, Stored
<1>2. FitRow' = FitRow /\ NoFit \in FitRow /\ NoFit.made = 0
  BY <1>1, ClusterAssumption DEF FitRow, ClusterInv, NoFit
<1>3. Stored' \in SUBSET Stored
  BY <1>1 DEF Stored
<1>4. IsFiniteSet(Stored') /\ Cardinality(Stored') <= MaxFits
  <2>1. IsFiniteSet(Stored') /\ Cardinality(Stored') <= Cardinality(Stored) /\ Cardinality(Stored) <= MaxFits
    BY <1>3, FS_Subset DEF ClusterInv
  <2>2. Cardinality(Stored) \in Nat /\ Cardinality(Stored') \in Nat
    BY <2>1, FS_CardinalityType DEF ClusterInv
  <2> QED BY <2>1, <2>2, ClusterAssumption
<1>5. \A v \in Fitters : WriterOK(writer[v])'
  BY <1>1, <1>2 DEF ClusterInv, WriterOK
<1>6. fits' \in [Fits -> FitRow] /\ centroids' \in [Fits -> 0 .. MaxSaves]
      /\ \A f \in Fits : centroids'[f] = fits'[f].made
  BY <1>1, <1>2, ClusterAssumption DEF ClusterInv
<1> QED BY <1>1, <1>2, <1>4, <1>5, <1>6 DEF ClusterInv

LEMMA ClusterTickStep ==
  ASSUME ClusterInv, ClusterTick
  PROVE  ClusterInv'
<1>1. hour' \in 0 .. MaxHour /\ hour' = hour + 1 /\ UNCHANGED <<fits, centroids, assigned, writer, saves, evicted>>
  BY ClusterAssumption DEF ClusterTick, ClusterInv
<1>2. FitRow \subseteq FitRow' /\ Stored' = Stored
  BY <1>1 DEF FitRow, Stored, ClusterInv
<1>3. \A v \in Fitters : WriterOK(writer[v])'
  BY <1>1, <1>2 DEF ClusterInv, WriterOK
<1> QED BY <1>1, <1>2, <1>3 DEF ClusterInv

(* A fit and its centroids are of one computation, there are never more    *)
(* fits than the cap, and an enforced save costs no stored fit its place   *)
(* while the row it looked for is as it was: for any fits, callers, cap    *)
(* and retention.                                                          *)
THEOREM FitsAreKept == ClusterSpec => [](FitsKept /\ ClusterTypeOK)
<1>1. ClusterInv /\ UNCHANGED clusterVars => ClusterInv'
  BY DEF ClusterInv, clusterVars, FitRow, Stored, WriterOK
<1>2. ClusterInv /\ [ClusterNext]_clusterVars => ClusterInv'
  BY <1>1, ClusterTickStep, PurgeFitsStep, LookStep, SaveFitStep, LoadStep, RestStep DEF ClusterNext
<1>3. ClusterInv => FitsKept /\ ClusterTypeOK
  BY DEF ClusterInv, FitRow, FitsKept, ClusterTypeOK
<1> QED BY <1>2, <1>3, ClusterStart, PTL DEF ClusterSpec

-----------------------------------------------------------------------------
(* IndexerSweep.  Whatever a page, the count or the cache says was in the  *)
(* index at some time, and a page has no more than was asked for; what is  *)
(* called complete on a count of its own was all there was.                *)
Questions == [mode : {"timestamp_id", "timestamp_only", "count"}, below : Nat, size : Nat]
Replies == [partial : BOOLEAN, hits : SUBSET Documents]
ReplyOK(q, reply) ==
  /\ reply \in Replies /\ reply.hits \subseteq index \cup removed
  /\ q.mode # "count" => Cardinality(reply.hits) <= q.size
Sweeps == [pc : {"idle", "page", "count", "done"}, mode : Modes, below : 0 .. Newest + 1,
           hits : SUBSET Documents, pages : Nat, partial : BOOLEAN,
           stop : {"none", "max_hits", "shard_partial", "exhausted", "error",
                   "verification_failed", "count_mismatch"},
           complete : BOOLEAN, counted : SUBSET Documents, fresh : BOOLEAN]
SweepInv ==
  /\ index \subseteq Documents /\ removed \subseteq Documents \ index
  /\ sweep \in Sweeps
  /\ sweep.hits \subseteq index \cup removed /\ Cardinality(sweep.hits) <= MaxHits
  /\ \A r \in replies : r \in [to : Questions, reply : Replies] /\ ReplyOK(r.to, r.reply)
  /\ CompleteIsExact
  /\ sweep.complete => sweep.pc = "done"

LEMMA DocumentsFinite ==
  /\ IsFiniteSet(Documents) /\ Documents \subseteq Nat
  /\ \A S \in SUBSET Documents : IsFiniteSet(S) /\ Cardinality(S) \in Nat
<1>1. IsFiniteSet(Documents) /\ Documents \subseteq Nat
  BY FS_Interval, SweepAssumption DEF Documents
<1> QED BY <1>1, FS_Subset, FS_CardinalityType

(* The newest n of a set are at most n.                                    *)
LEMMA NewestFew ==
  ASSUME NEW S \in SUBSET Documents, NEW n \in Nat
  PROVE  TakeNewest(S, n) \subseteq S /\ Cardinality(TakeNewest(S, n)) <= n
<1> DEFINE N == TakeNewest(S, n)
<1>1. N \subseteq S /\ \A a \in N : Cardinality({b \in S : b >= a}) <= n
  BY DEF TakeNewest
<1> HIDE DEF N
<1>2. IsFiniteSet(N) /\ Cardinality(N) \in Nat /\ N \subseteq Int
  BY <1>1, DocumentsFinite
<1>3. CASE N = {}
  BY <1>1, <1>3, FS_EmptySet DEF N
<1>4. CASE N # {}
  <2>1. PICK a \in N : \A y \in N : a <= y
    BY <1>2, <1>4, LeastOfFinite
  <2> DEFINE Above == {b \in S : b >= a}
  <2>2. N \subseteq Above /\ Above \in SUBSET Documents
    BY <1>1, <1>2, <2>1
  <2>3. Cardinality(Above) <= n /\ IsFiniteSet(Above) /\ Cardinality(Above) \in Nat
    BY <1>1, <2>2, DocumentsFinite
  <2> HIDE DEF Above
  <2>4. Cardinality(N) <= Cardinality(Above)
    BY <2>2, <2>3, FS_Subset
  <2> QED BY <1>1, <1>2, <2>3, <2>4 DEF N
<1> QED BY <1>3, <1>4

LEMMA SizeOfPage ==
  ASSUME SweepInv
  PROVE  /\ PageOf(sweep) \in Questions /\ PageOf(sweep).mode # "count"
         /\ PageOf(sweep).size + Cardinality(sweep.hits) <= MaxHits
         /\ Cardinality(sweep.hits) \in Nat
         /\ Cardinality(sweep.hits) < MaxHits => PageOf(sweep).size > 0
         /\ Counting \in Questions /\ Counting.mode = "count"
<1>1. Cardinality(sweep.hits) \in Nat /\ Cardinality(sweep.hits) <= MaxHits /\ MaxHits \in Nat
      /\ PageSize \in Nat \ {0} /\ sweep.below \in Nat /\ sweep.mode \in Modes
  BY DocumentsFinite, SweepAssumption DEF SweepInv, Sweeps
<1> QED BY <1>1 DEF PageOf, Questions, Modes, Counting

LEMMA AnswerOK ==
  ASSUME SweepInv, NEW q \in Questions, NEW lost
  PROVE  ReplyOK(q, Answers(q, lost))
<1>1. /\ Answers(q, lost).partial \in BOOLEAN
      /\ Answers(q, lost).hits = IF q.mode = "count" THEN index \ lost
                                 ELSE TakeNewest({a \in index \ lost : a < q.below}, q.size)
  BY DEF Answers
<1>2. {a \in index \ lost : a < q.below} \in SUBSET Documents /\ q.size \in Nat /\ index \subseteq Documents
  BY DEF SweepInv, Questions
<1>3. /\ TakeNewest({a \in index \ lost : a < q.below}, q.size) \subseteq index
      /\ Cardinality(TakeNewest({a \in index \ lost : a < q.below}, q.size)) <= q.size
  BY <1>2, NewestFew
<1>4. Answers(q, lost) \in [partial : BOOLEAN, hits : SUBSET Documents]
  BY <1>1, <1>2, <1>3 DEF Answers
<1> QED BY <1>1, <1>3, <1>4 DEF ReplyOK, Replies

(* What is asked is answered by the index or by the cache.                 *)
LEMMA AskedOK ==
  ASSUME SweepInv, NEW q \in Questions, NEW lost, NEW fresh \in BOOLEAN,
         NEW reply, reply = Answers(q, lost) \/ \E r \in Cached(q) : reply = r.reply,
         Asked(q, reply, fresh)
  PROVE  /\ ReplyOK(q, reply)
         /\ fresh => reply = Answers(q, lost)
         /\ \A r \in replies' : r \in [to : Questions, reply : Replies] /\ ReplyOK(r.to, r.reply)
<1>1. ReplyOK(q, Answers(q, lost))
  BY AnswerOK
<1>2. \A r \in Cached(q) : ReplyOK(q, r.reply)
  BY DEF Cached, SweepInv
<1>3. ReplyOK(q, reply) /\ reply \in Replies
  BY <1>1, <1>2 DEF ReplyOK
<1>4. fresh => Cached(q) = {} /\ replies' = replies \cup {[to |-> q, reply |-> reply]}
  BY DEF Asked
<1>5. ~fresh => replies' = replies
  BY DEF Asked
<1>6. \A r \in replies' : r \in [to : Questions, reply : Replies] /\ ReplyOK(r.to, r.reply)
  <2> SUFFICES ASSUME NEW r \in replies', r \notin replies
               PROVE  r \in [to : Questions, reply : Replies] /\ ReplyOK(r.to, r.reply)
    BY DEF SweepInv
  <2> QED BY <1>3, <1>4, <1>5
<1> QED BY <1>3, <1>4, <1>6

LEMMA CursorOK ==
  ASSUME NEW s, NEW got \in SUBSET Documents, got # {}
  PROVE  Cursor(s, got) \in Documents
<1>1. \A S \in SUBSET Documents : S # {} => Min(S) \in S
  <2> SUFFICES ASSUME NEW S \in SUBSET Documents, S # {} PROVE Min(S) \in S
    OBVIOUS
  <2>1. \E x \in S : \A y \in S : x <= y
    BY DocumentsFinite, LeastOf
  <2> QED BY <2>1 DEF Min
<1>2. Min(got) \in Documents
  BY <1>1
<1>3. Min(got) \in {a \in Documents : Stamp[a] = Stamp[Min(got)]}
  BY <1>2
<1>4. Min({a \in Documents : Stamp[a] = Stamp[Min(got)]}) \in Documents
  BY <1>1, <1>3
<1> QED BY <1>2, <1>4 DEF Cursor

LEMMA PageStep ==
  ASSUME SweepInv, FetchPage
  PROVE  SweepInv'
<1>1. PICK lost \in {{}} \cup {{a} : a \in index}, fresh \in BOOLEAN :
        \E reply \in {Answers(PageOf(sweep), lost)} \cup {r.reply : r \in Cached(PageOf(sweep))} :
          Asked(PageOf(sweep), reply, fresh) /\ sweep' = AfterPage(sweep, reply)
  BY DEF FetchPage
<1>2. PICK reply \in {Answers(PageOf(sweep), lost)} \cup {r.reply : r \in Cached(PageOf(sweep))} :
        Asked(PageOf(sweep), reply, fresh) /\ sweep' = AfterPage(sweep, reply)
  BY <1>1
<1>3. UNCHANGED <<index, removed, sweeps, changes>>
  BY DEF FetchPage
<1>4. /\ ReplyOK(PageOf(sweep), reply)
      /\ \A r \in replies' : r \in [to : Questions, reply : Replies] /\ ReplyOK(r.to, r.reply)
  <2>1. reply = Answers(PageOf(sweep), lost) \/ \E r \in Cached(PageOf(sweep)) : reply = r.reply
    BY <1>2
  <2>2. PageOf(sweep) \in Questions
    BY SizeOfPage
  <2> QED BY <1>2, <2>1, <2>2, AskedOK
<1>5. /\ reply.hits \in SUBSET Documents /\ reply.partial \in BOOLEAN
      /\ reply.hits \subseteq index \cup removed
      /\ Cardinality(reply.hits) <= PageOf(sweep).size
  BY <1>4, SizeOfPage DEF ReplyOK, Replies
<1> DEFINE got == sweep.hits \cup reply.hits
<1>6. got \in SUBSET Documents /\ got \subseteq index \cup removed /\ Cardinality(got) \in Nat
  BY <1>5, DocumentsFinite DEF SweepInv, Sweeps
<1>7. Cardinality(got) <= MaxHits
  <2>1. sweep.hits \in SUBSET Documents
    BY DEF SweepInv, Sweeps
  <2>2. /\ IsFiniteSet(sweep.hits) /\ IsFiniteSet(reply.hits) /\ Cardinality(sweep.hits) \in Nat
        /\ Cardinality(reply.hits) \in Nat /\ Cardinality(sweep.hits \cap reply.hits) \in Nat
    BY <1>5, <2>1, DocumentsFinite
  <2>3. Cardinality(got) = Cardinality(sweep.hits) + Cardinality(reply.hits)
                            - Cardinality(sweep.hits \cap reply.hits)
    BY <2>2, FS_Union
  <2>4. PageOf(sweep).size + Cardinality(sweep.hits) <= MaxHits /\ PageOf(sweep).size \in Nat
    BY SizeOfPage DEF Questions
  <2> HIDE DEF got
  <2> QED BY <1>5, <1>6, <2>2, <2>3, <2>4, SweepAssumption
<1> DEFINE below == Cursor(sweep, reply.hits)
           more == Cardinality(reply.hits) = PageOf(sweep).size /\ Cardinality(got) < MaxHits
<1>8. more => below \in 0 .. Newest + 1
  <2> SUFFICES ASSUME more PROVE below \in 0 .. Newest + 1
    OBVIOUS
  <2>1. Cardinality(sweep.hits) <= Cardinality(got)
    BY <1>6, DocumentsFinite, FS_Subset DEF SweepInv, Sweeps
  <2>2. Cardinality(sweep.hits) < MaxHits
    BY <1>6, <2>1, SizeOfPage, SweepAssumption
  <2>3. Cardinality(reply.hits) > 0
    BY <2>2, SizeOfPage
  <2>4. reply.hits # {}
    BY <2>3, FS_EmptySet
  <2>5. below \in Documents
    BY <1>5, <2>4, CursorOK
  <2> HIDE DEF below
  <2> QED BY <2>5, SweepAssumption DEF Documents
<1>9. /\ sweep' \in Sweeps
      /\ sweep'.hits = got
      /\ UNCHANGED <<sweep.complete, sweep.fresh, sweep.counted>>
  <2> DEFINE part == sweep.partial \/ reply.partial
             pages == sweep.pages + 1
             t == [sweep EXCEPT !.hits = got, !.pages = pages, !.partial = part]
             why == IF Cardinality(got) >= MaxHits /\ Cardinality(reply.hits) = PageOf(sweep).size
                    THEN "max_hits" ELSE IF t.partial THEN "shard_partial" ELSE "exhausted"
  <2>1. /\ sweep' = IF more THEN [t EXCEPT !.below = below]
                    ELSE IF t.mode = "timestamp_id" /\ ~t.partial
                    THEN [t EXCEPT !.pc = "count", !.stop = why]
                    ELSE [t EXCEPT !.pc = "done", !.stop = why]
    <3>1. t.hits = got
      BY DEF SweepInv, Sweeps
    <3> QED BY <1>2, <3>1 DEF AfterPage
  <2> HIDE DEF more, below, got
  <2>2. /\ t \in Sweeps
        /\ t.hits = got /\ t.complete = sweep.complete /\ t.fresh = sweep.fresh
        /\ t.counted = sweep.counted
    <3>1. part \in BOOLEAN
      OBVIOUS
    <3>2. sweep \in Sweeps
      BY DEF SweepInv
    <3>3. pages \in Nat
      BY <3>2 DEF Sweeps
    <3> HIDE DEF part, pages
    <3>4. t \in Sweeps
      BY <1>6, <3>1, <3>2, <3>3 DEF Sweeps
    <3>5. /\ t.hits = got /\ t.complete = sweep.complete
          /\ t.fresh = sweep.fresh /\ t.counted = sweep.counted
      BY <3>2 DEF Sweeps
    <3> QED BY <3>4, <3>5
  <2>3. why \in {"max_hits", "shard_partial", "exhausted"}
    OBVIOUS
  <2> HIDE DEF t, why
  <2>4. CASE more
    BY <1>8, <2>1, <2>2, <2>4 DEF Sweeps
  <2>5. CASE ~more
    BY <2>1, <2>2, <2>3, <2>5 DEF Sweeps
  <2> QED BY <2>4, <2>5
<1>10. ~sweep.complete /\ ~sweep'.complete
  BY <1>9 DEF FetchPage, SweepInv, Sweeps
<1> QED BY <1>3, <1>4, <1>6, <1>7, <1>9, <1>10 DEF SweepInv, ReplyOK, CompleteIsExact

LEMMA CountStep ==
  ASSUME SweepInv, Count
  PROVE  SweepInv'
<1>1. PICK lost \in {{}} \cup {{a} : a \in index}, fresh \in BOOLEAN :
        \E reply \in {Answers(Counting, lost)} \cup {r.reply : r \in Cached(Counting)} :
          Asked(Counting, reply, fresh) /\ sweep' = AfterCount(sweep, reply, fresh)
  BY DEF Count
<1>2. PICK reply \in {Answers(Counting, lost)} \cup {r.reply : r \in Cached(Counting)} :
        Asked(Counting, reply, fresh) /\ sweep' = AfterCount(sweep, reply, fresh)
  BY <1>1
<1>3. UNCHANGED <<index, removed, sweeps, changes>> /\ sweep.pc = "count"
  BY DEF Count
<1>4. /\ ReplyOK(Counting, reply)
      /\ \A r \in replies' : r \in [to : Questions, reply : Replies] /\ ReplyOK(r.to, r.reply)
      /\ fresh => reply = Answers(Counting, lost)
  <2>1. reply = Answers(Counting, lost) \/ \E r \in Cached(Counting) : reply = r.reply
    BY <1>2
  <2>2. Counting \in Questions
    BY SizeOfPage
  <2> QED BY <1>2, <2>1, <2>2, AskedOK
<1> DEFINE whole == ~reply.partial /\ Cardinality(reply.hits) = Cardinality(sweep.hits)
           stop == IF whole \/ sweep.stop = "max_hits" THEN sweep.stop
                   ELSE IF reply.partial THEN "verification_failed" ELSE "count_mismatch"
<1>5. sweep' = [sweep EXCEPT !.pc = "done", !.complete = whole, !.counted = index,
                             !.fresh = fresh, !.stop = stop]
  BY <1>2 DEF AfterCount
<1>6. sweep \in Sweeps /\ index \in SUBSET Documents
  BY DEF SweepInv
<1>7. whole \in BOOLEAN
  OBVIOUS
<1>8. whole /\ fresh /\ removed = {} => sweep.hits = index
  <2> SUFFICES ASSUME whole, fresh, removed = {} PROVE sweep.hits = index
    OBVIOUS
  <2>1. reply = Answers(Counting, lost) /\ ~reply.partial
    BY <1>4
  <2>2. reply.hits = index
    BY <2>1, SizeOfPage DEF Answers
  <2>3. sweep.hits \subseteq index
    BY DEF SweepInv
  <2>4. IsFiniteSet(index)
    BY <1>6, DocumentsFinite
  <2> QED BY <2>2, <2>3, <2>4, FS_Subset
<1>9. stop \in {"none", "max_hits", "shard_partial", "exhausted", "error",
                "verification_failed", "count_mismatch"}
  BY <1>6 DEF Sweeps
<1> HIDE DEF whole, stop
<1>10. sweep' \in Sweeps
  BY <1>5, <1>6, <1>7, <1>9 DEF Sweeps
<1>11. /\ sweep'.pc = "done" /\ sweep'.hits = sweep.hits /\ sweep'.complete = whole
       /\ sweep'.counted = index /\ sweep'.fresh = fresh
  BY <1>5, <1>6 DEF Sweeps
<1>12. CompleteIsExact'
  BY <1>3, <1>8, <1>11 DEF CompleteIsExact
<1> QED BY <1>3, <1>4, <1>10, <1>11, <1>12 DEF SweepInv, ReplyOK

(* The steps that ask nothing.                                             *)
LEMMA QuietSweepStep ==
  ASSUME SweepInv, BeginSweep \/ FallBack \/ PageFails \/ CountFails
  PROVE  SweepInv'
<1>1. UNCHANGED <<index, removed, replies>>
  BY DEF BeginSweep, FallBack, PageFails, CountFails
<1>2. sweep \in Sweeps
  BY DEF SweepInv
<1>3. CASE BeginSweep
  <2>1. sweep' = [Idle EXCEPT !.pc = "page"]
    BY <1>3 DEF BeginSweep
  <2>2. sweep' = [pc |-> "page", mode |-> "timestamp_id", below |-> Newest + 1, hits |-> {},
                  pages |-> 0, partial |-> FALSE, stop |-> "none", complete |-> FALSE,
                  counted |-> {}, fresh |-> TRUE]
    BY <2>1 DEF Idle
  <2>3. Newest + 1 \in 0 .. Newest + 1
    BY SweepAssumption
  <2>4. sweep' \in Sweeps /\ sweep'.hits = {} /\ ~sweep'.complete
    BY <2>2, <2>3 DEF Sweeps, Modes
  <2> QED BY <1>1, <2>4, FS_EmptySet, SweepAssumption DEF SweepInv, CompleteIsExact, ReplyOK
<1>4. CASE FallBack \/ PageFails \/ CountFails
  <2>1. /\ sweep' \in Sweeps /\ sweep'.hits = sweep.hits /\ ~sweep'.complete
    BY <1>2, <1>4 DEF FallBack, PageFails, CountFails, SweepInv, Sweeps, Modes
  <2> QED BY <1>1, <2>1 DEF SweepInv, CompleteIsExact, ReplyOK
<1> QED BY <1>3, <1>4

LEMMA WorldStep ==
  ASSUME SweepInv, IndexAlert \/ RemoveAlert \/ ExpireReply
  PROVE  SweepInv'
<1>1. sweep' = sweep /\ replies' \subseteq replies
  BY DEF IndexAlert, RemoveAlert, ExpireReply
<1>2. /\ index \cup removed \subseteq index' \cup removed'
      /\ index' \subseteq Documents /\ removed' \subseteq Documents \ index'
      /\ removed \subseteq removed'
  BY DEF IndexAlert, RemoveAlert, ExpireReply, SweepInv
<1>3. \A r \in replies' : ReplyOK(r.to, r.reply)'
  BY <1>1, <1>2 DEF SweepInv, ReplyOK
<1>4. CompleteIsExact'
  BY <1>1, <1>2 DEF SweepInv, CompleteIsExact
<1> QED BY <1>1, <1>2, <1>3, <1>4 DEF SweepInv

LEMMA SweepStart == SweepInit => SweepInv
<1> SUFFICES ASSUME SweepInit PROVE SweepInv
  OBVIOUS
<1>1. sweep \in Sweeps /\ sweep.hits = {} /\ ~sweep.complete
  BY SweepAssumption DEF SweepInit, Sweeps, Idle, Modes
<1> QED BY <1>1, FS_EmptySet, SweepAssumption DEF SweepInit, SweepInv, CompleteIsExact

(* A sweep that calls its window complete has every alert of the moment of *)
(* its count, when that count was asked of the index and nothing was       *)
(* removed: for any alerts, time stamps, page size and cap, with whatever  *)
(* comes and goes between pages and whatever pages the cache serves.       *)
THEOREM CompleteMeansAll == SweepSpec => [](CompleteIsExact /\ SweepTypeOK)
<1>1. SweepInv /\ UNCHANGED sweepVars => SweepInv'
  BY DEF SweepInv, sweepVars, ReplyOK, CompleteIsExact
<1>2. SweepInv /\ [SweepNext]_sweepVars => SweepInv'
  BY <1>1, PageStep, CountStep, QuietSweepStep, WorldStep DEF SweepNext
<1>3. SweepInv => CompleteIsExact /\ SweepTypeOK
  BY DEF SweepInv, Sweeps, SweepTypeOK
<1> QED BY <1>2, <1>3, SweepStart, PTL DEF SweepSpec

-----------------------------------------------------------------------------
(* HistoryFile.  The lines appended since a write was cut short are the    *)
(* last lines of the file, in their order; and a file that decodes and     *)
(* whose last append was whole is within its bound.                        *)
HistoryInv ==
  /\ lines \in Seq(-1 .. MaxVerdicts) /\ open \in BOOLEAN /\ about \in Seq(Addresses)
  /\ Len(about) <= MaxVerdicts /\ clean \in 0 .. Len(about)
  /\ open => clean = 0 /\ lines # <<>>
  /\ HistoryMax > 0 /\ clean > 0 /\ ~Unreadable(lines) =>
       Len(lines) <= HistoryMax /\ (clean <= Len(lines) \/ HistoryMax <= Len(lines))
  /\ \A i \in 1 .. Len(lines) :
       Len(lines) - i < clean => lines[i] = Len(about) - (Len(lines) - i)

LEMMA HistoryStart == HistoryInit => HistoryInv
<1> SUFFICES ASSUME lines = <<>>, open = FALSE, about = <<>>, clean = 0
             PROVE  HistoryInv
  BY DEF HistoryInit
<1>1. lines \in Seq(-1 .. MaxVerdicts) /\ about \in Seq(Addresses)
  BY EmptySeq
<1>2. Len(lines) = 0 /\ Len(about) = 0
  OBVIOUS
<1>3. \A i \in 1 .. Len(lines) : FALSE
  BY <1>2
<1>4. ~(clean > 0)
  OBVIOUS
<1>5. Len(about) <= MaxVerdicts /\ clean \in 0 .. Len(about) /\ ~open
  BY <1>2, HistoryAssumption
<1> QED BY <1>1, <1>3, <1>4, <1>5 DEF HistoryInv

LEMMA LinesMarked ==
  ASSUME HistoryInv, NEW a \in Addresses, Mark(a)
  PROVE  /\ about' \in Seq(Addresses) /\ Len(about') = Len(about) + 1
         /\ Len(about') \in 1 .. MaxVerdicts /\ Len(about) \in Nat /\ Len(lines) \in Nat
<1>1. about' = Append(about, a) /\ Len(about) < MaxVerdicts
  BY DEF Mark
<1>2. about \in Seq(Addresses) /\ Len(about) \in Nat /\ Len(lines) \in Nat
  BY LenProperties DEF HistoryInv
<1> QED BY <1>1, <1>2, AppendProperties, HistoryAssumption

(* An append, with what was there before it.                               *)
LEMMA AppendedIs ==
  ASSUME HistoryInv, NEW line \in -1 .. MaxVerdicts
  PROVE  /\ Appended(line) \in Seq(-1 .. MaxVerdicts) /\ Appended(line) # <<>>
         /\ Len(Appended(line)) = IF open THEN Len(lines) ELSE Len(lines) + 1
         /\ ~open => /\ Appended(line)[Len(lines) + 1] = line
                     /\ \A i \in 1 .. Len(lines) : Appended(line)[i] = lines[i]
<1>1. lines \in Seq(-1 .. MaxVerdicts) /\ Len(lines) \in Nat
  BY LenProperties DEF HistoryInv
<1>2. CASE open
  <2>1. Len(lines) \in 1 .. Len(lines)
    BY <1>1, <1>2, EmptySeq DEF HistoryInv
  <2> DEFINE l == Joined(lines[Len(lines)], line)
  <2>2. l \in -1 .. MaxVerdicts
    BY HistoryAssumption DEF Torn, Garbled, Joined
  <2> HIDE DEF l
  <2>3. /\ [lines EXCEPT ![Len(lines)] = l] \in Seq(-1 .. MaxVerdicts)
        /\ Len([lines EXCEPT ![Len(lines)] = l]) = Len(lines)
    BY <1>1, <2>1, <2>2, ExceptSeq
  <2> QED BY <1>1, <1>2, <2>1, <2>3, EmptySeq DEF Appended, l
<1>3. CASE ~open
  BY <1>1, <1>3, AppendProperties DEF Appended
<1> QED BY <1>2, <1>3

LEMMA BoundedIs ==
  ASSUME NEW s \in Seq(-1 .. MaxVerdicts)
  PROVE  /\ Bounded(s) \in Seq(-1 .. MaxVerdicts)
         /\ Len(s) \in Nat /\ Len(Bounded(s)) \in Nat
         /\ Len(Bounded(s)) = IF HistoryMax > 0 /\ Len(s) > HistoryMax THEN HistoryMax ELSE Len(s)
         /\ \A i \in 1 .. Len(Bounded(s)) : Bounded(s)[i] = s[i + (Len(s) - Len(Bounded(s)))]
<1>1. Len(s) \in Nat /\ \A i \in 1 .. Len(s) : s[i] \in -1 .. MaxVerdicts
  BY LenProperties
<1>2. CASE HistoryMax > 0 /\ Len(s) > HistoryMax
  <2> DEFINE m == Len(s) - HistoryMax + 1
  <2>1. m \in 1 .. Len(s) /\ Len(s) - m + 1 = HistoryMax /\ HistoryMax \in Nat
    BY <1>1, <1>2, HistoryAssumption
  <2>2. Bounded(s) = SubSeq(s, m, Len(s))
    BY <1>1, <1>2, HistoryAssumption DEF Bounded, LastLines
  <2>3. /\ SubSeq(s, m, Len(s)) \in Seq(-1 .. MaxVerdicts) /\ Len(SubSeq(s, m, Len(s))) = HistoryMax
        /\ \A i \in 1 .. HistoryMax : SubSeq(s, m, Len(s))[i] = s[m + i - 1]
    <3> HIDE DEF m
    <3>1. m \in Int /\ Len(s) \in Int /\ \A i \in m .. Len(s) : s[i] \in -1 .. MaxVerdicts
      BY <1>1, <2>1
    <3> QED BY <1>1, <2>1, <3>1, SubSeqProperties
  <2>4. \A i \in 1 .. HistoryMax : m + i - 1 = i + (Len(s) - HistoryMax)
    BY <1>1, HistoryAssumption
  <2> QED BY <1>1, <1>2, <2>1, <2>2, <2>3, <2>4
<1>3. CASE ~(HistoryMax > 0 /\ Len(s) > HistoryMax)
  <2>1. Bounded(s) = s
    BY <1>1, <1>3, HistoryAssumption DEF Bounded, LastLines
  <2> QED BY <1>1, <1>3, <2>1
<1> QED BY <1>2, <1>3

(* An append that went through, whole, to a file without an open line puts *)
(* its line behind those that were appended since the last cut.            *)
LEMMA MarkedWhole ==
  ASSUME HistoryInv, NEW line, line = Len(about) + 1, line \in 1 .. MaxVerdicts
  PROVE  \A j \in 1 .. Len(Appended(line)) :
           Len(Appended(line)) - j < (IF open THEN clean ELSE clean + 1)
             => Appended(line)[j] = line - (Len(Appended(line)) - j)
<1> DEFINE whole == Appended(line)
<1>1. /\ Len(whole) = IF open THEN Len(lines) ELSE Len(lines) + 1
      /\ ~open => whole[Len(lines) + 1] = line /\ \A i \in 1 .. Len(lines) : whole[i] = lines[i]
  <2>1. line \in -1 .. MaxVerdicts
    OBVIOUS
  <2> QED BY <2>1, AppendedIs
<1>2. Len(lines) \in Nat /\ Len(about) \in Nat /\ clean \in Nat
  BY LenProperties DEF HistoryInv
<1> HIDE DEF whole
<1>3. CASE open
  BY <1>1, <1>2, <1>3 DEF HistoryInv, whole
<1>4. CASE ~open
  <2> SUFFICES ASSUME NEW j \in 1 .. Len(whole), Len(whole) - j < clean + 1
               PROVE  whole[j] = line - (Len(whole) - j)
    BY <1>4 DEF whole
  <2>1. Len(whole) = Len(lines) + 1
    BY <1>1, <1>4
  <2>2. CASE j = Len(whole)
    BY <1>1, <1>2, <1>4, <2>1, <2>2
  <2>3. CASE j # Len(whole)
    <3>1. j \in 1 .. Len(lines) /\ Len(lines) - j < clean
      BY <1>2, <2>1, <2>3
    <3>2. lines[j] = Len(about) - (Len(lines) - j)
      BY <3>1 DEF HistoryInv
    <3>3. whole[j] = lines[j]
      BY <1>1, <1>4, <3>1
    <3> QED BY <1>2, <2>1, <3>1, <3>2, <3>3
  <2> QED BY <2>2, <2>3
<1> QED BY <1>3, <1>4

LEMMA RecordedStep ==
  ASSUME HistoryInv, NEW a \in Addresses, MarkRecorded(a)
  PROVE  HistoryInv'
<1> DEFINE line == Len(about) + 1 whole == Appended(line)
<1>1. /\ lines' = IF Unreadable(whole) THEN whole ELSE Bounded(whole)
      /\ open' = FALSE /\ clean' = IF open THEN clean ELSE clean + 1
      /\ Mark(a)
  BY DEF MarkRecorded
<1>2. /\ about' \in Seq(Addresses) /\ Len(about') = line
      /\ line \in 1 .. MaxVerdicts /\ Len(about) \in Nat /\ Len(lines) \in Nat
  BY <1>1, LinesMarked
<1>3. /\ whole \in Seq(-1 .. MaxVerdicts)
      /\ Len(whole) = IF open THEN Len(lines) ELSE Len(lines) + 1
      /\ ~open => whole[Len(lines) + 1] = line /\ \A i \in 1 .. Len(lines) : whole[i] = lines[i]
  <2>1. line \in -1 .. MaxVerdicts
    BY <1>2
  <2> HIDE DEF line
  <2> QED BY <2>1, AppendedIs
<1>6. \A j \in 1 .. Len(whole) : Len(whole) - j < clean' => whole[j] = line - (Len(whole) - j)
  <2>1. line = Len(about) + 1
    OBVIOUS
  <2> HIDE DEF line
  <2> QED BY <1>1, <1>2, <2>1, MarkedWhole
<1> HIDE DEF whole, line
<1>4. /\ lines' \in Seq(-1 .. MaxVerdicts) /\ Len(lines') \in Nat /\ Len(whole) \in Nat
      /\ Len(lines') <= Len(whole)
      /\ ~Unreadable(whole) =>
           Len(lines') = IF HistoryMax > 0 /\ Len(whole) > HistoryMax THEN HistoryMax ELSE Len(whole)
      /\ \A i \in 1 .. Len(lines') : lines'[i] = whole[i + (Len(whole) - Len(lines'))]
  <2>1. CASE Unreadable(whole)
    <3>1. lines' = whole /\ Len(whole) \in Nat
      BY <1>1, <1>3, <2>1
    <3>2. \A i \in 1 .. Len(whole) : i + (Len(whole) - Len(whole)) = i
      BY <3>1
    <3> QED BY <1>3, <2>1, <3>1, <3>2
  <2>2. CASE ~Unreadable(whole)
    <3>1. lines' = Bounded(whole) /\ HistoryMax \in Nat
      BY <1>1, <2>2, HistoryAssumption
    <3>2. /\ lines' \in Seq(-1 .. MaxVerdicts) /\ Len(lines') \in Nat /\ Len(whole) \in Nat
          /\ Len(lines') = IF HistoryMax > 0 /\ Len(whole) > HistoryMax THEN HistoryMax ELSE Len(whole)
          /\ \A i \in 1 .. Len(lines') : lines'[i] = whole[i + (Len(whole) - Len(lines'))]
      <4>1. whole \in Seq(-1 .. MaxVerdicts)
        BY <1>3
      <4> QED BY <3>1, <4>1, BoundedIs
    <3>3. Len(lines') <= Len(whole)
      BY <3>1, <3>2
    <3> QED BY <3>2, <3>3
  <2> QED BY <2>1, <2>2
<1>5. clean \in Nat /\ clean <= Len(about) /\ clean' \in 0 .. Len(about')
  BY <1>1, <1>2 DEF HistoryInv, line
<1>7. \A i \in 1 .. Len(lines') :
        Len(lines') - i < clean' => lines'[i] = Len(about') - (Len(lines') - i)
  <2> SUFFICES ASSUME NEW i \in 1 .. Len(lines'), Len(lines') - i < clean'
               PROVE  lines'[i] = Len(about') - (Len(lines') - i)
    OBVIOUS
  <2> DEFINE j == i + (Len(whole) - Len(lines'))
  <2>1. j \in 1 .. Len(whole) /\ Len(whole) - j = Len(lines') - i
    BY <1>4
  <2>2. lines'[i] = whole[j]
    BY <1>4
  <2> HIDE DEF j
  <2> QED BY <1>2, <1>6, <2>1, <2>2
<1>8. ASSUME HistoryMax > 0, clean' > 0, ~Unreadable(lines')
      PROVE  Len(lines') <= HistoryMax /\ (clean' <= Len(lines') \/ HistoryMax <= Len(lines'))
  <2>0. ~Unreadable(whole)
    BY <1>1, <1>8
  <2>1. CASE Len(whole) > HistoryMax
    BY <1>4, <1>8, <2>0, <2>1, HistoryAssumption
  <2>2. CASE ~(Len(whole) > HistoryMax)
    <3>1. Len(lines') = Len(whole) /\ Len(whole) <= HistoryMax
      BY <1>4, <1>8, <2>0, <2>2, HistoryAssumption
    <3>2. ~open /\ clean' = clean + 1 /\ Len(whole) = Len(lines) + 1
      BY <1>1, <1>3, <1>8, <1>5 DEF HistoryInv
    <3>3. ~Unreadable(lines)
      BY <1>2, <1>3, <2>0, <3>2 DEF Unreadable
    <3>4. clean = 0 \/ clean <= Len(lines) \/ HistoryMax <= Len(lines)
      BY <1>5, <1>8, <3>3 DEF HistoryInv
    <3> QED BY <1>2, <1>5, <3>1, <3>2, <3>4, HistoryAssumption
  <2> QED BY <2>1, <2>2
<1>9. Len(about') <= MaxVerdicts /\ ~open'
  BY <1>1, <1>2, HistoryAssumption DEF line
<1> QED BY <1>1, <1>2, <1>4, <1>5, <1>7, <1>8, <1>9 DEF HistoryInv

(* A write cut short leaves any lines; an open one, at least itself.       *)
LEMMA CutStep ==
  ASSUME HistoryInv, NEW a \in Addresses, Mark(a), clean' = 0,
         lines' \in Seq(-1 .. MaxVerdicts), open' \in BOOLEAN, open' => lines' # <<>>
  PROVE  HistoryInv'
<1>1. /\ about' \in Seq(Addresses) /\ Len(about') \in 1 .. MaxVerdicts
  BY LinesMarked
<1>2. Len(about') <= MaxVerdicts /\ 0 \in 0 .. Len(about') /\ ~(0 > 0)
  BY <1>1, HistoryAssumption
<1>3. \A i \in 1 .. Len(lines') : ~(Len(lines') - i < 0)
  BY LenProperties
<1> QED BY <1>1, <1>2, <1>3 DEF HistoryInv

LEMMA PiecesAre ==
  ASSUME NEW line \in -1 .. MaxVerdicts
  PROVE  Pieces(line) \subseteq -1 .. MaxVerdicts
BY HistoryAssumption DEF Pieces, Torn, Garbled

LEMMA TornStep ==
  ASSUME HistoryInv, NEW a \in Addresses, MarkTorn(a)
  PROVE  HistoryInv'
<1> DEFINE line == Len(about) + 1
<1>1. Mark(a) /\ clean' = 0
  BY DEF MarkTorn
<1>2. line \in -1 .. MaxVerdicts
  <2>1. Len(about) + 1 \in 1 .. MaxVerdicts
    BY <1>1, LinesMarked
  <2> QED BY <2>1
<1>3. CASE UNCHANGED <<lines, open>>
  BY <1>1, <1>3, CutStep DEF HistoryInv
<1>4. ASSUME NEW piece \in Pieces(line), lines' = Appended(piece), open' = TRUE
      PROVE  HistoryInv'
  <2>1. piece \in -1 .. MaxVerdicts
    BY <1>2, PiecesAre
  <2> QED BY <1>1, <1>4, <2>1, AppendedIs, CutStep
<1>5. CASE lines' = Appended(line) /\ open' = FALSE
  <2> HIDE DEF line
  <2> QED BY <1>1, <1>2, <1>5, AppendedIs, CutStep
<1> QED BY <1>3, <1>4, <1>5 DEF MarkTorn

LEMMA EmptiedStep ==
  ASSUME HistoryInv, NEW a \in Addresses, MarkEmptied(a)
  PROVE  HistoryInv'
<1> DEFINE whole == Appended(Len(about) + 1)
           new == Bounded(whole)
<1>1. /\ Mark(a) /\ HistoryMax > 0 /\ Len(whole) > HistoryMax /\ clean' = 0
      /\ \E n \in 0 .. HistoryMax - 1 :
          \/ lines' = SubSeq(new, 1, n) /\ open' = FALSE
          \/ \E piece \in Pieces(new[n + 1]) :
               lines' = Append(SubSeq(new, 1, n), piece) /\ open' = TRUE
  BY DEF MarkEmptied
<1>2. Len(about) + 1 \in -1 .. MaxVerdicts
  <2>1. Len(about) + 1 \in 1 .. MaxVerdicts
    BY <1>1, LinesMarked
  <2> QED BY <2>1
<1>3. whole \in Seq(-1 .. MaxVerdicts)
  BY <1>2, AppendedIs
<1> HIDE DEF whole
<1>4. new \in Seq(-1 .. MaxVerdicts) /\ Len(new) = HistoryMax
  BY <1>1, <1>3, BoundedIs
<1> HIDE DEF new
<1>5. PICK n \in 0 .. HistoryMax - 1 :
          \/ lines' = SubSeq(new, 1, n) /\ open' = FALSE
          \/ \E piece \in Pieces(new[n + 1]) :
               lines' = Append(SubSeq(new, 1, n), piece) /\ open' = TRUE
  BY <1>1
<1> DEFINE kept == SubSeq(new, 1, n)
<1>6. kept \in Seq(-1 .. MaxVerdicts)
  <2>1. n \in Nat /\ n <= HistoryMax /\ \A i \in 1 .. n : new[i] \in -1 .. MaxVerdicts
    BY <1>4, LenProperties, HistoryAssumption
  <2> QED BY <2>1, SubSeqProperties
<1>7. new[n + 1] \in -1 .. MaxVerdicts
  <2>1. n + 1 \in 1 .. HistoryMax
    BY HistoryAssumption
  <2> QED BY <1>4, <2>1, LenProperties
<1> HIDE DEF kept
<1>8. CASE lines' = kept /\ open' = FALSE
  BY <1>1, <1>6, <1>8, CutStep
<1>9. ASSUME NEW piece \in Pieces(new[n + 1]), lines' = Append(kept, piece), open' = TRUE
      PROVE  HistoryInv'
  <2>1. piece \in -1 .. MaxVerdicts
    BY <1>7, PiecesAre
  <2>2. Append(kept, piece) \in Seq(-1 .. MaxVerdicts) /\ Append(kept, piece) # <<>>
    BY <1>6, <2>1, AppendProperties
  <2> QED BY <1>1, <1>9, <2>2, CutStep
<1> QED BY <1>5, <1>8, <1>9 DEF kept

LEMMA HistoryReadBack == HistoryInv => HistoryHeals
<1> SUFFICES ASSUME HistoryInv, HistoryMax > 0, clean >= HistoryMax, ~Unreadable(lines)
             PROVE  /\ Readable = [i \in 1 .. HistoryMax |-> Len(about) - HistoryMax + i]
                    /\ \A a \in Addresses : PriorVerdict(a) # 0 => about[PriorVerdict(a)] = a
                    /\ PriorVerdict(about[Len(about)]) = Len(about)
  BY DEF HistoryHeals
<1>1. /\ Len(lines) \in Nat /\ Len(about) \in Nat /\ HistoryMax \in Nat /\ clean \in Nat
      /\ DOMAIN lines = 1 .. Len(lines) /\ lines = [i \in 1 .. Len(lines) |-> lines[i]]
  BY LenProperties, HistoryAssumption DEF HistoryInv
<1>2. ~open /\ Len(lines) = HistoryMax /\ HistoryMax <= Len(about)
  <2>1. ~open /\ clean <= Len(about)
    BY <1>1 DEF HistoryInv
  <2>2. Len(lines) <= HistoryMax /\ (clean <= Len(lines) \/ HistoryMax <= Len(lines))
    <3>1. clean > 0
      BY <1>1
    <3> QED BY <3>1 DEF HistoryInv
  <2> QED BY <1>1, <2>1, <2>2
<1>3. \A i \in 1 .. HistoryMax : lines[i] = Len(about) - HistoryMax + i
  <2> SUFFICES ASSUME NEW i \in 1 .. HistoryMax
               PROVE  lines[i] = Len(about) - HistoryMax + i
    OBVIOUS
  <2>1. i \in 1 .. Len(lines) /\ Len(lines) - i < clean
    BY <1>1, <1>2
  <2>2. lines[i] = Len(about) - (Len(lines) - i)
    BY <2>1 DEF HistoryInv
  <2> QED BY <1>1, <1>2, <2>2
<1>4. \A i \in 1 .. Len(lines) : lines[i] # Torn
  BY <1>1, <1>2, <1>3 DEF Torn
<1>5. Readable = lines
  BY <1>4 DEF Readable
<1>6. lines = [i \in 1 .. HistoryMax |-> Len(about) - HistoryMax + i]
  BY <1>1, <1>2, <1>3
<1>7. ToSet(lines) = {lines[i] : i \in 1 .. HistoryMax}
  BY <1>1, <1>2 DEF ToSet
<1> DEFINE Of(a) == {n \in ToSet(lines) : about[n] = a}
<1>8. \A n \in ToSet(lines) : n \in Int /\ n <= Len(about) /\ n > 0
  BY <1>1, <1>2, <1>3, <1>7
<1>9. ASSUME NEW a, Of(a) # {}
      PROVE  PriorVerdict(a) \in Of(a) /\ \A m \in Of(a) : m <= PriorVerdict(a)
  <2>0. Of(a) \subseteq 1 .. Len(about)
    BY <1>1, <1>8
  <2>1. IsFiniteSet(1 .. Len(about))
    <3>1. Len(about) \in Int /\ 1 \in Int
      BY <1>1
    <3> QED BY <3>1, FS_Interval
  <2>2. IsFiniteSet(Of(a)) /\ Of(a) \subseteq Int
    <3> HIDE DEF Of
    <3> QED BY <1>1, <2>0, <2>1, FS_Subset
  <2>3. PriorVerdict(a) = CHOOSE n \in Of(a) : \A m \in Of(a) : m <= n
    BY <1>5, <1>9 DEF PriorVerdict, LatestOn
  <2> HIDE DEF Of
  <2>4. \E n \in Of(a) : \A m \in Of(a) : n >= m
    BY <1>9, <2>2, LeastOfFinite
  <2>5. \E n \in Of(a) : \A m \in Of(a) : m <= n
    BY <2>2, <2>4
  <2> QED BY <2>3, <2>5
<1>10. ASSUME NEW a PROVE PriorVerdict(a) # 0 => about[PriorVerdict(a)] = a
  <2>1. CASE Of(a) = {}
    BY <1>5, <2>1 DEF PriorVerdict, LatestOn
  <2>2. CASE Of(a) # {}
    BY <1>9, <2>2
  <2> QED BY <2>1, <2>2
<1>11. PriorVerdict(about[Len(about)]) = Len(about)
  <2>1. lines[HistoryMax] = Len(about) /\ HistoryMax \in 1 .. HistoryMax
    BY <1>1, <1>3
  <2>2. Len(about) \in Of(about[Len(about)])
    BY <1>7, <2>1
  <2>3. /\ PriorVerdict(about[Len(about)]) \in Of(about[Len(about)])
        /\ Len(about) <= PriorVerdict(about[Len(about)])
    BY <1>9, <2>2
  <2>4. PriorVerdict(about[Len(about)]) <= Len(about) /\ PriorVerdict(about[Len(about)]) \in Int
    BY <1>8, <2>3
  <2> QED BY <1>1, <2>3, <2>4
<1> QED BY <1>5, <1>6, <1>10, <1>11

(* After HistoryMax whole appends the newest HistoryMax verdicts and the   *)
(* newest of every address among them are read back, wherever a write was  *)
(* cut short before, as long as the file decodes: for any addresses, bound *)
(* and number of verdicts.                                                 *)
THEOREM HistoryReadsBack == HistorySpec => [](HistoryHeals /\ HistoryTypeOK)
<1>1. HistoryInv /\ UNCHANGED historyVars => HistoryInv'
  BY DEF HistoryInv, historyVars
<1>2. HistoryInv /\ [HistoryNext]_historyVars => HistoryInv'
  BY <1>1, RecordedStep, TornStep, EmptiedStep DEF HistoryNext
<1>3. HistoryInv => HistoryTypeOK
  BY HistoryAssumption, LenProperties DEF HistoryInv, HistoryTypeOK
<1> QED BY <1>2, <1>3, HistoryReadBack, HistoryStart, PTL DEF HistorySpec

-----------------------------------------------------------------------------
(* RequestGate.  The hits of a client end with its admissions of the       *)
(* window that ends now; the executions since the start of the running     *)
(* window are at most what it has counted, and as many again at most came  *)
(* in the window length before that.                                       *)
EndsWith(s, n, t) == n <= Len(s) /\ \A j \in 1 .. Len(s) : j > Len(s) - n => s[j] >= t
AdmittedSince(m, p, t) == {i \in 1 .. Len(m) : m[i].peer = p /\ m[i].at >= t}
ExecutedSince(e, t) == {i \in 1 .. Len(e) : e[i] >= t}

PeersOK ==
  /\ hits \in [Peers -> Seq(Int)] /\ admitted \in Seq([peer : Peers, at : Int])
  /\ \A i \in 1 .. Len(admitted) : admitted[i].at <= second
  /\ \A p \in Peers : Len(hits[p]) <= PeerLimit
  /\ \A p \in Peers, t \in Int :
       t > second - WindowLength => EndsWith(hits[p], Cardinality(AdmittedSince(admitted, p, t)), t)
  /\ \A p \in Peers, t \in Int : Cardinality(Admissions(p, t)) <= PeerLimit
ToolsOK ==
  /\ executed \in Seq(0 .. second) /\ count \in Nat
  /\ reset \in -1 .. MaxSecond + WindowLength /\ reset - WindowLength <= second
  /\ \A i \in 1 .. Len(executed) : executed[i] <= reset
  /\ LET current == Cardinality(ExecutedSince(executed, reset - WindowLength))
         both == Cardinality(ExecutedSince(executed, reset - 2 * WindowLength + 1))
     IN /\ current <= ToolLimit /\ current <= count
        /\ both <= 2 * ToolLimit /\ both <= ToolLimit + count
  /\ \A t \in Int : Cardinality(Executions(t)) <= 2 * ToolLimit
GateInv ==
  second \in 0 .. MaxSecond /\ asked \in 0 .. MaxRequests /\ PeersOK /\ ToolsOK

(* A part of the positions of a sequence is finite.                        *)
LEMMA PositionsFinite ==
  ASSUME NEW n \in Nat, NEW T, T \subseteq 1 .. n
  PROVE  IsFiniteSet(T) /\ Cardinality(T) \in Nat
<1>1. IsFiniteSet(1 .. n)
  BY FS_Interval
<1>2. IsFiniteSet(T)
  BY <1>1, FS_Subset
<1> QED BY <1>2, FS_CardinalityType

LEMMA AdmittedAt ==
  ASSUME NEW m \in Seq([peer : Peers, at : Int])
  PROVE  \A i \in 1 .. Len(m) : m[i].at \in Int
<1> DEFINE S == [peer : Peers, at : Int]
<1>1. \A i \in 1 .. Len(m) : m[i] \in S
  <2> HIDE DEF S
  <2> SUFFICES m \in Seq(S)
    BY ElementOfSeq
  <2> QED BY DEF S
<1> QED BY <1>1

(* The stale prefix: all of it has left the window.                        *)
LEMMA StalePrefix ==
  ASSUME NEW s \in Seq(Int), NEW x \in Int, second = x
  PROVE  Stale(s) \in 0 .. Len(s) /\ \A i \in 1 .. Stale(s) : Over(s[i])
<1> DEFINE T == {m \in 0 .. Len(s) : m < Len(s) => ~Over(s[m + 1])}
<1>1. T \subseteq Nat /\ Len(s) \in T
  OBVIOUS
<1>2. PICK n \in T : \A y \in T : n <= y
  BY <1>1, LeastOf
<1>3. ASSUME NEW i \in 1 .. n PROVE Over(s[i])
  <2>1. i - 1 \in 0 .. Len(s) /\ i - 1 < n /\ (i - 1) + 1 = i
    BY <1>1, <1>2
  <2>a. n \in Int /\ i - 1 \in Int /\ ~(n <= i - 1)
    BY <1>1, <2>1
  <2>2. i - 1 \notin T
    <3> HIDE DEF T
    <3> QED BY <1>2, <2>a
  <2> QED BY <2>1, <2>2
<1>4. \E m \in 0 .. Len(s) :
        (\A i \in 1 .. m : Over(s[i])) /\ (m < Len(s) => ~Over(s[m + 1]))
  BY <1>2, <1>3
<1> QED BY <1>4 DEF Stale

(* What a sequence ends with is recent, and stays when the stale hits go;  *)
(* a hit of now makes it one longer.                                       *)
LEMMA RecentEnds ==
  ASSUME GateAssumption, NEW s \in Seq(Int), second \in Int
  PROVE  /\ Recent(s) \in Seq(Int) /\ Len(Recent(s)) <= Len(s)
         /\ \A n \in Nat, t \in Int :
              t > second - WindowLength /\ EndsWith(s, n, t) => EndsWith(Recent(s), n, t)
<1> DEFINE k == Stale(s)
<1>1. k \in 0 .. Len(s) /\ \A i \in 1 .. k : Over(s[i])
  BY StalePrefix
<1>2. /\ Recent(s) \in Seq(Int) /\ Len(Recent(s)) = Len(s) - k
      /\ \A i \in 1 .. Len(s) - k : Recent(s)[i] = s[k + i]
  <2> HIDE DEF k
  <2>1. Recent(s) = SubSeq(s, k + 1, Len(s))
    BY DEF Recent, k
  <2> QED BY <1>1, <2>1
<1> HIDE DEF k
<1>3. ASSUME NEW n \in Nat, NEW t \in Int, t > second - WindowLength, EndsWith(s, n, t)
      PROVE  EndsWith(Recent(s), n, t)
  <2>1. n <= Len(s) /\ \A j \in 1 .. Len(s) : j > Len(s) - n => s[j] >= t
    BY <1>3 DEF EndsWith
  <2>2. \A i \in 1 .. k : s[i] \in Int /\ s[i] < t
    BY <1>1, <1>3 DEF Over, GateAssumption
  <2>3. k <= Len(s) - n
    <3> SUFFICES ASSUME k > Len(s) - n PROVE FALSE
      BY <1>1, <2>1
    <3>1. k \in 1 .. Len(s) /\ k \in 1 .. k
      BY <1>1, <2>1
    <3> QED BY <2>1, <2>2, <3>1
  <2>4. ASSUME NEW j \in 1 .. Len(Recent(s)), j > Len(Recent(s)) - n PROVE Recent(s)[j] >= t
    <3>1. k + j \in 1 .. Len(s) /\ k + j > Len(s) - n /\ Recent(s)[j] = s[k + j]
      BY <1>1, <1>2, <2>4
    <3> QED BY <2>1, <3>1
  <2>5. n <= Len(Recent(s))
    BY <1>1, <1>2, <2>3
  <2> QED BY <2>4, <2>5 DEF EndsWith
<1> QED BY <1>1, <1>2, <1>3

LEMMA AppendEnds ==
  ASSUME NEW s \in Seq(Int), NEW x \in Int, NEW n \in Nat, NEW t \in Int, EndsWith(s, n, t), x >= t
  PROVE  EndsWith(Append(s, x), n + 1, t)
<1> DEFINE r == Append(s, x)
<1>1. /\ Len(r) = Len(s) + 1 /\ r[Len(s) + 1] = x /\ \A j \in 1 .. Len(s) : r[j] = s[j]
  OBVIOUS
<1> HIDE DEF r
<1>2. n <= Len(s) /\ \A j \in 1 .. Len(s) : j > Len(s) - n => s[j] >= t
  BY DEF EndsWith
<1>3. ASSUME NEW j \in 1 .. Len(r), j > Len(r) - (n + 1) PROVE r[j] >= t
  <2>1. (j \in 1 .. Len(s) /\ j > Len(s) - n) \/ j = Len(s) + 1
    BY <1>1, <1>3
  <2> QED BY <1>1, <1>2, <2>1
<1> QED BY <1>1, <1>2, <1>3 DEF EndsWith, r

(* One admission, or one execution, more.                                  *)
LEMMA AdmittedSinceAppend ==
  ASSUME NEW m \in Seq([peer : Peers, at : Int]), NEW q \in Peers, NEW x \in Int,
         NEW p \in Peers, NEW t \in Int
  PROVE  LET A == AdmittedSince(m, p, t)
             B == AdmittedSince(Append(m, [peer |-> q, at |-> x]), p, t)
         IN /\ IsFiniteSet(A) /\ Cardinality(A) \in Nat
            /\ p = q /\ x >= t => Cardinality(B) = Cardinality(A) + 1
            /\ ~(p = q /\ x >= t) => B = A
<1> DEFINE new == [peer |-> q, at |-> x]
           r == Append(m, new)
           A == AdmittedSince(m, p, t)
           B == AdmittedSince(r, p, t)
           l == Len(m) + 1
<1>1. /\ Len(m) \in Nat /\ Len(r) = l /\ \A j \in 1 .. Len(m) : r[j] = m[j]
      /\ r[l].peer = q /\ r[l].at = x
  OBVIOUS
<1> HIDE DEF r, new
<1>2. /\ A \subseteq 1 .. Len(m)
      /\ p = q /\ x >= t => B = A \cup {l}
      /\ ~(p = q /\ x >= t) => B = A
  BY <1>1 DEF AdmittedSince
<1>3. IsFiniteSet(A) /\ Cardinality(A) \in Nat
  BY <1>1, <1>2, PositionsFinite
<1>4. l \notin A
  BY <1>1, <1>2
<1> HIDE DEF A, B, l
<1>5. Cardinality(A \cup {l}) = Cardinality(A) + 1
  BY <1>3, <1>4, FS_AddElement
<1> QED BY <1>2, <1>3, <1>5 DEF A, B, r, new

LEMMA ExecutedSinceAppend ==
  ASSUME NEW e \in Seq(Int), NEW x \in Int, NEW t \in Int
  PROVE  LET A == ExecutedSince(e, t)
             B == ExecutedSince(Append(e, x), t)
         IN /\ IsFiniteSet(A) /\ Cardinality(A) \in Nat
            /\ x >= t => Cardinality(B) = Cardinality(A) + 1
<1> DEFINE r == Append(e, x)
           A == ExecutedSince(e, t)
           B == ExecutedSince(r, t)
           l == Len(e) + 1
<1>1. /\ Len(e) \in Nat /\ Len(r) = l /\ \A j \in 1 .. Len(e) : r[j] = e[j]
      /\ r[l] = x
  OBVIOUS
<1> HIDE DEF r
<1>2. A \subseteq 1 .. Len(e) /\ (x >= t => B = A \cup {l})
  BY <1>1 DEF ExecutedSince
<1>3. IsFiniteSet(A) /\ Cardinality(A) \in Nat
  BY <1>1, <1>2, PositionsFinite
<1>4. l \notin A
  BY <1>1, <1>2
<1> HIDE DEF A, B, l
<1>5. Cardinality(A \cup {l}) = Cardinality(A) + 1
  BY <1>3, <1>4, FS_AddElement
<1> QED BY <1>2, <1>3, <1>5 DEF A, B, r

(* Admission: the window of now has one more, and fewer than the limit     *)
(* before it.                                                              *)
LEMMA AdmitKeeps ==
  ASSUME GateAssumption, GateInv, NEW q \in Peers, Admit(q), second' = second
  PROVE  PeersOK'
<1> DEFINE new == [peer |-> q, at |-> second]
           longer == Append(Recent(hits[q]), second)
           mid == [hits EXCEPT ![q] = longer]
           HitsBefore(p, t) == AdmittedSince(admitted, p, t)
           HitsAfter(p, t) == AdmittedSince(Append(admitted, new), p, t)
<1>1. /\ Len(Recent(hits[q])) < PeerLimit /\ hits' = Swept(mid, q)
      /\ admitted' = Append(admitted, new)
  BY DEF Admit
<1>2. /\ second \in Int /\ PeerLimit \in Nat /\ WindowLength \in Nat \ {0}
      /\ hits \in [Peers -> Seq(Int)] /\ admitted \in Seq([peer : Peers, at : Int])
      /\ \A i \in 1 .. Len(admitted) : admitted[i].at <= second
      /\ \A p \in Peers : Len(hits[p]) <= PeerLimit
  BY DEF GateInv, PeersOK, GateAssumption
<1>3. \A p \in Peers, t \in Int :
        /\ t > second - WindowLength => EndsWith(hits[p], Cardinality(HitsBefore(p, t)), t)
        /\ Cardinality(Admissions(p, t)) <= PeerLimit
  BY DEF GateInv, PeersOK
<1>4. /\ longer \in Seq(Int) /\ Len(longer) <= PeerLimit /\ longer # NoHits
      /\ Recent(hits[q]) \in Seq(Int)
  <2>1. hits[q] \in Seq(Int)
    BY <1>2
  <2>2. Recent(hits[q]) \in Seq(Int)
    BY <1>2, <2>1, RecentEnds
  <2>3. longer \in Seq(Int) /\ Len(longer) = Len(Recent(hits[q])) + 1
    BY <1>2, <2>2
  <2>5. Len(Recent(hits[q])) \in Nat
    BY <2>2
  <2>4. longer # <<>>
    <3>1. Len(longer) # 0 /\ Len(<<>>) = 0
      BY <2>3, <2>5
    <3> HIDE DEF longer
    <3> QED BY <3>1
  <2> HIDE DEF longer
  <2> QED BY <1>1, <1>2, <2>2, <2>3, <2>4, <2>5 DEF NoHits
<1>5. mid \in [Peers -> Seq(Int)] /\ \A p \in Peers : Len(mid[p]) <= PeerLimit
  BY <1>2, <1>4
<1>6. ASSUME NEW p \in Peers, NEW t \in Int
      PROVE  /\ IsFiniteSet(HitsAfter(p, t)) /\ Cardinality(HitsAfter(p, t)) \in Nat
             /\ t > second - WindowLength => EndsWith(mid[p], Cardinality(HitsAfter(p, t)), t)
  <2> DEFINE n == Cardinality(HitsBefore(p, t))
  <2>1. /\ IsFiniteSet(HitsBefore(p, t)) /\ n \in Nat
        /\ p = q /\ second >= t => Cardinality(HitsAfter(p, t)) = n + 1
        /\ ~(p = q /\ second >= t) => HitsAfter(p, t) = HitsBefore(p, t)
    BY <1>2, AdmittedSinceAppend
  <2>2. IsFiniteSet(HitsAfter(p, t)) /\ Cardinality(HitsAfter(p, t)) \in Nat
    <3>1. HitsAfter(p, t) \subseteq 1 .. Len(admitted) + 1
      BY <1>2 DEF AdmittedSince
    <3> HIDE DEF HitsAfter
    <3> QED BY <1>2, <3>1, PositionsFinite
  <2>3. ASSUME t > second - WindowLength PROVE EndsWith(mid[p], Cardinality(HitsAfter(p, t)), t)
    <3>1. EndsWith(hits[p], n, t)
      BY <1>3, <2>3
    <3>2. CASE p # q
      <4>1. mid[p] = hits[p] /\ HitsAfter(p, t) = HitsBefore(p, t)
        BY <1>2, <2>1, <3>2
      <4> QED BY <3>1, <4>1
    <3>3. CASE p = q /\ second >= t
      <4>1. mid[p] = longer /\ hits[p] \in Seq(Int)
        BY <1>2, <3>3
      <4>2. EndsWith(Recent(hits[q]), n, t)
        BY <1>2, <2>1, <2>3, <3>1, <3>3, <4>1, RecentEnds
      <4>3. EndsWith(longer, n + 1, t)
        BY <1>2, <1>4, <2>1, <3>3, <4>2, AppendEnds
      <4> QED BY <2>1, <3>3, <4>1, <4>3
    <3>4. CASE p = q /\ ~(second >= t)
      <4>1. HitsBefore(p, t) = {}
        <5>1. \A i \in 1 .. Len(admitted) : admitted[i].at \in Int /\ admitted[i].at <= second
          BY <1>2, AdmittedAt
        <5>2. \A i \in 1 .. Len(admitted) : ~(admitted[i].at >= t)
          BY <1>2, <3>4, <5>1
        <5> QED BY <5>2 DEF AdmittedSince
      <4>2. Cardinality(HitsAfter(p, t)) = 0
        BY <2>1, <3>4, <4>1, FS_EmptySet
      <4>3. mid[p] \in Seq(Int)
        BY <1>5
      <4>4. EndsWith(mid[p], 0, t)
        <5> HIDE DEF mid
        <5> QED BY <4>3 DEF EndsWith
      <4> QED BY <4>2, <4>4
    <3> QED BY <1>2, <3>2, <3>3, <3>4
  <2> QED BY <2>2, <2>3
<1> HIDE DEF mid, longer
<1>7. ASSUME NEW p \in Peers
      PROVE  /\ hits'[p] \in Seq(Int) /\ Len(hits'[p]) <= PeerLimit
             /\ \A t \in Int : t > second - WindowLength
                  => EndsWith(hits'[p], Cardinality(HitsAfter(p, t)), t)
  <2>1. mid[p] \in Seq(Int) /\ Len(mid[p]) <= PeerLimit
    BY <1>5
  <2>2. hits'[p] = mid[p] \/ (hits'[p] = NoHits /\ (mid[p] = NoHits \/ Over(mid[p][Len(mid[p])])))
    BY <1>1 DEF Swept
  <2>3. CASE hits'[p] = mid[p]
    BY <1>6, <2>1, <2>3
  <2>4. CASE hits'[p] = NoHits /\ (mid[p] = NoHits \/ Over(mid[p][Len(mid[p])]))
    <3>1. ASSUME NEW t \in Int, t > second - WindowLength
          PROVE  EndsWith(<<>>, Cardinality(HitsAfter(p, t)), t)
      <4> DEFINE n == Cardinality(HitsAfter(p, t))
      <4>1. n \in Nat /\ EndsWith(mid[p], n, t)
        BY <1>6, <3>1
      <4> HIDE DEF n
      <4>2. n <= Len(mid[p]) /\ \A j \in 1 .. Len(mid[p]) : j > Len(mid[p]) - n => mid[p][j] >= t
        BY <4>1 DEF EndsWith
      <4>3. n = 0
        <5> SUFFICES ASSUME n > 0 PROVE FALSE
          BY <4>1
        <5>1. Len(mid[p]) \in 1 .. Len(mid[p]) /\ Len(mid[p]) > Len(mid[p]) - n
          BY <2>1, <4>1, <4>2
        <5>2. mid[p][Len(mid[p])] >= t /\ mid[p][Len(mid[p])] \in Int /\ mid[p] # <<>>
          BY <2>1, <4>2, <5>1
        <5> QED BY <1>2, <2>4, <3>1, <5>2 DEF Over, NoHits
      <4> QED BY <4>3 DEF EndsWith, n
    <3> QED BY <1>2, <2>4, <3>1 DEF NoHits
  <2> QED BY <2>2, <2>3, <2>4
<1>8. hits' \in [Peers -> Seq(Int)]
  <2>1. DOMAIN mid = Peers /\ mid \in [Peers -> Seq(Int)]
    BY <1>5
  <2>2. hits' = [p \in Peers |-> hits'[p]]
    BY <1>1, <2>1 DEF Swept
  <2> QED BY <1>7, <2>2
<1>9. /\ admitted' \in Seq([peer : Peers, at : Int])
      /\ \A i \in 1 .. Len(admitted') : admitted'[i].at <= second
  BY <1>1, <1>2
<1>10. ASSUME NEW p \in Peers, NEW t \in Int PROVE Cardinality(Admissions(p, t)') <= PeerLimit
  <2>1. CASE p = q /\ FallsIn(second, t)
    <3>1. t > second - WindowLength /\ t <= second
      BY <1>2, <2>1 DEF FallsIn
    <3>2. Admissions(p, t)' \subseteq HitsAfter(p, t)
      <4>1. admitted' \in Seq([peer : Peers, at : Int])
        BY <1>9
      <4> QED BY <1>1, <1>2, <4>1 DEF Admissions, AdmittedSince, FallsIn
    <3>3. Cardinality(HitsAfter(p, t)) <= PeerLimit
      <4>1. Cardinality(HitsAfter(p, t)) \in Nat /\ EndsWith(mid[p], Cardinality(HitsAfter(p, t)), t)
        BY <1>6, <3>1
      <4>2. Len(mid[p]) <= PeerLimit /\ mid[p] \in Seq(Int)
        BY <1>5
      <4> QED BY <1>2, <4>1, <4>2 DEF EndsWith
    <3>4. IsFiniteSet(HitsAfter(p, t)) /\ Cardinality(HitsAfter(p, t)) \in Nat
      BY <1>6
    <3> HIDE DEF HitsAfter
    <3>5. /\ Cardinality(Admissions(p, t)') <= Cardinality(HitsAfter(p, t))
          /\ Cardinality(Admissions(p, t)') \in Nat
      BY <3>2, <3>4, FS_Subset, FS_CardinalityType
    <3> QED BY <1>2, <3>3, <3>4, <3>5
  <2>2. CASE ~(p = q /\ FallsIn(second, t))
    <3>1. /\ Len(admitted) \in Nat /\ Len(admitted') = Len(admitted) + 1
          /\ \A i \in 1 .. Len(admitted) : admitted'[i] = admitted[i]
          /\ admitted'[Len(admitted) + 1].peer = q /\ admitted'[Len(admitted) + 1].at = second
      BY <1>1, <1>2
    <3>2. Admissions(p, t)' = Admissions(p, t)
      BY <2>2, <3>1 DEF Admissions, FallsIn
    <3> QED BY <1>3, <3>2
  <2> QED BY <2>1, <2>2
<1>11. ASSUME NEW p \in Peers, NEW t \in Int, t > second - WindowLength
       PROVE  EndsWith(hits'[p], Cardinality(AdmittedSince(admitted', p, t)), t)
  BY <1>1, <1>7, <1>11
<1> QED BY <1>7, <1>8, <1>9, <1>10, <1>11 DEF PeersOK

(* A refusal drops only stale hits.                                        *)
LEMMA RefuseKeeps ==
  ASSUME GateAssumption, GateInv, NEW q \in Peers, Refuse(q), second' = second
  PROVE  PeersOK'
<1>1. hits' = [hits EXCEPT ![q] = Recent(@)] /\ admitted' = admitted
  BY DEF Refuse
<1>2. /\ second \in Int /\ hits \in [Peers -> Seq(Int)]
      /\ admitted \in Seq([peer : Peers, at : Int])
      /\ \A i \in 1 .. Len(admitted) : admitted[i].at <= second
      /\ \A p \in Peers : Len(hits[p]) <= PeerLimit
      /\ \A p \in Peers, t \in Int :
           /\ t > second - WindowLength => EndsWith(hits[p], Cardinality(AdmittedSince(admitted, p, t)), t)
           /\ Cardinality(Admissions(p, t)) <= PeerLimit
  <2>1. PeersOK /\ second \in Int
    BY DEF GateInv
  <2> QED BY <2>1 DEF PeersOK
<1>3. ASSUME NEW p \in Peers
      PROVE  /\ hits'[p] \in Seq(Int) /\ Len(hits'[p]) <= PeerLimit
             /\ \A t \in Int : t > second - WindowLength
                  => EndsWith(hits'[p], Cardinality(AdmittedSince(admitted, p, t)), t)
  <2>1. CASE p # q
    BY <1>1, <1>2, <2>1
  <2>2. CASE p = q
    <3>1. hits'[p] = Recent(hits[p]) /\ hits[p] \in Seq(Int)
      BY <1>1, <1>2, <2>2
    <3>2. Recent(hits[p]) \in Seq(Int) /\ Len(Recent(hits[p])) <= Len(hits[p])
      BY <1>2, <3>1, RecentEnds
    <3>3. ASSUME NEW t \in Int, t > second - WindowLength
          PROVE  EndsWith(Recent(hits[p]), Cardinality(AdmittedSince(admitted, p, t)), t)
      <4>1. AdmittedSince(admitted, p, t) \subseteq 1 .. Len(admitted) /\ Len(admitted) \in Nat
        BY <1>2 DEF AdmittedSince
      <4>2. Cardinality(AdmittedSince(admitted, p, t)) \in Nat
        BY <4>1, PositionsFinite
      <4> QED BY <1>2, <3>1, <3>3, <4>2, RecentEnds
    <3>4. Len(hits[p]) <= PeerLimit /\ Len(hits[p]) \in Nat /\ Len(Recent(hits[p])) \in Nat
      BY <1>2, <3>1, <3>2
    <3>5. Len(Recent(hits[p])) <= PeerLimit
      BY <3>2, <3>4 DEF GateAssumption
    <3> QED BY <3>1, <3>2, <3>3, <3>5
  <2> QED BY <2>1, <2>2
<1>4. hits' \in [Peers -> Seq(Int)]
  <2>1. hits' = [p \in Peers |-> hits'[p]]
    BY <1>1, <1>2
  <2> QED BY <1>3, <2>1
<1>5. \A p \in Peers, t \in Int : Admissions(p, t)' = Admissions(p, t)
  BY <1>1 DEF Admissions
<1> QED BY <1>1, <1>2, <1>3, <1>4, <1>5 DEF PeersOK

(* A step that leaves the hits and the admissions, now or a second later.  *)
LEMMA PeersRest ==
  ASSUME GateAssumption, GateInv, hits' = hits, admitted' = admitted, second' \in Int,
         second' >= second
  PROVE  PeersOK'
<1>1. second \in Int /\ PeersOK /\ WindowLength \in Int
  BY DEF GateInv, GateAssumption
<1>2. \A p \in Peers, t \in Int : Admissions(p, t)' = Admissions(p, t)
  BY DEF Admissions
<1>3. ASSUME NEW t \in Int, t > second' - WindowLength PROVE t > second - WindowLength
  <2> DEFINE later == second'
  <2>1. later \in Int /\ later >= second /\ t > later - WindowLength
    BY <1>3
  <2> HIDE DEF later
  <2> QED BY <1>1, <2>1
<1>4. \A i \in 1 .. Len(admitted) : admitted[i].at <= second'
  <2>1. \A i \in 1 .. Len(admitted) : admitted[i].at \in Int /\ admitted[i].at <= second
    BY <1>1, AdmittedAt DEF PeersOK
  <2> QED BY <1>1, <2>1
<1> QED BY <1>1, <1>2, <1>3, <1>4 DEF PeersOK

LEMMA ToolsRest ==
  ASSUME GateAssumption, GateInv, count' = count, reset' = reset, executed' = executed,
         second' \in Int, second' >= second
  PROVE  ToolsOK'
<1> DEFINE later == second'
<1>1. /\ second \in Int /\ ToolsOK /\ WindowLength \in Nat /\ MaxSecond \in Nat
      /\ later \in Int /\ later >= second
  BY DEF GateInv, GateAssumption
<1>2. \A t \in Int : Executions(t)' = Executions(t)
  BY DEF Executions
<1> HIDE DEF later
<1>3. executed \in Seq(0 .. later)
  <2>1. executed \in Seq(0 .. second) /\ (0 .. second) \subseteq (0 .. later)
    BY <1>1 DEF ToolsOK
  <2>2. executed \in [1 .. Len(executed) -> 0 .. second] /\ Len(executed) \in Nat
    BY <2>1, LenProperties
  <2>3. executed \in [1 .. Len(executed) -> 0 .. later]
    BY <2>1, <2>2
  <2> QED BY <2>2, <2>3, SeqDef
<1>4. reset - WindowLength <= later
  <2>1. reset \in Int /\ reset - WindowLength <= second
    BY <1>1 DEF ToolsOK
  <2> QED BY <1>1, <2>1
<1> QED BY <1>1, <1>2, <1>3, <1>4 DEF ToolsOK, later

(* An execution: the window of now lies in the running one and the length  *)
(* before it.                                                              *)
LEMMA CheckKeeps ==
  ASSUME GateAssumption, GateInv, NEW destructive \in BOOLEAN, CheckRateLimit(destructive),
         second' = second
  PROVE  ToolsOK'
<1> DEFINE Since(t) == ExecutedSince(executed, t)
           Until(t) == Cardinality(ExecutedSince(executed', t))
           begun == reset - WindowLength
           n == IF WindowOver THEN 1 ELSE count + 1
<1>1. /\ second \in 0 .. MaxSecond /\ count \in Nat /\ reset \in -1 .. MaxSecond + WindowLength
      /\ executed \in Seq(0 .. second) /\ begun <= second
      /\ MaxSecond \in Nat /\ WindowLength \in Nat \ {0} /\ ToolLimit \in Nat \ {0}
      /\ \A i \in 1 .. Len(executed) : executed[i] <= reset
      /\ \A t \in Int : Cardinality(Executions(t)) <= 2 * ToolLimit
  BY DEF GateInv, ToolsOK, GateAssumption
<1>2. /\ Cardinality(Since(begun)) <= ToolLimit /\ Cardinality(Since(begun)) <= count
      /\ Cardinality(Since(begun - WindowLength + 1)) <= 2 * ToolLimit
      /\ Cardinality(Since(begun - WindowLength + 1)) <= ToolLimit + count
  <2>1. reset - 2 * WindowLength + 1 = begun - WindowLength + 1
    BY <1>1
  <2> QED BY <2>1 DEF GateInv, ToolsOK
<1>3. \A t \in Int : IsFiniteSet(Since(t)) /\ Cardinality(Since(t)) \in Nat
  <2> SUFFICES ASSUME NEW t \in Int PROVE IsFiniteSet(Since(t)) /\ Cardinality(Since(t)) \in Nat
    OBVIOUS
  <2>1. Since(t) \subseteq 1 .. Len(executed) /\ Len(executed) \in Nat
    BY <1>1 DEF ExecutedSince
  <2> HIDE DEF Since
  <2> QED BY <2>1, PositionsFinite
<1>4. CASE ~destructive
  <2>1. count' = count /\ reset' = reset /\ executed' = executed
    BY <1>4 DEF CheckRateLimit
  <2>2. \A t \in Int : Executions(t)' = Executions(t)
    BY <2>1 DEF Executions
  <2> QED BY <2>1, <2>2 DEF GateInv, ToolsOK
<1>5. CASE destructive
  <2>1. /\ count' = n /\ reset' = IF WindowOver THEN second + WindowLength ELSE reset
        /\ executed' = IF n <= ToolLimit THEN Append(executed, second) ELSE executed
    BY <1>5 DEF CheckRateLimit
  <2> DEFINE start == reset' - WindowLength
  <2>2. /\ n \in Nat /\ start \in Int /\ start <= second /\ second <= reset'
        /\ reset' \in -1 .. MaxSecond + WindowLength /\ reset' >= reset
    <3>1. CASE WindowOver
      BY <1>1, <2>1, <3>1 DEF WindowOver
    <3>2. CASE ~WindowOver
      BY <1>1, <2>1, <3>2 DEF WindowOver
    <3> QED BY <3>1, <3>2
  <2>a. /\ start \in Int /\ start - WindowLength + 1 \in Int
        /\ second >= start /\ second >= start - WindowLength + 1
    <3>1. start \in Int /\ start <= second /\ second \in Int /\ WindowLength \in Nat
      <4>1. start \in Int /\ start <= second
        BY <2>2
      <4> HIDE DEF start
      <4> QED BY <1>1, <4>1
    <3> HIDE DEF start
    <3> QED BY <3>1
  (* Before this call fewer than the running window has counted with it.   *)
  <2>3. /\ Cardinality(Since(start)) <= ToolLimit /\ Cardinality(Since(start)) <= n - 1
        /\ Cardinality(Since(start - WindowLength + 1)) <= 2 * ToolLimit
        /\ Cardinality(Since(start - WindowLength + 1)) <= ToolLimit + n - 1
    <3>1. CASE WindowOver
      <4>1. n = 1 /\ start = second /\ second > reset
        BY <1>1, <2>1, <3>1 DEF WindowOver
      <4>2. Since(start) = {}
        <5>1. \A i \in 1 .. Len(executed) : executed[i] \in Int /\ executed[i] < second
          BY <1>1, <4>1
        <5> QED BY <1>1, <4>1, <5>1 DEF ExecutedSince
      <4>3. Since(start - WindowLength + 1) \subseteq Since(begun)
        <5>1. start - WindowLength + 1 \in Int /\ start - WindowLength + 1 >= begun
          BY <1>1, <4>1
        <5>2. \A i \in 1 .. Len(executed) : executed[i] \in Int
          BY <1>1
        <5> QED BY <1>1, <5>1, <5>2 DEF ExecutedSince
      <4>4. IsFiniteSet(Since(begun)) /\ Cardinality(Since(begun)) \in Nat /\ begun \in Int
        BY <1>1, <1>3
      <4>5. /\ Cardinality(Since(start - WindowLength + 1)) <= Cardinality(Since(begun))
            /\ Cardinality(Since(start - WindowLength + 1)) \in Nat
        <5> HIDE DEF Since, start, begun
        <5> QED BY <4>3, <4>4, FS_Subset, FS_CardinalityType
      <4>6. Cardinality(Since(start)) = 0
        BY <4>2, FS_EmptySet
      <4> HIDE DEF Since, start, n
      <4> QED BY <1>1, <1>2, <4>1, <4>4, <4>5, <4>6
    <3>2. CASE ~WindowOver
      <4>1. n = count + 1 /\ start = begun
        BY <2>1, <3>2
      <4> HIDE DEF Since, start, n, begun
      <4> QED BY <1>1, <1>2, <4>1
    <3> QED BY <3>1, <3>2
  <2> DEFINE NewCounts ==
        /\ executed' \in Seq(0 .. second)
        /\ \A i \in 1 .. Len(executed') : executed'[i] <= reset'
        /\ Until(start) <= ToolLimit /\ Until(start) <= n
        /\ Until(start - WindowLength + 1) <= 2 * ToolLimit
        /\ Until(start - WindowLength + 1) <= ToolLimit + n
        /\ \A t \in Int : Cardinality(Executions(t)') <= 2 * ToolLimit
  <2>4. ASSUME n > ToolLimit PROVE NewCounts
    <3>1. executed' = executed
      BY <1>1, <2>1, <2>2, <2>4
    <3>2. \A t \in Int : Executions(t)' = Executions(t)
      BY <3>1 DEF Executions
    <3>3. \A i \in 1 .. Len(executed') : executed'[i] <= reset'
      <4>1. \A i \in 1 .. Len(executed) : executed[i] \in Int /\ executed[i] <= reset
        BY <1>1
      <4> QED BY <1>1, <2>2, <3>1, <4>1
    <3>4. /\ Until(start) <= ToolLimit /\ Until(start) <= n
          /\ Until(start - WindowLength + 1) <= 2 * ToolLimit
          /\ Until(start - WindowLength + 1) <= ToolLimit + n
      <4>1. /\ Until(start) = Cardinality(Since(start))
            /\ Until(start - WindowLength + 1) = Cardinality(Since(start - WindowLength + 1))
        BY <3>1
      <4>2. Cardinality(Since(start)) \in Nat /\ Cardinality(Since(start - WindowLength + 1)) \in Nat
        BY <1>3, <2>a
      <4> HIDE DEF Since, Until, start, n
      <4> QED BY <1>1, <2>2, <2>3, <4>1, <4>2
    <3>5. executed' \in Seq(0 .. second) /\ \A t \in Int : Cardinality(Executions(t)') <= 2 * ToolLimit
      BY <1>1, <3>1, <3>2
    <3> QED BY <3>3, <3>4, <3>5
  <2>5. ASSUME n <= ToolLimit PROVE NewCounts
    <3>1. executed' = Append(executed, second)
      BY <2>1, <2>5
    <3>2. /\ executed' \in Seq(0 .. second) /\ Len(executed) \in Nat
          /\ Len(executed') = Len(executed) + 1 /\ executed'[Len(executed) + 1] = second
          /\ \A i \in 1 .. Len(executed) : executed'[i] = executed[i]
      BY <1>1, <3>1
    <3>3. \A i \in 1 .. Len(executed') : executed'[i] <= reset'
      <4>1. \A i \in 1 .. Len(executed) : executed[i] \in Int /\ executed[i] <= reset
        BY <1>1
      <4> QED BY <1>1, <2>2, <3>2, <4>1
    <3>b. executed \in Seq(Int)
      BY <1>1
    <3>c. /\ Until(start) = Cardinality(Since(start)) + 1
          /\ Until(start - WindowLength + 1) = Cardinality(Since(start - WindowLength + 1)) + 1
      BY <1>1, <3>1, <2>a, <3>b, ExecutedSinceAppend
    <3>4. /\ Until(start) <= ToolLimit /\ Until(start) <= n
          /\ Until(start - WindowLength + 1) <= 2 * ToolLimit
          /\ Until(start - WindowLength + 1) <= ToolLimit + n
      <4>1. Cardinality(Since(start)) \in Nat /\ Cardinality(Since(start - WindowLength + 1)) \in Nat
        BY <1>3, <2>a
      <4> HIDE DEF Since, Until, start, n
      <4> QED BY <1>1, <2>2, <2>3, <2>5, <3>c, <4>1
    <3>5. ASSUME NEW t \in Int PROVE Cardinality(Executions(t)') <= 2 * ToolLimit
      <4>1. CASE FallsIn(second, t)
        <5> DEFINE E == ExecutedSince(executed', start - WindowLength + 1)
        <5>1. t >= start - WindowLength + 1 /\ t \in Int
          <6>1. second < t + WindowLength /\ second \in Int /\ WindowLength \in Nat
            BY <1>1, <4>1 DEF FallsIn
          <6>2. start \in Int /\ start <= second
            BY <2>2
          <6> HIDE DEF start
          <6> QED BY <6>1, <6>2
        <5>2. Executions(t)' \subseteq E
          <6>1. \A i \in 1 .. Len(executed') : executed'[i] \in Int
            <7> DEFINE e == executed'
            <7>1. e \in Seq(0 .. second)
              BY <3>2
            <7> HIDE DEF e
            <7>2. \A i \in 1 .. Len(e) : e[i] \in Int
              BY <1>1, <7>1
            <7> QED BY <7>2 DEF e
          <6> HIDE DEF start
          <6> QED BY <2>a, <5>1, <6>1 DEF Executions, ExecutedSince, FallsIn
        <5>3. E \subseteq 1 .. Len(executed) + 1 /\ Len(executed) + 1 \in Nat
          BY <3>2 DEF ExecutedSince
        <5>4. Cardinality(E) <= 2 * ToolLimit
          BY <3>4
        <5> HIDE DEF E
        <5>5. IsFiniteSet(E) /\ Cardinality(E) \in Nat
          BY <5>3, PositionsFinite
        <5>6. Cardinality(Executions(t)') <= Cardinality(E) /\ Cardinality(Executions(t)') \in Nat
          BY <5>2, <5>5, FS_Subset, FS_CardinalityType
        <5> QED BY <1>1, <5>4, <5>5, <5>6
      <4>2. CASE ~FallsIn(second, t)
        <5>1. Executions(t)' = Executions(t)
          BY <3>2, <4>2 DEF Executions, FallsIn
        <5> QED BY <1>1, <5>1
      <4> QED BY <4>1, <4>2
    <3> QED BY <3>2, <3>3, <3>4, <3>5
  <2>6. NewCounts
    BY <1>1, <2>2, <2>4, <2>5
  <2>7. reset' - 2 * WindowLength + 1 = start - WindowLength + 1
    <3> DEFINE later == reset'
    <3>1. later \in Int /\ WindowLength \in Int
      BY <1>1, <2>2
    <3> HIDE DEF later
    <3>2. later - 2 * WindowLength + 1 = (later - WindowLength) - WindowLength + 1
      BY <3>1
    <3> QED BY <3>2 DEF later
  <2>8. /\ Cardinality(ExecutedSince(executed', reset' - WindowLength)) = Until(start)
        /\ Cardinality(ExecutedSince(executed', reset' - 2 * WindowLength + 1))
             = Until(start - WindowLength + 1)
    BY <2>7
  <2> HIDE DEF Until, n
  <2> QED BY <1>1, <2>1, <2>2, <2>6, <2>8 DEF ToolsOK
<1> QED BY <1>4, <1>5

(* Neither limit is passed within any window of a behaviour.               *)
LEMMA GateInvHolds == GateSpec => []GateInv
<1>1. GateInit => GateInv
  <2> SUFFICES ASSUME GateInit PROVE GateInv
    OBVIOUS
  <2>1. /\ second = 0 /\ hits = [p \in Peers |-> <<>>] /\ count = 0 /\ reset = -1
        /\ admitted = <<>> /\ executed = <<>> /\ asked = 0 /\ PeerLimit \in Nat /\ ToolLimit \in Nat
        /\ WindowLength \in Nat \ {0} /\ MaxSecond \in Nat /\ MaxRequests \in Nat
    BY GateAssumption DEF GateInit, NoHits
  <2>2. /\ \A p, t : AdmittedSince(admitted, p, t) = {} /\ Admissions(p, t) = {}
        /\ \A t : ExecutedSince(executed, t) = {} /\ Executions(t) = {}
    BY <2>1 DEF AdmittedSince, Admissions, ExecutedSince, Executions
  <2>a. /\ \A p, t : Cardinality(AdmittedSince(admitted, p, t)) = 0 /\ Cardinality(Admissions(p, t)) = 0
        /\ \A t : Cardinality(ExecutedSince(executed, t)) = 0 /\ Cardinality(Executions(t)) = 0
    BY <2>2, FS_EmptySet
  <2>3. PeersOK
    <3>1. \A p \in Peers : hits[p] = <<>> /\ Len(hits[p]) = 0
      BY <2>1
    <3>2. \A p \in Peers, t \in Int : EndsWith(hits[p], 0, t)
      BY <3>1 DEF EndsWith
    <3>3. hits \in [Peers -> Seq(Int)] /\ admitted \in Seq([peer : Peers, at : Int]) /\ Len(admitted) = 0
      BY <2>1
    <3>4. /\ \A i \in 1 .. Len(admitted) : admitted[i].at <= second
          /\ \A p \in Peers : Len(hits[p]) <= PeerLimit
      BY <2>1, <3>1, <3>3
    <3>5. \A p \in Peers, t \in Int : Cardinality(Admissions(p, t)) <= PeerLimit
      BY <2>1, <2>a
    <3> QED BY <2>a, <3>2, <3>3, <3>4, <3>5 DEF PeersOK
  <2>4. ToolsOK
    <3>1. executed \in Seq(0 .. second) /\ Len(executed) = 0
      BY <2>1
    <3>2. /\ reset \in -1 .. MaxSecond + WindowLength /\ reset - WindowLength <= second /\ count \in Nat
          /\ 0 <= ToolLimit /\ 0 <= count /\ 0 <= 2 * ToolLimit /\ 0 <= ToolLimit + count
      BY <2>1
    <3>3. \A i \in 1 .. Len(executed) : executed[i] <= reset
      BY <3>1
    <3> QED BY <2>a, <3>1, <3>2, <3>3 DEF ToolsOK
  <2> QED BY <2>1, <2>3, <2>4 DEF GateInv
<1>2. GateInv /\ [GateNext]_gateVars => GateInv'
  <2> SUFFICES ASSUME GateInv, [GateNext]_gateVars PROVE GateInv'
    OBVIOUS
  <2>1. second \in 0 .. MaxSecond /\ asked \in 0 .. MaxRequests /\ MaxSecond \in Nat /\ MaxRequests \in Nat
    BY GateAssumption DEF GateInv
  <2>2. CASE GateTick
    <3>1. /\ second' \in 0 .. MaxSecond /\ second' >= second /\ asked' = 0
          /\ hits' = hits /\ count' = count /\ reset' = reset
          /\ admitted' = admitted /\ executed' = executed
      BY <2>1, <2>2 DEF GateTick
    <3>2. second' \in Int
      BY <3>1
    <3>3. PeersOK'
      BY <3>1, <3>2, GateAssumption, PeersRest
    <3>4. ToolsOK'
      BY <2>1, <3>1, <3>2, GateAssumption, ToolsRest
    <3> QED BY <2>1, <3>1, <3>3, <3>4 DEF GateInv
  <2>3. ASSUME NEW q \in Peers, Dispatch(q) PROVE GateInv'
    <3>1. asked' \in 0 .. MaxRequests /\ second' = second
      BY <2>1, <2>3 DEF Dispatch
    <3>2. CASE Refuse(q) /\ UNCHANGED <<count, reset, executed>>
      <4>1. PeersOK'
        BY <3>1, <3>2, GateAssumption, RefuseKeeps
      <4>2. second' \in Int /\ second' >= second
        BY <2>1, <3>1
      <4>3. ToolsOK'
        BY <3>2, <4>2, GateAssumption, ToolsRest
      <4> QED BY <2>1, <3>1, <4>1, <4>3 DEF GateInv
    <3>3. CASE Admit(q) /\ \E result \in Outcomes, destructive \in BOOLEAN :
                             CheckRateLimit(result = "passed" /\ destructive)
      <4>1. PICK b \in BOOLEAN : CheckRateLimit(b)
        BY <3>3
      <4>2. PeersOK'
        BY <3>1, <3>3, GateAssumption, AdmitKeeps
      <4>3. ToolsOK'
        BY <3>1, <4>1, GateAssumption, CheckKeeps
      <4> QED BY <2>1, <3>1, <4>2, <4>3 DEF GateInv
    <3> QED BY <2>3, <3>2, <3>3 DEF Dispatch
  <2>4. CASE UNCHANGED gateVars
    <3>1. /\ second' = second /\ asked' = asked /\ hits' = hits /\ count' = count /\ reset' = reset
          /\ admitted' = admitted /\ executed' = executed
      BY <2>4 DEF gateVars
    <3>2. second' \in Int /\ second' >= second
      BY <2>1, <3>1
    <3>3. PeersOK' /\ ToolsOK'
      BY <3>1, <3>2, GateAssumption, PeersRest, ToolsRest
    <3> QED BY <2>1, <3>1, <3>3 DEF GateInv
  <2> QED BY <2>2, <2>3, <2>4 DEF GateNext
<1> QED BY <1>1, <1>2, PTL DEF GateSpec

(* No client is admitted more than its limit within any window, and the    *)
(* destructive tools run at most twice theirs.                             *)
THEOREM WindowsHold == GateSpec => []LimitsHold
<1>1. GateInv => LimitsHold
  BY GateAssumption DEF GateInv, PeersOK, ToolsOK, LimitsHold
<1> QED BY <1>1, GateInvHolds, PTL
-----------------------------------------------------------------------------
(* The types of the services whose invariants say less of them.  IocStore: *)
(* an entry was last seen on a day that has come.                          *)
IocTypes ==
  /\ day \in Days /\ promoted \subseteq Indicators
  /\ iocs \in [Indicators -> [last : -1 .. day, count : Nat]]
  /\ iocFile \in [Indicators -> [last : -1 .. day, count : Nat]]
  /\ sightings \in [Indicators -> 0 .. MaxSightings]

LEMMA IocTypesBegin == IocInit => IocTypes
BY IocAssumption DEF IocInit, IocTypes, NoIoc, Days

LEMMA IocTypesStep ==
  ASSUME IocTypes, [IocNext]_iocVars
  PROVE  IocTypes'
<1>1. CASE RecordIocs
  <2>1. PICK B \in (SUBSET Indicators) \ {{}} : \E E \in Evicted(Recorded(B)) :
          /\ \A i \in B : sightings[i] < MaxSightings
          /\ iocs' = E /\ iocFile' \in {E, iocFile}
          /\ sightings' = [i \in Indicators |-> IF i \in B THEN sightings[i] + 1 ELSE sightings[i]]
          /\ promoted' = promoted \cup Promotable(E)
          /\ day' = day
    BY <1>1 DEF RecordIocs
  <2>2. PICK E \in Evicted(Recorded(B)) :
          /\ \A i \in B : sightings[i] < MaxSightings
          /\ iocs' = E /\ iocFile' \in {E, iocFile}
          /\ sightings' = [i \in Indicators |-> IF i \in B THEN sightings[i] + 1 ELSE sightings[i]]
          /\ promoted' = promoted \cup Promotable(E)
          /\ day' = day
    BY <2>1
  <2>3. Recorded(B) \in [Indicators -> [last : -1 .. day, count : Nat]]
    BY DEF IocTypes, Recorded, Days
  <2>4. E \in Store /\ \A i \in Indicators : E[i] = Recorded(B)[i] \/ E[i] = NoIoc
    <3>1. Recorded(B) \in Store
      BY <2>3 DEF Store, IocTypes, Days
    <3> QED BY <2>2, <3>1, EvictedIs
  <2>5. E \in [Indicators -> [last : -1 .. day, count : Nat]]
    BY <2>3, <2>4 DEF Store, NoIoc, IocTypes, Days
  <2>6. sightings' \in [Indicators -> 0 .. MaxSightings]
    BY <2>2, IocAssumption DEF IocTypes
  <2>7. promoted' \subseteq Indicators
    BY <2>2 DEF IocTypes, Promotable, KnownIocs
  <2> QED BY <2>2, <2>5, <2>6, <2>7 DEF IocTypes
<1>2. CASE NextDay
  <2>1. day' \in Days /\ \A n \in -1 .. day : n \in -1 .. day'
    BY <1>2, IocAssumption DEF NextDay, IocTypes, Days
  <2>2. UNCHANGED <<iocs, iocFile, sightings, promoted>>
    BY <1>2 DEF NextDay
  <2> QED BY <2>1, <2>2 DEF IocTypes
<1>3. CASE ReloadIocs
  BY <1>3 DEF ReloadIocs, IocTypes
<1>4. CASE UNCHANGED iocVars
  BY <1>4 DEF iocVars, IocTypes
<1> QED BY <1>1, <1>2, <1>3, <1>4 DEF IocNext

LEMMA IocTypesHold == IocSpec => []IocTypeOK
<1>1. IocTypes /\ [IocNext]_iocVars => IocTypes'
  BY IocTypesStep
<1>2. IocTypes => IocTypeOK
  BY DEF IocTypes, IocTypeOK
<1> QED BY <1>1, <1>2, IocTypesBegin, PTL DEF IocSpec

(* WazuhAuth.                                                              *)
LEMMA AuthTypesHold == AuthSpec => []AuthTypeOK
<1>1. AuthInv => AuthTypeOK
  BY DEF AuthInv, AuthTypeOK, CallRecord
<1> QED BY <1>1, AuthInvariant, PTL

(* SourceStore: an ingest at rest and a prediction at rest too.            *)
SourceTypes ==
  /\ now \in Clock /\ job.window \in Windows
  /\ job.rows \subseteq feed /\ job.looked \subseteq feed
  /\ guess.rows \subseteq feed /\ guess.looked \subseteq feed
  /\ looked \in [Windows -> SUBSET feed]

LEMMA SourceTypesBegin == SourceInit => SourceTypes
BY SourceAssumption DEF SourceInit, SourceTypes, NoJob, NoGuess, Clock, Windows

LEMMA SourceTypesStep ==
  ASSUME SourceInv, SourceTypes, [SourceNext]_sourceVars
  PROVE  SourceTypes'
<1>0. <<0, 1>> \in Windows
  BY SourceAssumption DEF Windows, Clock
<1>1. CASE Observe \/ SourceTick
  <2>1. /\ feed \subseteq feed' /\ now' \in Clock
        /\ UNCHANGED <<job, guess, looked>>
    BY <1>1, SourceAssumption DEF Observe, SourceTick, SourceTypes, Clock
  <2> QED BY <2>1 DEF SourceTypes
<1>2. CASE Fetch
  <2>1. PICK w \in Windows, S \in SUBSET feed, L \in SUBSET feed, complete \in BOOLEAN :
          job' = [pc |-> "save", window |-> w, rows |-> S, complete |-> complete, looked |-> L]
    BY <1>2 DEF Fetch
  <2> QED BY <1>2, <2>1 DEF Fetch, SourceTypes
<1>3. CASE SaveRows
  <2>1. job' = [job EXCEPT !.pc = "record"] /\ UNCHANGED <<now, feed, guess, looked>>
    BY <1>3 DEF SaveRows
  <2> QED BY <2>1 DEF SourceTypes, SourceInv, JobRecord
<1>4. CASE SaveIngest
  <2>1. /\ job' = [NoJob EXCEPT !.pc = "purge"] /\ UNCHANGED <<now, feed, guess>>
        /\ looked' = [looked EXCEPT ![job.window] = job.looked]
    BY <1>4 DEF SaveIngest
  <2> QED BY <1>0, <2>1 DEF SourceTypes, NoJob
<1>5. CASE PurgeExpired \/ IngestDies
  BY <1>0, <1>5 DEF PurgeExpired, IngestDies, SourceTypes, NoJob
<1>6. CASE LoadRows
  <2>1. UNCHANGED <<now, feed, job, looked>>
    BY <1>6 DEF LoadRows
  <2>2. guess'.rows \subseteq feed /\ guess'.looked \subseteq feed
    <3>1. CASE guess' = [NoGuess EXCEPT !.pc = "done", !.status = "insufficient_history"]
      BY <3>1 DEF NoGuess
    <3>2. CASE guess' # [NoGuess EXCEPT !.pc = "done", !.status = "insufficient_history"]
      <4>0. PICK start \in Clock, asOf \in Clock, allow \in BOOLEAN :
              guess' = [pc |-> "gate", start |-> start, asOf |-> asOf,
                        rows |-> InWindow(rows, start, asOf),
                        covered |-> Covering(start, asOf) # {},
                        looked |-> InWindow(UNION {looked[w] : w \in Covering(start, asOf)}, start, asOf),
                        allow |-> allow, status |-> "none"]
        <5>1. PICK start \in Clock, asOf \in Clock, allow \in BOOLEAN :
                guess' = IF Cardinality(InWindow(rows, start, asOf)) < MinObservations
                         THEN [NoGuess EXCEPT !.pc = "done", !.status = "insufficient_history"]
                         ELSE [pc |-> "gate", start |-> start, asOf |-> asOf,
                               rows |-> InWindow(rows, start, asOf),
                               covered |-> Covering(start, asOf) # {},
                               looked |-> InWindow(UNION {looked[w] : w \in Covering(start, asOf)},
                                                   start, asOf),
                               allow |-> allow, status |-> "none"]
          BY <1>6 DEF LoadRows
        <5> QED BY <3>2, <5>1
      <4>1. /\ guess'.rows = InWindow(rows, start, asOf)
            /\ guess'.looked = InWindow(UNION {looked[w] : w \in Covering(start, asOf)}, start, asOf)
        BY <4>0
      <4>2. \A w \in Covering(start, asOf) : looked[w] \subseteq feed
        BY DEF Covering, Complete, SourceTypes
      <4> QED BY <4>1, <4>2 DEF InWindow, SourceInv
    <3> QED BY <3>1, <3>2
  <2> QED BY <2>1, <2>2 DEF SourceTypes
<1>7. CASE Gate \/ Forget
  <2>1. guess'.rows \in {guess.rows, {}} /\ guess'.looked \in {guess.looked, {}}
    <3>1. CASE Forget
      BY <3>1 DEF Forget, NoGuess
    <3>2. CASE Gate
      <4>1. \E status : guess' = [guess EXCEPT !.pc = "done", !.status = status]
        BY <3>2 DEF Gate
      <4> QED BY <4>1 DEF SourceInv, GuessRecord
    <3> QED BY <1>7, <3>1, <3>2
  <2> QED BY <1>7, <2>1 DEF Gate, Forget, SourceTypes
<1>8. CASE UNCHANGED sourceVars
  BY <1>8 DEF sourceVars, SourceTypes
<1> QED BY <1>1, <1>2, <1>3, <1>4, <1>5, <1>6, <1>7, <1>8 DEF SourceNext

LEMMA SourceTypesHold == SourceSpec => []SourceTypeOK
<1>1. SourceInv /\ SourceTypes /\ [SourceNext]_sourceVars => SourceTypes'
  BY SourceTypesStep
<1>2. SourceInv /\ SourceTypes => SourceTypeOK
  BY DEF SourceInv, SourceTypes, SourceTypeOK, JobRecord, GuessRecord
<1> QED BY <1>1, <1>2, SourceTypesBegin, SourceInvariant, PTL DEF SourceSpec

(* RagStore: besides the table and the calls, the cases and the queries.   *)
RagTypes ==
  /\ edits \in 0 .. MaxEdits /\ raced \in BOOLEAN
  /\ held \subseteq RowsPossible /\ matrix \subseteq RowsPossible

LEMMA RagTypesBegin == RagInit => RagTypes
<1>1. MaxEdits \in Nat
  BY RagAssumption
<1>2. RagInit => edits = 0 /\ raced = FALSE /\ held = {} /\ matrix = {}
  BY DEF RagInit
<1>3. ASSUME edits = 0 PROVE edits \in 0 .. MaxEdits
  BY <1>1, <1>3
<1>4. ASSUME raced = FALSE PROVE raced \in BOOLEAN
  BY <1>4
<1> QED BY <1>2, <1>3, <1>4, Zenon DEF RagTypes

LEMMA RagTypesStep ==
  ASSUME CorpusInv, RagTypes, [RagNext]_ragVars
  PROVE  RagTypes'
<1>1. ASSUME NEW w \in Ingesters, IngestStep(w) PROVE RagTypes'
  <2>1. raced' \in BOOLEAN
    BY <1>1 DEF IngestStep, blueteam_rag_ingest, Ask, delete_source, add_documents, CountRows, _write_rows,
                RagTypes
  <2>2. UNCHANGED <<edits, held, matrix>>
    BY <1>1 DEF IngestStep, blueteam_rag_ingest, Ask, delete_source, add_documents, CountRows, _write_rows,
                queryVars
  <2> QED BY <2>1, <2>2 DEF RagTypes
<1>2. CASE LookAtFile \/ Visit \/ Leave
  BY <1>2 DEF LookAtFile, Visit, Leave, RagTypes
<1>3. CASE FetchRows
  <2>1. Matchable(chunks) \subseteq RowsPossible
    BY DEF CorpusInv, Matchable
  <2> QED BY <1>3, <2>1 DEF FetchRows, RagTypes
<1>4. CASE FillCache
  BY <1>4 DEF FillCache, RagTypes
<1>5. CASE EditCase
  BY <1>5, RagAssumption DEF EditCase, RagTypes, queryVars
<1>6. CASE UNCHANGED ragVars
  BY <1>6 DEF ragVars, queryVars, RagTypes
<1> QED BY <1>1, <1>2, <1>3, <1>4, <1>5, <1>6 DEF RagNext

LEMMA RagTypesHold == RagSpec => []RagTypeOK
<1>1. CorpusInv /\ RagTypes /\ [RagNext]_ragVars => RagTypes'
  BY RagTypesStep
<1>2. CorpusInv /\ CacheInv /\ RagTypes => RagTypeOK
  BY DEF CorpusInv, CacheInv, CallTypes, RagTypes, RagTypeOK, Active, Labels
<1> QED BY <1>1, <1>2, RagTypesBegin, CorpusInvariant, CacheInvariant, PTL DEF RagSpec
-----------------------------------------------------------------------------
(* The services side by side.  A step of the whole is a step of one of     *)
(* them and leaves the variables of every other alone.                     *)
LEMMA StepOfOneService ==
  ASSUME [ServicesNext]_servicesVars
  PROVE  /\ [SourceNext]_sourceVars /\ [SweepNext]_sweepVars /\ [AuthNext]_authVars
         /\ [HistoryNext]_historyVars /\ [GateNext]_gateVars /\ [ClusterNext]_clusterVars
         /\ [CaseNext]_caseVars /\ [IocNext]_iocVars /\ [MemoryNext]_memoryVars
         /\ [ReportNext]_reportVars /\ [RagNext]_ragVars
<1>1. CASE UNCHANGED servicesVars
  BY <1>1 DEF servicesVars
<1>2. CASE Source
  BY <1>2 DEF Source
<1>3. CASE Sweep
  BY <1>3 DEF Sweep
<1>4. CASE Auth
  BY <1>4 DEF Auth
<1>5. CASE History
  BY <1>5 DEF History
<1>6. CASE Gates
  BY <1>6 DEF Gates
<1>7. CASE Cluster
  BY <1>7 DEF Cluster
<1>8. CASE CasesStep
  BY <1>8 DEF CasesStep
<1>9. CASE Iocs
  BY <1>9 DEF Iocs
<1>10. CASE Memory
  BY <1>10 DEF Memory
<1>11. CASE Abuse
  BY <1>11 DEF Abuse
<1>12. CASE Rag
  BY <1>12 DEF Rag
<1> QED BY <1>1, <1>2, <1>3, <1>4, <1>5, <1>6, <1>7, <1>8, <1>9, <1>10, <1>11, <1>12 DEF ServicesNext

(* A behaviour of the services side by side is a behaviour of each of      *)
(* them, whatever the run looks at: what is proved of a service holds      *)
(* where TLC checks them together.                                         *)
THEOREM EveryServiceIsItself ==
  ServicesSpec => /\ SourceSpec /\ SweepSpec /\ AuthSpec /\ HistorySpec /\ GateSpec /\ ClusterSpec
                  /\ CaseSpec /\ IocSpec /\ MemorySpec /\ ReportSpec /\ RagSpec
<1>1. ServicesInit => /\ SourceInit /\ SweepInit /\ AuthInit /\ HistoryInit
                      /\ GateInit /\ ClusterInit /\ CaseInit /\ IocInit /\ MemoryInit
                      /\ ReportInit /\ RagInit
  BY DEF ServicesInit
<1>2. [ServicesNext]_servicesVars =>
         /\ [SourceNext]_sourceVars /\ [SweepNext]_sweepVars /\ [AuthNext]_authVars
         /\ [HistoryNext]_historyVars /\ [GateNext]_gateVars /\ [ClusterNext]_clusterVars
         /\ [CaseNext]_caseVars /\ [IocNext]_iocVars /\ [MemoryNext]_memoryVars
         /\ [ReportNext]_reportVars /\ [RagNext]_ragVars
  BY StepOfOneService
<1> QED BY <1>1, <1>2, PTL DEF ServicesSpec, SourceSpec, SweepSpec, AuthSpec, HistorySpec, GateSpec,
                               ClusterSpec, CaseSpec, IocSpec, MemorySpec, ReportSpec, RagSpec

(* Every service keeps its types where TLC checks them together:           *)
(* ServicesTypeOK of MCServices, for every value of their constants.       *)
THEOREM EveryServiceKeepsItsTypes == ServicesSpec => []ServicesTypeOK
<1>1. GateInv => GateTypeOK
  BY DEF GateInv, PeersOK, ToolsOK, GateTypeOK
<1>2. ReportInv => ReportTypeOK
  BY DEF ReportInv
<1>3. /\ SourceTypeOK /\ SweepTypeOK /\ AuthTypeOK /\ HistoryTypeOK
      /\ GateTypeOK /\ ClusterTypeOK /\ CaseTypeOK /\ IocTypeOK /\ MemoryTypeOK
      /\ ReportTypeOK /\ RagTypeOK
      => ServicesTypeOK
  BY DEF ServicesTypeOK
<1> QED BY <1>1, <1>2, <1>3, EveryServiceIsItself, SourceTypesHold, CompleteMeansAll, AuthTypesHold,
           HistoryReadsBack, GateInvHolds, FitsAreKept, CasesAreKept, IocTypesHold, ConfirmationsAreKept,
           ReportInvariant, RagTypesHold, PTL
=============================================================================
