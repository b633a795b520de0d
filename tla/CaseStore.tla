----------------------------- MODULE CaseStore -----------------------------
(***************************************************************************)
(* The case store (core/case_store.py): a dictionary in memory that every  *)
(* change writes to a file, which keeps the newest cases only.  A flush    *)
(* that fails is logged and forgotten.  No operation awaits; between two   *)
(* of them the process can be restarted.                                   *)
(*                                                                         *)
(* A case is the number of verdicts and indicators it was given, and cases *)
(* are numbered in the order of their creation.  Of its texts (the title,  *)
(* the notes, the indicators) what matters is whether a line separator     *)
(* that JSON does not escape is in them (U+0085, U+2028, U+2029): the file *)
(* is written with ensure_ascii=False and read with splitlines, which      *)
(* breaks the case's line there.                                           *)
(***************************************************************************)
EXTENDS Integers, FiniteSets

CONSTANTS
  CaseMax,        (* BLUETEAM_CASE_MAX                                     *)
  MaxCases,       (* bound: cases of a behaviour                           *)
  MaxItems        (* bound: changes to each                                *)

ASSUME CaseAssumption == CaseMax \in Nat \ {0} /\ MaxCases \in Nat /\ MaxItems \in Nat

VARIABLES
  cases, caseFile,    (* case -> what it holds, NoCase: not there          *)
  created,            (* cases created so far                              *)
  texts, fileTexts,   (* case -> its texts, in memory and on file          *)
  up,                 (* did the process start?                            *)
  answered,           (* case -> what its callers were told it holds, but  *)
                      (* for what a failed flush and a restart have lost   *)
  safe                (* cases that were among the newest CaseMax in the   *)
                      (* last flush that went well, and are unchanged      *)

caseVars == <<cases, caseFile, texts, fileTexts, up, created, answered, safe>>

Cases == 1 .. MaxCases
NoCase == -1

(* Texts without such a separator; with one; and with two of them around a *)
(* JSON value that is no object, such as a number.                         *)
CaseTexts == {"plain", "split", "bare"}
Together(a, b) == CASE "bare" \in {a, b} -> "bare"
                    [] a # "bare" /\ b # "bare" /\ "split" \in {a, b} -> "split"
                    [] a = "plain" /\ b = "plain" -> "plain"
Known(c) == {k \in Cases : c[k] # NoCase}

CaseInit ==
  /\ cases = [k \in Cases |-> NoCase] /\ caseFile = cases
  /\ texts = [k \in Cases |-> "plain"] /\ fileTexts = texts /\ up = TRUE
  /\ created = 0 /\ answered = [k \in Cases |-> 0] /\ safe = {}

NewestCases(c) == {k \in Known(c) : Cardinality({j \in Known(c) : j > k}) < CaseMax}

(* A variant the property must tell from the code: the oldest are kept.    *)
OldestLines(c) ==
  LET kept == {k \in Known(c) : Cardinality({j \in Known(c) : j < k}) < CaseMax}
  IN [k \in Cases |-> IF k \in kept THEN c[k] ELSE NoCase]

(* _flush, after a change to c: the newest by creation.                    *)
CaseLines(c) == [k \in Cases |-> IF k \in NewestCases(c) THEN c[k] ELSE NoCase]
FlushCases(c, t) ==
  /\ cases' = c /\ texts' = t
  /\ \/ caseFile' = CaseLines(c) /\ fileTexts' = t /\ safe' = NewestCases(c)
     \/ UNCHANGED <<caseFile, fileTexts>> /\ safe' = {k \in safe : c[k] = cases[k]}

CreateCase ==
  /\ up /\ created < MaxCases /\ created' = created + 1
  /\ \E text \in CaseTexts : FlushCases([cases EXCEPT ![created'] = 0],
                                    [texts EXCEPT ![created'] = text])
  /\ UNCHANGED <<up, answered>>

(* add_verdict, from the tool or from mark_investigated, and add_iocs; an  *)
(* unknown case is answered with None.                                     *)
AddToCase ==
  \E k \in Known(cases), text \in CaseTexts :
    /\ up /\ answered[k] < MaxItems
    /\ FlushCases([cases EXCEPT ![k] = @ + 1], [texts EXCEPT ![k] = Together(@, text)])
    /\ answered' = [answered EXCEPT ![k] = cases[k] + 1]
    /\ UNCHANGED <<up, created>>

(* A line that is one piece comes back, and one in pieces is dropped: none *)
(* of them parses, or none has a case_id.                                  *)
ReadBack == {k \in Known(caseFile) : fileTexts[k] = "plain"}

(* The next process loads what the file has, when it is imported: asking a *)
(* value that is no object for its case_id raises, and it does not start.  *)
Reload ==
  /\ IF \E k \in Known(caseFile) : fileTexts[k] = "bare"
     THEN up' = FALSE /\ UNCHANGED <<cases, texts, answered>>
     ELSE /\ up' = TRUE /\ texts' = fileTexts
          /\ cases' = [k \in Cases |-> IF k \in ReadBack THEN caseFile[k] ELSE NoCase]
          /\ answered' = [k \in Cases |-> IF k \in ReadBack \ safe THEN caseFile[k]
                                          ELSE answered[k]]
  /\ UNCHANGED <<caseFile, fileTexts, created, safe>>

CaseNext == CreateCase \/ AddToCase \/ Reload

CaseSpec == CaseInit /\ [][CaseNext]_caseVars
-----------------------------------------------------------------------------
CaseTypeOK ==
  /\ cases \in [Cases -> NoCase .. MaxItems] /\ caseFile \in [Cases -> NoCase .. MaxItems]
  /\ texts \in [Cases -> CaseTexts] /\ fileTexts \in [Cases -> CaseTexts] /\ up \in BOOLEAN
  /\ created \in 0 .. MaxCases /\ Known(cases) \subseteq 1 .. created

(* A case that reached the file among the newest keeps everything its      *)
(* callers were answered with, over restarts, over failed flushes and over *)
(* later cases, as long as the file has room for it and no line separator  *)
(* is in its texts.                                                        *)
CasesKept ==
  /\ Cardinality(Known(caseFile)) <= CaseMax
  /\ \A k \in safe : fileTexts[k] = "plain" =>
       cases[k] = answered[k] /\ caseFile[k] = answered[k]
=============================================================================
