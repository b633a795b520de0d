----------------------------- MODULE MCServices -----------------------------
(* The services that share no state with one another, side by side.  focus *)
(* is the one whose steps a behaviour shows: no property relates two of    *)
(* them, so TLC explores the sum of their state spaces, not the product.   *)
EXTENDS MemoryStore, SourceStore, IndexerSweep, WazuhAuth, HistoryFile,
        RequestGate, ClusterStore, CaseStore, IocStore, AbuseReport, RagStore,
        TLC

CONSTANT Services   (* the services this run looks at                      *)
VARIABLE focus

MCStamp == <<1, 1, 2>>

(* One verdict, a note with the workflow's marker and the same note with a *)
(* space more, which hides the marker and not the likeness: under a cap of *)
(* two a subject fills up with fresh rows, with duplicates, or with rows   *)
(* that expire.                                                            *)
MCVerdicts == {"tp"}
MCNotes == {"", "a", "A"}
MCMarked == {"a"}
MCFolded == [n \in MCNotes |-> IF n = "A" THEN "a" ELSE n]

(* Two cases, and a PDF of a long page; a caller sends a long text.        *)
MCFirstCases == {<<2, 1, 0>>}
MCFile == <<0, 0, 2>>
MCPosts == {<<0, 0, 2>>}

(* The calls, threads and processes of three of the services are the same  *)
(* two values, exchanged in all of them at once.                           *)
ServiceSymmetry == Permutations(Writers)

servicesVars == <<focus, sourceVars, sweepVars, authVars, historyVars,
                 gateVars, clusterVars, caseVars, iocVars, memoryVars,
                 reportVars, ragVars>>

ServicesInit ==
  /\ focus \in Services
  /\ SourceInit /\ SweepInit /\ AuthInit /\ HistoryInit
  /\ GateInit /\ ClusterInit /\ CaseInit /\ IocInit /\ MemoryInit
  /\ ReportInit /\ RagInit
  (* An area has one initial state in the behaviours of another.           *)
  /\ focus # "sweep" => index = {}
  /\ focus # "abuse" => \A c \in Reporters : ~granted[c]

Source == focus = "source" /\ SourceNext /\ UNCHANGED <<focus, sweepVars,
            authVars, historyVars, gateVars, clusterVars, caseVars,
            iocVars, memoryVars, reportVars, ragVars>>
Sweep == focus = "sweep" /\ SweepNext /\ UNCHANGED <<focus, sourceVars,
            authVars, historyVars, gateVars, clusterVars, caseVars,
            iocVars, memoryVars, reportVars, ragVars>>
Auth == focus = "auth" /\ AuthNext /\ UNCHANGED <<focus, sourceVars,
            sweepVars, historyVars, gateVars, clusterVars, caseVars,
            iocVars, memoryVars, reportVars, ragVars>>
History == focus = "history" /\ HistoryNext /\ UNCHANGED <<focus,
            sourceVars, sweepVars, authVars, gateVars, clusterVars,
            caseVars, iocVars, memoryVars, reportVars, ragVars>>
Gates == focus = "gate" /\ GateNext /\ UNCHANGED <<focus, sourceVars,
            sweepVars, authVars, historyVars, clusterVars, caseVars,
            iocVars, memoryVars, reportVars, ragVars>>
Cluster == focus = "cluster" /\ ClusterNext /\ UNCHANGED <<focus,
            sourceVars, sweepVars, authVars, historyVars, gateVars,
            caseVars, iocVars, memoryVars, reportVars, ragVars>>
CasesStep == focus = "case" /\ CaseNext /\ UNCHANGED <<focus, sourceVars,
            sweepVars, authVars, historyVars, gateVars, clusterVars,
            iocVars, memoryVars, reportVars, ragVars>>
Iocs == focus = "ioc" /\ IocNext /\ UNCHANGED <<focus, sourceVars,
            sweepVars, authVars, historyVars, gateVars, clusterVars,
            caseVars, memoryVars, reportVars, ragVars>>
Memory == focus = "memory" /\ MemoryNext /\ UNCHANGED <<focus, sourceVars,
            sweepVars, authVars, historyVars, gateVars, clusterVars,
            caseVars, iocVars, reportVars, ragVars>>
Abuse == focus = "abuse" /\ ReportNext /\ UNCHANGED <<focus, sourceVars,
            sweepVars, authVars, historyVars, gateVars, clusterVars,
            caseVars, iocVars, memoryVars, ragVars>>
Rag == focus = "rag" /\ RagNext /\ UNCHANGED <<focus, sourceVars,
            sweepVars, authVars, historyVars, gateVars, clusterVars,
            caseVars, iocVars, memoryVars, reportVars>>

ServicesNext == Source \/ Sweep \/ Auth \/ History \/ Gates \/ Cluster
                \/ CasesStep \/ Iocs \/ Memory \/ Abuse \/ Rag

ServicesSpec == ServicesInit /\ [][ServicesNext]_servicesVars
-----------------------------------------------------------------------------
(* Every service keeps its types.                                          *)
ServicesTypeOK ==
  /\ SourceTypeOK /\ SweepTypeOK /\ AuthTypeOK /\ HistoryTypeOK
  /\ GateTypeOK /\ ClusterTypeOK /\ CaseTypeOK /\ IocTypeOK /\ MemoryTypeOK
  /\ ReportTypeOK /\ RagTypeOK
=============================================================================
