------------------------------ MODULE AuditLog ------------------------------
(***************************************************************************)
(* The audit log (core/audit.py): tool handlers put entries on a queue     *)
(* from the main thread, a daemon thread takes them off in batches and     *)
(* appends them to the file, and a signal handler, or atexit, drains what  *)
(* is left before the process ends.  A signal handler runs inside the main *)
(* thread, between any two of its steps: inside put() too, where that      *)
(* thread holds the queue's lock, which is not reentrant.                  *)
(***************************************************************************)
EXTENDS Integers, Sequences, FiniteSets, SequencesExt

CONSTANT MaxEntries     (* bound: entries of a behaviour, numbered         *)

ASSUME AuditAssumption == MaxEntries \in Nat

VARIABLES
  queue,          (* _AUDIT_QUEUE                                          *)
  held,           (* does the main thread hold the queue's lock?           *)
  main,           (* what the main thread does                             *)
  worker,         (* what the writer does                                  *)
  hand,           (* the writer's batch                                    *)
  flushed,        (* the batch of flush_audit_log                          *)
  file,           (* BLUETEAM_AUDIT_LOG                                    *)
  refused,        (* entries a failing write has dropped                   *)
  made            (* entries put so far                                    *)

auditVars == <<queue, held, main, worker, hand, flushed, file, refused, made>>

Running == main # "ended"

AuditInit ==
  /\ queue = <<>> /\ hand = <<>> /\ flushed = <<>> /\ file = <<>> /\ refused = {}
  /\ held = FALSE /\ main = "serving" /\ worker = "waiting" /\ made = 0

(* put(): under the lock.                                                  *)
LockQueue ==
  /\ main = "serving" /\ made < MaxEntries
  /\ held' = TRUE /\ main' = "putting"
  /\ UNCHANGED <<queue, worker, hand, flushed, file, refused, made>>
PutEntry ==
  /\ main = "putting"
  /\ made' = made + 1 /\ queue' = Append(queue, made')
  /\ main' = "put"
  /\ UNCHANGED <<held, worker, hand, flushed, file, refused>>
UnlockQueue ==
  /\ main = "put"
  /\ held' = FALSE /\ main' = "serving"
  /\ UNCHANGED <<queue, worker, hand, flushed, file, refused, made>>

(* SIGTERM or SIGINT between two steps of the main thread, or its end.     *)
ShutDown ==
  /\ main \in {"serving", "putting", "put"}
  /\ main' = "flushing"
  /\ UNCHANGED <<queue, held, worker, hand, flushed, file, refused, made>>

(* Variants the properties must tell from the code.                        *)
FlushWaits ==
  /\ main = "flushing" /\ ~held /\ queue # <<>>
  /\ flushed' = Append(flushed, Head(queue)) /\ queue' = Tail(queue)
  /\ UNCHANGED <<held, main, worker, hand, file, refused, made>>
WriteKeepsBatch ==
  /\ Running /\ worker = "writing" /\ worker' = "waiting"
  /\ file' = file \o hand
  /\ UNCHANGED <<queue, held, main, hand, flushed, refused, made>>

(* flush_audit_log: get_nowait until the queue is empty.                   *)
FlushTake ==
  /\ main = "flushing" /\ ~held
  /\ IF queue # <<>>
     THEN /\ flushed' = Append(flushed, Head(queue)) /\ queue' = Tail(queue)
          /\ UNCHANGED main
     ELSE /\ main' = "dying" /\ UNCHANGED <<queue, flushed>>
  /\ UNCHANGED <<held, worker, hand, file, refused, made>>

(* A write appends all, or fails after some of it: the rest is dropped.    *)
Written(batch) ==
  \E n \in 0 .. Len(batch) :
    /\ file' = file \o SubSeq(batch, 1, n)
    /\ refused' = refused \cup ToSet(SubSeq(batch, n + 1, Len(batch)))
FlushWrite ==
  /\ main = "dying" /\ flushed # <<>>
  /\ Written(flushed) /\ flushed' = <<>>
  /\ UNCHANGED <<queue, held, main, worker, hand, made>>

(* The default action of the signal, or the end of the interpreter: the    *)
(* writer stops where it is.                                               *)
End ==
  /\ main = "dying" /\ flushed = <<>>
  /\ main' = "ended"
  /\ UNCHANGED <<queue, held, worker, hand, flushed, file, refused, made>>

(* _audit_worker_loop                                                      *)
Take ==
  /\ Running /\ worker = "waiting" /\ ~held /\ queue # <<>>
  /\ hand' = <<Head(queue)>> /\ queue' = Tail(queue) /\ worker' = "taking"
  /\ UNCHANGED <<held, main, flushed, file, refused, made>>
TakeMore ==
  /\ Running /\ worker = "taking" /\ ~held
  /\ IF queue # <<>>
     THEN /\ hand' = Append(hand, Head(queue)) /\ queue' = Tail(queue)
          /\ UNCHANGED worker
     ELSE /\ worker' = "writing" /\ UNCHANGED <<queue, hand>>
  /\ UNCHANGED <<held, main, flushed, file, refused, made>>
WriteBatch ==
  /\ Running /\ worker = "writing"
  /\ Written(hand) /\ hand' = <<>> /\ worker' = "waiting"
  /\ UNCHANGED <<queue, held, main, flushed, made>>

AuditNext == LockQueue \/ PutEntry \/ UnlockQueue \/ ShutDown \/ FlushTake \/ FlushWrite
             \/ End \/ Take \/ TakeMore \/ WriteBatch

(* The thread that is told to stop is scheduled; when it is told is not up *)
(* to it, and of the writer nothing is assumed.                            *)
AuditFairness ==
  WF_auditVars(FlushTake) /\ WF_auditVars(FlushWrite) /\ WF_auditVars(End)

AuditSpec == AuditInit /\ [][AuditNext]_auditVars /\ AuditFairness
-----------------------------------------------------------------------------
AuditTypeOK ==
  /\ main \in {"serving", "putting", "put", "flushing", "dying", "ended"}
  /\ worker \in {"waiting", "taking", "writing"} /\ held \in BOOLEAN
  /\ made \in 0 .. MaxEntries /\ refused \subseteq 1 .. made
  /\ \A s \in {queue, hand, flushed, file} : ToSet(s) \subseteq 1 .. made

(* Every entry is in one place, once: none is lost between the queue, the  *)
(* two that drain it and the file, and none is written twice.  "Drain      *)
(* queued audit entries on normal exit and on SIGTERM/SIGINT": when the    *)
(* process has ended, only what the writer had in hand is lost.            *)
AuditConserved ==
  LET all == queue \o hand \o flushed \o file
  IN /\ ToSet(all) \cup refused = 1 .. made
     /\ Len(all) + Cardinality(refused) = made
     /\ main = "ended" => queue = <<>> /\ flushed = <<>>

(* The end comes, unless the signal met the main thread inside put().      *)
ShutdownEnds == main = "flushing" /\ ~held ~> main = "ended"

(* "then re-raise the signal so the process still terminates normally".    *)
AlwaysEnds == main = "flushing" ~> main = "ended"
=============================================================================
