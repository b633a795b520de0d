------------------------------ MODULE RagStore ------------------------------
(***************************************************************************)
(* The corpus of the knowledge base: one SQLite table that calls of        *)
(* blueteam_rag_ingest rebuild or add to, each step of theirs in a thread  *)
(* of its own, and the matrix that queries keep of it.  The matrix is      *)
(* keyed by the modification time of the database file, which a commit     *)
(* does not change: the commit goes to the write-ahead log, and the file   *)
(* changes when the log is copied into it, by a commit that finds it long  *)
(* or by the last connection that closes.                                  *)
(***************************************************************************)
EXTENDS Integers, FiniteSets

CONSTANTS
  Ingesters,      (* calls of blueteam_rag_ingest                          *)
  Docs,           (* the documents, numbered in the order of their label   *)
  CaseDocs,       (* those that are cases                                  *)
  FirstCases,     (* what the texts of the cases may be at first           *)
  MaxLength,      (* bound on the chunks of a document                     *)
  ParentChild,    (* BLUETEAM_RAG_PARENT_CHILD                             *)
  MaxChunks,      (* BLUETEAM_RAG_MAX_CHUNKS                               *)
  Batch,          (* _PDF_EMBED_BATCH                                      *)
  File,           (* the text of each page of a PDF                        *)
  Posts,          (* the texts that callers send                           *)
  MaxEdits        (* bound on the edits of the cases                       *)

ASSUME RagAssumption ==
  /\ Ingesters \cap {"nobody", "reader", "visitor"} = {}
  /\ Docs \subseteq Nat /\ IsFiniteSet(Docs) /\ CaseDocs \subseteq Docs
  /\ MaxChunks \in Nat \ {0} /\ MaxLength \in Nat /\ MaxEdits \in Nat /\ ParentChild \in BOOLEAN
  /\ FirstCases \subseteq [Docs -> 0..MaxLength]
  /\ File \in [Docs -> 0..MaxLength] /\ Posts \subseteq [Docs -> 0..MaxLength]

VARIABLES
  truth,          (* the text of each case, 0 where there is none          *)
  edits,
  chunks,         (* the table, with what is committed in the log          *)
  stage,          (* the phase of a call                                   *)
  source, label,  (* what it ingests, and under which label                *)
  goal,           (* the rows of what it ingests, as it read it            *)
  left,           (* those that it has not submitted                       *)
  room,           (* what it found the cap to leave                        *)
  outcome,        (* the status it returns                                 *)
  alone,          (* whether no other call of its label began since it did *)
  raced,          (* whether rows were written between a count and its use *)
  unsynced,       (* whether the log holds what the file does not          *)
  reader, held,   (* a query that builds the matrix, and what it fetched   *)
  seen,           (* whether the time it looked at is still the file's     *)
  matrix, keyed,  (* the cache, and whether its key is the file's time     *)
  visitor         (* whether another connection is open                    *)

tableVars == <<chunks, unsynced, seen, keyed>>
callVars == <<stage, source, label, goal, left, room, outcome, alone>>
queryVars == <<reader, held, matrix, visitor>>
ragVars == <<truth, edits, raced, tableVars, callVars, queryVars>>

(* The length of a text stands for the text.                               *)
Texts == [Docs -> 0..MaxLength]
RowsPossible ==
  [of : {"cases", "pdf", "manual"}, doc : Docs, seq : Nat, text : 0..MaxLength, parent : BOOLEAN]

RagTypeOK ==
  /\ truth \in Texts /\ edits \in 0..MaxEdits
  /\ chunks \subseteq RowsPossible
  /\ stage \in [Ingesters -> {"idle", "clear", "embed", "count", "insert", "ended"}]
  /\ source \in [Ingesters -> {"cases", "pdf", "text"}]
  /\ label \in [Ingesters -> {"cases", "pdf", "manual"}]
  /\ goal \in [Ingesters -> SUBSET RowsPossible]
  /\ left \in [Ingesters -> SUBSET RowsPossible]
  /\ room \in [Ingesters -> Nat]
  /\ outcome \in [Ingesters -> {"none", "ok", "empty", "capped", "unavailable"}]
  /\ alone \in [Ingesters -> BOOLEAN] /\ raced \in BOOLEAN
  /\ unsynced \in BOOLEAN /\ seen \in BOOLEAN /\ keyed \in BOOLEAN /\ visitor \in BOOLEAN
  /\ reader \in {"idle", "looking", "holding"}
  /\ held \subseteq RowsPossible /\ matrix \subseteq RowsPossible

RagInit ==
  /\ truth \in FirstCases /\ edits = 0
  /\ chunks = {} /\ raced = FALSE
  /\ stage = [w \in Ingesters |-> "idle"] /\ source = [w \in Ingesters |-> "cases"]
  /\ label = [w \in Ingesters |-> "cases"]
  /\ goal = [w \in Ingesters |-> {}] /\ left = [w \in Ingesters |-> {}]
  /\ room = [w \in Ingesters |-> 0] /\ outcome = [w \in Ingesters |-> "none"]
  /\ alone = [w \in Ingesters |-> FALSE]
  /\ unsynced = FALSE /\ seen = FALSE /\ keyed = FALSE
  /\ reader = "idle" /\ held = {} /\ matrix = {} /\ visitor = FALSE
-----------------------------------------------------------------------------
(* A document of more than one chunk has a parent row too, which shares    *)
(* the sequence number of its first chunk.                                 *)
ChunksBefore(texts, d) ==
  Cardinality({c \in Docs \X (1 .. MaxLength) : c[1] < d /\ c[2] <= texts[c[1]]})
RowOf(l, texts, d, i, parent) ==
  [of |-> l, doc |-> d, seq |-> ChunksBefore(texts, d) + i, text |-> texts[d], parent |-> parent]
RowsOf(l, texts) ==
  (UNION {{RowOf(l, texts, d, i, FALSE) : i \in 0 .. texts[d] - 1} : d \in Docs})
  \cup {RowOf(l, texts, d, 0, TRUE) : d \in {d \in Docs : ParentChild /\ texts[d] > 1}}

(* The primary key: of a chunk its label, number and text, of a parent its *)
(* label and document.  No two documents have a text in common.            *)
SameId(r, s) ==
  /\ r.of = s.of /\ r.parent = s.parent
  /\ r.doc = s.doc /\ (r.parent \/ (r.seq = s.seq /\ r.text = s.text))

Matchable(S) == {r \in S : ~r.parent}
Labelled(l) == {r \in chunks : r.of = l}

Position(r) == 2 * r.seq + (IF r.parent THEN 0 ELSE 1)
Leading(S, n) == {r \in S : Cardinality({s \in S : Position(s) < Position(r)}) < n}

(* A PDF is submitted page by page, a page in batches; the rest at once.   *)
Submitted(w) ==
  IF source[w] # "pdf" THEN left[w]
  ELSE Leading({r \in left[w] : \A s \in left[w] : r.doc <= s.doc}, Batch)

(* The cap takes away whole groups, from the first that does not fit.      *)
Through(S, r) ==
  IF ParentChild THEN {s \in S : s.doc <= r.doc} ELSE {s \in S : s.seq <= r.seq}
Kept(w) == {r \in Submitted(w) : Cardinality(Through(Submitted(w), r)) <= room[w]}
-----------------------------------------------------------------------------
(* The connections that are open, apart from that of the one who asks.     *)
Open(me) ==
  ({w \in Ingesters : stage[w] = "insert"} \cup (IF reader = "holding" THEN {"reader"} ELSE {})
     \cup (IF visitor THEN {"visitor"} ELSE {})) \ {me}

FileChanges == keyed' = FALSE /\ seen' = FALSE
FileStays == UNCHANGED <<keyed, seen>>

(* A connection closes, after a commit of its own or without one.          *)
Closes(me) ==
  IF Open(me) = {} /\ unsynced THEN FileChanges /\ unsynced' = FALSE
  ELSE FileStays /\ UNCHANGED unsynced
CommitsAndCloses(me) ==
  IF Open(me) = {} THEN FileChanges /\ unsynced' = FALSE
  ELSE \/ FileStays /\ unsynced' = TRUE
       \/ FileChanges /\ unsynced' \in BOOLEAN

Move(w, from, to) == stage[w] = from /\ stage' = [stage EXCEPT ![w] = to]

(* The text of what the call ingests is read at its start.                 *)
Ask(w, s, l, texts) ==
  /\ Move(w, "idle", IF s = "text" THEN "embed" ELSE "clear")
  /\ source' = [source EXCEPT ![w] = s] /\ label' = [label EXCEPT ![w] = l]
  /\ goal' = [goal EXCEPT ![w] = RowsOf(l, texts)]
  /\ left' = [left EXCEPT ![w] = RowsOf(l, texts)]
  /\ alone' = [v \in Ingesters |->
       IF v = w THEN \A u \in Ingesters : stage[u] \in {"idle", "ended"} \/ label[u] # l
       ELSE alone[v] /\ label[v] # l]
  /\ UNCHANGED <<truth, edits, raced, tableVars, room, outcome, queryVars>>

blueteam_rag_ingest(w) ==
  \/ Ask(w, "cases", "cases", truth)
  \/ Ask(w, "pdf", "pdf", File)
  \/ \E texts \in Posts, l \in {"manual", "cases"} : Ask(w, "text", l, texts)

(* delete_source; what is derived is rebuilt.                              *)
delete_source(w) ==
  /\ Move(w, "clear", "embed")
  /\ chunks' = chunks \ Labelled(label[w])
  /\ IF Labelled(label[w]) = {} THEN Closes("nobody") ELSE CommitsAndCloses("nobody")
  /\ raced' = (raced \/ (chunks' # chunks /\ \E v \in Ingesters : stage[v] = "insert"))
  /\ UNCHANGED <<truth, edits, source, label, goal, left, room, outcome, alone, queryVars>>

(* add_documents, up to its count: nothing to embed, an embedder that does *)
(* not load, or a batch to write.                                          *)
Ends(w, from, status) ==
  Move(w, from, "ended") /\ outcome' = [outcome EXCEPT ![w] = status]

add_documents(w) ==
  /\ \/ left[w] = {} /\ Ends(w, "embed", "empty")
     \/ left[w] # {} /\ Ends(w, "embed", "unavailable")
     \/ left[w] # {} /\ Move(w, "embed", "count") /\ UNCHANGED outcome
  /\ UNCHANGED <<truth, edits, raced, tableVars, source, label, goal, left, room, alone, queryVars>>

(* _write_rows counts the rows outside of the transaction that inserts.    *)
CountRows(w) ==
  /\ Move(w, "count", "insert")
  /\ room' = [room EXCEPT ![w] = IF Cardinality(chunks) < MaxChunks
                                 THEN MaxChunks - Cardinality(chunks) ELSE 0]
  /\ UNCHANGED <<truth, edits, raced, tableVars, source, label, goal, left, outcome, alone, queryVars>>

Inserted(w) == {r \in chunks : ~\E k \in Kept(w) : SameId(r, k)} \cup Kept(w)

_write_rows(w) ==
  /\ stage[w] = "insert"
  /\ chunks' = Inserted(w)
  /\ IF Kept(w) = {} THEN Closes(w) ELSE CommitsAndCloses(w)
  /\ left' = [left EXCEPT ![w] = @ \ Submitted(w)]
  /\ raced' = (raced \/ (Kept(w) # {} /\ \E v \in Ingesters \ {w} : stage[v] = "insert"))
  /\ \/ Kept(w) # Submitted(w) /\ Ends(w, "insert", "capped")
     \/ Kept(w) = Submitted(w) /\ left'[w] = {} /\ Ends(w, "insert", "ok")
     \/ Kept(w) = Submitted(w) /\ left'[w] # {} /\ Move(w, "insert", "embed") /\ UNCHANGED outcome
  /\ UNCHANGED <<truth, edits, source, label, goal, room, alone, queryVars>>
-----------------------------------------------------------------------------
(* _load_matrix: the time of the file, the rows, and the cache.  A query   *)
(* whose time is the key is answered from the cache.                       *)
LookAtFile ==
  /\ reader = "idle" /\ ~keyed /\ reader' = "looking" /\ seen' = TRUE
  /\ UNCHANGED <<truth, edits, raced, chunks, unsynced, keyed, callVars, held, matrix, visitor>>

FetchRows ==
  /\ reader = "looking" /\ reader' = "holding" /\ held' = Matchable(chunks)
  /\ UNCHANGED <<truth, edits, raced, tableVars, callVars, matrix, visitor>>

(* As FillCache would be if the time were read after the rows.             *)
FillCacheLate ==
  /\ reader = "holding" /\ reader' = "idle" /\ held # {}
  /\ unsynced' = (unsynced /\ Open("reader") # {})
  /\ seen' = TRUE /\ keyed' = TRUE /\ matrix' = held
  /\ UNCHANGED <<truth, edits, raced, chunks, callVars, held, visitor>>

(* An empty corpus is not cached.                                          *)
FillCache ==
  /\ reader = "holding" /\ reader' = "idle"
  /\ LET last == Open("reader") = {} /\ unsynced
     IN  /\ unsynced' = (unsynced /\ ~last)
         /\ seen' = (seen /\ ~last)
         /\ keyed' = IF held = {} THEN keyed /\ ~last ELSE seen'
         /\ matrix' = IF held = {} THEN matrix ELSE held
  /\ UNCHANGED <<truth, edits, raced, chunks, callVars, held, visitor>>

(* stats, _group_sync, and whatever else opens the database for a while.   *)
Visit ==
  /\ ~visitor /\ visitor' = TRUE
  /\ UNCHANGED <<truth, edits, raced, tableVars, callVars, reader, held, matrix>>
Leave ==
  /\ visitor /\ visitor' = FALSE /\ Closes("visitor")
  /\ UNCHANGED <<truth, edits, raced, chunks, callVars, reader, held, matrix>>

(* A case is opened, rewritten or removed in the case store.               *)
EditCase ==
  /\ edits < MaxEdits /\ edits' = edits + 1
  /\ \E d \in CaseDocs, n \in 0..MaxLength : truth' = [truth EXCEPT ![d] = n]
  /\ UNCHANGED <<raced, tableVars, callVars, queryVars>>

IngestStep(w) ==
  \/ blueteam_rag_ingest(w) \/ delete_source(w) \/ add_documents(w)
  \/ CountRows(w) \/ _write_rows(w)

RagNext ==
  \/ LookAtFile \/ FetchRows \/ FillCache \/ Visit \/ Leave \/ EditCase
  \/ \E w \in Ingesters : IngestStep(w)
RagSpec == RagInit /\ [][RagNext]_ragVars
-----------------------------------------------------------------------------
(* A call that rebuilt a label and says it is done, with no other call of  *)
(* that label since it began, has left exactly what it read.               *)
RebuildExact ==
  \A w \in Ingesters :
    (outcome[w] = "ok" /\ source[w] # "text" /\ alone[w]) => Labelled(label[w]) = goal[w]

(* When no connection is open, a query that the cache answers sees the     *)
(* rows that the table has.                                                *)
Quiet == Open("nobody") = {}
CacheFresh == (keyed /\ Quiet) => matrix = Matchable(chunks)

(* The cap holds as long as no row was written between the count of a call *)
(* and its insertion.                                                      *)
CapUnlessRaced == raced \/ Cardinality(chunks) <= MaxChunks

(* Outside of PDFs, whose pages may be split, a parent has the chunks of   *)
(* its text, and a chunk of a longer text a parent, maybe of a later text. *)
SameText(s, r) == s.of = r.of /\ s.doc = r.doc /\ s.text = r.text
GroupsWhole ==
  ParentChild => \A r \in chunks :
    r.of # "pdf" =>
      /\ r.parent => \A i \in 0 .. r.text - 1 :
           \E s \in chunks : ~s.parent /\ SameText(s, r) /\ s.seq = r.seq + i
      /\ (~r.parent /\ r.text > 1) => \E s \in chunks : s.parent /\ s.of = r.of /\ s.doc = r.doc

(* What the corpus owes to its sources, and a query to the corpus.         *)
CorpusTrue == RebuildExact /\ CacheFresh /\ CapUnlessRaced /\ GroupsWhole
=============================================================================
