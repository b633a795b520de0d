---------------------------- MODULE HistoryFile ----------------------------
(***************************************************************************)
(* The investigation history (tools/investigation_history.py): a JSONL     *)
(* file to which every verdict is appended, and which is rewritten in      *)
(* place when it has too many lines.  Nothing in it awaits, so only a full *)
(* disk or the death of the process comes between its steps.               *)
(*                                                                         *)
(* A line is the number of the verdict it holds; Torn, if it is no JSON    *)
(* value; or Garbled, if it was cut inside a character of several bytes    *)
(* (the entries are written with ensure_ascii=False) and does not even     *)
(* decode.                                                                 *)
(***************************************************************************)
EXTENDS Integers, Sequences, FiniteSets, SequencesExt

CONSTANTS
  Addresses,      (* srcip                                                 *)
  HistoryMax,     (* _INVESTIGATION_HISTORY_MAX_ENTRIES; 0: no limit       *)
  MaxVerdicts     (* bound: verdicts of a behaviour                        *)

ASSUME HistoryAssumption == HistoryMax \in Nat /\ MaxVerdicts \in Nat

VARIABLES
  lines,          (* the file                                              *)
  open,           (* does its last line lack its newline?                  *)
  about,          (* the address of each verdict                           *)
  clean           (* appends since a write was cut short                   *)

historyVars == <<lines, open, about, clean>>

Torn == 0
Garbled == -1
LastLines(s, n) == IF Len(s) <= n THEN s ELSE SubSeq(s, Len(s) - n + 1, Len(s))

(* What a reader gets: the lines before the first that does not parse, and *)
(* of those the last one about each address.  A file that does not decode  *)
(* has no readers: UnicodeDecodeError is not among what they catch (they   *)
(* may still stop in time at a torn line a buffer or more ahead of it).    *)
Unreadable(s) == \E i \in 1 .. Len(s) : s[i] = Garbled
Readable ==
  CASE Unreadable(lines) -> <<>>
    [] ~Unreadable(lines) /\ (\E i \in 1 .. Len(lines) : lines[i] = Torn) ->
         SubSeq(lines, 1, (CHOOSE i \in 1 .. Len(lines) :
           lines[i] = Torn /\ \A j \in 1 .. i - 1 : lines[j] # Torn) - 1)
    [] OTHER -> lines
LatestOn(s, a) == LET of == {n \in ToSet(s) : about[n] = a}
                  IN IF of = {} THEN 0 ELSE CHOOSE n \in of : \A m \in of : m <= n
PriorVerdict(a) == LatestOn(Readable, a)

HistoryInit == lines = <<>> /\ open = FALSE /\ about = <<>> /\ clean = 0

(* An append after a line without its end becomes part of that line.       *)
Joined(l, piece) == IF Garbled \in {l, piece} THEN Garbled ELSE Torn
Appended(piece) ==
  IF open THEN [lines EXCEPT ![Len(lines)] = Joined(lines[Len(lines)], piece)]
  ELSE Append(lines, piece)

(* What is left of a line cut short: all of it but its newline, perhaps.   *)
Pieces(line) == {Torn, Garbled, line}

(* Variants the properties must tell from the code.                        *)
NeverBounds(s) == s
KeepsOldest(s) == SubSeq(s, 1, IF Len(s) < HistoryMax THEN Len(s) ELSE HistoryMax)

Bounded(s) == IF HistoryMax > 0 THEN LastLines(s, HistoryMax) ELSE s

Mark(a) ==
  Len(about) < MaxVerdicts /\ about' = Append(about, a)

(* The append goes through, and the rewrite when it is due: which first    *)
(* reads the file, and gives up (the caller hears "Failed") if that raises. *)
MarkRecorded(a) ==
  LET whole == Appended(Len(about) + 1)
  IN /\ Mark(a)
     /\ lines' = IF Unreadable(whole) THEN whole ELSE Bounded(whole)
     /\ open' = FALSE
     /\ clean' = IF open THEN clean ELSE clean + 1

(* The append is cut short (the caller hears "Failed", or nothing at all): *)
(* nothing is written, or a piece, or all of it and the rewrite is not     *)
(* reached.                                                                *)
MarkTorn(a) ==
  /\ Mark(a) /\ clean' = 0
  /\ \/ UNCHANGED <<lines, open>>
     \/ \E piece \in Pieces(Len(about) + 1) : lines' = Appended(piece) /\ open' = TRUE
     \/ lines' = Appended(Len(about) + 1) /\ open' = FALSE

(* The rewrite is cut short, after the file was emptied: some first lines  *)
(* of the new content are there, and perhaps a piece of the next.          *)
MarkEmptied(a) ==
  LET whole == Appended(Len(about) + 1)
      new == Bounded(whole)
  IN /\ Mark(a) /\ clean' = 0
     /\ HistoryMax > 0 /\ Len(whole) > HistoryMax /\ ~Unreadable(whole)
     /\ \E n \in 0 .. HistoryMax - 1 :
          \/ lines' = SubSeq(new, 1, n) /\ open' = FALSE
          \/ \E piece \in Pieces(new[n + 1]) :
               lines' = Append(SubSeq(new, 1, n), piece) /\ open' = TRUE

HistoryNext == \E a \in Addresses : MarkRecorded(a) \/ MarkTorn(a) \/ MarkEmptied(a)

HistorySpec == HistoryInit /\ [][HistoryNext]_historyVars
-----------------------------------------------------------------------------
HistoryTypeOK ==
  /\ lines \in Seq(-1 .. MaxVerdicts) /\ open \in BOOLEAN
  /\ about \in Seq(Addresses) /\ clean \in Nat
  /\ HistoryMax > 0 /\ clean > 0 /\ ~Unreadable(lines) => Len(lines) <= HistoryMax

(* The history heals: a line cut short hides everything behind it, but     *)
(* HistoryMax whole appends later it has left the file, and the newest     *)
(* verdict on every address is read back again; unless it was cut inside   *)
(* a character.                                                            *)
HistoryHeals ==
  HistoryMax > 0 /\ clean >= HistoryMax /\ ~Unreadable(lines)
    => /\ Readable = [i \in 1 .. HistoryMax |-> Len(about) - HistoryMax + i]
       /\ \A a \in Addresses : PriorVerdict(a) # 0 => about[PriorVerdict(a)] = a
       /\ PriorVerdict(about[Len(about)]) = Len(about)

(* What the writer's docstring says of every append ("tail-truncating to   *)
(* max entries"): after a whole append the file has at most HistoryMax     *)
(* lines.  It does not hold once a line was cut inside a character.        *)
HistoryBounded == HistoryMax > 0 /\ clean > 0 => Len(lines) <= HistoryMax
=============================================================================
