------------------------------ MODULE Lineage -------------------------------
(***************************************************************************)
(* How clusters of one fit are told to be those of the fit before          *)
(* (lineage_core.build_lineages), and how an entity is told to belong to   *)
(* one (cluster_core.assign_vector).  A centroid is a place on a line, and *)
(* distances are doubled so that a radius times match_factor is a number.  *)
(***************************************************************************)
EXTENDS Integers, Sequences, FiniteSets, SequencesExt, FiniteSetsExt

Novel == -1       (* NOISE_LABEL                                           *)

Reach(cluster) == 3 * cluster.radius         (* twice radius * 1.5         *)
Apart(x, y) == LET d == x - y IN 2 * (IF d < 0 THEN -d ELSE d)

(* The pairs of clusters that lie within the older one's reach, nearest    *)
(* first by the share of the reach, then by distance, then as enumerated.  *)
Pairs(clusters, previous) ==
  {pair \in (1..Len(clusters)) \X (1..Len(previous)) :
     Apart(clusters[pair[1]].centroid, previous[pair[2]].centroid) <= Reach(previous[pair[2]])}
Nearer(clusters, previous, x, y) ==
  LET d(pair) == Apart(clusters[pair[1]].centroid, previous[pair[2]].centroid)
      left == d(x) * Reach(previous[y[2]])
      right == d(y) * Reach(previous[x[2]])
  IN  \/ left < right
      \/ left = right /\ d(x) < d(y)
      \/ left = right /\ d(x) = d(y) /\ (x[1] < y[1] \/ (x[1] = y[1] /\ x[2] < y[2]))

InReach(clusters, previous) ==
  LET pairs == Pairs(clusters, previous)
  IN  [i \in 1..Cardinality(pairs) |->
         CHOOSE x \in pairs :
           Cardinality({y \in pairs : Nearer(clusters, previous, y, x)}) = i - 1]

(* A variant in which only one of the two clusters of a pair is taken.     *)
ClaimedBySome(clusters, previous) ==
  FoldLeft(LAMBDA claimed, pair :
             IF \E c \in claimed : c[1] = pair[1] THEN claimed ELSE claimed \cup {pair},
           {}, InReach(clusters, previous))

(* Each pair in that order is claimed unless one of its clusters is.       *)
Claimed(clusters, previous) ==
  FoldLeft(LAMBDA claimed, pair :
             IF \E c \in claimed : c[1] = pair[1] \/ c[2] = pair[2] THEN claimed
                                                                    ELSE claimed \cup {pair},
           {}, InReach(clusters, previous))

(* A cluster takes the lineage of the one it claims, or the next number.   *)
NewBefore(claimed, c) == Cardinality({b \in 1..(c - 1) : \A pair \in claimed : pair[1] # b})
Continued(clusters, previous, next) ==
  LET claimed == Claimed(clusters, previous) IN
  [c \in 1..Len(clusters) |->
    [centroid |-> clusters[c].centroid, radius |-> clusters[c].radius,
     id |-> IF \E pair \in claimed : pair[1] = c
            THEN previous[(CHOOSE pair \in claimed : pair[1] = c)[2]].id
            ELSE next + NewBefore(claimed, c)]]

(* build_lineages: the fits that have clusters, oldest first.              *)
Usable(fits) ==
  FoldLeft(LAMBDA kept, fit : IF fit = <<>> THEN kept ELSE Append(kept, fit), <<>>, fits)
Lineages(fits) ==
  LET used == Usable(fits)
      upTo[n \in 0..Len(used)] ==
        IF n = 0 THEN [rows |-> <<>>, next |-> 1]
        ELSE LET row == Continued(used[n], IF n = 1 THEN <<>> ELSE upTo[n - 1].rows[n - 1], upTo[n - 1].next)
             IN  [rows |-> Append(upTo[n - 1].rows, row),
                  next |-> Max({upTo[n - 1].next} \cup {row[c].id + 1 : c \in 1..Len(row)})]
  IN  IF Len(used) < 2 THEN <<>> ELSE upTo[Len(used)].rows
IdsOf(row) == {row[c].id : c \in 1..Len(row)}
Active(rows) == IdsOf(Last(rows))
Ended(rows) == (UNION {IdsOf(rows[n]) : n \in 1..Len(rows)}) \ Active(rows)
BornLast(rows) == IdsOf(Last(rows)) \ UNION {IdsOf(rows[n]) : n \in 1..(Len(rows) - 1)}

(* lineage_behavior: the risk of a lineage from its number of points, the  *)
(* signals that fired and the slope of its sizes.                          *)
Risk(points, minPoints, signals, rising) ==
  CASE points < minPoints -> "insufficient_history"
    [] points >= minPoints /\ signals # {} -> "elevated"
    [] points >= minPoints /\ signals = {} /\ rising -> "watch"
    [] OTHER -> "stable"

(* assign_vector: the nearest cluster, when the entity is within its       *)
(* radius (factor 1); clusters of equal distance are met in order.         *)
Nearest(clusters, x) ==
  CHOOSE c \in 1..Len(clusters) :
    \A d \in 1..Len(clusters) :
      \/ Apart(x, clusters[c].centroid) < Apart(x, clusters[d].centroid)
      \/ Apart(x, clusters[c].centroid) = Apart(x, clusters[d].centroid) /\ c <= d
AssignVector(clusters, x) ==
  IF clusters # <<>> /\ Apart(x, clusters[Nearest(clusters, x)].centroid)
                        <= 2 * clusters[Nearest(clusters, x)].radius
  THEN Nearest(clusters, x) ELSE Novel
-----------------------------------------------------------------------------
(* A matching is stable when no pair within reach was passed over for two  *)
(* worse ones: one of its clusters has a match at least as near.           *)
Stable(clusters, previous, claimed) ==
  /\ claimed \subseteq Pairs(clusters, previous)
  /\ \A x, y \in claimed : x[1] = y[1] \/ x[2] = y[2] => x = y
  /\ \A x \in Pairs(clusters, previous) \ claimed :
       \E y \in claimed : (y[1] = x[1] \/ y[2] = x[2]) /\ Nearer(clusters, previous, y, x)
=============================================================================
