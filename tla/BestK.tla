------------------------------- MODULE BestK -------------------------------
(***************************************************************************)
(* What a hot prefix's shortlist promises (internal/index/hot.go, the      *)
(* comment of topK): of everything offered for one prefix it keeps the     *)
(* best K records, each with its highest score.  How ties are broken is    *)
(* left open, as the comment leaves it.                                    *)
(***************************************************************************)
EXTENDS Shortlist

CONSTANT Ord        \* record ordinals

VARIABLES best,     \* ordinal -> highest score offered so far
          held      \* ordinal -> score, the entries kept

vars == <<best, held>>

Empty == [o \in {} |-> 0]

\* f with o set to s.
Put(f, o, s) == [p \in DOMAIN f \cup {o} |-> IF p = o THEN s ELSE f[p]]

\* f after o is offered with s: the higher score stays.
Raised(f, o, s) == IF o \in DOMAIN f /\ f[o] >= s THEN f ELSE Put(f, o, s)

Init == best = Empty /\ held = Empty

Offer(o, s) ==
  /\ best' = Raised(best, o, s)
  /\ \E S \in SUBSET DOMAIN best' : held' = [p \in S |-> best'[p]]
  /\ IsShortlist(best', held')

Reset == best' = Empty /\ held' = Empty

Next == Reset \/ \E o \in Ord, s \in Score : Offer(o, s)

Spec == Init /\ [][Next]_vars
=============================================================================
