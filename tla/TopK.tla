-------------------------------- MODULE TopK --------------------------------
(***************************************************************************)
(* topK of internal/index/hot.go through a life of offers and resets.  The *)
(* heap refines Retention, which implements BestK for every K.             *)
(***************************************************************************)
EXTENDS Heap

VARIABLES t,        \* the list: [e |-> Seq of [ord, score], pos |-> ordinal -> position]
          best      \* history: ordinal -> highest score offered since the last reset

vars == <<t, best>>

Raised(f, o, s) == IF o \in DOMAIN f /\ f[o] >= s THEN f ELSE SetPos(f, o, s)

-----------------------------------------------------------------------------
Init == t = NewTopK /\ best = [o \in {} |-> 0]

\* topK.add, as hot_test.go calls it.
Add(o, s) ==
  /\ t' = Added(t, o, s)
  /\ best' = Raised(best, o, s)

\* topK.add behind the guard collectHot puts before it.
Offer(o, s) ==
  /\ t' = IF BeatsMin(t, s) THEN Added(t, o, s) ELSE t
  /\ best' = Raised(best, o, s)

\* topK.reset, when a prefix has ended.
Reset == t' = NewTopK /\ best' = [o \in {} |-> 0]

Next == Reset \/ \E o \in Ord, s \in Score : Add(o, s) \/ Offer(o, s)

Spec == Init /\ [][Next]_vars

-----------------------------------------------------------------------------
TopKTypeOK ==
  /\ t.e \in Seq([ord : Ord, score : Score])
  /\ t.pos \in [DOMAIN t.pos -> 1..K]
  /\ DOMAIN t.pos \subseteq Ord

\* The index survives every motion of the heap: pos says where each ordinal on
\* the list is, and lists no other (topK.Swap, Push and the eviction in add).
\* A stale position would raise another record's score.
PosIsInverse ==
  /\ DOMAIN t.pos = {t.e[i].ord : i \in DOMAIN t.e}
  /\ \A i \in DOMAIN t.e : t.pos[t.e[i].ord] = i

\* No entry scores less than the one above it, so that e[1], which add evicts
\* and min reports, is the cheapest.
HeapOrder == \A i \in 2..Len(t.e) : t.e[i \div 2].score <= t.e[i].score

\* drain lists every entry, best first.
DrainsBestFirst ==
  LET out == Drain(t)
  IN /\ ToSet(out) = ToSet(t.e) /\ Len(out) = Len(t.e)
     /\ \A i \in 2..Len(out) : out[i].score <= out[i - 1].score

ScoreOf(o) == t.e[CHOOSE i \in DOMAIN t.e : t.e[i].ord = o].score
Held == [o \in {t.e[i].ord : i \in DOMAIN t.e} |-> ScoreOf(o)]
R == INSTANCE Retention WITH held <- Held

\* Seen as the function from ordinals to scores it holds, the heap follows the
\* retention rule, and so keeps the best K of what it was offered; the guard
\* collectHot puts before add turns away nothing that add would have kept.
FollowsRetention == R!RSpec

\* What the list holds is a best-K list of everything offered since the last
\* reset: nothing evicted or turned away on the way beats an entry, and no entry
\* has an outdated score (add, on the heap and index themselves).
KeepsTheBest == IsShortlist(best, Held)
=============================================================================
