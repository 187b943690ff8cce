----------------------------- MODULE Retention -----------------------------
(***************************************************************************)
(* The rule by which topK.add (internal/index/hot.go) decides which K      *)
(* entries to keep, with the heap abstracted to the function it holds.     *)
(* TopK refines this module; this module implements BestK, which is proved *)
(* in RetentionProofs for every K, set of ordinals and set of scores.      *)
(***************************************************************************)
EXTENDS BestK

Full == Cardinality(DOMAIN held) >= K

\* The entries that could sit at the root of the min-heap.
Cheapest == {p \in DOMAIN held : \A q \in DOMAIN held : held[p] <= held[q]}

\* The ordinal is on the list: its score only ever rises.
Repeat(o, s) ==
  /\ o \in DOMAIN held
  /\ held' = Raised(held, o, s)

\* There is room.
Fill(o, s) ==
  /\ o \notin DOMAIN held
  /\ ~Full
  /\ held' = Put(held, o, s)

\* A full list ignores what does not beat its cheapest entry ...
Reject(o, s) ==
  /\ o \notin DOMAIN held
  /\ Full
  /\ \A p \in Cheapest : s <= held[p]
  /\ UNCHANGED held

\* ... and gives that entry's place to what does.
Evict(o, s) ==
  /\ o \notin DOMAIN held
  /\ Full
  /\ \E p \in Cheapest :
       /\ s > held[p]
       /\ held' = Put([q \in DOMAIN held \ {p} |-> held[q]], o, s)

Add(o, s) ==
  /\ best' = Raised(best, o, s)
  /\ Repeat(o, s) \/ Fill(o, s) \/ Reject(o, s) \/ Evict(o, s)

RNext == Reset \/ \E o \in Ord, s \in Score : Add(o, s)

RSpec == Init /\ [][RNext]_vars

-----------------------------------------------------------------------------
TypeOK ==
  /\ DOMAIN best \in SUBSET Ord /\ IsFiniteSet(DOMAIN best)
  /\ best \in [DOMAIN best -> Score]
  /\ DOMAIN held \in SUBSET DOMAIN best
  /\ held \in [DOMAIN held -> Score]

\* What is kept is a best-K list of everything offered: no ordinal left out or
\* thrown away on the way beats one that is kept, and no kept score is an
\* outdated one (topK.add).
KeepsTheBest == IsShortlist(best, held)
=============================================================================
