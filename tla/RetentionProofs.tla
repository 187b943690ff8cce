-------------------------- MODULE RetentionProofs --------------------------
(***************************************************************************)
(* The retention rule of topK.add keeps a best-K list, for every K.        *)
(***************************************************************************)
EXTENDS Retention, ShortlistLemmas

\* The state the inductive argument runs on.
Inv == TypeOK /\ KeepsTheBest

\* The initial state satisfies the invariant.
LEMMA InitInv == Init => Inv
<1> SUFFICES ASSUME Init PROVE Inv OBVIOUS
<1>1. /\ DOMAIN best = {} /\ DOMAIN held = {}
      /\ best \in [{} -> Score] /\ held \in [{} -> Score]
  BY DEF Init, Empty
<1>2. IsFiniteSet({}) /\ Cardinality({}) = 0
  BY FS_EmptySet
<1> QED BY <1>1, <1>2, KAssumption DEF Inv, TypeOK, KeepsTheBest, IsShortlist

\* Resetting reaches the initial state again.
LEMMA ResetInv == Reset => Inv'
<1> SUFFICES ASSUME Reset PROVE Inv' OBVIOUS
<1>1. /\ DOMAIN best' = {} /\ DOMAIN held' = {}
      /\ best' \in [{} -> Score] /\ held' \in [{} -> Score]
  BY DEF Reset, Empty
<1>2. IsFiniteSet({}) /\ Cardinality({}) = 0
  BY FS_EmptySet
<1> QED BY <1>1, <1>2, KAssumption DEF Inv, TypeOK, KeepsTheBest, IsShortlist

\* The disjuncts of Add are the branches of the rule.
LEMMA AddTakes ==
  ASSUME Inv, NEW o \in Ord, NEW s \in Score, Add(o, s)
  PROVE  Takes(held, o, s, held') /\ best' = Risen(best, o, s)
<1>1. best' = Risen(best, o, s) BY DEF Add, Raised, Put, Risen, With
<1>2. \A p \in DOMAIN held : IsCheapest(held, p) <=> p \in Cheapest
  BY DEF IsCheapest, Cheapest
<1>3. Cardinality(DOMAIN held) \in Nat /\ K \in Nat
  BY FS_Subset, FS_CardinalityType, KAssumption DEF Inv, TypeOK
<1>4. CASE Repeat(o, s)
  BY <1>1, <1>4 DEF Repeat, Raised, Put, Takes, Risen, With
<1>5. CASE Fill(o, s)
  BY <1>1, <1>3, <1>5 DEF Fill, Full, Put, Takes, With
<1>6. CASE Reject(o, s)
  BY <1>1, <1>2, <1>6 DEF Reject, Full, Takes
<1>7. CASE Evict(o, s)
  <2>1. PICK p \in Cheapest :
          s > held[p] /\ held' = Put([q \in DOMAIN held \ {p} |-> held[q]], o, s)
    BY <1>7 DEF Evict
  <2>2. p \in DOMAIN held /\ IsCheapest(held, p) BY <1>2 DEF Cheapest
  <2>3. held' = With([q \in DOMAIN held \ {p} |-> held[q]], o, s)
    BY <2>1 DEF Put, With
  <2> QED BY <1>1, <1>7, <2>1, <2>2, <2>3 DEF Evict, Full, Takes
<1> QED BY <1>4, <1>5, <1>6, <1>7 DEF Add

\* Every branch of topK.add keeps a best-K list a best-K list.
LEMMA AddInv ==
  ASSUME Inv, NEW o \in Ord, NEW s \in Score, Add(o, s)
  PROVE  Inv'
<1> DEFINE B == DOMAIN best
           D == DOMAIN held
<1>1. /\ best \in [B -> Score] /\ IsFiniteSet(B) /\ B \subseteq Ord
      /\ D \in SUBSET B /\ held \in [D -> Score]
      /\ IsShortlist(best, held)
  BY DEF Inv, TypeOK, KeepsTheBest
<1>2. Takes(held, o, s, held') /\ best' = Risen(best, o, s) BY AddTakes
<1> HIDE DEF B, D
<1>3. /\ DOMAIN held' \subseteq B \cup {o} /\ held' \in [DOMAIN held' -> Score]
      /\ IsShortlist(best', held')
  BY <1>1, <1>2, TakesKeeps
<1>4. IsRaise(B, best, o, s, best') BY <1>1, <1>2, RisenType
<1>5. DOMAIN best' = B \cup {o} /\ best' \in [B \cup {o} -> Score]
  BY <1>4 DEF IsRaise
<1>6. IsFiniteSet(B \cup {o}) BY <1>1, FS_AddElement
<1> QED BY <1>1, <1>3, <1>5, <1>6 DEF Inv, TypeOK, KeepsTheBest

\* The invariant is inductive.
LEMMA NextInv == Inv /\ [RNext]_vars => Inv'
<1> SUFFICES ASSUME Inv, [RNext]_vars PROVE Inv' OBVIOUS
<1>1. CASE Reset BY <1>1, ResetInv
<1>2. ASSUME NEW o \in Ord, NEW s \in Score, Add(o, s) PROVE Inv'
  BY <1>2, AddInv
<1>3. CASE UNCHANGED vars
  BY <1>3 DEF vars, Inv, TypeOK, KeepsTheBest, IsShortlist
<1> QED BY <1>1, <1>2, <1>3 DEF RNext

\* The functions topK works on stay functions from ordinals to scores.
THEOREM RetentionTypeCorrect == RSpec => []TypeOK
<1>1. Inv => TypeOK BY DEF Inv
<1> QED BY InitInv, NextInv, <1>1, PTL DEF RSpec

\* topK keeps a best-K list at every moment, whatever it is offered and in
\* whatever order.
THEOREM RetentionKeepsTheBest == RSpec => []KeepsTheBest
<1>1. Inv => KeepsTheBest BY DEF Inv
<1> QED BY InitInv, NextInv, <1>1, PTL DEF RSpec

\* The eviction rule of topK.add implements the promise of its comment.
THEOREM RetentionImplementsBestK == RSpec => Spec
<1>1. Inv /\ Inv' /\ [RNext]_vars => [Next]_vars
  <2> SUFFICES ASSUME Inv', RNext PROVE Next
    BY DEF Next
  <2>1. CASE Reset BY <2>1 DEF Next
  <2>2. ASSUME NEW o \in Ord, NEW s \in Score, Add(o, s) PROVE Next
    <3>1. best' = Raised(best, o, s) BY <2>2 DEF Add
    <3>2. IsShortlist(best', held') BY DEF Inv, KeepsTheBest
    <3>3. /\ DOMAIN held' \in SUBSET DOMAIN best'
          /\ held' = [p \in DOMAIN held' |-> best'[p]]
      BY <3>2 DEF Inv, TypeOK, IsShortlist
    <3> QED BY <3>1, <3>2, <3>3 DEF Next, Offer
  <2> QED BY <2>1, <2>2 DEF RNext
<1> QED BY InitInv, NextInv, <1>1, PTL DEF RSpec, Spec
=============================================================================
