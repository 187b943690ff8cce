----------------------------- MODULE TopKProofs -----------------------------
(***************************************************************************)
(* Through any life of offers and resets, for any K, ordinals and scores,  *)
(* topK's heap and index are true and hold a best-K list of everything     *)
(* offered, because every step is one of the retention rule (HeapLemmas).  *)
(***************************************************************************)
EXTENDS TopK, HeapLemmas

\* What the list and the history are at every moment.
Inv ==
  /\ \E g, n : IsTopK(t, g, n)
  /\ DOMAIN best \in SUBSET Ord /\ IsFiniteSet(DOMAIN best)
  /\ best \in [DOMAIN best -> Score]
  /\ IsShortlist(best, HeldIn(t))

\* What Held reads off the heap is the function the heap holds.
LEMMA HeldIsHeldIn == Held = HeldIn(t)
BY DEF Held, ScoreOf, HeldIn

\* An offer, taken by the rule, keeps the invariant.
LEMMA TakesInv ==
  ASSUME Inv, NEW o \in Ord, NEW s \in Score,
         \A g, n : IsTopK(t, g, n) => \E f, m : IsTopK(t', f, m) /\ Takes(g, o, s, f),
         best' = Raised(best, o, s)
  PROVE  Inv' /\ Takes(HeldIn(t), o, s, HeldIn(t'))
<1>1. PICK g, n : IsTopK(t, g, n) BY DEF Inv
<1>2. PICK f, m : IsTopK(t', f, m) /\ Takes(g, o, s, f) BY <1>1
<1>3. HeldIn(t) = g BY <1>1, HoldsHeld
<1>4. HeldIn(t') = f BY <1>2, HoldsHeld
<1>5. best' = Risen(best, o, s) BY DEF Raised, SetPos, Risen, With
<1> DEFINE B == DOMAIN best
           A == DOMAIN g
<1>6. /\ best \in [B -> Score] /\ IsFiniteSet(B) /\ B \subseteq Ord
      /\ IsShortlist(best, g)
  BY <1>3 DEF Inv
<1>7. A \in SUBSET B /\ g \in [A -> Score]
  BY <1>1, <1>6 DEF IsShortlist, IsTopK
<1> HIDE DEF A, B
<1>8. IsShortlist(best', f)
  BY <1>2, <1>5, <1>6, <1>7, TakesKeeps
<1>9. IsRaise(B, best, o, s, best') BY <1>5, <1>6, RisenType
<1>10. best' \in [B \cup {o} -> Score] /\ DOMAIN best' = B \cup {o}
  BY <1>9 DEF IsRaise
<1>11. IsFiniteSet(B \cup {o}) /\ B \cup {o} \subseteq Ord
  BY <1>6, FS_AddElement
<1>12. Inv' BY <1>2, <1>4, <1>8, <1>10, <1>11 DEF Inv
<1> QED BY <1>2, <1>3, <1>4, <1>12

\* The two ways of offering an entry.
LEMMA AddInv ==
  ASSUME Inv, NEW o \in Ord, NEW s \in Score, Add(o, s) \/ Offer(o, s)
  PROVE  /\ Inv' /\ Takes(HeldIn(t), o, s, HeldIn(t'))
         /\ best' = Raised(best, o, s)
<1>1. best' = Raised(best, o, s) BY DEF Add, Offer
<1>2. ASSUME NEW g, NEW n, IsTopK(t, g, n)
      PROVE  \E f, m : IsTopK(t', f, m) /\ Takes(g, o, s, f)
  <2>1. CASE Add(o, s)
    <3>1. t' = Added(t, o, s) BY <2>1 DEF Add
    <3> QED BY <1>2, <3>1, AddedTakes
  <2>2. CASE Offer(o, s)
    <3>1. t' = IF BeatsMin(t, s) THEN Added(t, o, s) ELSE t BY <2>2 DEF Offer
    <3> QED BY <1>2, <3>1, OfferedTakes
  <2> QED BY <2>1, <2>2
<1>3. Inv' /\ Takes(HeldIn(t), o, s, HeldIn(t')) BY <1>1, <1>2, TakesInv
<1> QED BY <1>1, <1>3

\* The empty list satisfies the invariant (newTopK).
LEMMA InitInv == Init => Inv
<1> SUFFICES ASSUME Init PROVE Inv OBVIOUS
<1>1. t = NewTopK /\ best = [o \in {} |-> 0] BY DEF Init
<1>2. PICK h : h = t OBVIOUS
<1>3. PICK b : b = best OBVIOUS
<1>4. /\ IsTopK(h, b, 0) /\ HeldIn(h) = b
      /\ IsFiniteSet(DOMAIN b) /\ IsShortlist(b, b)
  BY <1>1, <1>2, <1>3, EmptyTopK
<1>5. DOMAIN b = {} /\ b \in [{} -> Score] BY <1>1, <1>3
<1> QED BY <1>2, <1>3, <1>4, <1>5 DEF Inv

\* The invariant is inductive.
LEMMA NextInv == Inv /\ [Next]_vars => Inv'
<1> SUFFICES ASSUME Inv, [Next]_vars PROVE Inv' OBVIOUS
<1>1. CASE Reset
  <2>1. t' = NewTopK /\ best' = [o \in {} |-> 0] BY <1>1 DEF Reset
  <2>2. PICK h : h = t' OBVIOUS
  <2>3. PICK b : b = best' OBVIOUS
  <2>4. /\ IsTopK(h, b, 0) /\ HeldIn(h) = b
        /\ IsFiniteSet(DOMAIN b) /\ IsShortlist(b, b)
    BY <2>1, <2>2, <2>3, EmptyTopK
  <2>5. DOMAIN b = {} /\ b \in [{} -> Score] BY <2>1, <2>3
  <2> QED BY <2>2, <2>3, <2>4, <2>5 DEF Inv
<1>2. ASSUME NEW o \in Ord, NEW s \in Score, Add(o, s) \/ Offer(o, s) PROVE Inv'
  BY <1>2, AddInv
<1>3. CASE UNCHANGED vars
  BY <1>3 DEF vars, Inv
<1> QED BY <1>1, <1>2, <1>3 DEF Next

-----------------------------------------------------------------------------
\* The entries as a sequence and the index as a function.
LEMMA InvLists ==
  ASSUME Inv
  PROVE  \E g, n : /\ n \in Nat /\ n <= K /\ DOMAIN g \subseteq Ord
                   /\ t \in Lists(g, n) /\ Heaped(Scores(t.e, n), n)
                   /\ t.e \in [1..n -> Cand] /\ t.e \in Seq(Cand)
                   /\ Len(t.e) = n /\ DOMAIN t.e = 1..n
                   /\ DOMAIN t.pos = DOMAIN g /\ t.pos \in [DOMAIN g -> 1..n]
<1>1. PICK g, n : IsTopK(t, g, n) BY DEF Inv
<1>2. /\ n \in Nat /\ n <= K /\ DOMAIN g \subseteq Ord
      /\ t \in Lists(g, n) /\ Heaped(Scores(t.e, n), n)
  BY <1>1, KAssumption DEF IsTopK
<1>3. t.e \in [1..n -> Cand] /\ t.pos \in [DOMAIN g -> 1..n]
  BY <1>2 DEF Lists
<1>4. t.e \in Seq(Cand) /\ Len(t.e) = n /\ DOMAIN t.e = 1..n
  BY <1>2, <1>3, AsSequence
<1> QED BY <1>2, <1>3, <1>4

\* No more than K candidates, each in range, with an index of its ordinals.
LEMMA InvTypeOK == Inv => TopKTypeOK
<1> SUFFICES ASSUME Inv PROVE TopKTypeOK OBVIOUS
<1>1. PICK g, n : /\ n \in Nat /\ n <= K /\ DOMAIN g \subseteq Ord
                  /\ t.e \in Seq(Cand)
                  /\ DOMAIN t.pos = DOMAIN g /\ t.pos \in [DOMAIN g -> 1..n]
  BY InvLists
<1>2. t.pos \in [DOMAIN t.pos -> 1..K]
  <2>1. \A k \in 1..n : k \in 1..K BY <1>1, KAssumption
  <2> QED BY <1>1, <2>1
<1> QED BY <1>1, <1>2 DEF TopKTypeOK, Cand

\* The index says where each ordinal is.
LEMMA InvPosIsInverse == Inv => PosIsInverse
<1> SUFFICES ASSUME Inv PROVE PosIsInverse OBVIOUS
<1>1. PICK g, n : t \in Lists(g, n) /\ DOMAIN t.e = 1..n /\ DOMAIN t.pos = DOMAIN g
  BY InvLists
<1>2. /\ \A k \in 1..n : t.e[k].ord \in DOMAIN g /\ t.pos[t.e[k].ord] = k
      /\ \A o \in DOMAIN g : t.pos[o] \in 1..n /\ t.e[t.pos[o]].ord = o
  BY <1>1 DEF Lists
<1>3. {t.e[i].ord : i \in DOMAIN t.e} \subseteq DOMAIN g BY <1>1, <1>2
<1>4. \A o \in DOMAIN g : o \in {t.e[i].ord : i \in DOMAIN t.e} BY <1>1, <1>2
<1> QED BY <1>1, <1>2, <1>3, <1>4 DEF PosIsInverse

\* No entry has a higher score than its children.
LEMMA InvHeapOrder == Inv => HeapOrder
<1> SUFFICES ASSUME Inv PROVE HeapOrder OBVIOUS
<1>1. PICK g, n : /\ n \in Nat /\ t.e \in [1..n -> Cand] /\ Len(t.e) = n
                  /\ Heaped(Scores(t.e, n), n)
  BY InvLists
<1>2. \A k \in 1..n : Scores(t.e, n)[k] = t.e[k].score BY <1>1, ScoresType
<1>3. ASSUME NEW k \in 2..n PROVE t.e[k \div 2].score <= t.e[k].score
  <2>1. k \in 1..n /\ k \div 2 \in 1..n BY <1>1, Half
  <2>2. Scores(t.e, n)[k \div 2] <= Scores(t.e, n)[k] BY <1>1 DEF Heaped
  <2> QED BY <1>2, <2>1, <2>2
<1> QED BY <1>1, <1>3 DEF HeapOrder

\* drain returns the entries, best first.
LEMMA InvDrains == Inv => DrainsBestFirst
<1> SUFFICES ASSUME Inv PROVE DrainsBestFirst OBVIOUS
<1>1. PICK g, n : /\ n \in Nat /\ t.e \in [1..n -> Cand] /\ Len(t.e) = n
                  /\ DOMAIN t.e = 1..n
  BY InvLists
<1>2. PICK h : h = t OBVIOUS
<1>3. Drained(Drain(h), h.e, n, n) BY <1>1, <1>2, DrainOrders
<1> DEFINE out == Drain(t)
<1>4. /\ out \in [1..n -> Cand] /\ Entries(out, n) = Entries(t.e, n)
      /\ Falling(Scores(out, n), n)
  BY <1>2, <1>3 DEF Drained
<1> HIDE DEF out
<1>5. Len(out) = n /\ DOMAIN out = 1..n BY <1>1, <1>4, AsSequence
<1>6. \A k \in 1..n : Scores(out, n)[k] = out[k].score BY <1>1, <1>4, ScoresType
<1>7. ASSUME NEW k \in 2..n PROVE out[k].score <= out[k - 1].score
  <2>1. k \in 1..n /\ k - 1 \in 1..n BY <1>1
  <2>2. Scores(out, n)[k] <= Scores(out, n)[k - 1] BY <1>4 DEF Falling
  <2> QED BY <1>6, <2>1, <2>2
<1>8. ToSet(out) = Entries(out, n) /\ ToSet(t.e) = Entries(t.e, n)
  BY <1>1, <1>5 DEF ToSet, Entries
<1> QED BY <1>1, <1>4, <1>5, <1>7, <1>8 DEF DrainsBestFirst, out

\* topK's entries and index have the types the code gives them.
THEOREM TopKTypeCorrect == Spec => []TopKTypeOK
BY InitInv, NextInv, InvTypeOK, PTL DEF Spec

\* The index says where each ordinal is, after every motion of the heap, for
\* every K, every set of ordinals and every set of scores.
THEOREM TopKPosIsInverse == Spec => []PosIsInverse
BY InitInv, NextInv, InvPosIsInverse, PTL DEF Spec

\* add, with container/heap's Push and Fix, keeps the heap in order.
THEOREM TopKHeapOrder == Spec => []HeapOrder
BY InitInv, NextInv, InvHeapOrder, PTL DEF Spec

\* drain lists the entries best first.
THEOREM TopKDrainsBestFirst == Spec => []DrainsBestFirst
BY InitInv, NextInv, InvDrains, PTL DEF Spec

\* The heap and its index keep a best-K list of everything offered.
THEOREM TopKKeepsTheBest == Spec => []KeepsTheBest
<1>1. Inv => KeepsTheBest BY HeldIsHeldIn DEF Inv, KeepsTheBest
<1> QED BY InitInv, NextInv, <1>1, PTL DEF Spec

\* Seen as what it holds, the heap follows the retention rule step by step:
\* with RetentionImplementsBestK, hot.go's topK does what its comment says.
THEOREM TopKFollowsRetention == Spec => FollowsRetention
<1>1. Init => R!Init
  <2> SUFFICES ASSUME Init PROVE R!Init OBVIOUS
  <2>1. t = NewTopK /\ best = [o \in {} |-> 0] BY DEF Init
  <2>2. PICK h : h = t OBVIOUS
  <2>3. PICK b : b = best OBVIOUS
  <2>4. HeldIn(h) = b BY <2>1, <2>2, <2>3, EmptyTopK
  <2> QED BY <2>1, <2>2, <2>3, <2>4, HeldIsHeldIn DEF R!Init, R!Empty
<1>2. \A S : R!Cardinality(S) = Cardinality(S) BY DEF R!Cardinality, Cardinality
<1>3. Held' = HeldIn(t') BY DEF Held, ScoreOf, HeldIn
<1>4. Inv /\ [Next]_vars => [R!RNext]_(R!vars)
  <2> SUFFICES ASSUME Inv, [Next]_vars PROVE [R!RNext]_(R!vars) OBVIOUS
  <2>1. CASE Reset
    <3>1. t' = NewTopK /\ best' = [o \in {} |-> 0] BY <2>1 DEF Reset
    <3>2. PICK h : h = t' OBVIOUS
    <3>3. PICK b : b = best' OBVIOUS
    <3>4. HeldIn(h) = b BY <3>1, <3>2, <3>3, EmptyTopK
    <3>5. R!Reset BY <1>3, <3>1, <3>2, <3>3, <3>4 DEF R!Reset, R!Empty
    <3> QED BY <3>5 DEF R!RNext
  <2>2. ASSUME NEW o \in Ord, NEW s \in Score, Add(o, s) \/ Offer(o, s)
        PROVE  R!RNext
    <3>1. Takes(Held, o, s, Held') /\ best' = Raised(best, o, s)
      BY <1>3, <2>2, AddInv, HeldIsHeldIn
    <3>2. best' = R!Raised(best, o, s) BY <3>1 DEF Raised, SetPos, R!Raised, R!Put
    <3>3. Cardinality(DOMAIN Held) \in Nat /\ K \in Nat
      BY HoldsHeld, HeldIsHeldIn, KAssumption DEF Inv, IsTopK
    <3>4. \A p \in DOMAIN Held : IsCheapest(Held, p) => p \in R!Cheapest
      BY DEF IsCheapest, R!Cheapest
    <3>5. \A p \in R!Cheapest : p \in DOMAIN Held /\ IsCheapest(Held, p)
      BY DEF IsCheapest, R!Cheapest
    <3>6. CASE o \in DOMAIN Held /\ Held' = Risen(Held, o, s)
      <4>1. R!Repeat(o, s) BY <3>6 DEF R!Repeat, R!Raised, R!Put, Risen, With
      <4> QED BY <3>2, <4>1 DEF R!Add, R!RNext
    <3>7. CASE /\ o \notin DOMAIN Held /\ Cardinality(DOMAIN Held) < K
               /\ Held' = With(Held, o, s)
      <4>1. R!Fill(o, s)
        BY <1>2, <3>3, <3>7 DEF R!Fill, R!Full, R!Put, With
      <4> QED BY <3>2, <4>1 DEF R!Add, R!RNext
    <3>8. CASE /\ o \notin DOMAIN Held /\ Cardinality(DOMAIN Held) >= K
               /\ \A p \in DOMAIN Held : IsCheapest(Held, p) => s <= Held[p]
               /\ Held' = Held
      <4>1. R!Reject(o, s)
        BY <1>2, <3>5, <3>8 DEF R!Reject, R!Full
      <4> QED BY <3>2, <4>1 DEF R!Add, R!RNext
    <3>9. CASE /\ o \notin DOMAIN Held /\ Cardinality(DOMAIN Held) >= K
               /\ \E p \in DOMAIN Held :
                    /\ IsCheapest(Held, p) /\ s > Held[p]
                    /\ Held' = With([q \in DOMAIN Held \ {p} |-> Held[q]], o, s)
      <4>1. R!Evict(o, s)
        BY <1>2, <3>4, <3>9 DEF R!Evict, R!Full, R!Put, With
      <4> QED BY <3>2, <4>1 DEF R!Add, R!RNext
    <3> QED BY <3>1, <3>6, <3>7, <3>8, <3>9 DEF Takes
  <2>3. CASE UNCHANGED vars
    <3>1. Held' = Held BY <1>3, <2>3, HeldIsHeldIn DEF vars
    <3> QED BY <2>3, <3>1 DEF vars, R!vars
  <2> QED BY <2>1, <2>2, <2>3 DEF Next
<1> QED BY InitInv, NextInv, <1>1, <1>4, PTL DEF Spec, FollowsRetention, R!RSpec
=============================================================================
