-------------------------------- MODULE Heap --------------------------------
(***************************************************************************)
(* The operations of topK (internal/index/hot.go): a min-heap on score     *)
(* (container/heap over e) with an index pos beside it, so that an ordinal *)
(* offered again can be updated in place.  Heap positions count from 1.    *)
(***************************************************************************)
EXTENDS Shortlist, Sequences, SequencesExt

CONSTANT Ord        \* record ordinals

NewTopK == [e |-> <<>>, pos |-> [o \in {} |-> 0]]

SetPos(pos, o, i) == [p \in DOMAIN pos \cup {o} |-> IF p = o THEN i ELSE pos[p]]
Forget(pos, o) == [p \in DOMAIN pos \ {o} |-> pos[p]]

Less(h, i, j) == h.e[i].score < h.e[j].score

\* Mutant of Swap: the index is not told of the motion.
SwapEntriesOnly(h, i, j) == [h EXCEPT !.e[i] = h.e[j], !.e[j] = h.e[i]]

Exchanged(e, i, j) == [e EXCEPT ![i] = e[j], ![j] = e[i]]

Swap(h, i, j) ==
  LET e == Exchanged(h.e, i, j)
  IN [e |-> e, pos |-> SetPos(SetPos(h.pos, e[i].ord, i), e[j].ord, j)]

\* n turns of a loop that starts with x; a turn that has nothing to do changes nothing.
Turns(Turn(_), x, n) ==
  LET after[k \in 0..n] == IF k = 0 THEN x ELSE Turn(after[k - 1])
  IN after[n]

\* A turn of the sift towards the root: x.at is where the rising entry is.
UpTurn(x) ==
  LET i == x.at \div 2
  IN IF i = 0 \/ ~Less(x.h, x.at, i) THEN x ELSE [h |-> Swap(x.h, i, x.at), at |-> i]

\* container/heap: up.  Each turn moves the entry to a smaller position.
Up(h, j) == Turns(UpTurn, [h |-> h, at |-> j], j).h

\* The child that may rise to i: the right one only if it is the lesser.
Child(h, i) ==
  IF 2 * i + 1 <= Len(h.e) /\ Less(h, 2 * i + 1, 2 * i) THEN 2 * i + 1 ELSE 2 * i

\* A turn of the sift towards the leaves.
DownTurn(x) ==
  LET j == Child(x.h, x.at)
  IN IF j > Len(x.h.e) \/ ~Less(x.h, j, x.at) THEN x
     ELSE [h |-> Swap(x.h, x.at, j), at |-> j]

\* container/heap: down.  Each turn moves the entry to a larger position.
Down(h, i) == Turns(DownTurn, [h |-> h, at |-> i], Len(h.e)).h

\* container/heap: Fix, after the score at position i changed.
Fix(h, i) == LET d == Down(h, i) IN IF d # h THEN d ELSE Up(h, i)

\* container/heap: Push, with topK.Push.
HeapPush(h, c) ==
  LET n == Len(h.e) + 1
  IN Up([e |-> Append(h.e, c), pos |-> SetPos(h.pos, c.ord, n)], n)

Entry(o, s) == [ord |-> o, score |-> s]

\* Mutant of Added: one entry too many.
AddedPastK(h, o, s) ==
  IF o \notin DOMAIN h.pos /\ Len(h.e) <= K THEN HeapPush(h, Entry(o, s)) ELSE h

\* Mutant of Added: an entry whose score is raised stays where it was.
AddedUnfixed(h, o, s) ==
  IF o \in DOMAIN h.pos
  THEN LET i == h.pos[o]
       IN IF h.e[i].score < s THEN [h EXCEPT !.e[i].score = s] ELSE h
  ELSE IF Len(h.e) < K THEN HeapPush(h, Entry(o, s))
  ELSE IF s <= h.e[1].score THEN h
  ELSE Fix([e   |-> [h.e EXCEPT ![1] = Entry(o, s)],
            pos |-> SetPos(Forget(h.pos, h.e[1].ord), o, 1)], 1)

\* topK.add.
Added(h, o, s) ==
  IF o \in DOMAIN h.pos
  THEN LET i == h.pos[o]
       IN IF h.e[i].score < s THEN Fix([h EXCEPT !.e[i].score = s], i) ELSE h
  ELSE IF Len(h.e) < K THEN HeapPush(h, Entry(o, s))
  ELSE IF s <= h.e[1].score THEN h
  ELSE Fix([e   |-> [h.e EXCEPT ![1] = Entry(o, s)],
            pos |-> SetPos(Forget(h.pos, h.e[1].ord), o, 1)], 1)

\* Mutant of BeatsMin: min forgets that a list with room takes anything.
BeatsMinOfAny(h, s) == h.e = <<>> \/ s > h.e[1].score

\* topK.min, as collectHot uses it: would s be worth adding?
BeatsMin(h, s) == Len(h.e) < K \/ s > h.e[1].score

\* topK.drain: an insertion sort, which leaves equal scores in heap order.
LeftTurn(x) ==
  IF x.at > 1 /\ x.out[x.at].score > x.out[x.at - 1].score
  THEN [out |-> Exchanged(x.out, x.at, x.at - 1), at |-> x.at - 1]
  ELSE x

SiftLeft(out, j) == Turns(LeftTurn, [out |-> out, at |-> j], j).out

\* Mutant of Drain: the heap array as it stands.
DrainUnsorted(h) == h.e

Drain(h) ==
  LET out[i \in 0..Len(h.e)] == IF i = 0 THEN h.e ELSE SiftLeft(out[i - 1], i)
  IN out[Len(h.e)]
=============================================================================
