----------------------------- MODULE HeapLemmas -----------------------------
(***************************************************************************)
(* The heap of topK with its index, for any K, ordinals and scores: the    *)
(* sifts keep the heap and the index true, drain sorts, and add takes an   *)
(* offer as the retention rule says.                                       *)
(*                                                                         *)
(* The sifts are loops.  Each is followed turn by turn: what is known of   *)
(* the entry on its way (Rising, Sinking, Misplaced) holds after every     *)
(* turn, and when a turn changes nothing the list is in order again.       *)
(***************************************************************************)
EXTENDS Heap, ShortlistLemmas

Cand == [ord : Ord, score : Score]

\* The lists of n entries that hold g, a function from ordinals to scores.
Lists(g, n) ==
  {h \in [e : [1..n -> Cand], pos : [DOMAIN g -> 1..n]] :
     /\ \A i \in 1..n : /\ h.e[i].ord \in DOMAIN g
                        /\ h.e[i].score = g[h.e[i].ord]
                        /\ h.pos[h.e[i].ord] = i
     /\ \A o \in DOMAIN g : h.e[h.pos[o]].ord = o}

\* The scores along a list.
Scores(e, n) == [i \in 1..n |-> e[i].score]

\* Halving a position.
LEMMA Half ==
  ASSUME NEW k \in Nat
  PROVE  /\ k \div 2 \in Nat
         /\ 2 * (k \div 2) <= k /\ k <= 2 * (k \div 2) + 1
         /\ k > 0 => k \div 2 < k
OBVIOUS

\* A function on 1..n is a sequence of length n.
LEMMA AsSequence ==
  ASSUME NEW S, NEW n \in Nat, NEW e \in [1..n -> S]
  PROVE  e \in Seq(S) /\ Len(e) = n /\ DOMAIN e = 1..n
<1>1. e \in Seq(S) /\ DOMAIN e = 1..n OBVIOUS
<1>2. Len(e) \in Nat /\ DOMAIN e = 1..Len(e) BY <1>1
<1> QED BY <1>1, <1>2

\* Exchanging two entries, with the index told, leaves a list that holds g.
LEMMA SwapLists ==
  ASSUME NEW g, NEW n \in Nat, NEW h \in Lists(g, n),
         NEW i \in 1..n, NEW j \in 1..n, i # j
  PROVE  /\ Swap(h, i, j) \in Lists(g, n)
         /\ Swap(h, i, j).e = Exchanged(h.e, i, j)
<1> DEFINE e == Exchanged(h.e, i, j)
           pos == SetPos(SetPos(h.pos, e[i].ord, i), e[j].ord, j)
<1>1. /\ h = [e |-> h.e, pos |-> h.pos]
      /\ h.e \in [1..n -> Cand] /\ h.pos \in [DOMAIN g -> 1..n]
      /\ \A k \in 1..n : /\ h.e[k].ord \in DOMAIN g
                         /\ h.e[k].score = g[h.e[k].ord]
                         /\ h.pos[h.e[k].ord] = k
      /\ \A o \in DOMAIN g : h.e[h.pos[o]].ord = o
  BY DEF Lists
<1>2. /\ e \in [1..n -> Cand] /\ e[i] = h.e[j] /\ e[j] = h.e[i]
      /\ \A k \in 1..n \ {i, j} : e[k] = h.e[k]
  <2>1. h.e \in [1..n -> Cand] BY <1>1
  <2>2. e = [k \in 1..n |-> IF k = j THEN h.e[i] ELSE IF k = i THEN h.e[j] ELSE h.e[k]]
    BY <2>1 DEF Exchanged
  <2>3. h.e[i] \in Cand /\ h.e[j] \in Cand BY <2>1
  <2> HIDE DEF e
  <2>4. e \in [1..n -> Cand] BY <2>1, <2>2, <2>3
  <2>5. e[i] = h.e[j] /\ e[j] = h.e[i] BY <2>2
  <2> QED BY <2>2, <2>4, <2>5
<1>3. Swap(h, i, j) = [e |-> e, pos |-> pos] BY DEF Swap
<1> HIDE DEF e
<1>4. h.e[i].ord \in DOMAIN g /\ h.e[j].ord \in DOMAIN g /\ h.e[i].ord # h.e[j].ord
  BY <1>1
<1>5. pos = [o \in DOMAIN g |->
               IF o = h.e[i].ord THEN j ELSE IF o = h.e[j].ord THEN i ELSE h.pos[o]]
  <2>1. DOMAIN h.pos = DOMAIN g BY <1>1
  <2>2. e[i].ord = h.e[j].ord /\ e[j].ord = h.e[i].ord BY <1>2
  <2>3. DOMAIN h.pos \cup {h.e[j].ord} = DOMAIN g /\ DOMAIN g \cup {h.e[i].ord} = DOMAIN g
    BY <1>4, <2>1
  <2>4. SetPos(h.pos, h.e[j].ord, i) =
          [o \in DOMAIN g |-> IF o = h.e[j].ord THEN i ELSE h.pos[o]]
    BY <2>3 DEF SetPos
  <2>5. pos = SetPos(SetPos(h.pos, h.e[j].ord, i), h.e[i].ord, j) BY <2>2
  <2> HIDE DEF pos
  <2> QED BY <2>3, <2>4, <2>5 DEF SetPos
<1> HIDE DEF pos
<1>6. pos \in [DOMAIN g -> 1..n] BY <1>1, <1>5
<1>7. ASSUME NEW k \in 1..n
      PROVE  e[k].ord \in DOMAIN g /\ e[k].score = g[e[k].ord] /\ pos[e[k].ord] = k
  <2>1. CASE k = i
    <3>1. e[k] = h.e[j] BY <1>2, <2>1
    <3>2. pos[h.e[j].ord] = i BY <1>4, <1>5
    <3> QED BY <1>1, <2>1, <3>1, <3>2
  <2>2. CASE k = j
    <3>1. e[k] = h.e[i] BY <1>2, <2>2
    <3>2. pos[h.e[i].ord] = j BY <1>4, <1>5
    <3> QED BY <1>1, <2>2, <3>1, <3>2
  <2>3. CASE k # i /\ k # j
    <3>1. e[k] = h.e[k] BY <1>2, <2>3
    <3>2. h.e[k].ord # h.e[i].ord /\ h.e[k].ord # h.e[j].ord
      <4>1. h.pos[h.e[k].ord] = k /\ h.pos[h.e[i].ord] = i /\ h.pos[h.e[j].ord] = j BY <1>1
      <4> QED BY <2>3, <4>1
    <3>3. pos[h.e[k].ord] = h.pos[h.e[k].ord] BY <1>1, <1>5, <3>2
    <3> QED BY <1>1, <3>1, <3>3
  <2> QED BY <2>1, <2>2, <2>3
<1>8. ASSUME NEW o \in DOMAIN g PROVE e[pos[o]].ord = o
  <2>1. CASE o = h.e[i].ord BY <1>2, <1>5, <2>1
  <2>2. CASE o = h.e[j].ord BY <1>2, <1>4, <1>5, <2>2
  <2>3. CASE o # h.e[i].ord /\ o # h.e[j].ord
    <3>1. pos[o] = h.pos[o] BY <1>5, <2>3
    <3>2. h.pos[o] \in 1..n /\ h.e[h.pos[o]].ord = o BY <1>1
    <3>3. h.pos[o] # i /\ h.pos[o] # j BY <2>3, <3>2
    <3>4. e[h.pos[o]] = h.e[h.pos[o]] BY <1>2, <3>2, <3>3
    <3> QED BY <3>1, <3>2, <3>4
  <2> QED BY <2>1, <2>2, <2>3
<1>9. [e |-> e, pos |-> pos] \in Lists(g, n)
  BY <1>2, <1>6, <1>7, <1>8 DEF Lists
<1> QED BY <1>3, <1>9 DEF e, pos

-----------------------------------------------------------------------------
\* w is v with two values exchanged.
AreExchanged(v, w, n, i, j) ==
  /\ w \in [1..n -> Int] /\ w[j] = v[i] /\ w[i] = v[j]
  /\ \A k \in 1..n \ {i, j} : w[k] = v[k]

\* v is in heap order, except that its value at j may be too small for its
\* parent, while j's parent suits j's children.
Rising(v, n, j) ==
  /\ \A k \in 2..n : k # j => v[k \div 2] <= v[k]
  /\ \A k \in 2..n : k \div 2 = j /\ j >= 2 => v[j \div 2] <= v[k]

\* ... except that its value at i may be too large for its children, which suit
\* i's parent.
Sinking(v, n, i) ==
  /\ \A k \in 2..n : k \div 2 # i => v[k \div 2] <= v[k]
  /\ \A k \in 2..n : k \div 2 = i /\ i >= 2 => v[i \div 2] <= v[k]

Heaped(v, n) == \A k \in 2..n : v[k \div 2] <= v[k]

\* A turn towards the root leaves the fault one level up.
LEMMA RisingStep ==
  ASSUME NEW n \in Nat, NEW v \in [1..n -> Int], NEW j \in 2..n,
         Rising(v, n, j), v[j] < v[j \div 2],
         NEW w, AreExchanged(v, w, n, j \div 2, j)
  PROVE  Rising(w, n, j \div 2)
<1> DEFINE i == j \div 2
<1>1. i \in 1..n /\ i < j BY Half
<1>2. \A k \in 2..n : k \div 2 \in 1..n /\ k \div 2 < k BY Half
<1> HIDE DEF i
<1>3. /\ w \in [1..n -> Int]
      /\ w[j] = v[i] /\ w[i] = v[j] /\ v[j] < v[i]
      /\ \A k \in 1..n \ {j, i} : w[k] = v[k]
      /\ \A k \in 2..n : k # j => v[k \div 2] <= v[k]
      /\ \A k \in 2..n : k \div 2 = j => v[i] <= v[k]
      /\ j \div 2 = i
  BY DEF i, Rising, AreExchanged
<1>4. ASSUME NEW k \in 2..n, k # i PROVE w[k \div 2] <= w[k]
  <2> DEFINE p == k \div 2
  <2>1. p \in 1..n /\ p < k BY <1>2
  <2>2. k # j => v[p] <= v[k] BY <1>3
  <2>3. p = j => v[i] <= v[k] BY <1>3
  <2>4. k = j => p = i BY <1>3
  <2> HIDE DEF p
  <2>5. w[p] <= w[k]
    <3>1. CASE k = j BY <1>1, <1>3, <2>4, <3>1
    <3>2. CASE k # j /\ p = i BY <1>1, <1>3, <1>4, <2>2, <3>2
    <3>3. CASE k # j /\ p = j BY <1>1, <1>3, <1>4, <2>1, <2>3, <3>3
    <3>4. CASE k # j /\ p # i /\ p # j BY <1>1, <1>3, <1>4, <2>1, <2>2, <3>4
    <3> QED BY <3>1, <3>2, <3>3, <3>4
  <2> QED BY <2>5 DEF p
<1>5. ASSUME NEW k \in 2..n, k \div 2 = i, i >= 2 PROVE w[i \div 2] <= w[k]
  <2> DEFINE p == i \div 2
  <2>1. i \in 2..n /\ p \in 1..n /\ p < i BY <1>1, <1>2, <1>5
  <2>2. v[p] <= v[i] BY <1>1, <1>3, <2>1
  <2>3. k # j => v[i] <= v[k] BY <1>3, <1>5
  <2>4. i < k BY <1>2, <1>5
  <2> HIDE DEF p
  <2>5. w[p] = v[p] BY <1>1, <1>3, <2>1
  <2>6. CASE k = j
    <3>1. w[k] = v[i] BY <1>3, <2>6
    <3>2. w[p] <= w[k] BY <2>2, <2>5, <3>1
    <3> QED BY <3>2 DEF p
  <2>7. CASE k # j
    <3>1. w[k] = v[k] /\ v[i] <= v[k] BY <1>1, <1>3, <2>3, <2>4, <2>7
    <3>2. v[p] \in Int /\ v[i] \in Int /\ v[k] \in Int BY <1>1, <2>1
    <3>3. w[p] <= w[k] BY <2>2, <2>5, <3>1, <3>2
    <3> QED BY <3>3 DEF p
  <2> QED BY <2>6, <2>7
<1>6. Rising(w, n, i) BY <1>4, <1>5 DEF Rising
<1> QED BY <1>6 DEF i

\* With nothing to do, the list is in heap order.
LEMMA RisingDone ==
  ASSUME NEW n \in Nat, NEW v \in [1..n -> Int], NEW j \in 1..n,
         Rising(v, n, j), j \div 2 = 0 \/ ~(v[j] < v[j \div 2])
  PROVE  Heaped(v, n)
<1>1. ASSUME NEW k \in 2..n PROVE v[k \div 2] <= v[k]
  <2>1. k \div 2 \in 1..n BY Half
  <2>2. CASE k # j BY <2>2 DEF Rising
  <2>3. CASE k = j BY <2>1, <2>3
  <2> QED BY <2>2, <2>3
<1> QED BY <1>1 DEF Heaped

\* A turn towards the leaves leaves the fault one level down.
LEMMA SinkingStep ==
  ASSUME NEW n \in Nat, NEW v \in [1..n -> Int], NEW i \in 1..n, NEW j \in 2..n,
         j \div 2 = i, \A k \in 2..n : k \div 2 = i => v[j] <= v[k],
         Sinking(v, n, i), v[j] < v[i],
         NEW w, AreExchanged(v, w, n, i, j)
  PROVE  Sinking(w, n, j)
<1>0. /\ w \in [1..n -> Int] /\ w[j] = v[i] /\ w[i] = v[j]
      /\ \A k \in 1..n \ {i, j} : w[k] = v[k]
  BY DEF AreExchanged
<1>1. i < j BY Half
<1>2. \A k \in 2..n : k \div 2 \in 1..n /\ k \div 2 < k BY Half
<1>3. /\ \A k \in 2..n : k \div 2 # i => v[k \div 2] <= v[k]
      /\ i >= 2 => v[i \div 2] <= v[j]
  BY DEF Sinking
<1>4. ASSUME NEW k \in 2..n, k \div 2 # j PROVE w[k \div 2] <= w[k]
  <2> DEFINE p == k \div 2
  <2>1. p \in 1..n /\ p < k /\ p # j BY <1>2, <1>4
  <2>2. p # i => v[p] <= v[k] BY <1>3
  <2>3. p = i => v[j] <= v[k] OBVIOUS
  <2>4. k = i => v[p] <= v[j] BY <1>3
  <2>5. k = j => p = i OBVIOUS
  <2> HIDE DEF p
  <2>6. w[p] <= w[k]
    <3>1. CASE p = i /\ k = j BY <1>0, <1>1, <3>1
    <3>2. CASE p = i /\ k # j BY <1>0, <1>1, <2>1, <2>3, <3>2
    <3>3. CASE p # i /\ k = i BY <1>0, <1>1, <2>1, <2>4, <3>3
    <3>4. CASE p # i /\ k # i BY <1>0, <1>1, <2>1, <2>2, <2>5, <3>4
    <3> QED BY <3>1, <3>2, <3>3, <3>4
  <2> QED BY <2>6 DEF p
<1>5. ASSUME NEW k \in 2..n, k \div 2 = j PROVE w[j \div 2] <= w[k]
  <2>1. v[j] <= v[k] BY <1>1, <1>3, <1>5
  <2>2. k # i /\ k # j BY <1>1, <1>2, <1>5
  <2>3. w[j \div 2] = v[j] /\ w[k] = v[k] BY <1>0, <2>2
  <2> QED BY <2>1, <2>3
<1> QED BY <1>4, <1>5 DEF Sinking

\* The lesser child has nothing to do: the list is in heap order.
LEMMA SinkingDone ==
  ASSUME NEW n \in Nat, NEW v \in [1..n -> Int], NEW i \in 1..n,
         Sinking(v, n, i), \A k \in 2..n : k \div 2 = i => ~(v[k] < v[i])
  PROVE  Heaped(v, n)
<1>1. ASSUME NEW k \in 2..n PROVE v[k \div 2] <= v[k]
  <2>1. k \div 2 \in 1..n BY Half
  <2>2. CASE k \div 2 # i BY <2>2 DEF Sinking
  <2>3. CASE k \div 2 = i
    <3>1. ~(v[k] < v[i]) BY <2>3
    <3>2. k \in 1..n OBVIOUS
    <3>3. PICK x \in Int, y \in Int : x = v[k] /\ y = v[i] BY <3>2
    <3>4. y <= x BY <3>1, <3>3
    <3> QED BY <2>3, <3>3, <3>4
  <2> QED BY <2>2, <2>3
<1> QED BY <1>1 DEF Heaped

\* A list in heap order has no fault at any place.
LEMMA HeapedRises ==
  ASSUME NEW n \in Nat, NEW v \in [1..n -> Int], NEW j \in 1..n, Heaped(v, n)
  PROVE  Rising(v, n, j)
<1>1. \A k \in 2..n : v[k \div 2] <= v[k] BY DEF Heaped
<1>2. ASSUME NEW k \in 2..n, k \div 2 = j, j >= 2 PROVE v[j \div 2] <= v[k]
  <2>1. v[j] <= v[k] BY <1>1, <1>2
  <2>2. j \in 2..n /\ j \div 2 \in 1..n BY <1>2, Half
  <2>3. v[j \div 2] <= v[j] BY <1>1, <2>2
  <2>4. v[j] \in Int /\ v[k] \in Int /\ v[j \div 2] \in Int BY <2>2
  <2> QED BY <2>1, <2>3, <2>4
<1> QED BY <1>1, <1>2 DEF Rising

\* The entry at the root of a list in heap order is a cheapest one.
LEMMA RootIsLeast ==
  ASSUME NEW n \in Nat, NEW v \in [1..n -> Int], Heaped(v, n)
  PROVE  \A k \in 1..n : v[1] <= v[k]
<1> DEFINE Bad == {k \in 1..n : ~(v[1] <= v[k])}
<1>1. SUFFICES ASSUME Bad # {} PROVE FALSE OBVIOUS
<1>2. IsWellFoundedOn(OpToRel(<, Nat), Nat) BY NatLessThanWellFounded
<1>3. Bad \subseteq Nat OBVIOUS
<1>4. PICK m \in Bad : \A k \in Bad : <<k, m>> \notin OpToRel(<, Nat)
  <2> HIDE DEF Bad
  <2> QED BY <1>1, <1>2, <1>3, WFMin
<1>5. m \in 1..n /\ ~(v[1] <= v[m]) /\ v[m] \in Int /\ v[1] \in Int
  <2>1. m \in 1..n OBVIOUS
  <2>2. 1 \in 1..n BY <2>1
  <2> QED BY <2>1, <2>2
<1>6. m \in 2..n BY <1>5
<1>7. m \div 2 \in 1..n /\ m \div 2 < m BY <1>6, Half
<1>8. v[m \div 2] <= v[m] /\ v[m \div 2] \in Int BY <1>6, <1>7 DEF Heaped
<1>9. ~(v[1] <= v[m \div 2]) BY <1>5, <1>8
<1>10. m \div 2 \in Bad BY <1>7, <1>9
<1>11. <<m \div 2, m>> \in OpToRel(<, Nat) BY <1>5, <1>7 DEF OpToRel
<1> QED BY <1>4, <1>10, <1>11

-----------------------------------------------------------------------------
\* Scores of a list, and of a list with two entries exchanged.
LEMMA ScoresType ==
  ASSUME NEW n \in Nat, NEW e \in [1..n -> Cand]
  PROVE  Scores(e, n) \in [1..n -> Int] /\ \A k \in 1..n : Scores(e, n)[k] = e[k].score
<1>1. \A k \in 1..n : e[k].score \in Score BY DEF Cand
<1> QED BY <1>1, ScoreAssumption DEF Scores

\* Exchanging two entries exchanges their scores.
LEMMA ScoresExchanged ==
  ASSUME NEW n \in Nat, NEW e \in [1..n -> Cand], NEW i \in 1..n, NEW j \in 1..n, i # j
  PROVE  AreExchanged(Scores(e, n), Scores(Exchanged(e, i, j), n), n, i, j)
<1> DEFINE x == Exchanged(e, i, j)
<1>1. x = [k \in 1..n |-> IF k = j THEN e[i] ELSE IF k = i THEN e[j] ELSE e[k]]
  BY DEF Exchanged
<1> HIDE DEF x
<1>2. x \in [1..n -> Cand] BY <1>1
<1>3. /\ Scores(x, n) \in [1..n -> Int]
      /\ \A k \in 1..n : Scores(x, n)[k] = x[k].score
      /\ \A k \in 1..n : Scores(e, n)[k] = e[k].score
  BY <1>2, ScoresType
<1>4. x[j] = e[i] /\ x[i] = e[j] /\ \A k \in 1..n \ {i, j} : x[k] = e[k] BY <1>1
<1>5. /\ Scores(x, n)[j] = Scores(e, n)[i] /\ Scores(x, n)[i] = Scores(e, n)[j]
      /\ \A k \in 1..n \ {i, j} : Scores(x, n)[k] = Scores(e, n)[k]
  BY <1>3, <1>4
<1> QED BY <1>3, <1>5 DEF x, AreExchanged

\* A sift towards the root restores heap order, and the list holds what it held.
LEMMA UpHeaps ==
  ASSUME NEW n \in Nat, NEW g, NEW h \in Lists(g, n), NEW j \in 1..n,
         Rising(Scores(h.e, n), n, j)
  PROVE  Up(h, j) \in Lists(g, n) /\ Heaped(Scores(Up(h, j).e, n), n)
<1> DEFINE D == {x \in [h : Lists(g, n), at : 1..n] : Rising(Scores(x.h.e, n), n, x.at)}
           F == [x \in D |-> UpTurn(x)]
           a == [h |-> h, at |-> j]
           m == [x \in D |-> x.at]
<1>1. ASSUME NEW x \in D
      PROVE  /\ UpTurn(x) \in D
             /\ UpTurn(x) = x \/ UpTurn(x).at < x.at
             /\ UpTurn(x) = x => Heaped(Scores(x.h.e, n), n)
  <2> DEFINE i == x.at \div 2
             v == Scores(x.h.e, n)
  <2>1. x.h \in Lists(g, n) /\ x.at \in 1..n /\ Rising(v, n, x.at) OBVIOUS
  <2> HIDE DEF D, F, a, m
  <2>2. x.h.e \in [1..n -> Cand] BY <2>1 DEF Lists
  <2>3. v \in [1..n -> Int] /\ \A k \in 1..n : v[k] = x.h.e[k].score
    BY <2>2, ScoresType
  <2>4. i \in Nat /\ i < x.at BY <2>1, Half
  <2>5. CASE i = 0 \/ ~Less(x.h, x.at, i)
    <3>1. UpTurn(x) = x BY <2>5 DEF UpTurn
    <3>2. i # 0 => i \in 1..n BY <2>1, <2>4
    <3> HIDE DEF i, v
    <3>3. i = 0 \/ ~(v[x.at] < v[i])
      BY <2>1, <2>3, <2>5, <3>2 DEF Less
    <3>4. Heaped(v, n) BY <2>1, <2>3, <3>3, RisingDone DEF i
    <3> QED BY <3>1, <3>4 DEF v
  <2>6. CASE ~(i = 0 \/ ~Less(x.h, x.at, i))
    <3> DEFINE y == Swap(x.h, i, x.at)
               w == Scores(y.e, n)
    <3>1. UpTurn(x) = [h |-> y, at |-> i] BY <2>6 DEF UpTurn
    <3>2. i \in 1..n /\ x.at \in 2..n /\ i # x.at /\ x.at \in 1..n
      BY <2>1, <2>4, <2>6
    <3>3. v[x.at] < v[i] BY <2>1, <2>3, <2>6, <3>2 DEF Less
    <3> HIDE DEF i, v
    <3>4. y \in Lists(g, n) /\ y.e = Exchanged(x.h.e, i, x.at)
      BY <2>1, <3>2, SwapLists
    <3>5. AreExchanged(v, w, n, i, x.at)
      BY <2>2, <3>2, <3>4, ScoresExchanged DEF v
    <3> HIDE DEF w, y
    <3>6. Rising(w, n, i) BY <2>1, <2>3, <3>2, <3>3, <3>5, RisingStep DEF i
    <3>7. [h |-> y, at |-> i] \in D BY <3>2, <3>4, <3>6 DEF w, D
    <3>8. [h |-> y, at |-> i].at < x.at /\ [h |-> y, at |-> i] # x BY <2>4
    <3> QED BY <3>1, <3>7, <3>8
  <2> QED BY <2>5, <2>6
<1>2. a \in D /\ a.at = j /\ j \in Nat OBVIOUS
<1>3. \A x \in D : x.at \in Nat /\ x.h \in Lists(g, n) OBVIOUS
<1> HIDE DEF D, a
<1>4. F \in [D -> D] /\ m \in [D -> Nat] /\ m[a] <= j BY <1>1, <1>2, <1>3
<1>5. Lowers(F, D, m) /\ \A x \in D : F[x] = UpTurn(x) BY <1>1 DEF Lowers
<1> HIDE DEF F, m
<1>6. PICK s \in [0..j -> D] : IsRun(s, F, a, j) /\ EndsAt(D, F, a, j, s[j])
  BY <1>2, <1>4, <1>5, LoopEnds
<1>7. s = [k \in 0..j |-> IF k = 0 THEN a ELSE UpTurn(s[k - 1])]
  <2>1. \A k \in 1..j : s[k] = UpTurn(s[k - 1]) BY <1>5, <1>6 DEF IsRun
  <2> QED BY <1>6, <2>1 DEF IsRun
<1>8. PICK f : /\ f = [k \in 0..j |-> IF k = 0 THEN a ELSE UpTurn(f[k - 1])]
               /\ Up(h, j) = f[j].h
  BY <1>2, <1>7 DEF Up, Turns, a
<1>9. Follows(f, F, D, a, j) BY <1>2, <1>5, <1>8 DEF Follows
<1>10. f[j] \in D /\ UpTurn(f[j]) = f[j]
  BY <1>5, <1>6, <1>9 DEF EndsAt
<1> QED BY <1>1, <1>3, <1>8, <1>10

\* Child is a child with the least score, or past the end if there is none.
LEMMA ChildIsLeast ==
  ASSUME NEW n \in Nat, NEW h, h.e \in [1..n -> Cand], NEW i \in 1..n,
         NEW v, v = Scores(h.e, n)
  PROVE  LET j == Child(h, i) IN
         /\ j \in Nat /\ j \div 2 = i /\ i < j
         /\ j > n => \A k \in 2..n : k \div 2 # i
         /\ j <= n => \A k \in 2..n : k \div 2 = i => v[j] <= v[k]
<1> DEFINE j == Child(h, i)
<1>1. Len(h.e) = n BY AsSequence
<1>2. v \in [1..n -> Int] /\ \A k \in 1..n : v[k] = h.e[k].score BY ScoresType
<1>3. j = IF 2 * i + 1 <= n /\ h.e[2 * i + 1].score < h.e[2 * i].score
          THEN 2 * i + 1 ELSE 2 * i
  BY <1>1 DEF Child, Less
<1>4. \A k \in 2..n : k \div 2 = i <=> k = 2 * i \/ k = 2 * i + 1 OBVIOUS
<1>5. (2 * i) \div 2 = i /\ (2 * i + 1) \div 2 = i OBVIOUS
<1> HIDE DEF j
<1>6. j \in Nat /\ j \div 2 = i /\ i < j BY <1>3, <1>5
<1>7. j > n => \A k \in 2..n : k \div 2 # i BY <1>3, <1>4
<1>8. ASSUME j <= n, NEW k \in 2..n, k \div 2 = i PROVE v[j] <= v[k]
  <2>1. k = 2 * i \/ k = 2 * i + 1 BY <1>4, <1>8
  <2>2. k \in 1..n /\ v[k] = h.e[k].score /\ v[k] \in Int BY <1>2
  <2>3. 2 * i \in 1..n /\ v[2 * i] = h.e[2 * i].score /\ v[2 * i] \in Int
    BY <1>2, <2>1
  <2>4. CASE 2 * i + 1 <= n
    <3>1. 2 * i + 1 \in 1..n BY <2>4
    <3>2. v[2 * i + 1] = h.e[2 * i + 1].score /\ v[2 * i + 1] \in Int
      BY <1>2, <3>1
    <3>3. CASE v[2 * i + 1] < v[2 * i]
      <4>1. j = 2 * i + 1 BY <1>3, <2>3, <2>4, <3>2, <3>3
      <4>2. PICK x \in Int, y \in Int : x = v[2 * i] /\ y = v[2 * i + 1] BY <2>3, <3>2
      <4>3. y <= x /\ y <= y BY <3>3, <4>2
      <4>4. v[j] = y /\ (v[k] = x \/ v[k] = y) BY <2>1, <4>1, <4>2
      <4> QED BY <4>3, <4>4
    <3>4. CASE ~(v[2 * i + 1] < v[2 * i])
      <4>1. j = 2 * i BY <1>3, <2>3, <3>2, <3>4
      <4>2. PICK x \in Int, y \in Int : x = v[2 * i] /\ y = v[2 * i + 1] BY <2>3, <3>2
      <4>3. x <= y /\ x <= x BY <3>4, <4>2
      <4>4. v[j] = x /\ (v[k] = x \/ v[k] = y) BY <2>1, <4>1, <4>2
      <4> QED BY <4>3, <4>4
    <3> QED BY <3>3, <3>4
  <2>5. CASE ~(2 * i + 1 <= n)
    <3>1. j = 2 * i /\ k = 2 * i BY <1>3, <2>1, <2>5
    <3> QED BY <2>2, <3>1
  <2> QED BY <2>4, <2>5
<1>9. j <= n => \A k \in 2..n : k \div 2 = i => v[j] <= v[k] BY <1>8
<1> QED BY <1>6, <1>7, <1>9 DEF j

\* A sift towards the leaves restores heap order, and the list holds what it held.
LEMMA DownHeaps ==
  ASSUME NEW n \in Nat, NEW g, NEW h \in Lists(g, n), NEW i \in 1..n,
         Sinking(Scores(h.e, n), n, i)
  PROVE  Down(h, i) \in Lists(g, n) /\ Heaped(Scores(Down(h, i).e, n), n)
<1> DEFINE D == {x \in [h : Lists(g, n), at : 1..n] : Sinking(Scores(x.h.e, n), n, x.at)}
           F == [x \in D |-> DownTurn(x)]
           a == [h |-> h, at |-> i]
           m == [x \in D |-> n - x.at]
<1>1. ASSUME NEW x \in D
      PROVE  /\ DownTurn(x) \in D
             /\ DownTurn(x) = x \/ x.at < DownTurn(x).at
             /\ DownTurn(x) = x => Heaped(Scores(x.h.e, n), n)
  <2> DEFINE j == Child(x.h, x.at)
             v == Scores(x.h.e, n)
  <2>1. x.h \in Lists(g, n) /\ x.at \in 1..n /\ Sinking(v, n, x.at) OBVIOUS
  <2> HIDE DEF D, F, a, m
  <2>2. x.h.e \in [1..n -> Cand] /\ Len(x.h.e) = n BY <2>1, AsSequence DEF Lists
  <2>3. v \in [1..n -> Int] /\ \A k \in 1..n : v[k] = x.h.e[k].score
    BY <2>2, ScoresType
  <2>4. /\ j \in Nat /\ j \div 2 = x.at /\ x.at < j
        /\ j > n => \A k \in 2..n : k \div 2 # x.at
        /\ j <= n => \A k \in 2..n : k \div 2 = x.at => v[j] <= v[k]
    BY <2>1, <2>2, ChildIsLeast
  <2>5. DownTurn(x) = IF j > n \/ ~Less(x.h, j, x.at) THEN x
                      ELSE [h |-> Swap(x.h, x.at, j), at |-> j]
    BY <2>2 DEF DownTurn
  <2> HIDE DEF j, v
  <2>6. CASE j > n \/ ~Less(x.h, j, x.at)
    <3>1. ASSUME NEW k \in 2..n, k \div 2 = x.at PROVE ~(v[k] < v[x.at])
      <4>1. j \in 1..n BY <2>1, <2>4, <3>1
      <4>2. v[j] <= v[k] /\ ~(v[j] < v[x.at])
        <5>1. j <= n /\ ~Less(x.h, j, x.at) BY <2>6, <4>1
        <5>2. v[j] <= v[k] BY <2>4, <3>1, <5>1
        <5>3. v[j] = x.h.e[j].score /\ v[x.at] = x.h.e[x.at].score BY <2>1, <2>3, <4>1
        <5> QED BY <5>1, <5>2, <5>3 DEF Less
      <4>3. v[j] \in Int /\ v[k] \in Int /\ v[x.at] \in Int BY <2>1, <2>3, <4>1
      <4> QED BY <4>2, <4>3
    <3>2. Heaped(v, n) BY <2>1, <2>3, <3>1, SinkingDone
    <3> QED BY <2>5, <2>6, <3>2 DEF v
  <2>7. CASE ~(j > n \/ ~Less(x.h, j, x.at))
    <3> DEFINE y == Swap(x.h, x.at, j)
               w == Scores(y.e, n)
    <3>1. DownTurn(x) = [h |-> y, at |-> j] BY <2>5, <2>7
    <3>2. j \in 2..n /\ j \in 1..n /\ x.at # j BY <2>1, <2>4, <2>7
    <3>3. v[j] < v[x.at] BY <2>1, <2>3, <2>7, <3>2 DEF Less
    <3>4. y \in Lists(g, n) /\ y.e = Exchanged(x.h.e, x.at, j)
      BY <2>1, <3>2, SwapLists
    <3>5. AreExchanged(v, w, n, x.at, j)
      BY <2>1, <2>2, <3>2, <3>4, ScoresExchanged DEF v
    <3> HIDE DEF w, y
    <3>6. \A k \in 2..n : k \div 2 = x.at => v[j] <= v[k] BY <2>4, <3>2
    <3>7. Sinking(w, n, j)
      BY <2>1, <2>3, <2>4, <3>2, <3>3, <3>5, <3>6, SinkingStep
    <3>8. [h |-> y, at |-> j] \in D BY <3>2, <3>4, <3>7 DEF w, D
    <3>9. x.at < [h |-> y, at |-> j].at /\ [h |-> y, at |-> j] # x BY <2>4, <3>2
    <3> QED BY <3>1, <3>8, <3>9
  <2> QED BY <2>6, <2>7
<1>2. a \in D /\ a.at = i OBVIOUS
<1>3. \A x \in D : x.at \in 1..n /\ x.h \in Lists(g, n) OBVIOUS
<1>4. Len(h.e) = n BY AsSequence DEF Lists
<1> HIDE DEF D, a
<1>5. F \in [D -> D] /\ m \in [D -> Nat] /\ m[a] <= n BY <1>1, <1>2, <1>3
<1>6. Lowers(F, D, m) /\ \A x \in D : F[x] = DownTurn(x)
  BY <1>1, <1>3 DEF Lowers
<1> HIDE DEF F, m
<1>7. PICK s \in [0..n -> D] : IsRun(s, F, a, n) /\ EndsAt(D, F, a, n, s[n])
  BY <1>2, <1>5, <1>6, LoopEnds
<1>8. s = [k \in 0..n |-> IF k = 0 THEN a ELSE DownTurn(s[k - 1])]
  <2>1. \A k \in 1..n : s[k] = DownTurn(s[k - 1]) BY <1>6, <1>7 DEF IsRun
  <2> QED BY <1>7, <2>1 DEF IsRun
<1>9. PICK f : /\ f = [k \in 0..n |-> IF k = 0 THEN a ELSE DownTurn(f[k - 1])]
               /\ Down(h, i) = f[n].h
  BY <1>4, <1>8 DEF Down, Turns, a
<1>10. Follows(f, F, D, a, n) BY <1>2, <1>6, <1>9 DEF Follows
<1>11. f[n] \in D /\ DownTurn(f[n]) = f[n]
  BY <1>6, <1>7, <1>10 DEF EndsAt
<1> QED BY <1>1, <1>3, <1>9, <1>11

\* heap.Fix, after a score at i was raised, restores heap order.
LEMMA FixHeaps ==
  ASSUME NEW n \in Nat, NEW g, NEW h \in Lists(g, n), NEW i \in 1..n,
         Sinking(Scores(h.e, n), n, i)
  PROVE  Fix(h, i) \in Lists(g, n) /\ Heaped(Scores(Fix(h, i).e, n), n)
<1>1. Down(h, i) \in Lists(g, n) /\ Heaped(Scores(Down(h, i).e, n), n) BY DownHeaps
<1>2. CASE Down(h, i) # h BY <1>1, <1>2 DEF Fix
<1>3. CASE Down(h, i) = h
  <2> DEFINE v == Scores(h.e, n)
  <2>1. h.e \in [1..n -> Cand] BY DEF Lists
  <2>2. v \in [1..n -> Int] BY <2>1, ScoresType
  <2>3. Heaped(v, n) BY <1>1, <1>3
  <2> HIDE DEF v
  <2>4. Rising(v, n, i) BY <2>2, <2>3, HeapedRises
  <2>5. Up(h, i) \in Lists(g, n) /\ Heaped(Scores(Up(h, i).e, n), n)
    BY <2>4, UpHeaps DEF v
  <2> QED BY <1>3, <2>5 DEF Fix
<1> QED BY <1>2, <1>3

-----------------------------------------------------------------------------
\* h is a shortlist in heap order of n entries that holds g.
IsTopK(h, g, n) ==
  /\ n \in 0..K
  /\ DOMAIN g \subseteq Ord /\ g \in [DOMAIN g -> Score]
  /\ h \in Lists(g, n)
  /\ Heaped(Scores(h.e, n), n)

HeldIn(h) ==
  [o \in {h.e[i].ord : i \in DOMAIN h.e} |->
     h.e[CHOOSE i \in DOMAIN h.e : h.e[i].ord = o].score]

\* What a list holds can be read off its entries, and it has one per ordinal.
LEMMA ListHolds ==
  ASSUME NEW n \in Nat, NEW g, NEW h \in Lists(g, n),
         g = [o \in DOMAIN g |-> g[o]]
  PROVE  /\ HeldIn(h) = g
         /\ IsFiniteSet(DOMAIN g) /\ Cardinality(DOMAIN g) = n
<1>1. /\ h.e \in [1..n -> Cand] /\ h.pos \in [DOMAIN g -> 1..n]
      /\ \A k \in 1..n : /\ h.e[k].ord \in DOMAIN g
                         /\ h.e[k].score = g[h.e[k].ord]
                         /\ h.pos[h.e[k].ord] = k
      /\ \A o \in DOMAIN g : h.e[h.pos[o]].ord = o
  BY DEF Lists
<1>2. DOMAIN h.e = 1..n BY <1>1
<1>3. {h.e[i].ord : i \in DOMAIN h.e} = DOMAIN g
  <2>1. \A o \in DOMAIN g : h.pos[o] \in 1..n /\ h.e[h.pos[o]].ord = o BY <1>1
  <2>2. \A i \in DOMAIN h.e : h.e[i].ord \in DOMAIN g BY <1>1, <1>2
  <2>3. \A o \in DOMAIN g : o \in {h.e[i].ord : i \in DOMAIN h.e} BY <1>2, <2>1
  <2> QED BY <2>2, <2>3
<1>4. ASSUME NEW o \in DOMAIN g
      PROVE  h.e[CHOOSE i \in DOMAIN h.e : h.e[i].ord = o].score = g[o]
  <2>1. h.pos[o] \in DOMAIN h.e /\ h.e[h.pos[o]].ord = o BY <1>1, <1>2
  <2> DEFINE c == CHOOSE i \in DOMAIN h.e : h.e[i].ord = o
  <2>2. c \in DOMAIN h.e /\ h.e[c].ord = o BY <2>1
  <2> HIDE DEF c
  <2>3. h.e[c].score = g[o] BY <1>1, <1>2, <2>2
  <2> QED BY <2>3 DEF c
<1>5. HeldIn(h) = g
  <2>1. HeldIn(h) = [o \in DOMAIN g |-> g[o]] BY <1>3, <1>4 DEF HeldIn
  <2> QED BY <2>1
<1>6. ExistsBijection(1..n, DOMAIN g)
  <2> DEFINE f == [i \in 1..n |-> h.e[i].ord]
  <2>1. f \in [1..n -> DOMAIN g] BY <1>1
  <2>2. \A i, j \in 1..n : f[i] = f[j] => i = j BY <1>1
  <2>3. \A o \in DOMAIN g : \E i \in 1..n : f[i] = o BY <1>1
  <2> HIDE DEF f
  <2>4. f \in Bijection(1..n, DOMAIN g)
    BY <2>1, <2>2, <2>3 DEF Bijection, Injection, IsInjective, Surjection
  <2> QED BY <2>4 DEF ExistsBijection
<1>7. IsFiniteSet(1..n) /\ Cardinality(1..n) = n BY FS_Interval
<1> QED BY <1>5, <1>6, <1>7, FS_Bijection

\* No entry of a shortlist scores less than the one at its root.
LEMMA RootIsCheapest ==
  ASSUME NEW h, NEW g, NEW n, IsTopK(h, g, n), n > 0
  PROVE  /\ h.e[1].ord \in DOMAIN g /\ h.e[1].score = g[h.e[1].ord]
         /\ \A o \in DOMAIN g : h.e[1].score <= g[o]
<1>1. /\ n \in Nat /\ 1 \in 1..n /\ h.e \in [1..n -> Cand] /\ h.pos \in [DOMAIN g -> 1..n]
      /\ \A k \in 1..n : h.e[k].ord \in DOMAIN g /\ h.e[k].score = g[h.e[k].ord]
      /\ \A o \in DOMAIN g : h.e[h.pos[o]].ord = o
  BY KAssumption DEF IsTopK, Lists
<1> DEFINE v == Scores(h.e, n)
<1>2. v \in [1..n -> Int] /\ \A k \in 1..n : v[k] = h.e[k].score BY <1>1, ScoresType
<1>3. Heaped(v, n) BY DEF IsTopK
<1> HIDE DEF v
<1>4. \A k \in 1..n : v[1] <= v[k] BY <1>1, <1>2, <1>3, RootIsLeast
<1>5. ASSUME NEW o \in DOMAIN g PROVE h.e[1].score <= g[o]
  <2>1. h.pos[o] \in 1..n /\ h.e[h.pos[o]].ord = o BY <1>1
  <2>2. h.e[h.pos[o]].score = g[o] BY <1>1, <2>1
  <2> QED BY <1>1, <1>2, <1>4, <2>1, <2>2
<1> QED BY <1>1, <1>5

\* An ordinal on the list: its score rises in place.
LEMMA RepeatKeeps ==
  ASSUME NEW h, NEW g, NEW n, IsTopK(h, g, n),
         NEW o \in Ord, NEW s \in Score, o \in DOMAIN g
  PROVE  IsTopK(Added(h, o, s), Risen(g, o, s), n)
<1> DEFINE i == h.pos[o]
           x == Entry(o, s)
           e == [k \in 1..n |-> IF k = i THEN x ELSE h.e[k]]
           f == [p \in DOMAIN g |-> IF p = o THEN s ELSE g[p]]
<1>1. /\ h = [e |-> h.e, pos |-> h.pos] /\ n \in Nat
      /\ h.e \in [1..n -> Cand] /\ h.pos \in [DOMAIN g -> 1..n]
      /\ \A k \in 1..n : /\ h.e[k].ord \in DOMAIN g
                         /\ h.e[k].score = g[h.e[k].ord]
                         /\ h.pos[h.e[k].ord] = k
      /\ \A p \in DOMAIN g : h.e[h.pos[p]].ord = p
      /\ g \in [DOMAIN g -> Score] /\ DOMAIN g \subseteq Ord
  BY KAssumption DEF IsTopK, Lists
<1>2. i \in 1..n /\ h.e[i].ord = o /\ h.e[i].score = g[o] /\ DOMAIN h.pos = DOMAIN g
  BY <1>1
<1>3. CASE ~(g[o] < s)
  <2>1. Added(h, o, s) = h BY <1>2, <1>3 DEF Added
  <2>2. g[o] >= s BY <1>1, <1>3, ScoreAssumption
  <2>3. Risen(g, o, s) = g BY <2>2 DEF Risen
  <2> QED BY <2>1, <2>3
<1>4. CASE g[o] < s
  <2>1. [h EXCEPT !.e[i].score = s] = [e |-> e, pos |-> h.pos]
    <3>1. h.e[i] = [ord |-> o, score |-> g[o]]
      <4>1. h.e[i] \in Cand BY <1>1, <1>2
      <4> QED BY <1>2, <4>1 DEF Cand
    <3>2. [h.e[i] EXCEPT !.score = s] = x BY <3>1 DEF Entry
    <3>3. [h EXCEPT !.e[i].score = s] =
            [e |-> [h.e EXCEPT ![i] = [h.e[i] EXCEPT !.score = s]], pos |-> h.pos]
      <4>1. [h EXCEPT !.e[i].score = s] =
              [h EXCEPT !.e = [h.e EXCEPT ![i] = [h.e[i] EXCEPT !.score = s]]]
        OBVIOUS
      <4> DEFINE z == [h.e EXCEPT ![i] = [h.e[i] EXCEPT !.score = s]]
      <4> HIDE DEF z, i
      <4>2. [h EXCEPT !.e = z] = [e |-> z, pos |-> h.pos] BY <1>1
      <4> QED BY <4>1, <4>2 DEF z
    <3> HIDE DEF i, x
    <3>4. [h.e EXCEPT ![i] = x] = e BY <1>1, <1>2
    <3> HIDE DEF e
    <3> QED BY <3>2, <3>3, <3>4
  <2>2. Added(h, o, s) = Fix([e |-> e, pos |-> h.pos], i)
    BY <1>2, <1>4, <2>1 DEF Added
  <2>3. Risen(g, o, s) = f
    <3>1. ~(g[o] >= s) BY <1>1, <1>4, ScoreAssumption
    <3>2. DOMAIN g \cup {o} = DOMAIN g OBVIOUS
    <3> QED BY <3>1, <3>2 DEF Risen, With
  <2>4. /\ f \in [DOMAIN g -> Score] /\ DOMAIN f = DOMAIN g /\ f[o] = s
        /\ \A p \in DOMAIN g \ {o} : f[p] = g[p]
    BY <1>1
  <2>5. x \in Cand /\ x.ord = o /\ x.score = s BY DEF Entry, Cand
  <2> HIDE DEF f, x
  <2>6. e \in [1..n -> Cand] /\ e[i] = x /\ \A k \in 1..n \ {i} : e[k] = h.e[k]
    BY <1>1, <1>2, <2>5
  <2> HIDE DEF e
  <2>7. [e |-> e, pos |-> h.pos] \in Lists(f, n)
    <3>1. ASSUME NEW k \in 1..n
          PROVE  e[k].ord \in DOMAIN f /\ e[k].score = f[e[k].ord] /\ h.pos[e[k].ord] = k
      <4>1. CASE k = i BY <1>2, <2>4, <2>5, <2>6, <4>1
      <4>2. CASE k # i
        <5>1. e[k] = h.e[k] /\ h.e[k].ord # o BY <1>1, <1>2, <2>6, <4>2
        <5> QED BY <1>1, <2>4, <5>1
      <4> QED BY <4>1, <4>2
    <3>2. ASSUME NEW p \in DOMAIN f PROVE e[h.pos[p]].ord = p
      <4>1. CASE p = o BY <2>5, <2>6, <4>1
      <4>2. CASE p # o
        <5>1. h.pos[p] \in 1..n /\ h.e[h.pos[p]].ord = p BY <1>1, <2>4
        <5>2. h.pos[p] # i BY <1>2, <4>2, <5>1
        <5> QED BY <2>6, <5>1, <5>2
      <4> QED BY <4>1, <4>2
    <3> QED BY <1>1, <2>4, <2>6, <3>1, <3>2 DEF Lists
  <2> DEFINE v == Scores(h.e, n)
             w == Scores(e, n)
  <2>8. /\ v \in [1..n -> Int] /\ w \in [1..n -> Int]
        /\ v[i] < w[i] /\ \A k \in 1..n \ {i} : w[k] = v[k]
    <3>1. /\ v \in [1..n -> Int] /\ \A k \in 1..n : v[k] = h.e[k].score
          /\ w \in [1..n -> Int] /\ \A k \in 1..n : w[k] = e[k].score
      <4>0. PICK l \in [1..n -> Cand] : l = h.e BY <1>1
      <4>1. v \in [1..n -> Int] /\ \A k \in 1..n : v[k] = h.e[k].score
        <5> HIDE DEF v, w
        <5>1. \A l1 \in [1..n -> Cand] :
                /\ Scores(l1, n) \in [1..n -> Int]
                /\ \A k \in 1..n : Scores(l1, n)[k] = l1[k].score
          BY <1>1, ScoresType
        <5>2. v = Scores(l, n) BY <4>0 DEF v
        <5> QED BY <4>0, <5>1, <5>2
      <4>2. w \in [1..n -> Int] /\ \A k \in 1..n : w[k] = e[k].score
        BY <1>1, <2>6, ScoresType
      <4> HIDE DEF v, w
      <4> QED BY <4>1, <4>2
    <3> HIDE DEF v, w
    <3> QED BY <1>2, <1>4, <2>5, <2>6, <3>1
  <2>9. Heaped(v, n) BY DEF IsTopK
  <2> HIDE DEF v, w, i
  <2>10. Sinking(w, n, i)
    <3>1. \A k \in 2..n : k \in 1..n /\ k \div 2 \in 1..n /\ k \div 2 < k
                          /\ v[k \div 2] <= v[k]
      BY <1>1, <2>9, Half DEF Heaped
    <3>2. ASSUME NEW k \in 2..n, k \div 2 # i PROVE w[k \div 2] <= w[k]
      <4>1. w[k \div 2] = v[k \div 2] /\ w[k] >= v[k] BY <2>8, <3>1, <3>2
      <4>2. v[k \div 2] \in Int /\ w[k] \in Int /\ v[k] \in Int BY <2>8, <3>1
      <4> QED BY <3>1, <4>1, <4>2
    <3>3. ASSUME NEW k \in 2..n, k \div 2 = i, i >= 2 PROVE w[i \div 2] <= w[k]
      <4>1. i \in 2..n /\ k # i /\ i \div 2 # i BY <1>2, <3>1, <3>3
      <4>2. w[k] = v[k] /\ w[i \div 2] = v[i \div 2] BY <2>8, <3>1, <4>1
      <4>3. v[i] <= v[k] /\ v[i \div 2] <= v[i] BY <3>1, <3>3, <4>1
      <4>4. v[k] \in Int /\ v[i] \in Int /\ v[i \div 2] \in Int
        BY <2>8, <3>1, <4>1
      <4> QED BY <4>2, <4>3, <4>4
    <3> QED BY <3>2, <3>3 DEF Sinking
  <2> DEFINE y == [e |-> e, pos |-> h.pos]
  <2>11. y.e = e OBVIOUS
  <2> HIDE DEF y
  <2>12. Fix(y, i) \in Lists(f, n) /\ Heaped(Scores(Fix(y, i).e, n), n)
    BY <1>1, <1>2, <2>7, <2>10, <2>11, FixHeaps DEF y, w
  <2>13. IsTopK(Fix(y, i), f, n)
    BY <1>1, <2>4, <2>12 DEF IsTopK
  <2> QED BY <2>2, <2>3, <2>13 DEF y
<1> QED BY <1>3, <1>4

\* A list with room takes the entry (heap.Push).
LEMMA FillKeeps ==
  ASSUME NEW h, NEW g, NEW n, IsTopK(h, g, n),
         NEW o \in Ord, NEW s \in Score, o \notin DOMAIN g, n < K
  PROVE  IsTopK(Added(h, o, s), With(g, o, s), n + 1)
<1> DEFINE x == Entry(o, s)
           e == Append(h.e, x)
           f == With(g, o, s)
           N == n + 1
           pos == SetPos(h.pos, o, N)
           y == [e |-> e, pos |-> pos]
<1>1. /\ n \in Nat /\ h.e \in [1..n -> Cand] /\ h.pos \in [DOMAIN g -> 1..n]
      /\ \A k \in 1..n : /\ h.e[k].ord \in DOMAIN g
                         /\ h.e[k].score = g[h.e[k].ord]
                         /\ h.pos[h.e[k].ord] = k
      /\ \A p \in DOMAIN g : h.e[h.pos[p]].ord = p
      /\ g \in [DOMAIN g -> Score] /\ DOMAIN g \subseteq Ord
  BY KAssumption DEF IsTopK, Lists
<1>2. Len(h.e) = n /\ h.e \in Seq(Cand) /\ DOMAIN h.pos = DOMAIN g
  BY <1>1, AsSequence
<1>3. N \in Nat /\ N \in 0..K BY <1>1, KAssumption
<1>4. x \in Cand /\ x.ord = o /\ x.score = s BY DEF Entry, Cand
<1>5. Added(h, o, s) = Up(y, N)
  BY <1>2, <1>4 DEF Added, HeapPush
<1> HIDE DEF x
<1>6. /\ e \in [1..N -> Cand] /\ e[N] = x
      /\ \A k \in 1..n : e[k] = h.e[k]
  <2>1. e \in Seq(Cand) /\ Len(e) = N BY <1>1, <1>2, <1>4
  <2>2. e[N] = x /\ \A k \in 1..n : e[k] = h.e[k] BY <1>1, <1>2, <1>4
  <2> HIDE DEF e
  <2>3. DOMAIN e = 1..N /\ e \in [1..N -> Cand] BY <2>1
  <2> QED BY <2>2, <2>3
<1> HIDE DEF e
<1>7. /\ f \in [DOMAIN g \cup {o} -> Score] /\ DOMAIN f = DOMAIN g \cup {o}
      /\ f[o] = s /\ \A p \in DOMAIN g : f[p] = g[p]
  BY <1>1 DEF With
<1>8. /\ pos \in [DOMAIN f -> 1..N] /\ pos[o] = N
      /\ \A p \in DOMAIN g : pos[p] = h.pos[p]
  <2>1. pos = [p \in DOMAIN g \cup {o} |-> IF p = o THEN N ELSE h.pos[p]]
    BY <1>2 DEF SetPos
  <2>2. \A p \in DOMAIN g : h.pos[p] \in 1..N BY <1>1
  <2>3. N \in 1..N BY <1>1
  <2> HIDE DEF pos, N, f
  <2> QED BY <1>7, <2>1, <2>2, <2>3
<1> HIDE DEF f, pos
<1>9. y \in Lists(f, N)
  <2>1. ASSUME NEW k \in 1..N
        PROVE  e[k].ord \in DOMAIN f /\ e[k].score = f[e[k].ord] /\ pos[e[k].ord] = k
    <3>1. CASE k = N BY <1>4, <1>6, <1>7, <1>8, <3>1
    <3>2. CASE k # N
      <4>1. k \in 1..n BY <1>1, <3>2
      <4>2. e[k] = h.e[k] /\ h.e[k].ord \in DOMAIN g BY <1>1, <1>6, <4>1
      <4>3. h.e[k].score = g[h.e[k].ord] /\ h.pos[h.e[k].ord] = k BY <1>1, <4>1
      <4>4. h.e[k].ord \in DOMAIN f /\ f[h.e[k].ord] = g[h.e[k].ord]
        BY <1>7, <4>2
      <4>5. pos[h.e[k].ord] = h.pos[h.e[k].ord] BY <1>8, <4>2
      <4> QED BY <4>2, <4>3, <4>4, <4>5
    <3> QED BY <3>1, <3>2
  <2>2. ASSUME NEW p \in DOMAIN f PROVE e[pos[p]].ord = p
    <3>1. CASE p = o BY <1>4, <1>6, <1>8, <3>1
    <3>2. CASE p # o
      <4>1. p \in DOMAIN g /\ h.pos[p] \in 1..n BY <1>1, <1>7, <3>2
      <4> QED BY <1>1, <1>6, <1>8, <4>1
    <3> QED BY <3>1, <3>2
  <2> HIDE DEF N
  <2> QED BY <1>6, <1>8, <2>1, <2>2 DEF Lists
<1> DEFINE v == Scores(h.e, n)
           w == Scores(y.e, N)
<1>10. Rising(w, N, N)
  <2>1. v \in [1..n -> Int] /\ \A k \in 1..n : v[k] = h.e[k].score
    BY <1>1, ScoresType
  <2>2. w \in [1..N -> Int] /\ \A k \in 1..N : w[k] = e[k].score
    BY <1>3, <1>6, ScoresType
  <2>3. Heaped(v, n) BY DEF IsTopK
  <2> HIDE DEF v, w
  <2>4. ASSUME NEW k \in 2..N, k # N PROVE w[k \div 2] <= w[k]
    <3>1. k \in 2..n /\ k \div 2 \in 1..n
      <4>1. k \in 2..n BY <1>1, <2>4
      <4> QED BY <1>1, <4>1, Half
    <3>2. v[k \div 2] <= v[k] BY <2>3, <3>1 DEF Heaped
    <3>3. k \in 1..n /\ k \in 1..N /\ k \div 2 \in 1..N BY <1>1, <3>1
    <3>4. w[k] = v[k] /\ w[k \div 2] = v[k \div 2]
      BY <1>6, <2>1, <2>2, <3>1, <3>3
    <3> QED BY <3>2, <3>4
  <2>5. \A k \in 2..N : k \div 2 # N BY <1>1, Half
  <2> QED BY <2>4, <2>5 DEF Rising
<1>11. N \in 1..N BY <1>1
<1> HIDE DEF N, y
<1>12. Up(y, N) \in Lists(f, N) /\ Heaped(Scores(Up(y, N).e, N), N)
  BY <1>3, <1>9, <1>10, <1>11, UpHeaps
<1>13. IsTopK(Up(y, N), f, N)
  <2>1. DOMAIN f \subseteq Ord BY <1>1, <1>7
  <2> QED BY <1>3, <1>7, <1>12, <2>1 DEF IsTopK
<1> QED BY <1>5, <1>13 DEF f, N

\* A full list gives the place of the entry at the root to a better one.
LEMMA EvictKeeps ==
  ASSUME NEW h, NEW g, IsTopK(h, g, K),
         NEW o \in Ord, NEW s \in Score, o \notin DOMAIN g, s > h.e[1].score,
         NEW f, f = With([q \in DOMAIN g \ {h.e[1].ord} |-> g[q]], o, s)
  PROVE  IsTopK(Added(h, o, s), f, K)
<1> DEFINE x == Entry(o, s)
           e == [h.e EXCEPT ![1] = x]
           r == h.e[1].ord
           pos == SetPos(Forget(h.pos, r), o, 1)
           y == [e |-> e, pos |-> pos]
<1>1. /\ K \in Nat /\ 1 \in 1..K
      /\ h.e \in [1..K -> Cand] /\ h.pos \in [DOMAIN g -> 1..K]
      /\ \A k \in 1..K : /\ h.e[k].ord \in DOMAIN g
                         /\ h.e[k].score = g[h.e[k].ord]
                         /\ h.pos[h.e[k].ord] = k
      /\ \A p \in DOMAIN g : h.e[h.pos[p]].ord = p
      /\ g \in [DOMAIN g -> Score] /\ DOMAIN g \subseteq Ord
  BY KAssumption DEF IsTopK, Lists
<1>2. Len(h.e) = K /\ DOMAIN h.pos = DOMAIN g BY <1>1, AsSequence
<1>3. h.e[1].score \in Int /\ s \in Int BY <1>1, ScoreAssumption
<1>4. x \in Cand /\ x.ord = o /\ x.score = s BY DEF Entry, Cand
<1>5. Added(h, o, s) = Fix(y, 1)
  <2>1. ~(Len(h.e) < K) /\ ~(s <= h.e[1].score) BY <1>1, <1>2, <1>3
  <2> QED BY <1>2, <2>1 DEF Added
<1> HIDE DEF x
<1>6. /\ e \in [1..K -> Cand] /\ e[1] = x
      /\ \A k \in 1..K \ {1} : e[k] = h.e[k]
  BY <1>1, <1>4
<1> HIDE DEF e
<1>7. r \in DOMAIN g /\ r # o /\ \A k \in 1..K : h.e[k].ord = r => k = 1
  <2>1. r \in DOMAIN g /\ h.pos[r] = 1 BY <1>1
  <2>2. \A k \in 1..K : h.e[k].ord = r => h.pos[r] = k BY <1>1
  <2> HIDE DEF r
  <2> QED BY <2>1, <2>2
<1>8. /\ f \in [(DOMAIN g \ {r}) \cup {o} -> Score]
      /\ DOMAIN f = (DOMAIN g \ {r}) \cup {o}
      /\ f[o] = s /\ \A p \in DOMAIN g \ {r} : f[p] = g[p]
  <2> HIDE DEF r
  <2>1. f = [p \in (DOMAIN g \ {r}) \cup {o} |-> IF p = o THEN s ELSE g[p]]
    BY <1>7 DEF With, r
  <2>2. \A p \in DOMAIN g : g[p] \in Score BY <1>1
  <2>3. f \in [(DOMAIN g \ {r}) \cup {o} -> Score] BY <2>1, <2>2
  <2> QED BY <2>1, <2>3
<1>9. /\ pos \in [DOMAIN f -> 1..K] /\ pos[o] = 1
      /\ \A p \in DOMAIN g \ {r} : pos[p] = h.pos[p]
  <2> HIDE DEF r
  <2>1. pos = [p \in (DOMAIN g \ {r}) \cup {o} |-> IF p = o THEN 1 ELSE h.pos[p]]
    BY <1>2, <1>7 DEF SetPos, Forget
  <2> HIDE DEF pos
  <2>2. \A p \in DOMAIN g : h.pos[p] \in 1..K BY <1>1
  <2>3. 1 \in 1..K BY <1>1
  <2>4. pos \in [(DOMAIN g \ {r}) \cup {o} -> 1..K] BY <2>1, <2>2, <2>3
  <2>5. pos[o] = 1 BY <2>1
  <2>6. \A p \in DOMAIN g \ {r} : p # o => pos[p] = h.pos[p] BY <2>1
  <2>7. o \notin DOMAIN g BY <1>1
  <2> QED BY <1>8, <2>4, <2>5, <2>6, <2>7
<1> HIDE DEF pos, r
<1>10. y \in Lists(f, K)
  <2>1. ASSUME NEW k \in 1..K
        PROVE  e[k].ord \in DOMAIN f /\ e[k].score = f[e[k].ord] /\ pos[e[k].ord] = k
    <3>1. CASE k = 1 BY <1>4, <1>6, <1>8, <1>9, <3>1
    <3>2. CASE k # 1
      <4>1. e[k] = h.e[k] /\ h.e[k].ord \in DOMAIN g \ {r}
        BY <1>1, <1>6, <1>7, <3>2
      <4>2. h.e[k].score = g[h.e[k].ord] /\ h.pos[h.e[k].ord] = k BY <1>1
      <4>3. h.e[k].ord \in DOMAIN f /\ f[h.e[k].ord] = g[h.e[k].ord]
        BY <1>8, <4>1
      <4>4. pos[h.e[k].ord] = h.pos[h.e[k].ord] BY <1>9, <4>1
      <4> QED BY <4>1, <4>2, <4>3, <4>4
    <3> QED BY <3>1, <3>2
  <2>2. ASSUME NEW p \in DOMAIN f PROVE e[pos[p]].ord = p
    <3>1. CASE p = o BY <1>4, <1>6, <1>9, <3>1
    <3>2. CASE p # o
      <4>1. p \in DOMAIN g \ {r} /\ h.pos[p] \in 1..K BY <1>1, <1>8, <3>2
      <4>2. h.pos[p] # 1 BY <1>1, <4>1 DEF r
      <4>3. pos[p] = h.pos[p] BY <1>9, <4>1
      <4>4. e[h.pos[p]] = h.e[h.pos[p]] BY <1>6, <4>1, <4>2
      <4>5. h.e[h.pos[p]].ord = p BY <1>1, <4>1
      <4> QED BY <4>3, <4>4, <4>5
    <3> QED BY <3>1, <3>2
  <2> QED BY <1>6, <1>9, <2>1, <2>2 DEF Lists
<1> DEFINE v == Scores(h.e, K)
           w == Scores(y.e, K)
<1>11. Sinking(w, K, 1)
  <2>1. v \in [1..K -> Int] /\ \A k \in 1..K : v[k] = h.e[k].score
    BY <1>1, ScoresType
  <2>2. w \in [1..K -> Int] /\ \A k \in 1..K : w[k] = e[k].score
    BY <1>1, <1>6, ScoresType
  <2>3. Heaped(v, K) BY DEF IsTopK
  <2> HIDE DEF v, w
  <2>4. ASSUME NEW k \in 2..K, k \div 2 # 1 PROVE w[k \div 2] <= w[k]
    <3>1. k \div 2 \in 1..K BY <1>1, Half
    <3>2. v[k \div 2] <= v[k] BY <2>3 DEF Heaped
    <3>3. w[k] = v[k] /\ w[k \div 2] = v[k \div 2]
      BY <1>6, <2>1, <2>2, <2>4, <3>1
    <3> QED BY <3>2, <3>3
  <2> QED BY <2>4 DEF Sinking
<1> HIDE DEF y
<1>12. Fix(y, 1) \in Lists(f, K) /\ Heaped(Scores(Fix(y, 1).e, K), K)
  BY <1>1, <1>10, <1>11, FixHeaps
<1>13. DOMAIN f \subseteq Ord BY <1>1, <1>8
<1> QED BY <1>1, <1>5, <1>8, <1>12, <1>13 DEF IsTopK

\* topK.add follows the rule by which a shortlist takes an offer.
LEMMA AddedTakes ==
  ASSUME NEW h, NEW g, NEW n, IsTopK(h, g, n), NEW o \in Ord, NEW s \in Score
  PROVE  \E f, m : IsTopK(Added(h, o, s), f, m) /\ Takes(g, o, s, f)
<1>1. /\ n \in 0..K /\ n \in Nat /\ K \in Nat \ {0}
      /\ g \in [DOMAIN g -> Score] /\ DOMAIN g \subseteq Ord
      /\ h \in Lists(g, n)
  BY KAssumption DEF IsTopK
<1>2. /\ h.e \in [1..n -> Cand] /\ Len(h.e) = n /\ DOMAIN h.pos = DOMAIN g
      /\ Cardinality(DOMAIN g) = n
  <2>1. h.e \in [1..n -> Cand] /\ DOMAIN h.pos = DOMAIN g BY <1>1 DEF Lists
  <2>2. g = [p \in DOMAIN g |-> g[p]] BY <1>1
  <2>3. Cardinality(DOMAIN g) = n BY <1>1, <2>2, ListHolds
  <2> QED BY <1>1, <2>1, <2>3, AsSequence
<1>3. CASE o \in DOMAIN g
  <2>1. IsTopK(Added(h, o, s), Risen(g, o, s), n) BY <1>3, RepeatKeeps
  <2> QED BY <1>3, <2>1 DEF Takes
<1>4. CASE o \notin DOMAIN g /\ n < K
  <2>1. IsTopK(Added(h, o, s), With(g, o, s), n + 1) BY <1>4, FillKeeps
  <2> QED BY <1>2, <1>4, <2>1 DEF Takes
<1>5. CASE o \notin DOMAIN g /\ ~(n < K)
  <2> DEFINE r == h.e[1].ord
  <2>1. n = K /\ n > 0 BY <1>1, <1>5
  <2>2. /\ r \in DOMAIN g /\ h.e[1].score = g[r]
        /\ \A q \in DOMAIN g : h.e[1].score <= g[q]
    BY <2>1, RootIsCheapest
  <2> HIDE DEF r
  <2>3. IsCheapest(g, r) BY <2>2 DEF IsCheapest
  <2>4. g[r] \in Int /\ s \in Int /\ \A q \in DOMAIN g : g[q] \in Int
    BY <1>1, <2>2, ScoreAssumption
  <2>5. CASE s <= h.e[1].score
    <3>1. Added(h, o, s) = h BY <1>2, <1>5, <2>5 DEF Added
    <3>2. \A q \in DOMAIN g : s <= g[q] BY <2>2, <2>4, <2>5
    <3>3. Takes(g, o, s, g) BY <1>1, <1>2, <1>5, <2>1, <3>2 DEF Takes
    <3> QED BY <3>1, <3>3
  <2>6. CASE ~(s <= h.e[1].score)
    <3> DEFINE f == With([q \in DOMAIN g \ {r} |-> g[q]], o, s)
    <3>1. s > h.e[1].score BY <2>2, <2>4, <2>6
    <3>2. IsTopK(Added(h, o, s), f, K) BY <1>5, <2>1, <3>1, EvictKeeps DEF r
    <3>3. s > g[r] BY <2>2, <3>1
    <3>4. \E p \in DOMAIN g :
             /\ IsCheapest(g, p) /\ s > g[p]
             /\ f = With([q \in DOMAIN g \ {p} |-> g[q]], o, s)
      BY <2>2, <2>3, <3>3
    <3>5. Cardinality(DOMAIN g) >= K BY <1>1, <1>2, <2>1
    <3> HIDE DEF f
    <3>6. Takes(g, o, s, f) BY <1>5, <3>4, <3>5 DEF Takes
    <3> QED BY <3>2, <3>6
  <2> QED BY <2>5, <2>6
<1> QED BY <1>3, <1>4, <1>5

\* So does add behind collectHot's guard: what the guard turns away would not
\* have changed the list.
LEMMA OfferedTakes ==
  ASSUME NEW h, NEW g, NEW n, IsTopK(h, g, n), NEW o \in Ord, NEW s \in Score
  PROVE  \E f, m : /\ IsTopK(IF BeatsMin(h, s) THEN Added(h, o, s) ELSE h, f, m)
                   /\ Takes(g, o, s, f)
<1>1. CASE BeatsMin(h, s) BY <1>1, AddedTakes
<1>2. CASE ~BeatsMin(h, s)
  <2>1. /\ n \in 0..K /\ n \in Nat /\ K \in Nat \ {0}
        /\ g \in [DOMAIN g -> Score]
        /\ h \in Lists(g, n)
    BY KAssumption DEF IsTopK
  <2>2. h.e \in [1..n -> Cand] /\ Len(h.e) = n /\ Cardinality(DOMAIN g) = n
    <3>1. h.e \in [1..n -> Cand] BY <2>1 DEF Lists
    <3>2. g = [p \in DOMAIN g |-> g[p]] BY <2>1
    <3>3. Cardinality(DOMAIN g) = n BY <2>1, <3>2, ListHolds
    <3> QED BY <2>1, <3>1, <3>3, AsSequence
  <2>3. n = K /\ n > 0 /\ ~(s > h.e[1].score) BY <1>2, <2>1, <2>2 DEF BeatsMin
  <2>4. /\ h.e[1].ord \in DOMAIN g /\ h.e[1].score = g[h.e[1].ord]
        /\ \A q \in DOMAIN g : h.e[1].score <= g[q]
    BY <2>3, RootIsCheapest
  <2>5. s \in Int /\ h.e[1].score \in Int /\ \A q \in DOMAIN g : g[q] \in Int
    BY <2>1, <2>4, ScoreAssumption
  <2>6. \A q \in DOMAIN g : s <= g[q] BY <2>3, <2>4, <2>5
  <2>7. CASE o \in DOMAIN g
    <3>1. g[o] >= s BY <2>5, <2>6, <2>7
    <3>2. Risen(g, o, s) = g BY <2>7, <3>1 DEF Risen
    <3> QED BY <1>2, <2>7, <3>2 DEF Takes
  <2>8. CASE o \notin DOMAIN g
    <3>1. Takes(g, o, s, g) BY <2>1, <2>2, <2>3, <2>6, <2>8 DEF Takes
    <3> QED BY <1>2, <3>1
  <2> QED BY <2>7, <2>8
<1> QED BY <1>1, <1>2

-----------------------------------------------------------------------------
\* out[1..i] is in drain's order.
Falling(v, i) == \A k \in 2..i : v[k] <= v[k - 1]

\* ... except that the value at j may be too large for the place before it.
Misplaced(v, i, j) ==
  /\ \A k \in 2..i : k # j => v[k] <= v[k - 1]
  /\ j \in 2..i - 1 => v[j + 1] <= v[j - 1]

\* A turn of the insertion sort moves the misplaced value one place up.
LEMMA MisplacedStep ==
  ASSUME NEW n \in Nat, NEW v \in [1..n -> Int], NEW i \in 1..n, NEW j \in 2..i,
         Misplaced(v, i, j), v[j] > v[j - 1],
         NEW w, AreExchanged(v, w, n, j, j - 1)
  PROVE  Misplaced(w, i, j - 1)
<1>1. /\ w \in [1..n -> Int] /\ w[j - 1] = v[j] /\ w[j] = v[j - 1]
      /\ \A k \in 1..n \ {j, j - 1} : w[k] = v[k]
  BY DEF AreExchanged
<1>2. j \in 1..n /\ j - 1 \in 1..n /\ v[j] \in Int /\ v[j - 1] \in Int OBVIOUS
<1>3. /\ \A k \in 2..i : k # j => v[k] <= v[k - 1]
      /\ j + 1 \in 2..i => v[j + 1] <= v[j - 1]
  BY DEF Misplaced
<1>4. ASSUME NEW k \in 2..i, k # j - 1 PROVE w[k] <= w[k - 1]
  <2>1. CASE k = j BY <1>1, <1>2, <2>1
  <2>2. CASE k = j + 1
    <3>1. k \in 1..n \ {j, j - 1} /\ k - 1 = j BY <2>2
    <3> QED BY <1>1, <1>3, <2>2, <3>1
  <2>3. CASE k # j /\ k # j + 1
    <3>1. k \in 1..n \ {j, j - 1} /\ k - 1 \in 1..n \ {j, j - 1} BY <1>4, <2>3
    <3> QED BY <1>1, <1>3, <2>3, <3>1
  <2> QED BY <2>1, <2>2, <2>3
<1>5. ASSUME j - 1 \in 2..i - 1 PROVE w[(j - 1) + 1] <= w[(j - 1) - 1]
  <2>1. (j - 1) + 1 = j /\ j - 1 \in 2..i /\ j - 1 # j BY <1>5
  <2>2. (j - 1) - 1 \in 1..n \ {j, j - 1} BY <1>5
  <2>3. v[j - 1] <= v[(j - 1) - 1] BY <1>3, <2>1
  <2> QED BY <1>1, <2>1, <2>2, <2>3
<1> QED BY <1>4, <1>5 DEF Misplaced

Entries(e, n) == {e[k] : k \in 1..n}

\* A turn keeps the entries.
LEMMA ExchangedEntries ==
  ASSUME NEW n \in Nat, NEW e \in [1..n -> Cand], NEW i \in 1..n, NEW j \in 1..n
  PROVE  Exchanged(e, i, j) \in [1..n -> Cand] /\ Entries(Exchanged(e, i, j), n) = Entries(e, n)
<1> DEFINE x == Exchanged(e, i, j)
<1>1. x = [k \in 1..n |-> IF k = j THEN e[i] ELSE IF k = i THEN e[j] ELSE e[k]]
  BY DEF Exchanged
<1> HIDE DEF x
<1>2. x \in [1..n -> Cand] BY <1>1
<1>3. \A k \in 1..n : \E l \in 1..n : x[k] = e[l] BY <1>1
<1>4. \A k \in 1..n : \E l \in 1..n : e[k] = x[l]
  <2>1. e[i] = x[j] /\ (i # j => e[j] = x[i]) BY <1>1
  <2>2. \A k \in 1..n \ {i, j} : e[k] = x[k] BY <1>1
  <2> QED BY <2>1, <2>2
<1>5. Entries(x, n) = Entries(e, n)
  <2>1. \A c : c \in Entries(x, n) <=> \E k \in 1..n : c = x[k] BY DEF Entries
  <2>2. \A c : c \in Entries(e, n) <=> \E k \in 1..n : c = e[k] BY DEF Entries
  <2>3. ASSUME NEW c, c \in Entries(x, n) PROVE c \in Entries(e, n)
    <3>1. PICK k \in 1..n : c = x[k] BY <2>1, <2>3
    <3>2. PICK l \in 1..n : x[k] = e[l] BY <1>3
    <3> QED BY <2>2, <3>1, <3>2
  <2>4. ASSUME NEW c, c \in Entries(e, n) PROVE c \in Entries(x, n)
    <3>1. PICK k \in 1..n : c = e[k] BY <2>2, <2>4
    <3>2. PICK l \in 1..n : e[k] = x[l] BY <1>4
    <3> QED BY <2>1, <3>1, <3>2
  <2> QED BY <2>3, <2>4
<1> QED BY <1>2, <1>5 DEF x

\* Sifting the entry at i to the left puts the first i entries in order.
LEMMA SiftOrders ==
  ASSUME NEW n \in Nat, NEW e \in [1..n -> Cand], NEW i \in 1..n,
         Falling(Scores(e, n), i - 1)
  PROVE  /\ SiftLeft(e, i) \in [1..n -> Cand]
         /\ Entries(SiftLeft(e, i), n) = Entries(e, n)
         /\ Falling(Scores(SiftLeft(e, i), n), i)
<1> DEFINE D == {x \in [out : [1..n -> Cand], at : 1..i] :
                   /\ Entries(x.out, n) = Entries(e, n)
                   /\ Misplaced(Scores(x.out, n), i, x.at)}
           F == [x \in D |-> LeftTurn(x)]
           a == [out |-> e, at |-> i]
           m == [x \in D |-> x.at]
<1>1. ASSUME NEW x \in D
      PROVE  /\ LeftTurn(x) \in D
             /\ LeftTurn(x) = x \/ LeftTurn(x).at < x.at
             /\ LeftTurn(x) = x => Falling(Scores(x.out, n), i)
  <2> DEFINE j == x.at
             v == Scores(x.out, n)
  <2>1. /\ x.out \in [1..n -> Cand] /\ j \in 1..i /\ Misplaced(v, i, j)
        /\ Entries(x.out, n) = Entries(e, n)
    OBVIOUS
  <2> HIDE DEF D, F, a, m
  <2>2. v \in [1..n -> Int] /\ \A k \in 1..n : v[k] = x.out[k].score
    BY <2>1, ScoresType
  <2>3. j \in 1..n /\ (j > 1 => j - 1 \in 1..n) BY <2>1
  <2>4. LeftTurn(x) = IF j > 1 /\ x.out[j].score > x.out[j - 1].score
                      THEN [out |-> Exchanged(x.out, j, j - 1), at |-> j - 1] ELSE x
    BY DEF LeftTurn
  <2> HIDE DEF j, v
  <2>5. CASE ~(j > 1 /\ x.out[j].score > x.out[j - 1].score)
    <3>1. ASSUME NEW k \in 2..i PROVE v[k] <= v[k - 1]
      <4>1. CASE k # j BY <2>1, <4>1 DEF Misplaced
      <4>2. CASE k = j
        <5>1. j > 1 /\ j - 1 \in 1..n BY <2>3, <4>2
        <5>2. ~(v[j] > v[j - 1]) BY <2>2, <2>3, <2>5, <5>1
        <5>3. v[j] \in Int /\ v[j - 1] \in Int BY <2>2, <2>3, <5>1
        <5> QED BY <4>2, <5>2, <5>3
      <4> QED BY <4>1, <4>2
    <3>2. Falling(v, i) BY <3>1 DEF Falling
    <3> QED BY <2>4, <2>5, <3>2 DEF v
  <2>6. CASE j > 1 /\ x.out[j].score > x.out[j - 1].score
    <3> DEFINE y == Exchanged(x.out, j, j - 1)
               w == Scores(y, n)
    <3>1. j \in 2..i /\ j - 1 \in 1..i /\ j - 1 \in 1..n /\ j # j - 1
      BY <2>1, <2>3, <2>6
    <3>2. v[j] > v[j - 1] BY <2>2, <2>3, <2>6, <3>1
    <3>3. y \in [1..n -> Cand] /\ Entries(y, n) = Entries(e, n)
      BY <2>1, <2>3, <3>1, ExchangedEntries
    <3>4. AreExchanged(v, w, n, j, j - 1)
      BY <2>1, <2>3, <3>1, ScoresExchanged DEF v
    <3> HIDE DEF w, y
    <3>5. Misplaced(w, i, j - 1)
      BY <2>1, <2>2, <3>1, <3>2, <3>4, MisplacedStep
    <3>6. [out |-> y, at |-> j - 1] \in D BY <3>1, <3>3, <3>5 DEF w, D
    <3>7. LeftTurn(x) = [out |-> y, at |-> j - 1] BY <2>4, <2>6 DEF y
    <3>8. [out |-> y, at |-> j - 1].at < x.at BY <3>1 DEF j
    <3>9. [out |-> y, at |-> j - 1] # x BY <3>1 DEF j
    <3> QED BY <3>6, <3>7, <3>8, <3>9
  <2> QED BY <2>5, <2>6
<1>2. a \in D /\ a.at = i /\ i \in Nat
  <2>1. Misplaced(Scores(e, n), i, i)
    <3>1. \A k \in 2..i : k # i => k \in 2..i - 1 OBVIOUS
    <3> QED BY <3>1 DEF Misplaced, Falling
  <2> QED BY <2>1
<1>3. \A x \in D : /\ x.at \in Nat /\ x.out \in [1..n -> Cand]
                   /\ Entries(x.out, n) = Entries(e, n)
  OBVIOUS
<1> HIDE DEF D, a
<1>4. F \in [D -> D] /\ m \in [D -> Nat] /\ m[a] <= i BY <1>1, <1>2, <1>3
<1>5. Lowers(F, D, m) /\ \A x \in D : F[x] = LeftTurn(x) BY <1>1 DEF Lowers
<1> HIDE DEF F, m
<1>6. PICK s \in [0..i -> D] : IsRun(s, F, a, i) /\ EndsAt(D, F, a, i, s[i])
  BY <1>2, <1>4, <1>5, LoopEnds
<1>7. s = [k \in 0..i |-> IF k = 0 THEN a ELSE LeftTurn(s[k - 1])]
  <2>1. \A k \in 1..i : s[k] = LeftTurn(s[k - 1])
    <3> SUFFICES ASSUME NEW k \in 1..i PROVE s[k] = LeftTurn(s[k - 1]) OBVIOUS
    <3>1. k - 1 \in 0..i OBVIOUS
    <3>2. s[k - 1] \in D BY <1>6, <3>1
    <3>3. s[k] = F[s[k - 1]] BY <1>6 DEF IsRun
    <3> QED BY <1>5, <3>2, <3>3
  <2> QED BY <1>6, <2>1 DEF IsRun
<1>8. PICK f : /\ f = [k \in 0..i |-> IF k = 0 THEN a ELSE LeftTurn(f[k - 1])]
               /\ SiftLeft(e, i) = f[i].out
  BY <1>2, <1>7 DEF SiftLeft, Turns, a
<1>9. Follows(f, F, D, a, i) BY <1>2, <1>5, <1>8 DEF Follows
<1>10. f[i] \in D /\ LeftTurn(f[i]) = f[i]
  BY <1>5, <1>6, <1>9 DEF EndsAt
<1> QED BY <1>1, <1>3, <1>8, <1>10

\* The first i entries of a rearrangement of e are in drain's order.
Drained(x, e, n, i) ==
  x \in [1..n -> Cand] /\ Entries(x, n) = Entries(e, n) /\ Falling(Scores(x, n), i)

\* One more sift, one more entry in order.
LEMMA DrainStep ==
  ASSUME NEW n \in Nat, NEW e, NEW x, NEW i \in 0..n - 1, Drained(x, e, n, i)
  PROVE  Drained(SiftLeft(x, i + 1), e, n, i + 1)
<1>1. i + 1 \in 1..n /\ (i + 1) - 1 = i OBVIOUS
<1> DEFINE j == i + 1
<1>2. j \in 1..n /\ Falling(Scores(x, n), j - 1) BY <1>1 DEF Drained
<1>3. x \in [1..n -> Cand] /\ Entries(x, n) = Entries(e, n) BY DEF Drained
<1> HIDE DEF j
<1>4. /\ SiftLeft(x, j) \in [1..n -> Cand]
      /\ Entries(SiftLeft(x, j), n) = Entries(x, n)
      /\ Falling(Scores(SiftLeft(x, j), n), j)
  BY <1>2, <1>3, SiftOrders
<1> QED BY <1>3, <1>4 DEF Drained, j

\* drain's insertion sort puts all entries in order.
LEMMA DrainOrders ==
  ASSUME NEW n \in Nat, NEW h, h.e \in [1..n -> Cand]
  PROVE  Drained(Drain(h), h.e, n, n)
<1> DEFINE e == h.e
           D == {x \in [at : 0..n, out : [1..n -> Cand]] : Drained(x.out, e, n, x.at)}
           Step(x) == IF x.at = n THEN x
                      ELSE [at |-> x.at + 1, out |-> SiftLeft(x.out, x.at + 1)]
           F == [x \in D |-> Step(x)]
           a == [at |-> 0, out |-> e]
<1>1. Len(e) = n BY AsSequence
<1>2. Drained(e, e, n, 0) BY DEF Drained, Falling
<1> HIDE DEF e
<1>3. a \in D BY <1>2 DEF Drained
<1>4. ASSUME NEW x \in D PROVE Step(x) \in D
  <2>1. CASE x.at = n BY <2>1
  <2>2. CASE x.at # n
    <3>1. x.at \in 0..n - 1 /\ Drained(x.out, e, n, x.at) BY <2>2
    <3>2. Drained(SiftLeft(x.out, x.at + 1), e, n, x.at + 1) BY <3>1, DrainStep
    <3>3. x.at + 1 \in 0..n /\ SiftLeft(x.out, x.at + 1) \in [1..n -> Cand]
      BY <3>1, <3>2 DEF Drained
    <3> QED BY <2>2, <3>2, <3>3
  <2> QED BY <2>1, <2>2
<1>5. \A x \in D : x.at \in 0..n OBVIOUS
<1>6. a.at = 0 /\ a.out = e OBVIOUS
<1> HIDE DEF D, a
<1>7. F \in [D -> D] /\ \A x \in D : F[x] = Step(x) BY <1>4
<1> HIDE DEF F
<1>8. PICK s \in [0..n -> D] : IsRun(s, F, a, n) BY <1>3, <1>7, RunExists
<1>9. \A k \in 1..n : s[k - 1] \in D /\ s[k] = Step(s[k - 1])
  BY <1>7, <1>8 DEF IsRun
<1>10. \A k \in 0..n : s[k].at = k
  <2> DEFINE S == {k \in 0..n : s[k].at = k}
  <2>1. 0 \in S BY <1>6, <1>8 DEF IsRun
  <2>2. ASSUME NEW k \in 0..n - 1, k \in S PROVE k + 1 \in S
    <3>1. k + 1 \in 1..n /\ (k + 1) - 1 = k /\ s[k].at = k /\ k # n BY <2>2
    <3>2. s[k + 1] = Step(s[k]) BY <1>9, <3>1
    <3>3. s[k + 1].at = k + 1 BY <3>1, <3>2
    <3> QED BY <3>1, <3>3
  <2>3. 0..n \subseteq S
    <3> HIDE DEF S
    <3> QED BY <2>1, <2>2, IntervalInduction
  <2> QED BY <2>3
<1> DEFINE u == [k \in 0..n |-> s[k].out]
<1>11. u = [k \in 0..n |-> IF k = 0 THEN e ELSE SiftLeft(u[k - 1], k)]
  <2>1. u[0] = e BY <1>6, <1>8 DEF IsRun
  <2>2. ASSUME NEW k \in 1..n PROVE u[k] = SiftLeft(u[k - 1], k)
    <3>1. s[k - 1].at = k - 1 /\ k - 1 # n /\ (k - 1) + 1 = k BY <1>10
    <3>2. \A x : x.at = k - 1 => Step(x).out = SiftLeft(x.out, k) BY <3>1
    <3>3. s[k] = Step(s[k - 1]) BY <1>9
    <3> HIDE DEF Step
    <3>4. s[k].out = SiftLeft(s[k - 1].out, k) BY <3>1, <3>2, <3>3
    <3> QED BY <3>4
  <2> HIDE DEF u
  <2>3. \A k \in 0..n : u[k] = IF k = 0 THEN e ELSE SiftLeft(u[k - 1], k)
    BY <2>1, <2>2
  <2>4. u = [k \in 0..n |-> u[k]] BY DEF u
  <2> QED BY <2>3, <2>4
<1> HIDE DEF u
<1>12. PICK f : /\ f = [k \in 0..n |-> IF k = 0 THEN e ELSE SiftLeft(f[k - 1], k)]
                /\ Drain(h) = f[n]
  BY <1>1, <1>11 DEF Drain, e
<1>13. \A k \in 0..n : Drained(f[k], e, n, k)
  <2> DEFINE S == {k \in 0..n : Drained(f[k], e, n, k)}
  <2>1. 0 \in S BY <1>2, <1>12
  <2>2. ASSUME NEW k \in 0..n - 1, k \in S PROVE k + 1 \in S
    <3>1. k + 1 \in 1..n /\ (k + 1) - 1 = k OBVIOUS
    <3>2. f[k + 1] = SiftLeft(f[k], k + 1)
      <4>1. k + 1 \in 0..n /\ k + 1 # 0 OBVIOUS
      <4>2. \A l \in 0..n : f[l] = (IF l = 0 THEN e ELSE SiftLeft(f[l - 1], l)) BY <1>12
      <4> HIDE DEF S
      <4>3. f[k + 1] = SiftLeft(f[(k + 1) - 1], k + 1) BY <4>1, <4>2
      <4> QED BY <3>1, <4>3
    <3>3. Drained(SiftLeft(f[k], k + 1), e, n, k + 1) BY <2>2, DrainStep
    <3> QED BY <3>1, <3>2, <3>3
  <2>3. 0..n \subseteq S
    <3> HIDE DEF S
    <3> QED BY <2>1, <2>2, IntervalInduction
  <2> QED BY <2>3
<1> QED BY <1>12, <1>13 DEF e

\* What a list holds, read off its entries, is the function it lists.
LEMMA HoldsHeld ==
  ASSUME NEW h, NEW g, NEW n, IsTopK(h, g, n)
  PROVE  HeldIn(h) = g /\ IsFiniteSet(DOMAIN g) /\ Cardinality(DOMAIN g) = n
<1>1. n \in Nat /\ h \in Lists(g, n) /\ g = [o \in DOMAIN g |-> g[o]]
  BY KAssumption DEF IsTopK
<1> QED BY <1>1, ListHolds

\* An empty list is a shortlist of nothing.
LEMMA EmptyTopK ==
  ASSUME NEW h, h = NewTopK, NEW b, b = [o \in {} |-> 0]
  PROVE  /\ IsTopK(h, b, 0) /\ HeldIn(h) = b
         /\ IsFiniteSet(DOMAIN b) /\ IsShortlist(b, b)
<1>1. b \in [{} -> Score] /\ DOMAIN b = {} OBVIOUS
<1>2. h.e = <<>> /\ h.pos = b /\ h = [e |-> h.e, pos |-> h.pos] BY DEF NewTopK
<1>3. h.e \in [1..0 -> Cand] /\ h.pos \in [DOMAIN b -> 1..0] BY <1>1, <1>2
<1>4. h \in Lists(b, 0)
  <2>1. h \in [e : [1..0 -> Cand], pos : [DOMAIN b -> 1..0]] BY <1>2, <1>3
  <2>2. \A i \in 1..0 : FALSE OBVIOUS
  <2> QED BY <1>1, <2>1, <2>2 DEF Lists
<1>5. Heaped(Scores(h.e, 0), 0) BY DEF Heaped
<1>6. IsTopK(h, b, 0) BY <1>1, <1>4, <1>5, KAssumption DEF IsTopK
<1>7. IsFiniteSet({}) /\ Cardinality({}) = 0 BY FS_EmptySet
<1>8. IsShortlist(b, b) BY <1>1, <1>7, KAssumption DEF IsShortlist
<1> QED BY <1>1, <1>6, <1>7, <1>8, HoldsHeld
=============================================================================
