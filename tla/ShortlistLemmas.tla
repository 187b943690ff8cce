-------------------------- MODULE ShortlistLemmas --------------------------
(***************************************************************************)
(* Lemmas the proofs about rankings, shortlists and the heap share: first  *)
(* elements of finite sets, loops that run until they have nothing to do,  *)
(* and the rule by which a best-K list takes an offer.                     *)
(***************************************************************************)
EXTENDS Shortlist, FiniteSetTheorems, WellFoundedInduction, TLAPS

\* Every finite nonempty set has an element that R puts none before, when R is
\* irreflexive and transitive: what makes "the cheapest entry" of a shortlist
\* and "the best candidate not yet listed" of a ranking exist.
LEMMA FirstExists ==
  ASSUME NEW S, IsFiniteSet(S), S # {}, NEW R,
         \A x \in S : <<x, x>> \notin R,
         \A x, y, z \in S : <<x, y>> \in R /\ <<y, z>> \in R => <<x, z>> \in R
  PROVE  \E m \in S : \A x \in S : <<x, m>> \notin R
<1> DEFINE Before(x) == {y \in S : <<y, x>> \in R}
           T == {Before(x) : x \in S}
           Strict == StrictSubsetOrdering(S)
<1>1. IsWellFoundedOn(Strict, FiniteSubsetsOf(S))
  BY FS_StrictSubsetOrderingWellFounded
<1>2. T \subseteq FiniteSubsetsOf(S) /\ T # {}
  <2>1. \A x \in S : Before(x) \in SUBSET S OBVIOUS
  <2>2. \A x \in S : IsFiniteSet(Before(x)) BY <2>1, FS_Subset
  <2>3. \A x \in S : Before(x) \in FiniteSubsetsOf(S)
    BY <2>1, <2>2 DEF FiniteSubsetsOf
  <2> HIDE DEF Before
  <2> QED BY <2>3
<1>3. PICK t \in T : \A u \in T : <<u, t>> \notin Strict
  <2> HIDE DEF T, Strict
  <2> QED BY <1>1, <1>2, WFMin
<1>4. PICK m \in S : t = Before(m) OBVIOUS
<1>5. ASSUME NEW x \in S, <<x, m>> \in R PROVE FALSE
  <2>1. Before(x) \subseteq Before(m) BY <1>5
  <2>2. x \in Before(m) /\ x \notin Before(x) BY <1>5
  <2>3. <<Before(x), t>> \in Strict BY <1>4, <2>1, <2>2 DEF StrictSubsetOrdering
  <2> QED BY <1>3, <2>3
<1> QED BY <1>5

\* A function into the integers has a smallest value on a finite nonempty set.
LEMMA CheapestExists ==
  ASSUME NEW S, IsFiniteSet(S), S # {}, NEW f, \A x \in S : f[x] \in Int
  PROVE  \E m \in S : \A x \in S : f[m] <= f[x]
<1> DEFINE R == {p \in S \X S : f[p[1]] < f[p[2]]}
<1>1. \A x, y \in S : <<x, y>> \in R <=> f[x] < f[y] OBVIOUS
<1>2. \A x \in S : <<x, x>> \notin R BY <1>1
<1>3. \A x, y, z \in S : <<x, y>> \in R /\ <<y, z>> \in R => <<x, z>> \in R
  BY <1>1
<1>4. PICK m \in S : \A x \in S : <<x, m>> \notin R
  <2> HIDE DEF R
  <2> QED BY <1>2, <1>3, FirstExists
<1>5. \A x \in S : ~(f[x] < f[m]) BY <1>1, <1>4
<1> QED BY <1>5

-----------------------------------------------------------------------------
\* Induction up to a bound, with the property given as a set.
LEMMA IntervalInduction ==
  ASSUME NEW N \in Nat, NEW S, 0 \in S, \A n \in 0..N - 1 : n \in S => n + 1 \in S
  PROVE  0..N \subseteq S
<1> DEFINE T == 0..N \ S
<1>1. SUFFICES ASSUME T # {} PROVE FALSE OBVIOUS
<1>2. IsWellFoundedOn(OpToRel(<, Nat), Nat) BY NatLessThanWellFounded
<1>3. T \subseteq Nat OBVIOUS
<1>4. PICK m \in T : \A k \in T : <<k, m>> \notin OpToRel(<, Nat)
  <2> HIDE DEF T
  <2> QED BY <1>1, <1>2, <1>3, WFMin
<1>5. m \in Nat /\ m # 0 /\ m - 1 \in 0..N - 1 OBVIOUS
<1>6. m - 1 \in T BY <1>5
<1>7. <<m - 1, m>> \in OpToRel(<, Nat) BY <1>5 DEF OpToRel
<1> QED BY <1>4, <1>6, <1>7

\* s is what a loop goes through in n turns of F from a.
IsRun(s, F, a, n) == s[0] = a /\ \A k \in 1..n : s[k] = F[s[k - 1]]

\* f goes the same way as long as it is in D.
Follows(f, F, D, a, n) ==
  f[0] = a /\ \A k \in 1..n : f[k - 1] \in D => f[k] = F[f[k - 1]]

\* A turn of F that does something lowers m.
Lowers(F, D, m) == \A x \in D : F[x] = x \/ m[F[x]] < m[x]

\* A loop whose turns stay in D goes through some sequence of states of D.
LEMMA RunExists ==
  ASSUME NEW D, NEW F \in [D -> D], NEW a \in D, NEW N \in Nat
  PROVE  \E s \in [0..N -> D] : IsRun(s, F, a, N)
<1> DEFINE S == {n \in 0..N : \E s \in [0..n -> D] : IsRun(s, F, a, n)}
<1>1. 0 \in S
  <2>1. [k \in 0..0 |-> a] \in [0..0 -> D] /\ IsRun([k \in 0..0 |-> a], F, a, 0)
    BY DEF IsRun
  <2> QED BY <2>1
<1>2. ASSUME NEW n \in 0..N - 1, n \in S PROVE n + 1 \in S
  <2>1. PICK s \in [0..n -> D] : IsRun(s, F, a, n) BY <1>2
  <2> DEFINE u == [k \in 0..n + 1 |-> IF k = n + 1 THEN F[s[n]] ELSE s[k]]
  <2>2. u \in [0..n + 1 -> D] OBVIOUS
  <2>3. u[0] = a /\ \A k \in 1..n + 1 : u[k] = F[u[k - 1]]
    BY <2>1 DEF IsRun
  <2> HIDE DEF u
  <2>4. IsRun(u, F, a, n + 1) BY <2>3 DEF IsRun
  <2> QED BY <2>2, <2>4
<1>3. 0..N \subseteq S
  <2> HIDE DEF S
  <2> QED BY <1>1, <1>2, IntervalInduction
<1> QED BY <1>3

\* A loop that, as long as it has something to do, lowers a measure of at most
\* N has nothing left to do after N turns.
LEMMA RunSettles ==
  ASSUME NEW D, NEW F \in [D -> D], NEW a \in D, NEW N \in Nat,
         NEW s \in [0..N -> D], IsRun(s, F, a, N),
         NEW m \in [D -> Nat], m[a] <= N,
         Lowers(F, D, m)
  PROVE  F[s[N]] = s[N]
<1> DEFINE S == {n \in 0..N : F[s[n]] = s[n] \/ m[s[n]] <= N - n}
<1>1. 0 \in S BY DEF IsRun
<1>2. ASSUME NEW n \in 0..N - 1, n \in S PROVE n + 1 \in S
  <2>1. s[n + 1] = F[s[n]] /\ s[n] \in D /\ n + 1 \in 0..N BY DEF IsRun
  <2>2. CASE F[s[n]] = s[n] BY <2>1, <2>2
  <2>3. CASE F[s[n]] # s[n]
    <3>1. m[s[n + 1]] < m[s[n]] BY <2>1, <2>3 DEF Lowers
    <3>2. m[s[n]] <= N - n BY <1>2, <2>3
    <3>3. m[s[n + 1]] \in Nat /\ m[s[n]] \in Nat BY <2>1
    <3>4. m[s[n + 1]] <= N - (n + 1) BY <3>1, <3>2, <3>3
    <3> QED BY <2>1, <3>4
  <2> QED BY <2>2, <2>3
<1>3. 0..N \subseteq S
  <2> HIDE DEF S
  <2> QED BY <1>1, <1>2, IntervalInduction
<1>4. F[s[N]] = s[N] \/ m[s[N]] <= 0 BY <1>3
<1>5. m[F[s[N]]] \in Nat /\ m[s[N]] \in Nat /\ s[N] \in D OBVIOUS
<1> QED BY <1>4, <1>5 DEF Lowers

\* Where such a loop ends, and that any function that follows the same turns
\* from the same start is there after N of them.
EndsAt(D, F, a, N, z) ==
  /\ z \in D /\ F[z] = z
  /\ \A f : Follows(f, F, D, a, N) => f[N] = z

\* A loop that stays in D and lowers a measure ends, and some sequence s is it.
LEMMA LoopEnds ==
  ASSUME NEW D, NEW F \in [D -> D], NEW a \in D, NEW N \in Nat,
         NEW m \in [D -> Nat], m[a] <= N,
         Lowers(F, D, m)
  PROVE  \E s \in [0..N -> D] : IsRun(s, F, a, N) /\ EndsAt(D, F, a, N, s[N])
<1>1. PICK s \in [0..N -> D] : IsRun(s, F, a, N) BY RunExists
<1>2. F[s[N]] = s[N] BY <1>1, RunSettles, Zenon
<1>3. ASSUME NEW f, Follows(f, F, D, a, N) PROVE f[N] = s[N]
  <2> DEFINE S == {n \in 0..N : f[n] = s[n]}
  <2>1. 0 \in S BY <1>1, <1>3 DEF IsRun, Follows
  <2>2. ASSUME NEW n \in 0..N - 1, n \in S PROVE n + 1 \in S
    <3>1. f[n] = s[n] /\ s[n] \in D BY <2>2
    <3>2. n + 1 \in 1..N /\ (n + 1) - 1 = n OBVIOUS
    <3>3. f[n + 1] = F[f[n]] BY <1>3, <3>1, <3>2 DEF Follows
    <3>4. s[n + 1] = F[s[n]] BY <1>1, <3>2 DEF IsRun
    <3> QED BY <3>1, <3>3, <3>4
  <2>3. 0..N \subseteq S
    <3> HIDE DEF S
    <3> QED BY <2>1, <2>2, IntervalInduction
  <2> QED BY <2>3
<1>4. s[N] \in D OBVIOUS
<1> QED BY <1>1, <1>2, <1>3, <1>4 DEF EndsAt

-----------------------------------------------------------------------------
\* f with o set to s, and f after o is offered with s.
With(f, o, s) == [p \in DOMAIN f \cup {o} |-> IF p = o THEN s ELSE f[p]]
Risen(f, o, s) == IF o \in DOMAIN f /\ f[o] >= s THEN f ELSE With(f, o, s)

\* p could sit at the root of the min-heap.
IsCheapest(h, p) == p \in DOMAIN h /\ \A q \in DOMAIN h : h[p] <= h[q]

\* The rule of topK.add: h becomes g when o is offered with s.
Takes(h, o, s, g) ==
  \/ o \in DOMAIN h /\ g = Risen(h, o, s)
  \/ /\ o \notin DOMAIN h /\ Cardinality(DOMAIN h) < K
     /\ g = With(h, o, s)
  \/ /\ o \notin DOMAIN h /\ Cardinality(DOMAIN h) >= K
     /\ \A p \in DOMAIN h : IsCheapest(h, p) => s <= h[p]
     /\ g = h
  \/ /\ o \notin DOMAIN h /\ Cardinality(DOMAIN h) >= K
     /\ \E p \in DOMAIN h :
          /\ IsCheapest(h, p) /\ s > h[p]
          /\ g = With([q \in DOMAIN h \ {p} |-> h[q]], o, s)

IsRaise(B, f, o, s, g) ==
  /\ g \in [B \cup {o} -> Score]
  /\ g[o] >= s
  /\ o \in B => g[o] >= f[o]
  /\ \A p \in B \ {o} : g[p] = f[p]
  /\ g[o] = s \/ (o \in B /\ g[o] = f[o])

\* A function into the scores, raised at one place.
LEMMA RisenType ==
  ASSUME NEW B, NEW f \in [B -> Score], NEW o, NEW s \in Score
  PROVE  IsRaise(B, f, o, s, Risen(f, o, s))
<1> DEFINE g == Risen(f, o, s)
<1> SUFFICES IsRaise(B, f, o, s, g) OBVIOUS
<1>0. s \in Int /\ \A p \in B : f[p] \in Int BY ScoreAssumption
<1>1. CASE o \in B /\ f[o] >= s
  <2>1. g = f /\ B \cup {o} = B BY <1>1 DEF Risen
  <2> HIDE DEF g
  <2> QED BY <1>0, <1>1, <2>1 DEF IsRaise
<1>2. CASE ~(o \in B /\ f[o] >= s)
  <2>1. g = [p \in B \cup {o} |-> IF p = o THEN s ELSE f[p]]
    BY <1>2 DEF Risen, With
  <2>2. /\ g \in [B \cup {o} -> Score] /\ g[o] = s
        /\ \A p \in B \ {o} : g[p] = f[p]
    BY <2>1
  <2>3. s >= s /\ (o \in B => s >= f[o]) BY <1>0, <1>2
  <2> HIDE DEF g
  <2> QED BY <2>2, <2>3 DEF IsRaise
<1> QED BY <1>1, <1>2

\* Every branch of topK.add keeps a best-K list h of f a best-K list.
LEMMA TakesKeeps ==
  ASSUME NEW B, NEW f \in [B -> Score], IsFiniteSet(B),
         NEW D \in SUBSET B, NEW h \in [D -> Score], IsShortlist(f, h),
         NEW o, NEW s \in Score, NEW g, Takes(h, o, s, g)
  PROVE  /\ DOMAIN g \subseteq B \cup {o} /\ g \in [DOMAIN g -> Score]
         /\ IsShortlist(Risen(f, o, s), g)
<1> DEFINE b == Risen(f, o, s)
<1>1. /\ b \in [B \cup {o} -> Score] /\ DOMAIN b = B \cup {o}
      /\ b[o] >= s
      /\ o \in B => b[o] >= f[o]
      /\ \A p \in B \ {o} : b[p] = f[p]
      /\ b[o] = s \/ (o \in B /\ b[o] = f[o])
  <2>1. IsRaise(B, f, o, s, b) BY RisenType
  <2> HIDE DEF b
  <2> QED BY <2>1 DEF IsRaise
<1> HIDE DEF b
<1>2. /\ IsFiniteSet(D) /\ Cardinality(D) \in Nat
      /\ \A p \in D : h[p] = f[p] /\ h[p] \in Int /\ f[p] \in Int
      /\ \A p \in B : f[p] \in Int
      /\ Cardinality(D) <= K
      /\ D # B => Cardinality(D) = K
      /\ \A p \in D, q \in B \ D : f[q] <= h[p]
      /\ s \in Int /\ K \in Nat \ {0}
      /\ \A p \in B \cup {o} : b[p] \in Int
      /\ DOMAIN h = D /\ DOMAIN f = B
  BY <1>1, FS_Subset, FS_CardinalityType, ScoreAssumption, KAssumption DEF IsShortlist
<1>3. CASE o \in D /\ g = Risen(h, o, s)
  <2>1. /\ g \in [D -> Score] /\ DOMAIN g = D
        /\ g[o] >= s
        /\ g[o] >= h[o]
        /\ \A p \in D \ {o} : g[p] = h[p]
        /\ g[o] = s \/ g[o] = h[o]
    <3>1. D \cup {o} = D BY <1>3
    <3>2. IsRaise(D, h, o, s, g) BY <1>3, RisenType
    <3> QED BY <1>3, <3>1, <3>2 DEF IsRaise
  <2>2. B \cup {o} = B /\ g[o] \in Int BY <1>3, <2>1, ScoreAssumption
  <2>3. g[o] = b[o] BY <1>1, <1>2, <1>3, <2>1, <2>2
  <2>4. \A p \in D : g[p] = b[p] /\ g[p] >= h[p] /\ g[p] \in Int
    BY <1>1, <1>2, <2>1, <2>2, <2>3
  <2>5. \A p \in D, q \in B \ D : b[q] <= g[p]
    <3> TAKE p \in D, q \in B \ D
    <3>1. b[q] = f[q] BY <1>1, <1>3
    <3>2. f[q] <= h[p] /\ h[p] <= g[p] BY <1>2, <2>4
    <3>3. f[q] \in Int /\ h[p] \in Int /\ g[p] \in Int BY <1>2, <2>4
    <3> QED BY <3>1, <3>2, <3>3
  <2>6. IsShortlist(b, g)
    BY <1>1, <1>2, <2>1, <2>2, <2>4, <2>5 DEF IsShortlist
  <2> QED BY <2>1, <2>6 DEF b
<1>4. CASE o \notin D /\ Cardinality(D) < K /\ g = With(h, o, s)
  <2>1. /\ g \in [D \cup {o} -> Score] /\ DOMAIN g = D \cup {o}
        /\ \A p \in D : g[p] = h[p]
        /\ g[o] = s
    BY <1>4 DEF With
  <2>2. D = B BY <1>2, <1>4
  <2>3. b[o] = s BY <1>1, <1>4, <2>2
  <2>4. Cardinality(D \cup {o}) = Cardinality(D) + 1
    BY <1>2, <1>4, FS_AddElement
  <2>5. Cardinality(D \cup {o}) <= K BY <1>2, <1>4, <2>4
  <2>6. \A p \in D \cup {o} : g[p] = b[p] BY <1>1, <1>2, <1>4, <2>1, <2>2, <2>3
  <2>7. IsShortlist(b, g) BY <1>1, <2>1, <2>2, <2>5, <2>6 DEF IsShortlist
  <2> QED BY <2>1, <2>2, <2>7 DEF b
<1>5. CASE /\ o \notin D /\ Cardinality(D) >= K
           /\ \A p \in D : IsCheapest(h, p) => s <= h[p]
           /\ g = h
  <2>1. Cardinality(D) = K /\ D # {} BY <1>2, <1>5, FS_EmptySet
  <2>2. PICK m \in D : \A q \in D : h[m] <= h[q] BY <1>2, <2>1, CheapestExists
  <2>3. s <= h[m] BY <1>2, <1>5, <2>2 DEF IsCheapest
  <2>4. \A p \in D : s <= h[p] BY <1>2, <2>2, <2>3
  <2>5. \A p \in D, q \in (B \cup {o}) \ D : b[q] <= h[p]
    <3> TAKE p \in D, q \in (B \cup {o}) \ D
    <3>1. CASE q = o BY <1>1, <1>2, <1>5, <2>4, <3>1
    <3>2. CASE q # o BY <1>1, <1>2, <3>2
    <3> QED BY <3>1, <3>2
  <2>6. \A p \in D : h[p] = b[p] BY <1>1, <1>2, <1>5
  <2>7. IsShortlist(b, h) BY <1>1, <1>2, <2>1, <2>5, <2>6 DEF IsShortlist
  <2> QED BY <1>2, <1>5, <2>7 DEF b
<1>6. CASE /\ o \notin D /\ Cardinality(D) >= K
           /\ \E p \in D :
                /\ IsCheapest(h, p) /\ s > h[p]
                /\ g = With([q \in D \ {p} |-> h[q]], o, s)
  <2>1. PICK m \in D : /\ IsCheapest(h, m) /\ s > h[m]
                       /\ g = With([q \in D \ {m} |-> h[q]], o, s)
    BY <1>6
  <2>2. Cardinality(D) = K BY <1>2, <1>6
  <2>3. \A q \in D : h[m] <= h[q] BY <1>2, <2>1 DEF IsCheapest
  <2> DEFINE E == (D \ {m}) \cup {o}
  <2>4. /\ DOMAIN g = E /\ g \in [E -> Score]
        /\ \A p \in D \ {m} : g[p] = h[p]
        /\ g[o] = s
    <3>1. g = [p \in E |-> IF p = o THEN s ELSE h[p]] BY <1>6, <2>1 DEF With
    <3> QED BY <1>6, <3>1
  <2>5. Cardinality(E) = K
    <3>1. IsFiniteSet(D \ {m}) /\ Cardinality(D \ {m}) = K - 1
      BY <1>2, <2>2, FS_RemoveElement
    <3>2. o \notin D \ {m} BY <1>6
    <3>3. Cardinality(E) = Cardinality(D \ {m}) + 1
      BY <3>1, <3>2, FS_AddElement
    <3> QED BY <1>2, <3>1, <3>3
  <2>6. b[o] = s
    <3>1. CASE o \notin B BY <1>1, <3>1
    <3>2. CASE o \in B
      <4>1. f[o] <= h[m] /\ h[m] < s BY <1>2, <1>6, <2>1, <3>2
      <4> QED BY <1>1, <1>2, <3>2, <4>1
    <3> QED BY <3>1, <3>2
  <2>7. \A p \in E : g[p] = b[p] BY <1>1, <1>2, <1>6, <2>4, <2>6
  <2>8. \A p \in E : h[m] <= g[p] /\ g[p] \in Int
    BY <1>2, <2>1, <2>3, <2>4
  <2>9. \A q \in (B \cup {o}) \ E : b[q] <= h[m] /\ b[q] \in Int
    <3> TAKE q \in (B \cup {o}) \ E
    <3>1. q \in B \ {o} /\ b[q] = f[q] BY <1>1
    <3>2. CASE q = m BY <1>2, <3>1, <3>2
    <3>3. CASE q # m BY <1>2, <3>1, <3>3
    <3> QED BY <3>2, <3>3
  <2>10. \A p \in E, q \in (B \cup {o}) \ E : b[q] <= g[p]
    BY <1>2, <2>8, <2>9
  <2>11. E \subseteq B \cup {o} OBVIOUS
  <2> HIDE DEF E
  <2>12. IsShortlist(b, g)
    BY <1>1, <1>2, <2>4, <2>5, <2>7, <2>10, <2>11 DEF IsShortlist
  <2> QED BY <2>4, <2>11, <2>12 DEF b
<1> QED BY <1>2, <1>3, <1>4, <1>5, <1>6 DEF Takes
=============================================================================
