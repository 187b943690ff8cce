---------------------------- MODULE SearchProofs ----------------------------
(***************************************************************************)
(* Both kinds of search, for any index whose shortlists are best-K lists,  *)
(* and any caller: one restricted to some countries answers exactly the    *)
(* best Limit of every match in them; one of the whole world does when its *)
(* walk fits the pool, and with a shortlist loses no more than the sample  *)
(* may.  First what any ranking computes.                                  *)
(***************************************************************************)
EXTENDS Restricted, Unrestricted, ShortlistLemmas

\* f scores some of the matching records.
Ranks(f) == DOMAIN f \subseteq Ord /\ \A o \in DOMAIN f : f[o] \in Int

\* rank's order is a strict total order on the records it ranks.
LEMMA BeforeOrder ==
  ASSUME NEW f, Ranks(f)
  PROVE  /\ \A o \in DOMAIN f : ~Before(f, o, o)
         /\ \A o, p, q \in DOMAIN f :
              Before(f, o, p) /\ Before(f, p, q) => Before(f, o, q)
         /\ \A o, p \in DOMAIN f : o = p \/ Before(f, o, p) \/ Before(f, p, o)
<1>1. \A o \in DOMAIN f : f[o] \in Int /\ o \in Nat
  BY OrdAssumption DEF Ranks
<1>2. \A o \in DOMAIN f : ~Before(f, o, o) BY <1>1 DEF Before
<1>3. \A o, p, q \in DOMAIN f :
        Before(f, o, p) /\ Before(f, p, q) => Before(f, o, q)
  BY <1>1 DEF Before
<1>4. \A o, p \in DOMAIN f : o = p \/ Before(f, o, p) \/ Before(f, p, o)
  BY <1>1 DEF Before
<1> QED BY <1>2, <1>3, <1>4

\* The sets the ranking counts are finite.
LEMMA AheadFinite ==
  ASSUME NEW f, Ranks(f), NEW S \in SUBSET DOMAIN f
  PROVE  IsFiniteSet(DOMAIN f) /\ IsFiniteSet(S) /\ Cardinality(S) \in Nat
BY OrdAssumption, FS_Subset, FS_CardinalityType DEF Ranks

\* cands[:Limit] has Limit entries whenever there are that many candidates.
LEMMA TopIsLong ==
  ASSUME NEW f, Ranks(f), Cardinality(DOMAIN f) >= Limit
  PROVE  Cardinality(Top(f)) >= Limit
<1> DEFINE Rest == DOMAIN f \ Top(f)
           R == {p \in Rest \X Rest : Before(f, p[1], p[2])}
<1>1. Top(f) \in SUBSET DOMAIN f /\ Rest \in SUBSET DOMAIN f BY DEF Top
<1>2. /\ IsFiniteSet(DOMAIN f) /\ IsFiniteSet(Top(f)) /\ IsFiniteSet(Rest)
      /\ Cardinality(Top(f)) \in Nat /\ Limit \in Nat
      /\ Cardinality(DOMAIN f) \in Nat
  BY <1>1, AheadFinite, LimitAssumption
<1>3. SUFFICES ASSUME Cardinality(Top(f)) < Limit PROVE FALSE
  BY <1>2
<1>4. Rest # {}
  <2>1. Top(f) # DOMAIN f BY <1>2, <1>3
  <2> QED BY <1>1, <2>1
<1>5. PICK m \in Rest : \A x \in Rest : ~Before(f, x, m)
  <2>1. \A x, y \in Rest : <<x, y>> \in R <=> Before(f, x, y) OBVIOUS
  <2>2. \A x \in Rest : <<x, x>> \notin R BY <2>1, BeforeOrder
  <2>3. \A x, y, z \in Rest : <<x, y>> \in R /\ <<y, z>> \in R => <<x, z>> \in R
    BY <2>1, BeforeOrder
  <2>4. PICK m \in Rest : \A x \in Rest : <<x, m>> \notin R
    <3> HIDE DEF R, Rest
    <3> QED BY <1>2, <1>4, <2>2, <2>3, FirstExists
  <2> QED BY <2>1, <2>4
<1>6. Ahead(f, m) \subseteq Top(f) BY <1>5 DEF Ahead
<1>7. Cardinality(Ahead(f, m)) < Limit
  <2>1. Cardinality(Ahead(f, m)) <= Cardinality(Top(f))
    BY <1>2, <1>6, FS_Subset
  <2>2. Cardinality(Ahead(f, m)) \in Nat
    BY <1>1, <1>6, AheadFinite
  <2> QED BY <1>2, <1>3, <2>1, <2>2
<1>8. m \in Top(f) BY <1>7 DEF Top
<1> QED BY <1>8

\* cands[:Limit] has no more than Limit entries.
LEMMA TopIsShort ==
  ASSUME NEW f, Ranks(f)
  PROVE  Cardinality(Top(f)) <= Limit
<1> DEFINE R == {p \in Top(f) \X Top(f) : Before(f, p[2], p[1])}
<1>1. Top(f) \in SUBSET DOMAIN f BY DEF Top
<1>2. IsFiniteSet(Top(f)) /\ Cardinality(Top(f)) \in Nat /\ Limit \in Nat
  BY <1>1, AheadFinite, LimitAssumption
<1>3. CASE Top(f) = {}
  BY <1>2, <1>3, FS_EmptySet
<1>4. CASE Top(f) # {}
  <2>1. \A x, y \in Top(f) : <<x, y>> \in R <=> Before(f, y, x) OBVIOUS
  <2>2. \A x \in Top(f) : <<x, x>> \notin R BY <1>1, <2>1, BeforeOrder
  <2>3. \A x, y, z \in Top(f) : <<x, y>> \in R /\ <<y, z>> \in R => <<x, z>> \in R
    BY <1>1, <2>1, BeforeOrder
  <2>4. PICK m \in Top(f) : \A x \in Top(f) : <<x, m>> \notin R
    <3> HIDE DEF R
    <3> QED BY <1>2, <1>4, <2>2, <2>3, FirstExists
  <2>5. Top(f) \ {m} \subseteq Ahead(f, m)
    <3>1. \A x \in Top(f) \ {m} : Before(f, x, m)
      BY <1>1, <2>1, <2>4, BeforeOrder
    <3> QED BY <1>1, <3>1 DEF Ahead
  <2>6. /\ Ahead(f, m) \in SUBSET DOMAIN f
        /\ Cardinality(Ahead(f, m)) < Limit
    BY DEF Ahead, Top
  <2>7. Cardinality(Top(f) \ {m}) <= Cardinality(Ahead(f, m))
    BY <2>5, <2>6, AheadFinite, FS_Subset
  <2>8. Cardinality(Top(f) \ {m}) = Cardinality(Top(f)) - 1
    BY <1>2, FS_RemoveElement
  <2>9. Cardinality(Ahead(f, m)) \in Nat BY <2>6, AheadFinite
  <2> QED BY <1>2, <2>6, <2>7, <2>8, <2>9
<1> QED BY <1>3, <1>4

\* With no more candidates than the limit, none is cut off.
LEMMA AllTop ==
  ASSUME NEW f, Ranks(f), Cardinality(DOMAIN f) <= Limit
  PROVE  Top(f) = DOMAIN f
<1> SUFFICES ASSUME NEW o \in DOMAIN f PROVE Cardinality(Ahead(f, o)) < Limit
  BY DEF Top
<1>1. Ahead(f, o) \subseteq DOMAIN f \ {o} BY BeforeOrder DEF Ahead
<1>2. /\ DOMAIN f \ {o} \in SUBSET DOMAIN f /\ Ahead(f, o) \in SUBSET DOMAIN f
      /\ IsFiniteSet(DOMAIN f) /\ Cardinality(DOMAIN f) \in Nat
      /\ Limit \in Nat
  BY <1>1, AheadFinite, LimitAssumption
<1>3. Cardinality(DOMAIN f \ {o}) = Cardinality(DOMAIN f) - 1
  BY <1>2, FS_RemoveElement
<1>4. Cardinality(Ahead(f, o)) <= Cardinality(DOMAIN f \ {o})
  BY <1>1, <1>2, AheadFinite, FS_Subset
<1>5. Cardinality(Ahead(f, o)) \in Nat BY <1>2, AheadFinite
<1> QED BY <1>2, <1>3, <1>4, <1>5

\* How many records of f score above s.
Above(f, s) == {p \in DOMAIN f : f[p] > s}

\* A candidate with Limit others above it is cut off.
LEMMA OutrankedIsCut ==
  ASSUME NEW f, Ranks(f), NEW o \in DOMAIN f, NEW A \in SUBSET Ahead(f, o),
         Cardinality(A) >= Limit
  PROVE  o \notin Top(f)
<1>1. Ahead(f, o) \in SUBSET DOMAIN f BY DEF Ahead
<1>2. Cardinality(A) <= Cardinality(Ahead(f, o))
  BY <1>1, AheadFinite, FS_Subset
<1>3. Cardinality(A) \in Nat /\ Cardinality(Ahead(f, o)) \in Nat /\ Limit \in Nat
  BY <1>1, AheadFinite, LimitAssumption
<1> QED BY <1>2, <1>3 DEF Top

\* The first Limit of f are the first Limit of a ranking g that misses some of
\* f's records, or knows a lower score for them, as long as each of those has
\* Limit records of g scored above what f says it is worth.
LEMMA SameTop ==
  ASSUME NEW f, NEW g, Ranks(f), Ranks(g),
         DOMAIN g \subseteq DOMAIN f,
         \A o \in DOMAIN g : g[o] <= f[o],
         \A o \in DOMAIN f : \/ o \in DOMAIN g /\ g[o] = f[o]
                             \/ Cardinality(Above(g, f[o])) >= Limit
  PROVE  Answer(g) = Answer(f)
<1> DEFINE Known(o) == o \in DOMAIN g /\ g[o] = f[o]
<1>0. /\ \A o \in DOMAIN f : f[o] \in Int /\ o \in Nat
      /\ \A o \in DOMAIN g : g[o] \in Int /\ o \in DOMAIN f
  BY OrdAssumption DEF Ranks
<1>1. ASSUME NEW o \in DOMAIN f, ~Known(o)
      PROVE  o \notin Top(f) /\ o \notin Top(g)
  <2>1. Cardinality(Above(g, f[o])) >= Limit BY <1>1
  <2>2. Above(g, f[o]) \subseteq Ahead(f, o)
    BY <1>0, <1>1 DEF Above, Ahead, Before
  <2>3. o \notin Top(f) BY <2>1, <2>2, OutrankedIsCut
  <2>4. CASE o \in DOMAIN g
    <3>1. Above(g, f[o]) \subseteq Ahead(g, o)
      BY <1>0, <2>4 DEF Above, Ahead, Before
    <3> QED BY <2>1, <2>3, <2>4, <3>1, OutrankedIsCut
  <2>5. CASE o \notin DOMAIN g BY <2>3, <2>5 DEF Top
  <2> QED BY <2>4, <2>5
<1>2. ASSUME NEW o \in DOMAIN g, Known(o)
      PROVE  o \in Top(f) <=> o \in Top(g)
  <2>1. Ahead(g, o) \subseteq Ahead(f, o)
    <3> SUFFICES ASSUME NEW p \in Ahead(g, o) PROVE p \in Ahead(f, o) OBVIOUS
    <3>1. /\ p \in DOMAIN g /\ p \in DOMAIN f /\ g[p] <= f[p]
          /\ g[p] > g[o] \/ (g[p] = g[o] /\ p < o)
      BY <1>0 DEF Ahead, Before
    <3>2. f[p] > f[o] \/ (f[p] = f[o] /\ p < o)
      BY <1>0, <1>2, <3>1
    <3> QED BY <3>1, <3>2 DEF Ahead, Before
  <2>2. Ahead(f, o) \in SUBSET DOMAIN f /\ o \in DOMAIN f BY <1>0 DEF Ahead
  <2>3. o \in Top(f) => o \in Top(g)
    <3>1. Cardinality(Ahead(g, o)) <= Cardinality(Ahead(f, o))
      BY <2>1, <2>2, AheadFinite, FS_Subset
    <3>2. Cardinality(Ahead(g, o)) \in Nat /\ Cardinality(Ahead(f, o)) \in Nat
      BY <2>1, <2>2, AheadFinite
    <3> QED BY <3>1, <3>2, LimitAssumption DEF Top
  <2>4. ASSUME o \in Top(g) PROVE o \in Top(f)
    <3>1. Ahead(f, o) \subseteq Ahead(g, o)
      <4> SUFFICES ASSUME NEW p \in Ahead(f, o), p \notin Ahead(g, o) PROVE FALSE
        OBVIOUS
      <4>1. p \in DOMAIN f /\ Before(f, p, o) BY DEF Ahead
      <4>2. ~Known(p) BY <1>2, <4>1 DEF Ahead, Before
      <4>3. Cardinality(Above(g, f[p])) >= Limit BY <4>1, <4>2
      <4>4. g[o] <= f[p] BY <1>0, <1>2, <4>1 DEF Before
      <4>5. Above(g, f[p]) \subseteq Ahead(g, o)
        <5> SUFFICES ASSUME NEW r \in Above(g, f[p]) PROVE r \in Ahead(g, o)
          OBVIOUS
        <5>1. r \in DOMAIN g /\ g[r] > f[p] BY DEF Above
        <5>2. g[r] > g[o] BY <1>0, <4>1, <4>4, <5>1
        <5> QED BY <5>1, <5>2 DEF Ahead, Before
      <4> QED BY <2>4, <4>3, <4>5, OutrankedIsCut
    <3>2. Ahead(f, o) = Ahead(g, o) BY <2>1, <3>1
    <3> QED BY <2>2, <2>4, <3>2 DEF Top
  <2> QED BY <2>3, <2>4
<1>3. Top(f) = Top(g)
  <2>1. Top(f) \subseteq DOMAIN f /\ Top(g) \subseteq DOMAIN g BY DEF Top
  <2> HIDE DEF Known
  <2>2. ASSUME NEW o \in DOMAIN f PROVE o \in Top(f) <=> o \in Top(g)
    <3>1. CASE Known(o)
      <4>1. o \in DOMAIN g BY <3>1 DEF Known
      <4> QED BY <1>2, <3>1, <4>1
    <3>2. CASE ~Known(o) BY <1>1, <3>2
    <3> QED BY <3>1, <3>2
  <2> QED BY <2>1, <2>2
<1>4. \A o \in Top(f) : g[o] = f[o]
  <2>1. Top(f) \subseteq DOMAIN f BY DEF Top
  <2> QED BY <1>1, <2>1
<1> QED BY <1>3, <1>4 DEF Answer

-----------------------------------------------------------------------------
\* The view is of the shape UnrestrictedTypeOK says, in both kinds of search.
ViewTyped ==
  /\ cc \in [Ord -> Country] /\ plain \in [Ord -> Score]
  /\ DOMAIN exact \subseteq Ord /\ exact \in [DOMAIN exact -> Score]
  /\ near \in [Ord -> 0..NearBonus]

\* The numbers the model computes with are integers.
LEMMA ViewNumbers ==
  ASSUME ViewTyped
  PROVE  \A o \in Ord :
           /\ plain[o] \in Int /\ near[o] \in 0..NearBonus
           /\ o \in DOMAIN exact => exact[o] \in Int
           /\ WalkScore(o) \in Int /\ Bonus(o) \in Int /\ FullScore(o) \in Int
           /\ WalkScore(o) >= plain[o]
           /\ o \in DOMAIN exact => WalkScore(o) >= exact[o] + ExactBonus
           /\ cc[o] \in Country
<1> SUFFICES ASSUME NEW o \in Ord
    PROVE /\ plain[o] \in Int /\ near[o] \in 0..NearBonus
          /\ o \in DOMAIN exact => exact[o] \in Int
          /\ WalkScore(o) \in Int /\ Bonus(o) \in Int /\ FullScore(o) \in Int
          /\ WalkScore(o) >= plain[o]
          /\ o \in DOMAIN exact => WalkScore(o) >= exact[o] + ExactBonus
          /\ cc[o] \in Country
  OBVIOUS
<1>1. /\ plain[o] \in Int /\ near[o] \in 0..NearBonus
      /\ o \in DOMAIN exact => exact[o] \in Int
      /\ cc[o] \in Country
      /\ ExactBonus \in Nat /\ HomeBonus \in Nat /\ NearBonus \in Nat
  BY ScoreAssumption, BonusAssumption DEF ViewTyped
<1>2. /\ WalkScore(o) \in Int /\ WalkScore(o) >= plain[o]
      /\ o \in DOMAIN exact => WalkScore(o) >= exact[o] + ExactBonus
  BY <1>1 DEF WalkScore
<1>3. Bonus(o) \in Int BY <1>1 DEF Bonus
<1>4. FullScore(o) \in Int BY <1>2, <1>3 DEF FullScore
<1> QED BY <1>1, <1>2, <1>3, <1>4

\* Scores of some of the matching records.
Scores(f) == DOMAIN f \subseteq Ord /\ f \in [DOMAIN f -> Int]

\* r has every ordinal of f and g, with the higher of its scores.
Merges(r, f, g) ==
  /\ Scores(r) /\ DOMAIN r = DOMAIN f \cup DOMAIN g
  /\ \A o \in DOMAIN f : r[o] >= f[o]
  /\ \A o \in DOMAIN g : r[o] >= g[o]
  /\ \A o \in DOMAIN r : \/ o \in DOMAIN f /\ r[o] = f[o]
                         \/ o \in DOMAIN g /\ r[o] = g[o]

\* keep leaves each ordinal the higher of its scores.
LEMMA KeepFacts ==
  ASSUME NEW f, Scores(f), NEW g, Scores(g)
  PROVE  Merges(Keep(f, g), f, g)
<1>1. Keep(f, g) \in [DOMAIN f \cup DOMAIN g -> Int] BY DEF Keep, Scores
<1>2. DOMAIN Keep(f, g) = DOMAIN f \cup DOMAIN g BY DEF Keep
<1>3. \A o \in DOMAIN f \cup DOMAIN g :
        Keep(f, g)[o] = IF o \notin DOMAIN g THEN f[o]
                        ELSE IF o \in DOMAIN f /\ f[o] >= g[o] THEN f[o] ELSE g[o]
  BY DEF Keep
<1>4. /\ \A o \in DOMAIN f : f[o] \in Int
      /\ \A o \in DOMAIN g : g[o] \in Int
  BY DEF Scores
<1>5. Scores(Keep(f, g)) BY <1>1, <1>2 DEF Scores
<1> QED BY <1>2, <1>3, <1>4, <1>5 DEF Merges

\* A ranking's scores are integers, and rank adds the same bonus to each.
LEMMA ViewHinted ==
  ASSUME ViewTyped, NEW f, Scores(f)
  PROVE  /\ DOMAIN Hinted(f) = DOMAIN f
         /\ \A o \in DOMAIN f : Hinted(f)[o] = f[o] + Bonus(o)
         /\ Scores(Hinted(f)) /\ Ranks(Hinted(f))
<1>1. \A o \in DOMAIN f : Bonus(o) \in Int /\ f[o] \in Int
  BY ViewNumbers DEF Scores
<1>2. Hinted(f) \in [DOMAIN f -> Int] BY <1>1 DEF Hinted
<1>3. DOMAIN Hinted(f) = DOMAIN f BY DEF Hinted
<1> QED BY <1>1, <1>2, <1>3 DEF Scores, Ranks, Hinted

-----------------------------------------------------------------------------
(***************************************************************************)
(* Restricted.  Every match in a country already handled is known, or was  *)
(* left off a full shortlist that is still to be checked, or is outranked. *)
(***************************************************************************)
\* What never changes while the query runs.
RestrictedViewOK ==
  /\ \A o \in DOMAIN exact : exact[o] <= plain[o]
  /\ ~isNear => \A o \in Ord : near[o] = 0
  /\ \A c \in Country : hotLists[c] \in Lists(c)

\* The record has been gathered with everything it is worth.
Known(o) == o \in DOMAIN best /\ best[o] = WalkScore(o)

\* The record was left off a full shortlist that is still to be checked.
Floored(o) == cc[o] \in DOMAIN short /\ WalkScore(o) <= short[cc[o]]

\* Limit gathered records score above anything the record could.
Outranked(o) == Cardinality(Above(Hinted(best), FullScore(o))) >= Limit

NoneOverstated == \A o \in DOMAIN best : best[o] <= WalkScore(o)

\* Every match in a country already handled is accounted for.
Covered == \A o \in In(asked \ todo) : Known(o) \/ Floored(o) \/ Outranked(o)

\* What is known of the first ranking while the shortlists are checked.
RankedBefore ==
  /\ DOMAIN cands \subseteq DOMAIN best
  /\ \A o \in DOMAIN cands : cands[o] <= Hinted(best)[o]
  /\ ~walked => cands = Hinted(best)

RestrictedInv ==
  /\ RestrictedTypeOK /\ RestrictedViewOK /\ NoneOverstated /\ Covered
  /\ pc # "gather" => todo = {}
  /\ pc = "check" => RankedBefore
  /\ pc = "gather" => ~walked
  /\ pc = "done" => cands = Hinted(best) /\ DOMAIN short = {}

-----------------------------------------------------------------------------
\* The numbers the model computes with are integers.
LEMMA Numbers ==
  ASSUME RestrictedTypeOK
  PROVE  \A o \in Ord :
           /\ plain[o] \in Int /\ near[o] \in 0..NearBonus
           /\ o \in DOMAIN exact => exact[o] \in Int
           /\ WalkScore(o) \in Int /\ Bonus(o) \in Int /\ FullScore(o) \in Int
           /\ WalkScore(o) >= plain[o]
           /\ o \in DOMAIN exact => WalkScore(o) >= exact[o] + ExactBonus
           /\ cc[o] \in Country
BY ViewNumbers DEF RestrictedTypeOK, ViewTyped

\* What a record is worth depends on the view alone.
LEMMA RestrictedSameView ==
  ASSUME UNCHANGED restrictedIndex
  PROVE  /\ \A o : WalkScore(o)' = WalkScore(o)
         /\ \A o : FullScore(o)' = FullScore(o)
         /\ \A o : Bonus(o)' = Bonus(o)
         /\ \A C : In(C)' = In(C)
         /\ \A f : Hinted(f)' = [o \in DOMAIN f' |-> f'[o] + Bonus(o)]
         /\ RestrictedViewOK' = RestrictedViewOK
<1>1. /\ cc' = cc /\ plain' = plain /\ exact' = exact /\ home' = home
      /\ isNear' = isNear /\ near' = near /\ asked' = asked /\ hotLists' = hotLists
  BY DEF restrictedIndex, view
<1>2. \A o : WalkScore(o)' = WalkScore(o) BY <1>1 DEF WalkScore
<1>3. \A o : Bonus(o)' = Bonus(o) BY <1>1 DEF Bonus
<1>4. \A o : FullScore(o)' = FullScore(o) BY <1>2, <1>3 DEF FullScore
<1>5. \A C : In(C)' = In(C) BY <1>1 DEF In
<1>6. RestrictedViewOK' = RestrictedViewOK BY <1>1, <1>5 DEF RestrictedViewOK, Lists, Stored
<1> QED BY <1>2, <1>3, <1>4, <1>5, <1>6 DEF Hinted

\* A ranking's scores are integers, and rank adds the same bonus to each.
LEMMA HintedFacts ==
  ASSUME RestrictedTypeOK, NEW f, Scores(f)
  PROVE  /\ DOMAIN Hinted(f) = DOMAIN f
         /\ \A o \in DOMAIN f : Hinted(f)[o] = f[o] + Bonus(o)
         /\ Scores(Hinted(f)) /\ Ranks(Hinted(f))
BY ViewHinted DEF RestrictedTypeOK, ViewTyped

\* A step that gathers nothing leaves what is known, and who is outranked.
LEMMA RestrictedSameBest ==
  ASSUME UNCHANGED restrictedIndex, UNCHANGED best
  PROVE  /\ Hinted(best)' = Hinted(best)
         /\ \A o : Known(o)' = Known(o)
         /\ \A o : Outranked(o)' = Outranked(o)
<1>1. Hinted(best)' = Hinted(best) BY RestrictedSameView DEF Hinted
<1>2. \A o : Known(o)' = Known(o) BY RestrictedSameView DEF Known
<1>3. \A o : Above(Hinted(best), FullScore(o))' = Above(Hinted(best), FullScore(o))
  BY <1>1, RestrictedSameView DEF Above
<1> QED BY <1>1, <1>2, <1>3 DEF Outranked

\* A record outranked among some candidates stays outranked among more and
\* better ones.
LEMMA AboveMonotone ==
  ASSUME NEW f, Ranks(f), NEW g, Ranks(g), NEW s \in Int, NEW t \in Int, s <= t,
         DOMAIN f \subseteq DOMAIN g, \A o \in DOMAIN f : f[o] <= g[o],
         Cardinality(Above(f, t)) >= Limit
  PROVE  Cardinality(Above(g, s)) >= Limit
<1>1. Above(f, t) \subseteq Above(g, s) BY DEF Above, Ranks
<1>2. Above(g, s) \in SUBSET DOMAIN g BY DEF Above
<1>3. Cardinality(Above(f, t)) <= Cardinality(Above(g, s))
  BY <1>1, <1>2, AheadFinite, FS_Subset
<1>4. /\ Cardinality(Above(g, s)) \in Nat /\ Cardinality(Above(f, t)) \in Nat
      /\ Limit \in Nat
  BY <1>1, <1>2, AheadFinite, LimitAssumption
<1> QED BY <1>3, <1>4

\* b is best after the records of S and the exact matches of C were read.
GatheredOnly(b, S, C) ==
  /\ Scores(b) /\ DOMAIN b \subseteq In(asked)
  /\ DOMAIN best \subseteq DOMAIN b
  /\ \A o \in DOMAIN best : best[o] <= b[o]
  /\ \A o \in DOMAIN b : b[o] <= WalkScore(o)
  /\ \A o \in S : o \in DOMAIN b /\ b[o] = WalkScore(o)
  /\ \A o \in In(C) : WalkScore(o) # plain[o] =>
        o \in DOMAIN b /\ b[o] = WalkScore(o)

\* gatherCountryHot does that with S the shortlist, scanCountry with S
\* everything in the country.
LEMMA Gathering ==
  ASSUME RestrictedInv, NEW C \in SUBSET asked, NEW S \in SUBSET In(C),
         NEW b, b = Keep(Keep(best, Stored(S)), ExactHits(C))
  PROVE  GatheredOnly(b, S, C)
<1> DEFINE h == Stored(S)
           x == ExactHits(C)
           k == Keep(best, h)
<1>0. RestrictedTypeOK /\ NoneOverstated BY DEF RestrictedInv
<1>1. In(C) \subseteq In(asked) /\ In(asked) \subseteq Ord BY DEF In
<1>2. Scores(best) /\ DOMAIN best \subseteq In(asked)
  BY <1>0, <1>1 DEF RestrictedTypeOK, ScoresAsked, Scores
<1>3. Scores(h) /\ DOMAIN h = S /\ \A o \in S : h[o] = plain[o]
  BY <1>0, <1>1, Numbers DEF Stored, Scores
<1>4. /\ Scores(x) /\ DOMAIN x = In(C) \cap DOMAIN exact
      /\ \A o \in DOMAIN x : x[o] = exact[o] + ExactBonus
  BY <1>0, <1>1, Numbers, BonusAssumption DEF ExactHits, Scores
<1> HIDE DEF h, x
<1>5. /\ Scores(k) /\ DOMAIN k = DOMAIN best \cup S
      /\ \A o \in DOMAIN best : k[o] >= best[o]
      /\ \A o \in S : k[o] >= plain[o]
      /\ \A o \in DOMAIN k : \/ o \in DOMAIN best /\ k[o] = best[o]
                             \/ o \in S /\ k[o] = plain[o]
  <2>1. Merges(k, best, h) BY <1>2, <1>3, KeepFacts
  <2> HIDE DEF k
  <2> QED BY <1>3, <2>1 DEF Merges
<1>6. b = Keep(k, x) BY DEF h, x
<1> HIDE DEF k
<1>7. /\ Scores(b) /\ DOMAIN b = DOMAIN k \cup DOMAIN x
      /\ \A o \in DOMAIN k : b[o] >= k[o]
      /\ \A o \in DOMAIN x : b[o] >= x[o]
      /\ \A o \in DOMAIN b : \/ o \in DOMAIN k /\ b[o] = k[o]
                             \/ o \in DOMAIN x /\ b[o] = x[o]
  <2>1. Merges(Keep(k, x), k, x) BY <1>4, <1>5, KeepFacts
  <2> QED BY <1>6, <2>1 DEF Merges
<1>8. \A o \in DOMAIN b : o \in Ord /\ b[o] \in Int
  BY <1>7 DEF Scores
<1>9. \A o \in DOMAIN k : k[o] \in Int BY <1>5 DEF Scores
<1>10. \A o \in DOMAIN best : best[o] \in Int BY <1>2 DEF Scores
<1>11. DOMAIN b \subseteq In(asked) BY <1>1, <1>2, <1>4, <1>5, <1>7
<1>12. ASSUME NEW o \in DOMAIN best PROVE best[o] <= b[o] /\ o \in DOMAIN b
  <2>1. o \in DOMAIN k /\ o \in DOMAIN b /\ k[o] >= best[o] /\ b[o] >= k[o]
    BY <1>5, <1>7
  <2> QED BY <1>8, <1>9, <1>10, <2>1
<1>13. ASSUME NEW o \in DOMAIN b PROVE b[o] <= WalkScore(o)
  <2>1. /\ WalkScore(o) \in Int /\ WalkScore(o) >= plain[o] /\ plain[o] \in Int
        /\ o \in DOMAIN exact => WalkScore(o) >= exact[o] + ExactBonus
    BY <1>0, <1>8, Numbers
  <2>2. o \in DOMAIN best => best[o] <= WalkScore(o)
    BY <1>0 DEF NoneOverstated
  <2>3. CASE o \in DOMAIN x /\ b[o] = x[o] BY <1>4, <2>1, <2>3
  <2>4. CASE o \in DOMAIN k /\ b[o] = k[o] BY <1>5, <2>1, <2>2, <2>4
  <2> QED BY <1>7, <2>3, <2>4
<1>14. ASSUME NEW o \in In(C), o \in S \/ WalkScore(o) # plain[o]
       PROVE  o \in DOMAIN b /\ b[o] = WalkScore(o)
  <2>0. o \in Ord BY <1>1
  <2>1. /\ WalkScore(o) \in Int /\ plain[o] \in Int
        /\ o \in DOMAIN exact => exact[o] \in Int
    BY <1>0, <2>0, Numbers
  <2>2. CASE o \in DOMAIN exact /\ exact[o] + ExactBonus > plain[o]
    <3>1. WalkScore(o) = exact[o] + ExactBonus BY <2>2 DEF WalkScore
    <3>2. o \in DOMAIN x /\ x[o] = WalkScore(o) BY <1>4, <2>2, <3>1
    <3>3. o \in DOMAIN b /\ b[o] >= WalkScore(o) BY <1>7, <3>2
    <3> QED BY <1>8, <1>13, <2>1, <3>3
  <2>3. CASE ~(o \in DOMAIN exact /\ exact[o] + ExactBonus > plain[o])
    <3>1. WalkScore(o) = plain[o] BY <2>3 DEF WalkScore
    <3>2. o \in S BY <1>14, <3>1
    <3>3. o \in DOMAIN k /\ o \in DOMAIN b /\ k[o] >= plain[o] /\ b[o] >= k[o]
      BY <1>5, <1>7, <3>2
    <3> QED BY <1>8, <1>9, <1>13, <2>1, <3>1, <3>3
  <2> QED BY <2>2, <2>3
<1> QED BY <1>7, <1>11, <1>12, <1>13, <1>14 DEF GatheredOnly

\* Gathering more never loses what was known or who was outranked.
LEMMA GatherKeeps ==
  ASSUME RestrictedInv, UNCHANGED restrictedIndex, NEW C \in SUBSET asked, NEW S \in SUBSET In(C),
         best' = Keep(Keep(best, Stored(S)), ExactHits(C))
  PROVE  /\ ScoresAsked(best)' /\ NoneOverstated'
         /\ \A o \in Ord : Known(o) => Known(o)'
         /\ \A o \in Ord : Outranked(o) => Outranked(o)'
         /\ \A o \in S : Known(o)'
         /\ \A o \in In(C) : WalkScore(o) # plain[o] => Known(o)'
         /\ DOMAIN best \subseteq DOMAIN best'
         /\ \A o \in DOMAIN best : Hinted(best)[o] <= Hinted(best)'[o]
<1>0. RestrictedTypeOK /\ NoneOverstated BY DEF RestrictedInv
<1>1. PICK b : b = best' OBVIOUS
<1>2. GatheredOnly(b, S, C) BY <1>1, Gathering
<1>3. In(asked)' = In(asked) BY RestrictedSameView DEF restrictedIndex
<1>4. /\ Scores(b) /\ DOMAIN b \subseteq In(asked)
      /\ DOMAIN best \subseteq DOMAIN b
      /\ \A o \in DOMAIN best : best[o] <= b[o]
      /\ \A o \in DOMAIN b : b[o] <= WalkScore(o)
  BY <1>2 DEF GatheredOnly
<1>5. ScoresAsked(best)' BY <1>1, <1>3, <1>4 DEF ScoresAsked, Scores
<1>6. \A o : Known(o)' <=> o \in DOMAIN b /\ b[o] = WalkScore(o)
  BY <1>1, RestrictedSameView DEF Known
<1>7. NoneOverstated' BY <1>1, <1>4, RestrictedSameView DEF NoneOverstated
<1>8. Scores(best)
  BY <1>0 DEF RestrictedTypeOK, ScoresAsked, Scores, In
<1>9. \A o \in DOMAIN best : o \in Ord /\ best[o] \in Int
  BY <1>8 DEF Scores
<1>10. \A o \in DOMAIN b : o \in Ord /\ b[o] \in Int
  BY <1>4 DEF Scores
<1>11. ASSUME NEW o \in Ord, Known(o) PROVE Known(o)'
  <2>1. o \in DOMAIN best /\ best[o] = WalkScore(o) BY <1>11 DEF Known
  <2>2. o \in DOMAIN b /\ WalkScore(o) <= b[o] /\ b[o] <= WalkScore(o)
    BY <1>4, <2>1
  <2>3. WalkScore(o) \in Int BY <1>9, <2>1
  <2> QED BY <1>6, <1>10, <2>2, <2>3
<1>12. Hinted(best)' = Hinted(b) BY <1>1, RestrictedSameView DEF Hinted
<1>13. /\ DOMAIN Hinted(best) = DOMAIN best /\ DOMAIN Hinted(b) = DOMAIN b
       /\ \A o \in DOMAIN best : Hinted(best)[o] = best[o] + Bonus(o)
       /\ \A o \in DOMAIN b : Hinted(b)[o] = b[o] + Bonus(o)
       /\ Ranks(Hinted(best)) /\ Ranks(Hinted(b))
  BY <1>0, <1>4, <1>8, HintedFacts
<1>14. ASSUME NEW o \in DOMAIN best PROVE Hinted(best)[o] <= Hinted(b)[o]
  <2>1. best[o] \in Int /\ b[o] \in Int /\ best[o] <= b[o] /\ o \in DOMAIN b
    BY <1>4, <1>9, <1>10
  <2>2. Bonus(o) \in Int BY <1>0, <1>9, Numbers
  <2> QED BY <1>13, <2>1, <2>2
<1>15. ASSUME NEW o \in Ord, Outranked(o) PROVE Outranked(o)'
  <2>1. FullScore(o) \in Int BY <1>0, Numbers
  <2>2. FullScore(o) <= FullScore(o) BY <2>1
  <2>3. Cardinality(Above(Hinted(best), FullScore(o))) >= Limit
    BY <1>15 DEF Outranked
  <2>4. Cardinality(Above(Hinted(b), FullScore(o))) >= Limit
    BY <1>4, <1>13, <1>14, <2>1, <2>2, <2>3, AboveMonotone
  <2>5. Above(Hinted(best), FullScore(o))' = Above(Hinted(b), FullScore(o))
    BY <1>12, RestrictedSameView DEF Above
  <2> QED BY <2>4, <2>5 DEF Outranked
<1>16. /\ \A o \in S : Known(o)'
       /\ \A o \in In(C) : WalkScore(o) # plain[o] => Known(o)'
  BY <1>2, <1>6 DEF GatheredOnly
<1> QED BY <1>1, <1>4, <1>5, <1>7, <1>11, <1>12, <1>14, <1>15, <1>16

-----------------------------------------------------------------------------
\* The initial state satisfies the invariant.
LEMMA RestrictedInitInv == RestrictedInit => RestrictedInv
<1> SUFFICES ASSUME RestrictedInit PROVE RestrictedInv OBVIOUS
<1>1. /\ DOMAIN exact \subseteq Ord /\ exact \in [DOMAIN exact -> Score]
      /\ \A o \in DOMAIN exact : exact[o] <= plain[o]
  <2>1. PICK S \in SUBSET Ord : exact \in [S -> Score]
    BY DEF RestrictedInit, ViewInit
  <2>2. DOMAIN exact = S BY <2>1
  <2> QED BY <2>1, <2>2 DEF RestrictedInit, ViewInit
<1>2. DOMAIN Nothing = {} /\ ScoresAsked(Nothing)
  BY DEF Nothing, ScoresAsked
<1>3. /\ best = Nothing /\ cands = Nothing /\ DOMAIN short = {}
      /\ short \in [DOMAIN short -> Int]
      /\ pc = "gather" /\ todo = asked /\ walked = FALSE /\ asked \subseteq Country
  BY DEF RestrictedInit
<1>4. RestrictedTypeOK
  BY <1>1, <1>2, <1>3 DEF RestrictedInit, ViewInit, RestrictedTypeOK
<1>5. RestrictedViewOK BY <1>1 DEF RestrictedInit, ViewInit, RestrictedViewOK
<1>6. NoneOverstated BY <1>2, <1>3 DEF NoneOverstated
<1>7. Covered BY <1>3 DEF Covered, In
<1> QED BY <1>3, <1>4, <1>5, <1>6, <1>7 DEF RestrictedInv

\* Handling one country keeps the invariant when each of its matches is then
\* known, or is below the floor of a shortlist remembered for later.
LEMMA GatherStep ==
  ASSUME RestrictedInv, pc = "gather", NEW c \in todo, NEW S \in SUBSET In({c}),
         best' = Keep(Keep(best, Stored(S)), ExactHits({c})),
         todo' = todo \ {c}, UNCHANGED <<restrictedIndex, pc, cands, walked>>,
         DOMAIN short' \subseteq asked \ todo', short' \in [DOMAIN short' -> Int],
         \A d \in DOMAIN short : d \in DOMAIN short' /\ short'[d] = short[d],
         \A o \in In({c}) : Known(o)' \/ Floored(o)'
  PROVE  RestrictedInv'
<1>0. RestrictedTypeOK /\ RestrictedViewOK /\ Covered /\ todo \subseteq asked /\ ~walked
  BY DEF RestrictedInv, RestrictedTypeOK
<1>1. UNCHANGED restrictedIndex /\ {c} \in SUBSET asked BY <1>0
<1>2. /\ cc' = cc /\ plain' = plain /\ exact' = exact /\ home' = home
      /\ isNear' = isNear /\ near' = near /\ asked' = asked /\ hotLists' = hotLists
  BY <1>1 DEF restrictedIndex, view
<1>3. /\ ScoresAsked(best)' /\ NoneOverstated'
      /\ \A o \in Ord : Known(o) => Known(o)'
      /\ \A o \in Ord : Outranked(o) => Outranked(o)'
  BY <1>1, GatherKeeps
<1>4. RestrictedViewOK' BY <1>0, <1>1, RestrictedSameView
<1>5. ScoresAsked(cands)' BY <1>0, <1>2 DEF RestrictedTypeOK, ScoresAsked, In
<1>6. RestrictedTypeOK' BY <1>0, <1>2, <1>3, <1>5 DEF RestrictedTypeOK
<1>7. Covered'
  <2> SUFFICES ASSUME NEW o \in In(asked \ todo)'
      PROVE (Known(o) \/ Floored(o) \/ Outranked(o))'
    BY DEF Covered
  <2>1. o \in Ord /\ cc[o] \in asked /\ cc[o] \notin todo \ {c}
    BY <1>2 DEF In
  <2>2. CASE cc[o] = c
    <3>1. o \in In({c}) BY <2>1, <2>2 DEF In
    <3> QED BY <3>1
  <2>3. CASE cc[o] # c
    <3>1. o \in In(asked \ todo) BY <2>1, <2>3 DEF In
    <3>2. Known(o) \/ Floored(o) \/ Outranked(o) BY <1>0, <3>1 DEF Covered
    <3>3. Floored(o) => Floored(o)' BY <1>1, <1>2, RestrictedSameView DEF Floored
    <3> QED BY <1>3, <2>1, <3>2, <3>3
  <2> QED BY <2>2, <2>3
<1> QED BY <1>0, <1>3, <1>4, <1>6, <1>7 DEF RestrictedInv

\* Countries without a shortlist are walked whole.
LEMMA GatherWalkInv ==
  ASSUME RestrictedInv, NEW c \in Country, GatherWalk(c)
  PROVE  RestrictedInv'
<1>1. /\ pc = "gather" /\ c \in todo /\ todo' = todo \ {c} /\ short' = short
      /\ best' = Keep(Keep(best, Stored(In({c}))), ExactHits({c}))
      /\ UNCHANGED <<restrictedIndex, pc, cands, walked>> /\ UNCHANGED restrictedIndex
  BY DEF GatherWalk, Scanned
<1>2. {c} \in SUBSET asked BY <1>1 DEF RestrictedInv, RestrictedTypeOK
<1>3. \A o \in In({c}) : Known(o)' BY <1>1, <1>2, GatherKeeps
<1>4. DOMAIN short' \subseteq asked \ todo' /\ short' \in [DOMAIN short' -> Int]
  BY <1>1 DEF RestrictedInv, RestrictedTypeOK
<1> QED BY <1>1, <1>3, <1>4, GatherStep

\* A shortlist with room to spare leaves nothing out.
LEMMA GatherSpareInv ==
  ASSUME RestrictedInv, NEW c \in Country, GatherSpare(c)
  PROVE  RestrictedInv'
<1>1. /\ pc = "gather" /\ c \in todo /\ todo' = todo \ {c} /\ short' = short
      /\ best' = Keep(Keep(best, Stored(hotLists[c])), ExactHits({c}))
      /\ UNCHANGED <<restrictedIndex, pc, cands, walked>> /\ UNCHANGED restrictedIndex
      /\ hotLists[c] # {} /\ Cardinality(hotLists[c]) < HotK
  BY DEF GatherSpare, FromList, HotIn
<1>2. {c} \in SUBSET asked BY <1>1 DEF RestrictedInv, RestrictedTypeOK
<1>3. hotLists[c] \in Lists(c) BY DEF RestrictedInv, RestrictedViewOK
<1>4. hotLists[c] \in SUBSET In({c}) /\ IsShortlist(Stored(In({c})), Stored(hotLists[c]))
  BY <1>1, <1>3 DEF Lists
<1>5. hotLists[c] = In({c})
  <2>1. /\ DOMAIN Stored(In({c})) = In({c})
        /\ DOMAIN Stored(hotLists[c]) = hotLists[c]
    BY DEF Stored
  <2>2. Cardinality(hotLists[c]) # K
    <3>1. hotLists[c] \subseteq Ord BY <1>4 DEF In
    <3>2. Cardinality(hotLists[c]) \in Nat
      BY <3>1, OrdAssumption, FS_Subset, FS_CardinalityType
    <3> QED BY <1>1, <3>2, KAssumption, HotKAssumption
  <2> QED BY <1>4, <2>1, <2>2 DEF IsShortlist
<1>6. \A o \in In({c}) : Known(o)' BY <1>1, <1>2, <1>5, GatherKeeps
<1>7. DOMAIN short' \subseteq asked \ todo' /\ short' \in [DOMAIN short' -> Int]
  BY <1>1 DEF RestrictedInv, RestrictedTypeOK
<1> QED BY <1>1, <1>4, <1>6, <1>7, GatherStep

\* What a full shortlist leaves out scores no higher than its last entry,
\* unless it is the exact match, which was read besides.
LEMMA GatherFullInv ==
  ASSUME RestrictedInv, NEW c \in Country, GatherFull(c)
  PROVE  RestrictedInv'
<1>1. /\ pc = "gather" /\ c \in todo /\ todo' = todo \ {c}
      /\ best' = Keep(Keep(best, Stored(hotLists[c])), ExactHits({c}))
      /\ UNCHANGED <<restrictedIndex, pc, cands, walked>> /\ UNCHANGED restrictedIndex
      /\ hotLists[c] # {}
  BY DEF GatherFull, FromList, HotIn
<1>2. PICK m \in hotLists[c] :
        /\ \A o \in hotLists[c] : plain[m] <= plain[o]
        /\ short' = [d \in DOMAIN short \cup {c} |->
                       IF d = c THEN plain[m] ELSE short[d]]
  BY DEF GatherFull
<1>3. /\ {c} \in SUBSET asked /\ RestrictedTypeOK /\ c \notin DOMAIN short
  BY <1>1 DEF RestrictedInv, RestrictedTypeOK
<1>4. hotLists[c] \in Lists(c) BY DEF RestrictedInv, RestrictedViewOK
<1>5. hotLists[c] \in SUBSET In({c}) /\ IsShortlist(Stored(In({c})), Stored(hotLists[c]))
  BY <1>1, <1>4 DEF Lists
<1>6. m \in Ord /\ plain[m] \in Int
  BY <1>3, <1>5, Numbers DEF In
<1>7. /\ short' \in [DOMAIN short' -> Int] /\ DOMAIN short' = DOMAIN short \cup {c}
      /\ short'[c] = plain[m]
      /\ \A d \in DOMAIN short : short'[d] = short[d]
  BY <1>2, <1>3, <1>6 DEF RestrictedTypeOK
<1>8. DOMAIN short' \subseteq asked \ todo'
  BY <1>1, <1>3, <1>7 DEF RestrictedTypeOK
<1>9. ASSUME NEW o \in In({c}) PROVE Known(o)' \/ Floored(o)'
  <2>1. o \in hotLists[c] \/ WalkScore(o) # plain[o] => Known(o)'
    BY <1>1, <1>3, <1>5, GatherKeeps
  <2>2. CASE o \notin hotLists[c] /\ WalkScore(o) = plain[o]
    <3>1. plain[o] <= plain[m]
      <4>1. /\ DOMAIN Stored(In({c})) = In({c}) /\ Stored(In({c}))[o] = plain[o]
            /\ DOMAIN Stored(hotLists[c]) = hotLists[c] /\ Stored(hotLists[c])[m] = plain[m]
        BY <1>2 DEF Stored
      <4> QED BY <1>5, <2>2, <4>1 DEF IsShortlist
    <3>2. cc'[o] = c BY <1>1 DEF In, restrictedIndex, view
    <3>3. WalkScore(o)' = plain[o] BY <1>1, <2>2, RestrictedSameView
    <3> QED BY <1>7, <3>1, <3>2, <3>3 DEF Floored
  <2> QED BY <2>1, <2>2
<1> QED BY <1>1, <1>5, <1>7, <1>8, <1>9, GatherStep

-----------------------------------------------------------------------------
\* The first ranking starts the checks, or is the answer.
LEMMA RankRestrictedInv == RestrictedInv /\ RankRestricted => RestrictedInv'
<1> SUFFICES ASSUME RestrictedInv, RankRestricted PROVE RestrictedInv' OBVIOUS
<1>1. /\ UNCHANGED restrictedIndex /\ todo = {} /\ cands' = Hinted(best)
      /\ UNCHANGED <<todo, best, short, walked>> /\ pc = "gather" /\ ~walked
      /\ pc' = IF DOMAIN short = {} THEN "done" ELSE "check"
  BY DEF RankRestricted, RestrictedInv, RestrictedTypeOK
<1>2. /\ cc' = cc /\ plain' = plain /\ exact' = exact /\ home' = home
      /\ isNear' = isNear /\ near' = near /\ asked' = asked /\ hotLists' = hotLists
  BY <1>1 DEF restrictedIndex, view
<1>3. RestrictedTypeOK /\ RestrictedViewOK /\ Covered /\ NoneOverstated BY DEF RestrictedInv
<1>4. Scores(best) BY <1>3 DEF RestrictedTypeOK, ScoresAsked, Scores, In
<1>5. Hinted(best)' = Hinted(best) BY <1>1, RestrictedSameView DEF Hinted
<1>6. /\ DOMAIN Hinted(best) = DOMAIN best /\ Scores(Hinted(best))
      /\ \A o \in DOMAIN best : Hinted(best)[o] \in Int
  BY <1>3, <1>4, HintedFacts DEF Ranks
<1>7. ScoresAsked(best)' /\ ScoresAsked(cands)'
  BY <1>1, <1>2, <1>3, <1>6 DEF RestrictedTypeOK, ScoresAsked, Scores, In
<1>8. RestrictedTypeOK' BY <1>1, <1>2, <1>3, <1>7 DEF RestrictedTypeOK
<1>9. RestrictedViewOK' BY <1>1, <1>3, RestrictedSameView
<1>10. NoneOverstated' BY <1>1, <1>3, RestrictedSameView DEF NoneOverstated
<1>11. Covered'
  <2> SUFFICES ASSUME NEW o \in In(asked \ todo)'
      PROVE (Known(o) \/ Floored(o) \/ Outranked(o))'
    BY DEF Covered
  <2>1. o \in In(asked \ todo) BY <1>1, <1>2 DEF In
  <2>2. Known(o) \/ Floored(o) \/ Outranked(o) BY <1>3, <2>1 DEF Covered
  <2>3. Known(o) => Known(o)' BY <1>1, RestrictedSameView DEF Known
  <2>4. Floored(o) => Floored(o)' BY <1>1, <1>2, RestrictedSameView DEF Floored
  <2>5. Outranked(o) => Outranked(o)' BY <1>1, RestrictedSameBest
  <2> QED BY <2>2, <2>3, <2>4, <2>5
<1>12. RankedBefore' BY <1>1, <1>5, <1>6 DEF RankedBefore
<1> QED BY <1>1, <1>5, <1>8, <1>9, <1>10, <1>11, <1>12 DEF RestrictedInv

\* Nothing a trusted shortlist left out can reach the results: its ceiling is
\* below the cut-off, so Limit candidates score above all of it.
LEMMA TrustInv ==
  ASSUME RestrictedInv, NEW c \in Country, Trust(c)
  PROVE  RestrictedInv'
<1>1. /\ UNCHANGED restrictedIndex /\ pc = "check" /\ c \in DOMAIN short /\ BelowCutoff(c)
      /\ short' = [d \in DOMAIN short \ {c} |-> short[d]]
      /\ UNCHANGED <<pc, todo, best, cands, walked>>
  BY DEF Trust
<1>2. /\ cc' = cc /\ plain' = plain /\ exact' = exact /\ home' = home
      /\ isNear' = isNear /\ near' = near /\ asked' = asked /\ hotLists' = hotLists
  BY <1>1 DEF restrictedIndex, view
<1>3. RestrictedTypeOK /\ RestrictedViewOK /\ Covered /\ NoneOverstated /\ RankedBefore
  BY <1>1 DEF RestrictedInv
<1>4. Scores(best) /\ Scores(cands) /\ Ranks(cands)
  BY <1>3 DEF RestrictedTypeOK, ScoresAsked, Scores, In, Ranks
<1>5. /\ Hinted(best)' = Hinted(best) /\ Ranks(Hinted(best))
      /\ DOMAIN Hinted(best) = DOMAIN best
  BY <1>1, <1>3, <1>4, RestrictedSameView, HintedFacts DEF Hinted
<1>6. /\ short' \in [DOMAIN short' -> Int] /\ DOMAIN short' = DOMAIN short \ {c}
      /\ \A d \in DOMAIN short' : short'[d] = short[d]
      /\ short[c] \in Int
  BY <1>1, <1>3 DEF RestrictedTypeOK
<1>7. RestrictedTypeOK'
  <2>1. ScoresAsked(best)' /\ ScoresAsked(cands)'
    BY <1>1, <1>2, <1>3 DEF RestrictedTypeOK, ScoresAsked, In
  <2> QED BY <1>1, <1>2, <1>3, <1>6, <2>1 DEF RestrictedTypeOK
<1>8. RestrictedViewOK' /\ NoneOverstated'
  BY <1>1, <1>3, RestrictedSameView DEF NoneOverstated
<1>9. ASSUME NEW o \in Ord, cc[o] = c, WalkScore(o) <= short[c]
      PROVE  Outranked(o)
  <2>1. /\ WalkScore(o) \in Int /\ FullScore(o) \in Int
        /\ near[o] \in 0..NearBonus
        /\ HomeBonus \in Nat /\ NearBonus \in Nat
    BY <1>3, Numbers, BonusAssumption
  <2>2. Ceiling(c) \in Int /\ FullScore(o) <= Ceiling(c)
    <3>1. ~isNear => near[o] = 0 BY <1>3 DEF RestrictedViewOK
    <3> QED BY <1>6, <1>9, <2>1, <3>1 DEF FullScore, Bonus, Ceiling
  <2>3. Cardinality(Top(cands)) >= Limit
    BY <1>1, <1>4, TopIsLong DEF BelowCutoff
  <2>4. Cardinality(Above(cands, Ceiling(c))) >= Limit
    <3>1. Top(cands) \subseteq Above(cands, Ceiling(c))
      <4>1. \A p \in Top(cands) : p \in DOMAIN cands /\ cands[p] \in Int
        BY <1>4 DEF Top, Ranks
      <4> QED BY <1>1, <2>2, <4>1 DEF BelowCutoff, Above
    <3>2. Above(cands, Ceiling(c)) \in SUBSET DOMAIN cands BY DEF Above
    <3>3. Cardinality(Top(cands)) <= Cardinality(Above(cands, Ceiling(c)))
      BY <1>4, <3>1, <3>2, AheadFinite, FS_Subset
    <3>4. /\ Cardinality(Top(cands)) \in Nat /\ Limit \in Nat
          /\ Cardinality(Above(cands, Ceiling(c))) \in Nat
      BY <1>4, <3>1, <3>2, AheadFinite, LimitAssumption
    <3> QED BY <2>3, <3>3, <3>4
  <2>5. /\ DOMAIN cands \subseteq DOMAIN Hinted(best)
        /\ \A p \in DOMAIN cands : cands[p] <= Hinted(best)[p]
    BY <1>3, <1>5 DEF RankedBefore
  <2>6. Cardinality(Above(Hinted(best), FullScore(o))) >= Limit
    BY <1>4, <1>5, <2>1, <2>2, <2>4, <2>5, AboveMonotone
  <2> QED BY <2>6 DEF Outranked
<1>10. Covered'
  <2> SUFFICES ASSUME NEW o \in In(asked \ todo)'
      PROVE (Known(o) \/ Floored(o) \/ Outranked(o))'
    BY DEF Covered
  <2>1. o \in In(asked \ todo) /\ o \in Ord BY <1>1, <1>2 DEF In
  <2>2. Known(o) \/ Floored(o) \/ Outranked(o) BY <1>3, <2>1 DEF Covered
  <2>3. Known(o) => Known(o)' BY <1>1, RestrictedSameView DEF Known
  <2>4. Outranked(o) => Outranked(o)' BY <1>1, RestrictedSameBest
  <2>5. CASE Floored(o) /\ cc[o] = c
    BY <1>9, <2>1, <2>4, <2>5 DEF Floored
  <2>6. CASE Floored(o) /\ cc[o] # c
    <3>1. WalkScore(o)' = WalkScore(o) BY <1>1, RestrictedSameView
    <3> QED BY <1>2, <1>6, <2>6, <3>1 DEF Floored
  <2> QED BY <2>2, <2>3, <2>4, <2>5, <2>6
<1>11. RankedBefore' BY <1>1, <1>3, <1>5 DEF RankedBefore
<1> QED BY <1>1, <1>7, <1>8, <1>10, <1>11 DEF RestrictedInv

\* A shortlist that is not trusted is replaced by a walk.
LEMMA DoubtInv ==
  ASSUME RestrictedInv, NEW c \in Country, Doubt(c)
  PROVE  RestrictedInv'
<1>1. /\ UNCHANGED restrictedIndex /\ pc = "check" /\ c \in DOMAIN short
      /\ best' = Keep(Keep(best, Stored(In({c}))), ExactHits({c}))
      /\ short' = [d \in DOMAIN short \ {c} |-> short[d]]
      /\ UNCHANGED <<pc, todo, cands>> /\ walked' = TRUE
  BY DEF Doubt, Scanned
<1>2. /\ cc' = cc /\ plain' = plain /\ exact' = exact /\ home' = home
      /\ isNear' = isNear /\ near' = near /\ asked' = asked /\ hotLists' = hotLists
  BY <1>1 DEF restrictedIndex, view
<1>3. RestrictedTypeOK /\ RestrictedViewOK /\ Covered /\ RankedBefore /\ {c} \in SUBSET asked
  BY <1>1 DEF RestrictedInv, RestrictedTypeOK
<1>4. /\ ScoresAsked(best)' /\ NoneOverstated'
      /\ \A o \in Ord : Known(o) => Known(o)'
      /\ \A o \in Ord : Outranked(o) => Outranked(o)'
      /\ \A o \in In({c}) : Known(o)'
      /\ DOMAIN best \subseteq DOMAIN best'
      /\ \A o \in DOMAIN best : Hinted(best)[o] <= Hinted(best)'[o]
  BY <1>1, <1>3, GatherKeeps
<1>5. /\ short' \in [DOMAIN short' -> Int] /\ DOMAIN short' = DOMAIN short \ {c}
      /\ \A d \in DOMAIN short' : short'[d] = short[d]
  BY <1>1, <1>3 DEF RestrictedTypeOK
<1>6. RestrictedTypeOK'
  <2>1. ScoresAsked(cands)' BY <1>1, <1>2, <1>3 DEF RestrictedTypeOK, ScoresAsked, In
  <2> QED BY <1>1, <1>2, <1>3, <1>4, <1>5, <2>1 DEF RestrictedTypeOK
<1>7. RestrictedViewOK' BY <1>1, <1>3, RestrictedSameView
<1>8. Covered'
  <2> SUFFICES ASSUME NEW o \in In(asked \ todo)'
      PROVE (Known(o) \/ Floored(o) \/ Outranked(o))'
    BY DEF Covered
  <2>1. o \in In(asked \ todo) /\ o \in Ord BY <1>1, <1>2 DEF In
  <2>2. Known(o) \/ Floored(o) \/ Outranked(o) BY <1>3, <2>1 DEF Covered
  <2>3. CASE cc[o] = c BY <1>4, <2>1, <2>3 DEF In
  <2>4. CASE Floored(o) /\ cc[o] # c
    <3>1. WalkScore(o)' = WalkScore(o) BY <1>1, RestrictedSameView
    <3> QED BY <1>2, <1>5, <2>4, <3>1 DEF Floored
  <2> QED BY <1>4, <2>1, <2>2, <2>3, <2>4
<1>9. RankedBefore'
  <2>1. Scores(best) /\ Scores(best)'
    BY <1>3, <1>4 DEF RestrictedTypeOK, ScoresAsked, Scores, In
  <2>2. \A o \in DOMAIN best : Hinted(best)[o] \in Int
    BY <1>3, <2>1, HintedFacts DEF Ranks
  <2>3. \A o \in DOMAIN best' : Hinted(best)'[o] \in Int
    <3>1. PICK b : b = best' OBVIOUS
    <3>2. Scores(b) BY <2>1, <3>1 DEF Scores
    <3>3. Hinted(best)' = Hinted(b) BY <1>1, <3>1, RestrictedSameView DEF Hinted
    <3> QED BY <1>3, <3>1, <3>2, <3>3, HintedFacts DEF Ranks
  <2>4. \A o \in DOMAIN cands : cands[o] \in Int /\ o \in DOMAIN best
    BY <1>3 DEF RestrictedTypeOK, ScoresAsked, RankedBefore
  <2>5. \A o \in DOMAIN cands : cands[o] <= Hinted(best)'[o]
    BY <1>3, <1>4, <2>2, <2>3, <2>4 DEF RankedBefore
  <2> QED BY <1>1, <1>4, <2>4, <2>5 DEF RankedBefore
<1> QED BY <1>1, <1>4, <1>6, <1>7, <1>8, <1>9 DEF RestrictedInv

\* After the checks the gathered records are ranked again if any walk added some.
LEMMA FinishInv == RestrictedInv /\ Finish => RestrictedInv'
<1> SUFFICES ASSUME RestrictedInv, Finish PROVE RestrictedInv' OBVIOUS
<1>1. /\ UNCHANGED restrictedIndex /\ pc = "check" /\ DOMAIN short = {}
      /\ UNCHANGED <<todo, best, short, walked>> /\ pc' = "done" /\ todo = {}
      /\ cands' = IF walked THEN Hinted(best) ELSE cands
  BY DEF Finish, RestrictedInv
<1>2. /\ cc' = cc /\ plain' = plain /\ exact' = exact /\ home' = home
      /\ isNear' = isNear /\ near' = near /\ asked' = asked /\ hotLists' = hotLists
  BY <1>1 DEF restrictedIndex, view
<1>3. RestrictedTypeOK /\ RestrictedViewOK /\ Covered /\ NoneOverstated /\ RankedBefore
  BY <1>1 DEF RestrictedInv
<1>4. Scores(best) BY <1>3 DEF RestrictedTypeOK, ScoresAsked, Scores, In
<1>5. Hinted(best)' = Hinted(best) BY <1>1, RestrictedSameView DEF Hinted
<1>6. DOMAIN Hinted(best) = DOMAIN best /\ Scores(Hinted(best))
  BY <1>3, <1>4, HintedFacts
<1>7. cands' = Hinted(best)'
  BY <1>1, <1>3, <1>5 DEF RankedBefore, RestrictedTypeOK
<1>8. ScoresAsked(best)' /\ ScoresAsked(cands)'
  BY <1>1, <1>2, <1>3, <1>5, <1>6, <1>7 DEF RestrictedTypeOK, ScoresAsked, Scores, In
<1>9. RestrictedTypeOK' BY <1>1, <1>2, <1>3, <1>8 DEF RestrictedTypeOK
<1>10. RestrictedViewOK' /\ NoneOverstated' BY <1>1, <1>3, RestrictedSameView DEF NoneOverstated
<1>11. Covered'
  <2> SUFFICES ASSUME NEW o \in In(asked \ todo)'
      PROVE (Known(o) \/ Floored(o) \/ Outranked(o))'
    BY DEF Covered
  <2>1. o \in In(asked \ todo) BY <1>1, <1>2 DEF In
  <2>2. Known(o) \/ Floored(o) \/ Outranked(o) BY <1>3, <2>1 DEF Covered
  <2>3. Known(o) => Known(o)' BY <1>1, RestrictedSameView DEF Known
  <2>4. ~Floored(o) BY <1>1 DEF Floored
  <2>5. Outranked(o) => Outranked(o)' BY <1>1, RestrictedSameBest
  <2> QED BY <2>2, <2>3, <2>4, <2>5
<1> QED BY <1>1, <1>7, <1>9, <1>10, <1>11 DEF RestrictedInv

-----------------------------------------------------------------------------
\* The invariant is inductive.
LEMMA RestrictedNextInv == RestrictedInv /\ [RestrictedNext]_restrictedVars => RestrictedInv'
<1> SUFFICES ASSUME RestrictedInv, [RestrictedNext]_restrictedVars PROVE RestrictedInv' OBVIOUS
<1>1. ASSUME NEW c \in Country, GatherFull(c) PROVE RestrictedInv' BY <1>1, GatherFullInv
<1>2. ASSUME NEW c \in Country, GatherSpare(c) PROVE RestrictedInv' BY <1>2, GatherSpareInv
<1>3. ASSUME NEW c \in Country, GatherWalk(c) PROVE RestrictedInv' BY <1>3, GatherWalkInv
<1>4. ASSUME NEW c \in Country, Trust(c) PROVE RestrictedInv' BY <1>4, TrustInv
<1>5. ASSUME NEW c \in Country, Doubt(c) PROVE RestrictedInv' BY <1>5, DoubtInv
<1>6. CASE RankRestricted BY <1>6, RankRestrictedInv
<1>7. CASE Finish BY <1>7, FinishInv
<1>8. CASE UNCHANGED restrictedVars
  <2>1. /\ UNCHANGED restrictedIndex /\ UNCHANGED best
        /\ UNCHANGED <<pc, todo, short, cands, walked>>
    BY <1>8 DEF restrictedVars, restrictedIndex
  <2>2. /\ cc' = cc /\ plain' = plain /\ exact' = exact /\ home' = home
        /\ isNear' = isNear /\ near' = near /\ asked' = asked /\ hotLists' = hotLists
    BY <2>1 DEF restrictedIndex, view
  <2>3. RestrictedTypeOK' BY <2>1, <2>2 DEF RestrictedInv, RestrictedTypeOK, ScoresAsked, In
  <2>4. RestrictedViewOK' /\ NoneOverstated'
    BY <2>1, RestrictedSameView DEF RestrictedInv, NoneOverstated
  <2>5. Covered'
    <3>1. \A o : Floored(o)' = Floored(o)
      BY <2>1, <2>2, RestrictedSameView DEF Floored
    <3>2. In(asked \ todo)' = In(asked \ todo) BY <2>1, <2>2 DEF In
    <3> QED BY <2>1, <3>1, <3>2, RestrictedSameBest DEF RestrictedInv, Covered
  <2>6. RankedBefore' = RankedBefore BY <2>1, RestrictedSameBest DEF RankedBefore
  <2> QED BY <2>1, <2>3, <2>4, <2>5, <2>6, RestrictedSameBest DEF RestrictedInv
<1>9. CASE DoneRestricted BY <1>8, <1>9 DEF DoneRestricted
<1> QED BY <1>1, <1>2, <1>3, <1>4, <1>5, <1>6, <1>7, <1>8, <1>9 DEF RestrictedNext

\* When every shortlist has been used up or replaced, each match is known or
\* outranked, so cutting what was gathered at Limit cuts the full ranking there.
LEMMA InvExact == RestrictedInv => ExactlyTheBest
<1> SUFFICES ASSUME RestrictedInv, pc = "done" PROVE Answer(cands) = Ideal(asked)
  BY DEF ExactlyTheBest
<1> DEFINE f == [o \in In(asked) |-> FullScore(o)]
<1>1. /\ RestrictedTypeOK /\ Covered /\ NoneOverstated /\ todo = {} /\ DOMAIN short = {}
      /\ cands = Hinted(best)
  BY DEF RestrictedInv
<1>2. In(asked) \subseteq Ord BY DEF In
<1>3. Scores(best) /\ DOMAIN best \subseteq In(asked)
  BY <1>1, <1>2 DEF RestrictedTypeOK, ScoresAsked, Scores
<1>4. /\ DOMAIN cands = DOMAIN best /\ Ranks(cands)
      /\ \A o \in DOMAIN best : cands[o] = best[o] + Bonus(o)
  BY <1>1, <1>3, HintedFacts
<1>5. /\ DOMAIN f = In(asked) /\ Ranks(f)
      /\ \A o \in In(asked) : f[o] = FullScore(o)
  BY <1>1, <1>2, Numbers DEF Ranks
<1>6. \A o \in DOMAIN cands : cands[o] <= f[o]
  <2> TAKE o \in DOMAIN cands
  <2>1. o \in In(asked) /\ o \in Ord /\ o \in DOMAIN best
    BY <1>2, <1>3, <1>4
  <2>2. best[o] \in Int /\ best[o] <= WalkScore(o)
    BY <1>1, <1>3, <2>1 DEF Scores, NoneOverstated
  <2>3. WalkScore(o) \in Int /\ Bonus(o) \in Int BY <1>1, <2>1, Numbers
  <2> QED BY <1>4, <1>5, <2>1, <2>2, <2>3 DEF FullScore
<1>7. \A o \in DOMAIN f : \/ o \in DOMAIN cands /\ cands[o] = f[o]
                          \/ Cardinality(Above(cands, f[o])) >= Limit
  <2> TAKE o \in DOMAIN f
  <2>1. o \in In(asked) /\ f[o] = FullScore(o) BY <1>5
  <2>2. Known(o) \/ Outranked(o)
    <3>1. In(asked \ todo) = In(asked) BY <1>1 DEF In
    <3>2. ~Floored(o) BY <1>1 DEF Floored
    <3> QED BY <1>1, <2>1, <3>1, <3>2 DEF Covered
  <2>3. CASE Known(o) BY <1>4, <2>1, <2>3 DEF Known, FullScore
  <2>4. CASE Outranked(o) BY <1>1, <2>1, <2>4 DEF Outranked
  <2> QED BY <2>2, <2>3, <2>4
<1>8. Answer(cands) = Answer(f)
  <2> HIDE DEF f
  <2> QED BY <1>3, <1>4, <1>5, <1>6, <1>7, SameTop
<1> QED BY <1>8 DEF Ideal

\* searchCountries gathers only records of the countries asked for, and its
\* bookkeeping stays well typed.
THEOREM RestrictedTypeCorrect == RestrictedSpec => []RestrictedTypeOK
<1>1. RestrictedInv => RestrictedTypeOK BY DEF RestrictedInv
<1> QED BY RestrictedInitInv, RestrictedNextInv, <1>1, PTL DEF RestrictedSpec

\* A restricted search returns exactly the best Limit of all matches in the
\* countries asked for, with the scores a full walk would give them, for every
\* index whose shortlists are best-K lists, every caller and every Limit.
THEOREM RestrictedIsExact == RestrictedSpec => []ExactlyTheBest
<1> QED BY RestrictedInitInv, RestrictedNextInv, InvExact, PTL DEF RestrictedSpec

-----------------------------------------------------------------------------
(***************************************************************************)
(* Unrestricted.                                                           *)
(***************************************************************************)
\* Every posting beneath the query.
All == {p \in Posting :
          IF p.exact THEN p.ord \in DOMAIN exact /\ p.score = exact[p.ord]
          ELSE p.ord \in longer /\ p.score = plain[p.ord]}

\* The score a posting is kept with.
Worth(p) == p.score + (IF p.exact THEN ExactBonus ELSE 0)

\* The record is a candidate with no less than s.
Has(o, s) == o \in DOMAIN best /\ best[o] >= s

\* The postings the walk has kept.
Seen == {p \in All : cc[p.ord] \notin todo /\ p \notin left}

\* What never changes while the query runs.
ViewOK ==
  /\ \A o \in DOMAIN exact : exact[o] <= plain[o]
  /\ \A o \in Ord : o \notin DOMAIN exact \/ exact[o] < plain[o] => o \in longer
  /\ list = {} \/ IsShortlist(Stored(Ord), Stored(list))

NoneTooHigh == \A o \in DOMAIN best : best[o] <= WalkScore(o)

\* The walk: what it has left, and that it kept everything else it came to.
Walking ==
  /\ left \subseteq All /\ \A p \in left : cc[p.ord] \notin todo
  /\ used = Cardinality(Seen)
  /\ \A p \in Seen : Has(p.ord, Worth(p))

\* The shortlist, and the exact matches of the countries already looked up.
Listing ==
  /\ pc # "start" => \A o \in list : Has(o, plain[o])
  /\ \A o \in DOMAIN exact : cc[o] \notin todo => Has(o, exact[o] + ExactBonus)

Inv ==
  /\ UnrestrictedTypeOK /\ ViewOK /\ NoneTooHigh
  /\ ~Hot => Walking
  /\ Hot => Listing /\ left = {}
  /\ pc = "exact" => Hot
  /\ pc = "scan" => ~Hot
  /\ pc = "start" => left = {} /\ todo = Country
  /\ pc = "done" => /\ cands = Hinted(best)
                    /\ Hot => todo = {}
                    /\ ~Hot => used = Pool \/ (left = {} /\ todo = {})

-----------------------------------------------------------------------------
\* The postings of a country are those of its records.
LEMMA PostingsOf ==
  ASSUME UnrestrictedTypeOK
  PROVE  /\ \A c \in Country : Postings(c) = {p \in All : cc[p.ord] = c}
         /\ UNION {Postings(c) : c \in Country} = All
         /\ All \subseteq Posting
<1>1. /\ cc \in [Ord -> Country] /\ plain \in [Ord -> Score] /\ longer \subseteq Ord
      /\ DOMAIN exact \subseteq Ord /\ exact \in [DOMAIN exact -> Score]
  BY DEF UnrestrictedTypeOK
<1>2. ASSUME NEW c \in Country PROVE Postings(c) = {p \in All : cc[p.ord] = c}
  <2>1. ASSUME NEW p \in Postings(c) PROVE p \in All /\ cc[p.ord] = c
    <3>1. CASE \E o \in In({c}) \cap longer :
                 p = [ord |-> o, score |-> plain[o], exact |-> FALSE]
      <4>1. PICK o \in In({c}) \cap longer :
                   p = [ord |-> o, score |-> plain[o], exact |-> FALSE]
        BY <3>1
      <4>2. o \in Ord /\ cc[o] = c /\ plain[o] \in Score BY <1>1, <4>1 DEF In
      <4> QED BY <4>1, <4>2 DEF All, Posting
    <3>2. CASE \E o \in In({c}) \cap DOMAIN exact :
                 p = [ord |-> o, score |-> exact[o], exact |-> TRUE]
      <4>1. PICK o \in In({c}) \cap DOMAIN exact :
                   p = [ord |-> o, score |-> exact[o], exact |-> TRUE]
        BY <3>2
      <4>2. o \in Ord /\ cc[o] = c /\ exact[o] \in Score BY <1>1, <4>1 DEF In
      <4> QED BY <4>1, <4>2 DEF All, Posting
    <3> QED BY <3>1, <3>2 DEF Postings
  <2>2. ASSUME NEW p \in All, cc[p.ord] = c PROVE p \in Postings(c)
    <3>1. p = [ord |-> p.ord, score |-> p.score, exact |-> p.exact]
          /\ p.ord \in In({c}) /\ p.exact \in BOOLEAN
      BY <2>2 DEF All, Posting, In
    <3>2. CASE p.exact
      <4>1. p.exact = TRUE BY <3>1, <3>2
      <4>2. p.ord \in DOMAIN exact /\ p.score = exact[p.ord] BY <3>2 DEF All
      <4> QED BY <3>1, <4>1, <4>2 DEF Postings
    <3>3. CASE ~p.exact
      <4>1. p.exact = FALSE BY <3>1, <3>3
      <4>2. p.ord \in longer /\ p.score = plain[p.ord] BY <3>3 DEF All
      <4> QED BY <3>1, <4>1, <4>2 DEF Postings
    <3> QED BY <3>2, <3>3
  <2> QED BY <2>1, <2>2
<1>3. \A p \in All : cc[p.ord] \in Country BY <1>1 DEF All, Posting
<1>4. All \subseteq Posting BY DEF All
<1> QED BY <1>2, <1>3, <1>4

\* There are finitely many, since each record has at most two.
LEMMA AllFinite == IsFiniteSet(All)
<1> DEFINE key == [p \in All |-> <<p.ord, p.exact>>]
<1>1. IsFiniteSet(Ord \X {TRUE, FALSE})
  <2>1. IsFiniteSet({} \cup {TRUE}) BY FS_EmptySet, FS_AddElement
  <2>2. IsFiniteSet(({} \cup {TRUE}) \cup {FALSE}) BY <2>1, FS_AddElement
  <2>3. ({} \cup {TRUE}) \cup {FALSE} = {TRUE, FALSE} OBVIOUS
  <2>4. IsFiniteSet({TRUE, FALSE}) BY <2>2, <2>3
  <2> QED BY <2>4, OrdAssumption, FS_Product
<1>2. \A p \in All : p.ord \in Ord /\ p.exact \in {TRUE, FALSE}
  BY DEF All, Posting
<1>3. key \in [All -> Ord \X {TRUE, FALSE}] BY <1>2
<1>4. ASSUME NEW p \in All, NEW q \in All, key[p] = key[q] PROVE p = q
  <2>1. p.ord = q.ord /\ p.exact = q.exact BY <1>4
  <2>2. p.score = q.score BY <2>1 DEF All
  <2>3. /\ p = [ord |-> p.ord, score |-> p.score, exact |-> p.exact]
        /\ q = [ord |-> q.ord, score |-> q.score, exact |-> q.exact]
    BY DEF All, Posting
  <2> QED BY <2>1, <2>2, <2>3
<1>5. key \in Injection(All, Ord \X {TRUE, FALSE})
  BY <1>3, <1>4 DEF Injection, IsInjective
<1> HIDE DEF key
<1> QED BY <1>1, <1>5, FS_Injection

\* What a record is worth depends on the view alone.
LEMMA SameView ==
  ASSUME UNCHANGED index
  PROVE  /\ \A o : WalkScore(o)' = WalkScore(o)
         /\ \A o : Bonus(o)' = Bonus(o)
         /\ All' = All /\ Hot' = Hot /\ ViewOK' = ViewOK
<1>1. /\ cc' = cc /\ plain' = plain /\ exact' = exact /\ home' = home
      /\ isNear' = isNear /\ near' = near /\ list' = list /\ longer' = longer
  BY DEF index, view
<1>2. \A o : WalkScore(o)' = WalkScore(o) BY <1>1 DEF WalkScore
<1>3. \A o : Bonus(o)' = Bonus(o) BY <1>1 DEF Bonus
<1>4. All' = All BY <1>1 DEF All
<1>5. Hot' = Hot BY <1>1 DEF Hot
<1>6. ViewOK' = ViewOK BY <1>1 DEF ViewOK, Stored
<1> QED BY <1>2, <1>3, <1>4, <1>5, <1>6

\* Keeping scores that are not too high keeps every candidate's score, and
\* raises none too high.
LEMMA Keeping ==
  ASSUME UnrestrictedTypeOK, NoneTooHigh, UNCHANGED index, NEW g, Scores(g),
         \A o \in DOMAIN g : g[o] <= WalkScore(o), best' = Keep(best, g)
  PROVE  /\ ScoreFunction(best)' /\ NoneTooHigh'
         /\ \A o, s : s \in Int /\ Has(o, s) => Has(o, s)'
         /\ \A o \in DOMAIN g : Has(o, g[o])'
<1>1. Scores(best) BY DEF UnrestrictedTypeOK, ScoreFunction, Scores
<1>2. Merges(best', best, g) BY <1>1, KeepFacts
<1>3. /\ Scores(best') /\ DOMAIN best' = DOMAIN best \cup DOMAIN g
      /\ \A o \in DOMAIN best : best'[o] >= best[o]
      /\ \A o \in DOMAIN g : best'[o] >= g[o]
      /\ \A o \in DOMAIN best' : \/ o \in DOMAIN best /\ best'[o] = best[o]
                                 \/ o \in DOMAIN g /\ best'[o] = g[o]
  BY <1>2 DEF Merges
<1>4. ScoreFunction(best)' BY <1>3 DEF Scores, ScoreFunction
<1>5. \A o \in DOMAIN best' : best'[o] <= WalkScore(o)
  BY <1>3 DEF NoneTooHigh
<1>6. NoneTooHigh' BY <1>5, SameView DEF NoneTooHigh
<1>7. /\ \A o \in DOMAIN best : best[o] \in Int
      /\ \A o \in DOMAIN best' : best'[o] \in Int
  BY <1>1, <1>3 DEF Scores
<1>8. ASSUME NEW o, NEW s, s \in Int, Has(o, s) PROVE Has(o, s)'
  <2>1. o \in DOMAIN best /\ best[o] >= s BY <1>8 DEF Has
  <2>2. o \in DOMAIN best' /\ best'[o] >= best[o] BY <1>3, <2>1
  <2>3. best'[o] >= s BY <1>7, <1>8, <2>1, <2>2
  <2> QED BY <2>2, <2>3 DEF Has
<1>9. \A o \in DOMAIN g : Has(o, g[o])' BY <1>3 DEF Has
<1> QED BY <1>4, <1>6, <1>8, <1>9

\* What a step that gathers nothing leaves alone.
LEMMA SameBest ==
  ASSUME UNCHANGED index, UNCHANGED best
  PROVE  /\ \A o, s : Has(o, s)' = Has(o, s)
         /\ NoneTooHigh' = NoneTooHigh
         /\ Hinted(best)' = Hinted(best)
BY SameView DEF Has, NoneTooHigh, Hinted

-----------------------------------------------------------------------------
\* The view is typed as the lemmas about rankings want it.
LEMMA Typed == UnrestrictedTypeOK => ViewTyped
BY DEF UnrestrictedTypeOK, ViewTyped

\* Before the first step nothing has been gathered.
LEMMA InitInv == Init => Inv
<1> SUFFICES ASSUME Init PROVE Inv OBVIOUS
<1>1. /\ DOMAIN exact \subseteq Ord /\ exact \in [DOMAIN exact -> Score]
      /\ \A o \in DOMAIN exact : exact[o] <= plain[o]
  <2>1. PICK S \in SUBSET Ord : exact \in [S -> Score]
    BY DEF Init, ViewInit
  <2>2. DOMAIN exact = S BY <2>1
  <2> QED BY <2>1, <2>2 DEF Init, ViewInit
<1>2. DOMAIN Nothing = {} /\ ScoreFunction(Nothing)
  BY DEF Nothing, ScoreFunction
<1>3. /\ best = Nothing /\ cands = Nothing
      /\ pc = "start" /\ todo = Country /\ at = NoCountry /\ left = {} /\ used = 0
  BY DEF Init
<1>4. UnrestrictedTypeOK
  BY <1>1, <1>2, <1>3, PoolAssumption DEF Init, ViewInit, UnrestrictedTypeOK
<1>5. ViewOK BY <1>1 DEF Init, ViewOK
<1>6. NoneTooHigh BY <1>2, <1>3 DEF NoneTooHigh
<1>7. \A o \in Ord : cc[o] \in todo BY <1>3, <1>4 DEF UnrestrictedTypeOK
<1>8. Seen = {} BY <1>7 DEF Seen, All, Posting
<1>9. Walking BY <1>3, <1>8, FS_EmptySet DEF Walking
<1>10. Listing BY <1>3, <1>4, <1>7 DEF Listing, UnrestrictedTypeOK
<1> QED BY <1>3, <1>4, <1>5, <1>6, <1>9, <1>10 DEF Inv

\* The shortlist's scores are stored scores.
LEMMA GatherHotInv == Inv /\ GatherHot => Inv'
<1> SUFFICES ASSUME Inv, GatherHot PROVE Inv' OBVIOUS
<1>1. /\ UNCHANGED index /\ Hot /\ pc = "start" /\ pc' = "exact"
      /\ UNCHANGED <<todo, at, left, used, cands>>
      /\ best' = Keep(best, Stored(list))
  BY DEF GatherHot
<1>2. UnrestrictedTypeOK /\ ViewOK /\ NoneTooHigh /\ Listing /\ left = {} /\ todo = Country
  BY <1>1 DEF Inv
<1>3. /\ cc' = cc /\ plain' = plain /\ exact' = exact /\ home' = home
      /\ isNear' = isNear /\ near' = near /\ list' = list /\ longer' = longer
  BY <1>1 DEF index, view
<1>4. /\ DOMAIN Stored(list) = list /\ Scores(Stored(list))
      /\ \A o \in list : Stored(list)[o] = plain[o] /\ plain[o] <= WalkScore(o)
  <2>1. \A o \in list : o \in Ord BY <1>2 DEF UnrestrictedTypeOK
  <2>2. \A o \in list : plain[o] \in Int /\ WalkScore(o) \in Int
                       /\ WalkScore(o) >= plain[o]
    BY <1>2, <2>1, Typed, ViewNumbers
  <2> QED BY <2>1, <2>2 DEF Stored, Scores
<1>5. /\ ScoreFunction(best)' /\ NoneTooHigh'
      /\ \A o \in list : Has(o, plain[o])'
  <2>0. PICK g : g = Stored(list) OBVIOUS
  <2>1. \A o \in DOMAIN g : g[o] <= WalkScore(o) BY <1>4, <2>0
  <2>2. Scores(g) /\ DOMAIN g = list /\ best' = Keep(best, g)
    BY <1>1, <1>4, <2>0
  <2>3. \A o \in list : g[o] = plain[o] BY <1>4, <2>0
  <2>4. /\ ScoreFunction(best)' /\ NoneTooHigh'
        /\ \A o \in DOMAIN g : Has(o, g[o])'
    BY <1>1, <1>2, <2>1, <2>2, Keeping
  <2>5. \A o \in list : best'[o] >= plain[o] /\ o \in DOMAIN best'
    BY <2>2, <2>3, <2>4 DEF Has
  <2> QED BY <1>3, <2>4, <2>5 DEF Has
<1>6. UnrestrictedTypeOK'
  <2>1. ScoreFunction(cands)' BY <1>1, <1>2 DEF UnrestrictedTypeOK, ScoreFunction
  <2> QED BY <1>1, <1>2, <1>3, <1>5, <2>1 DEF UnrestrictedTypeOK
<1>7. Listing'
  <2>1. \A o \in DOMAIN exact : cc[o] \in todo BY <1>2 DEF UnrestrictedTypeOK
  <2> QED BY <1>1, <1>3, <1>5, <2>1 DEF Listing
<1> QED BY <1>1, <1>2, <1>5, <1>6, <1>7, SameView DEF Inv

\* An exact match is kept with its bonus, which no walk would better.
LEMMA GatherExactInv ==
  ASSUME NEW c \in Country, Inv, GatherExact(c)
  PROVE  Inv'
<1>1. /\ UNCHANGED index /\ pc = "exact" /\ c \in todo /\ todo' = todo \ {c}
      /\ UNCHANGED <<pc, at, left, used, cands>>
      /\ best' = Keep(best, ExactHits({c}))
  BY DEF GatherExact, ExactKept
<1>2. UnrestrictedTypeOK /\ ViewOK /\ NoneTooHigh /\ Hot /\ Listing /\ left = {}
  BY <1>1 DEF Inv
<1>3. /\ cc' = cc /\ plain' = plain /\ exact' = exact /\ home' = home
      /\ isNear' = isNear /\ near' = near /\ list' = list /\ longer' = longer
  BY <1>1 DEF index, view
<1>4. /\ \A o \in Ord : plain[o] \in Int
      /\ \A o \in Ord \cap DOMAIN exact :
           exact[o] + ExactBonus \in Int /\ exact[o] + ExactBonus <= WalkScore(o)
  BY <1>2, Typed, ViewNumbers, BonusAssumption
<1>5. PICK g : g = ExactHits({c}) OBVIOUS
<1>6. /\ Scores(g) /\ DOMAIN g = In({c}) \cap DOMAIN exact
      /\ \A o \in DOMAIN g : g[o] = exact[o] + ExactBonus /\ g[o] <= WalkScore(o)
  <2>1. In({c}) \subseteq Ord BY DEF In
  <2>2. g = [o \in In({c}) \cap DOMAIN exact |-> exact[o] + ExactBonus]
    BY <1>5 DEF ExactHits
  <2>3. DOMAIN g = In({c}) \cap DOMAIN exact BY <2>2
  <2>4. \A o \in DOMAIN g : g[o] = exact[o] + ExactBonus BY <2>2
  <2>5. \A o \in DOMAIN g : g[o] \in Int /\ g[o] <= WalkScore(o)
    BY <1>4, <2>1, <2>3, <2>4
  <2>6. Scores(g)
    <3>1. g = [o \in DOMAIN g |-> g[o]] BY <2>2
    <3> QED BY <2>1, <2>3, <2>5, <3>1 DEF Scores
  <2> QED BY <2>3, <2>4, <2>5, <2>6
<1>7. /\ ScoreFunction(best)' /\ NoneTooHigh'
      /\ \A o, s : s \in Int /\ Has(o, s) => Has(o, s)'
      /\ \A o \in DOMAIN g : Has(o, g[o])'
  BY <1>1, <1>2, <1>5, <1>6, Keeping
<1>8. UnrestrictedTypeOK'
  <2>1. ScoreFunction(cands)' BY <1>1, <1>2 DEF UnrestrictedTypeOK, ScoreFunction
  <2> QED BY <1>1, <1>2, <1>3, <1>7, <2>1 DEF UnrestrictedTypeOK
<1>9. ASSUME NEW o \in list PROVE Has(o, plain[o])'
  <2>1. o \in Ord /\ Has(o, plain[o]) BY <1>1, <1>2 DEF UnrestrictedTypeOK, Listing
  <2>2. PICK s : s = plain[o] OBVIOUS
  <2>3. s \in Int BY <1>4, <2>1, <2>2
  <2>4. Has(o, s) BY <2>1, <2>2
  <2>5. Has(o, s)' BY <1>7, <2>3, <2>4
  <2> QED BY <1>3, <2>2, <2>5 DEF Has
<1>10. ASSUME NEW o \in DOMAIN exact, cc[o] \notin todo \ {c}
       PROVE  Has(o, exact[o] + ExactBonus)'
  <2>1. o \in Ord BY <1>2 DEF UnrestrictedTypeOK
  <2>2. PICK s : s = exact[o] + ExactBonus OBVIOUS
  <2>3. Has(o, s)'
    <3>1. CASE cc[o] \notin todo
      BY <1>2, <1>4, <1>7, <2>1, <2>2, <3>1 DEF Listing
    <3>2. CASE cc[o] = c
      BY <1>6, <1>7, <2>1, <2>2, <3>2 DEF In
    <3> QED BY <1>10, <3>1, <3>2
  <2> QED BY <1>3, <2>2, <2>3 DEF Has
<1>11. Listing' BY <1>1, <1>3, <1>9, <1>10 DEF Listing
<1> QED BY <1>1, <1>2, <1>7, <1>8, <1>11, SameView DEF Inv

\* Going on to a country sets out all its postings and loses none of the rest.
LEMMA ScanCountryInv ==
  ASSUME NEW c \in Country, Inv, ScanCountry(c)
  PROVE  Inv'
<1>1. /\ UNCHANGED index /\ ~Hot /\ c \in todo /\ left = {} /\ pc' = "scan"
      /\ at' = c /\ left' = Postings(c) /\ todo' = todo \ {c}
      /\ UNCHANGED <<used, best, cands>>
  BY DEF ScanCountry
<1>2. UnrestrictedTypeOK /\ ViewOK /\ NoneTooHigh /\ Walking BY <1>1 DEF Inv
<1>3. /\ cc' = cc /\ plain' = plain /\ exact' = exact /\ home' = home
      /\ isNear' = isNear /\ near' = near /\ list' = list /\ longer' = longer
  BY <1>1 DEF index, view
<1>4. left' = {p \in All : cc[p.ord] = c} /\ All \subseteq Posting
  BY <1>1, <1>2, PostingsOf
<1>5. UnrestrictedTypeOK'
  <2>1. ScoreFunction(best)' /\ ScoreFunction(cands)'
    BY <1>1, <1>2 DEF UnrestrictedTypeOK, ScoreFunction
  <2> QED BY <1>1, <1>2, <1>3, <1>4, <2>1 DEF UnrestrictedTypeOK
<1>6. All' = All /\ Hot' = Hot /\ ViewOK' = ViewOK BY <1>1, SameView
<1>7. Seen' = Seen
  <2>1. Seen' = {p \in All : cc[p.ord] \notin todo \ {c} /\ ~(cc[p.ord] = c)}
    BY <1>1, <1>3, <1>4, <1>6 DEF Seen
  <2> QED BY <1>1, <2>1 DEF Seen
<1>8. Walking' BY <1>1, <1>2, <1>3, <1>4, <1>6, <1>7 DEF Walking, Has, Worth
<1> QED BY <1>1, <1>2, <1>5, <1>6, <1>8, SameBest DEF Inv

\* Keeping a posting counts it, once.
LEMMA ScanPostingInv ==
  ASSUME NEW p \in left, Inv, ScanPosting(p)
  PROVE  Inv'
<1>1. /\ UNCHANGED index /\ pc = "scan" /\ used < Pool
      /\ used' = used + 1 /\ left' = left \ {p}
      /\ UNCHANGED <<pc, todo, at, cands>>
      /\ best' = Keep(best, Bonused(p))
  BY DEF ScanPosting, Budget
<1>2. UnrestrictedTypeOK /\ ViewOK /\ NoneTooHigh /\ ~Hot /\ Walking BY <1>1 DEF Inv
<1>3. /\ cc' = cc /\ plain' = plain /\ exact' = exact /\ home' = home
      /\ isNear' = isNear /\ near' = near /\ list' = list /\ longer' = longer
  BY <1>1 DEF index, view
<1>4. ASSUME NEW q \in All
      PROVE  q.ord \in Ord /\ Worth(q) \in Int /\ Worth(q) <= WalkScore(q.ord)
  <2>1. q.ord \in Ord /\ q.score \in Int
    BY ScoreAssumption DEF All, Posting
  <2>2. /\ WalkScore(q.ord) \in Int /\ WalkScore(q.ord) >= plain[q.ord]
        /\ q.ord \in DOMAIN exact => WalkScore(q.ord) >= exact[q.ord] + ExactBonus
    BY <1>2, <2>1, Typed, ViewNumbers
  <2>3. CASE q.exact BY <2>1, <2>2, <2>3, BonusAssumption DEF All, Worth
  <2>4. CASE ~q.exact BY <2>1, <2>2, <2>4 DEF All, Worth
  <2> QED BY <2>1, <2>3, <2>4
<1>5. p \in All BY <1>2 DEF Walking
<1>6. PICK g : g = Bonused(p) OBVIOUS
<1>7. DOMAIN g = {p.ord} /\ g[p.ord] = Worth(p) BY <1>6 DEF Bonused, Worth
<1>8. Scores(g)
  <2>1. g = [o \in {p.ord} |-> Worth(p)] BY <1>6 DEF Bonused, Worth
  <2> QED BY <1>4, <1>5, <2>1 DEF Scores
<1>9. \A o \in DOMAIN g : g[o] <= WalkScore(o) BY <1>4, <1>5, <1>7
<1>10. /\ ScoreFunction(best)' /\ NoneTooHigh'
       /\ \A o, s : s \in Int /\ Has(o, s) => Has(o, s)'
       /\ \A o \in DOMAIN g : Has(o, g[o])'
  BY <1>1, <1>2, <1>6, <1>8, <1>9, Keeping
<1>11. All' = All /\ Hot' = Hot /\ ViewOK' = ViewOK BY <1>1, SameView
<1>12. Seen' = Seen \cup {p} /\ p \notin Seen
  <2>1. cc[p.ord] \notin todo BY <1>2 DEF Walking
  <2> QED BY <1>1, <1>3, <1>5, <1>11, <2>1 DEF Seen
<1>13. IsFiniteSet(Seen)
  <2>1. Seen \in SUBSET All BY DEF Seen
  <2> QED BY <2>1, AllFinite, FS_Subset
<1>14. used' = Cardinality(Seen')
  <2>1. Cardinality(Seen \cup {p}) = Cardinality(Seen) + 1
    BY <1>12, <1>13, FS_AddElement
  <2> QED BY <1>1, <1>2, <1>12, <2>1 DEF Walking
<1>15. ASSUME NEW q \in Seen \cup {p} PROVE Has(q.ord, Worth(q))'
  <2>1. q \in All BY <1>5 DEF Seen
  <2>2. CASE q = p BY <1>7, <1>10, <2>2 DEF Has, Worth
  <2>3. CASE q \in Seen
    <3>1. Has(q.ord, Worth(q)) BY <1>2, <2>3 DEF Walking
    <3>2. PICK s : s = Worth(q) OBVIOUS
    <3>3. Has(q.ord, s)' BY <1>4, <1>10, <2>1, <3>1, <3>2
    <3> QED BY <3>2, <3>3 DEF Has, Worth
  <2> QED BY <2>2, <2>3
<1>16. Walking'
  <2>1. left' \subseteq All /\ \A q \in left' : cc[q.ord] \notin todo
    BY <1>1, <1>2 DEF Walking
  <2> QED BY <1>1, <1>3, <1>11, <1>12, <1>14, <1>15, <2>1 DEF Walking
<1>17. UnrestrictedTypeOK'
  <2>1. ScoreFunction(cands)' BY <1>1, <1>2 DEF UnrestrictedTypeOK, ScoreFunction
  <2>2. used' \in 0..Pool BY <1>1, <1>2, PoolAssumption DEF UnrestrictedTypeOK
  <2> QED BY <1>1, <1>2, <1>3, <1>10, <2>1, <2>2 DEF UnrestrictedTypeOK
<1> QED BY <1>1, <1>2, <1>10, <1>11, <1>16, <1>17 DEF Inv

\* rank adds each candidate's own bonus.
LEMMA RankInv == Inv /\ Rank => Inv'
<1> SUFFICES ASSUME Inv, Rank PROVE Inv' OBVIOUS
<1>1. /\ UNCHANGED index /\ Gathered /\ cands' = Hinted(best) /\ pc' = "done"
      /\ UNCHANGED <<todo, at, left, used, best>>
  BY DEF Rank
<1>2. UnrestrictedTypeOK /\ ViewOK /\ NoneTooHigh BY DEF Inv
<1>3. /\ cc' = cc /\ plain' = plain /\ exact' = exact /\ home' = home
      /\ isNear' = isNear /\ near' = near /\ list' = list /\ longer' = longer
  BY <1>1 DEF index, view
<1>4. Hinted(best)' = Hinted(best) /\ NoneTooHigh' = NoneTooHigh
  BY <1>1, SameBest
<1>5. Hot' = Hot /\ ViewOK' = ViewOK /\ All' = All BY <1>1, SameView
<1>6. UnrestrictedTypeOK'
  <2>1. Scores(best) BY <1>2 DEF UnrestrictedTypeOK, ScoreFunction, Scores
  <2>2. Scores(Hinted(best)) BY <1>2, <2>1, Typed, ViewHinted
  <2>3. ScoreFunction(cands)' BY <1>1, <2>2 DEF ScoreFunction, Scores
  <2>4. ScoreFunction(best)' BY <1>1, <1>2 DEF UnrestrictedTypeOK, ScoreFunction
  <2> QED BY <1>1, <1>2, <1>3, <2>3, <2>4 DEF UnrestrictedTypeOK
<1>7. ~Hot => Walking'
  BY <1>1, <1>3, <1>5 DEF Inv, Walking, Seen, Has, Worth
<1>8. Hot => Listing' /\ left = {} /\ todo = {}
  BY <1>1, <1>3 DEF Inv, Listing, Has, Gathered
<1>9. ~Hot => used = Pool \/ (left = {} /\ todo = {})
  <2>1. used \in 0..Pool BY <1>2 DEF UnrestrictedTypeOK
  <2> QED BY <1>1, <2>1, PoolAssumption DEF Gathered, Budget, Inv
<1> QED BY <1>1, <1>2, <1>4, <1>5, <1>6, <1>7, <1>8, <1>9 DEF Inv

\* The invariant is inductive.
LEMMA NextInv == Inv /\ [Next]_vars => Inv'
<1> SUFFICES ASSUME Inv, [Next]_vars PROVE Inv' OBVIOUS
<1>1. CASE GatherHot BY <1>1, GatherHotInv
<1>2. CASE Rank BY <1>2, RankInv
<1>3. ASSUME NEW c \in Country, GatherExact(c) PROVE Inv' BY <1>3, GatherExactInv
<1>4. ASSUME NEW c \in Country, ScanCountry(c) PROVE Inv' BY <1>4, ScanCountryInv
<1>5. ASSUME NEW p \in left, ScanPosting(p) PROVE Inv' BY <1>5, ScanPostingInv
<1>6. CASE UNCHANGED vars
  <2>1. UNCHANGED index /\ UNCHANGED <<pc, todo, at, left, used, best, cands>>
    BY <1>6 DEF vars, index
  <2>2. /\ cc' = cc /\ plain' = plain /\ exact' = exact /\ home' = home
        /\ isNear' = isNear /\ near' = near /\ list' = list /\ longer' = longer
    BY <2>1 DEF index, view
  <2>3. UnrestrictedTypeOK' BY <2>1, <2>2 DEF Inv, UnrestrictedTypeOK, ScoreFunction
  <2>4. Walking' = Walking
    BY <2>1, <2>2, SameView, SameBest DEF Walking, Seen, Has, Worth
  <2>5. Listing' = Listing BY <2>1, <2>2 DEF Listing, Has
  <2> QED BY <2>1, <2>3, <2>4, <2>5, SameView, SameBest DEF Inv
<1>7. CASE Done BY <1>6, <1>7 DEF Done
<1> QED BY <1>1, <1>2, <1>3, <1>4, <1>5, <1>6, <1>7 DEF Next

-----------------------------------------------------------------------------
\* What the answer is cut from.
LEMMA Candidates ==
  ASSUME Inv, pc = "done"
  PROVE  /\ Scores(best) /\ DOMAIN cands = DOMAIN best /\ Ranks(cands)
         /\ \A o \in DOMAIN best : cands[o] = best[o] + Bonus(o)
         /\ \A o \in Ord :
              /\ plain[o] \in Int /\ WalkScore(o) \in Int /\ Bonus(o) \in Nat
              /\ FullScore(o) = WalkScore(o) + Bonus(o)
              /\ o \in DOMAIN exact => exact[o] + ExactBonus \in Int
<1>1. UnrestrictedTypeOK /\ cands = Hinted(best) BY DEF Inv
<1>2. Scores(best) BY <1>1 DEF UnrestrictedTypeOK, ScoreFunction, Scores
<1>3. ASSUME NEW o \in Ord PROVE Bonus(o) \in Nat
  BY <1>1, <1>3, BonusAssumption DEF UnrestrictedTypeOK, Bonus
<1>4. ViewTyped BY <1>1, Typed
<1>5. \A o \in Ord : /\ plain[o] \in Int /\ WalkScore(o) \in Int
                     /\ o \in DOMAIN exact => exact[o] + ExactBonus \in Int
  BY <1>4, ViewNumbers, BonusAssumption
<1> QED BY <1>1, <1>2, <1>3, <1>4, <1>5, ViewHinted DEF FullScore

\* No candidate has more than all its names are worth, so no result has.
LEMMA InvNeverOverstated == Inv => NeverOverstated
<1> SUFFICES ASSUME Inv, pc = "done", NEW o \in Top(cands)
             PROVE  cands[o] <= FullScore(o)
  BY DEF NeverOverstated
<1>1. o \in DOMAIN cands BY DEF Top
<1>2. o \in Ord /\ best[o] \in Int /\ best[o] <= WalkScore(o)
  BY <1>1, Candidates DEF Scores, Inv, NoneTooHigh
<1> QED BY <1>1, <1>2, Candidates

\* A walk that the pool does not end has kept every posting, and the postings of
\* a record include one worth what the record is.
LEMMA InvWalkExact == Inv => WalkExact
<1> SUFFICES ASSUME Inv, pc = "done", ~Hot, PoolWideEnough
             PROVE  Answer(cands) = Ideal(Country)
  BY DEF WalkExact
<1>1. UnrestrictedTypeOK /\ ViewOK /\ NoneTooHigh /\ Walking BY DEF Inv
<1>2. Cardinality(All) <= Pool
  BY <1>1, PostingsOf DEF PoolWideEnough
<1>3. Seen = All
  <2>1. CASE used = Pool
    <3>1. Seen \in SUBSET All BY DEF Seen
    <3>2. Cardinality(Seen) = Pool BY <1>1, <2>1 DEF Walking
    <3>3. Cardinality(Seen) <= Cardinality(All) BY <3>1, AllFinite, FS_Subset
    <3>4. Cardinality(All) \in Nat BY AllFinite, FS_CardinalityType
    <3>5. Cardinality(All) = Cardinality(Seen)
      BY <1>2, <3>2, <3>3, <3>4, PoolAssumption
    <3> QED BY <3>1, <3>5, AllFinite, FS_Subset
  <2>2. CASE left = {} /\ todo = {} BY <2>2 DEF Seen
  <2> QED BY <2>1, <2>2 DEF Inv
<1>4. ASSUME NEW o \in Ord PROVE o \in DOMAIN best /\ best[o] = WalkScore(o)
  <2>1. /\ plain[o] \in Score /\ plain[o] \in Int
        /\ o \in DOMAIN exact => exact[o] \in Score /\ exact[o] \in Int
    BY <1>1, ScoreAssumption DEF UnrestrictedTypeOK
  <2>2. \A s : s = WalkScore(o) /\ Has(o, s) =>
                 o \in DOMAIN best /\ best[o] = WalkScore(o)
    <3>1. o \in DOMAIN best => best[o] \in Int /\ best[o] <= WalkScore(o)
      BY <1>1, Candidates DEF Scores, NoneTooHigh
    <3> QED BY <3>1, Candidates DEF Has
  <2>3. CASE o \in longer /\ WalkScore(o) = plain[o]
    <3> DEFINE p == [ord |-> o, score |-> plain[o], exact |-> FALSE]
    <3>1. p \in All BY <2>1, <2>3 DEF All, Posting
    <3>2. Has(p.ord, Worth(p)) BY <1>1, <1>3, <3>1 DEF Walking
    <3>3. Worth(p) = WalkScore(o) BY <2>1, <2>3 DEF Worth
    <3> QED BY <2>2, <3>2, <3>3
  <2>4. CASE o \in DOMAIN exact /\ WalkScore(o) = exact[o] + ExactBonus
    <3> DEFINE p == [ord |-> o, score |-> exact[o], exact |-> TRUE]
    <3>1. p \in All BY <2>1, <2>4 DEF All, Posting
    <3>2. Has(p.ord, Worth(p)) BY <1>1, <1>3, <3>1 DEF Walking
    <3>3. Worth(p) = WalkScore(o) BY <2>4 DEF Worth
    <3> QED BY <2>2, <3>2, <3>3
  <2>5. \/ o \in longer /\ WalkScore(o) = plain[o]
        \/ o \in DOMAIN exact /\ WalkScore(o) = exact[o] + ExactBonus
    <3>1. CASE o \in DOMAIN exact /\ exact[o] + ExactBonus > plain[o]
      BY <3>1 DEF WalkScore
    <3>2. CASE ~(o \in DOMAIN exact /\ exact[o] + ExactBonus > plain[o])
      <4>1. WalkScore(o) = plain[o] BY <3>2 DEF WalkScore
      <4>2. CASE o \in longer BY <4>1, <4>2
      <4>3. CASE o \notin longer
        <5>1. o \in DOMAIN exact /\ ~(exact[o] < plain[o]) /\ exact[o] <= plain[o]
          BY <1>1, <4>3 DEF ViewOK
        <5>2. exact[o] \in Int /\ plain[o] \in Int BY <2>1, <5>1
        <5>3. ~(exact[o] + ExactBonus > plain[o]) BY <3>2, <5>1
        <5>4. exact[o] + ExactBonus = plain[o]
          BY <5>1, <5>2, <5>3, BonusAssumption
        <5> QED BY <4>1, <5>1, <5>4
      <4> QED BY <4>2, <4>3
    <3> QED BY <3>1, <3>2
  <2> QED BY <2>3, <2>4, <2>5
<1>5. In(Country) = Ord BY <1>1 DEF In, UnrestrictedTypeOK
<1>6. DOMAIN best = Ord BY <1>4, Candidates DEF Scores
<1>7. cands = [o \in Ord |-> FullScore(o)]
  <2>1. cands = [o \in DOMAIN best |-> best[o] + Bonus(o)] BY DEF Inv, Hinted
  <2>2. \A o \in Ord : best[o] + Bonus(o) = FullScore(o)
    BY <1>4 DEF FullScore
  <2> QED BY <1>6, <2>1, <2>2
<1> QED BY <1>5, <1>7 DEF Ideal

\* The records of a shortlist at least as good as a result push it down no
\* further than Limit, so a result is worth as much as any record left off.
LEMMA InvSampleLoss == Inv => SampleLossBounded
<1> SUFFICES ASSUME Inv, pc = "done", Hot, Limit <= K
    PROVE /\ Cardinality(Top(cands)) = Limit \/ Top(cands) = Ord
          /\ \A p \in Top(cands), o \in Ord \ Top(cands) : cands[p] >= WalkScore(o)
  BY DEF SampleLossBounded
<1>1. UnrestrictedTypeOK /\ ViewOK /\ Listing /\ todo = {} BY DEF Inv
<1>2. /\ Scores(best) /\ DOMAIN cands = DOMAIN best /\ Ranks(cands)
      /\ \A o \in DOMAIN best : /\ cands[o] = best[o] + Bonus(o)
                                /\ cands[o] \in Int /\ best[o] \in Int
                                /\ cands[o] >= best[o]
  <2>1. \A o \in DOMAIN best : o \in Ord /\ best[o] \in Int
    BY Candidates DEF Scores
  <2> QED BY <2>1, Candidates
<1>3. /\ \A o \in list : o \in DOMAIN best /\ best[o] >= plain[o]
      /\ \A o \in DOMAIN exact : o \in DOMAIN best /\ best[o] >= exact[o] + ExactBonus
  BY <1>1 DEF Listing, Has
<1>4. list \subseteq Ord /\ DOMAIN best \subseteq Ord /\ DOMAIN exact \subseteq Ord
  BY <1>1, <1>2 DEF UnrestrictedTypeOK, Scores
<1>5. /\ list # Ord => Cardinality(list) = K
      /\ \A l \in list, o \in Ord \ list : plain[o] <= plain[l]
  <2>1. IsShortlist(Stored(Ord), Stored(list)) BY <1>1 DEF ViewOK, Hot
  <2>2. /\ DOMAIN Stored(Ord) = Ord /\ DOMAIN Stored(list) = list
        /\ \A o \in Ord : Stored(Ord)[o] = plain[o]
        /\ \A o \in list : Stored(list)[o] = plain[o]
    BY DEF Stored
  <2> QED BY <1>4, <2>1, <2>2 DEF IsShortlist
<1>6. /\ Top(cands) \subseteq DOMAIN cands
      /\ \A p \in Top(cands), o \in DOMAIN cands \ Top(cands) : cands[p] >= cands[o]
  <2>1. ASSUME NEW p \in Top(cands), NEW o \in DOMAIN cands \ Top(cands),
               ~(cands[p] >= cands[o])
        PROVE  FALSE
    <3>1. p \in DOMAIN cands /\ cands[o] > cands[p]
      BY <1>2, <2>1 DEF Top, Ranks
    <3>2. Ahead(cands, o) \subseteq Ahead(cands, p)
      BY <1>2, <2>1, <3>1, BeforeOrder DEF Ahead, Before
    <3>3. Ahead(cands, p) \in SUBSET DOMAIN cands BY DEF Ahead
    <3>4. Cardinality(Ahead(cands, o)) <= Cardinality(Ahead(cands, p))
      BY <1>2, <3>2, <3>3, AheadFinite, FS_Subset
    <3>5. /\ Cardinality(Ahead(cands, o)) \in Nat
          /\ Cardinality(Ahead(cands, p)) \in Nat
      BY <1>2, <3>2, <3>3, AheadFinite
    <3> QED BY <2>1, <3>4, <3>5, LimitAssumption DEF Top
  <2> QED BY <2>1 DEF Top
<1>7. ASSUME NEW o \in Ord \ list, NEW p \in Top(cands)
      PROVE  cands[p] >= plain[o]
  <2> SUFFICES ASSUME ~(cands[p] >= plain[o]) PROVE FALSE OBVIOUS
  <2>1. p \in DOMAIN cands /\ cands[p] \in Int /\ plain[o] \in Int
    BY <1>2, <1>6, Candidates
  <2>2. ASSUME NEW l \in list PROVE l \in DOMAIN cands /\ cands[l] > cands[p]
    <3>1. l \in DOMAIN best /\ best[l] >= plain[l] /\ plain[o] <= plain[l]
      BY <1>3, <1>5
    <3>2. plain[l] \in Int BY <1>4, Candidates
    <3> QED BY <1>2, <2>1, <3>1, <3>2
  <2>3. list \subseteq Ahead(cands, p) BY <2>2 DEF Ahead, Before
  <2>4. Cardinality(list) >= Limit BY <1>5, <1>7
  <2> QED BY <1>2, <2>1, <2>3, <2>4, OutrankedIsCut
<1>8. ASSUME NEW p \in Top(cands), NEW o \in Ord \ Top(cands)
      PROVE  cands[p] >= WalkScore(o)
  <2>1. cands[p] \in Int BY <1>2, <1>6
  <2>2. CASE o \in DOMAIN exact /\ WalkScore(o) = exact[o] + ExactBonus
    <3>1. o \in DOMAIN cands /\ best[o] >= WalkScore(o) BY <1>2, <1>3, <2>2
    <3>2. cands[p] >= cands[o] BY <1>6, <3>1
    <3>3. WalkScore(o) \in Int BY Candidates
    <3> QED BY <1>2, <2>1, <3>1, <3>2, <3>3
  <2>3. CASE WalkScore(o) = plain[o]
    <3>1. CASE o \in list
      <4>1. o \in DOMAIN cands /\ best[o] >= plain[o] BY <1>2, <1>3, <3>1
      <4>2. cands[p] >= cands[o] BY <1>6, <4>1
      <4>3. plain[o] \in Int BY Candidates
      <4> QED BY <1>2, <2>1, <2>3, <4>1, <4>2, <4>3
    <3>2. CASE o \notin list BY <1>7, <2>3, <3>2
    <3> QED BY <3>1, <3>2
  <2> QED BY <2>2, <2>3 DEF WalkScore
<1>9. Cardinality(Top(cands)) = Limit \/ Top(cands) = Ord
  <2>1. /\ Cardinality(DOMAIN cands) \in Nat /\ IsFiniteSet(DOMAIN cands)
        /\ Cardinality(Top(cands)) \in Nat /\ Limit \in Nat
    BY <1>2, <1>6, AheadFinite, LimitAssumption
  <2>2. CASE Cardinality(DOMAIN cands) >= Limit
    BY <1>2, <2>1, <2>2, TopIsLong, TopIsShort
  <2>3. CASE Cardinality(DOMAIN cands) < Limit
    <3>1. list \in SUBSET DOMAIN cands BY <1>2, <1>3
    <3>2. Cardinality(list) <= Cardinality(DOMAIN cands)
      BY <2>1, <3>1, FS_Subset
    <3>3. Cardinality(list) \in Nat BY <1>2, <3>1, AheadFinite
    <3>4. list = Ord BY <1>5, <2>1, <2>3, <3>2, <3>3, KAssumption
    <3>5. DOMAIN cands = Ord BY <1>2, <1>4, <3>1, <3>4
    <3>6. Top(cands) = DOMAIN cands BY <1>2, <2>1, <2>3, AllTop
    <3> QED BY <3>5, <3>6
  <2> QED BY <2>1, <2>2, <2>3
<1> QED BY <1>8, <1>9

\* An unrestricted search keeps no more postings than its pool.
THEOREM UnrestrictedTypeCorrect == Spec => []UnrestrictedTypeOK
<1>1. Inv => UnrestrictedTypeOK BY DEF Inv
<1> QED BY InitInv, NextInv, <1>1, PTL DEF Spec

\* Whatever the shortlist or the pool let the search see, no result is reported
\* with more than a walk of all its names would give it.
THEOREM UnrestrictedNeverOverstates == Spec => []NeverOverstated
<1> QED BY InitInv, NextInv, InvNeverOverstated, PTL DEF Spec

\* A walk whose pool has room for every posting beneath the query returns
\* exactly the best Limit, in whatever order it takes countries and names.
THEOREM UnrestrictedWalkIsExact == Spec => []WalkExact
<1> QED BY InitInv, NextInv, InvWalkExact, PTL DEF Spec

\* A page no longer than a shortlist is filled, and leaves off no record whose
\* names alone, without its country and nearness, score above a result.
THEOREM UnrestrictedLossIsBounded == Spec => []SampleLossBounded
<1> QED BY InitInv, NextInv, InvSampleLoss, PTL DEF Spec
=============================================================================
