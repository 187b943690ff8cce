------------------------------ MODULE Ranking ------------------------------
(***************************************************************************)
(* What one query sees of an index, and how Index.rank                     *)
(* (internal/index/reader.go) orders what it gathered.  Ord is the set of  *)
(* records with a name beneath the folded query; everything else in the    *)
(* index is invisible to it.                                               *)
(***************************************************************************)
EXTENDS Shortlist

CONSTANTS Ord,          \* the records that match, ordinals in the index
          Country,      \* the manifest's countries
          NoCountry,    \* countryIndex of a code the index has no places for
          ExactBonus, HomeBonus, NearBonus,
          Limit         \* SearchOptions.Limit, after its default

ASSUME OrdAssumption == Ord \subseteq Nat /\ IsFiniteSet(Ord)
ASSUME CountryAssumption == NoCountry \notin Country
ASSUME BonusAssumption ==
  ExactBonus \in Nat /\ HomeBonus \in Nat /\ NearBonus \in Nat
ASSUME LimitAssumption == Limit \in Nat \ {0}

VARIABLES cc,       \* record -> its country
          plain,    \* record -> best stored score of its names beneath the query
          exact,    \* record named exactly as the query -> that name's stored score
          home,     \* the caller's country
          isNear,   \* did the caller say where they are?
          near,     \* record -> nearness of the record to the caller
          pc,       \* where the search is
          todo,     \* the countries its loop has yet to reach
          best,     \* record -> highest score kept
          cands     \* record -> score, after rank

view == <<cc, plain, exact, home, isNear, near>>

ViewInit ==
  /\ cc \in [Ord -> Country]
  /\ plain \in [Ord -> Score]
  /\ exact \in UNION {[S -> Score] : S \in SUBSET Ord}
  /\ \A o \in DOMAIN exact : exact[o] <= plain[o]
  /\ home \in Country \cup {NoCountry}
  /\ isNear \in BOOLEAN
  /\ near \in [Ord -> 0..NearBonus]
  /\ ~isNear => \A o \in Ord : near[o] = 0

-----------------------------------------------------------------------------
In(C) == {o \in Ord : cc[o] \in C}

\* Search's keep, over every pair of g: an ordinal's highest score stays.
Keep(f, g) ==
  [o \in DOMAIN f \cup DOMAIN g |->
     IF o \notin DOMAIN g THEN f[o]
     ELSE IF o \in DOMAIN f /\ f[o] >= g[o] THEN f[o] ELSE g[o]]

Nothing == [o \in {} |-> 0]

Stored(S) == [o \in S |-> plain[o]]

\* The posting lists of the query itself, which earn the exact-match bonus.
ExactHits(C) == [o \in In(C) \cap DOMAIN exact |-> exact[o] + ExactBonus]

\* scanCountry, unlimited: every posting beneath the query.
Scanned(f, C) == Keep(Keep(f, Stored(In(C))), ExactHits(C))

\* What the caller adds to a record: its country and its nearness, summed.
Bonus(o) == (IF cc[o] = home THEN HomeBonus ELSE 0) + near[o]

Hinted(f) == [o \in DOMAIN f |-> f[o] + Bonus(o)]

\* rank's order: higher score first, then lower ordinal.
Before(f, p, o) == f[p] > f[o] \/ (f[p] = f[o] /\ p < o)

Ahead(f, o) == {p \in DOMAIN f : Before(f, p, o)}

\* cands[:Limit].
Top(f) == {o \in DOMAIN f : Cardinality(Ahead(f, o)) < Limit}

\* The results with their scores; their order follows from these.
Answer(f) == [o \in Top(f) |-> f[o]]

\* What a walk of every name beneath the query finds a record worth, before and
\* after the caller's bonuses.
WalkScore(o) ==
  IF o \in DOMAIN exact /\ exact[o] + ExactBonus > plain[o]
  THEN exact[o] + ExactBonus ELSE plain[o]

FullScore(o) == WalkScore(o) + Bonus(o)

\* The best Limit records in the countries of C, with their scores.
Ideal(C) == Answer([o \in In(C) |-> FullScore(o)])
=============================================================================
