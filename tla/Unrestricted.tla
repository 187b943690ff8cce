---------------------------- MODULE Unrestricted ----------------------------
(***************************************************************************)
(* Index.Search without Countries (internal/index/reader.go): a hot prefix *)
(* is answered from its shortlist plus the exact matches (gatherHot), any  *)
(* other by a walk of at most Pool postings, country after country         *)
(* (gatherScan).                                                           *)
(*                                                                         *)
(* The manifest lists countries in the order the dump first shows them and *)
(* a country's names come in byte order; both say nothing of scores, so    *)
(* the loops here take countries, and names other than the query, in any   *)
(* order.                                                                  *)
(***************************************************************************)
EXTENDS Ranking

CONSTANT Pool           \* SearchOptions.Pool, after its default

ASSUME PoolAssumption == Pool \in Nat \ {0}

VARIABLES list,     \* the records on the prefix's shortlist, none if not hot
          longer,   \* the records with a name beneath the query that is not the query
          at,       \* the country being walked
          left,     \* its postings not yet kept
          used      \* postings kept, n of gatherScan

index == <<view, list, longer>>
vars == <<index, pc, todo, at, left, used, best, cands>>

Hot == list # {}

Posting == [ord : Ord, score : Score, exact : BOOLEAN]

\* The postings of country c beneath the query, one for the query itself and one
\* for its best longer name for each record that bears such a name.
Postings(c) ==
  {[ord |-> o, score |-> plain[o], exact |-> FALSE] : o \in In({c}) \cap longer}
    \cup {[ord |-> o, score |-> exact[o], exact |-> TRUE] : o \in In({c}) \cap DOMAIN exact}

Init ==
  /\ ViewInit
  /\ longer \in SUBSET Ord
  /\ \A o \in Ord : o \notin DOMAIN exact \/ exact[o] < plain[o] => o \in longer
  /\ list \in SUBSET Ord
  /\ list = {} \/ IsShortlist(Stored(Ord), Stored(list))
  /\ pc = "start"
  /\ todo = Country /\ at = NoCountry /\ left = {} /\ used = 0
  /\ best = Nothing /\ cands = Nothing

\* gatherHot: the shortlist.
GatherHot ==
  /\ pc = "start" /\ Hot
  /\ best' = Keep(best, Stored(list))
  /\ pc' = "exact"
  /\ UNCHANGED <<index, todo, at, left, used, cands>>

\* Mutant of ExactKept: the shortlist is taken to hold the exact matches.
ExactOnList(c) == Keep(best, [o \in list \cap DOMAIN ExactHits({c}) |-> ExactHits({c})[o]])

ExactKept(c) == Keep(best, ExactHits({c}))

\* gatherHot: the posting list of the query itself in country c.
GatherExact(c) ==
  /\ pc = "exact" /\ c \in todo
  /\ best' = ExactKept(c)
  /\ todo' = todo \ {c}
  /\ UNCHANGED <<index, pc, at, left, used, cands>>

\* Mutant of Budget: one posting too many.
BudgetAndOne == used <= Pool

\* The pool has room: n < budget, where the budget is what is left of the pool.
Budget == used < Pool

\* gatherScan: on to country c.
ScanCountry(c) ==
  /\ pc \in {"start", "scan"} /\ ~Hot
  /\ c \in todo /\ left = {} /\ Budget
  /\ pc' = "scan"
  /\ at' = c /\ left' = Postings(c)
  /\ todo' = todo \ {c}
  /\ UNCHANGED <<index, used, best, cands>>

\* The query is the first key of its range, and its list comes best first.
Foremost(p) ==
  /\ p.exact => \A q \in left : q.exact => q.score <= p.score
  /\ ~p.exact => \A q \in left : ~q.exact

\* Mutant of Bonused: every name beneath the query earns the bonus.
BonusedAlways(p) == [o \in {p.ord} |-> p.score + ExactBonus]

Bonused(p) == [o \in {p.ord} |-> p.score + (IF p.exact THEN ExactBonus ELSE 0)]

\* scanCountry: keep one posting.
ScanPosting(p) ==
  /\ pc = "scan" /\ p \in left /\ Budget
  /\ Foremost(p)
  /\ best' = Keep(best, Bonused(p))
  /\ used' = used + 1
  /\ left' = left \ {p}
  /\ UNCHANGED <<index, pc, todo, at, cands>>

\* Mutant of Gathered: the walk ends with its first country.
GatheredOne ==
  \/ pc = "exact" /\ todo = {}
  \/ pc = "scan" /\ (~Budget \/ left = {})

Gathered ==
  \/ pc = "exact" /\ todo = {}
  \/ pc = "scan" /\ (~Budget \/ (left = {} /\ todo = {}))

Rank ==
  /\ Gathered
  /\ cands' = Hinted(best)
  /\ pc' = "done"
  /\ UNCHANGED <<index, todo, at, left, used, best>>

Done == pc = "done" /\ UNCHANGED vars

Next ==
  \/ GatherHot \/ Rank \/ Done
  \/ \E c \in Country : GatherExact(c) \/ ScanCountry(c)
  \/ \E p \in left : ScanPosting(p)

Spec == Init /\ [][Next]_vars

-----------------------------------------------------------------------------
ScoreFunction(f) == DOMAIN f \subseteq Ord /\ f \in [DOMAIN f -> Int]

\* A search never keeps more postings than its pool.
UnrestrictedTypeOK ==
  /\ cc \in [Ord -> Country] /\ plain \in [Ord -> Score]
  /\ DOMAIN exact \subseteq Ord /\ exact \in [DOMAIN exact -> Score]
  /\ home \in Country \cup {NoCountry}
  /\ isNear \in BOOLEAN /\ near \in [Ord -> 0..NearBonus]
  /\ list \subseteq Ord /\ longer \subseteq Ord
  /\ pc \in {"start", "exact", "scan", "done"}
  /\ todo \subseteq Country /\ at \in Country \cup {NoCountry}
  /\ left \subseteq Posting /\ used \in 0..Pool
  /\ ScoreFunction(best) /\ ScoreFunction(cands)

\* "The pool ceiling is a safety net rather than a sampling policy" (gatherScan):
\* when all the postings fit the pool, the answer of a walk is the best Limit.
PoolWideEnough == Cardinality(UNION {Postings(c) : c \in Country}) <= Pool
WalkExact ==
  pc = "done" /\ ~Hot /\ PoolWideEnough => Answer(cands) = Ideal(Country)

\* "The shortlist is a ranked sample" (gatherHot): with a page no longer than the
\* sample, it fills the page, and a record it keeps off the page would have gained
\* on those there nothing but its own country and nearness bonus.  In particular a
\* caller who says neither gets the best scores there are.
SampleLossBounded ==
  pc = "done" /\ Hot /\ Limit <= K =>
    /\ Cardinality(Top(cands)) = Limit \/ Top(cands) = Ord
    /\ \A p \in Top(cands), o \in Ord \ Top(cands) : cands[p] >= WalkScore(o)

\* No result is reported with more than a walk of all its names would give it,
\* whatever part of them the shortlist or the pool let the search see.
NeverOverstated ==
  pc = "done" => \A o \in Top(cands) : cands[o] <= FullScore(o)
=============================================================================
