----------------------------- MODULE Restricted -----------------------------
(***************************************************************************)
(* Index.searchCountries (internal/index/reader.go): a search restricted   *)
(* to some countries reads a country's shortlist where it has one, and     *)
(* walks the country after all when something the list left out could      *)
(* have reached the results.                                               *)
(*                                                                         *)
(* The caller's order of countries is arbitrary, so each loop here takes   *)
(* its countries in any order.                                             *)
(***************************************************************************)
EXTENDS Ranking

CONSTANT HotK       \* the reader's hotK; K is that of the release that built the index

\* The manifest records K, and OpenWith does not compare the two.  With a larger
\* HotK a full list would pass for one with room to spare.
ASSUME HotKAssumption == HotK \in Nat \ {0} /\ HotK <= K

VARIABLES asked,    \* countryIndexes of SearchOptions.Countries
          hotLists, \* country -> the records on its shortlist, none if not hot there
          short,    \* the full shortlists: country -> floor
          walked

restrictedVars == <<view, asked, hotLists, pc, todo, best, short, cands, walked>>
restrictedIndex == <<view, asked, hotLists>>

\* What writer.go may leave for the query in country c: no list, because too few
\* names lie beneath it, or a best-K list of what does.
Lists(c) ==
  {{}} \cup {S \in SUBSET In({c}) :
               S # {} /\ IsShortlist(Stored(In({c})), Stored(S))}

HotIn(c) == hotLists[c] # {}

RestrictedInit ==
  /\ ViewInit
  /\ asked \in SUBSET Country
  /\ hotLists \in [Country -> SUBSET Ord]
  /\ \A c \in Country : hotLists[c] \in Lists(c)
  /\ pc = "gather" /\ todo = asked
  /\ best = Nothing
  /\ short = [c \in {} |-> 0]
  /\ cands = Nothing
  /\ walked = FALSE

\* Mutant of FromList: the exact match is looked up in every country.
FromListAnywhere(c) == Keep(Keep(best, Stored(hotLists[c])), ExactHits(Country))

\* gatherCountryHot: the list, then the exact match, which the list cannot
\* carry the bonus for.
FromList(c) == Keep(Keep(best, Stored(hotLists[c])), ExactHits({c}))

\* A full shortlist: remember the score of its last entry.
GatherFull(c) ==
  /\ pc = "gather" /\ c \in todo /\ HotIn(c)
  /\ Cardinality(hotLists[c]) >= HotK
  /\ best' = FromList(c)
  /\ \E m \in hotLists[c] :
       /\ \A o \in hotLists[c] : plain[m] <= plain[o]
       /\ short' = [d \in DOMAIN short \cup {c} |-> IF d = c THEN plain[m] ELSE short[d]]
  /\ todo' = todo \ {c}
  /\ UNCHANGED <<restrictedIndex, pc, cands, walked>>

\* A shortlist with room to spare holds every record beneath the prefix.
GatherSpare(c) ==
  /\ pc = "gather" /\ c \in todo /\ HotIn(c)
  /\ Cardinality(hotLists[c]) < HotK
  /\ best' = FromList(c)
  /\ todo' = todo \ {c}
  /\ UNCHANGED <<restrictedIndex, pc, short, cands, walked>>

\* No shortlist: walk the country.
GatherWalk(c) ==
  /\ pc = "gather" /\ c \in todo /\ ~HotIn(c)
  /\ best' = Scanned(best, {c})
  /\ todo' = todo \ {c}
  /\ UNCHANGED <<restrictedIndex, pc, short, cands, walked>>

\* The first rank; with no full shortlist in use it is the answer.
RankRestricted ==
  /\ pc = "gather" /\ todo = {}
  /\ cands' = Hinted(best)
  /\ pc' = IF DOMAIN short = {} THEN "done" ELSE "check"
  /\ UNCHANGED <<restrictedIndex, todo, best, short, walked>>

\* The most that a record left off c's list can score.
Ceiling(c) ==
  short[c] + (IF c = home THEN HomeBonus ELSE 0) + (IF isNear THEN NearBonus ELSE 0)

\* Mutant of BelowCutoff: a ceiling level with the cut-off is trusted.
NotAboveCutoff(c) ==
  /\ Cardinality(DOMAIN cands) >= Limit
  /\ \A o \in Top(cands) : Ceiling(c) <= cands[o]

\* ceiling < cutoff, where cutoff is the score of candidate Limit, -inf if there
\* are fewer: every candidate that makes the results scores above the ceiling.
BelowCutoff(c) ==
  /\ Cardinality(DOMAIN cands) >= Limit
  /\ \A o \in Top(cands) : Ceiling(c) < cands[o]

Trust(c) ==
  /\ pc = "check" /\ c \in DOMAIN short /\ BelowCutoff(c)
  /\ short' = [d \in DOMAIN short \ {c} |-> short[d]]
  /\ UNCHANGED <<restrictedIndex, pc, todo, best, cands, walked>>

Doubt(c) ==
  /\ pc = "check" /\ c \in DOMAIN short /\ ~BelowCutoff(c)
  /\ best' = Scanned(best, {c})
  /\ walked' = TRUE
  /\ short' = [d \in DOMAIN short \ {c} |-> short[d]]
  /\ UNCHANGED <<restrictedIndex, pc, todo, cands>>

Finish ==
  /\ pc = "check" /\ DOMAIN short = {}
  /\ cands' = IF walked THEN Hinted(best) ELSE cands
  /\ pc' = "done"
  /\ UNCHANGED <<restrictedIndex, todo, best, short, walked>>

\* The answer has been returned; stuttering here tells the end from a deadlock.
DoneRestricted == pc = "done" /\ UNCHANGED restrictedVars

RestrictedNext ==
  \/ \E c \in Country :
       \/ GatherFull(c) \/ GatherSpare(c) \/ GatherWalk(c)
       \/ Trust(c) \/ Doubt(c)
  \/ RankRestricted \/ Finish \/ DoneRestricted

RestrictedSpec == RestrictedInit /\ [][RestrictedNext]_restrictedVars

-----------------------------------------------------------------------------
ScoresAsked(f) == DOMAIN f \subseteq In(asked) /\ f \in [DOMAIN f -> Int]

\* Only records of the countries asked for are ever gathered.
RestrictedTypeOK ==
  /\ cc \in [Ord -> Country] /\ plain \in [Ord -> Score]
  /\ DOMAIN exact \subseteq Ord /\ exact \in [DOMAIN exact -> Score]
  /\ home \in Country \cup {NoCountry}
  /\ isNear \in BOOLEAN /\ near \in [Ord -> 0..NearBonus]
  /\ asked \subseteq Country
  /\ hotLists \in [Country -> SUBSET Ord]
  /\ pc \in {"gather", "check", "done"} /\ todo \subseteq asked
  /\ ScoresAsked(best) /\ ScoresAsked(cands)
  /\ DOMAIN short \subseteq asked \ todo /\ short \in [DOMAIN short -> Int]
  /\ walked \in BOOLEAN

\* "Its results are exactly the best Limit of them" (reader.go, SearchOptions):
\* the records, and the scores they are reported with, are those of a walk of
\* every name in the countries asked for, whichever shortlists were trusted.
ExactlyTheBest == pc = "done" => Answer(cands) = Ideal(asked)
=============================================================================
