---------------------------- MODULE MCRestricted ----------------------------
(***************************************************************************)
(* Restricted on views in which country 1 is asked for and holds two or    *)
(* three of the four records, record 0 among them, and country 2 the rest. *)
(* At most one record bears the query's exact name and at most one is near *)
(* the caller; a country nobody asks for has no shortlist.                 *)
(***************************************************************************)
EXTENDS Restricted

AtMostOne(S) == Cardinality(S) <= 1

SmallView ==
  /\ cc \in {f \in [Ord -> Country] :
               f[0] = 1 /\ f[3] = 2 /\ ~AtMostOne({o \in Ord : f[o] = 1})}
  /\ exact \in UNION {[S -> Score] : S \in {T \in SUBSET Ord : AtMostOne(T)}}
  /\ near \in {f \in [Ord -> 0..NearBonus] : AtMostOne({o \in Ord : f[o] > 0})}
  /\ asked \in {C \in SUBSET Country : 1 \in C}
  /\ hotLists \in {f \in [Country -> SUBSET Ord] : \A c \in Country \ asked : f[c] = {}}

MCInit == SmallView /\ RestrictedInit

MCSpec == MCInit /\ [][RestrictedNext]_restrictedVars
=============================================================================
