--------------------------- MODULE MCUnrestricted ---------------------------
(***************************************************************************)
(* Unrestricted on views in which at most two records bear the query's     *)
(* exact name, at most one is near the caller, and record 0 is in country  *)
(* 1.                                                                      *)
(***************************************************************************)
EXTENDS Unrestricted

AtMost(n, S) == Cardinality(S) <= n

SmallView ==
  /\ cc \in {f \in [Ord -> Country] : f[0] = 1}
  /\ exact \in UNION {[S -> Score] : S \in {T \in SUBSET Ord : AtMost(2, T)}}
  /\ near \in {f \in [Ord -> 0..NearBonus] : AtMost(1, {o \in Ord : f[o] > 0})}

MCInit == SmallView /\ Init

MCSpec == MCInit /\ [][Next]_vars
=============================================================================
