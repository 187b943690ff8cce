----------------------------- MODULE Shortlist -----------------------------
(***************************************************************************)
(* When a list is a shortlist: the best K of a set of scored records, all  *)
(* of them if there are no more than K.  Which of several records with the *)
(* same score are left out is open (internal/index/hot.go, topK).          *)
(***************************************************************************)
EXTENDS Integers, FiniteSets

CONSTANTS K,        \* hotK, the entries kept per prefix
          Score     \* the scores a record can have

ASSUME KAssumption == K \in Nat \ {0}
ASSUME ScoreAssumption == Score \subseteq Int

\* h, from records to scores, is a best-K list of f.
IsShortlist(f, h) ==
  /\ DOMAIN h \subseteq DOMAIN f
  /\ \A o \in DOMAIN h : h[o] = f[o]
  /\ Cardinality(DOMAIN h) <= K
  /\ DOMAIN h # DOMAIN f => Cardinality(DOMAIN h) = K
  /\ \A p \in DOMAIN h, o \in DOMAIN f \ DOMAIN h : f[o] <= h[p]
=============================================================================
