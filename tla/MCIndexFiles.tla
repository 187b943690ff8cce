---------------------------- MODULE MCIndexFiles ----------------------------
(***************************************************************************)
(* Three builds, all with the same number of records, so that the length   *)
(* of records.idx never gives a mixture away; the second by an older       *)
(* release.                                                                *)
(***************************************************************************)
EXTENDS IndexFiles

MCRecords == [b \in 1..MaxBuilds |-> 7]
MCFormat == [b \in 1..MaxBuilds |-> IF b = 2 THEN 3 ELSE 4]
=============================================================================
