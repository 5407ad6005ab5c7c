------------------------------ MODULE MCRegistry ------------------------------
(***************************************************************************)
(* Registry for TLC: two keys, one of them with a short and a long         *)
(* definition.                                                             *)
(***************************************************************************)
EXTENDS Registry, FiniteSetsExt, TLC

CONSTANTS r1, r2, r3

MCDefs == {"a short", "a long", "b"}
MCKey == [d \in MCDefs |-> IF d = "b" THEN "b" ELSE "a"]
MCWidth == [d \in MCDefs |-> IF d = "a long" THEN 2 ELSE 1]
MCLength == [reg \in SUBSET MCDefs |-> 1 + MapThenSumSet(LAMBDA d : MCWidth[d], reg)]

\* Requests differ in nothing but their names.
Symmetry == Permutations(Requests)
=============================================================================
