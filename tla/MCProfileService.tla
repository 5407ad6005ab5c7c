--------------------------- MODULE MCProfileService ---------------------------
(***************************************************************************)
(* ProfileService for TLC.                                                 *)
(***************************************************************************)
EXTENDS ProfileService, TLC

\* Neither players nor claims are ever compared with a particular value.
Symmetry == Permutations(Players) \cup Permutations(Claims)

\* For the runs whose properties do not mention what was answered: no action
\* reads acked, accepted or promoted.
WithoutAnswers == <<memory, files, minted>>
=============================================================================
