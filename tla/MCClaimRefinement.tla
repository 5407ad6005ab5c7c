-------------------------- MODULE MCClaimRefinement --------------------------
(***************************************************************************)
(* ClaimRefinement for TLC.                                                *)
(***************************************************************************)
EXTENDS ClaimRefinement, TLC

\* No action reads acked, accepted or promoted, and the property does not
\* mention them.
WithoutAnswers == <<memory, files, minted>>
=============================================================================
