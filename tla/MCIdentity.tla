------------------------------ MODULE MCIdentity ------------------------------
(***************************************************************************)
(* Identity for TLC: of three spellings two have tokens configured, both   *)
(* for one subject and one of them for another.                            *)
(***************************************************************************)
EXTENDS Identity

CONSTANTS s1, s2, s3, t1, t2, alice, bob

MCTokenMap ==
    [s \in {s1, s2} |->
        [t \in {t1, t2} |->
            IF t = t1 THEN alice ELSE IF s = s1 THEN None ELSE bob]]
=============================================================================
