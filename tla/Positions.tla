------------------------------ MODULE Positions ------------------------------
(***************************************************************************)
(* The members of a set in an order, and what a filter over an iterator    *)
(* collects: the elements of a sequence at the positions that pass.  Both  *)
(* are said without recursion, so that they can be reasoned about.         *)
(***************************************************************************)
EXTENDS Naturals, Sequences, FiniteSets

\* The members of a finite set in the order given by a set of pairs.
InOrder(K, before) ==
    [n \in 1..Cardinality(K) |->
        CHOOSE k \in K : Cardinality({j \in K : <<j, k>> \in before}) = n - 1]

Ascending(K) == {jk \in K \X K : jk[1] < jk[2]}

\* The elements of a sequence at the positions in K, oldest first.
At(seq, K) ==
    LET order == InOrder(K, Ascending(K))
    IN  [n \in DOMAIN order |-> seq[order[n]]]
=============================================================================
