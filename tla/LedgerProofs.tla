---------------------------- MODULE LedgerProofs ----------------------------
(***************************************************************************)
(* Proofs about the operators of Ledger: what the replay of a log keeps,   *)
(* the elements of a sequence at some positions, and the merge of the logs *)
(* at a start; for sequences of any length over any set of blocks.         *)
(*                                                                         *)
(* No operator is passed to an induction theorem: an induction is over the *)
(* members of a set (UpTo), and that a recursive function exists is proved *)
(* from it (RecursionExists).                                              *)
(***************************************************************************)
EXTENDS Ledger, SequenceTheorems, WellFoundedInduction, NaturalsInduction,
        FiniteSetTheorems, TLAPS

-----------------------------------------------------------------------------
(* Induction and recursion up to a number. *)

\* A set that holds 0 and with i - 1 also i holds every number up to n.
LEMMA UpTo ==
    ASSUME NEW n \in Nat, NEW T, 0 \in T, \A i \in 1..n : i - 1 \in T => i \in T
    PROVE  \A i \in 0..n : i \in T
<1> DEFINE Out == {i \in 0..n : i \notin T}
<1>1. SUFFICES ASSUME Out # {} PROVE FALSE
  OBVIOUS
<1>2. Out \subseteq Nat
  OBVIOUS
<1>3. PICK x \in Out : \A y \in Out : ~ (<<y, x>> \in OpToRel(<, Nat))
  BY <1>1, <1>2, NatLessThanWellFounded, WFMin
<1>4. x # 0
  OBVIOUS
<1>5. x - 1 \in T
  <2>1. x - 1 \in 0..n /\ x - 1 < x
    BY <1>4
  <2>2. <<x - 1, x>> \in OpToRel(<, Nat)
    BY <2>1 DEF OpToRel
  <2> QED
    BY <1>3, <2>1, <2>2
<1> QED
  BY <1>4, <1>5

\* g holds the values of a recursion from base.
Computes(g, n, base, step) ==
    /\ g[0] = base
    /\ \A i \in 1..n : g[i] = step[<<g[i - 1], i>>]

\* Of every step that stays in a set there is such a function.
LEMMA RecursionExists ==
    ASSUME NEW n \in Nat, NEW St, NEW base \in St, NEW step \in [St \X (1..n) -> St]
    PROVE  \E g \in [0..n -> St] : Computes(g, n, base, step)
<1> DEFINE Ok(m, g) == /\ g[0] = base
                       /\ \A i \in 1..m : g[i] = step[<<g[i - 1], i>>]
           T == {m \in 0..n : \E g \in [0..m -> St] : Ok(m, g)}
<1>1. 0 \in T
  <2> DEFINE g == [i \in 0..0 |-> base]
  <2>1. g \in [0..0 -> St]
    OBVIOUS
  <2>2. Ok(0, g)
    OBVIOUS
  <2> HIDE DEF g, Ok
  <2> QED
    BY <2>1, <2>2
<1>2. ASSUME NEW m \in 1..n, m - 1 \in T PROVE m \in T
  <2>1. PICK g \in [0..(m - 1) -> St] : Ok(m - 1, g)
    BY <1>2
  <2>5. g[m - 1] \in St
    OBVIOUS
  <2> DEFINE h == [i \in 0..m |-> IF i = m THEN step[<<g[m - 1], m>>] ELSE g[i]]
  <2>2. h \in [0..m -> St]
    BY <2>5
  <2>3. h[0] = base
    BY <2>1
  <2>4. ASSUME NEW i \in 1..m PROVE h[i] = step[<<h[i - 1], i>>]
    <3>0. h[i - 1] = g[i - 1]
      OBVIOUS
    <3>1. CASE i = m
      <4>1. h[m] = step[<<g[m - 1], m>>]
        OBVIOUS
      <4> QED
        BY <3>0, <3>1, <4>1
    <3>2. CASE i # m
      BY <2>1, <3>0, <3>2
    <3> QED
      BY <3>1, <3>2
  <2>6. Ok(m, h)
    BY <2>3, <2>4
  <2> HIDE DEF h, Ok
  <2> QED
    BY <2>2, <2>6
<1>3. n \in T
  <2> HIDE DEF T
  <2>1. \A i \in 1..n : i - 1 \in T => i \in T
    BY <1>2
  <2> QED
    BY <1>1, <2>1, UpTo
<1> QED
  BY <1>3 DEF Computes

-----------------------------------------------------------------------------
(* Replay. *)

\* What a replay of blocks in B may have made of a log.
Histories(B) == [verified : Seq(B), quarantined : Seq(B)]

\* The result of a step, as a record.
LEMMA VerifyStepIs ==
    ASSUME NEW B, NEW acc \in Histories(B), NEW b \in B
    PROVE  VerifyStep(acc, b) =
             IF IsValidChain(Append(acc.verified, b))
             THEN [verified |-> Append(acc.verified, b), quarantined |-> acc.quarantined]
             ELSE [verified |-> acc.verified, quarantined |-> Append(acc.quarantined, b)]
<1>1. ASSUME NEW x
      PROVE  /\ [acc EXCEPT !.verified = x] = [verified |-> x, quarantined |-> acc.quarantined]
             /\ [acc EXCEPT !.quarantined = x] = [verified |-> acc.verified, quarantined |-> x]
  BY DEF Histories
<1>2. VerifyStep(acc, b) =
             IF IsValidChain(Append(acc.verified, b))
             THEN [acc EXCEPT !.verified = Append(acc.verified, b)]
             ELSE [acc EXCEPT !.quarantined = Append(acc.quarantined, b)]
  BY Zenon DEF VerifyStep
<1> QED
  BY <1>1, <1>2, Zenon

\* The same, field by field.
LEMMA VerifyStepKeeps ==
    ASSUME NEW B, NEW acc \in Histories(B), NEW b \in B
    PROVE  /\ IsValidChain(Append(acc.verified, b)) =>
                /\ VerifyStep(acc, b).verified = Append(acc.verified, b)
                /\ VerifyStep(acc, b).quarantined = acc.quarantined
           /\ ~ IsValidChain(Append(acc.verified, b)) =>
                /\ VerifyStep(acc, b).verified = acc.verified
                /\ VerifyStep(acc, b).quarantined = Append(acc.quarantined, b)
<1>1. CASE IsValidChain(Append(acc.verified, b))
  <2>1. VerifyStep(acc, b) =
          [verified |-> Append(acc.verified, b), quarantined |-> acc.quarantined]
    BY <1>1, VerifyStepIs, Zenon
  <2> QED
    BY <1>1, <2>1
<1>2. CASE ~ IsValidChain(Append(acc.verified, b))
  <2>1. VerifyStep(acc, b) =
          [verified |-> acc.verified, quarantined |-> Append(acc.quarantined, b)]
    BY <1>2, VerifyStepIs, Zenon
  <2> QED
    BY <1>2, <2>1
<1> QED
  BY <1>1, <1>2

\* A step makes a history of a history.
LEMMA VerifyStepType ==
    ASSUME NEW B, NEW acc \in Histories(B), NEW b \in B
    PROVE  VerifyStep(acc, b) \in Histories(B)
<1>1. /\ acc.verified \in Seq(B) /\ acc.quarantined \in Seq(B)
      /\ Append(acc.verified, b) \in Seq(B) /\ Append(acc.quarantined, b) \in Seq(B)
  BY DEF Histories
<1>2. /\ [verified |-> Append(acc.verified, b), quarantined |-> acc.quarantined] \in Histories(B)
      /\ [verified |-> acc.verified, quarantined |-> Append(acc.quarantined, b)] \in Histories(B)
  BY <1>1 DEF Histories
<1> QED
  BY <1>2, VerifyStepIs, Zenon

\* The replay is a function, and obeys its recursion.
LEMMA ReplayDef ==
    ASSUME NEW B, NEW s \in Seq(B)
    PROVE  /\ Replay(s) \in [0..Len(s) -> Histories(B)]
           /\ Replay(s)[0] = [verified |-> <<>>, quarantined |-> <<>>]
           /\ \A i \in 1..Len(s) : Replay(s)[i] = VerifyStep(Replay(s)[i - 1], s[i])
<1> DEFINE n == Len(s)
           base == [verified |-> <<>>, quarantined |-> <<>>]
           step == [x \in Histories(B) \X (1..n) |-> VerifyStep(x[1], s[x[2]])]
           Body(f) == [i \in 0..n |-> IF i = 0 THEN base ELSE VerifyStep(f[i - 1], s[i])]
<1>1. n \in Nat /\ base \in Histories(B)
  BY DEF Histories
<1>2. step \in [Histories(B) \X (1..n) -> Histories(B)]
  BY VerifyStepType
<1>3. \E g \in [0..n -> Histories(B)] :
          /\ g[0] = base
          /\ \A i \in 1..n : g[i] = step[<<g[i - 1], i>>]
  <2> DEFINE St == Histories(B)
  <2>1. n \in Nat /\ base \in St /\ step \in [St \X (1..n) -> St]
    BY <1>1, <1>2
  <2> HIDE DEF step, base, n, St
  <2>2. \E g \in [0..n -> St] : Computes(g, n, base, step)
    BY <2>1, RecursionExists
  <2> QED BY <2>2 DEF St, Computes
<1>4. PICK g \in [0..n -> Histories(B)] :
          /\ g[0] = base
          /\ \A i \in 1..n : g[i] = step[<<g[i - 1], i>>]
  BY <1>3
<1>5. ASSUME NEW i \in 1..n PROVE g[i] = VerifyStep(g[i - 1], s[i])
  <2>1. g[i - 1] \in Histories(B)
    BY <1>1
  <2> QED BY <2>1, <1>4
<1>6. g = Body(g)
  <2> HIDE DEF base, step
  <2>1. \A i \in 0..n : g[i] = Body(g)[i]
    BY <1>1, <1>4, <1>5
  <2> QED
    BY <2>1
<1>7. Replay(s) = Body(Replay(s))
  BY <1>6 DEF Replay
<1>8. Replay(s)[0] = base
  BY <1>7
<1>9. \A i \in 1..n : Replay(s)[i] = VerifyStep(Replay(s)[i - 1], s[i])
  BY <1>7, <1>1
<1>10. \A i \in 0..n : Replay(s)[i] \in Histories(B)
  <2> DEFINE T == {i \in 0..n : Replay(s)[i] \in Histories(B)}
  <2>1. 0 \in T
    BY <1>1, <1>8
  <2>2. ASSUME NEW i \in 1..n, i - 1 \in T PROVE i \in T
    BY <2>2, <1>9, VerifyStepType
  <2> HIDE DEF T
  <2>3. \A i \in 0..n : i \in T
    BY <1>1, <2>1, <2>2, UpTo
  <2> QED
    BY <2>3 DEF T
<1> QED
  BY <1>7, <1>8, <1>9, <1>10

\* Of an empty log nothing is kept or quarantined.
LEMMA VerifyEmpty ==
    VerifyPlayerBlocks(<<>>) = [verified |-> <<>>, quarantined |-> <<>>]
<1>1. <<>> \in Seq({}) /\ Len(<<>>) = 0
  OBVIOUS
<1> QED
  BY <1>1, ReplayDef DEF VerifyPlayerBlocks

\* What is kept and what is quarantined are blocks.
LEMMA VerifyType ==
    ASSUME NEW B, NEW s \in Seq(B)
    PROVE  VerifyPlayerBlocks(s) \in Histories(B)
<1>1. Len(s) \in 0..Len(s)
  OBVIOUS
<1> QED
  BY <1>1, ReplayDef DEF VerifyPlayerBlocks

\* The replay of a longer log goes on from that of the shorter one.
LEMMA VerifyAppend ==
    ASSUME NEW B, NEW s \in Seq(B), NEW b \in B
    PROVE  VerifyPlayerBlocks(Append(s, b)) = VerifyStep(VerifyPlayerBlocks(s), b)
<1> DEFINE t == Append(s, b)
           n == Len(s)
           T == {i \in 0..n : Replay(t)[i] = Replay(s)[i]}
<1>1. t \in Seq(B) /\ Len(t) = n + 1 /\ t[n + 1] = b /\ \A i \in 1..n : t[i] = s[i]
  OBVIOUS
<1>2. n \in Nat
  OBVIOUS
<1>3. /\ Replay(s)[0] = [verified |-> <<>>, quarantined |-> <<>>]
      /\ \A i \in 1..n : Replay(s)[i] = VerifyStep(Replay(s)[i - 1], s[i])
  BY ReplayDef
<1>4. /\ Replay(t)[0] = [verified |-> <<>>, quarantined |-> <<>>]
      /\ \A i \in 1..(n + 1) : Replay(t)[i] = VerifyStep(Replay(t)[i - 1], t[i])
  <2> HIDE DEF t
  <2> QED BY <1>1, ReplayDef
<1> HIDE DEF t, n
<1>5. 0 \in T
  BY <1>2, <1>3, <1>4
<1>6. ASSUME NEW i \in 1..n, i - 1 \in T PROVE i \in T
  <2>1. Replay(t)[i] = VerifyStep(Replay(t)[i - 1], t[i])
    BY <1>2, <1>4
  <2> QED
    BY <1>1, <1>2, <1>3, <1>6, <2>1
<1>7. n \in T
  <2> HIDE DEF T
  <2>1. \A i \in 0..n : i \in T
    BY <1>2, <1>5, <1>6, UpTo
  <2> QED
    BY <1>2, <2>1
<1>8. Replay(t)[n + 1] = VerifyStep(Replay(t)[n + 1 - 1], b)
  BY <1>1, <1>2, <1>4
<1>9. n + 1 - 1 = n
  BY <1>2
<1> QED
  BY <1>1, <1>7, <1>8, <1>9 DEF VerifyPlayerBlocks, t, n

\* A chain is valid with one more block when that block is unaltered and names
\* the tip of a valid chain.
LEMMA ValidAppend ==
    ASSUME NEW B, NEW c \in Seq(B), NEW b \in B
    PROVE  IsValidChain(Append(c, b)) <=>
             IsValidChain(c) /\ b.prev = TipHash(c) /\ b.hash = b.digest
<1> DEFINE n == Len(c)
           d == Append(c, b)
<1>1. n \in Nat /\ Len(d) = n + 1 /\ d[n + 1] = b /\ \A i \in 1..n : d[i] = c[i]
  OBVIOUS
<1>2. c = <<>> <=> n = 0
  BY EmptySeq
<1>3. \A i \in 1..n : HashBefore(d, i) = HashBefore(c, i)
  BY <1>1 DEF HashBefore
<1>4. HashBefore(d, n + 1) = TipHash(c)
  BY <1>1, <1>2 DEF HashBefore, TipHash
<1> HIDE DEF n, d
<1>5. \A i \in 1..(n + 1) : i \in 1..n \/ i = n + 1
  BY <1>1
<1>6. 1..n \subseteq 1..(n + 1) /\ n + 1 \in 1..(n + 1)
  BY <1>1
<1> QED
  BY <1>1, <1>3, <1>4, <1>5, <1>6, Zenon DEF IsValidChain, n, d

\* The genesis block alone is a valid chain.
LEMMA EmptyIsValid == IsValidChain(<<>>)
  BY DEF IsValidChain

\* What a replay keeps is a valid chain, whatever the log.
LEMMA VerifiedIsValid ==
    ASSUME NEW B, NEW s \in Seq(B)
    PROVE  IsValidChain(VerifyPlayerBlocks(s).verified)
<1> DEFINE n == Len(s)
           T == {i \in 0..n : IsValidChain(Replay(s)[i].verified)}
<1>1. n \in Nat
  OBVIOUS
<1>2. /\ Replay(s) \in [0..n -> Histories(B)]
      /\ Replay(s)[0] = [verified |-> <<>>, quarantined |-> <<>>]
      /\ \A i \in 1..n : Replay(s)[i] = VerifyStep(Replay(s)[i - 1], s[i])
  BY ReplayDef
<1>3. 0 \in T
  BY <1>1, <1>2, EmptyIsValid
<1>4. ASSUME NEW i \in 1..n, i - 1 \in T PROVE i \in T
  <2> DEFINE acc == Replay(s)[i - 1]
  <2>1. acc \in Histories(B) /\ s[i] \in B
    BY <1>1, <1>2
  <2>2. IsValidChain(VerifyStep(acc, s[i]).verified)
    <3>1. IsValidChain(acc.verified)
      BY <1>4
    <3> HIDE DEF acc
    <3> QED
      BY <2>1, <3>1, VerifyStepKeeps, Zenon
  <2> QED
    BY <1>2, <2>2
<1>5. n \in T
  <2> HIDE DEF T
  <2>1. \A i \in 0..n : i \in T
    BY <1>1, <1>3, <1>4, UpTo
  <2> QED
    BY <1>1, <2>1
<1> QED
  BY <1>5 DEF VerifyPlayerBlocks

\* Which block a replay keeps, of a log with one more.
LEMMA VerifiedAppend ==
    ASSUME NEW B, NEW s \in Seq(B), NEW b \in B
    PROVE  LET kept == VerifyPlayerBlocks(s).verified
           IN  /\ kept \in Seq(B)
               /\ VerifyPlayerBlocks(Append(s, b)).verified =
                    IF b.prev = TipHash(kept) /\ b.hash = b.digest
                    THEN Append(kept, b) ELSE kept
<1> DEFINE acc == VerifyPlayerBlocks(s)
<1>1. acc \in Histories(B) /\ IsValidChain(acc.verified)
  BY VerifyType, VerifiedIsValid
<1>2. VerifyPlayerBlocks(Append(s, b)) = VerifyStep(acc, b)
  BY VerifyAppend
<1> HIDE DEF acc
<1>3. acc.verified \in Seq(B)
  BY <1>1 DEF Histories
<1>4. IsValidChain(Append(acc.verified, b)) <=>
        b.prev = TipHash(acc.verified) /\ b.hash = b.digest
  BY <1>1, <1>3, ValidAppend
<1>5. VerifyStep(acc, b).verified =
        IF b.prev = TipHash(acc.verified) /\ b.hash = b.digest
        THEN Append(acc.verified, b) ELSE acc.verified
  BY <1>1, <1>4, VerifyStepKeeps, Zenon
<1> QED
  BY <1>2, <1>3, <1>5, Zenon DEF acc

-----------------------------------------------------------------------------
(* Sets in order. *)

\* R orders the members of K, each after those below it.
Orders(R, K) ==
    /\ \A j \in K : <<j, j>> \notin R
    /\ \A i, j, k \in K : <<i, j>> \in R /\ <<j, k>> \in R => <<i, k>> \in R
    /\ \A j, k \in K : j = k \/ <<j, k>> \in R \/ <<k, j>> \in R

Below(K, R, k) == {j \in K : <<j, k>> \in R}

\* The rank of a member is a position.
LEMMA RankRange ==
    ASSUME NEW K, IsFiniteSet(K), NEW R, Orders(R, K), NEW k \in K
    PROVE  Cardinality(Below(K, R, k)) + 1 \in 1..Cardinality(K)
<1>1. Below(K, R, k) \in SUBSET K /\ k \notin Below(K, R, k)
  BY DEF Below, Orders
<1>2. IsFiniteSet(Below(K, R, k))
  BY <1>1, FS_Subset
<1>3. Below(K, R, k) \cup {k} \in SUBSET K
  BY <1>1
<1>4. Cardinality(Below(K, R, k) \cup {k}) <= Cardinality(K)
  BY <1>3, FS_Subset
<1>5. Cardinality(Below(K, R, k) \cup {k}) = Cardinality(Below(K, R, k)) + 1
  BY <1>1, <1>2, FS_AddElement
<1> QED
  BY <1>2, <1>4, <1>5, FS_CardinalityType

\* The rank grows with the order.
LEMMA RankGrows ==
    ASSUME NEW K, IsFiniteSet(K), NEW R, Orders(R, K), NEW j \in K, NEW k \in K,
           <<j, k>> \in R
    PROVE  Cardinality(Below(K, R, j)) < Cardinality(Below(K, R, k))
<1> DEFINE A == Below(K, R, j)
           C == Below(K, R, k)
<1>1. A \in SUBSET C
  BY DEF Below, Orders
<1>2. j \in C /\ j \notin A
  BY DEF Below, Orders
<1>3. IsFiniteSet(C)
  <2>1. C \in SUBSET K
    BY DEF Below
  <2> QED
    BY <2>1, FS_Subset
<1> HIDE DEF A, C
<1>4. Cardinality(A) <= Cardinality(C) /\ Cardinality(A) # Cardinality(C) /\ IsFiniteSet(A)
  BY <1>1, <1>2, <1>3, FS_Subset
<1>5. Cardinality(A) \in Nat /\ Cardinality(C) \in Nat
  BY <1>3, <1>4, FS_CardinalityType
<1> QED
  BY <1>4, <1>5 DEF A, C

\* Two members do not share a rank.
LEMMA RankInjective ==
    ASSUME NEW K, IsFiniteSet(K), NEW R, Orders(R, K), NEW j \in K, NEW k \in K,
           Cardinality(Below(K, R, j)) = Cardinality(Below(K, R, k))
    PROVE  j = k
<1>1. SUFFICES ASSUME j # k PROVE FALSE
  OBVIOUS
<1>2. <<j, k>> \in R \/ <<k, j>> \in R
  BY <1>1 DEF Orders
<1>3. Cardinality(Below(K, R, j)) \in Nat /\ Cardinality(Below(K, R, k)) \in Nat
  <2>1. Below(K, R, j) \in SUBSET K /\ Below(K, R, k) \in SUBSET K
    BY DEF Below
  <2> QED
    BY <2>1, FS_Subset, FS_CardinalityType
<1> QED
  BY <1>2, <1>3, RankGrows

\* InOrder holds each member at its rank.
LEMMA InOrderAt ==
    ASSUME NEW K, IsFiniteSet(K), NEW R, Orders(R, K)
    PROVE  /\ \A n \in 1..Cardinality(K) :
                /\ InOrder(K, R)[n] \in K
                /\ Cardinality(Below(K, R, InOrder(K, R)[n])) = n - 1
           /\ \A k \in K : InOrder(K, R)[Cardinality(Below(K, R, k)) + 1] = k
           /\ DOMAIN InOrder(K, R) = 1..Cardinality(K)
<1> DEFINE N == Cardinality(K)
           rank == [k \in K |-> Cardinality(Below(K, R, k)) + 1]
<1>1. N \in Nat
  BY FS_CardinalityType
<1>2. rank \in Injection(K, 1..N)
  <2>1. rank \in [K -> 1..N]
    BY RankRange
  <2>2. ASSUME NEW j \in K, NEW k \in K, rank[j] = rank[k] PROVE j = k
    <3>1. Cardinality(Below(K, R, j)) \in Int /\ Cardinality(Below(K, R, k)) \in Int
      <4>1. Cardinality(Below(K, R, j)) \in Nat /\ Cardinality(Below(K, R, k)) \in Nat
        <5>1. Below(K, R, j) \in SUBSET K /\ Below(K, R, k) \in SUBSET K
          BY DEF Below
        <5> QED
          BY <5>1, FS_Subset, FS_CardinalityType
      <4> QED
        BY <4>1
    <3>2. Cardinality(Below(K, R, j)) + 1 = Cardinality(Below(K, R, k)) + 1
      BY <2>2
    <3> QED
      BY <3>1, <3>2, RankInjective
  <2> QED
    BY <2>1, <2>2 DEF Injection, IsInjective
<1>3. Cardinality(1..N) = N /\ IsFiniteSet(1..N)
  BY <1>1, FS_Interval
<1>4. rank \in Surjection(K, 1..N)
  <2> HIDE DEF rank
  <2> QED BY <1>2, <1>3, FS_Injection
<1>5. \A n \in 1..N : \E k \in K : Cardinality(Below(K, R, k)) + 1 = n
  BY <1>4 DEF Surjection
<1>6. \A k \in K : Cardinality(Below(K, R, k)) \in Nat
  <2>1. \A k \in K : Below(K, R, k) \in SUBSET K
    BY DEF Below
  <2> QED
    BY <2>1, FS_Subset, FS_CardinalityType
<1>7. InOrder(K, R) = [n \in 1..N |-> CHOOSE k \in K : Cardinality(Below(K, R, k)) = n - 1]
  BY DEF InOrder, Below
<1>8. ASSUME NEW n \in 1..N
      PROVE  InOrder(K, R)[n] \in K /\ Cardinality(Below(K, R, InOrder(K, R)[n])) = n - 1
  <2>1. \E k \in K : Cardinality(Below(K, R, k)) = n - 1
    BY <1>5, <1>6
  <2> QED
    BY <1>7, <2>1, Zenon
<1>9. ASSUME NEW k \in K
      PROVE  InOrder(K, R)[Cardinality(Below(K, R, k)) + 1] = k
  <2> DEFINE n == Cardinality(Below(K, R, k)) + 1
  <2>1. n \in 1..N /\ n - 1 = Cardinality(Below(K, R, k))
    BY <1>6, RankRange
  <2>2. InOrder(K, R)[n] \in K /\ Cardinality(Below(K, R, InOrder(K, R)[n])) = n - 1
    BY <1>8, <2>1
  <2> QED
    BY <2>1, <2>2, RankInjective
<1>10. DOMAIN InOrder(K, R) = 1..N
  BY DEF InOrder
<1> QED
  BY <1>8, <1>9, <1>10

\* The numbers of a set are ordered by size.
LEMMA AscendingOrders ==
    ASSUME NEW K \in SUBSET Nat
    PROVE  Orders(Ascending(K), K)
<1>1. \A j, k \in K : <<j, k>> \in Ascending(K) <=> j < k
  BY DEF Ascending
<1>2. \A j \in K : j \in Nat
  OBVIOUS
<1> QED
  BY <1>1, <1>2 DEF Orders

\* The positions in a sequence are such a set, and a finite one.
LEMMA PositionsAreFinite ==
    ASSUME NEW n \in Nat, NEW K \in SUBSET (1..n)
    PROVE  /\ IsFiniteSet(K)
           /\ Cardinality(K) \in Nat
           /\ K \in SUBSET Nat
           /\ Orders(Ascending(K), K)
<1>1. IsFiniteSet(1..n)
  BY FS_Interval
<1>2. IsFiniteSet(K)
  BY <1>1, FS_Subset
<1> QED
  BY <1>2, FS_CardinalityType, AscendingOrders

\* One more position, after all others.
LEMMA PositionsAppend ==
    ASSUME NEW n \in Nat, NEW K \in SUBSET (1..n)
    PROVE  LET L == K \cup {n + 1}
           IN  /\ Cardinality(L) = Cardinality(K) + 1
               /\ \A m \in 1..Cardinality(K) :
                    InOrder(L, Ascending(L))[m] = InOrder(K, Ascending(K))[m]
               /\ InOrder(L, Ascending(L))[Cardinality(K) + 1] = n + 1
<1> DEFINE L == K \cup {n + 1}
           c == Cardinality(K)
<1>1. /\ IsFiniteSet(K) /\ c \in Nat /\ K \in SUBSET Nat
      /\ Orders(Ascending(K), K)
  BY PositionsAreFinite
<1>2. n + 1 \in Nat /\ L \in SUBSET (1..(n + 1)) /\ n + 1 \notin K
  OBVIOUS
<1>3. IsFiniteSet(L) /\ Orders(Ascending(L), L)
  <2> HIDE DEF L
  <2> QED BY <1>2, PositionsAreFinite
<1>4. Cardinality(L) = c + 1
  BY <1>1, <1>2, FS_AddElement
<1>5. \A k \in K : Below(L, Ascending(L), k) = Below(K, Ascending(K), k)
  <2> SUFFICES ASSUME NEW k \in K
               PROVE  Below(L, Ascending(L), k) = Below(K, Ascending(K), k)
    OBVIOUS
  <2>1. \A j \in L : <<j, k>> \in Ascending(L) <=> j < k
    BY DEF Ascending
  <2>2. \A j \in K : <<j, k>> \in Ascending(K) <=> j < k
    BY DEF Ascending
  <2>3. ~ (n + 1 < k)
    OBVIOUS
  <2> QED
    BY <2>1, <2>2, <2>3 DEF Below
<1>6. Below(L, Ascending(L), n + 1) = K
  <2>1. \A j \in L : <<j, n + 1>> \in Ascending(L) <=> j < n + 1
    BY DEF Ascending
  <2>2. \A j \in K : j < n + 1
    OBVIOUS
  <2>3. ~ (n + 1 < n + 1)
    OBVIOUS
  <2> QED
    BY <2>1, <2>2, <2>3 DEF Below
<1>7. n + 1 \in L
  OBVIOUS
<1> HIDE DEF L
<1>8. InOrder(L, Ascending(L))[c + 1] = n + 1
  BY <1>3, <1>6, <1>7, InOrderAt
<1>9. ASSUME NEW m \in 1..c
      PROVE  InOrder(L, Ascending(L))[m] = InOrder(K, Ascending(K))[m]
  <2> DEFINE k == InOrder(K, Ascending(K))[m]
  <2>1. k \in K /\ Cardinality(Below(K, Ascending(K), k)) = m - 1
    BY <1>1, InOrderAt
  <2>2. k \in L /\ Cardinality(Below(L, Ascending(L), k)) = m - 1
    BY <1>5, <2>1 DEF L
  <2>3. m - 1 + 1 = m
    BY <1>1
  <2> HIDE DEF k
  <2>4. InOrder(L, Ascending(L))[m] = k
    BY <1>3, <2>2, <2>3, InOrderAt
  <2> QED
    BY <2>4 DEF k
<1> QED
  BY <1>4, <1>8, <1>9 DEF L

-----------------------------------------------------------------------------
(* The elements at some positions. *)

\* At takes one element for each position.
LEMMA AtIs ==
    ASSUME NEW B, NEW s \in Seq(B), NEW K \in SUBSET (1..Len(s))
    PROVE  /\ At(s, K) \in Seq(B)
           /\ Len(At(s, K)) = Cardinality(K)
           /\ \A m \in 1..Cardinality(K) : InOrder(K, Ascending(K))[m] \in K
           /\ \A m \in 1..Cardinality(K) : At(s, K)[m] = s[InOrder(K, Ascending(K))[m]]
<1>1. /\ IsFiniteSet(K) /\ Cardinality(K) \in Nat /\ Orders(Ascending(K), K)
  <2>1. Len(s) \in Nat
    OBVIOUS
  <2> QED
    BY <2>1, PositionsAreFinite
<1>2. /\ \A m \in 1..Cardinality(K) : InOrder(K, Ascending(K))[m] \in K
      /\ DOMAIN InOrder(K, Ascending(K)) = 1..Cardinality(K)
  BY <1>1, InOrderAt
<1> DEFINE o == InOrder(K, Ascending(K))
           f == [m \in 1..Cardinality(K) |-> s[o[m]]]
<1>3. At(s, K) = f
  BY <1>2 DEF At
<1>4. \A m \in 1..Cardinality(K) : s[o[m]] \in B
  BY <1>2, ElementOfSeq
<1> HIDE DEF o
<1>5. f \in Seq(B) /\ Len(f) = Cardinality(K)
  BY <1>1, <1>4
<1>6. \A m \in 1..Cardinality(K) : f[m] = s[o[m]]
  OBVIOUS
<1> HIDE DEF f
<1> QED
  BY <1>2, <1>3, <1>5, <1>6 DEF o

\* What holds of the elements at these positions holds of all of At.
LEMMA AtIn ==
    ASSUME NEW B, NEW s \in Seq(B), NEW K \in SUBSET (1..Len(s)),
           NEW C, \A k \in K : s[k] \in C
    PROVE  At(s, K) \in Seq(C)
<1>1. /\ At(s, K) \in Seq(B)
      /\ Len(At(s, K)) = Cardinality(K)
      /\ \A m \in 1..Cardinality(K) : InOrder(K, Ascending(K))[m] \in K
      /\ \A m \in 1..Cardinality(K) : At(s, K)[m] = s[InOrder(K, Ascending(K))[m]]
  BY AtIs
<1>2. \A m \in 1..Len(At(s, K)) : At(s, K)[m] \in C
  BY <1>1
<1> QED
  BY <1>1, <1>2, SeqDef

\* An element at the end changes nothing at earlier positions.
LEMMA AtAppendOld ==
    ASSUME NEW B, NEW s \in Seq(B), NEW e \in B, NEW K \in SUBSET (1..Len(s))
    PROVE  At(Append(s, e), K) = At(s, K)
<1> DEFINE t == Append(s, e)
           o == InOrder(K, Ascending(K))
           c == Cardinality(K)
<1>1. t \in Seq(B) /\ K \in SUBSET (1..Len(t)) /\ \A k \in K : t[k] = s[k]
  OBVIOUS
<1> HIDE DEF t
<1>2. /\ At(s, K) \in Seq(B) /\ Len(At(s, K)) = c
      /\ \A m \in 1..c : o[m] \in K
      /\ \A m \in 1..c : At(s, K)[m] = s[o[m]]
  BY AtIs
<1>3. /\ At(t, K) \in Seq(B) /\ Len(At(t, K)) = c
      /\ \A m \in 1..c : At(t, K)[m] = t[o[m]]
  BY <1>1, AtIs
<1> HIDE DEF o, c
<1>4. \A m \in 1..c : At(t, K)[m] = At(s, K)[m]
  BY <1>1, <1>2, <1>3
<1>5. At(t, K) = At(s, K)
  BY <1>2, <1>3, <1>4, SeqEqual
<1> QED
  BY <1>5 DEF t

\* The element at the end comes last when its position is asked for.
LEMMA AtAppendNew ==
    ASSUME NEW B, NEW s \in Seq(B), NEW e \in B, NEW K \in SUBSET (1..Len(s))
    PROVE  At(Append(s, e), K \cup {Len(s) + 1}) = Append(At(s, K), e)
<1> DEFINE n == Len(s)
           t == Append(s, e)
           L == K \cup {n + 1}
           c == Cardinality(K)
           o == InOrder(K, Ascending(K))
           p == InOrder(L, Ascending(L))
           u == Append(At(s, K), e)
<1>1. /\ n \in Nat /\ t \in Seq(B) /\ L \in SUBSET (1..Len(t)) /\ t[n + 1] = e
      /\ \A k \in K : t[k] = s[k]
  <2>1. n \in Nat /\ t \in Seq(B) /\ Len(t) = n + 1 /\ t[n + 1] = e
    OBVIOUS
  <2>2. \A k \in K : t[k] = s[k]
    OBVIOUS
  <2>3. L \in SUBSET (1..(n + 1))
    <3>1. K \in SUBSET (1..n) /\ n \in Nat
      OBVIOUS
    <3> HIDE DEF n
    <3> QED
      BY <3>1
  <2> HIDE DEF t, L, n
  <2> QED
    BY <2>1, <2>2, <2>3
<1>2. /\ Cardinality(L) = c + 1
      /\ \A m \in 1..c : p[m] = o[m]
      /\ p[c + 1] = n + 1
  BY <1>1, PositionsAppend
<1>3. c \in Nat
  BY <1>1, PositionsAreFinite
<1>4. /\ At(s, K) \in Seq(B) /\ Len(At(s, K)) = c
      /\ \A m \in 1..c : o[m] \in K
      /\ \A m \in 1..c : At(s, K)[m] = s[o[m]]
  BY AtIs
<1>5. /\ u \in Seq(B) /\ Len(u) = c + 1 /\ u[c + 1] = e
      /\ \A m \in 1..c : u[m] = At(s, K)[m]
  BY <1>3, <1>4, AppendProperties
<1> HIDE DEF t, L, n
<1>6. /\ At(t, L) \in Seq(B) /\ Len(At(t, L)) = Cardinality(L)
      /\ \A m \in 1..Cardinality(L) : At(t, L)[m] = t[p[m]]
  BY <1>1, AtIs
<1> HIDE DEF c, o, p, u
<1>7. \A m \in 1..c : At(t, L)[m] = u[m]
  <2> TAKE m \in 1..c
  <2>1. m \in 1..Cardinality(L) /\ m \in 1..c
    BY <1>2, <1>3
  <2>2. At(t, L)[m] = t[o[m]]
    BY <1>2, <1>6, <2>1
  <2>3. t[o[m]] = s[o[m]]
    BY <1>1, <1>4
  <2> QED
    BY <1>4, <1>5, <2>2, <2>3
<1>8. At(t, L)[c + 1] = u[c + 1]
  <2>1. c + 1 \in 1..Cardinality(L)
    BY <1>2, <1>3
  <2> QED
    BY <1>1, <1>2, <1>5, <1>6, <2>1
<1>9. \A m \in 1..(c + 1) : At(t, L)[m] = u[m]
  <2>1. \A m \in 1..(c + 1) : m \in 1..c \/ m = c + 1
    BY <1>3
  <2> QED
    BY <1>7, <1>8, <2>1
<1>10. At(t, L) = u
  BY <1>2, <1>5, <1>6, <1>9, SeqEqual
<1> QED
  BY <1>10 DEF t, L, n, u

-----------------------------------------------------------------------------
(* The merge of the logs. *)

\* A place is a log and a position in it.
LEMMA PlaceIs ==
    ASSUME NEW B, NEW listing \in Seq(Seq(B))
    PROVE  /\ \A x \in Places(listing) :
                \E i \in 1..Len(listing) : \E k \in 1..Len(listing[i]) : x = <<i, k>>
           /\ \A i \in 1..Len(listing) : \A k \in 1..Len(listing[i]) :
                <<i, k>> \in Places(listing)
           /\ \A x \in Places(listing) : BlockAt(listing, x) \in B
<1>1. \A i \in 1..Len(listing) : DOMAIN listing[i] = 1..Len(listing[i])
  OBVIOUS
<1>2. Places(listing) = UNION {{i} \X (1..Len(listing[i])) : i \in 1..Len(listing)}
  BY <1>1 DEF Places
<1>3. \A x \in Places(listing) :
        \E i \in 1..Len(listing) : \E k \in 1..Len(listing[i]) : x = <<i, k>>
  BY <1>2
<1>4. \A i \in 1..Len(listing) : \A k \in 1..Len(listing[i]) : <<i, k>> \in Places(listing)
  BY <1>2
<1>5. ASSUME NEW x \in Places(listing) PROVE BlockAt(listing, x) \in B
  <2>1. PICK i \in 1..Len(listing) : \E k \in 1..Len(listing[i]) : x = <<i, k>>
    BY <1>3
  <2>1a. PICK k \in 1..Len(listing[i]) : x = <<i, k>>
    BY <2>1
  <2>2. listing[i] \in Seq(B)
    BY ElementOfSeq
  <2>3. listing[i][k] \in B
    BY <2>2, ElementOfSeq
  <2> QED
    BY <2>1a, <2>3 DEF BlockAt
<1> QED
  BY <1>3, <1>4, <1>5

\* There are finitely many places.
LEMMA PlacesAreFinite ==
    ASSUME NEW B, NEW listing \in Seq(Seq(B))
    PROVE  IsFiniteSet(Places(listing))
<1> DEFINE n == Len(listing)
           f == [i \in 1..n |-> {i} \X DOMAIN listing[i]]
           S == {f[i] : i \in 1..n}
<1>1. n \in Nat /\ IsFiniteSet(1..n)
  BY FS_Interval
<1>2. f \in Surjection(1..n, S)
  BY DEF Surjection
<1>3. IsFiniteSet(S)
  <2> HIDE DEF f, S
  <2> QED
    BY <1>1, <1>2, FS_Surjection
<1>4. \A T \in S : IsFiniteSet(T)
  <2> SUFFICES ASSUME NEW i \in 1..n PROVE IsFiniteSet({i} \X DOMAIN listing[i])
    OBVIOUS
  <2>1. listing[i] \in Seq(B)
    BY ElementOfSeq
  <2>2. DOMAIN listing[i] = 1..Len(listing[i]) /\ Len(listing[i]) \in Nat
    BY <2>1
  <2>3. IsFiniteSet(DOMAIN listing[i]) /\ IsFiniteSet({i})
    <3> DEFINE m == Len(listing[i])
    <3>1. m \in Nat
      BY <2>2
    <3> HIDE DEF m
    <3>2. IsFiniteSet(1..m)
      BY <3>1, FS_Interval
    <3> QED
      BY <2>2, <3>2, FS_Singleton DEF m
  <2> QED
    BY <2>3, FS_Product
<1>5. Places(listing) = UNION S
  <2>1. DOMAIN listing = 1..n
    OBVIOUS
  <2> QED
    BY <2>1 DEF Places
<1> QED
  BY <1>3, <1>4, <1>5, FS_UNION

\* The order of the merged blocks.
SortOrder(listing, K) == {xy \in K \X K : SortsBefore(listing, xy[1], xy[2])}

\* The merge order is one, since a tie in time is broken by the place.
LEMMA SortOrderOrders ==
    ASSUME NEW B, \A b \in B : b.time \in Nat,
           NEW listing \in Seq(Seq(B)), NEW K \in SUBSET Places(listing)
    PROVE  /\ IsFiniteSet(K)
           /\ Orders(SortOrder(listing, K), K)
           /\ \A x \in K : \A y \in K :
                <<x, y>> \in SortOrder(listing, K) <=> SortsBefore(listing, x, y)
<1>1. \A x \in K : \A y \in K :
        <<x, y>> \in SortOrder(listing, K) <=> SortsBefore(listing, x, y)
  BY DEF SortOrder
<1>2. \A x \in K : /\ BlockAt(listing, x).time \in Nat
                   /\ x[1] \in Nat /\ x[2] \in Nat
                   /\ x = <<x[1], x[2]>>
  <2> SUFFICES ASSUME NEW x \in K
               PROVE  /\ BlockAt(listing, x).time \in Nat
                      /\ x[1] \in Nat /\ x[2] \in Nat
                      /\ x = <<x[1], x[2]>>
    OBVIOUS
  <2>1. BlockAt(listing, x) \in B
    BY PlaceIs
  <2>2. PICK i \in 1..Len(listing) : \E k \in 1..Len(listing[i]) : x = <<i, k>>
    BY PlaceIs
  <2>2a. PICK k \in 1..Len(listing[i]) : x = <<i, k>>
    BY <2>2
  <2> QED
    BY <2>1, <2>2a
<1>3. \A x \in K : ~ SortsBefore(listing, x, x)
  BY <1>2 DEF SortsBefore, ListedBefore
<1>4. ASSUME NEW x \in K, NEW y \in K, NEW z \in K,
             SortsBefore(listing, x, y), SortsBefore(listing, y, z)
      PROVE  SortsBefore(listing, x, z)
  BY <1>2, <1>4 DEF SortsBefore, ListedBefore
<1>5. ASSUME NEW x \in K, NEW y \in K
      PROVE  x = y \/ SortsBefore(listing, x, y) \/ SortsBefore(listing, y, x)
  <2>1. CASE x[1] = y[1] /\ x[2] = y[2]
    BY <1>2, <2>1
  <2>2. CASE ~ (x[1] = y[1] /\ x[2] = y[2])
    BY <1>2, <2>2 DEF SortsBefore, ListedBefore
  <2> QED
    BY <2>1, <2>2
<1>6. IsFiniteSet(K)
  BY PlacesAreFinite, FS_Subset
<1> HIDE DEF SortOrder
<1>7. Orders(SortOrder(listing, K), K)
  BY <1>1, <1>3, <1>4, <1>5 DEF Orders
<1> QED
  BY <1>1, <1>6, <1>7

\* The merged chain holds the unseen blocks, in the sort order.
LEMMA MergeIs ==
    ASSUME NEW B, \A b \in B : b.time \in Nat, NEW listing \in Seq(Seq(B))
    PROVE  LET kept  == Unseen(listing)
               order == InOrder(kept, SortOrder(listing, kept))
           IN  /\ kept \in SUBSET Places(listing)
               /\ MergeLogs(listing) \in Seq(B)
               /\ Len(MergeLogs(listing)) = Cardinality(kept)
               /\ \A n \in 1..Cardinality(kept) :
                    MergeLogs(listing)[n] = BlockAt(listing, order[n])
<1> DEFINE kept == Unseen(listing)
           order == InOrder(kept, SortOrder(listing, kept))
           f == [n \in 1..Cardinality(kept) |-> BlockAt(listing, order[n])]
<1>1. kept \in SUBSET Places(listing)
  BY DEF Unseen
<1>2. IsFiniteSet(kept) /\ Orders(SortOrder(listing, kept), kept)
  <2> HIDE DEF kept
  <2> QED
    BY <1>1, SortOrderOrders
<1>3. /\ \A n \in 1..Cardinality(kept) : order[n] \in kept
      /\ DOMAIN order = 1..Cardinality(kept)
  <2> HIDE DEF kept
  <2> QED
    BY <1>2, InOrderAt
<1>4. MergeLogs(listing) = f
  BY <1>3 DEF MergeLogs, SortOrder
<1>5. \A n \in 1..Cardinality(kept) : BlockAt(listing, order[n]) \in B
  BY <1>1, <1>3, PlaceIs
<1>6. Cardinality(kept) \in Nat
  BY <1>2, FS_CardinalityType
<1> HIDE DEF kept, order
<1>7. f \in Seq(B) /\ Len(f) = Cardinality(kept)
  BY <1>5, <1>6
<1>8. \A n \in 1..Cardinality(kept) : f[n] = BlockAt(listing, order[n])
  OBVIOUS
<1> HIDE DEF f
<1> QED
  BY <1>1, <1>4, <1>7, <1>8 DEF kept, order

\* The merged chain is empty only if every log is: the first place of all is
\* unseen.
LEMMA MergeEmpty ==
    ASSUME NEW B, \A b \in B : b.time \in Nat, NEW listing \in Seq(Seq(B))
    PROVE  MergeLogs(listing) = <<>> <=> \A i \in 1..Len(listing) : listing[i] = <<>>
<1> DEFINE all == Places(listing)
           R == SortOrder(listing, all)
<1>1. /\ Unseen(listing) \in SUBSET all
      /\ MergeLogs(listing) \in Seq(B)
      /\ Len(MergeLogs(listing)) = Cardinality(Unseen(listing))
  BY MergeIs
<1>2. /\ IsFiniteSet(all) /\ Orders(R, all)
      /\ \A x \in all : \A y \in all : <<x, y>> \in R <=> SortsBefore(listing, x, y)
  BY SortOrderOrders
<1>3. IsFiniteSet(Unseen(listing))
  BY <1>1, <1>2, FS_Subset
<1>4. MergeLogs(listing) = <<>> <=> Unseen(listing) = {}
  <2>1. MergeLogs(listing) = <<>> <=> Len(MergeLogs(listing)) = 0
    BY <1>1, EmptySeq
  <2> QED
    BY <2>1, <1>1, <1>3, FS_EmptySet
<1>5. Unseen(listing) = {} <=> all = {}
  <2>1. ASSUME all # {} PROVE Unseen(listing) # {}
    <3>1. Cardinality(all) \in Nat /\ Cardinality(all) # 0
      BY <1>2, <2>1, FS_CardinalityType, FS_EmptySet
    <3>2. 1 \in 1..Cardinality(all)
      BY <3>1
    <3> DEFINE x == InOrder(all, R)[1]
    <3> HIDE DEF all, R
    <3>3. x \in all /\ Cardinality(Below(all, R, x)) = 1 - 1
      BY <1>2, <3>2, InOrderAt
    <3>4. IsFiniteSet(Below(all, R, x))
      <4>1. Below(all, R, x) \in SUBSET all
        BY DEF Below
      <4> QED
        BY <1>2, <4>1, FS_Subset
    <3>5. Below(all, R, x) = {}
      BY <3>3, <3>4, FS_EmptySet
    <3>6. \A y \in all : ~ SortsBefore(listing, y, x)
      BY <1>2, <3>3, <3>5 DEF Below
    <3>7. x \in Unseen(listing)
      BY <3>3, <3>6 DEF Unseen, all
    <3> QED
      BY <3>7
  <2> QED
    BY <1>1, <2>1
<1>6. all = {} <=> \A i \in 1..Len(listing) : listing[i] = <<>>
  <2>1. \A i \in 1..Len(listing) : listing[i] \in Seq(B)
    BY ElementOfSeq
  <2>2. ASSUME all = {}, NEW i \in 1..Len(listing) PROVE listing[i] = <<>>
    <3>1. \A k \in 1..Len(listing[i]) : FALSE
      BY <2>2, PlaceIs
    <3>2. Len(listing[i]) \in Nat
      BY <2>1
    <3>3. Len(listing[i]) = 0
      BY <3>1, <3>2
    <3> QED
      BY <2>1, <3>3, EmptySeq
  <2>3. ASSUME \A i \in 1..Len(listing) : listing[i] = <<>>, NEW x \in all PROVE FALSE
    <3>1. PICK i \in 1..Len(listing) : \E k \in 1..Len(listing[i]) : x = <<i, k>>
      BY PlaceIs
    <3>1a. PICK k \in 1..Len(listing[i]) : x = <<i, k>>
      BY <3>1
    <3>2. Len(listing[i]) = 0
      BY <2>3
    <3> QED
      BY <3>1a, <3>2
  <2> QED
    BY <2>2, <2>3
<1> QED
  BY <1>4, <1>5, <1>6

\* A sorted log that is listed with empty ones is the merged chain.
LEMMA MergeOne ==
    ASSUME NEW B, \A b \in B : b.time \in Nat, NEW listing \in Seq(Seq(B)),
           NEW q \in 1..Len(listing),
           \A i \in 1..Len(listing) : i # q => listing[i] = <<>>,
           \A j, k \in 1..Len(listing[q]) :
               j < k => /\ listing[q][j].time < listing[q][k].time
                        /\ listing[q][j].hash # listing[q][k].hash
    PROVE  MergeLogs(listing) = listing[q]
<1> DEFINE s == listing[q]
           n == Len(s)
           all == Places(listing)
           R == SortOrder(listing, all)
           order == InOrder(all, R)
<1>1. s \in Seq(B) /\ n \in Nat
  <2>1. s \in Seq(B)
    BY ElementOfSeq
  <2> QED
    BY <2>1
<1>2. all = {q} \X (1..n)
  <2>1. ASSUME NEW x \in all PROVE x \in {q} \X (1..n)
    <3>1. PICK i \in 1..Len(listing) : \E k \in 1..Len(listing[i]) : x = <<i, k>>
      BY PlaceIs
    <3>2. PICK k \in 1..Len(listing[i]) : x = <<i, k>>
      BY <3>1
    <3>3. i = q
      <4>1. SUFFICES ASSUME i # q PROVE FALSE
        OBVIOUS
      <4>2. Len(listing[i]) = 0
        BY <4>1
      <4> QED
        BY <3>2, <4>2
    <3> QED
      BY <3>2, <3>3
  <2>2. ASSUME NEW k \in 1..n PROVE <<q, k>> \in all
    BY PlaceIs
  <2> HIDE DEF all, n
  <2> QED
    BY <2>1, <2>2
<1>3. \A k \in 1..n : BlockAt(listing, <<q, k>>) = s[k]
  BY DEF BlockAt
<1>4. \A j, k \in 1..n : SortsBefore(listing, <<q, j>>, <<q, k>>) <=> j < k
  <2> SUFFICES ASSUME NEW j \in 1..n, NEW k \in 1..n
               PROVE  SortsBefore(listing, <<q, j>>, <<q, k>>) <=> j < k
    OBVIOUS
  <2>1. s[j].time \in Nat /\ s[k].time \in Nat
    BY <1>1, ElementOfSeq
  <2>2. j < k \/ j = k \/ k < j
    BY <1>1
  <2>3. /\ j < k => s[j].time < s[k].time
        /\ k < j => s[k].time < s[j].time
    OBVIOUS
  <2>4. SortsBefore(listing, <<q, j>>, <<q, k>>) <=>
          s[j].time < s[k].time \/ (s[j].time = s[k].time /\ (q < q \/ (q = q /\ j < k)))
    BY <1>3 DEF SortsBefore, ListedBefore
  <2>5. ~ (q < q)
    OBVIOUS
  <2> HIDE DEF s, n
  <2> QED
    BY <1>1, <2>1, <2>2, <2>3, <2>4, <2>5
<1>5. Unseen(listing) = all
  <2>1. ASSUME NEW x \in all, NEW y \in all, SortsBefore(listing, x, y)
        PROVE  BlockAt(listing, x).hash # BlockAt(listing, y).hash
    <3>1. PICK j \in 1..n : x = <<q, j>>
      BY <1>2
    <3>2. PICK k \in 1..n : y = <<q, k>>
      BY <1>2
    <3>3. j < k
      BY <1>4, <2>1, <3>1, <3>2
    <3>4. s[j].hash # s[k].hash
      BY <3>3
    <3> QED
      BY <1>3, <3>1, <3>2, <3>4
  <2> QED
    BY <2>1 DEF Unseen
<1>6. /\ IsFiniteSet(all) /\ Orders(R, all)
      /\ \A x \in all : \A y \in all : <<x, y>> \in R <=> SortsBefore(listing, x, y)
  BY SortOrderOrders
<1>7. \A m \in 0..n : IsFiniteSet({q} \X (1..m)) /\ Cardinality({q} \X (1..m)) = m
  <2> SUFFICES ASSUME NEW m \in 0..n
               PROVE  IsFiniteSet({q} \X (1..m)) /\ Cardinality({q} \X (1..m)) = m
    OBVIOUS
  <2>1. IsFiniteSet({q}) /\ Cardinality({q}) = 1
    BY FS_Singleton
  <2>2. m \in Nat
    BY <1>1
  <2>3. IsFiniteSet(1..m) /\ Cardinality(1..m) = m
    BY <2>2, FS_Interval
  <2>4. /\ IsFiniteSet({q} \X (1..m))
        /\ Cardinality({q} \X (1..m)) = Cardinality({q}) * Cardinality(1..m)
    BY <2>1, <2>3, FS_Product
  <2> QED
    BY <2>1, <2>2, <2>3, <2>4
<1>8. ASSUME NEW k \in 1..n PROVE order[k] = <<q, k>>
  <2>1. Below(all, R, <<q, k>>) = {q} \X (1..(k - 1))
    <3>1. <<q, k>> \in all /\ k \in Nat
      BY <1>1, <1>2
    <3>2. \A j \in 1..n : <<<<q, j>>, <<q, k>>>> \in R <=> j < k
      <4> SUFFICES ASSUME NEW j \in 1..n PROVE <<<<q, j>>, <<q, k>>>> \in R <=> j < k
        OBVIOUS
      <4>1. <<q, j>> \in all
        BY <1>2
      <4> HIDE DEF all, R, n
      <4> QED
        BY <1>4, <1>6, <3>1, <4>1
    <3>3. \A j \in 1..n : j < k <=> j \in 1..(k - 1)
      BY <1>1
    <3>4. 1..(k - 1) \subseteq 1..n
      BY <1>1
    <3> HIDE DEF all, R, n
    <3> QED
      BY <1>2, <3>2, <3>3, <3>4 DEF Below
  <2>2. k - 1 \in 0..n /\ k - 1 + 1 = k
    BY <1>1
  <2>3. <<q, k>> \in all /\ Cardinality(Below(all, R, <<q, k>>)) = k - 1
    BY <1>2, <1>7, <2>1, <2>2
  <2> HIDE DEF all, R
  <2> QED
    BY <1>6, <2>2, <2>3, InOrderAt
<1>9. Cardinality(all) = n
  <2>1. n \in 0..n
    BY <1>1
  <2> HIDE DEF all, n
  <2> QED
    BY <1>2, <1>7, <2>1
<1>10. /\ MergeLogs(listing) \in Seq(B) /\ Len(MergeLogs(listing)) = n
       /\ \A k \in 1..n : MergeLogs(listing)[k] = BlockAt(listing, order[k])
  <2> HIDE DEF n
  <2>1. /\ MergeLogs(listing) \in Seq(B)
        /\ Len(MergeLogs(listing)) = Cardinality(all)
        /\ \A k \in 1..Cardinality(all) :
             MergeLogs(listing)[k] = BlockAt(listing, order[k])
    <3> DEFINE kept == Unseen(listing)
               sorted == InOrder(kept, SortOrder(listing, kept))
    <3>1. /\ MergeLogs(listing) \in Seq(B)
          /\ Len(MergeLogs(listing)) = Cardinality(kept)
          /\ \A k \in 1..Cardinality(kept) :
               MergeLogs(listing)[k] = BlockAt(listing, sorted[k])
      BY MergeIs, Zenon
    <3>2. kept = all /\ sorted = order
      BY <1>5, Zenon
    <3> HIDE DEF kept, sorted, all, order
    <3> QED
      BY <3>1, <3>2
  <2> QED
    BY <1>9, <2>1
<1>11. \A k \in 1..n : MergeLogs(listing)[k] = s[k]
  BY <1>3, <1>8, <1>10
<1> HIDE DEF s
<1>12. MergeLogs(listing) = s
  BY <1>1, <1>10, <1>11, SeqEqual
<1> QED
  BY <1>12 DEF s
=============================================================================
