--------------------------- MODULE AlgorithmProofs ---------------------------
(***************************************************************************)
(* Proofs about the replay of a log, vectors and tokens, as MCAlgorithms   *)
(* states their properties: for logs of any length and any blocks, words   *)
(* of any size, any dimensions, and lists of tokens of any length.         *)
(***************************************************************************)
EXTENDS MCAlgorithms, LedgerProofs

variables == <<log, sent, seeded, entries>>

\* A log grows one block at a time.
LEMMA LogSteps ==
    ASSUME [Next]_variables
    PROVE  log' = log \/ \E b \in Blocks : log' = Append(log, b)
  BY DEF Next, AppendAny, TakeVectors, AddEntry, variables

LogType == log \in Seq(Blocks)

LEMMA LogIsTyped == Spec => []LogType
<1>1. Init => LogType
  BY DEF Init, LogType
<1>2. LogType /\ [Next]_variables => LogType'
  BY LogSteps DEF LogType
<1> QED
  BY <1>1, <1>2, PTL DEF Spec, variables

\* What a block more does to the two parts of the log.
LEMMA ReplayStep ==
    ASSUME LogType, NEW b \in Blocks, log' = Append(log, b)
    PROVE  /\ Verified \in Seq(Blocks)
           /\ Quarantined \in Seq(Blocks)
           /\ IF b.prev = TipHash(Verified) /\ b.hash = b.digest
              THEN Verified' = Append(Verified, b) /\ Quarantined' = Quarantined
              ELSE Verified' = Verified /\ Quarantined' = Append(Quarantined, b)
<1> DEFINE acc == VerifyPlayerBlocks(log)
<1>1. acc \in Histories(Blocks)
  BY VerifyType DEF LogType
<1>2. VerifyPlayerBlocks(Append(log, b)) = VerifyStep(acc, b)
  BY VerifyAppend DEF LogType
<1>3. IsValidChain(acc.verified)
  BY VerifiedIsValid DEF LogType
<1>4. /\ Verified = acc.verified
      /\ Quarantined = acc.quarantined
      /\ Verified' = VerifyStep(acc, b).verified
      /\ Quarantined' = VerifyStep(acc, b).quarantined
  BY <1>2 DEF Verified, Quarantined
<1> HIDE DEF acc
<1>5. acc.verified \in Seq(Blocks) /\ acc.quarantined \in Seq(Blocks)
  BY <1>1 DEF Histories
<1>6. IsValidChain(Append(acc.verified, b)) <=>
        b.prev = TipHash(acc.verified) /\ b.hash = b.digest
  BY <1>3, <1>5, ValidAppend
<1> QED
  BY <1>1, <1>4, <1>5, <1>6, VerifyStepKeeps

\* Whatever is appended to a log, what its replay keeps only grows at the end.
THEOREM KeptBlocksAreNeverLost == Spec => KeptBlocksStay
<1>1. LogType /\ [Next]_variables =>
        [IsPrefix(Verified, VerifyPlayerBlocks(log').verified)]_log
  <2> SUFFICES ASSUME LogType, NEW b \in Blocks, log' = Append(log, b)
               PROVE  IsPrefix(Verified, Verified')
    BY LogSteps DEF Verified
  <2>1. Verified \in Seq(Blocks)
        /\ (Verified' = Verified \/ Verified' = Append(Verified, b))
    BY ReplayStep
  <2> DEFINE kept == Verified
             after == Verified'
  <2>2. kept \in Seq(Blocks) /\ (after = kept \/ after = Append(kept, b))
    BY <2>1
  <2> HIDE DEF kept, after
  <2>3. /\ after \in Seq(Blocks)
        /\ Len(kept) <= Len(after)
        /\ \A i \in 1..Len(kept) : after[i] = kept[i]
    BY <2>2
  <2>4. SubSeq(kept, 1, Len(kept)) = SubSeq(after, 1, Len(kept))
    BY <2>2, <2>3
  <2>5. IsPrefix(kept, after)
    BY <2>3, <2>4 DEF IsPrefix
  <2> QED
    BY <2>5 DEF kept, after
<1> QED
  BY <1>1, LogIsTyped, PTL DEF Spec, KeptBlocksStay, variables

-----------------------------------------------------------------------------
(* No block is dropped or kept twice. *)

Copies(s, b) == {i \in DOMAIN s : s[i] = b}

LEMMA CopiesAppend ==
    ASSUME NEW s \in Seq(Blocks), NEW e \in Blocks, NEW b
    PROVE  /\ Cardinality(Copies(s, b)) \in Nat
           /\ Cardinality(Copies(Append(s, e), b)) =
                IF e = b THEN Cardinality(Copies(s, b)) + 1
                ELSE Cardinality(Copies(s, b))
<1>1. IsFiniteSet(Copies(s, b)) /\ Cardinality(Copies(s, b)) \in Nat
  <2>1. Copies(s, b) \in SUBSET (1..Len(s)) /\ Len(s) \in Nat
    BY DEF Copies
  <2> QED
    BY <2>1, PositionsAreFinite
<1>2. Copies(Append(s, e), b) = IF e = b THEN Copies(s, b) \cup {Len(s) + 1}
                                ELSE Copies(s, b)
  BY DEF Copies
<1>3. Len(s) + 1 \notin Copies(s, b)
  BY DEF Copies
<1> QED
  BY <1>1, <1>2, <1>3, FS_AddElement

\* Every block of s is in one of the two parts v and q.
Splits(s, v, q) ==
    /\ Len(v) + Len(q) = Len(s)
    /\ \A b \in Blocks :
        Cardinality(Copies(s, b)) = Cardinality(Copies(v, b)) + Cardinality(Copies(q, b))

LEMMA SplitsAppend ==
    ASSUME NEW s \in Seq(Blocks), NEW v \in Seq(Blocks), NEW q \in Seq(Blocks),
           NEW b \in Blocks, Splits(s, v, q)
    PROVE  /\ Splits(Append(s, b), Append(v, b), q)
           /\ Splits(Append(s, b), v, Append(q, b))
<1>1. /\ Len(Append(s, b)) = Len(s) + 1 /\ Len(s) \in Nat
      /\ Len(Append(v, b)) = Len(v) + 1 /\ Len(v) \in Nat
      /\ Len(Append(q, b)) = Len(q) + 1 /\ Len(q) \in Nat
  OBVIOUS
<1>2. Len(v) + Len(q) = Len(s)
  BY DEF Splits
<1>3. ASSUME NEW d \in Blocks
      PROVE  /\ Cardinality(Copies(Append(s, b), d)) =
                    Cardinality(Copies(Append(v, b), d)) + Cardinality(Copies(q, d))
             /\ Cardinality(Copies(Append(s, b), d)) =
                    Cardinality(Copies(v, d)) + Cardinality(Copies(Append(q, b), d))
  <2> DEFINE N(c) == Cardinality(Copies(c, d))
  <2>1. N(s) \in Nat /\ N(Append(s, b)) = IF b = d THEN N(s) + 1 ELSE N(s)
    BY CopiesAppend
  <2>2. N(v) \in Nat /\ N(Append(v, b)) = IF b = d THEN N(v) + 1 ELSE N(v)
    BY CopiesAppend
  <2>3. N(q) \in Nat /\ N(Append(q, b)) = IF b = d THEN N(q) + 1 ELSE N(q)
    BY CopiesAppend
  <2>4. N(s) = N(v) + N(q)
    BY DEF Splits
  <2> HIDE DEF N
  <2>5. /\ N(Append(s, b)) = N(Append(v, b)) + N(q)
        /\ N(Append(s, b)) = N(v) + N(Append(q, b))
    BY <2>1, <2>2, <2>3, <2>4
  <2> QED
    BY <2>5 DEF N
<1>4. Len(Append(s, b)) = Len(Append(v, b)) + Len(q)
      /\ Len(Append(s, b)) = Len(v) + Len(Append(q, b))
  BY <1>1, <1>2
<1> QED
  BY <1>3, <1>4 DEF Splits

CountInv == Splits(log, Verified, Quarantined)

LEMMA CountStep ==
    ASSUME LogType, CountInv, NEW b \in Blocks, log' = Append(log, b)
    PROVE  CountInv'
<1>1. /\ Splits(Append(log, b), Append(Verified, b), Quarantined)
      /\ Splits(Append(log, b), Verified, Append(Quarantined, b))
  BY ReplayStep, SplitsAppend DEF LogType, CountInv
<1>2. CountInv' = Splits(log', Verified', Quarantined')
  BY DEF CountInv
<1> QED
  BY <1>1, <1>2, ReplayStep

\* Of any log, the blocks that the replay keeps form one valid chain, and each
\* of its blocks is either kept or quarantined, as often as it is there.
THEOREM KeptBlocksAreAChain == Spec => []KeptBlocksFormAChain
<1>1. Init => CountInv
  <2> SUFFICES ASSUME Init PROVE CountInv
    OBVIOUS
  <2>1. log = <<>> /\ Verified = <<>> /\ Quarantined = <<>>
    BY VerifyEmpty DEF Init, Verified, Quarantined
  <2>2. \A b : Copies(<<>>, b) = {}
    BY DEF Copies
  <2> QED
    BY <2>1, <2>2, FS_EmptySet DEF CountInv, Splits
<1>2. LogType /\ CountInv /\ [Next]_variables => CountInv'
  BY LogSteps, CountStep DEF CountInv, Verified, Quarantined
<1>3. LogType /\ CountInv => KeptBlocksFormAChain
  <2> SUFFICES ASSUME LogType, CountInv PROVE KeptBlocksFormAChain
    OBVIOUS
  <2>1. IsValidChain(Verified)
    BY VerifiedIsValid DEF LogType, Verified
  <2>2. \A b \in ToSet(log) : b \in Blocks
    BY DEF LogType, ToSet
  <2> QED
    BY <2>1, <2>2 DEF CountInv, Splits, Copies, KeptBlocksFormAChain
<1> QED
  BY <1>1, <1>2, <1>3, LogIsTyped, PTL DEF Spec, variables

-----------------------------------------------------------------------------
(* The replay is greedy. *)

HasMax(K) == K = {} \/ \E m \in K : \A k \in K : k <= m

LEMMA PositionsHaveMax ==
    ASSUME NEW n \in Nat
    PROVE  \A K \in SUBSET (1..n) : HasMax(K)
<1> DEFINE T == {m \in 0..n : \A K \in SUBSET (1..m) : HasMax(K)}
<1>1. 0 \in T
  BY DEF HasMax
<1>2. ASSUME NEW i \in 1..n, i - 1 \in T
      PROVE  i \in T
  <2>1. i \in 0..n /\ i \in Nat
    OBVIOUS
  <2>2. ASSUME NEW K \in SUBSET (1..i)
        PROVE  HasMax(K)
    <3>1. CASE i \in K
      BY <3>1 DEF HasMax
    <3>2. CASE i \notin K
      <4>1. K \in SUBSET (1..i - 1)
        BY <3>2
      <4> QED
        BY <1>2, <4>1
    <3> QED
      BY <3>1, <3>2
  <2> QED
    BY <2>1, <2>2
<1> HIDE DEF T
<1>3. n \in T
  BY <1>1, <1>2, UpTo
<1> QED
  BY <1>3 DEF T

LEMMA MaxIs ==
    ASSUME NEW n \in Nat, NEW K \in SUBSET (1..n), K # {}
    PROVE  Max(K) \in K
<1>1. \E m \in K : \A k \in K : m >= k
  BY PositionsHaveMax DEF HasMax
<1> QED
  BY <1>1 DEF Max

LEMMA MaxIsNew ==
    ASSUME NEW n \in Nat, NEW K \in SUBSET (1..n)
    PROVE  Max(K \cup {n + 1}) = n + 1
<1>1. \A k \in K \cup {n + 1} : n + 1 >= k
  OBVIOUS
<1>2. \A m \in K \cup {n + 1} : (\A k \in K \cup {n + 1} : m >= k) => m = n + 1
  OBVIOUS
<1> QED
  BY <1>1, <1>2 DEF Max

LastHash(s, K) == IF K = {} THEN GenesisHash ELSE s[Max(K)].hash
Before(K, i) == {j \in K : j < i}

\* KeepsExactly, of any sequence.
Greedy(s, K) ==
    \A i \in 1..Len(s) :
        i \in K <=> s[i].prev = LastHash(s, Before(K, i)) /\ s[i].hash = s[i].digest

Explains(s, K, kept) ==
    /\ Greedy(s, K)
    /\ kept = At(s, K)
    /\ TipHash(kept) = LastHash(s, K)

GreedyInv == \E K \in SUBSET (1..Len(log)) : Explains(log, K, Verified)

LEMMA LastHashAppend ==
    ASSUME NEW s \in Seq(Blocks), NEW e \in Blocks, NEW K \in SUBSET (1..Len(s))
    PROVE  /\ LastHash(Append(s, e), K) = LastHash(s, K)
           /\ LastHash(Append(s, e), K \cup {Len(s) + 1}) = e.hash
<1>1. Len(s) \in Nat
  OBVIOUS
<1>2. ASSUME K # {}
      PROVE  Append(s, e)[Max(K)] = s[Max(K)]
  <2>1. Max(K) \in 1..Len(s)
    BY <1>1, <1>2, MaxIs
  <2> QED
    BY <2>1
<1>3. Max(K \cup {Len(s) + 1}) = Len(s) + 1
  BY <1>1, MaxIsNew
<1>4. Append(s, e)[Len(s) + 1] = e
  OBVIOUS
<1> QED
  BY <1>2, <1>3, <1>4 DEF LastHash

LEMMA GreedyAppend ==
    ASSUME NEW s \in Seq(Blocks), NEW e \in Blocks, NEW K \in SUBSET (1..Len(s)),
           Greedy(s, K), NEW L \in {K, K \cup {Len(s) + 1}},
           L # K <=> e.prev = LastHash(s, K) /\ e.hash = e.digest
    PROVE  Greedy(Append(s, e), L)
<1> DEFINE n == Len(s)
           t == Append(s, e)
<1>1. n \in Nat /\ Len(t) = n + 1 /\ t[n + 1] = e /\ \A i \in 1..n : t[i] = s[i]
  OBVIOUS
<1>2. n + 1 \notin K /\ K \in SUBSET (1..n)
  OBVIOUS
<1>3. ASSUME NEW i \in 1..n
      PROVE  i \in L <=> t[i].prev = LastHash(t, Before(L, i)) /\ t[i].hash = t[i].digest
  <2>1. Before(L, i) = Before(K, i) /\ (i \in L <=> i \in K)
    BY <1>1 DEF Before
  <2>2. Before(K, i) \in SUBSET (1..Len(s))
    BY DEF Before
  <2>3. LastHash(t, Before(K, i)) = LastHash(s, Before(K, i))
    BY <2>2, LastHashAppend
  <2> QED
    BY <1>1, <2>1, <2>3 DEF Greedy
<1>4. n + 1 \in L <=>
        t[n + 1].prev = LastHash(t, Before(L, n + 1)) /\ t[n + 1].hash = t[n + 1].digest
  <2>1. Before(L, n + 1) = K
    <3>1. \A j \in K : j < n + 1
      BY <1>1, <1>2
    <3>2. ~ (n + 1 < n + 1)
      BY <1>1
    <3> HIDE DEF n
    <3>3. L = K \/ L = K \cup {n + 1}
      BY DEF n
    <3> QED
      BY <3>1, <3>2, <3>3 DEF Before
  <2>2. LastHash(t, K) = LastHash(s, K)
    BY LastHashAppend
  <2>3. n + 1 \in L <=> L # K
    BY <1>2
  <2> QED
    BY <1>1, <2>1, <2>2, <2>3
<1>5. \A i \in 1..n + 1 : i \in 1..n \/ i = n + 1
  BY <1>1
<1> HIDE DEF n, t
<1>6. \A i \in 1..Len(t) :
        i \in L <=> t[i].prev = LastHash(t, Before(L, i)) /\ t[i].hash = t[i].digest
  BY <1>1, <1>3, <1>4, <1>5
<1> QED
  BY <1>6 DEF Greedy, t

LEMMA TipAppend ==
    ASSUME NEW c \in Seq(Blocks), NEW b \in Blocks
    PROVE  TipHash(Append(c, b)) = b.hash
  BY DEF TipHash

LEMMA GreedyStep ==
    ASSUME LogType, GreedyInv, NEW b \in Blocks, log' = Append(log, b)
    PROVE  GreedyInv'
<1>1. PICK K \in SUBSET (1..Len(log)) : Explains(log, K, Verified)
  BY DEF GreedyInv
<1> DEFINE n == Len(log)
           t == Append(log, b)
           M == K \cup {n + 1}
<1>2. log \in Seq(Blocks) /\ n \in Nat /\ Len(t) = n + 1
  BY DEF LogType
<1>3. /\ Verified \in Seq(Blocks)
      /\ IF b.prev = LastHash(log, K) /\ b.hash = b.digest
         THEN Verified' = Append(Verified, b) ELSE Verified' = Verified
  BY <1>1, ReplayStep DEF Explains
<1>4. CASE b.prev = LastHash(log, K) /\ b.hash = b.digest
  <2>1. M \in SUBSET (1..Len(t)) /\ M # K
    <3>1. K \in SUBSET (1..n)
      OBVIOUS
    <3> HIDE DEF n, t
    <3> QED
      BY <1>2, <3>1
  <2>2. Greedy(t, M)
    BY <1>1, <1>2, <1>4, <2>1, GreedyAppend DEF Explains
  <2>3. At(t, M) = Append(At(log, K), b)
    BY <1>2, AtAppendNew
  <2>4. LastHash(t, M) = b.hash
    BY <1>2, LastHashAppend
  <2>5. TipHash(Append(Verified, b)) = b.hash
    BY <1>3, TipAppend
  <2>6. Explains(t, M, Verified')
    BY <1>1, <1>3, <1>4, <2>2, <2>3, <2>4, <2>5 DEF Explains
  <2> QED
    BY <2>1, <2>6 DEF GreedyInv
<1>5. CASE ~ (b.prev = LastHash(log, K) /\ b.hash = b.digest)
  <2>1. K \in SUBSET (1..Len(t))
    BY <1>2
  <2>2. Greedy(t, K)
    BY <1>1, <1>2, <1>5, GreedyAppend DEF Explains
  <2>3. At(t, K) = At(log, K)
    BY <1>2, AtAppendOld
  <2>4. LastHash(t, K) = LastHash(log, K)
    BY <1>2, LastHashAppend
  <2>5. Explains(t, K, Verified')
    BY <1>1, <1>3, <1>5, <2>2, <2>3, <2>4 DEF Explains
  <2> QED
    BY <2>1, <2>5 DEF GreedyInv
<1> QED
  BY <1>4, <1>5

\* Of any log, the replay keeps a block exactly when it is unaltered and names
\* the last block kept before it: a quarantined block costs no later one.
THEOREM ReplayIsGreedy == Spec => []KeptBlocksAreTheGreedyChain
<1>1. Init => GreedyInv
  <2> SUFFICES ASSUME Init PROVE GreedyInv
    OBVIOUS
  <2>1. log = <<>> /\ Verified = <<>>
    BY VerifyEmpty DEF Init, Verified
  <2>2. <<>> \in Seq(Blocks) /\ {} \in SUBSET (1..Len(<<>>))
    OBVIOUS
  <2>3. At(<<>>, {}) \in Seq(Blocks) /\ Len(At(<<>>, {})) = Cardinality({})
    BY <2>2, AtIs
  <2>4. At(<<>>, {}) = <<>>
    BY <2>3, FS_EmptySet, EmptySeq
  <2>5. Explains(<<>>, {}, <<>>)
    BY <2>4 DEF Explains, Greedy, TipHash, LastHash
  <2> QED
    BY <2>1, <2>2, <2>5 DEF GreedyInv
<1>2. LogType /\ GreedyInv /\ [Next]_variables => GreedyInv'
  BY LogSteps, GreedyStep DEF GreedyInv, Verified
<1>3. LogType /\ GreedyInv => KeptBlocksAreTheGreedyChain
  <2> SUFFICES ASSUME LogType, NEW K \in SUBSET (1..Len(log)), Explains(log, K, Verified)
               PROVE  KeptBlocksAreTheGreedyChain
    BY DEF GreedyInv
  <2>1. DOMAIN log = 1..Len(log)
    BY DEF LogType
  <2>2. KeepsExactly(K)
    BY <2>1 DEF KeepsExactly, Explains, Greedy, LastHash, Before
  <2> QED
    BY <2>1, <2>2 DEF KeptBlocksAreTheGreedyChain, Explains
<1> QED
  BY <1>1, <1>2, <1>3, LogIsTyped, PTL DEF Spec, variables

-----------------------------------------------------------------------------
(* Tokens. *)

\* A set of numbers that is not empty has a least member.
LEMMA MinIs ==
    ASSUME NEW K \in SUBSET Nat, K # {}
    PROVE  Min(K) \in K /\ \A k \in K : Min(K) <= k
<1>1. PICK m \in K : \A k \in K : ~ (<<k, m>> \in OpToRel(<, Nat))
  BY NatLessThanWellFounded, WFMin
<1>2. ASSUME NEW k \in K, k < m PROVE FALSE
  <2>1. <<k, m>> \in OpToRel(<, Nat)
    BY <1>2 DEF OpToRel
  <2> QED
    BY <1>1, <2>1
<1>3. \A k \in K : m <= k
  BY <1>2
<1> QED
  BY <1>3 DEF Min

\* A filter keeps the elements that pass, and no other.
LEMMA AtRange ==
    ASSUME NEW B, NEW s \in Seq(B), NEW K \in SUBSET (1..Len(s))
    PROVE  ToSet(At(s, K)) = {s[k] : k \in K}
<1>1. /\ IsFiniteSet(K) /\ Cardinality(K) \in Nat /\ Orders(Ascending(K), K)
  <2>1. Len(s) \in Nat
    OBVIOUS
  <2> QED
    BY <2>1, PositionsAreFinite
<1> DEFINE o == InOrder(K, Ascending(K))
<1>2. /\ At(s, K) \in Seq(B)
      /\ Len(At(s, K)) = Cardinality(K)
      /\ \A m \in 1..Cardinality(K) : o[m] \in K
      /\ \A m \in 1..Cardinality(K) : At(s, K)[m] = s[o[m]]
  BY AtIs
<1>3. \A k \in K : \E m \in 1..Cardinality(K) : o[m] = k
  BY <1>1, InOrderAt, RankRange
<1>4. DOMAIN At(s, K) = 1..Cardinality(K)
  BY <1>2
<1> HIDE DEF o
<1>5. ToSet(At(s, K)) = {At(s, K)[m] : m \in 1..Cardinality(K)}
  BY <1>4, Zenon DEF ToSet
<1>6. {At(s, K)[m] : m \in 1..Cardinality(K)} = {s[k] : k \in K}
  <2>1. \A m \in 1..Cardinality(K) : \E k \in K : At(s, K)[m] = s[k]
    BY <1>2
  <2>2. \A k \in K : \E m \in 1..Cardinality(K) : At(s, K)[m] = s[k]
    BY <1>2, <1>3
  <2> DEFINE c == Cardinality(K)
             a == At(s, K)
  <2> HIDE DEF c, a
  <2>3. \A x : x \in {a[m] : m \in 1..c} <=> \E m \in 1..c : x = a[m]
    OBVIOUS
  <2>4. \A x : x \in {s[k] : k \in K} <=> \E k \in K : x = s[k]
    OBVIOUS
  <2>5. \A x : x \in {a[m] : m \in 1..c} <=> x \in {s[k] : k \in K}
    BY <2>1, <2>2, <2>3, <2>4, Zenon DEF a, c
  <2>6. {a[m] : m \in 1..c} = {s[k] : k \in K}
    BY <2>5
  <2> QED
    BY <2>6 DEF a, c
<1> QED
  BY <1>5, <1>6

\* Blank scopes may go before or after normalize_scopes looks, unless nothing
\* but blanks is there.
LEMMA BlanksMayGo ==
    ASSUME NEW B, NEW raw \in Seq(B), ~ AllBlank(raw)
    PROVE  NormalizeScopes(At(raw, {i \in DOMAIN raw : raw[i] # Blank})) = NormalizeScopes(raw)
<1> DEFINE K == {i \in DOMAIN raw : raw[i] # Blank}
           s == At(raw, K)
<1>1. K \in SUBSET (1..Len(raw)) /\ DOMAIN raw = 1..Len(raw) /\ Len(raw) \in Nat
  OBVIOUS
<1>2. ToSet(raw) = {raw[i] : i \in 1..Len(raw)}
  BY <1>1 DEF ToSet
<1>3. ToSet(s) = ToSet(raw) \ {Blank}
  <2>1. {raw[k] : k \in K} = {raw[i] : i \in 1..Len(raw)} \ {Blank}
    BY <1>1
  <2> HIDE DEF K
  <2> QED
    BY <1>1, <1>2, <2>1, AtRange
<1>4. s \in Seq(B) /\ Len(s) = Cardinality(K)
  <2> HIDE DEF K
  <2> QED
    BY <1>1, AtIs
<1>5. ToSet(s) = {s[i] : i \in 1..Len(s)} /\ Len(s) \in Nat
  <2> HIDE DEF s
  <2>1. DOMAIN s = 1..Len(s) /\ Len(s) \in Nat
    BY <1>4
  <2> QED
    BY <2>1, Zenon DEF ToSet
<1>6. raw = <<>> <=> s = <<>>
  <2>1. raw = <<>> => s = <<>>
    <3>1. raw = <<>> => K = {}
      OBVIOUS
    <3>2. raw = <<>> => Len(s) = 0
      BY <1>4, <3>1, FS_EmptySet, Zenon
    <3> HIDE DEF s
    <3> QED
      BY <1>4, <3>2
  <2>2. raw # <<>> => ToSet(raw) # {} /\ ToSet(raw) # {Blank}
    <3>1. raw # <<>> => 1 \in 1..Len(raw)
      OBVIOUS
    <3> QED
      BY <1>2, <3>1 DEF AllBlank
  <2>3. s = <<>> => ToSet(s) = {}
    BY <1>5
  <2> HIDE DEF s
  <2> QED
    BY <1>3, <2>1, <2>2, <2>3
<1> HIDE DEF s
<1> QED
  BY <1>3, <1>6 DEF NormalizeScopes, s

EntriesType == entries \in Seq(Entry)

LEMMA EntriesAreTyped == Spec => []EntriesType
<1>1. Init => EntriesType
  BY DEF Init, EntriesType
<1>2. EntriesType /\ [Next]_variables => EntriesType'
  BY DEF EntriesType, Next, AppendAny, TakeVectors, AddEntry, variables
<1> QED
  BY <1>1, <1>2, PTL DEF Spec, variables

Named == [developer : {"dev1", "dev2"}, token : {"t1", "t2"},
          scopes : {<<>>, <<Blank>>, <<"award:achievements">>,
                    <<Blank, "manage:concepts">>}]

\* Entries without a token are not given.
LEMMA GivenIs ==
    ASSUME EntriesType
    PROVE  /\ Given(entries) \in Seq(Named)
           /\ ToSet(Given(entries)) \subseteq ToSet(entries)
<1> DEFINE K == {i \in DOMAIN entries : entries[i].token # Unset}
<1>1. /\ DOMAIN entries = 1..Len(entries)
      /\ K \in SUBSET (1..Len(entries))
  BY DEF EntriesType
<1>2. ASSUME NEW k \in K PROVE entries[k] \in Named
  <2>1. entries[k] \in Entry /\ entries[k].token # Unset
    BY <1>1 DEF EntriesType
  <2> QED
    BY <2>1 DEF Entry, Named
<1>3. {entries[k] : k \in K} \subseteq ToSet(entries)
  BY <1>1 DEF ToSet
<1>4. Given(entries) = At(entries, K)
  BY DEF Given
<1> HIDE DEF K
<1> QED
  BY <1>1, <1>2, <1>3, <1>4, AtIn, AtRange DEF EntriesType

\* A token acts for one developer.
LEMMA TokensAreOnes ==
    ASSUME NEW table, NEW r \in Rights(table), NEW q \in Rights(table), r[1] = q[1]
    PROVE  r[2] = q[2]
  BY DEF Rights, DeveloperAuthorizedFor, AuthorizedToken

\* A list means in a file what it means in the variable.
LEMMA ListIsVariable ==
    ASSUME EntriesType, \A i \in DOMAIN entries : ~ AllBlank(entries[i].scopes)
    PROVE  FileTables([format |-> "list", entries |-> Given(entries)]) = {EnvTable(entries)}
<1> DEFINE named == Given(entries)
           raws == {Blank} \cup Scopes
<1>1. named \in Seq(Named) /\ DOMAIN named = 1..Len(named)
  BY GivenIs
<1>2. ASSUME NEW i \in DOMAIN named
      PROVE  /\ named[i] \in Named
             /\ named[i].scopes \in Seq(raws)
             /\ ~ AllBlank(named[i].scopes)
  <2>1. named[i] \in Named
    BY <1>1, <1>2
  <2>2. named[i].scopes \in Seq(raws)
    <3>1. Blank \in raws /\ "award:achievements" \in raws /\ "manage:concepts" \in raws
      BY DEF Scopes
    <3>2. named[i].scopes \in {<<>>, <<Blank>>, <<"award:achievements">>,
                                <<Blank, "manage:concepts">>}
      BY <2>1 DEF Named
    <3> HIDE DEF raws
    <3>3. /\ <<>> \in Seq(raws)
          /\ <<Blank>> \in Seq(raws)
          /\ <<"award:achievements">> \in Seq(raws)
          /\ <<Blank, "manage:concepts">> \in Seq(raws)
      BY <3>1
    <3> QED
      BY <3>2, <3>3
  <2>3. named[i] \in ToSet(entries)
    BY <1>2, GivenIs DEF ToSet
  <2>4. PICK j \in DOMAIN entries : named[i] = entries[j]
    BY <2>3 DEF ToSet
  <2> HIDE DEF named
  <2> QED
    BY <2>1, <2>2, <2>4
<1> DEFINE full(raw) == At(raw, {i \in DOMAIN raw : raw[i] # Blank})
<1>3. ASSUME NEW i \in DOMAIN named
      PROVE  NormalizeScopes(full(named[i].scopes)) = NormalizeScopes(named[i].scopes)
  <2> HIDE DEF named, raws
  <2> QED
    BY <1>2, BlanksMayGo
<1>4. EnvTable(entries) =
        [i \in DOMAIN named |->
            [named[i] EXCEPT !.scopes = NormalizeScopes(full(named[i].scopes))]]
  BY Zenon DEF EnvTable
<1>5. FileTables([format |-> "list", entries |-> named]) =
        {[i \in DOMAIN named |->
            [named[i] EXCEPT !.scopes = NormalizeScopes(named[i].scopes)]]}
  <2> HIDE DEF named
  <2>1. "list" # "map"
    OBVIOUS
  <2> QED
    BY <2>1 DEF FileTables
<1> HIDE DEF named, full
<1>6. [i \in DOMAIN named |->
            [named[i] EXCEPT !.scopes = NormalizeScopes(full(named[i].scopes))]] =
        [i \in DOMAIN named |->
            [named[i] EXCEPT !.scopes = NormalizeScopes(named[i].scopes)]]
  BY <1>3
<1> QED
  BY <1>4, <1>5, <1>6 DEF named
\* A map of tokens that are all different gives each developer every scope, in
\* whatever order it is read.
LEMMA MapRights ==
    ASSUME NEW D \in SUBSET {"dev1", "dev2"}, NEW tokens \in [D -> {"t1", "t2"}],
           IsInjective(tokens),
           NEW table \in FileTables([format |-> "map", tokens |-> tokens])
    PROVE  Rights(table) = Granted(tokens)
<1>1. PICK devs \in SetToSeqs(D) :
        table = [i \in DOMAIN devs |-> [developer |-> devs[i],
                                        token |-> tokens[devs[i]],
                                        scopes |-> Scopes]]
  BY DEF FileTables
<1>2. /\ devs \in [1..Cardinality(D) -> D]
      /\ \A i, j \in 1..Cardinality(D) : i # j => devs[i] # devs[j]
  BY DEF SetToSeqs
<1>3. IsFiniteSet(D) /\ Cardinality(D) \in Nat
  <2>1. IsFiniteSet({"dev1", "dev2"})
    <3>1. IsFiniteSet({"dev1"})
      BY FS_Singleton
    <3>2. IsFiniteSet({"dev1"} \cup {"dev2"})
      BY <3>1, FS_AddElement
    <3>3. {"dev1"} \cup {"dev2"} = {"dev1", "dev2"}
      OBVIOUS
    <3> QED
      BY <3>2, <3>3
  <2> QED
    BY <2>1, FS_Subset, FS_CardinalityType
<1>4. \A d \in D : \E i \in 1..Cardinality(D) : devs[i] = d
  <2>1. devs \in Injection(1..Cardinality(D), D)
    BY <1>2 DEF Injection, IsInjective
  <2>2. Cardinality(1..Cardinality(D)) = Cardinality(D)
    BY <1>3, FS_Interval
  <2>3. devs \in Surjection(1..Cardinality(D), D)
    BY <1>3, <2>1, <2>2, FS_Injection
  <2> QED
    BY <2>3 DEF Surjection
<1>5. /\ DOMAIN table = 1..Cardinality(D)
      /\ \A i \in 1..Cardinality(D) :
            /\ table[i].developer = devs[i]
            /\ table[i].token = tokens[devs[i]]
            /\ table[i].scopes = Scopes
  BY <1>1, <1>2
<1>6. ASSUME NEW t, NEW d, NEW scope
      PROVE  DeveloperAuthorizedFor(table, t, d, scope) <=>
                d \in D /\ tokens[d] = t /\ scope \in Scopes
  <2> DEFINE matches == {i \in DOMAIN table : table[i].token = t}
             first == Min(matches)
  <2>1. matches # {} => first \in matches
    <3>1. matches \in SUBSET Nat
      BY <1>3, <1>5
    <3> HIDE DEF matches
    <3> QED
      BY <3>1, MinIs
  <2>2. DeveloperAuthorizedFor(table, t, d, scope) <=>
            /\ matches # {}
            /\ table[first].developer = d
            /\ scope \in table[first].scopes
    BY Zenon DEF DeveloperAuthorizedFor, AuthorizedToken
  <2>3. ASSUME matches # {}
        PROVE  /\ devs[first] \in D
               /\ tokens[devs[first]] = t
               /\ table[first].developer = devs[first]
               /\ table[first].scopes = Scopes
    <3>1. first \in 1..Cardinality(D) /\ table[first].token = t
      BY <1>5, <2>1, <2>3
    <3> HIDE DEF first
    <3> QED
      BY <1>2, <1>5, <3>1
  <2>4. d \in D /\ tokens[d] = t => matches # {}
    <3>1. SUFFICES ASSUME d \in D, tokens[d] = t PROVE \E i \in DOMAIN table : table[i].token = t
      OBVIOUS
    <3> QED
      BY <1>4, <1>5, <3>1
  <2>5. \A a, b \in D : tokens[a] = tokens[b] => a = b
    BY DEF IsInjective
  <2> HIDE DEF matches, first
  <2> QED
    BY <2>2, <2>3, <2>4, <2>5
<1>7. Rights(table) = {right \in {"t1", "t2"} \X {"dev1", "dev2"} \X Scopes :
                         right[2] \in D /\ tokens[right[2]] = right[1]}
  BY <1>6 DEF Rights
<1> QED
  BY <1>7 DEF Granted

\* The map has the developers of the entries, and their tokens.
LEMMA TokensOfIs ==
    ASSUME NEW named \in Seq(Named)
    PROVE  \E D \in SUBSET {"dev1", "dev2"} : TokensOf(named) \in [D -> {"t1", "t2"}]
<1> DEFINE first(d) == Min({i \in DOMAIN named : named[i].developer = d})
           D == {named[i].developer : i \in DOMAIN named}
<1>1. ASSUME NEW i \in DOMAIN named
      PROVE  named[i].developer \in {"dev1", "dev2"} /\ named[i].token \in {"t1", "t2"}
  <2>1. named[i] \in Named
    BY <1>1
  <2> QED
    BY <2>1 DEF Named
<1>2. D \in SUBSET {"dev1", "dev2"}
  BY <1>1
<1>3. ASSUME NEW d \in D PROVE first(d) \in DOMAIN named
  <2>1. {i \in DOMAIN named : named[i].developer = d} # {}
    OBVIOUS
  <2>2. {i \in DOMAIN named : named[i].developer = d} \in SUBSET Nat
    OBVIOUS
  <2> QED
    BY <2>1, <2>2, MinIs
<1>4. TokensOf(named) = [d \in D |-> named[first(d)].token]
  BY DEF TokensOf
<1> HIDE DEF first
<1>5. \A d \in D : named[first(d)].token \in {"t1", "t2"}
  BY <1>1, <1>3
<1> HIDE DEF D
<1> QED
  BY <1>2, <1>4, <1>5

\* Whatever the entries are, a file and the variable give the same rights, a
\* map gives each developer its own, and a token acts for one developer.
THEOREM TokensAgree == Spec => []TokensMeanTheSame
<1>1. EntriesType => TokensMeanTheSame
  <2> SUFFICES ASSUME EntriesType PROVE TokensMeanTheSame
    OBVIOUS
  <2> DEFINE named == Given(entries)
             list == [format |-> "list", entries |-> named]
             map == [format |-> "map", tokens |-> TokensOf(named)]
  <2>1. (\A i \in DOMAIN entries : ~ AllBlank(entries[i].scopes)) =>
            \A table \in FileTables(list) : Rights(table) = Rights(EnvTable(entries))
    BY ListIsVariable
  <2>2. IsInjective(map.tokens) =>
            \A table \in FileTables(map) : Rights(table) = Granted(map.tokens)
    <3>1. PICK D \in SUBSET {"dev1", "dev2"} : map.tokens \in [D -> {"t1", "t2"}]
      BY GivenIs, TokensOfIs
    <3>2. map = [format |-> "map", tokens |-> map.tokens] /\ DOMAIN map.tokens = D
      BY <3>1
    <3> HIDE DEF map
    <3> QED
      BY <3>1, <3>2, MapRights
  <2>3. \A table \in FileTables(list) \cup FileTables(map) :
            \A r, q \in Rights(table) : r[1] = q[1] => r[2] = q[2]
    BY TokensAreOnes, Zenon
  <2> QED
    BY <2>1, <2>2, <2>3, Zenon DEF TokensMeanTheSame
<1> QED
  BY <1>1, EntriesAreTyped, PTL

-----------------------------------------------------------------------------
(* Lanes and bits. *)

\* Every number has a lane and a bit.
LEMMA IndexSplits ==
    ASSUME NEW i \in Nat
    PROVE  /\ LaneOf(i) \in Nat \ {0}
           /\ BitOf(i) \in 0..LaneBits - 1
           /\ (LaneOf(i) - 1) * LaneBits + BitOf(i) = i
<1> DEFINE L == LaneBits
<1>1. L \in Nat \ {0}
  BY LaneBitsAssumption
<1> HIDE DEF L
<1>2. i \div L \in Nat /\ i % L \in 0..L - 1 /\ L * (i \div L) + (i % L) = i
  BY <1>1, SMT
<1>3. (i \div L) + 1 - 1 = i \div L /\ (i \div L) * L = L * (i \div L)
  BY <1>1, <1>2, SMT
<1> QED
  BY <1>2, <1>3 DEF LaneOf, BitOf, L

\* Every lane and bit is that of a number, and of one only.
LEMMA IndexJoins ==
    ASSUME NEW n \in Nat \ {0}, NEW bit \in 0..LaneBits - 1
    PROVE  LET i == (n - 1) * LaneBits + bit
           IN  i \in Nat /\ LaneOf(i) = n /\ BitOf(i) = bit
<1> DEFINE L == LaneBits
           q == n - 1
<1>1. L \in Nat \ {0} /\ q \in Nat /\ bit \in 0..L - 1
  BY LaneBitsAssumption
<1> HIDE DEF L, q
<1>2. /\ q * L + bit \in Nat
      /\ (q * L + bit) \div L = q
      /\ (q * L + bit) % L = bit
  BY <1>1, SMT
<1>3. q + 1 = n
  BY DEF q
<1> QED
  BY <1>2, <1>3 DEF LaneOf, BitOf, L, q

\* A dimension has the lanes of its positions.
LEMMA LanesCover ==
    ASSUME NEW dim \in Nat
    PROVE  /\ LaneCount(dim) \in Nat
           /\ \A i \in 0..dim - 1 : LaneOf(i) \in 1..LaneCount(dim)
<1> DEFINE L == LaneBits
<1>1. L \in Nat \ {0}
  BY LaneBitsAssumption
<1> HIDE DEF L
<1>2. (dim + L - 1) \div L \in Nat
  BY <1>1, SMT
<1>3. ASSUME NEW i \in 0..dim - 1
      PROVE  (i \div L) + 1 \in 1..((dim + L - 1) \div L)
  <2> DEFINE q == i \div L
             c == (dim + L - 1) \div L
  <2>1. q \in Nat /\ q * L <= i
    BY <1>1, SMT
  <2>2. c \in Nat /\ dim + L - 1 < c * L + L
    BY <1>1, SMT
  <2> HIDE DEF q, c
  <2>3. q * L + L < c * L + L
    BY <1>1, <2>1, <2>2, SMT
  <2>4. q < c
    <3>1. SUFFICES ASSUME c <= q PROVE FALSE
      BY <2>1, <2>2
    <3>2. c * L <= q * L
      BY <1>1, <2>1, <2>2, <3>1, SMT
    <3> QED
      BY <1>1, <2>1, <2>2, <2>3, <3>2, SMT
  <2> QED
    BY <2>1, <2>2, <2>4 DEF q, c
<1> QED
  BY <1>2, <1>3 DEF LaneCount, LaneOf, L

-----------------------------------------------------------------------------
(* Vectors. *)

Vector == [dim : Nat, lanes : Seq(Lane)]

\* A position is on when it is in range and its bit is set.
LEMMA OnIs ==
    ASSUME NEW v \in Vector
    PROVE  /\ On(v) \in SUBSET Nat
           /\ \A i \in Nat : i \in On(v) <=> InRange(v, i) /\ GetBit(v, i)
<1>1. /\ v.lanes \in Seq(Lane)
      /\ DOMAIN v.lanes = 1..Len(v.lanes)
      /\ \A n \in DOMAIN v.lanes : n \in Nat \ {0} /\ v.lanes[n] \in SUBSET (0..LaneBits - 1)
  BY DEF Vector, Lane
<1>2. ASSUME NEW i \in On(v)
      PROVE  i \in Nat /\ InRange(v, i) /\ GetBit(v, i)
  <2>1. PICK n \in DOMAIN v.lanes : i \in {(n - 1) * LaneBits + bit : bit \in v.lanes[n]}
    BY DEF On
  <2>2. PICK bit \in v.lanes[n] : i = (n - 1) * LaneBits + bit
    BY <2>1
  <2>3. i \in Nat /\ LaneOf(i) = n /\ BitOf(i) = bit
    BY <1>1, <2>2, IndexJoins
  <2> QED
    BY <2>3 DEF InRange, GetBit
<1>3. ASSUME NEW i \in Nat, InRange(v, i), GetBit(v, i)
      PROVE  i \in On(v)
  <2> DEFINE n == LaneOf(i)
  <2>1. n \in DOMAIN v.lanes /\ BitOf(i) \in v.lanes[n]
    BY <1>3 DEF InRange, GetBit
  <2>2. i = (n - 1) * LaneBits + BitOf(i)
    BY IndexSplits
  <2> HIDE DEF n
  <2>3. i \in {(n - 1) * LaneBits + bit : bit \in v.lanes[n]}
    BY <2>1, <2>2
  <2> QED
    BY <2>1, <2>3 DEF On
<1> QED
  BY <1>2, <1>3

\* Two functions on the subsets of a finite set agree when each subset has a
\* member without which they would.
LEMMA FoldsAgree ==
    ASSUME NEW S, IsFiniteSet(S), NEW f, NEW g, f[{}] = g[{}],
           \A T \in SUBSET S : T # {} =>
               \E x \in T : f[T \ {x}] = g[T \ {x}] => f[T] = g[T]
    PROVE  f[S] = g[S]
<1> DEFINE Differ == {n \in Nat : \E T \in SUBSET S : Cardinality(T) = n /\ f[T] # g[T]}
<1>1. \A T \in SUBSET S : IsFiniteSet(T) /\ Cardinality(T) \in Nat
  BY FS_Subset, FS_CardinalityType
<1>2. SUFFICES ASSUME f[S] # g[S] PROVE FALSE
  OBVIOUS
<1>3. Differ # {} /\ Differ \subseteq Nat
  BY <1>1, <1>2
<1>4. PICK n \in Differ : \A m \in Differ : ~ (<<m, n>> \in OpToRel(<, Nat))
  BY <1>3, NatLessThanWellFounded, WFMin
<1>5. PICK T \in SUBSET S : Cardinality(T) = n /\ f[T] # g[T]
  BY <1>4
<1>6. T # {}
  BY <1>5
<1>7. PICK x \in T : f[T \ {x}] = g[T \ {x}] => f[T] = g[T]
  BY <1>6
<1>8. Cardinality(T \ {x}) = n - 1 /\ n \in Nat /\ n - 1 \in Nat
  <2>1. Cardinality(T \ {x}) = n - 1
    BY <1>1, <1>5, FS_RemoveElement
  <2>2. Cardinality(T \ {x}) \in Nat
    BY <1>1
  <2> QED
    BY <2>1, <2>2
<1>9. n - 1 \in Differ
  BY <1>5, <1>7, <1>8
<1>10. <<n - 1, n>> \in OpToRel(<, Nat)
  BY <1>8 DEF OpToRel
<1> QED
  BY <1>4, <1>9, <1>10

\* The vector of a dimension with these bits set.
Having(dim, T) ==
    [dim   |-> dim,
     lanes |-> [n \in 1..LaneCount(dim) |->
                   {bit \in 0..LaneBits - 1 : (n - 1) * LaneBits + bit \in T}]]

LEMMA SetBitIs ==
    ASSUME NEW dim \in Nat, NEW T \in SUBSET (0..dim - 1), NEW x \in T
    PROVE  SetBit(Having(dim, T \ {x}), x) = Having(dim, T)
<1> DEFINE b == BitOf(x)
           l == LaneOf(x)
           lane(n, U) == {bit \in 0..LaneBits - 1 : (n - 1) * LaneBits + bit \in U}
           old == Having(dim, T \ {x})
<1>1. /\ x \in Nat /\ b \in 0..LaneBits - 1 /\ (l - 1) * LaneBits + b = x
      /\ l \in 1..LaneCount(dim) /\ LaneCount(dim) \in Nat
  <2>1. x \in Nat /\ x \in 0..dim - 1
    OBVIOUS
  <2>2. b \in 0..LaneBits - 1 /\ (l - 1) * LaneBits + b = x
    BY <2>1, IndexSplits
  <2>3. l \in 1..LaneCount(dim) /\ LaneCount(dim) \in Nat
    BY <2>1, LanesCover
  <2> QED
    BY <2>1, <2>2, <2>3
<1>2. ASSUME NEW n \in 1..LaneCount(dim), NEW bit \in 0..LaneBits - 1
      PROVE  (n - 1) * LaneBits + bit = x <=> n = l /\ bit = b
  <2>1. n \in Nat \ {0}
    BY <1>1
  <2> QED
    BY <1>1, <2>1, IndexJoins
<1>3. ASSUME NEW n \in 1..LaneCount(dim)
      PROVE  lane(n, T) = IF n = l THEN lane(n, T \ {x}) \cup {b} ELSE lane(n, T \ {x})
  <2> HIDE DEF b, l
  <2> QED
    BY <1>1, <1>2
<1>4. SetBit(old, x) =
        [dim |-> dim, lanes |-> [old.lanes EXCEPT ![l] = old.lanes[l] \cup {b}]]
  <2>1. SetBit(old, x) = [old EXCEPT !.lanes[l] = old.lanes[l] \cup {b}]
    BY Zenon DEF SetBit
  <2>2. old = [dim |-> dim, lanes |-> old.lanes]
    BY DEF Having
  <2> HIDE DEF old, l, b
  <2>3. [old EXCEPT !.lanes[l] = old.lanes[l] \cup {b}] =
          [old EXCEPT !.lanes = [old.lanes EXCEPT ![l] = old.lanes[l] \cup {b}]]
    BY <2>2
  <2>4. ASSUME NEW y PROVE [old EXCEPT !.lanes = y] = [dim |-> dim, lanes |-> y]
    BY <2>2
  <2> QED
    BY <2>1, <2>3, <2>4, Zenon
<1>5. old.lanes = [n \in 1..LaneCount(dim) |-> lane(n, T \ {x})]
  BY DEF Having
<1> HIDE DEF lane, b, l, old
<1>6. [old.lanes EXCEPT ![l] = old.lanes[l] \cup {b}] =
        [n \in 1..LaneCount(dim) |-> lane(n, T)]
  BY <1>1, <1>3, <1>5
<1> QED
  BY <1>4, <1>6 DEF Having, lane, old

\* Setting bits one after the other, in whatever order.
LEMMA WithBitsIs ==
    ASSUME NEW dim \in Nat, NEW S \in SUBSET (0..dim - 1)
    PROVE  WithBits(dim, S) = Having(dim, S)
<1> DEFINE pick(T) == CHOOSE x \in T : TRUE
           Fold(f) == f = [T \in SUBSET S |-> IF T = {} THEN NewVector(dim)
                                               ELSE SetBit(f[T \ {pick(T)}], pick(T))]
           g == [T \in SUBSET S |-> Having(dim, T)]
           f == CHOOSE h : Fold(h)
<1>1. WithBits(dim, S) = f[S]
  BY Zenon DEF WithBits, FoldSet, MapThenFoldSet
<1>2. Having(dim, {}) = NewVector(dim)
  BY DEF Having, NewVector
<1>3. \A T \in SUBSET S : T # {} => pick(T) \in T
  OBVIOUS
<1> HIDE DEF pick
<1>4. \A T \in SUBSET S : T # {} => SetBit(Having(dim, T \ {pick(T)}), pick(T)) = Having(dim, T)
  BY <1>3, SetBitIs
<1>5. Fold(g)
  <2>1. \A T \in SUBSET S : T # {} => g[T \ {pick(T)}] = Having(dim, T \ {pick(T)})
    OBVIOUS
  <2>2. \A T \in SUBSET S :
          g[T] = IF T = {} THEN NewVector(dim) ELSE SetBit(g[T \ {pick(T)}], pick(T))
    BY <1>2, <1>4, <2>1
  <2>3. g = [T \in SUBSET S |-> g[T]]
    OBVIOUS
  <2> HIDE DEF g
  <2> QED
    BY <2>2, <2>3
<1>6. Fold(f)
  <2> HIDE DEF Fold, g
  <2> QED
    BY <1>5
<1> HIDE DEF f
<1>7. f[{}] = g[{}]
  <2>1. f[{}] = NewVector(dim)
    BY <1>6
  <2> QED
    BY <1>2, <2>1
<1>8. ASSUME NEW T \in SUBSET S, T # {}, f[T \ {pick(T)}] = g[T \ {pick(T)}]
      PROVE  f[T] = g[T]
  <2>1. f[T] = SetBit(f[T \ {pick(T)}], pick(T))
    BY <1>6, <1>8
  <2>2. g[T] = SetBit(g[T \ {pick(T)}], pick(T))
    BY <1>5, <1>8
  <2> QED
    BY <1>8, <2>1, <2>2
<1>9. IsFiniteSet(S)
  <2>1. IsFiniteSet(0..dim - 1)
    BY FS_Interval
  <2> QED
    BY <2>1, FS_Subset
<1>10. f[S] = g[S]
  <2> HIDE DEF g, Fold
  <2> QED
    BY <1>3, <1>7, <1>8, <1>9, FoldsAgree
<1> QED
  BY <1>1, <1>10

\* Such a vector has its lanes, and exactly these positions are on.
LEMMA WithBitsHas ==
    ASSUME NEW dim \in Nat, NEW S \in SUBSET (0..dim - 1)
    PROVE  LET v == WithBits(dim, S)
           IN  /\ v \in Vector
               /\ v.dim = dim
               /\ Len(v.lanes) = LaneCount(dim)
               /\ On(v) = S
<1> DEFINE v == WithBits(dim, S)
           c == LaneCount(dim)
<1>1. c \in Nat /\ \A i \in 0..dim - 1 : LaneOf(i) \in 1..c
  BY LanesCover
<1>2. /\ v.dim = dim
      /\ v = [dim |-> v.dim, lanes |-> v.lanes]
      /\ v.lanes = [n \in 1..c |-> {bit \in 0..LaneBits - 1 : (n - 1) * LaneBits + bit \in S}]
  <2>1. v = Having(dim, S)
    BY WithBitsIs
  <2> HIDE DEF v
  <2> QED
    BY <2>1 DEF Having
<1> HIDE DEF v, c
<1>3. v.lanes \in Seq(Lane) /\ Len(v.lanes) = c /\ DOMAIN v.lanes = 1..c
  BY <1>1, <1>2 DEF Lane
<1>4. v \in Vector
  BY <1>2, <1>3 DEF Vector
<1>5. ASSUME NEW i \in Nat
      PROVE  i \in On(v) <=> i \in S
  <2>1. i \in On(v) <=> LaneOf(i) \in 1..c /\ BitOf(i) \in v.lanes[LaneOf(i)]
    BY <1>3, <1>4, OnIs DEF InRange, GetBit
  <2>2. LaneOf(i) \in 1..c => (BitOf(i) \in v.lanes[LaneOf(i)] <=> i \in S)
    BY <1>2, IndexSplits
  <2>3. i \in S => LaneOf(i) \in 1..c
    BY <1>1
  <2> QED
    BY <2>1, <2>2, <2>3
<1>6. On(v) = S
  <2>1. On(v) \in SUBSET Nat /\ S \in SUBSET Nat
    BY <1>4, OnIs
  <2> QED
    BY <1>5, <2>1
<1> QED
  BY <1>2, <1>3, <1>4, <1>6 DEF v, c
-----------------------------------------------------------------------------
(* Merging. *)

\* A merge goes lane by lane, as far as both have lanes.
LEMMA XorIs ==
    ASSUME NEW v \in Vector, NEW w \in Vector
    PROVE  LET merged == Xor(v, w)
               lanes  == IF Len(v.lanes) <= Len(w.lanes) THEN Len(v.lanes) ELSE Len(w.lanes)
           IN  /\ merged \in Vector
               /\ merged.dim = v.dim
               /\ Len(merged.lanes) = lanes
               /\ Zipped(v, w) = 1..lanes
               /\ \A n \in 1..lanes : merged.lanes[n] = XorLane(v.lanes[n], w.lanes[n])
<1> DEFINE merged == Xor(v, w)
           c == IF Len(v.lanes) <= Len(w.lanes) THEN Len(v.lanes) ELSE Len(w.lanes)
           lanes == [n \in 1..c |-> XorLane(v.lanes[n], w.lanes[n])]
<1>1. /\ v.lanes \in Seq(Lane) /\ w.lanes \in Seq(Lane) /\ v.dim \in Nat
      /\ v = [dim |-> v.dim, lanes |-> v.lanes]
  BY DEF Vector
<1>2. Zipped(v, w) = 1..c /\ c \in Nat
  BY <1>1 DEF Zipped
<1>3. merged = [v EXCEPT !.lanes = lanes]
  BY <1>2, Zenon DEF Xor
<1>4. \A n \in 1..c : XorLane(v.lanes[n], w.lanes[n]) \in Lane
  <2>1. \A n \in 1..c : v.lanes[n] \in Lane /\ w.lanes[n] \in Lane
    BY <1>1
  <2> QED
    BY <2>1 DEF XorLane, Lane
<1> HIDE DEF c
<1>5. /\ lanes \in Seq(Lane) /\ Len(lanes) = c
      /\ \A n \in 1..c : lanes[n] = XorLane(v.lanes[n], w.lanes[n])
  BY <1>2, <1>4
<1> HIDE DEF lanes, merged
<1>6. merged = [dim |-> v.dim, lanes |-> lanes]
  BY <1>1, <1>3
<1>7. merged \in Vector
  BY <1>1, <1>5, <1>6 DEF Vector
<1> QED
  BY <1>2, <1>5, <1>6, <1>7 DEF merged, c

\* Its positions are those that exactly one of the two has.
LEMMA XorFlips ==
    ASSUME NEW v \in Vector, NEW w \in Vector
    PROVE  On(Xor(v, w)) =
             {i \in {j \in On(v) \cup On(w) : InRange(v, j) /\ InRange(w, j)} :
                i \in On(v) <=> i \notin On(w)}
<1> DEFINE merged == Xor(v, w)
           c == IF Len(v.lanes) <= Len(w.lanes) THEN Len(v.lanes) ELSE Len(w.lanes)
<1>1. /\ merged \in Vector /\ Len(merged.lanes) = c
      /\ \A n \in 1..c : merged.lanes[n] = XorLane(v.lanes[n], w.lanes[n])
  BY XorIs
<1>2. /\ DOMAIN v.lanes = 1..Len(v.lanes) /\ Len(v.lanes) \in Nat
      /\ DOMAIN w.lanes = 1..Len(w.lanes) /\ Len(w.lanes) \in Nat
      /\ DOMAIN merged.lanes = 1..c
  <2> HIDE DEF merged, c
  <2> QED
    BY <1>1 DEF Vector
<1> HIDE DEF merged
<1>3. ASSUME NEW i \in Nat
      PROVE  InRange(merged, i) <=> InRange(v, i) /\ InRange(w, i)
  <2>1. LaneOf(i) \in Nat
    BY IndexSplits
  <2> QED
    BY <1>2, <2>1 DEF InRange
<1>4. ASSUME NEW i \in Nat, InRange(merged, i)
      PROVE  GetBit(merged, i) <=> (GetBit(v, i) <=> ~ GetBit(w, i))
  <2>1. merged.lanes[LaneOf(i)] = XorLane(v.lanes[LaneOf(i)], w.lanes[LaneOf(i)])
    BY <1>1, <1>2, <1>4 DEF InRange
  <2> QED
    BY <2>1 DEF GetBit, XorLane
<1>5. /\ On(v) \in SUBSET Nat /\ On(w) \in SUBSET Nat /\ On(merged) \in SUBSET Nat
      /\ \A i \in Nat : i \in On(v) <=> InRange(v, i) /\ GetBit(v, i)
      /\ \A i \in Nat : i \in On(w) <=> InRange(w, i) /\ GetBit(w, i)
      /\ \A i \in Nat : i \in On(merged) <=> InRange(merged, i) /\ GetBit(merged, i)
  BY <1>1, OnIs
<1>6. \A i \in Nat :
        i \in On(merged) <=>
            /\ i \in On(v) \cup On(w)
            /\ InRange(v, i) /\ InRange(w, i)
            /\ i \in On(v) <=> i \notin On(w)
  BY <1>3, <1>4, <1>5
<1> QED
  BY <1>5, <1>6 DEF merged

\* Merging a concept twice undoes it.
LEMMA XorUndoes ==
    ASSUME NEW v \in Vector, NEW w \in Vector, Len(v.lanes) = Len(w.lanes)
    PROVE  Xor(Xor(v, w), w) = v
<1> DEFINE once == Xor(v, w)
           twice == Xor(once, w)
           c == Len(v.lanes)
<1>1. v.lanes \in Seq(Lane) /\ c \in Nat /\ v = [dim |-> v.dim, lanes |-> v.lanes]
  BY DEF Vector
<1>2. /\ once \in Vector /\ once.dim = v.dim /\ Len(once.lanes) = c
      /\ \A n \in 1..c : once.lanes[n] = XorLane(v.lanes[n], w.lanes[n])
  BY <1>1, XorIs
<1> HIDE DEF once
<1>3. /\ twice \in Vector /\ twice.dim = v.dim /\ Len(twice.lanes) = c
      /\ \A n \in 1..c : twice.lanes[n] = XorLane(once.lanes[n], w.lanes[n])
  BY <1>1, <1>2, XorIs
<1> HIDE DEF twice
<1>4. \A n \in 1..c : twice.lanes[n] = v.lanes[n]
  <2>1. \A a, b : XorLane(XorLane(a, b), b) = a
    BY DEF XorLane
  <2> QED
    BY <1>2, <1>3, <2>1
<1>5. twice.lanes \in Seq(Lane) /\ twice = [dim |-> twice.dim, lanes |-> twice.lanes]
  BY <1>3 DEF Vector
<1>6. twice.lanes = v.lanes
  BY <1>1, <1>3, <1>4, <1>5, SeqEqual
<1> QED
  BY <1>1, <1>3, <1>5, <1>6 DEF twice, once

\* The positions of one lane.
LaneAt(n, lane) == {(n - 1) * LaneBits + bit : bit \in lane}

LEMMA LaneAtIs ==
    ASSUME NEW n \in Nat \ {0}, NEW lane \in Lane
    PROVE  /\ IsFiniteSet(lane) /\ IsFiniteSet(LaneAt(n, lane))
           /\ Cardinality(LaneAt(n, lane)) = Cardinality(lane)
           /\ \A i \in LaneAt(n, lane) : i \in Nat /\ LaneOf(i) = n
<1> DEFINE place == [bit \in lane |-> (n - 1) * LaneBits + bit]
<1>1. IsFiniteSet(lane)
  <2>1. IsFiniteSet(0..LaneBits - 1)
    BY LaneBitsAssumption, FS_Interval
  <2> QED
    BY <2>1, FS_Subset DEF Lane
<1>2. \A bit \in lane : /\ place[bit] \in Nat
                        /\ LaneOf(place[bit]) = n
                        /\ BitOf(place[bit]) = bit
  BY IndexJoins DEF Lane
<1>3. \A i \in LaneAt(n, lane) : \E bit \in lane : i = place[bit]
  BY DEF LaneAt
<1>4. place \in Surjection(lane, LaneAt(n, lane))
  BY <1>3 DEF LaneAt, Surjection
<1>5. place \in Injection(lane, LaneAt(n, lane))
  <2>1. place \in [lane -> LaneAt(n, lane)]
    BY DEF LaneAt
  <2>2. \A a, b \in lane : place[a] = place[b] => a = b
    BY <1>2
  <2> HIDE DEF place
  <2> QED
    BY <2>1, <2>2 DEF Injection, IsInjective
<1> HIDE DEF place
<1>6. place \in Bijection(lane, LaneAt(n, lane))
  BY <1>4, <1>5 DEF Bijection
<1> QED
  BY <1>1, <1>2, <1>3, <1>6, FS_Bijection DEF ExistsBijection

\* The distance is the number of positions in which the two differ.
LEMMA DistanceIs ==
    ASSUME NEW v \in Vector, NEW w \in Vector
    PROVE  HammingDistance(v, w) = Cardinality(On(Xor(v, w)))
<1> DEFINE merged == Xor(v, w)
           S == Zipped(v, w)
           pick(T) == CHOOSE x \in T : TRUE
           count(n) == Cardinality(XorLane(v.lanes[n], w.lanes[n]))
           Fold(f) == f = [T \in SUBSET S |-> IF T = {} THEN 0
                                               ELSE count(pick(T)) + f[T \ {pick(T)}]]
           on(T) == UNION {LaneAt(n, merged.lanes[n]) : n \in T}
           g == [T \in SUBSET S |-> Cardinality(on(T))]
           f == CHOOSE h : Fold(h)
<1>1. HammingDistance(v, w) = f[S]
  BY Zenon DEF HammingDistance, MapThenSumSet, MapThenFoldSet
<1>2. /\ merged.lanes \in Seq(Lane)
      /\ S = DOMAIN merged.lanes
      /\ S = 1..Len(merged.lanes) /\ Len(merged.lanes) \in Nat
      /\ \A n \in S : count(n) = Cardinality(merged.lanes[n])
  <2> DEFINE c == IF Len(v.lanes) <= Len(w.lanes) THEN Len(v.lanes) ELSE Len(w.lanes)
  <2>1. /\ merged \in Vector /\ Len(merged.lanes) = c /\ S = 1..c
        /\ \A n \in 1..c : merged.lanes[n] = XorLane(v.lanes[n], w.lanes[n])
    BY XorIs
  <2> HIDE DEF merged, c, S
  <2> QED
    BY <2>1 DEF Vector
<1>3. IsFiniteSet(S)
  <2> DEFINE c == Len(merged.lanes)
  <2>1. c \in Nat
    BY <1>2
  <2> HIDE DEF c
  <2>2. IsFiniteSet(1..c)
    BY <2>1, FS_Interval
  <2> QED
    BY <1>2, <2>2 DEF c
<1>4. on(S) = On(merged)
  BY <1>2, Zenon DEF On, LaneAt
<1> HIDE DEF merged, S, count, pick
<1>5. \A n \in S : n \in Nat \ {0} /\ merged.lanes[n] \in Lane
  BY <1>2
<1>6. \A T \in SUBSET S : T # {} => pick(T) \in T
  BY DEF pick
<1>7. ASSUME NEW T \in SUBSET S
      PROVE  IsFiniteSet(on(T))
  <2>1. IsFiniteSet({LaneAt(n, merged.lanes[n]) : n \in T})
    <3> DEFINE h == [n \in T |-> LaneAt(n, merged.lanes[n])]
    <3>1. IsFiniteSet(T)
      BY <1>3, FS_Subset
    <3>2. h \in Surjection(T, {LaneAt(n, merged.lanes[n]) : n \in T})
      BY DEF Surjection
    <3> QED
      BY <3>1, <3>2, FS_Surjection
  <2>2. \A l \in {LaneAt(n, merged.lanes[n]) : n \in T} : IsFiniteSet(l)
    BY <1>5, LaneAtIs
  <2> QED
    BY <2>1, <2>2, FS_UNION
<1>8. ASSUME NEW T \in SUBSET S, NEW x \in T
      PROVE  Cardinality(on(T)) = count(x) + Cardinality(on(T \ {x}))
  <2> DEFINE lane == LaneAt(x, merged.lanes[x])
             rest == on(T \ {x})
  <2>1. /\ IsFiniteSet(lane) /\ Cardinality(lane) = count(x)
        /\ \A i \in lane : LaneOf(i) = x
    BY <1>2, <1>5, LaneAtIs
  <2>2. \A i \in rest : LaneOf(i) # x
    <3> SUFFICES ASSUME NEW i \in rest PROVE LaneOf(i) # x
      OBVIOUS
    <3>1. PICK n \in T \ {x} : i \in LaneAt(n, merged.lanes[n])
      OBVIOUS
    <3>2. LaneOf(i) = n
      BY <1>5, <3>1, LaneAtIs
    <3> QED
      BY <3>1, <3>2
  <2>3. on(T) = lane \cup rest
    OBVIOUS
  <2>4. IsFiniteSet(rest)
    BY <1>7
  <2> HIDE DEF lane, rest, on
  <2>5. lane \cap rest = {}
    BY <2>1, <2>2
  <2>6. Cardinality(lane \cup rest) = Cardinality(lane) + Cardinality(rest)
    <3>1. Cardinality(lane \cup rest) = Cardinality(lane) + Cardinality(rest) - Cardinality({})
      BY <2>1, <2>4, <2>5, FS_Union
    <3>2. Cardinality({}) = 0 /\ Cardinality(lane) \in Nat /\ Cardinality(rest) \in Nat
      BY <2>1, <2>4, FS_EmptySet, FS_CardinalityType
    <3> QED
      BY <3>1, <3>2
  <2> QED
    BY <2>1, <2>3, <2>6 DEF rest
<1> HIDE DEF on
<1>9. Fold(g)
  <2>1. g[{}] = 0
    <3>1. on({}) = {}
      BY DEF on
    <3> QED
      BY <3>1, FS_EmptySet
  <2>2. \A T \in SUBSET S : T # {} => g[T] = count(pick(T)) + g[T \ {pick(T)}]
    BY <1>6, <1>8
  <2>3. g = [T \in SUBSET S |-> g[T]]
    OBVIOUS
  <2> HIDE DEF g
  <2> QED
    BY <2>1, <2>2, <2>3
<1>10. Fold(f)
  <2> HIDE DEF Fold, g
  <2> QED
    BY <1>9
<1> HIDE DEF f
<1>11. f[S] = g[S]
  <2>1. f[{}] = g[{}]
    BY <1>9, <1>10
  <2>2. ASSUME NEW T \in SUBSET S, T # {}, f[T \ {pick(T)}] = g[T \ {pick(T)}]
        PROVE  f[T] = g[T]
    <3>1. f[T] = count(pick(T)) + f[T \ {pick(T)}]
      BY <1>10, <2>2
    <3>2. g[T] = count(pick(T)) + g[T \ {pick(T)}]
      BY <1>9, <2>2
    <3> QED
      BY <2>2, <3>1, <3>2
  <2> HIDE DEF g, Fold
  <2>3. \A T \in SUBSET S : T # {} =>
            \E x \in T : f[T \ {x}] = g[T \ {x}] => f[T] = g[T]
    BY <1>6, <2>2
  <2> QED
    BY <1>3, <2>1, <2>3, FoldsAgree
<1> QED
  BY <1>1, <1>4, <1>11 DEF merged
-----------------------------------------------------------------------------
(* What callers send, and what is seeded. *)

VectorsType == sent \in Vector /\ seeded \in Vector /\ Fits(seeded)

\* A seeded vector has its lanes, and nothing beyond its dimension.
LEMMA SeedFits ==
    ASSUME NEW dim \in Nat, NEW draws
    PROVE  Seed(draws, dim) \in Vector /\ Fits(Seed(draws, dim))
<1>1. {i \in 0..dim - 1 : draws[i + 1]} \in SUBSET (0..dim - 1)
  OBVIOUS
<1> QED
  BY <1>1, WithBitsHas DEF Seed, Fits

LEMMA NoBitsFit == NewVector(0) \in Vector /\ Fits(NewVector(0))
<1>1. WithBits(0, {}) = Having(0, {})
  BY WithBitsIs
<1>2. Having(0, {}) = NewVector(0)
  BY DEF Having, NewVector
<1>3. {} \in SUBSET (0..0 - 1)
  OBVIOUS
<1> QED
  BY <1>1, <1>2, <1>3, WithBitsHas DEF Fits

LEMMA VectorsAreTyped == Spec => []VectorsType
<1>1. Init => VectorsType
  BY NoBitsFit DEF Init, VectorsType
<1>2. VectorsType /\ [Next]_variables => VectorsType'
  <2>1. ASSUME VectorsType, TakeVectors PROVE VectorsType'
    <3>1. PICK dim \in 0..MaxDim, count \in 0..LaneCount(MaxDim) :
            \E lanes \in [1..count -> Lane] : sent' = [dim |-> dim, lanes |-> lanes]
      BY <2>1 DEF TakeVectors
    <3>2. sent' \in Vector
      BY <3>1 DEF Vector
    <3>3. PICK d \in 0..MaxDim : \E draws \in [1..d -> BOOLEAN] : seeded' = Seed(draws, d)
      BY <2>1 DEF TakeVectors
    <3>4. d \in Nat
      OBVIOUS
    <3>5. seeded' \in Vector /\ Fits(seeded)'
      BY <3>3, <3>4, SeedFits DEF Fits, On
    <3> QED
      BY <3>2, <3>5 DEF VectorsType
  <2>2. ASSUME VectorsType, UNCHANGED <<sent, seeded>> PROVE VectorsType'
    BY <2>2 DEF VectorsType, Fits, On
  <2> QED
    BY <2>1, <2>2 DEF Next, AppendAny, AddEntry, variables
<1> QED
  BY <1>1, <1>2, PTL DEF Spec, variables

\* Merging flips the positions of the concept, in vectors of any dimension with
\* any number of lanes.
THEOREM MergesFlip == Spec => []MergesFlipBits
<1>1. VectorsType => MergesFlipBits
  <2> SUFFICES ASSUME VectorsType, sent.dim = seeded.dim
               PROVE  LET merged == Xor(sent, seeded)
                          common == {i \in On(sent) \cup On(seeded) :
                                        InRange(sent, i) /\ InRange(seeded, i)}
                      IN  /\ On(merged) = {i \in common : i \in On(sent) <=> i \notin On(seeded)}
                          /\ Fits(sent) => Fits(merged) /\ Xor(merged, seeded) = sent
                          /\ HammingDistance(sent, seeded) = Cardinality(On(merged))
    BY DEF VectorsType, MergesFlipBits
  <2> DEFINE merged == Xor(sent, seeded)
  <2>1. sent \in Vector /\ seeded \in Vector /\ Fits(seeded)
    BY DEF VectorsType
  <2>2. On(merged) =
          {i \in {j \in On(sent) \cup On(seeded) : InRange(sent, j) /\ InRange(seeded, j)} :
             i \in On(sent) <=> i \notin On(seeded)}
    BY <2>1, XorFlips
  <2>3. Fits(sent) => Fits(merged) /\ Xor(merged, seeded) = sent
    <3>1. SUFFICES ASSUME Fits(sent) PROVE Fits(merged) /\ Xor(merged, seeded) = sent
      OBVIOUS
    <3>2. Len(sent.lanes) = Len(seeded.lanes)
      BY <2>1, <3>1 DEF Fits
    <3>3. merged.dim = sent.dim /\ Len(merged.lanes) = Len(sent.lanes)
      <4>1. Len(sent.lanes) <= Len(sent.lanes)
        BY <2>1 DEF Vector
      <4> QED
        BY <2>1, <3>2, <4>1, XorIs
    <3>4. On(merged) \subseteq On(sent) \cup On(seeded)
      BY <2>2
    <3> HIDE DEF merged
    <3>5. Fits(merged)
      BY <2>1, <3>1, <3>3, <3>4 DEF Fits
    <3> QED
      BY <2>1, <3>2, <3>5, XorUndoes DEF merged
  <2>4. HammingDistance(sent, seeded) = Cardinality(On(merged))
    BY <2>1, DistanceIs
  <2> QED
    BY <2>2, <2>3, <2>4
<1> QED
  BY <1>1, VectorsAreTyped, PTL

-----------------------------------------------------------------------------
(* Rotating and bundling. *)

\* In the lanes of its dimension a vector has the position when the bit is set.
LEMMA CoveredBit ==
    ASSUME NEW v \in Vector, Covers(v), NEW i \in 0..v.dim - 1
    PROVE  GetBit(v, i) <=> i \in On(v)
<1>1. v.dim \in Nat /\ v.lanes \in Seq(Lane) /\ i \in Nat
  BY DEF Vector
<1>2. LaneOf(i) \in 1..LaneCount(v.dim) /\ LaneCount(v.dim) \in Nat
  BY <1>1, LanesCover
<1>3. Len(v.lanes) >= LaneCount(v.dim) /\ Len(v.lanes) \in Nat
  BY <1>1 DEF Covers
<1>4. InRange(v, i)
  BY <1>1, <1>2, <1>3 DEF InRange
<1> QED
  BY <1>1, <1>4, OnIs

\* The position to the left by k, and back.
LEMMA RotationInverts ==
    ASSUME NEW dim \in Nat \ {0}, NEW k \in 1..2 * dim,
           NEW i \in 0..dim - 1, NEW j \in 0..dim - 1
    PROVE  (i + dim - (k % dim)) % dim = j <=> i = (j + k) % dim
<1>1. ASSUME NEW q \in 0..2, NEW r \in 0..dim - 1
      PROVE  (q * dim + r) % dim = r
  BY SMT
<1>2. \A r \in 0..dim - 1 : r % dim = r /\ (dim + r) % dim = r /\ (2 * dim + r) % dim = r
  <2> SUFFICES ASSUME NEW r \in 0..dim - 1
               PROVE  r % dim = r /\ (dim + r) % dim = r /\ (2 * dim + r) % dim = r
    OBVIOUS
  <2>1. 0 * dim + r = r /\ 1 * dim + r = dim + r
    OBVIOUS
  <2> QED
    BY <1>1, <2>1
<1>3. PICK s \in 0..dim - 1 : k % dim = s /\ (k = s \/ k = dim + s \/ (s = 0 /\ k = 2 * dim))
  <2>1. CASE k < dim
    BY <1>2, <2>1
  <2>2. CASE dim <= k /\ k < 2 * dim
    <3>1. k - dim \in 0..dim - 1 /\ dim + (k - dim) = k
      BY <2>2
    <3> QED
      BY <1>2, <3>1
  <2>3. CASE k = 2 * dim
    <3>1. 0 \in 0..dim - 1 /\ 2 * dim + 0 = k
      BY <2>3
    <3> QED
      BY <1>2, <2>3, <3>1
  <2> QED
    BY <2>1, <2>2, <2>3
<1>4. (i + dim - s) % dim = IF i < s THEN i + dim - s ELSE i - s
  <2>1. CASE i < s
    <3>1. i + dim - s \in 0..dim - 1
      BY <2>1
    <3> QED
      BY <1>2, <2>1, <3>1
  <2>2. CASE s <= i
    <3>1. i - s \in 0..dim - 1 /\ dim + (i - s) = i + dim - s
      BY <2>2
    <3>2. ~ (i < s)
      BY <2>2
    <3> QED
      BY <1>2, <3>1, <3>2
  <2> QED
    BY <2>1, <2>2
<1>5. (j + k) % dim = IF j + s < dim THEN j + s ELSE j + s - dim
  <2>1. CASE j + s < dim
    <3>1. j + s \in 0..dim - 1
      BY <2>1
    <3>2. j + k = j + s \/ j + k = dim + (j + s) \/ j + k = 2 * dim + (j + s)
      BY <1>3
    <3> QED
      BY <1>2, <2>1, <3>1, <3>2
  <2>2. CASE dim <= j + s
    <3>1. j + s - dim \in 0..dim - 1 /\ ~ (j + s < dim)
      BY <2>2
    <3>2. j + k = dim + (j + s - dim) \/ j + k = 2 * dim + (j + s - dim)
      BY <1>3, <2>2
    <3> QED
      BY <1>2, <3>1, <3>2
  <2> QED
    BY <2>1, <2>2
<1> QED
  BY <1>3, <1>4, <1>5

LEMMA RotateIs ==
    ASSUME NEW v \in Vector, Covers(v), NEW k \in 1..2 * v.dim, k % v.dim # 0
    PROVE  On(RotateLeft(v, k)) = {(i + k) % v.dim : i \in On(v) \cap (0..v.dim - 1)}
<1> DEFINE dim == v.dim
           from(i) == (i + dim - (k % dim)) % dim
           S == {i \in 0..dim - 1 : GetBit(v, from(i))}
<1>1. dim \in Nat \ {0}
  BY DEF Vector
<1>2. RotateLeft(v, k) = WithBits(dim, S)
  BY DEF RotateLeft
<1>3. \A i \in 0..dim - 1 : from(i) \in 0..dim - 1
  <2> SUFFICES ASSUME NEW i \in 0..dim - 1 PROVE from(i) \in 0..dim - 1
    OBVIOUS
  <2>1. k \in Nat /\ k % dim \in 0..dim - 1
    BY <1>1, SMT
  <2>2. i + dim - (k % dim) \in Nat
    BY <1>1, <2>1
  <2> QED
    BY <1>1, <2>2, SMT
<1>4. \A j \in 0..dim - 1 : (j + k) % dim \in 0..dim - 1
  BY <1>1, SMT
<1>5. \A i, j \in 0..dim - 1 : from(i) = j <=> i = (j + k) % dim
  BY <1>1, RotationInverts
<1>6. \A j \in 0..dim - 1 : GetBit(v, j) <=> j \in On(v)
  BY CoveredBit
<1> HIDE DEF from
<1>7. On(WithBits(dim, S)) = S
  <2>1. S \in SUBSET (0..dim - 1)
    OBVIOUS
  <2> HIDE DEF S, dim
  <2> QED
    BY <1>1, <2>1, WithBitsHas
<1>8. S = {(j + k) % dim : j \in On(v) \cap (0..dim - 1)}
  <2> HIDE DEF dim
  <2>1. ASSUME NEW i \in S PROVE \E j \in On(v) \cap (0..dim - 1) : i = (j + k) % dim
    <3>1. from(i) \in On(v) \cap (0..dim - 1) /\ i = (from(i) + k) % dim
      BY <1>3, <1>5, <1>6
    <3> QED
      BY <3>1
  <2>2. ASSUME NEW j \in On(v) \cap (0..dim - 1) PROVE (j + k) % dim \in S
    <3>1. from((j + k) % dim) = j
      BY <1>4, <1>5
    <3> QED
      BY <1>4, <1>6, <3>1
  <2> HIDE DEF S
  <2> QED
    BY <2>1, <2>2
<1> QED
  BY <1>2, <1>7, <1>8

\* A position is bundled when enough of the two have it.
LEMMA ThresholdIs ==
    ASSUME NEW v \in Vector, NEW w \in Vector, Covers(v), Covers(w), v.dim = w.dim,
           NEW halves \in Nat
    PROVE  On(ThresholdSum(v, w, halves)) =
             {i \in 0..v.dim - 1 :
                (IF i \in On(v) THEN 1 ELSE 0) + (IF i \in On(w) THEN 1 ELSE 0) >= halves}
<1> DEFINE votes(i) == {n \in {1, 2} : GetBit(<<v, w>>[n], i)}
           S == {i \in 0..v.dim - 1 : Cardinality(votes(i)) >= halves}
<1>1. v.dim \in Nat /\ S \in SUBSET (0..v.dim - 1)
  BY DEF Vector
<1>2. On(ThresholdSum(v, w, halves)) = S
  <2>1. ThresholdSum(v, w, halves) = WithBits(v.dim, S)
    BY Zenon DEF ThresholdSum
  <2> HIDE DEF S
  <2> QED
    BY <1>1, <2>1, WithBitsHas
<1>3. ASSUME NEW i \in 0..v.dim - 1
      PROVE  Cardinality(votes(i)) =
                (IF i \in On(v) THEN 1 ELSE 0) + (IF i \in On(w) THEN 1 ELSE 0)
  <2>1. (GetBit(v, i) <=> i \in On(v)) /\ (GetBit(w, i) <=> i \in On(w))
    BY CoveredBit
  <2>2. 1 \in votes(i) <=> i \in On(v)
    BY <2>1
  <2>3. 2 \in votes(i) <=> i \in On(w)
    BY <2>1
  <2>4. votes(i) \subseteq {1, 2}
    OBVIOUS
  <2> HIDE DEF votes
  <2>5. votes(i) \in {{}, {1}, {2}, {1, 2}}
    BY <2>4
  <2>6. /\ Cardinality({}) = 0
        /\ Cardinality({1}) = 1
        /\ Cardinality({2}) = 1
        /\ Cardinality({1, 2}) = 2
    <3>1. IsFiniteSet({1}) /\ Cardinality({1}) = 1 /\ Cardinality({2}) = 1
      BY FS_Singleton
    <3>2. Cardinality({1} \cup {2}) = 1 + 1
      BY <3>1, FS_AddElement
    <3>3. {1} \cup {2} = {1, 2}
      OBVIOUS
    <3> QED
      BY <3>1, <3>2, <3>3, FS_EmptySet
  <2> QED
    BY <2>2, <2>3, <2>5, <2>6
<1> HIDE DEF votes
<1> QED
  BY <1>2, <1>3

\* Positions move together, in vectors of any dimension and words of any size.
THEOREM PositionsMove == Spec => []PositionsMoveTogether
<1>1. VectorsType => PositionsMoveTogether
  <2> SUFFICES ASSUME VectorsType, Covers(sent)
               PROVE  LET positions == 0..sent.dim - 1
                          on == On(sent) \cap positions
                      IN  /\ \A k \in 1..2 * sent.dim :
                                k % sent.dim # 0 =>
                                    On(RotateLeft(sent, k)) = {(i + k) % sent.dim : i \in on}
                          /\ sent.dim = seeded.dim =>
                                /\ On(ThresholdSum(sent, seeded, 0)) = positions
                                /\ On(ThresholdSum(sent, seeded, 1)) = on \cup On(seeded)
                                /\ On(ThresholdSum(sent, seeded, 2)) = on \cap On(seeded)
                                /\ On(ThresholdSum(sent, seeded, 3)) = {}
    BY DEF PositionsMoveTogether
  <2>1. sent \in Vector /\ seeded \in Vector /\ Fits(seeded)
    BY DEF VectorsType
  <2>2. \A k \in 1..2 * sent.dim :
            k % sent.dim # 0 =>
                On(RotateLeft(sent, k)) = {(i + k) % sent.dim : i \in On(sent) \cap (0..sent.dim - 1)}
    BY <2>1, RotateIs
  <2>3. ASSUME sent.dim = seeded.dim
        PROVE  LET positions == 0..sent.dim - 1
                   on == On(sent) \cap positions
               IN  /\ On(ThresholdSum(sent, seeded, 0)) = positions
                   /\ On(ThresholdSum(sent, seeded, 1)) = on \cup On(seeded)
                   /\ On(ThresholdSum(sent, seeded, 2)) = on \cap On(seeded)
                   /\ On(ThresholdSum(sent, seeded, 3)) = {}
    <3>1. Covers(seeded) /\ On(seeded) \subseteq 0..sent.dim - 1
      <4>1. Len(seeded.lanes) \in Nat
        BY <2>1 DEF Vector
      <4> QED
        BY <2>1, <2>3, <4>1 DEF Fits, Covers
    <3>2. \A h \in Nat : On(ThresholdSum(sent, seeded, h)) =
             {i \in 0..sent.dim - 1 :
                (IF i \in On(sent) THEN 1 ELSE 0) + (IF i \in On(seeded) THEN 1 ELSE 0) >= h}
      BY <2>1, <2>3, <3>1, ThresholdIs
    <3>3. On(ThresholdSum(sent, seeded, 0)) = 0..sent.dim - 1
      <4>1. On(ThresholdSum(sent, seeded, 0)) =
               {i \in 0..sent.dim - 1 :
                  (IF i \in On(sent) THEN 1 ELSE 0) + (IF i \in On(seeded) THEN 1 ELSE 0) >= 0}
        BY <3>2
      <4>2. \A i : (IF i \in On(sent) THEN 1 ELSE 0) + (IF i \in On(seeded) THEN 1 ELSE 0) >= 0
        OBVIOUS
      <4> QED
        BY <4>1, <4>2
    <3>4. On(ThresholdSum(sent, seeded, 1)) = (On(sent) \cap (0..sent.dim - 1)) \cup On(seeded)
      BY <3>1, <3>2
    <3>5. On(ThresholdSum(sent, seeded, 2)) = (On(sent) \cap (0..sent.dim - 1)) \cap On(seeded)
      BY <3>1, <3>2
    <3>6. On(ThresholdSum(sent, seeded, 3)) = {}
      BY <3>2
    <3> QED
      BY <3>3, <3>4, <3>5, <3>6
  <2> QED
    BY <2>2, <2>3
<1> QED
  BY <1>1, VectorsAreTyped, PTL
=============================================================================
