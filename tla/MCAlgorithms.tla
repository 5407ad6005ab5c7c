----------------------------- MODULE MCAlgorithms -----------------------------
(***************************************************************************)
(* The pure algorithms on every small input.  Replay: every short log of   *)
(* linked, broken, reordered, altered and repeated blocks; a step appends  *)
(* any block.  Vectors: one that a caller may send, of which the lanes may *)
(* not fit the dimension, with one that was seeded, as every concept is.   *)
(* Tokens: a list of entries as a file or the environment may give it.     *)
(***************************************************************************)
EXTENDS Ledger, BitVec, Tokens, TLC

CONSTANTS MaxHash,      \* the hashes of non-genesis blocks are 1..MaxHash
          MaxLogLength, \* bound on the log
          MaxDim,       \* bound on the dimension of a vector
          MaxEntries    \* bound on the list of tokens

Altered == MaxHash + 1  \* the digest of a block whose contents were changed

Blocks ==
    [hash : 1..MaxHash, digest : 1..Altered, prev : 0..MaxHash, time : {0},
     txn : {"t"}]

VARIABLES log,   \* the log to replay
          sent,  \* a vector from a caller
          seeded, \* the vector of a concept
          entries \* developers, their tokens and scopes

Entry == [developer : {"dev1", "dev2"}, token : {"t1", "t2", Unset},
          scopes : {<<>>, <<Blank>>, <<"award:achievements">>,
                    <<Blank, "manage:concepts">>}]

Init == log = <<>> /\ sent = NewVector(0) /\ seeded = NewVector(0) /\ entries = <<>>

NoVectors == sent = NewVector(0) /\ seeded = NewVector(0)

AddEntry ==
    /\ log = <<>> /\ NoVectors
    /\ Len(entries) < MaxEntries
    /\ \E e \in Entry : entries' = Append(entries, e)
    /\ UNCHANGED <<log, sent, seeded>>

AppendAny ==
    /\ NoVectors /\ entries = <<>>
    /\ Len(log) < MaxLogLength
    /\ \E b \in Blocks :
        /\ b.digest \in {b.hash, Altered}
        /\ log' = Append(log, b)
    /\ UNCHANGED <<sent, seeded, entries>>

TakeVectors ==
    /\ log = <<>> /\ NoVectors /\ entries = <<>>
    /\ \E dim \in 0..MaxDim, count \in 0..LaneCount(MaxDim) :
        \E lanes \in [1..count -> Lane] : sent' = [dim |-> dim, lanes |-> lanes]
    /\ \E dim \in 0..MaxDim :
        \E draws \in [1..dim -> BOOLEAN] : seeded' = Seed(draws, dim)
    /\ UNCHANGED <<log, entries>>

Next == AppendAny \/ TakeVectors \/ AddEntry

Spec == Init /\ [][Next]_<<log, sent, seeded, entries>>

-----------------------------------------------------------------------------
Verified == VerifyPlayerBlocks(log).verified
Quarantined == VerifyPlayerBlocks(log).quarantined

\* Whatever the log holds, the blocks kept by verify_player_blocks form one
\* valid chain from the genesis block, and no block is dropped or kept twice.
KeptBlocksFormAChain ==
    /\ IsValidChain(Verified)
    /\ Len(Verified) + Len(Quarantined) = Len(log)
    /\ \A b \in ToSet(log) :
        Cardinality({i \in DOMAIN log : log[i] = b}) =
            Cardinality({i \in DOMAIN Verified : Verified[i] = b})
                + Cardinality({i \in DOMAIN Quarantined : Quarantined[i] = b})

\* Reference: K is the set of kept positions when a position is kept exactly
\* when its block is unaltered and names the last kept block before it.
KeepsExactly(K) ==
    \A i \in DOMAIN log :
        LET before == {j \in K : j < i}
            last   == IF before = {} THEN GenesisHash ELSE log[Max(before)].hash
        IN  i \in K <=> log[i].prev = last /\ log[i].hash = log[i].digest

\* verify_player_blocks keeps the blocks the reference keeps: a quarantined
\* block never prevents a later block that links to a kept one from being kept.
KeptBlocksAreTheGreedyChain ==
    \E K \in SUBSET (DOMAIN log) :
        /\ KeepsExactly(K)
        /\ Verified = At(log, K)

\* What one restart restores from an append-only log, every later restart
\* restores: appending blocks never takes a kept block away.
KeptBlocksStay ==
    [][IsPrefix(Verified, VerifyPlayerBlocks(log').verified)]_log

-----------------------------------------------------------------------------

\* The positions that are on, those beyond the dimension included.
On(v) == UNION {{(n - 1) * LaneBits + bit : bit \in v.lanes[n]} : n \in DOMAIN v.lanes}

Covers(v) == Len(v.lanes) >= LaneCount(v.dim)
Fits(v) == Len(v.lanes) = LaneCount(v.dim) /\ On(v) \subseteq 0..v.dim - 1

\* Merging a concept flips exactly the concept's positions, as far as both have
\* lanes, and merging it twice gives the vector back when its lanes fit; a
\* vector that was sent with fewer lanes silently drops the rest of the concept
\* (hd.rs:37).  The distance counts the flipped positions.
MergesFlipBits ==
    /\ Fits(seeded)
    /\ sent.dim = seeded.dim =>
        LET merged == Xor(sent, seeded)
            common == {i \in On(sent) \cup On(seeded) :
                          InRange(sent, i) /\ InRange(seeded, i)}
        IN  /\ On(merged) = {i \in common : i \in On(sent) <=> i \notin On(seeded)}
            /\ Fits(sent) => Fits(merged) /\ Xor(merged, seeded) = sent
            /\ HammingDistance(sent, seeded) = Cardinality(On(merged))

\* A rotation moves every position by k around the dimension, bundling by a
\* threshold gives every position, the union, the intersection or nothing, and
\* neither touches what is beyond the dimension, whatever the word size.
PositionsMoveTogether ==
    Covers(sent) =>
        LET positions == 0..sent.dim - 1
            on == On(sent) \cap positions
        IN  /\ \A k \in 1..2 * sent.dim :
                k % sent.dim # 0 =>
                    On(RotateLeft(sent, k)) = {(i + k) % sent.dim : i \in on}
            /\ sent.dim = seeded.dim =>
                /\ On(ThresholdSum(sent, seeded, 0)) = positions
                /\ On(ThresholdSum(sent, seeded, 1)) = on \cup On(seeded)
                /\ On(ThresholdSum(sent, seeded, 2)) = on \cap On(seeded)
                /\ On(ThresholdSum(sent, seeded, 3)) = {}

-----------------------------------------------------------------------------

AllBlank(raw) == raw # <<>> /\ ToSet(raw) = {Blank}

\* Whom a table authorizes, for what.
Rights(table) ==
    {right \in {"t1", "t2"} \X {"dev1", "dev2"} \X Scopes :
        DeveloperAuthorizedFor(table, right[1], right[2], right[3])}

\* The first token of each developer, as the file with a map has them.
TokensOf(named) ==
    LET first(d) == Min({i \in DOMAIN named : named[i].developer = d})
    IN  [d \in {named[i].developer : i \in DOMAIN named} |-> named[first(d)].token]

\* Every scope to each of its developers.
Granted(tokens) == {<<tokens[d], d, scope>> : d \in DOMAIN tokens, scope \in Scopes}

\* A file and a variable that say the same give the same rights, and so does a
\* map, in whatever order it is read, when no two developers share a token.  The
\* one exception is an entry with nothing but blank scopes: in a file it has no
\* scope, in the variable every scope (api.rs:117).  A shared token acts for one
\* developer only.
TokensMeanTheSame ==
    LET named == Given(entries)
        list == [format |-> "list", entries |-> named]
        map == [format |-> "map", tokens |-> TokensOf(named)]
    IN  /\ (\A i \in DOMAIN entries : ~AllBlank(entries[i].scopes)) =>
            \A table \in FileTables(list) : Rights(table) = Rights(EnvTable(entries))
        /\ IsInjective(map.tokens) =>
            \A table \in FileTables(map) : Rights(table) = Granted(map.tokens)
        /\ \A table \in FileTables(list) \cup FileTables(map) :
            \A r, q \in Rights(table) : r[1] = q[1] => r[2] = q[2]
=============================================================================
