------------------------------- MODULE Ledger -------------------------------
(***************************************************************************)
(* The block chain of rust/src/blockchain.rs and the replay check that     *)
(* PlayerProfileService::new runs over each player's log                   *)
(* (verify_player_blocks in rust/src/player_profile.rs).                   *)
(*                                                                         *)
(* A block is a record:                                                    *)
(*   hash    the stored block_hash;                                        *)
(*   digest  what calculate_hash returns for the stored contents, equal to *)
(*           hash for a block nobody altered after create_block;           *)
(*   prev    the stored previous_block_hash;                               *)
(*   time    the timestamp (RFC 3339 text, which sorts like the instant);  *)
(*   txn     its transaction: every caller of add_block passes exactly one.*)
(* SHA-256 is taken as injective and transaction ids are random, so a hash *)
(* is a number no other block has.  A chain is the sequence of blocks      *)
(* after the genesis block, which is always the same: hash "0", no         *)
(* transaction, never verified.                                            *)
(***************************************************************************)
EXTENDS Naturals, Sequences, FiniteSets, SequencesExt, Positions

GenesisHash == 0

\* Fault for chain_two_players: the block before the last one is taken.
TipHashOfSecondLast(chain) ==
    IF Len(chain) <= 1 THEN GenesisHash ELSE chain[Len(chain) - 1].hash

\* The hash a block appended to the chain must name as its predecessor.
TipHash(chain) ==
    IF chain = <<>> THEN GenesisHash ELSE chain[Len(chain)].hash

\* create_block: the search for a nonce always ends with some hash, h.
CreateBlock(chain, h, t, txn) ==
    [hash |-> h, digest |-> h, prev |-> TipHash(chain), time |-> t,
     txn |-> txn]

HashBefore(chain, i) == IF i = 1 THEN GenesisHash ELSE chain[i - 1].hash

IsValidChain(chain) ==
    \A i \in 1..Len(chain) :
        /\ chain[i].prev = HashBefore(chain, i)
        /\ chain[i].hash = chain[i].digest

-----------------------------------------------------------------------------
(* Replay. *)

\* Fault for algorithms: the rejected block is not popped from the chain.
VerifyStepNoPop(acc, block) ==
    IF IsValidChain(Append(acc.verified, block))
    THEN [acc EXCEPT !.verified = Append(@, block)]
    ELSE [verified    |-> Append(acc.verified, block),
          quarantined |-> Append(acc.quarantined, block)]

\* Fault for algorithms: one bad block ends the replay, so what follows it is
\* quarantined too.
VerifyStepStopAtFirst(acc, block) ==
    IF acc.quarantined = <<>> /\ IsValidChain(Append(acc.verified, block))
    THEN [acc EXCEPT !.verified = Append(@, block)]
    ELSE [acc EXCEPT !.quarantined = Append(@, block)]

\* Fault for algorithms: a block that does not link replaces the chain so far.
VerifyStepRestart(acc, block) ==
    IF IsValidChain(Append(acc.verified, block))
    THEN [acc EXCEPT !.verified = Append(@, block)]
    ELSE IF IsValidChain(<<block>>)
         THEN [verified    |-> <<block>>,
               quarantined |-> acc.quarantined \o acc.verified]
         ELSE [acc EXCEPT !.quarantined = Append(@, block)]

VerifyStep(acc, block) ==
    IF IsValidChain(Append(acc.verified, block))
    THEN [acc EXCEPT !.verified = Append(@, block)]
    ELSE [acc EXCEPT !.quarantined = Append(@, block)]

\* What the replay has made of the first n blocks, for every n.
Replay(blocks) ==
    LET run[n \in 0..Len(blocks)] ==
            IF n = 0 THEN [verified |-> <<>>, quarantined |-> <<>>]
            ELSE VerifyStep(run[n - 1], blocks[n])
    IN  run

\* verify_player_blocks: each block is tried on top of those kept so far and
\* is quarantined, for good, when the chain would not be valid with it.
VerifyPlayerBlocks(blocks) == Replay(blocks)[Len(blocks)]

-----------------------------------------------------------------------------
(* The chain of a restarted service. *)

\* Where the blocks of the logs are: the log in the listing, the place in it.
Places(listing) == UNION {{i} \X DOMAIN listing[i] : i \in DOMAIN listing}
BlockAt(listing, x) == listing[x[1]][x[2]]

ListedBefore(x, y) ==
    \/ x[1] < y[1]
    \/ x[1] = y[1] /\ x[2] < y[2]

\* Fault for restart_one_player: the newest block comes first.
NewestFirst(listing, x, y) ==
    \/ BlockAt(listing, x).time > BlockAt(listing, y).time
    \/ /\ BlockAt(listing, x).time = BlockAt(listing, y).time
       /\ ListedBefore(x, y)

\* sort_by_key is stable: of blocks of one time, the first listed goes first.
SortsBefore(listing, x, y) ==
    \/ BlockAt(listing, x).time < BlockAt(listing, y).time
    \/ /\ BlockAt(listing, x).time = BlockAt(listing, y).time
       /\ ListedBefore(x, y)

\* The places of which the hash is not yet in the seen set.
Unseen(listing) ==
    {y \in Places(listing) :
        \A x \in Places(listing) :
            SortsBefore(listing, x, y) =>
                BlockAt(listing, x).hash # BlockAt(listing, y).hash}

\* The merged in-memory chain, from the verified logs in listing order.
MergeLogs(listing) ==
    LET kept  == Unseen(listing)
        order == InOrder(kept, {xy \in kept \X kept :
                                   SortsBefore(listing, xy[1], xy[2])})
    IN  [n \in DOMAIN order |-> BlockAt(listing, order[n])]
=============================================================================
