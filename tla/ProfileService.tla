---------------------------- MODULE ProfileService ----------------------------
(***************************************************************************)
(* PlayerProfileService (rust/src/player_profile.rs) over the file storage *)
(* FileTopicLedgerStorage (rust/src/ledger_storage.rs), as the handlers of *)
(* rust/src/api.rs drive it: every operation below runs under the write    *)
(* half of the one RwLock around the service, from its first check to its  *)
(* answer.  The service may be killed and restarted at any moment.         *)
(*                                                                         *)
(* An operation writes at most one file and is then one action, except the *)
(* promotion of a claim: it saves the claims, appends the award to the     *)
(* log, and saves the claims again, and a crash may fall between any two.  *)
(***************************************************************************)
EXTENDS Ledger, FiniteSets

CONSTANTS
    Players,       \* player ids, all UUIDs
    Claims,        \* claim ids; an id may be used once by each player
    Achievements,  \* achievement definitions in the registry
    Entitlements,  \* entitlement definitions in the registry
    Dims,          \* vector dimensions a caller may send
    DefaultDim,    \* DEFAULT_DIM
    Bits,          \* positions in a vector
    None,          \* no value
    Faults,        \* what may go wrong, see AllFaults
    MaxBlocks      \* bound: blocks mined in a behaviour

\* What may go wrong outside the program:
\*   open, write, torn, sync   append_block fails, see AppendBlock;
\*   save                      save_achievement_claims fails;
\*   load                      a file cannot be read at start;
\*   clock                     the clock steps back between two blocks.
AllFaults == {"open", "write", "torn", "sync", "save", "load", "clock"}

ASSUME FaultsAssumption == Faults \subseteq AllFaults
ASSUME MaxBlocksAssumption == MaxBlocks \in Nat
ASSUME DimsAssumption == DefaultDim \in Dims
ASSUME NoneAssumption ==
    /\ None \notin Claims
    /\ None \notin [entitlements : Seq(Entitlements), achievements : Seq(Achievements)]

Vectors == [dim : Dims, on : SUBSET Bits]

\* BitVec::new(DEFAULT_DIM).
EmptyVector == [dim |-> DefaultDim, on |-> {}]

\* xor, of two vectors of one dimension.
Xor(v, w) == [v EXCEPT !.on = (@ \ w.on) \cup (w.on \ @)]

\* PlayerRewardState: what the player was given, oldest first.
NoRewards == [entitlements |-> <<>>, achievements |-> <<>>]

\* A transaction.  `via` is the claim whose promotion produced it: the code
\* does not store it, the properties below need it.
ProfileChange(p, vector) ==
    [player |-> p, kind |-> "profile", payload |-> vector, via |-> None]
EntitlementAward(p, e) ==
    [player |-> p, kind |-> "entitlement", payload |-> e, via |-> None]
AchievementAward(p, a, via) ==
    [player |-> p, kind |-> "achievement", payload |-> a, via |-> via]

\* AchievementClaim.  "Absent" stands for a claim that was never submitted,
\* `award` for awarded_transaction_id and awarded_block_hash.
Statuses == {"Absent", "Pending", "Promoted", "Rejected"}
AbsentClaim == [status |-> "Absent", achievement |-> None, award |-> None]
PendingClaim(a) == [status |-> "Pending", achievement |-> a, award |-> None]
NoClaims == [c \in Claims |-> AbsentClaim]

VARIABLES
    \* Memory of the running service.
    profiles,    \* profiles[p]: the vector, or None
    rewards,     \* rewards[p]: the reward state, or None
    claims,      \* claims[p][c]: achievement_claims
    ledger,      \* ledger.chain without its genesis block
    poisoned,    \* a handler panicked while it held the write lock
    promotion,   \* the promotion that holds the write lock
    \* Files.
    logs,        \* logs[p]: the blocks in <p>.log
    listed,      \* the players whose log file exists
    torn,        \* the players whose log has an unreadable line
    claimFiles,  \* claimFiles[p]: <p>.claims.json, NoClaims if there is none
    \* History.
    minted,      \* blocks mined so far; the last one has this hash
    acked,       \* hashes of the blocks whose operation answered Ok
    accepted,    \* <<p, c>>: a submission of c by p was answered Ok
    promoted     \* <<p, c>>: a promotion of p's claim c was answered Ok

memory == <<profiles, rewards, claims, ledger, poisoned, promotion>>
files == <<logs, listed, torn, claimFiles>>
history == <<minted, acked, accepted, promoted>>
vars == <<memory, files, history>>

NoPromotion == [stage |-> "none"]

Init ==
    /\ profiles = [p \in Players |-> None]
    /\ rewards = [p \in Players |-> None]
    /\ claims = [p \in Players |-> NoClaims]
    /\ ledger = <<>>
    /\ poisoned = FALSE
    /\ promotion = NoPromotion
    /\ logs = [p \in Players |-> <<>>]
    /\ listed = {}
    /\ torn = {}
    /\ claimFiles = [p \in Players |-> NoClaims]
    /\ minted = 0
    /\ acked = {}
    /\ accepted = {}
    /\ promoted = {}

-----------------------------------------------------------------------------
(* Storage. *)

AppendOutcomes == {"ok"} \cup (Faults \cap {"open", "write", "torn", "sync"})

\* Fault for chain_two_players: the log file gets its name only at the end.
FileExistsAtEnd(outcome) == outcome = "ok"

\* Whether the log file exists once append_block has run.
FileExistsAfter(outcome) == outcome # "open"

\* append_block.  It answers Ok only when all went well; otherwise the file
\* may not exist ("open"), be left as it was ("write"), end in part of a line
\* ("torn"), or hold the block all the same ("sync").
AppendBlock(p, block, outcome) ==
    /\ listed' = IF FileExistsAfter(outcome) THEN listed \cup {p} ELSE listed
    /\ logs' = IF outcome \in {"ok", "sync"}
               THEN [logs EXCEPT ![p] = Append(@, block)]
               ELSE logs
    /\ torn' = IF outcome = "torn" THEN torn \cup {p} ELSE torn

SaveOutcomes == {"ok"} \cup (Faults \cap {"save"})

\* Fault for restart_one_player: what is saved was read before the change.
PersistClaimsStale(p, outcome) ==
    claimFiles' = IF outcome = "ok"
                  THEN [claimFiles EXCEPT ![p] = claims[p]]
                  ELSE claimFiles

\* persist_claims: the file is replaced by all the claims of p in memory, or,
\* when anything fails before the rename, left alone.
PersistClaims(p, outcome) ==
    claimFiles' = IF outcome = "ok"
                  THEN [claimFiles EXCEPT ![p] = claims'[p]]
                  ELSE claimFiles

\* The order sort_by_key sees: blocks are mined one at a time under the lock,
\* so timestamps grow with them unless the clock steps back.
Timestamps == IF "clock" \in Faults THEN 1..MaxBlocks ELSE {minted + 1}

\* Fault for chain_two_players: the block is taken back out of the chain when
\* the append fails.
AddBlockOrUndo(txn, outcome) ==
    /\ minted < MaxBlocks
    /\ minted' = minted + 1
    /\ \E t \in Timestamps :
        LET block == CreateBlock(ledger, minted + 1, t, txn)
        IN  /\ ledger' = IF outcome = "ok" THEN Append(ledger, block)
                         ELSE ledger
            /\ AppendBlock(txn.player, block, outcome)

\* add_block, then append_block of the latest block.  The block stays in the
\* chain in memory when the append fails.
AddBlock(txn, outcome) ==
    /\ minted < MaxBlocks
    /\ minted' = minted + 1
    /\ \E t \in Timestamps :
        LET block == CreateBlock(ledger, minted + 1, t, txn)
        IN  /\ ledger' = Append(ledger, block)
            /\ AppendBlock(txn.player, block, outcome)

Acknowledge(outcome) ==
    acked' = IF outcome = "ok" THEN acked \cup {minted + 1} ELSE acked

-----------------------------------------------------------------------------
(* Profiles and direct awards. *)

\* Handlers get the write lock one at a time, and none once it is poisoned.
LockFree == promotion = NoPromotion /\ ~poisoned

\* entry(p).or_default().
OrDefault(state) == IF state = None THEN NoRewards ELSE state

\* Whether or not the player already has a profile.
CreateProfile(p) ==
    /\ LockFree
    /\ profiles' = [profiles EXCEPT ![p] = EmptyVector]
    /\ rewards' = [rewards EXCEPT ![p] = OrDefault(@)]
    /\ \E outcome \in AppendOutcomes :
        /\ AddBlock(ProfileChange(p, EmptyVector), outcome)
        /\ Acknowledge(outcome)
    /\ UNCHANGED <<claims, poisoned, promotion, claimFiles, accepted, promoted>>

\* log_change of the profile with its new vector.
ReplaceVector(p, vector) ==
    /\ profiles' = [profiles EXCEPT ![p] = vector]
    /\ \E outcome \in AppendOutcomes :
        /\ AddBlock(ProfileChange(p, vector), outcome)
        /\ Acknowledge(outcome)
    /\ UNCHANGED <<rewards, claims, poisoned, promotion, claimFiles, accepted,
                   promoted>>

SetVector(p) ==
    /\ LockFree
    /\ profiles[p] # None
    /\ \E vector \in Vectors : ReplaceVector(p, vector)

\* merge_vector of a registered concept.  The assertion in xor fails when the
\* dimensions differ, and the panic poisons the lock.
MergeVector(p) ==
    /\ LockFree
    /\ profiles[p] # None
    /\ \E vector \in Vectors :
        IF vector.dim = profiles[p].dim
        THEN ReplaceVector(p, Xor(profiles[p], vector))
        ELSE /\ poisoned' = TRUE
             /\ UNCHANGED <<profiles, rewards, claims, ledger, promotion,
                            files, history>>

WithEntitlement(state, e) == [state EXCEPT !.entitlements = Append(@, e)]
WithAchievement(state, a) == [state EXCEPT !.achievements = Append(@, a)]

\* The state changes of award_entitlement.
GiveEntitlement(p, e, outcome) ==
    /\ rewards' = [rewards EXCEPT ![p] = WithEntitlement(OrDefault(@), e)]
    /\ AddBlock(EntitlementAward(p, e), outcome)

\* The state changes of award_achievement.
GiveAchievement(p, a, via, outcome) ==
    /\ rewards' = [rewards EXCEPT ![p] = WithAchievement(OrDefault(@), a)]
    /\ AddBlock(AchievementAward(p, a, via), outcome)

AwardEntitlement(p) ==
    /\ LockFree
    /\ profiles[p] # None
    /\ \E e \in Entitlements, outcome \in AppendOutcomes :
        /\ GiveEntitlement(p, e, outcome)
        /\ Acknowledge(outcome)
    /\ UNCHANGED <<profiles, claims, poisoned, promotion, claimFiles, accepted,
                   promoted>>

AwardAchievement(p) ==
    /\ LockFree
    /\ profiles[p] # None
    /\ \E a \in Achievements, outcome \in AppendOutcomes :
        /\ GiveAchievement(p, a, None, outcome)
        /\ Acknowledge(outcome)
    /\ UNCHANGED <<profiles, claims, poisoned, promotion, claimFiles, accepted,
                   promoted>>

-----------------------------------------------------------------------------
(* Claims. *)

\* Fault for claim_lifecycle: a promotion whose award is not noted in the
\* claim is taken for one that never got its award.
PromotableUntilNoted(claim) ==
    \/ claim.status = "Pending"
    \/ claim.status = "Promoted" /\ claim.award = None

Promotable(claim) == claim.status = "Pending"

\* Fault for claim_lifecycle: a promoted claim can be rejected.
RejectableAlways(claim) == claim.status # "Absent"

Rejectable(claim) == claim.status \in {"Pending", "Rejected"}

\* Fault for claim_lifecycle: the error of the first save is ignored.
AfterSaveAlways(outcome, p, c) ==
    [stage |-> "award", player |-> p, claim |-> c]

\* The promotion goes on after a save that answered Ok, and only then.
AfterSave(outcome, p, c) ==
    IF outcome = "ok"
    THEN [stage |-> "award", player |-> p, claim |-> c]
    ELSE NoPromotion

\* Fault for claim_lifecycle: the error of the append is ignored.
AfterAwardAlways(outcome, p, c) ==
    [stage |-> "record", player |-> p, claim |-> c, hash |-> minted + 1]

\* The same after the award's append_block.
AfterAward(outcome, p, c) ==
    IF outcome = "ok"
    THEN [stage |-> "record", player |-> p, claim |-> c, hash |-> minted + 1]
    ELSE NoPromotion

\* A claim id the service does not know: stored, then saved.
SubmitNew(p, c) ==
    /\ LockFree
    /\ profiles[p] # None
    /\ claims[p][c].status = "Absent"
    /\ \E a \in Achievements :
        claims' = [claims EXCEPT ![p][c] = PendingClaim(a)]
    /\ \E outcome \in SaveOutcomes :
        /\ PersistClaims(p, outcome)
        /\ accepted' = IF outcome = "ok" THEN accepted \cup {<<p, c>>}
                       ELSE accepted
    /\ UNCHANGED <<profiles, rewards, ledger, poisoned, promotion, logs, listed,
                   torn, minted, acked, promoted>>

\* A claim id the service knows, whatever became of it: Ok, with no save.
SubmitAgain(p, c) ==
    /\ LockFree
    /\ profiles[p] # None
    /\ claims[p][c].status # "Absent"
    /\ accepted' = accepted \cup {<<p, c>>}
    /\ UNCHANGED <<memory, files, minted, acked, promoted>>

\* Promotion, up to the first persist_claims.  When that fails the operation
\* ends with an error, and the claim stays Promoted in memory.
PromoteBegin(p, c) ==
    /\ LockFree
    /\ profiles[p] # None
    /\ Promotable(claims[p][c])
    /\ claims' = [claims EXCEPT ![p][c].status = "Promoted"]
    /\ \E outcome \in SaveOutcomes :
        /\ PersistClaims(p, outcome)
        /\ promotion' = AfterSave(outcome, p, c)
    /\ UNCHANGED <<profiles, rewards, ledger, poisoned, logs, listed, torn,
                   history>>

\* The award, by award_achievement.
PromoteAward ==
    /\ promotion.stage = "award"
    /\ LET p == promotion.player
           c == promotion.claim
       IN  \E outcome \in AppendOutcomes :
            /\ GiveAchievement(p, claims[p][c].achievement, c, outcome)
            /\ promotion' = AfterAward(outcome, p, c)
    /\ UNCHANGED <<profiles, claims, poisoned, claimFiles, acked, accepted,
                   promoted>>

\* The award is noted in the claim, and the claims are saved again.
PromoteRecord ==
    /\ promotion.stage = "record"
    /\ LET p == promotion.player
           c == promotion.claim
       IN  /\ claims' = [claims EXCEPT ![p][c].award = promotion.hash]
           /\ \E outcome \in SaveOutcomes :
                /\ PersistClaims(p, outcome)
                /\ promoted' = IF outcome = "ok" THEN promoted \cup {<<p, c>>}
                               ELSE promoted
                /\ acked' = IF outcome = "ok" THEN acked \cup {promotion.hash}
                            ELSE acked
    /\ promotion' = NoPromotion
    /\ UNCHANGED <<profiles, rewards, ledger, poisoned, logs, listed, torn,
                   minted, accepted>>

\* A claim already Promoted in memory, whoever did it, and whatever became of
\* its award: Ok, with nothing done.
PromoteAgain(p, c) ==
    /\ LockFree
    /\ profiles[p] # None
    /\ claims[p][c].status = "Promoted"
    /\ promoted' = promoted \cup {<<p, c>>}
    /\ UNCHANGED <<memory, files, minted, acked, accepted>>

\* Rejection, of a pending claim or of one already rejected.
Reject(p, c) ==
    /\ LockFree
    /\ profiles[p] # None
    /\ Rejectable(claims[p][c])
    /\ claims' = [claims EXCEPT ![p][c].status = "Rejected"]
    /\ \E outcome \in SaveOutcomes : PersistClaims(p, outcome)
    /\ UNCHANGED <<profiles, rewards, ledger, poisoned, promotion, logs, listed,
                   torn, history>>

-----------------------------------------------------------------------------
(* Restart. *)

\* Fault for chain_two_players: the log is taken as it is.
UnverifiedLog(p) == logs[p]

\* The blocks of p that the replay keeps.
VerifiedLog(p) == VerifyPlayerBlocks(logs[p]).verified

\* The payloads of p's transactions of one kind, oldest first.
Payloads(chain, p, kind) ==
    LET mine == {i \in DOMAIN chain : /\ chain[i].txn.player = p
                                      /\ chain[i].txn.kind = kind}
    IN  At([i \in DOMAIN chain |-> chain[i].txn.payload], mine)

\* Fault for restart_one_player: the first ProfileChange wins.
ReplayFirstProfile(chain, p) ==
    LET vectors == Payloads(chain, p, "profile")
    IN  IF vectors = <<>> THEN None ELSE vectors[1]

\* The last ProfileChange wins.
ReplayProfile(chain, p) ==
    LET vectors == Payloads(chain, p, "profile")
    IN  IF vectors = <<>> THEN None ELSE vectors[Len(vectors)]

\* A player with no award gets no entry.
ReplayRewards(chain, p) ==
    LET state == [entitlements |-> Payloads(chain, p, "entitlement"),
                  achievements |-> Payloads(chain, p, "achievement")]
    IN  IF state = NoRewards THEN None ELSE state

\* PlayerProfileService::new.  Of the players that have a log file, in the
\* order the directory gives, those with a readable log are replayed, and
\* those with a readable claim file get their claims back; the rest is skipped.
RestartWith(order, readableClaims) ==
    /\ profiles' = [p \in Players |->
                      IF p \in ToSet(order)
                      THEN ReplayProfile(VerifiedLog(p), p) ELSE None]
    /\ rewards' = [p \in Players |->
                     IF p \in ToSet(order)
                     THEN ReplayRewards(VerifiedLog(p), p) ELSE None]
    /\ claims' = [p \in Players |->
                    IF p \in readableClaims THEN claimFiles[p] ELSE NoClaims]
    /\ ledger' = MergeLogs([i \in DOMAIN order |-> VerifiedLog(order[i])])
    /\ poisoned' = FALSE
    /\ promotion' = NoPromotion
    /\ UNCHANGED <<files, history>>

\* The files among `candidates` that a start manages to read.
ReadableAmong(candidates) ==
    IF "load" \in Faults THEN SUBSET candidates ELSE {candidates}

\* The process dies, at any moment, and a new one starts.
Restart ==
    \E readableLogs \in ReadableAmong(listed \ torn),
       readableClaims \in ReadableAmong(listed) :
        \E order \in SetToSeqs(readableLogs) : RestartWith(order, readableClaims)

Next ==
    \/ \E p \in Players :
        \/ CreateProfile(p)
        \/ SetVector(p)
        \/ MergeVector(p)
        \/ AwardEntitlement(p)
        \/ AwardAchievement(p)
        \/ \E c \in Claims :
            \/ SubmitNew(p, c)
            \/ SubmitAgain(p, c)
            \/ PromoteBegin(p, c)
            \/ PromoteAgain(p, c)
            \/ Reject(p, c)
    \/ PromoteAward
    \/ PromoteRecord
    \/ Restart

Spec == Init /\ [][Next]_vars

-----------------------------------------------------------------------------
(* Types. *)

Transactions ==
    [player : Players, kind : {"profile"}, payload : Vectors, via : {None}]
        \cup [player : Players, kind : {"entitlement"}, payload : Entitlements,
              via : {None}]
        \cup [player : Players, kind : {"achievement"}, payload : Achievements,
              via : Claims \cup {None}]

Blocks ==
    [hash : 1..MaxBlocks, digest : 1..MaxBlocks, prev : 0..MaxBlocks,
     time : 1..MaxBlocks, txn : Transactions]

Rewards == [entitlements : Seq(Entitlements), achievements : Seq(Achievements)]

ClaimRecords ==
    [status      : Statuses,
     achievement : Achievements \cup {None},
     award       : 1..MaxBlocks \cup {None}]

Promotions ==
    {NoPromotion}
        \cup [stage : {"award"}, player : Players, claim : Claims]
        \cup [stage : {"record"}, player : Players, claim : Claims,
              hash : 1..MaxBlocks]

\* The part of the state that claims and their promotion live in.
ClaimsTypeOK ==
    /\ claims \in [Players -> [Claims -> ClaimRecords]]
    /\ claimFiles \in [Players -> [Claims -> ClaimRecords]]
    /\ promotion \in Promotions
    /\ minted \in 0..MaxBlocks
    /\ acked \subseteq 1..MaxBlocks
    /\ accepted \subseteq Players \X Claims
    /\ promoted \subseteq Players \X Claims

\* The part that blocks live in, and what is replayed from them.
BlocksTypeOK ==
    /\ profiles \in [Players -> Vectors \cup {None}]
    /\ rewards \in [Players -> Rewards \cup {None}]
    /\ ledger \in Seq(Blocks)
    /\ poisoned \in BOOLEAN
    /\ logs \in [Players -> Seq(Blocks)]
    /\ torn \subseteq listed
    /\ listed \subseteq Players

\* Every variable keeps its type; in particular a log with a torn line, or
\* with blocks, is a log file that exists.
TypeOK ==
    /\ ClaimsTypeOK
    /\ BlocksTypeOK
    /\ \A p \in Players : logs[p] # <<>> => p \in listed

-----------------------------------------------------------------------------
(* Claims and awards. *)

\* The positions of the awards in the log of p that came from its claim c.
AwardsOf(p, c) == {i \in DOMAIN logs[p] : logs[p][i].txn.via = c}

\* However operations, failures and restarts interleave, a claim is worth at
\* most one award: review_achievement_claim never logs a second one, not even
\* when the first append answered an error, or the process died before the
\* award was noted in the claim.  It rests on every claim file being read at
\* start, so on "load" not being among the faults.
AtMostOneAward ==
    \A p \in Players, c \in Claims :
        \A i, j \in AwardsOf(p, c) : i = j

\* The claim file is ahead of the log: a logged award is that of a claim the
\* file holds as Promoted, and of the achievement that was claimed, so no
\* restart puts an awarded claim back up for review.
AwardsFollowPromotion ==
    \A p \in Players, c \in Claims :
        \A i \in AwardsOf(p, c) :
            /\ p \in listed
            /\ claimFiles[p][c].status = "Promoted"
            /\ claimFiles[p][c].achievement = logs[p][i].txn.payload

\* awarded_block_hash, in memory and in the file, is the hash of a block in
\* the player's own log, and that block is the award of this very claim.
NotedAwardIsLogged ==
    \A p \in Players, c \in Claims :
        \A noted \in {claims[p][c].award, claimFiles[p][c].award} \ {None} :
            \E i \in AwardsOf(p, c) : logs[p][i].hash = noted

\* A submission that was answered Ok, the first or a repeated one, survives
\* any restart: the claim is in the file, and the file is read.  README.md
\* promises it; it rests on saves not failing ("save") and on the log file
\* being created by the first append ("open").
AcceptedClaimsAreKept ==
    \A pc \in accepted :
        /\ pc[1] \in listed
        /\ claimFiles[pc[1]][pc[2]].status # "Absent"

\* A promotion answered Ok has logged the award.
PromotionOkMeansAwarded ==
    \A pc \in promoted : AwardsOf(pc[1], pc[2]) # {}

-----------------------------------------------------------------------------
(* Memory, the chain in memory, and the logs. *)

\* The chain in memory is valid after every operation and every restart, even
\* though the restarted chain is merged from logs that hold only parts of the
\* chain they were cut from.
LedgerIsValid == IsValidChain(ledger)

\* What limits a restart: each block names the block before it in the one
\* chain of the service, and a log replays from the genesis block, so of all
\* the readable logs only one can have verified blocks.
OneVerifiableLog ==
    \A p, q \in listed \ torn :
        VerifiedLog(p) # <<>> /\ VerifiedLog(q) # <<>> => p = q

\* What the player is shown is what the chain says: profiles and rewards are
\* those its transactions add up to, though they are updated separately, before
\* the block is mined, and rebuilt from the logs rather than from the chain.
MemoryMatchesLedger ==
    \A p \in Players :
        /\ profiles[p] = ReplayProfile(ledger, p)
        /\ OrDefault(rewards[p]) = OrDefault(ReplayRewards(ledger, p))

\* Every block whose operation was answered Ok is one the replay of its
\* player's log would keep.
AckedBlocksAreRestorable ==
    \A h \in acked :
        \E p \in listed \ torn :
            \E i \in DOMAIN VerifiedLog(p) : VerifiedLog(p)[i].hash = h

\* A restart changes nothing that a player or a game can see: neither profiles,
\* rewards and claims, nor the chain that the next block will extend.  (An
\* empty reward state may be gone: GET rewards then answers 404.)
RestartIsInvisible ==
    [][Restart =>
        /\ profiles' = profiles
        /\ ledger' = ledger
        /\ claims' = claims
        /\ \A p \in Players : OrDefault(rewards'[p]) = OrDefault(rewards[p])]_vars
=============================================================================
