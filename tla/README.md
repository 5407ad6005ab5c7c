# Verification of the entitlement and achievement ledger

TLA+ specifications of the player-journey service in `src/rust` (profiles,
entitlements and achievements on a small block chain), the TLC configurations that
check them, and TLAPS proofs about them. Every definition is translated from the
code; `PROJECT.json` ("map") says from which lines.

Paths below without a directory are in `src/rust/src/`.

## 1. The system

| Component | State | Operations |
|---|---|---|
| Block chain, `blockchain.rs` | the one chain of the service, in memory | `create_block`, `add_block`, `is_valid_chain` |
| Player profile service, `player_profile.rs` | profiles, rewards, claims, the chain; all in memory, rebuilt by `new` | `create_profile`, `set_vector`, `merge_vector`, `award_entitlement`, `award_achievement`, `submit_achievement_claim`, `review_achievement_claim`, `new` |
| File ledger storage, `ledger_storage.rs` | `<player>.log`, one block a line; `<player>.claims.json` | `append_block`, `save_achievement_claims`, the loads |
| Sled ledger storage, `sled_ledger_storage.rs` | a tree of blocks and one of claims per player, and the head of each log | the same |
| QCoin mirror, `qcoin_ledger_storage.rs` | file storage, a second chain in memory and its file, a remote node | the same; `append_block` also mirrors |
| Definition registries, `*_registry.rs` | one JSON file each | `load`, `insert`, `save`, `get` |
| Identity, `identity.rs` | the map from login to player id, its file, the sessions | `exchange_identity`, `player_id_from_session` |
| HTTP handlers, `api.rs` | none of their own; the `RwLock` around the service | one per route |
| Vectors, `hd.rs` | none | `xor`, `rotate_left`, `threshold_sum`, `hamming`, `seed` |
| Game SDK, `src/game-sdk-rust` | none | HTTP calls, `verify_receipt_integrity` |
| Executables, `main.rs`, `bin/` | none | start-up; adding a concept to the registry |

How they interact. A handler checks a token (a player session kept by Identity, or a
developer token), may load a registry, takes the read or the write half of the one
lock around the service and calls one operation. The operation changes memory, mines
a block on the one chain and appends it to the log of the player it concerns; claims
go to the player's claim file instead. At start, `new` rebuilds everything in memory
from the files: for each player that has a log it keeps the blocks that link up from
the genesis block, replays them, loads the claims, and merges the kept blocks into
the chain.

What is hard, and what makes each part correct:

* *Block chain.* It is shared, but replayed per player. Right means: the chain in
  memory is always valid, and what was acknowledged is still there after a restart.
* *Service.* Memory is changed before it is known whether the block or the claims
  reached the disk; a promotion takes three writes and any of them may fail or be the
  last before a crash; clients retry. Right means: a claim is worth one award, a
  decision is never revised, an Ok is never taken back, memory says what the chain
  says, and a restart is invisible.
* *Storage.* A failed append may have created the file, written part of a line, or the
  whole line. Right means: what is left is either the old content or the new.
* *Registries.* No lock: requests interleave between load, truncation and write.
  Right means: an acknowledged definition stays.
* *Identity.* The map is overwritten in place and must be saved before a session is
  opened. Right means: a login keeps its player, no two logins share one.
* *QCoin mirror.* It waits for the clock under two locks, and its chain can run apart
  from the logs. Right means: the wait ends, an append ends if its node does not stay
  silent, and the mirror holds every logged block at most once.
* *Handlers.* The review handler reads the claim under one lock and acts under
  another. Right means: what it decided on still holds when it acts.

`PROJECT.json` lists these hazards one by one at their source lines.

## 2. Modules

| Module | What it models |
|---|---|
| `Positions` | the members of a set in an order, and the elements of a sequence at some positions, as operators |
| `Ledger` | `blockchain.rs`, and the replay of a log in `player_profile.rs` (`verify_player_blocks`, the merge in `new`), as operators |
| `BitVec` | `hd.rs`: vectors as a dimension and lanes of bits, as operators |
| `Tokens` | the table of developer tokens in `api.rs`, read from a file or the environment, as operators |
| `Receipt` | the hash in an award's receipt, as the server makes it and as the SDK checks it |
| `MCAlgorithms` | every small input of `Ledger`, `BitVec` and `Tokens`, with reference definitions of what they should give |
| `ProfileService` | the service over file storage, as the handlers drive it, with failures, crashes and restarts; EXTENDS `Ledger` |
| `MCProfileService` | symmetry and view for the runs of `ProfileService` |
| `ClaimLifecycle` | abstract: what the service promises about claims, in terms of the disk |
| `ClaimRefinement` | the refinement mapping from `ProfileService` to `ClaimLifecycle` |
| `MCClaimRefinement` | the view for the run of `ClaimRefinement` |
| `Api` | the handlers of `api.rs` as concurrent requests around the one lock, and their SDK callers; EXTENDS `Tokens`, `Receipt` |
| `MCApi` | the calls that are combined for the runs of `Api` |
| `StorageContract` | abstract: what the trait `LedgerStorage` promises for one player |
| `FileStorage`, `SledStorage` | the two storages, one system call or database operation at a time |
| `LedgerBackend` | the storage `main` chooses; both implement `StorageContract` |
| `QCoinMirror` | what the `qcoin` backend adds: wait for the clock, propose, save, submit |
| `Registry`, `MCRegistry` | concurrent requests that add definitions to one registry file |
| `Identity`, `MCIdentity` | exchange, sessions and the file of the identity map |
| `LedgerProofs` | lemmas about `Ledger` and `Positions`: what a replay keeps, what a filter and a merge return |
| `AlgorithmProofs` | the properties of `MCAlgorithms` |
| `ProfileServiceProofs` | everything about the service: types, awards, the refinement and accepted claims, the chain, restarts |
| `IdentityProofs` | types and invariants of `Identity` |
| `RegistryProofs` | types and invariants of `Registry` |
| `ApiProofs` | the five invariants of `Api` |
| `StorageProofs` | the invariants of both storages, and that each implements `StorageContract` |
| `QCoinMirrorProofs` | the two invariants of `QCoinMirror` |

Definitions marked "Fault for <run>" are altered forms of the operator that follows
them, the way a plausible mistake in the code would alter it; no action uses them.
They show that the properties can tell the difference.

### Ledger

A block is a record `[hash, digest, prev, time, txn]`; `digest` is what hashing its
contents gives, so a block nobody altered has `hash = digest`. SHA-256 is injective
and transaction ids are random, so hashes are just distinct numbers; the search for a
nonce always ends. The genesis block is the same everywhere and is never verified by
the code, so a chain is the sequence after it.

`Replay` is the push, test and pop loop of `verify_player_blocks` as a function of the
number of blocks read, and `VerifyPlayerBlocks` its last value. `MergeLogs` says of the
stable sort by timestamp and the `seen` set of `new` what they leave: of the places in
the logs those that no place with the same hash sorts before (`Unseen`), in sort order.
Filters are `At` of `Positions`: the elements at the positions that pass, in order. So
no operator here is RECURSIVE, and all can be reasoned about.

### ProfileService

| Variable | In the code |
|---|---|
| `profiles`, `rewards`, `claims`, `ledger` | the fields of `PlayerProfileService` |
| `poisoned` | the `RwLock` was poisoned by a panic |
| `promotion` | how far the promotion holding the write lock has come |
| `logs`, `listed`, `torn` | the blocks in the logs, which logs exist, which have an unreadable line |
| `claimFiles` | the claim files |
| `minted`, `acked`, `accepted`, `promoted` | history: blocks mined, and what was answered Ok |

One action is one operation, from its first check to its answer, because it runs under
the write lock and writes at most one file; a crash before the write is the same as a
crash before the operation. The exception is `review_achievement_claim` with Promote,
which writes three times: `PromoteBegin`, `PromoteAward`, `PromoteRecord`, between
which only `Restart` can come. An operation that changes memory and then fails leaves
memory changed, as the code does.

What may go wrong outside the program is a parameter, `Faults`:

| Fault | What happens |
|---|---|
| `open` | `append_block` cannot open or create the log |
| `write` | the log exists but nothing was written |
| `torn` | part of a line was written: the log is unreadable from then on, as a later line is appended to it |
| `sync` | the line is there but an error is answered: `sync_data` failed; also what an error of the sled head or of the QCoin mirror looks like to the service |
| `save` | `save_achievement_claims` fails before its rename |
| `load` | a log or claim file cannot be read at start, and is skipped |
| `clock` | the clock steps back between blocks |

A crash during an append is the outcome `torn`, `write` or `sync` followed by
`Restart`; a crash during a save is `save` followed by `Restart`.

### ClaimLifecycle and its refinement

`ClaimLifecycle` knows the status of each claim and the awards, on disk. A save moves
claims of one player forward (`Moves`; several changes may reach the disk at once,
because a failed save is made up for by the next one), and an award needs a promoted
claim without one. `ClaimRefinement` maps the status to the claim files and the awards
to the logs.

### Api

A handler is a sequence of stages (`Handlers`), and `Step(r)` runs the stage that the
request `r` is at. Between two stages any other request may run, so what a handler
read before it took, or after it gave back, the lock may have changed: the snapshot of
a review, a definition it found, the copy of a registry it loaded.

| Variable | In the code |
|---|---|
| `table` | `DEVELOPER_TOKENS` |
| `at`, `snapshot`, `copy`, `receipt` | where a handler is, and its local variables |
| `readers`, `writer`, `poisoned` | the `RwLock` in `AppState` |
| `vectors`, `claims`, `chain` | the service's memory; rewards are the chain's awards |
| `registry` | the three registry files |
| `job`, `attempts`, `answer`, `told` | the SDK's call, how often it was made, the answer on its way, what the SDK made of it |
| `decided`, `spoilt` | history: reviews answered Ok; promotions that failed half way |

An operation of the service runs under the write lock and is cut only where it can
fail. The files behind the service are `ProfileService`'s; here an append or a save
just succeeds or fails (`Faults`), as may the opening of a registry, and an answer may
be `lost`. `TakeRead` and `TakeWrite` answer an error when the lock is poisoned.
Concurrent saves of one registry are modelled in full in `Registry`; here a save is
truncate and write. `Tokens` has `FileTables`, `EnvTable` and `AuthorizedToken` for
`parse_developer_tokens_file`, `parse_developer_tokens_env` and `authorized_token`.

### Storage

`StorageContract` says what a restart would read: a log grows at its end, a block that
was acknowledged is in it, it becomes unreadable only after a call that failed or was
cut short, and claims are replaced as a whole (`Atomic`).

`FileStorage` has the bytes of a log as finished `lines` and the `rest` behind the
last line break, each a sequence of pieces of JSON: a line is written in two pieces and
a line break, and a crash or an error may come between any two steps. Appends of
several threads overlap, as they do in the test of that file, and the file lock
(`holder`) keeps them apart. `saves` is `write_json_atomic`: open (truncates), write,
sync, rename.

`SledStorage` has the `states` of the database since the last flush; a crash goes back
to one of them. Ids come from `generate_id`, which never goes back. The head
(`height`, `hash`) is written after the block is flushed.

`LedgerBackend` chooses one at the start. The property `StorageFollowsContract` is the
refinement: each implements the contract under its own mapping, sled with
`Atomic <- FALSE`.

### QCoinMirror

`append_block` of `qcoin_ledger_storage.rs`, step by step: the log, the wait, propose,
validate and apply, the truncation and the writing of the state file, the submission.
`pc` is the next step. The crates behind it are not in the repository and are modelled
from their use: a block takes the clock's time and is valid if that is later than the
last one's. `MirrorFails` is an error before the chain is changed. `Tick` and `StepBack`
are the system's clock.

### BitVec

A lane is a word of `LaneBits` bits (64 in the code, 2 in the run), so that dimensions
of one, two and three lanes, full and not, are all small. A vector from a caller is any
dimension with any lanes, since nothing ties the two together when it is parsed.

### Registry

A request is between load and open (`open`), between truncation and write (`write`)
or idle. The text of a registry has a length, because two overlapping saves write over
each other from the start of the file: the shorter text leaves the tail of the longer
one, and the file no longer parses, which `load` takes for an empty registry.
`overwrites` tells the two kinds apart: achievements and entitlements are replaced, a
concept is kept and answered. The concept tool is one more such request, except that
it reports a failed save; it is then not counted as answered. A write is taken to
happen in one piece or not at all.

### Identity

`Exchange` is the whole of `exchange_identity`, under the write lock of the map.
`TokenMap` is the token configuration. A login is a provider *as the caller spelled
it* and a subject, since the map is keyed by the unnormalised name although
`is_supported_provider` ignores case. A save that fails after the truncation
(`write`) stands for a crash in the middle too.

## 3. What is checked

All runs: `tlc -config <cfg> <module>`. No run limits the state space by a constraint;
the bounds are constants.

| Run (cfg) | Bounds | Shows |
|---|---|---|
| `algorithms` | all logs of up to 3 blocks, 3 hashes, altered and repeated blocks included; words of 2 bits, dimensions to 5; 2 token entries | replay keeps one chain, exactly the one the reference keeps, and never less when blocks are appended; merging, rotating and bundling do to each position what they should; a token means the same wherever it is configured |
| `claim_lifecycle` | 1 player, 2 claims, 3 blocks; write, torn, sync, save | one award per claim; the file is ahead of the log; a noted award is logged; `ClaimLifecycle` is implemented |
| `chain_two_players` | 2 players, 1 claim, 4 blocks; open, torn, sync | the chain stays valid; memory says what the chain says; only one log can replay |
| `restart_one_player` | 1 player, 2 claims, 2 dimensions, 3 blocks; sync | what was answered Ok survives; a restart is invisible |
| `registry_requests` | 3 requests, 2 keys, texts of different lengths; open, write, crashes | a definition is lost only if requests overlap or a save is cut short; one vector per concept |
| `api_requests` | 3 requests: a submission, any of 20 calls made up to twice, a review or a bad merge; append, save, registry, lost | reviews agree and are atomic to others; what a review read still holds when it acts; a receipt is of one's own award; nobody changes what he has no right to; every request is answered if storage calls return |
| `storage` | 2 threads, 2 claims, 3 blocks, 2 unflushed operations; failure or crash at every step | both storages implement the contract; no acknowledged block is missing; sled's head never leads |
| `qcoin_mirror` | 3 blocks, 2 steps back of the clock; any step may fail, restarts, a node that refuses, loses its answer or is silent | the mirror holds logged blocks once, in order; what was answered is saved; the wait ends, and so does the append unless a node is silent for ever |
| `identity_restarts` | 3 spellings, 2 subjects, 4 ids, 3 sessions; open | a login keeps its player; players are distinct; session players are saved |

Why the bounds are enough. Two claims of one player are saved in one file, so a save
for one can carry a change of the other that failed to be saved; a third adds no new
way. Three blocks make a chain with an inner link, four let two players alternate
twice. Profiles, awards and claims of different players meet only in the chain, which
is what the two-player run is for. Three requests are one more than the overlap of two
saves needs, so that a third can read what they leave. One achievement is enough: the
award's definition is the claim's. Achievements are looked up when a promotion
begins and must match the claim, which the model takes as given; a definition that has
been lost is an error that changes nothing.

Three requests in `api_requests` are one claim and two calls that race for it or for
the lock; the one in the middle may be repeated, which is what a lost answer leads to.
A third reviewer could only find what the second one left. The process does not restart
in `Api`, so `DecisionsAgree` and the others are about one run of it; what restarts do to
claims is `claim_lifecycle`. In `storage` two threads are what the lock has to keep
apart, and a third block follows one that was torn. In `qcoin_mirror` the third block
follows a restart that followed a gap. Vectors of up to three lanes with one to spare, or
one too few, are every way `zip` can end.

`SYMMETRY` permutes players and claims (or requests), which no definition compares with
a particular value; only safety is checked under it. `VIEW WithoutAnswers` drops
`acked`, `accepted` and `promoted`, which no action reads, in runs whose properties
do not depend on them (`TypeOK` mentions them; it is proved, see 4).

Deadlock is checked in all runs that do not say otherwise; in `api_requests` a handler
that kept its guard would show as one, because `Over` is the only way to stop and it
needs every call to be over. `algorithms` has nothing left to do once an input is
complete, and turns the check off.

Fairness. `EveryRequestIsAnswered` (`api_requests`) assumes weak fairness of each
request's `Step`: a worker thread that can take its next stage takes it. Callers owe
nothing: a call may never be made or repeated, an answer never be read. Weak fairness
is enough because a call is made finitely often (`MaxAttempts`), so the lock is not
taken for ever by others; with requests that never cease it would need a lock that is
fair, which `std::sync::RwLock` does not promise. `AppendAnswers` (`qcoin_mirror`) assumes weak
fairness of the thread that appends and of `Tick`: the clock does not stop. It may
step back, but only `MaxBacks` times; each time prolongs the wait, during which the
write lock of the service is held. `Submit` is not fair, because the code does not make
a submission end: `ureq::post` (`qcoin_ledger_storage.rs:179`) limits the time to
connect, not the time to an answer. That the node answers, refuses or closes the
connection is the condition `NodeIsNeverSilent` of the property, and without a node it
holds by itself. `EveryRequestIsAnswered` likewise takes every storage call to return,
in the fairness of `Step`: with files and sled it does; with the `qcoin` backend only
under the same condition on the node.

### What the code does not keep

Each of these runs checks one property the documentation promises and ends in a
violation; PROJECT.json quotes the sources.

| Run | The shortest way there |
|---|---|
| `acked_lost_two_players` | two players create their profiles; the second one's block names the first one's, which is not in the second log; a restart quarantines it. No failure is needed |
| `promoted_without_award` | the process dies between the save of Promoted and the award; the retry is answered Ok and makes no award |
| `receipts_verify` | any award: the server hashes the details, the SDK hashes the details wrapped in their kind, so no receipt verifies |

Others were seen with the same models and have no run of their own:

* `AckedBlocksAreRestorable` with `open` or `write` (an append fails; its block stays
  in the chain in memory; the next block, logged and answered Ok, names it), with
  `torn` (a torn line makes the whole log unreadable) and with `clock` (the merged
  chain is ordered by time, so the block that comes to extend it is not the newest).
* `LedgerIsValid` and `MemoryMatchesLedger` with `clock`: a restart merges the blocks of
  one log in another order than they were mined in.
* `OneVerifiableLog` and `LedgerIsValid` with `load`: a log that is skipped at start
  leaves an empty chain, another log begins from the genesis block, and the next restart
  merges two chains.
* `AcceptedClaimsAreKept` with `save`: the save of a submission fails, and the retry is
  answered Ok from memory, without a save. With `open`: `new` looks for claims only of
  players that have a log, and a profile may exist in memory without one.
* `AtMostOneAward` with `load`: a claim file that cannot be read at start counts as
  empty, and the claim id is new again.
* Merging a concept of another dimension: the assertion in `xor` fails under the write
  lock, and every later request is refused until a restart. `MergeVector` in `Api` and
  `ProfileService` has it.
* A direct award whose answer was lost is made twice when the caller repeats it: the
  request carries no id. (A promotion is not: `PromotionsAreWhole`.)
* `RestartIsInvisible` with `write`: an operation whose append fails has changed memory
  all the same, and a restart takes the change back; a direct award is seen until then,
  and a second time if the caller, who was told of the error, repeats it.
* `AppendAnswers` without `NodeIsNeverSilent`: a node that accepts the connection and
  then stays silent holds the append for ever, and with it the mirror's lock and the
  service's write lock, so that every later request waits too.
* `StorageFollowsContract` with `Atomic <- TRUE` for sled: an interrupted save of
  claims loses some or all of them. For files it holds.
* A line that lacks only its line break reads well, until the next line is appended to
  it; then the log is unreadable.
* In `QCoinMirror`, a block that is logged when the process dies, or whose mirroring
  fails, is never mirrored; a torn state file empties the mirror.
* An entry with nothing but blank scopes has every scope in the environment variable
  and none in a file; a token shared by two developers acts for one of them, and in a
  map for which one is not determined (`TokensMeanTheSame` excludes both).
* A vector with fewer lanes than its dimension silently drops the rest of a concept
  merged into it (`MergesFlipBits`).
* `LoginKeepsItsPlayer` in `Identity` with `write`: a crash while the map is being
  written empties it, and every login gets a new player.
* `Registry` without the conditions "no overlap, no failed save": an acknowledged
  definition, or all of them, may be gone.
* Two spellings of one provider are two logins, when no tokens are configured.

So `AckedBlocksAreRestorable` in `restart_one_player` holds only because there is one
player and no append fails without logging its block; that is the condition, and the
run shows it is sufficient. `OneVerifiableLog` states the limit for several players.

## 4. What is proved

Every invariant and every action property of the passing runs is proved, and both
refinements; only the two liveness properties are not. The theorems hold for every value
of the constants, with no bound on players, claims, blocks, ids, sessions, requests,
repeated calls or texts (the bounds are arbitrary naturals), nor on restarts or steps of
the clock; for logs and token lists of any length, and words of any size. Checked by
`tlapm`; about 11000 obligations.

| Theorem | Statement | Assumes |
|---|---|---|
| `ClaimsTypes` | `Spec => []ClaimsTypeOK` | |
| `OneAward` | `Spec => []AtMostOneAward` | no `load` |
| `AwardsAreBacked` | `Spec => []AwardsFollowPromotion` | no `load` |
| `NotedAwards` | `Spec => []NotedAwardIsLogged` | |
| `ClaimsRefineLifecycle` | `Spec => ClaimsFollowLifecycle` | no `load`, no `open` |
| `AcceptedClaimsSurvive` | `Spec => []AcceptedClaimsAreKept` | no `load`, `open`, `save` |
| `ServiceTypes` | `Spec => []TypeOK` of `ProfileService` | |
| `OneLogReplays` | `Spec => []OneVerifiableLog` | no `load` |
| `ChainStaysValid`, `MemoryFollowsChain` | `[]LedgerIsValid`, `[]MemoryMatchesLedger` | no `load`, `clock` |
| `AckedBlocksSurvive` | `[]AckedBlocksAreRestorable` | one player; at most `sync`, `save` |
| `RestartsAreInvisible` | `Spec => RestartIsInvisible` | one player; at most `sync` |
| `KeptBlocksAreNeverLost`, `KeptBlocksAreAChain`, `ReplayIsGreedy` | `KeptBlocksStay`, `[]KeptBlocksFormAChain`, `[]KeptBlocksAreTheGreedyChain` | |
| `MergesFlip`, `PositionsMove`, `TokensAgree` | `[]MergesFlipBits`, `[]PositionsMoveTogether`, `[]TokensMeanTheSame` | |
| `IdentityTypes`, `NoSharedPlayers` | `Spec => []TypeOK`, `[]PlayersAreDistinct` | |
| `LoginsKeepTheirPlayers`, `SessionsOutliveRestarts` | `[]LoginKeepsItsPlayer`, `[]SessionPlayersAreSaved` | no `write` |
| `RegistryTypes`, `LossesHaveCauses`, `ConceptsKeepTheirVectors` | `[]TypeOK`, `[]LossHasACause`, `[]ConceptAnswersAgree` | |
| `HandlersKeepTheirPlace` | `Spec => []ApiInv`, from which the next five follow | |
| `DecisionsNeverDisagree`, `SnapshotsHold`, `NoReceiptIsAnothers`, `NothingUnauthorizedIsMined`, `PromotionsAreSeenWhole` | the invariants of `Api` | |
| `StorageKeepsOrder` | `Spec => []StorageInv`, from which the next three follow | |
| `NoAckedBlockIsLost`, `TheHeadNeverLeads` | `[]AckedBlocksAreRead`, `[]HeadNeverLeads` | |
| `EitherStorageKeepsTheContract` | `Spec => StorageFollowsContract` | |
| `MirrorIsFaithful`, `AnchorsAreSaved` | the two invariants of `QCoinMirror` | |

The last column names what is left out: the faults with which section 3 finds the
property false (`MemoryMatchesLedger` only with `clock`; it is proved from the same
invariant as `LedgerIsValid` and shares its assumptions). That two
players are too many for `AckedBlocksAreRestorable` is the run
`acked_lost_two_players`. For the rest the proofs rest on the named ASSUMEs of the
modules: that bounds are naturals, that `None` and `Torn` are not ordinary values, that a
registry's text has a length, that a word has bits, and that calls name an endpoint, a
player and a claim (`WorkloadsAssumption`).

### One award

`AtMostOneAward` is not inductive: nothing in it stops a
promotion of a claim that has its award. A promotion begins only on a claim that is
Pending *in memory*, so awarded claims must be Promoted in memory; a restart loads
memory from the file, so they must be Promoted in the file; and the file must be one
that is read, so the player must have a log. That is `AllBacked`. A crash or failure
between the save and the award leaves a Promoted claim without an award, which is
harmless here; while a promotion is under way, `AwardIsDue` says that its claim is
saved and has no award yet. `LogShape` is what appending needs to know of the logs.
The lemma `AddBlockAwards` says once what mining a block does to the awards; each
operation then has a short lemma.

### The refinement of ClaimLifecycle, and accepted claims

The refinement adds that memory is at, or one allowed move ahead of, the file
(`MemoryFollowsFile`), that whoever can act has a log (`ActiveIsListed`), and that a
claim file nobody will look for is empty (`UnlistedIsUnclaimed`): without the last two
a restart would forget claims and the next save would revise the file. Every operation
is then a `Save`, an `Award`, or a stutter.

A repeated submission is answered Ok from memory, without a save. So what was accepted
is kept only if memory has nothing that the file has not, which is the invariant while
no save fails (`MemoryIsSaved`); and it is read only if its player has a log
(`ActiveIsListed` again).

### Replay

An induction theorem would take an operator as its parameter, which the provers cannot
instantiate, so `LedgerProofs` does with sets: a set of numbers that holds 0 and with
`i - 1` also `i` holds all (`UpTo`, from the well-foundedness of the naturals), and so a
recursive function exists (`RecursionExists`). `Replay` is such a function; its equation
gives what a block more does to a replay (`VerifyAppend`): it is kept exactly when it is
unaltered and names the last kept block. `KeptBlocksStay`, `KeptBlocksFormAChain`
(blocks are counted on both sides, `Splits`) and `KeptBlocksAreTheGreedyChain` (the kept
positions grow by the new one or not at all, `GreedyInv`) follow by induction over the
steps that append.

### The chain in memory

Four things are shown one after the other.

*Types.* A restart makes all of memory from the logs, so `TypeOK` needs the types of what
replay, merge and filter return (`VerifyType`, `MergeIs`, `AtIs`), and that every claim
names a known achievement (`TypeInv`).

*One log replays.* A block names the tip of the one chain, and a log keeps a first block
only if it names the genesis block, hence only if the chain was empty
(`FirstVerified`). So no second log ever starts to replay, if an empty chain means that
no readable log has a verified block (`EmptyChainIsEverywhere`); a restart keeps that,
because the merged chain is empty only if every verified log is (`MergeEmpty`). Without
`load`, that is: a log skipped at start leaves an empty chain behind that another log
may begin from.

*The chain is valid and memory follows it.* At most one log replays, so a restart merges
one log with empty ones. That gives back the log itself if its blocks are in the order
of time and no hash is there twice (`MergeOne`), which `LogsInOrder` keeps as long as
the clock does not step back; and a replayed log is valid. Memory is rebuilt from that
log, player by player; a chain without blocks of a player says nothing of the player
(`PayloadsOfOthers`), and a block more adds its payload to one player's state
(`ReplayAppend`). So after each operation and each restart memory is what replaying the
chain gives (`ChainInv`).

*One player.* When no append stops half way, the one log, what replays of it and the
chain in memory are the same sequence, in which block `i` has hash `i` (`WholeInv`).
What was answered was mined (`AckInv`), so it is in there; and a restart rebuilds memory
from what it was built from. Claims come from `AcceptedClaimsAreKept`'s invariant: memory
has nothing that the file has not, which is why `RestartIsInvisible` leaves out `save`.

### Vectors and tokens

A position is a lane and a bit, and the other way round (`IndexSplits`, `IndexJoins`).
Setting bits one after the other, in whatever order, gives the vector that has them
(`WithBitsIs`): the fold of the library and the closed form agree on the empty set, and on
each set if they do without one of its members (`FoldsAgree`, by the least number of
members on which they would differ). The same lemma turns the sum over lanes of
`hamming_distance` into the number of positions (`DistanceIs`). Rotation is arithmetic
modulo the dimension (`RotationInverts`). For tokens: a filter keeps the elements that
pass and no other (`AtRange`); blanks may go before or after `normalize_scopes` looks
unless nothing else is there (`BlanksMayGo`); a map read in any order has each developer
once, and with distinct tokens the first entry of a token is the only one (`MapRights`).

### Identity

An id, once given to a login, is held by no other login in memory, in the file or in an
answer (`OneLoginPerId`), and new ids are larger than all that were ever generated. A
save that empties the file takes nothing back from an answer, so this needs no
assumption. That a login *keeps* its id does: answers and sessions agree with the file,
and the file with memory (`IdInv`).

### Registry

While a request is between truncation and write the file says nothing, so "what was
answered is in the file" is not inductive. While nothing disturbed the registry, only
one request is under way (`OneAtATime`), its copy is what the file has and its
definition (`FileIsCopied`), and once it has truncated the file its copy has everything
that was answered (`AnswersAreCarried`). `TypeOK` carries the rest: one definition per
key in the file, in every copy and in the answers.

### Handlers

Handlers are lists of stages, so what a handler may rely on is said by the stages it
has `Passed`. `StagesAreOrdered` reads off the lists, once, what has been passed
before each stage (a change comes after the lock and after its checks, an award after
the decision, and so on); `EveryStepMoves` and `StepPasses` say that a step passes one
stage more or ends the attempt. The invariant then has five parts: types; whoever
passed `write` is the writer (hence is alone); what was checked of tokens, sessions and
snapshots holds still, the last because a claim's developer and name are never changed
(`HowClaimsChange`); what reviews decided and answered agrees with the claims; and the
awards of a promotion in progress are as many as its stage says, which is what makes
`PromotionsAreWhole` true when the lock is free.

### Storages

For files: the pieces a writer has written of its line are at the end of the log
(`LineIsBegun`), only the holder of the lock writes, what any caller has written is older
than what it is about to write, lines are in order, and a block ends a line before it is
acknowledged. An interruption leaves a `rest` that the next line continues; its torn
piece makes the log unreadable, and unreadable is what the contract then allows.

For sled: a crash goes back to one of `states`, and each of these continues the one
before it (`TreesAreInOrder`), with keys in the order of the blocks. `LoadBlocks` gives
the blocks by the rank of their keys; the lemmas on finite sets of rows say that a row
with the largest key goes to the end, and that is a step of the contract. What an
append or a save has done is told by the steps it has left (`AppendIsOrdered`,
`SaveClears`), and the head is due at each of them while nothing was interrupted
(`HeadIsKept`).

The refinement takes each step of a call, each failure and each crash in turn. For
blocks it is the contract's `Grow`, `Acknowledge` or `Damage` or shows nothing, for
claims its `Ask`, `Replace`, `Confirm`, `Abandon` or `Tear` or nothing.

### The mirror

`MirrorFollowsLog` needs that the chain has nothing as new as the block in
progress, which must be logged before it is proposed (`ProgressInv`), and that blocks
in a saved chain are no newer than the last one minted (`Sound`), since a restart goes
back to it. `AnchoredBlocksAreSaved` needs that the chain in memory has what was
answered for while the file is torn (`SavedInv`), because the next save is made of it.

### Only model-checked

`EveryRequestIsAnswered` and `AppendAnswers` (the latter under a condition on the node)
are liveness under fairness, which needs ENABLED and is out of the prover's reach. The three violations of section 3 are
counterexamples and speak for themselves.

## 5. What is not modelled

* Player ids that are not UUIDs: they have no log. Ids come from `exchange_identity`,
  which only makes UUIDs.
* After a restart a player without awards has no reward entry where there was an empty
  one, so `GET rewards` answers 404 instead of an empty state; the properties treat the
  two alike.
* Texts, names, versions, quantities and expiry dates; the contents of transactions
  beyond kind, player and payload. `via`, the claim an award came from, is not in the
  code's transactions; only properties read it. Keys of definitions are pairs; the code
  joins their parts with `:`, so that names with a colon may collide.
* Loss of power: what `sync_data` or a flush had not secured is then gone in any order,
  and the rename is not followed by a sync of its directory. A crash is that of the
  process; for sled, whose own log is asynchronous, it is a cut at some operation.
* Two saves of one claim file at a time: the service's write lock excludes them, and
  the one temporary file would not bear them.
* The generator behind `seed`, bodies that do not parse, paths and ports.
* The start of the process (`main.rs`) beyond its choice of a storage, and the tools in
  `bin/` beyond the one that adds a concept, which is a request of `Registry`.

## 6. State of the plan

The modules of the plan are written, every invariant and action property that holds is
proved, and both abstract specifications are shown to be implemented. What could still
be added is a model of what a loss of power leaves of a file, and with it a weaker
`StorageContract`.
