------------------------------ MODULE SledStorage ------------------------------
(***************************************************************************)
(* SledLedgerStorage (rust/src/sled_ledger_storage.rs) for one player, one *)
(* database operation at a time.  Calls do not overlap, the service's      *)
(* write lock sees to that.  Of sled it is assumed that a crash keeps all  *)
(* operations up to some moment at or after the last flush, that clear     *)
(* removes one key after the other, and that generate_id never goes back.  *)
(***************************************************************************)
EXTENDS Naturals, Sequences, FiniteSets, SequencesExt

CONSTANTS
    Claims,
    None,
    MaxBlocks,    \* bound: blocks appended in a behaviour
    MaxUnflushed  \* bound: operations since the last flush before a new call

VARIABLES
    states,      \* the states of the database since the last flush
    nextId,      \* what generate_id returns
    call,        \* the steps left of the call in progress
    block,       \* the block it appends, or None
    remaining,   \* the claims it has not inserted yet
    minted,      \* blocks given to append_block so far
    wanted,      \* the claims it saves, or None
    acked,       \* the blocks whose append answered Ok
    interrupted  \* a call has failed or was cut short by a crash

caller == <<call, block, remaining, wanted>>
vars == <<states, nextId, caller, minted, acked, interrupted>>

Blocks == 1..MaxBlocks

\* rows: the player's tree, as keys with blocks; claims: the tree of claims;
\* height, hash: head_height and head_hash in the tree ledger_meta.
Empty == [rows |-> {}, claims |-> {}, height |-> 0, hash |-> None]

Init ==
    /\ states = <<Empty>>
    /\ nextId = 0
    /\ call = <<>> /\ block = None /\ remaining = {} /\ wanted = None
    /\ minted = 0
    /\ acked = {}
    /\ interrupted = FALSE

db == Last(states)

-----------------------------------------------------------------------------

\* Fault for storage: the head is updated first.
AppendStepsHeadFirst == <<"height", "hash", "insert", "flush">>

\* append_block and, from the second flush's preceding steps on, update_head.
AppendSteps == <<"insert", "flush", "height", "hash", "flush">>

AppendCall ==
    /\ call = <<>>
    /\ minted < MaxBlocks
    /\ Len(states) <= MaxUnflushed
    /\ minted' = minted + 1
    /\ block' = minted + 1
    /\ call' = AppendSteps
    /\ UNCHANGED <<states, nextId, remaining, wanted, acked, interrupted>>

SaveCall ==
    /\ call = <<>>
    /\ Len(states) <= MaxUnflushed
    /\ wanted' \in SUBSET Claims
    /\ remaining' = wanted'
    /\ call' = <<"clear", "fill", "flush">>
    /\ UNCHANGED <<states, nextId, block, minted, acked, interrupted>>

At(step) == call # <<>> /\ Head(call) = step
Operate(new) == states' = Append(states, new)

\* The call's last step is followed by its answer, Ok.
Advance ==
    /\ call' = Tail(call)
    /\ IF Len(call) > 1 THEN UNCHANGED <<block, wanted, acked>>
       ELSE /\ acked' = IF block = None THEN acked ELSE acked \cup {block}
            /\ block' = None /\ wanted' = None

InsertBlock ==
    /\ At("insert")
    /\ Operate([db EXCEPT !.rows =
                  {row \in @ : row[1] # nextId} \cup {<<nextId, block>>}])
    /\ nextId' = nextId + 1
    /\ Advance
    /\ UNCHANGED <<remaining, minted, interrupted>>

SetHeight ==
    /\ At("height")
    /\ Operate([db EXCEPT !.height = @ + 1])
    /\ Advance
    /\ UNCHANGED <<nextId, remaining, minted, interrupted>>

SetHash ==
    /\ At("hash")
    /\ Operate([db EXCEPT !.hash = block])
    /\ Advance
    /\ UNCHANGED <<nextId, remaining, minted, interrupted>>

\* A flush is one of the whole database, not only of its tree.
Flush ==
    /\ At("flush")
    /\ states' = <<db>>
    /\ Advance
    /\ UNCHANGED <<nextId, remaining, minted, interrupted>>

\* One claim is removed.
ClearClaim ==
    /\ At("clear") /\ db.claims # {}
    /\ \E c \in db.claims : Operate([db EXCEPT !.claims = @ \ {c}])
    /\ UNCHANGED <<nextId, caller, minted, acked, interrupted>>

ClaimsCleared ==
    /\ At("clear") /\ db.claims = {}
    /\ Advance
    /\ UNCHANGED <<states, nextId, remaining, minted, interrupted>>

InsertClaim ==
    /\ At("fill")
    /\ \E c \in remaining :
        /\ Operate([db EXCEPT !.claims = @ \cup {c}])
        /\ remaining' = remaining \ {c}
    /\ UNCHANGED <<nextId, call, block, wanted, minted, acked, interrupted>>

ClaimsInserted ==
    /\ At("fill") /\ remaining = {}
    /\ Advance
    /\ UNCHANGED <<states, nextId, remaining, minted, interrupted>>

\* The next operation fails and the call answers an error.
Fail ==
    /\ call # <<>>
    /\ call' = <<>> /\ block' = None /\ remaining' = {} /\ wanted' = None
    /\ interrupted' = TRUE
    /\ UNCHANGED <<states, nextId, minted, acked>>

\* Fault for storage: ids are counted from the start of the process.
IdAfterCrashZero == 0

IdAfterCrash == nextId

Crash ==
    /\ \E n \in DOMAIN states : states' = <<states[n]>>
    /\ nextId' = IdAfterCrash
    /\ call' = <<>> /\ block' = None /\ remaining' = {} /\ wanted' = None
    /\ interrupted' = (interrupted \/ call # <<>>)
    /\ UNCHANGED <<minted, acked>>

Next ==
    \/ AppendCall \/ InsertBlock \/ SetHeight \/ SetHash \/ Flush
    \/ SaveCall \/ ClearClaim \/ ClaimsCleared \/ InsertClaim \/ ClaimsInserted
    \/ Fail \/ Crash

Spec == Init /\ [][Next]_vars

-----------------------------------------------------------------------------

\* The place of a row in the order of the keys.
Rank(rows, row) == Cardinality({other \in rows : other[1] <= row[1]})

\* load_blocks: the tree in the order of its keys.
LoadBlocks(state) ==
    [n \in 1..Cardinality(state.rows) |->
        (CHOOSE row \in state.rows : Rank(state.rows, row) = n)[2]]

Contract == INSTANCE StorageContract WITH
    Atomic <- FALSE, stored <- LoadBlocks(Head(states)), readable <- TRUE,
    saved <- Head(states).claims

\* Whatever crash comes next, every acknowledged block is read, in order.
AckedBlocksAreRead ==
    \A n \in DOMAIN states :
        LET read == LoadBlocks(states[n])
        IN  /\ acked \subseteq ToSet(read)
            /\ \A i, j \in DOMAIN read : i < j => read[i] < read[j]

\* Whatever crash comes next, the head does not count or name a block that is
\* not in the tree; it falls behind only once an append was interrupted, and
\* then for good (sled_ledger_storage.rs:35).
HeadNeverLeads ==
    /\ \A n \in DOMAIN states :
        /\ states[n].height <= Cardinality(states[n].rows)
        /\ states[n].hash # None =>
            \E row \in states[n].rows : row[2] = states[n].hash
    /\ ~interrupted /\ call = <<>> =>
        /\ db.height = Cardinality(db.rows)
        /\ db.rows # {} => db.hash = Last(LoadBlocks(db))
=============================================================================
