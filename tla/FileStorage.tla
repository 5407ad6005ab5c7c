------------------------------ MODULE FileStorage ------------------------------
(***************************************************************************)
(* FileTopicLedgerStorage (rust/src/ledger_storage.rs) for one player, one *)
(* system call at a time.  Appends may overlap, as they do in the tests    *)
(* there: the log is locked while a line is written.  A save overlaps no   *)
(* other call, the service's write lock sees to that.  A call may fail,    *)
(* and the process may die, between any two steps; what was written then   *)
(* stays written.                                                          *)
(***************************************************************************)
EXTENDS Naturals, Sequences, FiniteSets, SequencesExt

CONSTANTS
    Callers,   \* threads that append
    Claims,
    Torn,      \* the first part of a block's JSON, no block
    None,
    MaxBlocks  \* bound: blocks appended in a behaviour

VARIABLES
    lines,       \* <player>.log: its lines, each a sequence of pieces of JSON
    rest,        \* what follows the last line break
    holder,      \* who holds the lock of the log, or None
    stage,       \* stage[a]: the next step of a's append_block, or "idle"
    minted,      \* blocks given to append_block so far
    block,       \* block[a]: the block a appends, or None
    claimFile,   \* <player>.claims.json; no file reads like no claims
    tmp,         \* <player>.claims.json.tmp: None, Torn, or the claims in it
    save,        \* the steps left of save_achievement_claims
    wanted,      \* the claims it saves, or None
    acked,       \* the blocks whose append answered Ok
    interrupted  \* a call has failed or was cut short by a crash

log == <<lines, rest>>
appends == <<log, holder, stage, minted, block, acked>>
saves == <<claimFile, tmp, save, wanted>>
vars == <<appends, saves, interrupted>>

Blocks == Callers \X (1..MaxBlocks)

Init ==
    /\ lines = <<>> /\ rest = <<>>
    /\ holder = None
    /\ stage = [a \in Callers |-> "idle"]
    /\ minted = 0
    /\ block = [a \in Callers |-> None]
    /\ claimFile = {} /\ tmp = None /\ save = <<>> /\ wanted = None
    /\ acked = {}
    /\ interrupted = FALSE

-----------------------------------------------------------------------------
(* append_block. *)

Goto(a, s) == stage' = [stage EXCEPT ![a] = s]

OpenLog(a) ==
    /\ stage[a] = "idle" /\ save = <<>>
    /\ minted < MaxBlocks
    /\ minted' = minted + 1
    /\ block' = [block EXCEPT ![a] = <<a, minted + 1>>]
    /\ Goto(a, "lock")
    /\ UNCHANGED <<log, holder, acked, saves, interrupted>>

\* Fault for storage: the log is not locked.
LockableAlways == TRUE

Lockable == holder = None

LockLog(a) ==
    /\ stage[a] = "lock"
    /\ Lockable
    /\ holder' = a
    /\ Goto(a, "write")
    /\ UNCHANGED <<log, minted, block, acked, saves, interrupted>>

\* Only part of the JSON has been written.
WritePart(a) ==
    /\ stage[a] = "write"
    /\ rest' = Append(rest, Torn)
    /\ Goto(a, "write on")
    /\ UNCHANGED <<lines, holder, minted, block, acked, saves, interrupted>>

WriteJson(a) ==
    /\ stage[a] = "write on"
    /\ rest' = [rest EXCEPT ![Len(rest)] = block[a]]
    /\ Goto(a, "newline")
    /\ UNCHANGED <<lines, holder, minted, block, acked, saves, interrupted>>

WriteNewline(a) ==
    /\ stage[a] = "newline"
    /\ lines' = Append(lines, rest)
    /\ rest' = <<>>
    /\ Goto(a, "sync")
    /\ UNCHANGED <<holder, minted, block, acked, saves, interrupted>>

\* sync_data, unlock, Ok.
SyncLog(a) ==
    /\ stage[a] = "sync"
    /\ holder' = None
    /\ acked' = acked \cup {block[a]}
    /\ block' = [block EXCEPT ![a] = None]
    /\ Goto(a, "idle")
    /\ UNCHANGED <<log, minted, saves, interrupted>>

\* The next step of a fails.  The file is closed, which gives the lock back.
FailAppend(a) ==
    /\ stage[a] # "idle"
    /\ holder' = IF holder = a THEN None ELSE holder
    /\ block' = [block EXCEPT ![a] = None]
    /\ Goto(a, "idle")
    /\ interrupted' = TRUE
    /\ UNCHANGED <<log, minted, acked, saves>>

-----------------------------------------------------------------------------
(* save_achievement_claims, by write_json_atomic. *)

\* Fault for storage: the temporary file is renamed before it is written.
SaveStepsRenameFirst == <<"open", "rename", "write">>

SaveSteps == <<"open", "write", "rename">>

Idle == \A a \in Callers : stage[a] = "idle"

BeginSave ==
    /\ save = <<>> /\ Idle
    /\ save' = SaveSteps
    /\ wanted' \in SUBSET Claims
    /\ UNCHANGED <<appends, claimFile, tmp, interrupted>>

\* What the next step does to the two files: open truncates, and write ends
\* with a sync.  Once the last one is done the answer is Ok.
SaveStep ==
    /\ save # <<>>
    /\ save' = Tail(save)
    /\ tmp' = CASE Head(save) = "open" -> Torn
                [] Head(save) = "write" -> wanted
                [] Head(save) = "rename" -> None
    /\ claimFile' = IF Head(save) = "rename" THEN tmp ELSE claimFile
    /\ wanted' = IF Tail(save) = <<>> THEN None ELSE wanted
    /\ UNCHANGED <<appends, interrupted>>

FailSave ==
    /\ save # <<>>
    /\ save' = <<>> /\ wanted' = None
    /\ interrupted' = TRUE
    /\ UNCHANGED <<appends, claimFile, tmp>>

-----------------------------------------------------------------------------

\* The process dies; the files stay as they are.
Crash ==
    /\ save # <<>> \/ ~Idle
    /\ holder' = None
    /\ stage' = [a \in Callers |-> "idle"]
    /\ block' = [a \in Callers |-> None]
    /\ save' = <<>> /\ wanted' = None
    /\ interrupted' = TRUE
    /\ UNCHANGED <<log, minted, acked, claimFile, tmp>>

Next ==
    \/ \E a \in Callers :
        \/ OpenLog(a) \/ LockLog(a) \/ WritePart(a) \/ WriteJson(a)
        \/ WriteNewline(a) \/ SyncLog(a) \/ FailAppend(a)
    \/ BeginSave \/ SaveStep \/ FailSave
    \/ Crash

Spec == Init /\ [][Next]_vars

-----------------------------------------------------------------------------
(* What a restart reads. *)

\* The last line need not end in a line break.
LinesOf(text) == IF text[2] = <<>> THEN text[1] ELSE Append(text[1], text[2])

\* A line parses when it is exactly one block; load_blocks fails otherwise.
Parses(line) == Len(line) = 1 /\ line[1] # Torn
Loads(text) == \A n \in DOMAIN LinesOf(text) : Parses(LinesOf(text)[n])
LoadBlocks(text) ==
    IF Loads(text) THEN [n \in DOMAIN LinesOf(text) |-> LinesOf(text)[n][1]] ELSE <<>>

\* The log without what an append in progress has written of its line.
Settled ==
    IF \E a \in Callers : stage[a] \in {"write on", "newline"}
    THEN <<lines, Front(rest)>> ELSE log

Contract == INSTANCE StorageContract WITH
    Atomic <- TRUE, stored <- LoadBlocks(Settled), readable <- Loads(Settled),
    saved <- claimFile

\* No acknowledged block is missing from a log that can be read, whoever failed
\* before or after it, and the blocks of one caller are read in the order in
\* which it appended them.
AckedBlocksAreRead ==
    LET read == LoadBlocks(log)
    IN  Loads(log) =>
        /\ acked \subseteq ToSet(read)
        /\ \A i, j \in DOMAIN read :
            i < j /\ read[i][1] = read[j][1] => read[i][2] < read[j][2]
=============================================================================
