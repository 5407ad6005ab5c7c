------------------------------ MODULE LedgerBackend ------------------------------
(***************************************************************************)
(* The storage behind the service, as main (rust/src/main.rs) chooses it:  *)
(* a sled database, or files for anything else.  The "qcoin" backend keeps *)
(* its logs and claims in files too; what it adds is QCoinMirror.          *)
(***************************************************************************)
EXTENDS Naturals, Sequences

CONSTANTS Callers, Claims, Torn, None, MaxBlocks, MaxUnflushed

VARIABLES
    backend,                                              \* LEDGER_BACKEND
    lines, rest, holder, stage, block, claimFile, tmp, save,         \* files
    states, nextId, call, inserting, remaining,                      \* sled
    minted, wanted, acked, interrupted                               \* both

fileVars == <<lines, rest, holder, stage, block, claimFile, tmp, save>>
sledVars == <<states, nextId, call, inserting, remaining>>
vars == <<backend, fileVars, sledVars, minted, wanted, acked, interrupted>>

File == INSTANCE FileStorage
Sled == INSTANCE SledStorage WITH block <- inserting

ASSUME BoundAssumption == MaxBlocks \in Nat
ASSUME TornAssumption == Torn \notin File!Blocks
ASSUME NoneAssumption ==
    /\ None \notin Callers \cup Sled!Blocks
    /\ \A claims \in SUBSET Claims : None # claims

Init ==
    /\ backend \in {"sled", "file"}
    /\ File!Init
    /\ Sled!Init

Next ==
    \/ backend = "sled" /\ Sled!Next /\ UNCHANGED <<backend, fileVars>>
    \/ backend = "file" /\ File!Next /\ UNCHANGED <<backend, sledVars>>

Spec == Init /\ [][Next]_vars

-----------------------------------------------------------------------------

\* Whichever backend is chosen, what a restart reads is what the trait promises:
\* blocks only ever appended, each where it was acknowledged, an unreadable log
\* only after a call that failed or was cut short, and claims that are the old
\* or the new ones; only sled may be left with others by an interrupted save
\* (sled_ledger_storage.rs:133).
StorageFollowsContract ==
    /\ IF backend = "sled" THEN Sled!Contract!Init ELSE File!Contract!Init
    /\ [][IF backend = "sled" THEN Sled!Contract!Next ELSE File!Contract!Next]_vars

\* See FileStorage and SledStorage.
AckedBlocksAreRead ==
    IF backend = "sled" THEN Sled!AckedBlocksAreRead ELSE File!AckedBlocksAreRead

\* See SledStorage.
HeadNeverLeads == backend = "sled" => Sled!HeadNeverLeads
=============================================================================
