---------------------------- MODULE StorageContract ----------------------------
(***************************************************************************)
(* What the LedgerStorage trait (rust/src/ledger_storage.rs) promises for  *)
(* one player: what a restart would read.  Blocks are only ever added at   *)
(* the end; the claims are replaced as a whole.                            *)
(***************************************************************************)
EXTENDS Naturals, Sequences, SequencesExt

CONSTANTS
    Blocks,
    Claims,
    Atomic,  \* a save that is cut short leaves the old claims or the new ones
    None

VARIABLES
    stored,       \* the blocks load_blocks would return, <<>> when it fails
    readable,     \* load_blocks would not fail
    acked,        \* the blocks whose append_block answered Ok
    saved,        \* the claims load_achievement_claims would return
    wanted,       \* the claims being saved, or None
    interrupted   \* a call has failed or was cut short by a crash

Init ==
    /\ stored = <<>> /\ readable /\ acked = {}
    /\ saved = {} /\ wanted = None
    /\ ~interrupted

\* Some blocks reach the log, and those before them stay: one, or, after an
\* interruption, those it left behind as well.
Grow ==
    /\ readable /\ readable'
    /\ IsPrefix(stored, stored') /\ stored' # stored
    /\ IsInjective(stored')
    /\ interrupted' \/ Len(stored') = Len(stored) + 1
    /\ UNCHANGED acked

\* The log becomes unreadable, for good, and only after an interruption.
Damage ==
    /\ interrupted'
    /\ ~readable' /\ stored' = <<>>
    /\ UNCHANGED acked

Acknowledge ==
    /\ \E b \in Blocks \ acked :
        /\ readable => b \in ToSet(stored)
        /\ acked' = acked \cup {b}
    /\ UNCHANGED <<stored, readable>>

SameBlocks == UNCHANGED <<stored, readable, acked>>
SameClaims == UNCHANGED <<saved, wanted>>

Ask == wanted = None /\ UNCHANGED saved /\ \E cs \in SUBSET Claims : wanted' = cs
Replace == wanted # None /\ saved' = wanted /\ wanted' \in {wanted, None}
Confirm == wanted # None /\ saved = wanted /\ wanted' = None /\ UNCHANGED saved

\* The save in progress is given up.
Abandon == interrupted' /\ wanted' = None /\ UNCHANGED saved

\* Without atomic saves an interruption may leave any claims.
Tear == ~Atomic /\ interrupted' /\ saved' \in SUBSET Claims /\ wanted' \in {wanted, None}

Next ==
    /\ Grow \/ Damage \/ Acknowledge \/ SameBlocks
    /\ Ask \/ Replace \/ Confirm \/ Abandon \/ Tear \/ SameClaims
    /\ interrupted => interrupted'

Spec == Init /\ [][Next]_<<stored, readable, acked, saved, wanted, interrupted>>
=============================================================================
