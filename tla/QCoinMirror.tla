------------------------------ MODULE QCoinMirror ------------------------------
(***************************************************************************)
(* QCoinLedgerStorage (rust/src/qcoin_ledger_storage.rs): each block that  *)
(* was logged is then mirrored into a local QCoin chain, which is saved    *)
(* and, when a node is configured, submitted to it.  Calls do not overlap, *)
(* they run under the service's write lock; the process may die between    *)
(* any two steps, and starts again from the state file.                    *)
(*                                                                         *)
(* The crates qcoin_consensus and qcoin_ledger are not in the repository:  *)
(* a block is proposed with the clock's time, is valid when that is later  *)
(* than the last one, and is then applied.                                 *)
(***************************************************************************)
EXTENDS Naturals, Sequences, SequencesExt

CONSTANTS
    Torn,      \* a state file that does not deserialize
    MaxBlocks, \* bound: blocks appended in a behaviour
    MaxBacks   \* bound: how often the clock steps back

VARIABLES
    clock,      \* the system's time in seconds
    backs,      \* how often it has stepped back
    hasNode,    \* QCOIN_NODE_URL is set
    pc,         \* the next step of append_block, or "idle"
    minted,     \* blocks given to append_block; the last one is being appended
    log,        \* the blocks in the players' logs, in the order of appending
    chain,      \* runtime.chain: the mirrored blocks with their timestamps
    stateFile,  \* the chain in the state file, or Torn; no file reads like <<>>
    node,       \* the blocks the node has accepted
    acked,      \* the blocks whose append answered Ok
    lost        \* history: a start found the state file torn

time == <<clock, backs>>
vars == <<time, hasNode, pc, minted, log, chain, stateFile, node, acked, lost>>

LastTimestamp(mirrored) == IF mirrored = <<>> THEN 0 ELSE Last(mirrored).time
BlocksOf(mirrored) == {mirrored[n].block : n \in DOMAIN mirrored}

Init ==
    /\ clock = 1 /\ backs = 0
    /\ hasNode \in BOOLEAN
    /\ pc = "idle"
    /\ minted = 0
    /\ log = <<>> /\ chain = <<>> /\ stateFile = <<>>
    /\ node = {} /\ acked = {}
    /\ lost = FALSE

-----------------------------------------------------------------------------

\* append_block is called, and appends to the player's log.  An error there,
\* after which the block may be logged or not, is the answer.
AppendToLog ==
    /\ pc = "idle"
    /\ minted < MaxBlocks
    /\ minted' = minted + 1
    /\ \/ log' = Append(log, minted + 1) /\ pc' \in {"wait", "idle"}
       \/ pc' = "idle" /\ UNCHANGED log
    /\ UNCHANGED <<time, hasNode, chain, stateFile, node, acked, lost>>

\* Every 200 ms the clock is read, until it is past the last timestamp.
Wait ==
    /\ pc = "wait"
    /\ clock > LastTimestamp(chain)
    /\ pc' = "propose"
    /\ UNCHANGED <<time, hasNode, minted, log, chain, stateFile, node, acked, lost>>

\* Fault for qcoin_mirror: validate_block is not called.
ValidAnyway(t) == TRUE

Valid(t) == t > LastTimestamp(chain)

\* propose_block, validate_block and apply_block.
Propose ==
    /\ pc = "propose"
    /\ IF Valid(clock)
       THEN chain' = Append(chain, [block |-> minted, time |-> clock]) /\ pc' = "create"
       ELSE pc' = "idle" /\ UNCHANGED chain
    /\ UNCHANGED <<time, hasNode, minted, log, stateFile, node, acked, lost>>

\* Before the chain is changed, an error of the clock, of a crate or of the lock
\* is the answer.
MirrorFails ==
    /\ pc \in {"wait", "propose"}
    /\ pc' = "idle"
    /\ UNCHANGED <<time, hasNode, minted, log, chain, stateFile, node, acked, lost>>

\* save_chain_state: File::create truncates, unless it fails.
CreateStateFile ==
    /\ pc = "create"
    /\ \/ stateFile' = Torn /\ pc' = "write"
       \/ pc' = "idle" /\ UNCHANGED stateFile
    /\ UNCHANGED <<time, hasNode, minted, log, chain, node, acked, lost>>

\* Fault for qcoin_mirror: what is saved is the chain without the new block.
StateToSaveStale == Front(chain)

StateToSave == chain

\* A write that fails leaves part of the state.
WriteStateFile ==
    /\ pc = "write"
    /\ \/ /\ stateFile' = StateToSave
          /\ IF hasNode THEN pc' = "submit" /\ UNCHANGED acked
             ELSE pc' = "idle" /\ acked' = acked \cup {minted}
       \/ pc' = "idle" /\ UNCHANGED <<stateFile, acked>>
    /\ UNCHANGED <<time, hasNode, minted, log, chain, node, lost>>

\* Fault for qcoin_mirror: the state is saved and submitted until the node takes it.
RefusedRetry == "create"

\* What comes after a submission that failed: the error is the answer.
Refused == "idle"

\* submit_block_to_node.  The node may accept, refuse, or be out of reach; an
\* answer that is lost is an error here though the node has the block.  Or it is
\* silent: the call has no timeout for an answer, and the step is never taken.
Submit ==
    /\ pc = "submit"
    /\ \/ pc' = "idle" /\ node' = node \cup {minted} /\ acked' = acked \cup {minted}
       \/ pc' = Refused /\ node' \in {node, node \cup {minted}} /\ UNCHANGED acked
    /\ UNCHANGED <<time, hasNode, minted, log, chain, stateFile, lost>>

\* The process dies and is started again; a state that cannot be read is
\* replaced by the initial one.
Restart ==
    /\ pc' = "idle"
    /\ chain' = IF stateFile = Torn THEN <<>> ELSE stateFile
    /\ lost' = (lost \/ stateFile = Torn)
    /\ UNCHANGED <<time, hasNode, minted, log, stateFile, node, acked>>

-----------------------------------------------------------------------------
(* The system's clock.  How far it runs ahead of the chain does not matter. *)

Tick ==
    /\ clock < LastTimestamp(chain) + 2
    /\ clock' = clock + 1
    /\ UNCHANGED <<backs, hasNode, pc, minted, log, chain, stateFile, node, acked, lost>>

StepBack ==
    /\ backs < MaxBacks
    /\ backs' = backs + 1
    /\ clock' \in 1..clock - 1
    /\ UNCHANGED <<hasNode, pc, minted, log, chain, stateFile, node, acked, lost>>

Mirror ==
    \/ AppendToLog \/ Wait \/ Propose \/ MirrorFails
    \/ CreateStateFile \/ WriteStateFile \/ Submit

Next == Mirror \/ Restart \/ Tick \/ StepBack

\* The thread that appends goes on by itself, and the clock does not stop.  The
\* node owes no answer, so Submit is not fair; and no error need come to end a
\* wait, so MirrorFails is not.
Fairness ==
    /\ WF_vars(Wait \/ Propose \/ CreateStateFile \/ WriteStateFile)
    /\ WF_vars(Tick)

Spec == Init /\ [][Next]_vars /\ Fairness

-----------------------------------------------------------------------------

\* The mirror, in memory and in the file, holds blocks that were logged, each
\* once, in the order of the log, at increasing times, whatever errors, restarts
\* and steps of the clock leave gaps in it.
MirrorFollowsLog ==
    \A mirrored \in {chain} \cup (IF stateFile = Torn THEN {} ELSE {stateFile}) :
        /\ BlocksOf(mirrored) \subseteq ToSet(log)
        /\ \A i, j \in DOMAIN mirrored :
            i < j => /\ mirrored[i].block < mirrored[j].block
                     /\ mirrored[i].time < mirrored[j].time

\* A block that was acknowledged, or that the node has, is in the state file, so
\* a restart goes on from a chain that has it.  Only a save that was cut short
\* makes an exception (qcoin_ledger_storage.rs:96): while the file is torn, and
\* for good when the process starts from it.
AnchoredBlocksAreSaved ==
    stateFile # Torn /\ ~lost => acked \cup node \subseteq BlocksOf(stateFile)

\* A submission does not last for ever: the node answers, be it with a refusal,
\* or closes the connection, or the process ends.  The code does not see to this
\* (qcoin_ledger_storage.rs:179).
NodeIsNeverSilent == []<>(pc # "submit")

\* Unless a node is silent for ever, every append ends, or its process does.  The
\* wait for the clock, under the write lock of the whole service, is over some
\* time after the clock last stepped back, and a node that refuses is not tried
\* again.  With a silent node the append and those behind the lock wait on.
AppendAnswers == NodeIsNeverSilent => (pc # "idle" ~> pc = "idle")
=============================================================================
