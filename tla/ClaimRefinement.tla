--------------------------- MODULE ClaimRefinement ---------------------------
(***************************************************************************)
(* ProfileService implements ClaimLifecycle: the status of a claim is what *)
(* its file says, and its awards are the blocks in its player's log.       *)
(***************************************************************************)
EXTENDS ProfileService

DurableStatus ==
    [p \in Players |-> [c \in Claims |-> claimFiles[p][c].status]]

DurableAwards ==
    {award \in Players \X Claims \X (1..MaxBlocks) :
        \E i \in AwardsOf(award[1], award[2]) :
            logs[award[1]][i].hash = award[3]}

Lifecycle ==
    INSTANCE ClaimLifecycle WITH
        Hashes <- 1..MaxBlocks, status <- DurableStatus, awards <- DurableAwards

\* Across failed saves and appends, retries and restarts, the files only ever
\* move as ClaimLifecycle allows: a decision on disk is never revised, and an
\* award goes to the log once, when the promotion is on disk.  It rests on
\* claim files being read at start ("load"), and so on the log file that makes
\* `new` look for them being created by the first append ("open").
ClaimsFollowLifecycle == Lifecycle!CLSpec
=============================================================================
