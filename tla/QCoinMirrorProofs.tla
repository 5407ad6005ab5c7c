--------------------------- MODULE QCoinMirrorProofs ---------------------------
(***************************************************************************)
(* The mirror holds logged blocks, once and in order, and what it answered *)
(* for is in the state file: the proof, for any number of blocks, restarts *)
(* and steps of the clock.                                                 *)
(*                                                                         *)
(* Neither is inductive.  That a block is not mirrored twice rests on the  *)
(* chain having nothing as new as the block in progress; that an answer is *)
(* saved rests, while the file is torn, on the chain in memory.            *)
(***************************************************************************)
EXTENDS QCoinMirror, SequenceTheorems, TLAPS

Mirrored == [block : Nat, time : Nat]

Types ==
    /\ clock \in Nat
    /\ minted \in Nat
    /\ log \in Seq(Nat)
    /\ chain \in Seq(Mirrored)
    /\ stateFile # Torn => stateFile \in Seq(Mirrored)
    /\ lost \in BOOLEAN

Increasing(mirrored) ==
    \A i, j \in DOMAIN mirrored :
        i < j => /\ mirrored[i].block < mirrored[j].block
                 /\ mirrored[i].time < mirrored[j].time

\* A chain the mirror may have: logged blocks, in order, none yet to be minted.
Sound(mirrored) ==
    /\ Increasing(mirrored)
    /\ BlocksOf(mirrored) \subseteq ToSet(log)
    /\ \A b \in BlocksOf(mirrored) : b <= minted

SoundInv == Sound(chain) /\ (stateFile # Torn => Sound(stateFile))

\* How far the block in progress has come.
ProgressInv ==
    /\ pc \in {"wait", "propose"} =>
        minted \in ToSet(log) /\ \A b \in BlocksOf(chain) : b < minted
    /\ pc \in {"create", "write", "submit"} => minted \in BlocksOf(chain)
    /\ pc = "submit" => stateFile = chain

\* What was answered for is in memory, and in a file that is whole.
SavedInv ==
    ~lost => /\ acked \cup node \subseteq BlocksOf(chain)
             /\ stateFile # Torn => acked \cup node \subseteq BlocksOf(stateFile)

MirrorInv == Types /\ SoundInv /\ ProgressInv /\ SavedInv

-----------------------------------------------------------------------------

\* What is in a sequence that grew by one element.
LEMMA ToSetAppend ==
    ASSUME NEW S, NEW s \in Seq(S), NEW e \in S
    PROVE  ToSet(Append(s, e)) = ToSet(s) \cup {e}
<1>1. /\ DOMAIN Append(s, e) = DOMAIN s \cup {Len(s) + 1}
      /\ \A n \in DOMAIN s : Append(s, e)[n] = s[n]
      /\ Append(s, e)[Len(s) + 1] = e
  OBVIOUS
<1>. QED
  BY <1>1 DEF ToSet

\* The blocks of a chain that grew by one block.
LEMMA BlocksOfAppend ==
    ASSUME NEW m \in Seq(Mirrored), NEW e \in Mirrored
    PROVE  BlocksOf(Append(m, e)) = BlocksOf(m) \cup {e.block}
<1>1. /\ DOMAIN Append(m, e) = DOMAIN m \cup {Len(m) + 1}
      /\ \A n \in DOMAIN m : Append(m, e)[n] = m[n]
      /\ Append(m, e)[Len(m) + 1] = e
  OBVIOUS
<1>. QED
  BY <1>1 DEF BlocksOf

\* A chain stays in order when it grows by a later block at a later time.
LEMMA IncreasingAppend ==
    ASSUME NEW m \in Seq(Mirrored), NEW e \in Mirrored,
           Increasing(m),
           \A b \in BlocksOf(m) : b < e.block,
           e.time > LastTimestamp(m)
    PROVE  Increasing(Append(m, e))
<1>1. /\ Len(m) \in Nat /\ DOMAIN m = 1..Len(m)
      /\ \A n \in 1..Len(m) : m[n].block \in Nat /\ m[n].time \in Nat
  <2>1. /\ Len(m) \in Nat /\ DOMAIN m = 1..Len(m)
        /\ \A n \in 1..Len(m) : m[n] \in Mirrored
    OBVIOUS
  <2>. QED
    BY <2>1 DEF Mirrored
<1>2. /\ DOMAIN Append(m, e) = 1..Len(m) + 1
      /\ \A n \in 1..Len(m) : Append(m, e)[n] = m[n]
      /\ Append(m, e)[Len(m) + 1] = e
  OBVIOUS
<1>3. ASSUME NEW n \in 1..Len(m)
      PROVE  m[n].block < e.block /\ m[n].time < e.time
  <2>1. m[n].block \in BlocksOf(m)
    BY <1>1 DEF BlocksOf
  <2>2. m # <<>> /\ Len(m) \in 1..Len(m)
    BY <1>1
  <2>3. e.time > m[Len(m)].time
    BY <2>2 DEF LastTimestamp, Last
  <2>4. n < Len(m) => m[n].time < m[Len(m)].time
    BY <1>1, <2>2 DEF Increasing
  <2>5. n = Len(m) \/ n < Len(m)
    <3>1. Len(m) \in Nat
      BY <1>1
    <3>. QED
      BY <3>1
  <2>6. e.time \in Nat /\ m[n].time \in Nat /\ m[Len(m)].time \in Nat
    BY <1>1, <2>2 DEF Mirrored
  <2>7. m[n].time < e.time
    BY <2>3, <2>4, <2>5, <2>6
  <2>. QED
    BY <2>1, <2>7
<1>. QED
  <2>. SUFFICES ASSUME NEW i \in 1..Len(m) + 1, NEW j \in 1..Len(m) + 1, i < j
                PROVE  /\ Append(m, e)[i].block < Append(m, e)[j].block
                       /\ Append(m, e)[i].time < Append(m, e)[j].time
    BY <1>2 DEF Increasing
  <2>1. i \in 1..Len(m)
    BY <1>1
  <2>2. CASE j = Len(m) + 1
    BY <2>1, <2>2, <1>2, <1>3
  <2>3. CASE j \in 1..Len(m)
    BY <2>1, <2>3, <1>1, <1>2 DEF Increasing
  <2>. QED
    BY <2>2, <2>3, <1>1

-----------------------------------------------------------------------------

LEMMA InitMirror == Init => MirrorInv
<1>. SUFFICES ASSUME Init PROVE MirrorInv
  OBVIOUS
<1>1. BlocksOf(<<>>) = {} /\ Increasing(<<>>)
  BY DEF BlocksOf, Increasing
<1>2. Types
  <2>1. lost \in BOOLEAN
    BY DEF Init
  <2>. QED
    BY <2>1 DEF Init, Types
<1>. QED
  BY <1>1, <1>2 DEF Init, MirrorInv, SoundInv, Sound, ProgressInv, SavedInv

LEMMA AppendToLogMirror ==
    ASSUME MirrorInv, AppendToLog
    PROVE  MirrorInv'
<1>. USE DEF MirrorInv, AppendToLog, time
<1>1. Types'
  BY DEF Types
<1>2. ToSet(log) \subseteq ToSet(log') /\ (pc' = "wait" => minted' \in ToSet(log'))
  <2>1. CASE log' = Append(log, minted + 1)
    BY <2>1, ToSetAppend, minted + 1 \in Nat DEF Types
  <2>2. CASE UNCHANGED log /\ pc' = "idle"
    BY <2>2
  <2>. QED
    BY <2>1, <2>2
<1>3. ASSUME NEW m, Sound(m)
      PROVE  Sound(m)' /\ \A b \in BlocksOf(m) : b < minted'
  <2>1. /\ Increasing(m)
        /\ BlocksOf(m) \subseteq ToSet(log)
        /\ \A b \in BlocksOf(m) : b <= minted
    BY <1>3 DEF Sound
  <2>2. ToSet(log) \subseteq Nat
    BY DEF Types, ToSet
  <2>3. \A b \in BlocksOf(m) : b < minted' /\ b <= minted'
    BY <2>1, <2>2 DEF Types
  <2>4. Increasing(m)' /\ BlocksOf(m)' = BlocksOf(m)
    BY <2>1 DEF Increasing, BlocksOf
  <2>. QED
    BY <1>2, <2>1, <2>3, <2>4 DEF Sound
<1>4. SoundInv'
  BY <1>3 DEF SoundInv, Sound, Increasing, BlocksOf
<1>5. ProgressInv'
  BY <1>2, <1>3 DEF ProgressInv, SoundInv, BlocksOf
<1>6. SavedInv'
  BY DEF SavedInv, BlocksOf
<1>. QED
  BY <1>1, <1>4, <1>5, <1>6

\* A step that leaves the log and the count alone leaves a sound chain sound.
LEMMA SoundStays ==
    ASSUME UNCHANGED <<minted, log>>, NEW m, Sound(m)
    PROVE  Sound(m)'
<1>. QED
  BY DEF Sound, Increasing, BlocksOf, ToSet

\* Waiting, giving up and the clock change nothing the invariant is about.
LEMMA ClockMirror ==
    ASSUME MirrorInv, Wait \/ MirrorFails \/ Tick \/ StepBack
    PROVE  MirrorInv'
<1>1. /\ UNCHANGED <<minted, log, chain, stateFile, node, acked, lost>>
      /\ pc' \in {pc, "idle"} \/ (pc = "wait" /\ pc' = "propose")
      /\ clock' \in Nat
  BY DEF Wait, MirrorFails, Tick, StepBack, time, MirrorInv, Types
<1>2. Types'
  BY <1>1 DEF MirrorInv, Types
<1>3. SoundInv'
  BY <1>1 DEF MirrorInv, SoundInv, Sound, Increasing, BlocksOf, ToSet
<1>4. ProgressInv' /\ SavedInv'
  BY <1>1 DEF MirrorInv, ProgressInv, SavedInv, BlocksOf, ToSet
<1>. QED
  BY <1>2, <1>3, <1>4 DEF MirrorInv

LEMMA ProposeMirror ==
    ASSUME MirrorInv, Propose
    PROVE  MirrorInv'
<1>. DEFINE new == [block |-> minted, time |-> clock]
<1>. USE DEF MirrorInv
<1>1. /\ pc = "propose"
      /\ UNCHANGED <<clock, minted, log, stateFile, node, acked, lost>>
  BY DEF Propose, time
<1>2. CASE ~Valid(clock)
  <2>1. UNCHANGED chain /\ pc' = "idle"
    BY <1>2 DEF Propose
  <2>2. Types' /\ ProgressInv' /\ SavedInv'
    BY <1>1, <2>1 DEF Types, ProgressInv, SavedInv, BlocksOf
  <2>3. SoundInv'
    BY <1>1, <2>1, SoundStays DEF SoundInv
  <2>. QED
    BY <2>2, <2>3
<1>3. CASE Valid(clock)
  <2>1. chain' = Append(chain, new) /\ pc' = "create"
    BY <1>3 DEF Propose
  <2>2. new \in Mirrored /\ chain \in Seq(Mirrored)
    BY DEF Types, Mirrored
  <2>3. BlocksOf(chain') = BlocksOf(chain) \cup {minted}
    BY <2>1, <2>2, BlocksOfAppend
  <2>4. Types'
    BY <1>1, <2>1, <2>2 DEF Types
  <2>5. Increasing(chain')
    <3>1. /\ Increasing(chain)
          /\ \A b \in BlocksOf(chain) : b < new.block
          /\ new.time > LastTimestamp(chain)
      BY <1>1, <1>3 DEF SoundInv, Sound, ProgressInv, Valid
    <3>. QED
      BY <2>1, <2>2, <3>1, IncreasingAppend
  <2>6. Sound(chain)'
    <3>1. Increasing(chain)'
      BY <2>5 DEF Increasing
    <3>2. /\ BlocksOf(chain') \subseteq ToSet(log)
          /\ \A b \in BlocksOf(chain') : b <= minted
      BY <1>1, <2>3 DEF SoundInv, Sound, ProgressInv, Types
    <3>. QED
      BY <1>1, <3>1, <3>2 DEF Sound, BlocksOf, ToSet
  <2>7. SoundInv'
    BY <1>1, <2>6, SoundStays DEF SoundInv
  <2>8. ProgressInv'
    BY <1>1, <2>1, <2>3 DEF ProgressInv, BlocksOf
  <2>9. SavedInv'
    BY <1>1, <2>3 DEF SavedInv, BlocksOf
  <2>. QED
    BY <2>4, <2>7, <2>8, <2>9
<1>. QED
  BY <1>2, <1>3

LEMMA CreateStateFileMirror ==
    ASSUME MirrorInv, CreateStateFile
    PROVE  MirrorInv'
<1>1. /\ pc = "create" /\ pc' \in {"write", "idle"}
      /\ stateFile' = Torn \/ stateFile' = stateFile
      /\ UNCHANGED <<clock, minted, log, chain, node, acked, lost>>
  BY DEF CreateStateFile, time
<1>2. Types' /\ ProgressInv' /\ SavedInv'
  BY <1>1 DEF MirrorInv, Types, ProgressInv, SavedInv, BlocksOf
<1>3. SoundInv'
  BY <1>1, SoundStays DEF MirrorInv, SoundInv
<1>. QED
  BY <1>2, <1>3 DEF MirrorInv

LEMMA WriteStateFileMirror ==
    ASSUME MirrorInv, WriteStateFile
    PROVE  MirrorInv'
<1>1. /\ pc = "write"
      /\ \/ /\ stateFile' = chain
            /\ pc' \in {"submit", "idle"}
            /\ acked' \in {acked, acked \cup {minted}}
         \/ pc' = "idle" /\ UNCHANGED <<stateFile, acked>>
      /\ UNCHANGED <<clock, minted, log, chain, node, lost>>
  BY DEF WriteStateFile, StateToSave, time
<1>2. Types' /\ ProgressInv' /\ SavedInv'
  BY <1>1 DEF MirrorInv, Types, ProgressInv, SavedInv, BlocksOf
<1>3. SoundInv'
  BY <1>1, SoundStays DEF MirrorInv, SoundInv
<1>. QED
  BY <1>2, <1>3 DEF MirrorInv

LEMMA SubmitMirror ==
    ASSUME MirrorInv, Submit
    PROVE  MirrorInv'
<1>1. /\ pc = "submit" /\ pc' = "idle"
      /\ node' \in {node, node \cup {minted}}
      /\ acked' \in {acked, acked \cup {minted}}
      /\ UNCHANGED <<clock, minted, log, chain, stateFile, lost>>
  BY DEF Submit, Refused, time
<1>2. Types' /\ ProgressInv' /\ SavedInv'
  BY <1>1 DEF MirrorInv, Types, ProgressInv, SavedInv, BlocksOf
<1>3. SoundInv'
  BY <1>1, SoundStays DEF MirrorInv, SoundInv
<1>. QED
  BY <1>2, <1>3 DEF MirrorInv

LEMMA RestartMirror ==
    ASSUME MirrorInv, Restart
    PROVE  MirrorInv'
<1>. USE DEF MirrorInv
<1>1. /\ pc' = "idle"
      /\ UNCHANGED <<clock, minted, log, stateFile, node, acked>>
  BY DEF Restart, time
<1>2. CASE stateFile = Torn
  <2>1. chain' = <<>> /\ lost'
    BY <1>2 DEF Restart
  <2>2. Sound(<<>>)
    BY DEF Sound, Increasing, BlocksOf
  <2>3. Types'
    BY <1>1, <1>2, <2>1 DEF Types, Restart
  <2>4. SoundInv'
    BY <1>1, <1>2, <2>1, <2>2, SoundStays DEF SoundInv
  <2>5. ProgressInv' /\ SavedInv'
    BY <1>1, <2>1 DEF ProgressInv, SavedInv
  <2>. QED
    BY <2>3, <2>4, <2>5
<1>3. CASE stateFile # Torn
  <2>1. chain' = stateFile /\ lost' = lost
    BY <1>3 DEF Restart, Types
  <2>2. Types' /\ ProgressInv' /\ SavedInv'
    BY <1>1, <1>3, <2>1 DEF Types, ProgressInv, SavedInv, BlocksOf
  <2>3. SoundInv'
    BY <1>1, <1>3, <2>1, SoundStays DEF SoundInv
  <2>. QED
    BY <2>2, <2>3
<1>. QED
  BY <1>2, <1>3

LEMMA MirrorInvariant == Spec => []MirrorInv
<1>1. Init => MirrorInv
  BY InitMirror
<1>2. MirrorInv /\ [Next]_vars => MirrorInv'
  <2>. SUFFICES ASSUME MirrorInv, [Next]_vars PROVE MirrorInv'
    OBVIOUS
  <2>1. CASE AppendToLog
    BY <2>1, AppendToLogMirror
  <2>2. CASE Wait \/ MirrorFails \/ Tick \/ StepBack
    BY <2>2, ClockMirror
  <2>3. CASE Propose
    BY <2>3, ProposeMirror
  <2>4. CASE CreateStateFile
    BY <2>4, CreateStateFileMirror
  <2>5. CASE WriteStateFile
    BY <2>5, WriteStateFileMirror
  <2>6. CASE Submit
    BY <2>6, SubmitMirror
  <2>7. CASE Restart
    BY <2>7, RestartMirror
  <2>8. CASE UNCHANGED vars
    <3>1. UNCHANGED <<clock, pc, minted, log, chain, stateFile, node, acked, lost>>
      BY <2>8 DEF vars, time
    <3>2. Types' /\ ProgressInv' /\ SavedInv'
      BY <3>1 DEF MirrorInv, Types, ProgressInv, SavedInv, BlocksOf, ToSet
    <3>3. SoundInv'
      BY <3>1, SoundStays DEF MirrorInv, SoundInv
    <3>. QED
      BY <3>2, <3>3 DEF MirrorInv
  <2>. QED
    BY <2>1, <2>2, <2>3, <2>4, <2>5, <2>6, <2>7, <2>8 DEF Next, Mirror
<1>. QED
  BY <1>1, <1>2, PTL DEF Spec

-----------------------------------------------------------------------------
(* The theorems. *)

\* Whatever fails and however often the process and the clock start again, the
\* mirror, in memory and in a whole file, holds blocks that were logged, each
\* once and in the log's order.
THEOREM MirrorIsFaithful == Spec => []MirrorFollowsLog
<1>1. MirrorInv => MirrorFollowsLog
  BY DEF MirrorInv, SoundInv, Sound, Increasing, MirrorFollowsLog
<1>. QED
  BY <1>1, MirrorInvariant, PTL

\* While no start has found the state file torn, a whole state file has every
\* block that was acknowledged or that the node accepted.
THEOREM AnchorsAreSaved == Spec => []AnchoredBlocksAreSaved
<1>1. MirrorInv => AnchoredBlocksAreSaved
  BY DEF MirrorInv, SavedInv, AnchoredBlocksAreSaved
<1>. QED
  BY <1>1, MirrorInvariant, PTL
=============================================================================
