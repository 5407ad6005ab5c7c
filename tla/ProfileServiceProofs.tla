------------------------- MODULE ProfileServiceProofs -------------------------
(***************************************************************************)
(* Proofs about ProfileService, for any number of players, claims and      *)
(* blocks.  What each theorem assumes of the faults is in its statement.   *)
(*                                                                         *)
(* Claims.  AtMostOneAward is not inductive.  A second award needs a       *)
(* promotion to begin, hence a claim that memory holds as Pending; so an   *)
(* awarded claim must be Promoted in memory, and, because a restart loads  *)
(* memory from the file, in the file too, which must be one that is read.  *)
(*                                                                         *)
(* ProfileService implements ClaimLifecycle.  A save writes what memory    *)
(* holds of a claim, so it keeps to Moves only if memory never revises     *)
(* what the file says; that holds after a restart only if the file was     *)
(* read, hence if the player has a log file.                               *)
(*                                                                         *)
(* Blocks.  A block names the tip of the one chain in memory, so a log     *)
(* gets its first verified block only while that chain is empty; a restart *)
(* then finds one log that replays, and takes it for the chain.            *)
(***************************************************************************)
EXTENDS ClaimRefinement, LedgerProofs

-----------------------------------------------------------------------------
(* Types of claims. *)

LEMMA InitTypes == Init => ClaimsTypeOK
BY MaxBlocksAssumption
   DEF Init, ClaimsTypeOK, NoClaims, AbsentClaim, ClaimRecords, Statuses,
       Promotions, NoPromotion

\* What AddBlock and Acknowledge do to the history.
LEMMA AddBlockTypes ==
    ASSUME ClaimsTypeOK, NEW txn, NEW outcome, AddBlock(txn, outcome)
    PROVE  /\ minted' \in 0..MaxBlocks
           /\ minted + 1 \in 1..MaxBlocks
           /\ Acknowledge(outcome) => acked' \subseteq 1..MaxBlocks
<1>1. minted \in Nat /\ minted < MaxBlocks /\ minted' = minted + 1
  BY MaxBlocksAssumption DEF AddBlock, ClaimsTypeOK
<1>2. minted + 1 \in 1..MaxBlocks /\ minted' \in 0..MaxBlocks
  BY <1>1, MaxBlocksAssumption
<1>. QED
  BY <1>2 DEF Acknowledge, ClaimsTypeOK

\* One field of one claim changes.
LEMMA StatusTypes ==
    ASSUME ClaimsTypeOK, NEW p \in Players, NEW c \in Claims,
           NEW s \in Statuses
    PROVE  [claims EXCEPT ![p][c].status = s]
                \in [Players -> [Claims -> ClaimRecords]]
<1>1. claims[p][c] \in ClaimRecords
  BY DEF ClaimsTypeOK
<1>2. [claims[p][c] EXCEPT !.status = s] \in ClaimRecords
  BY <1>1 DEF ClaimRecords
<1>. QED
  BY <1>2 DEF ClaimsTypeOK

LEMMA AwardTypes ==
    ASSUME ClaimsTypeOK, NEW p \in Players, NEW c \in Claims,
           NEW h \in 1..MaxBlocks
    PROVE  [claims EXCEPT ![p][c].award = h]
                \in [Players -> [Claims -> ClaimRecords]]
<1>1. claims[p][c] \in ClaimRecords
  BY DEF ClaimsTypeOK
<1>2. [claims[p][c] EXCEPT !.award = h] \in ClaimRecords
  BY <1>1 DEF ClaimRecords
<1>. QED
  BY <1>2 DEF ClaimsTypeOK

\* Saving keeps the type of the files.
LEMMA PersistClaimsTypes ==
    ASSUME ClaimsTypeOK, NEW p \in Players, NEW outcome,
           PersistClaims(p, outcome),
           claims' \in [Players -> [Claims -> ClaimRecords]]
    PROVE  claimFiles' \in [Players -> [Claims -> ClaimRecords]]
BY DEF ClaimsTypeOK, PersistClaims

LEMMA NextTypes == ClaimsTypeOK /\ [Next]_vars => ClaimsTypeOK'
<1>. SUFFICES ASSUME ClaimsTypeOK, [Next]_vars
              PROVE  ClaimsTypeOK'
  OBVIOUS
<1>1. ASSUME NEW p \in Players, CreateProfile(p)
      PROVE  ClaimsTypeOK'
  <2>1. PICK outcome \in AppendOutcomes :
            AddBlock(ProfileChange(p, EmptyVector), outcome) /\ Acknowledge(outcome)
    BY <1>1 DEF CreateProfile
  <2>. QED
    BY <1>1, <2>1, AddBlockTypes DEF CreateProfile, ClaimsTypeOK
<1>2. ASSUME NEW p \in Players, NEW vector, ReplaceVector(p, vector)
      PROVE  ClaimsTypeOK'
  <2>1. PICK outcome \in AppendOutcomes :
            AddBlock(ProfileChange(p, vector), outcome) /\ Acknowledge(outcome)
    BY <1>2 DEF ReplaceVector
  <2>. QED
    BY <1>2, <2>1, AddBlockTypes DEF ReplaceVector, ClaimsTypeOK
<1>3. ASSUME NEW p \in Players, SetVector(p)
      PROVE  ClaimsTypeOK'
  BY <1>2, <1>3 DEF SetVector
<1>4. ASSUME NEW p \in Players, MergeVector(p)
      PROVE  ClaimsTypeOK'
  <2>1. PICK vector \in Vectors :
            IF vector.dim = profiles[p].dim
            THEN ReplaceVector(p, Xor(profiles[p], vector))
            ELSE /\ poisoned' = TRUE
                 /\ UNCHANGED <<profiles, rewards, claims, ledger, promotion,
                                files, history>>
    BY <1>4 DEF MergeVector
  <2>2. CASE vector.dim = profiles[p].dim
    BY <1>2, <2>1, <2>2
  <2>3. CASE vector.dim # profiles[p].dim
    BY <2>1, <2>3 DEF ClaimsTypeOK, files, history
  <2>. QED
    BY <2>2, <2>3
<1>5. ASSUME NEW p \in Players, AwardEntitlement(p)
      PROVE  ClaimsTypeOK'
  <2>1. PICK e \in Entitlements, outcome \in AppendOutcomes :
            AddBlock(EntitlementAward(p, e), outcome) /\ Acknowledge(outcome)
    BY <1>5 DEF AwardEntitlement, GiveEntitlement
  <2>. QED
    BY <1>5, <2>1, AddBlockTypes DEF AwardEntitlement, ClaimsTypeOK
<1>6. ASSUME NEW p \in Players, AwardAchievement(p)
      PROVE  ClaimsTypeOK'
  <2>1. PICK a \in Achievements, outcome \in AppendOutcomes :
            AddBlock(AchievementAward(p, a, None), outcome) /\ Acknowledge(outcome)
    BY <1>6 DEF AwardAchievement, GiveAchievement
  <2>. QED
    BY <1>6, <2>1, AddBlockTypes DEF AwardAchievement, ClaimsTypeOK
<1>7. ASSUME NEW p \in Players, NEW c \in Claims, SubmitNew(p, c)
      PROVE  ClaimsTypeOK'
  <2>1. claims' \in [Players -> [Claims -> ClaimRecords]]
    <3>1. PICK a \in Achievements : claims' = [claims EXCEPT ![p][c] = PendingClaim(a)]
      BY <1>7 DEF SubmitNew
    <3>2. PendingClaim(a) \in ClaimRecords
      BY DEF PendingClaim, ClaimRecords, Statuses
    <3>. QED
      BY <3>1, <3>2 DEF ClaimsTypeOK
  <2>2. claimFiles' \in [Players -> [Claims -> ClaimRecords]]
    BY <1>7, <2>1, PersistClaimsTypes DEF SubmitNew
  <2>3. accepted' \subseteq Players \X Claims
    BY <1>7 DEF SubmitNew, ClaimsTypeOK
  <2>. QED
    BY <1>7, <2>1, <2>2, <2>3 DEF SubmitNew, ClaimsTypeOK
<1>8. ASSUME NEW p \in Players, NEW c \in Claims, SubmitAgain(p, c)
      PROVE  ClaimsTypeOK'
  BY <1>8 DEF SubmitAgain, ClaimsTypeOK, memory, files
<1>9. ASSUME NEW p \in Players, NEW c \in Claims, PromoteBegin(p, c)
      PROVE  ClaimsTypeOK'
  <2>1. claims' \in [Players -> [Claims -> ClaimRecords]]
    BY <1>9, StatusTypes DEF PromoteBegin, Statuses
  <2>2. PICK outcome \in SaveOutcomes :
            PersistClaims(p, outcome) /\ promotion' = AfterSave(outcome, p, c)
    BY <1>9 DEF PromoteBegin
  <2>3. claimFiles' \in [Players -> [Claims -> ClaimRecords]]
    BY <2>1, <2>2, PersistClaimsTypes
  <2>4. promotion' \in Promotions
    BY <2>2 DEF AfterSave, Promotions
  <2>. QED
    BY <1>9, <2>1, <2>3, <2>4 DEF PromoteBegin, ClaimsTypeOK, history
<1>10. ASSUME NEW p \in Players, NEW c \in Claims, PromoteAgain(p, c)
       PROVE  ClaimsTypeOK'
  BY <1>10 DEF PromoteAgain, ClaimsTypeOK, memory, files
<1>11. ASSUME NEW p \in Players, NEW c \in Claims, Reject(p, c)
       PROVE  ClaimsTypeOK'
  <2>1. claims' \in [Players -> [Claims -> ClaimRecords]]
    BY <1>11, StatusTypes DEF Reject, Statuses
  <2>2. claimFiles' \in [Players -> [Claims -> ClaimRecords]]
    BY <1>11, <2>1, PersistClaimsTypes DEF Reject
  <2>. QED
    BY <1>11, <2>1, <2>2 DEF Reject, ClaimsTypeOK, history
<1>12. CASE PromoteAward
  <2>. DEFINE p == promotion.player
              c == promotion.claim
  <2>1. PICK outcome \in AppendOutcomes :
            /\ AddBlock(AchievementAward(p, claims[p][c].achievement, c), outcome)
            /\ promotion' = AfterAward(outcome, p, c)
    BY <1>12 DEF PromoteAward, GiveAchievement
  <2>2. p \in Players /\ c \in Claims
    BY <1>12 DEF PromoteAward, ClaimsTypeOK, Promotions, NoPromotion
  <2>3. minted + 1 \in 1..MaxBlocks /\ minted' \in 0..MaxBlocks
    BY <2>1, AddBlockTypes
  <2>4. promotion' \in Promotions
    BY <2>1, <2>2, <2>3 DEF AfterAward, Promotions
  <2>. QED
    BY <1>12, <2>3, <2>4 DEF PromoteAward, ClaimsTypeOK
<1>13. CASE PromoteRecord
  <2>. DEFINE p == promotion.player
              c == promotion.claim
  <2>1. p \in Players /\ c \in Claims /\ promotion.hash \in 1..MaxBlocks
    BY <1>13 DEF PromoteRecord, ClaimsTypeOK, Promotions, NoPromotion
  <2>2. PICK outcome \in SaveOutcomes :
            /\ claims' = [claims EXCEPT ![p][c].award = promotion.hash]
            /\ PersistClaims(p, outcome)
            /\ promoted' = IF outcome = "ok" THEN promoted \cup {<<p, c>>}
                           ELSE promoted
            /\ acked' = IF outcome = "ok" THEN acked \cup {promotion.hash}
                        ELSE acked
    BY <1>13 DEF PromoteRecord
  <2>3. claims' \in [Players -> [Claims -> ClaimRecords]]
    BY <2>1, <2>2, AwardTypes
  <2>4. claimFiles' \in [Players -> [Claims -> ClaimRecords]]
    BY <2>1, <2>2, <2>3, PersistClaimsTypes
  <2>5. promoted' \subseteq Players \X Claims /\ acked' \subseteq 1..MaxBlocks
    BY <2>1, <2>2 DEF ClaimsTypeOK
  <2>. QED
    BY <1>13, <2>3, <2>4, <2>5
       DEF PromoteRecord, ClaimsTypeOK, Promotions, NoPromotion
<1>14. CASE Restart
  <2>1. claims' \in [Players -> [Claims -> ClaimRecords]]
    BY <1>14 DEF Restart, RestartWith, ClaimsTypeOK, NoClaims, AbsentClaim,
                 ClaimRecords, Statuses
  <2>. QED
    BY <1>14, <2>1 DEF Restart, RestartWith, ClaimsTypeOK, files, history,
                       Promotions, NoPromotion
<1>15. CASE UNCHANGED vars
  BY <1>15 DEF vars, memory, files, history, ClaimsTypeOK
<1>. QED
  BY <1>1, <1>3, <1>4, <1>5, <1>6, <1>7, <1>8, <1>9, <1>10, <1>11, <1>12,
     <1>13, <1>14, <1>15 DEF Next

\* Claims, claim files, the promotion in progress and the history keep their
\* types, whatever fails.
THEOREM ClaimsTypes == Spec => []ClaimsTypeOK
BY InitTypes, NextTypes, PTL DEF Spec

-----------------------------------------------------------------------------
(* Awards. *)

\* Every log is a finite sequence.  (What its blocks are does not matter.)
LogShape ==
    /\ DOMAIN logs = Players
    /\ \A p \in Players : logs[p] \in Seq(ToSet(logs[p]))

\* Every award of p's claim c is backed by the claim, in memory and in a file
\* that is read at start.
Backed(p, c) ==
    \A i \in AwardsOf(p, c) :
        /\ p \in listed
        /\ claims[p][c].status = "Promoted"
        /\ claimFiles[p][c].status = "Promoted"
        /\ claims[p][c].achievement = logs[p][i].txn.payload
        /\ claimFiles[p][c].achievement = logs[p][i].txn.payload

\* A promotion about to make its award is saved, and is the first.
AwardIsDue ==
    promotion.stage = "award" =>
        LET p == promotion.player
            c == promotion.claim
        IN  /\ AwardsOf(p, c) = {}
            /\ claims[p][c].status = "Promoted"
            /\ claimFiles[p][c].status = "Promoted"
            /\ claimFiles[p][c].achievement = claims[p][c].achievement

AllBacked == \A p \in Players, c \in Claims : Backed(p, c)

AwardInv ==
    /\ LogShape
    /\ AtMostOneAward
    /\ AllBacked
    /\ AwardIsDue

-----------------------------------------------------------------------------
(* Awards: the logs. *)

\* Appending to a sequence adds one position and changes none.
LEMMA AppendShape ==
    ASSUME NEW s, s \in Seq(ToSet(s)), NEW b
    PROVE  /\ Append(s, b) \in Seq(ToSet(Append(s, b)))
           /\ Len(s) + 1 \notin DOMAIN s
           /\ DOMAIN Append(s, b) = DOMAIN s \cup {Len(s) + 1}
           /\ Append(s, b)[Len(s) + 1] = b
           /\ \A i \in DOMAIN s : Append(s, b)[i] = s[i]
<1>. DEFINE S == ToSet(s) \cup {b}
            t == Append(s, b)
<1>1. s \in Seq(S)
  BY SeqMonotonic
<1>2. Len(s) \in Nat /\ DOMAIN s = 1..Len(s)
  BY LenProperties
<1>3. /\ t \in Seq(S)
      /\ Len(t) = Len(s) + 1
      /\ \A i \in 1..Len(s) : t[i] = s[i]
      /\ t[Len(s) + 1] = b
  BY <1>1, AppendProperties
<1>4. DOMAIN t = 1..(Len(s) + 1)
  BY <1>3, LenProperties
<1>5. DOMAIN t = DOMAIN s \cup {Len(s) + 1} /\ Len(s) + 1 \notin DOMAIN s
  BY <1>2, <1>4
<1>6. t \in Seq(ToSet(t))
  <2>1. t = [i \in 1..Len(t) |-> t[i]]
    BY <1>3, LenProperties
  <2>2. \A i \in 1..Len(t) : t[i] \in ToSet(t)
    BY <1>3, <1>4 DEF ToSet
  <2>3. Len(t) \in Nat
    BY <1>3, LenProperties
  <2>. QED
    BY <2>1, <2>2, <2>3, SeqDef
<1>. QED
  BY <1>2, <1>3, <1>5, <1>6

\* What an operation that mines a block does to the awards in the logs: none
\* changes place or content, and at most one is added, that of the operation.
LEMMA AddBlockAwards ==
    ASSUME LogShape, NEW txn, txn.player \in Players, NEW outcome,
           AddBlock(txn, outcome)
    PROVE  /\ LogShape'
           /\ listed \subseteq listed'
           /\ \A p \in Players, c \in Claims :
                /\ \A i \in AwardsOf(p, c) :
                        i \in AwardsOf(p, c)' /\ logs'[p][i] = logs[p][i]
                /\ \A i \in AwardsOf(p, c)' \ AwardsOf(p, c) :
                        /\ p = txn.player /\ c = txn.via
                        /\ p \in listed'
                        /\ logs'[p][i].txn = txn
                        /\ logs'[p][i].hash = minted + 1
                        /\ i = Len(logs[p]) + 1
           /\ outcome = "ok" /\ txn.via \in Claims =>
                \E i \in AwardsOf(txn.player, txn.via)' :
                    logs'[txn.player][i].hash = minted + 1
<1>1. PICK t \in Timestamps :
          LET block == CreateBlock(ledger, minted + 1, t, txn)
          IN  AppendBlock(txn.player, block, outcome)
  BY DEF AddBlock
<1>. DEFINE q == txn.player
            block == CreateBlock(ledger, minted + 1, t, txn)
<1>2. block.txn = txn /\ block.hash = minted + 1
  BY DEF CreateBlock
<1>3. listed \subseteq listed'
  BY <1>1 DEF AppendBlock
<1>4. CASE outcome \notin {"ok", "sync"}
  <2>1. logs' = logs
    BY <1>1, <1>4 DEF AppendBlock
  <2>2. LogShape'
    BY <2>1 DEF LogShape
  <2>3. \A p \in Players, c \in Claims : AwardsOf(p, c)' = AwardsOf(p, c)
    BY <2>1 DEF AwardsOf
  <2>. QED
    BY <1>3, <1>4, <2>1, <2>2, <2>3
<1>5. CASE outcome \in {"ok", "sync"}
  <2>1. logs' = [logs EXCEPT ![q] = Append(logs[q], block)] /\ q \in listed'
    BY <1>1, <1>5 DEF AppendBlock, FileExistsAfter
  <2>2. logs[q] \in Seq(ToSet(logs[q]))
    BY DEF LogShape
  <2>3. DOMAIN logs' = Players /\ logs'[q] = Append(logs[q], block)
    BY <2>1 DEF LogShape
  <2>4. \A p \in Players : p # q => logs'[p] = logs[p]
    BY <2>1 DEF LogShape
  <2>. HIDE DEF block
  <2>5. /\ Append(logs[q], block) \in Seq(ToSet(Append(logs[q], block)))
        /\ DOMAIN Append(logs[q], block) = DOMAIN logs[q] \cup {Len(logs[q]) + 1}
        /\ Append(logs[q], block)[Len(logs[q]) + 1] = block
        /\ \A i \in DOMAIN logs[q] : Append(logs[q], block)[i] = logs[q][i]
    BY <2>2, AppendShape
  <2>6. LogShape'
    BY <2>3, <2>4, <2>5 DEF LogShape
  <2>7. ASSUME NEW p \in Players, NEW c \in Claims, p # q
        PROVE  AwardsOf(p, c)' = AwardsOf(p, c) /\ logs'[p] = logs[p]
    BY <2>4, <2>7 DEF AwardsOf
  <2>8. ASSUME NEW c \in Claims
        PROVE  /\ \A i \in AwardsOf(q, c) :
                        i \in AwardsOf(q, c)' /\ logs'[q][i] = logs[q][i]
               /\ \A i \in AwardsOf(q, c)' \ AwardsOf(q, c) :
                        /\ c = txn.via
                        /\ logs'[q][i].txn = txn
                        /\ logs'[q][i].hash = minted + 1
                        /\ i = Len(logs[q]) + 1
    BY <1>2, <2>3, <2>5 DEF AwardsOf
  <2>9. txn.via \in Claims => Len(logs[q]) + 1 \in AwardsOf(q, txn.via)'
    BY <1>2, <2>3, <2>5 DEF AwardsOf
  <2>10. logs'[q][Len(logs[q]) + 1].hash = minted + 1
    BY <1>2, <2>3, <2>5
  <2>. QED
    BY <1>3, <2>1, <2>6, <2>7, <2>8, <2>9, <2>10
<1>. QED
  BY <1>4, <1>5

-----------------------------------------------------------------------------
(* Awards: steps that share an argument. *)

\* Nothing that the invariant mentions changes.
LEMMA StutterAwards ==
    ASSUME AwardInv, UNCHANGED <<claims, promotion, logs, listed, claimFiles>>
    PROVE  AwardInv'
BY DEF AwardInv, LogShape, AtMostOneAward, AllBacked, Backed, AwardIsDue, AwardsOf

\* A block that belongs to no claim is mined.
LEMMA OtherBlocks ==
    ASSUME AwardInv, NEW txn, txn.player \in Players, txn.via = None,
           NEW outcome, AddBlock(txn, outcome), promotion = NoPromotion,
           UNCHANGED <<claims, claimFiles, promotion>>
    PROVE  AwardInv'
<1>1. LogShape' /\ listed \subseteq listed'
  BY AddBlockAwards DEF AwardInv
<1>2. ASSUME NEW p \in Players, NEW c \in Claims
      PROVE  /\ AwardsOf(p, c)' = AwardsOf(p, c)
             /\ \A i \in AwardsOf(p, c) : logs'[p][i] = logs[p][i]
  <2>1. /\ \A i \in AwardsOf(p, c) :
                i \in AwardsOf(p, c)' /\ logs'[p][i] = logs[p][i]
        /\ \A i \in AwardsOf(p, c)' \ AwardsOf(p, c) : c = None
    BY AddBlockAwards DEF AwardInv
  <2>2. c # None
    BY NoneAssumption
  <2>. QED
    BY <2>1, <2>2
<1>3. AtMostOneAward'
  BY <1>2 DEF AwardInv, AtMostOneAward
<1>4. AllBacked'
  BY <1>1, <1>2 DEF AwardInv, AllBacked, Backed
<1>5. AwardIsDue'
  BY DEF AwardIsDue, NoPromotion
<1>. QED
  BY <1>1, <1>3, <1>4, <1>5 DEF AwardInv

\* A claim with an award is not changed, other claims may be, and all are
\* saved.
LEMMA SavedClaims ==
    ASSUME AwardInv, ClaimsTypeOK,
           NEW p \in Players, NEW outcome, PersistClaims(p, outcome),
           \A q \in Players, d \in Claims :
                AwardsOf(q, d) # {} =>
                    /\ claims'[q][d].status = claims[q][d].status
                    /\ claims'[q][d].achievement = claims[q][d].achievement,
           UNCHANGED <<logs, listed>>
    PROVE  LogShape' /\ AtMostOneAward' /\ AllBacked'
<1>1. \A q \in Players, c \in Claims : AwardsOf(q, c)' = AwardsOf(q, c)
  BY DEF AwardsOf
<1>2. ASSUME NEW q \in Players, NEW c \in Claims, NEW i \in AwardsOf(q, c)
      PROVE  \/ claimFiles'[q][c] = claimFiles[q][c]
             \/ claimFiles'[q][c] = claims'[q][c]
  BY DEF PersistClaims, ClaimsTypeOK
<1>3. AllBacked'
  BY <1>1, <1>2 DEF AwardInv, AllBacked, Backed
<1>. QED
  BY <1>1, <1>3 DEF AwardInv, LogShape, AtMostOneAward

-----------------------------------------------------------------------------
(* Awards: the invariant is inductive. *)

LEMMA InitAwards == Init => AwardInv
<1>. SUFFICES ASSUME Init PROVE AwardInv
  OBVIOUS
<1>1. LogShape
  BY EmptySeq DEF Init, LogShape
<1>2. \A p \in Players, c \in Claims : AwardsOf(p, c) = {}
  BY DEF Init, AwardsOf
<1>. QED
  BY <1>1, <1>2
     DEF Init, AwardInv, AtMostOneAward, AllBacked, Backed, AwardIsDue, NoPromotion

\* What an award's claim is like, seen from the claim: not Promoted, no award.
LEMMA UnpromotedHasNoAward ==
    ASSUME AwardInv, NEW p \in Players, NEW c \in Claims,
           claims[p][c].status # "Promoted"
    PROVE  AwardsOf(p, c) = {}
BY DEF AwardInv, AllBacked, Backed

LEMMA SubmitNewAwards ==
    ASSUME AwardInv, ClaimsTypeOK, NEW p \in Players, NEW c \in Claims,
           SubmitNew(p, c)
    PROVE  AwardInv'
<1>1. PICK outcome \in SaveOutcomes : PersistClaims(p, outcome)
  BY DEF SubmitNew
<1>2. AwardsOf(p, c) = {}
  BY UnpromotedHasNoAward DEF SubmitNew
<1>3. PICK a \in Achievements : claims' = [claims EXCEPT ![p][c] = PendingClaim(a)]
  BY DEF SubmitNew
<1>4. \A q \in Players, d \in Claims :
          AwardsOf(q, d) # {} => claims'[q][d] = claims[q][d]
  BY <1>2, <1>3 DEF ClaimsTypeOK
<1>5. LogShape' /\ AtMostOneAward' /\ AllBacked'
  BY <1>1, <1>4, SavedClaims DEF SubmitNew
<1>6. AwardIsDue'
  BY DEF SubmitNew, LockFree, AwardIsDue, NoPromotion
<1>. QED
  BY <1>5, <1>6 DEF AwardInv

LEMMA PromoteBeginAwards ==
    ASSUME AwardInv, ClaimsTypeOK, NEW p \in Players, NEW c \in Claims,
           PromoteBegin(p, c)
    PROVE  AwardInv'
<1>1. PICK outcome \in SaveOutcomes :
          PersistClaims(p, outcome) /\ promotion' = AfterSave(outcome, p, c)
  BY DEF PromoteBegin
<1>2. AwardsOf(p, c) = {}
  BY UnpromotedHasNoAward DEF PromoteBegin, Promotable
<1>3. claims' = [claims EXCEPT ![p][c].status = "Promoted"]
  BY DEF PromoteBegin
<1>4. /\ \A q \in Players, d \in Claims :
              AwardsOf(q, d) # {} => claims'[q][d] = claims[q][d]
      /\ claims'[p][c].status = "Promoted"
  BY <1>2, <1>3 DEF ClaimsTypeOK, ClaimRecords
<1>5. LogShape' /\ AtMostOneAward' /\ AllBacked'
  BY <1>1, <1>4, SavedClaims DEF PromoteBegin
<1>6. AwardIsDue'
  <2>1. CASE outcome = "ok"
    <3>1. claimFiles'[p][c] = claims'[p][c]
      BY <1>1, <2>1 DEF PersistClaims, ClaimsTypeOK
    <3>2. AwardsOf(p, c)' = {}
      BY <1>2 DEF PromoteBegin, AwardsOf
    <3>3. promotion'.player = p /\ promotion'.claim = c
      BY <1>1, <2>1 DEF AfterSave
    <3>. QED
      BY <1>4, <3>1, <3>2, <3>3 DEF AwardIsDue
  <2>2. CASE outcome # "ok"
    BY <1>1, <2>2 DEF AfterSave, AwardIsDue, NoPromotion
  <2>. QED
    BY <2>1, <2>2
<1>. QED
  BY <1>5, <1>6 DEF AwardInv

LEMMA RejectAwards ==
    ASSUME AwardInv, ClaimsTypeOK, NEW p \in Players, NEW c \in Claims,
           Reject(p, c)
    PROVE  AwardInv'
<1>1. PICK outcome \in SaveOutcomes : PersistClaims(p, outcome)
  BY DEF Reject
<1>2. AwardsOf(p, c) = {}
  BY UnpromotedHasNoAward DEF Reject, Rejectable
<1>3. claims' = [claims EXCEPT ![p][c].status = "Rejected"]
  BY DEF Reject
<1>4. \A q \in Players, d \in Claims :
          AwardsOf(q, d) # {} => claims'[q][d] = claims[q][d]
  BY <1>2, <1>3 DEF ClaimsTypeOK
<1>5. LogShape' /\ AtMostOneAward' /\ AllBacked'
  BY <1>1, <1>4, SavedClaims DEF Reject
<1>6. AwardIsDue'
  BY DEF Reject, LockFree, AwardIsDue, NoPromotion
<1>. QED
  BY <1>5, <1>6 DEF AwardInv

\* The first award of its claim, which is backed already.
LEMMA PromoteAwardAwards ==
    ASSUME AwardInv, ClaimsTypeOK, PromoteAward
    PROVE  AwardInv'
<1>. DEFINE p == promotion.player
            c == promotion.claim
            txn == AchievementAward(p, claims[p][c].achievement, c)
<1>1. p \in Players /\ c \in Claims
  BY DEF PromoteAward, ClaimsTypeOK, Promotions, NoPromotion
<1>2. PICK outcome \in AppendOutcomes :
          AddBlock(txn, outcome) /\ promotion' = AfterAward(outcome, p, c)
  BY DEF PromoteAward, GiveAchievement
<1>3. /\ txn.player = p /\ txn.via = c
      /\ txn.payload = claims[p][c].achievement
  BY DEF AchievementAward
<1>4. /\ AwardsOf(p, c) = {}
      /\ claims[p][c].status = "Promoted"
      /\ claimFiles[p][c].status = "Promoted"
      /\ claimFiles[p][c].achievement = claims[p][c].achievement
  BY DEF AwardInv, AwardIsDue, PromoteAward
<1>5. UNCHANGED <<claims, claimFiles>>
  BY DEF PromoteAward
<1>. HIDE DEF txn
<1>6. /\ LogShape'
      /\ listed \subseteq listed'
      /\ \A q \in Players, d \in Claims :
            /\ \A i \in AwardsOf(q, d) :
                    i \in AwardsOf(q, d)' /\ logs'[q][i] = logs[q][i]
            /\ \A i \in AwardsOf(q, d)' \ AwardsOf(q, d) :
                    /\ q = p /\ d = c
                    /\ q \in listed'
                    /\ logs'[q][i].txn = txn
                    /\ i = Len(logs[q]) + 1
  BY <1>1, <1>2, <1>3, AddBlockAwards DEF AwardInv
<1>7. ASSUME NEW q \in Players, NEW d \in Claims, ~(q = p /\ d = c)
      PROVE  AwardsOf(q, d)' = AwardsOf(q, d)
  <2>1. /\ \A i \in AwardsOf(q, d) : i \in AwardsOf(q, d)'
        /\ \A i \in AwardsOf(q, d)' \ AwardsOf(q, d) : FALSE
    BY <1>6, <1>7
  <2>. QED
    BY <2>1
<1>8. AtMostOneAward'
  <2>1. ASSUME NEW q \in Players, NEW d \in Claims,
               NEW i \in AwardsOf(q, d)', NEW j \in AwardsOf(q, d)'
        PROVE  i = j
    <3>1. CASE q = p /\ d = c
      BY <1>4, <1>6, <3>1
    <3>2. CASE ~(q = p /\ d = c)
      BY <1>7, <3>2 DEF AwardInv, AtMostOneAward
    <3>. QED
      BY <3>1, <3>2
  <2>. QED
    BY <2>1 DEF AtMostOneAward
<1>9. AllBacked'
  <2>1. ASSUME NEW q \in Players, NEW d \in Claims, NEW i \in AwardsOf(q, d)'
        PROVE  /\ q \in listed'
               /\ claims'[q][d].status = "Promoted"
               /\ claimFiles'[q][d].status = "Promoted"
               /\ claims'[q][d].achievement = logs'[q][i].txn.payload
               /\ claimFiles'[q][d].achievement = logs'[q][i].txn.payload
    <3>1. CASE i \in AwardsOf(q, d)
      BY <1>5, <1>6, <3>1 DEF AwardInv, AllBacked, Backed
    <3>2. CASE i \notin AwardsOf(q, d)
      BY <1>3, <1>4, <1>5, <1>6, <3>2
    <3>. QED
      BY <3>1, <3>2
  <2>. QED
    BY <2>1 DEF AllBacked, Backed
<1>10. AwardIsDue'
  BY <1>2 DEF AfterAward, AwardIsDue, NoPromotion
<1>. QED
  BY <1>6, <1>8, <1>9, <1>10 DEF AwardInv

LEMMA PromoteRecordAwards ==
    ASSUME AwardInv, ClaimsTypeOK, PromoteRecord
    PROVE  AwardInv'
<1>. DEFINE p == promotion.player
            c == promotion.claim
<1>1. p \in Players /\ c \in Claims
  BY DEF PromoteRecord, ClaimsTypeOK, Promotions, NoPromotion
<1>2. PICK outcome \in SaveOutcomes :
          /\ claims' = [claims EXCEPT ![p][c].award = promotion.hash]
          /\ PersistClaims(p, outcome)
  BY DEF PromoteRecord
<1>3. \A q \in Players, d \in Claims :
          /\ claims'[q][d].status = claims[q][d].status
          /\ claims'[q][d].achievement = claims[q][d].achievement
  BY <1>1, <1>2 DEF ClaimsTypeOK, ClaimRecords
<1>4. LogShape' /\ AtMostOneAward' /\ AllBacked'
  BY <1>1, <1>2, <1>3, SavedClaims DEF PromoteRecord
<1>5. AwardIsDue'
  BY DEF PromoteRecord, AwardIsDue, NoPromotion
<1>. QED
  BY <1>4, <1>5 DEF AwardInv

\* The only step that needs the claim files to be readable.
LEMMA RestartAwards ==
    ASSUME AwardInv, ClaimsTypeOK, "load" \notin Faults, Restart
    PROVE  AwardInv'
<1>1. /\ UNCHANGED <<logs, listed, claimFiles>>
      /\ claims' = [p \in Players |->
                       IF p \in listed THEN claimFiles[p] ELSE NoClaims]
      /\ promotion' = NoPromotion
  BY DEF Restart, RestartWith, ReadableAmong, files
<1>2. \A p \in Players, c \in Claims : AwardsOf(p, c)' = AwardsOf(p, c)
  BY <1>1 DEF AwardsOf
<1>3. AllBacked'
  BY <1>1, <1>2 DEF AwardInv, AllBacked, Backed
<1>4. LogShape' /\ AtMostOneAward'
  BY <1>1, <1>2 DEF AwardInv, LogShape, AtMostOneAward
<1>5. AwardIsDue'
  BY <1>1 DEF AwardIsDue, NoPromotion
<1>. QED
  BY <1>3, <1>4, <1>5 DEF AwardInv

LEMMA NextAwards ==
    ASSUME "load" \notin Faults
    PROVE  AwardInv /\ ClaimsTypeOK /\ [Next]_vars => AwardInv'
<1>. SUFFICES ASSUME AwardInv, ClaimsTypeOK, [Next]_vars
              PROVE  AwardInv'
  OBVIOUS
<1>1. ASSUME NEW p \in Players, CreateProfile(p)
      PROVE  AwardInv'
  <2>1. PICK outcome \in AppendOutcomes :
            AddBlock(ProfileChange(p, EmptyVector), outcome)
    BY <1>1 DEF CreateProfile
  <2>. QED
    BY <1>1, <2>1, OtherBlocks DEF CreateProfile, LockFree, ProfileChange
<1>2. ASSUME NEW p \in Players, NEW vector, LockFree, ReplaceVector(p, vector)
      PROVE  AwardInv'
  <2>1. PICK outcome \in AppendOutcomes :
            AddBlock(ProfileChange(p, vector), outcome)
    BY <1>2 DEF ReplaceVector
  <2>. QED
    BY <1>2, <2>1, OtherBlocks DEF ReplaceVector, LockFree, ProfileChange
<1>3. ASSUME NEW p \in Players, SetVector(p)
      PROVE  AwardInv'
  BY <1>2, <1>3 DEF SetVector
<1>4. ASSUME NEW p \in Players, MergeVector(p)
      PROVE  AwardInv'
  <2>1. PICK vector \in Vectors :
            IF vector.dim = profiles[p].dim
            THEN ReplaceVector(p, Xor(profiles[p], vector))
            ELSE /\ poisoned' = TRUE
                 /\ UNCHANGED <<profiles, rewards, claims, ledger, promotion,
                                files, history>>
    BY <1>4 DEF MergeVector
  <2>2. CASE vector.dim = profiles[p].dim
    BY <1>2, <1>4, <2>1, <2>2 DEF MergeVector
  <2>3. CASE vector.dim # profiles[p].dim
    BY <2>1, <2>3, StutterAwards DEF files
  <2>. QED
    BY <2>2, <2>3
<1>5. ASSUME NEW p \in Players, AwardEntitlement(p)
      PROVE  AwardInv'
  <2>1. PICK e \in Entitlements, outcome \in AppendOutcomes :
            AddBlock(EntitlementAward(p, e), outcome)
    BY <1>5 DEF AwardEntitlement, GiveEntitlement
  <2>. QED
    BY <1>5, <2>1, OtherBlocks DEF AwardEntitlement, LockFree, EntitlementAward
<1>6. ASSUME NEW p \in Players, AwardAchievement(p)
      PROVE  AwardInv'
  <2>1. PICK a \in Achievements, outcome \in AppendOutcomes :
            AddBlock(AchievementAward(p, a, None), outcome)
    BY <1>6 DEF AwardAchievement, GiveAchievement
  <2>. QED
    BY <1>6, <2>1, OtherBlocks DEF AwardAchievement, LockFree, AchievementAward
<1>7. ASSUME NEW p \in Players, NEW c \in Claims,
             SubmitAgain(p, c) \/ PromoteAgain(p, c)
      PROVE  AwardInv'
  BY <1>7, StutterAwards DEF SubmitAgain, PromoteAgain, memory, files
<1>8. CASE UNCHANGED vars
  BY <1>8, StutterAwards DEF vars, memory, files
<1>. QED
  BY <1>1, <1>3, <1>4, <1>5, <1>6, <1>7, <1>8, SubmitNewAwards,
     PromoteBeginAwards, RejectAwards, PromoteAwardAwards, PromoteRecordAwards,
     RestartAwards
     DEF Next

-----------------------------------------------------------------------------
(* What the claims note about their awards, whatever the faults. *)

\* A promotion about to note its award has logged it.
NoteIsDue ==
    promotion.stage = "record" =>
        \E i \in AwardsOf(promotion.player, promotion.claim) :
            logs[promotion.player][i].hash = promotion.hash

NoteInv ==
    /\ LogShape
    /\ NotedAwardIsLogged
    /\ NoteIsDue

LEMMA StutterNotes ==
    ASSUME NoteInv, UNCHANGED <<claims, promotion, logs, claimFiles>>
    PROVE  NoteInv'
BY DEF NoteInv, LogShape, NotedAwardIsLogged, NoteIsDue, AwardsOf

LEMMA AbsentNotes == Init => NotedAwardIsLogged /\ NoteIsDue
BY DEF Init, NoClaims, AbsentClaim, NoPromotion, NotedAwardIsLogged, NoteIsDue

\* Mining a block leaves every noted award where it is.
LEMMA MinedNotes ==
    ASSUME NoteInv, NEW txn, txn.player \in Players, NEW outcome,
           AddBlock(txn, outcome), UNCHANGED <<claims, claimFiles>>
    PROVE  LogShape' /\ NotedAwardIsLogged'
<1>1. /\ LogShape'
      /\ \A p \in Players, c \in Claims : \A i \in AwardsOf(p, c) :
            i \in AwardsOf(p, c)' /\ logs'[p][i] = logs[p][i]
  BY AddBlockAwards DEF NoteInv
<1>2. NotedAwardIsLogged'
  BY <1>1 DEF NoteInv, NotedAwardIsLogged
<1>. QED
  BY <1>1, <1>2

\* Every note that memory holds after the step was there before or is right.
LEMMA SavedNotes ==
    ASSUME NoteInv, ClaimsTypeOK, NEW p \in Players, NEW outcome,
           PersistClaims(p, outcome), UNCHANGED logs,
           \A q \in Players, d \in Claims :
                \/ claims'[q][d].award \in {None, claims[q][d].award}
                \/ \E i \in AwardsOf(q, d) : logs[q][i].hash = claims'[q][d].award
    PROVE  LogShape' /\ NotedAwardIsLogged'
<1>1. ASSUME NEW q \in Players, NEW d \in Claims
      PROVE  /\ AwardsOf(q, d)' = AwardsOf(q, d)
             /\ \/ claimFiles'[q][d] = claimFiles[q][d]
                \/ claimFiles'[q][d] = claims'[q][d]
  BY DEF AwardsOf, PersistClaims, ClaimsTypeOK
<1>2. ASSUME NEW q \in Players, NEW d \in Claims,
             NEW noted \in {claims'[q][d].award, claimFiles'[q][d].award},
             noted # None
      PROVE  \E i \in AwardsOf(q, d) : logs[q][i].hash = noted
  BY <1>1, <1>2 DEF NoteInv, NotedAwardIsLogged
<1>3. NotedAwardIsLogged'
  BY <1>1, <1>2 DEF NotedAwardIsLogged
<1>. QED
  BY <1>3 DEF NoteInv, LogShape

LEMMA NextNotes == NoteInv /\ ClaimsTypeOK /\ [Next]_vars => NoteInv'
<1>. SUFFICES ASSUME NoteInv, ClaimsTypeOK, [Next]_vars
              PROVE  NoteInv'
  OBVIOUS
<1>1. ASSUME promotion' = NoPromotion, LogShape' /\ NotedAwardIsLogged'
      PROVE  NoteInv'
  BY <1>1 DEF NoteInv, NoteIsDue, NoPromotion
<1>2. ASSUME NEW p \in Players, CreateProfile(p)
      PROVE  NoteInv'
  <2>1. PICK outcome \in AppendOutcomes :
            AddBlock(ProfileChange(p, EmptyVector), outcome)
    BY <1>2 DEF CreateProfile
  <2>. QED
    BY <1>1, <1>2, <2>1, MinedNotes DEF CreateProfile, LockFree, ProfileChange
<1>3. ASSUME NEW p \in Players, NEW vector, LockFree, ReplaceVector(p, vector)
      PROVE  NoteInv'
  <2>1. PICK outcome \in AppendOutcomes :
            AddBlock(ProfileChange(p, vector), outcome)
    BY <1>3 DEF ReplaceVector
  <2>. QED
    BY <1>1, <1>3, <2>1, MinedNotes DEF ReplaceVector, LockFree, ProfileChange
<1>4. ASSUME NEW p \in Players, SetVector(p) \/ MergeVector(p)
      PROVE  NoteInv'
  BY <1>3, <1>4, StutterNotes DEF SetVector, MergeVector, files
<1>5. ASSUME NEW p \in Players, AwardEntitlement(p)
      PROVE  NoteInv'
  <2>1. PICK e \in Entitlements, outcome \in AppendOutcomes :
            AddBlock(EntitlementAward(p, e), outcome)
    BY <1>5 DEF AwardEntitlement, GiveEntitlement
  <2>. QED
    BY <1>1, <1>5, <2>1, MinedNotes DEF AwardEntitlement, LockFree, EntitlementAward
<1>6. ASSUME NEW p \in Players, AwardAchievement(p)
      PROVE  NoteInv'
  <2>1. PICK a \in Achievements, outcome \in AppendOutcomes :
            AddBlock(AchievementAward(p, a, None), outcome)
    BY <1>6 DEF AwardAchievement, GiveAchievement
  <2>. QED
    BY <1>1, <1>6, <2>1, MinedNotes DEF AwardAchievement, LockFree, AchievementAward
<1>7. ASSUME NEW p \in Players, NEW c \in Claims, SubmitNew(p, c)
      PROVE  NoteInv'
  <2>1. PICK a \in Achievements, outcome \in SaveOutcomes :
            /\ claims' = [claims EXCEPT ![p][c] = PendingClaim(a)]
            /\ PersistClaims(p, outcome)
    BY <1>7 DEF SubmitNew
  <2>2. PendingClaim(a).award = None
    BY DEF PendingClaim
  <2>3. \A q \in Players, d \in Claims :
            claims'[q][d].award \in {None, claims[q][d].award}
    BY <2>1, <2>2 DEF ClaimsTypeOK
  <2>. QED
    BY <1>1, <1>7, <2>1, <2>3, SavedNotes DEF SubmitNew, LockFree
<1>8. ASSUME NEW p \in Players, NEW c \in Claims, PromoteBegin(p, c)
      PROVE  NoteInv'
  <2>1. PICK outcome \in SaveOutcomes :
            /\ claims' = [claims EXCEPT ![p][c].status = "Promoted"]
            /\ PersistClaims(p, outcome)
            /\ promotion' = AfterSave(outcome, p, c)
    BY <1>8 DEF PromoteBegin
  <2>2. \A q \in Players, d \in Claims : claims'[q][d].award = claims[q][d].award
    BY <2>1 DEF ClaimsTypeOK, ClaimRecords
  <2>3. LogShape' /\ NotedAwardIsLogged'
    BY <1>8, <2>1, <2>2, SavedNotes DEF PromoteBegin
  <2>4. NoteIsDue'
    BY <2>1 DEF AfterSave, NoteIsDue, NoPromotion
  <2>. QED
    BY <2>3, <2>4 DEF NoteInv
<1>9. ASSUME NEW p \in Players, NEW c \in Claims, Reject(p, c)
      PROVE  NoteInv'
  <2>1. PICK outcome \in SaveOutcomes :
            /\ claims' = [claims EXCEPT ![p][c].status = "Rejected"]
            /\ PersistClaims(p, outcome)
    BY <1>9 DEF Reject
  <2>2. \A q \in Players, d \in Claims : claims'[q][d].award = claims[q][d].award
    BY <2>1 DEF ClaimsTypeOK, ClaimRecords
  <2>. QED
    BY <1>1, <1>9, <2>1, <2>2, SavedNotes DEF Reject, LockFree
<1>10. CASE PromoteAward
  <2>1. PICK p \in Players, c \in Claims :
            p = promotion.player /\ c = promotion.claim
    BY <1>10 DEF PromoteAward, ClaimsTypeOK, Promotions, NoPromotion
  <2>. DEFINE txn == AchievementAward(p, claims[p][c].achievement, c)
  <2>2. PICK outcome \in AppendOutcomes :
            AddBlock(txn, outcome) /\ promotion' = AfterAward(outcome, p, c)
    BY <1>10, <2>1 DEF PromoteAward, GiveAchievement
  <2>3. txn.player = p /\ txn.via = c
    BY DEF AchievementAward
  <2>. HIDE DEF txn
  <2>4. LogShape' /\ NotedAwardIsLogged'
    BY <1>10, <2>1, <2>2, <2>3, MinedNotes DEF PromoteAward
  <2>5. outcome = "ok" =>
            \E i \in AwardsOf(p, c)' : logs'[p][i].hash = minted + 1
    BY <2>1, <2>2, <2>3, AddBlockAwards DEF NoteInv
  <2>6. CASE outcome = "ok"
    <3>1. /\ promotion'.player = p /\ promotion'.claim = c
          /\ promotion'.hash = minted + 1
      BY <2>2, <2>6 DEF AfterAward
    <3>2. NoteIsDue'
      BY <2>5, <2>6, <3>1 DEF NoteIsDue, AwardsOf
    <3>. QED
      BY <2>4, <3>2 DEF NoteInv
  <2>7. CASE outcome # "ok"
    BY <1>1, <2>2, <2>4, <2>7 DEF AfterAward
  <2>. QED
    BY <2>6, <2>7
<1>11. CASE PromoteRecord
  <2>. DEFINE p == promotion.player
              c == promotion.claim
  <2>1. p \in Players /\ c \in Claims
    BY <1>11 DEF PromoteRecord, ClaimsTypeOK, Promotions, NoPromotion
  <2>2. PICK outcome \in SaveOutcomes :
            /\ claims' = [claims EXCEPT ![p][c].award = promotion.hash]
            /\ PersistClaims(p, outcome)
    BY <1>11 DEF PromoteRecord
  <2>3. \E i \in AwardsOf(p, c) : logs[p][i].hash = promotion.hash
    BY <1>11 DEF PromoteRecord, NoteInv, NoteIsDue
  <2>4. \A q \in Players, d \in Claims :
            IF q = p /\ d = c THEN claims'[q][d].award = promotion.hash
            ELSE claims'[q][d].award = claims[q][d].award
    BY <2>1, <2>2 DEF ClaimsTypeOK, ClaimRecords
  <2>. QED
    BY <1>1, <1>11, <2>1, <2>2, <2>3, <2>4, SavedNotes DEF PromoteRecord
<1>12. CASE Restart
  <2>1. /\ UNCHANGED <<logs, claimFiles>>
        /\ promotion' = NoPromotion
        /\ \A p \in Players :
                claims'[p] = claimFiles[p] \/ claims'[p] = NoClaims
    BY <1>12 DEF Restart, RestartWith, files
  <2>2. \A p \in Players, c \in Claims : AwardsOf(p, c)' = AwardsOf(p, c)
    BY <2>1 DEF AwardsOf
  <2>3. \A p \in Players, c \in Claims :
            claims'[p][c].award \in {None, claimFiles[p][c].award}
    BY <2>1 DEF NoClaims, AbsentClaim
  <2>4. NotedAwardIsLogged'
    BY <2>1, <2>2, <2>3 DEF NoteInv, NotedAwardIsLogged
  <2>5. LogShape'
    BY <2>1 DEF NoteInv, LogShape
  <2>. QED
    BY <1>1, <2>1, <2>4, <2>5
<1>13. ASSUME NEW p \in Players, NEW c \in Claims,
              SubmitAgain(p, c) \/ PromoteAgain(p, c)
       PROVE  NoteInv'
  BY <1>13, StutterNotes DEF SubmitAgain, PromoteAgain, memory, files
<1>14. CASE UNCHANGED vars
  BY <1>14, StutterNotes DEF vars, memory, files
<1>. QED
  BY <1>2, <1>4, <1>5, <1>6, <1>7, <1>8, <1>9, <1>10, <1>11, <1>12, <1>13,
     <1>14 DEF Next

-----------------------------------------------------------------------------
(* Awards: the theorems. *)

LEMMA AwardInvariant ==
    ASSUME "load" \notin Faults
    PROVE  Spec => []AwardInv
<1>1. Init => AwardInv
  BY InitAwards
<1>2. AwardInv /\ ClaimsTypeOK /\ [Next]_vars => AwardInv'
  BY NextAwards
<1>. QED
  BY <1>1, <1>2, ClaimsTypes, PTL DEF Spec

\* While claim files can be read at start, no order of submissions, reviews,
\* failed appends and saves, retries and restarts makes
\* review_achievement_claim log a second award for a claim.
THEOREM OneAward ==
    ASSUME "load" \notin Faults
    PROVE  Spec => []AtMostOneAward
<1>1. AwardInv => AtMostOneAward
  BY DEF AwardInv
<1>. QED
  BY <1>1, AwardInvariant, PTL

\* Under the same assumption, the claim file is always ahead of the log: a
\* logged award is that of a claim saved as Promoted, for its achievement.
THEOREM AwardsAreBacked ==
    ASSUME "load" \notin Faults
    PROVE  Spec => []AwardsFollowPromotion
<1>1. AwardInv => AwardsFollowPromotion
  BY DEF AwardInv, AllBacked, Backed, AwardsFollowPromotion
<1>. QED
  BY <1>1, AwardInvariant, PTL

\* Whatever fails, awarded_block_hash names a block in the player's own log
\* that is the award of this claim.
THEOREM NotedAwards == Spec => []NotedAwardIsLogged
<1>1. Init => NoteInv
  BY InitAwards, AbsentNotes DEF AwardInv, NoteInv
<1>2. NoteInv /\ ClaimsTypeOK /\ [Next]_vars => NoteInv'
  BY NextNotes
<1>3. NoteInv => NotedAwardIsLogged
  BY DEF NoteInv
<1>. QED
  BY <1>1, <1>2, <1>3, ClaimsTypes, PTL DEF Spec

-----------------------------------------------------------------------------
(* Claims follow their lifecycle. *)

\* Memory is at, or one allowed move ahead of, the file.
MemoryFollowsFile ==
    \A p \in Players, c \in Claims :
        \/ claims[p][c].status = claimFiles[p][c].status
        \/ <<claimFiles[p][c].status, claims[p][c].status>> \in Lifecycle!Moves

\* Whoever can act has a log file.
ActiveIsListed ==
    /\ \A p \in Players : profiles[p] # None => p \in listed
    /\ promotion.stage # "none" => promotion.player \in listed

\* A claim file that no start will look for holds nothing.
UnlistedIsUnclaimed ==
    \A p \in Players \ listed, c \in Claims : claimFiles[p][c].status = "Absent"

FilesInv ==
    /\ DOMAIN profiles = Players
    /\ MemoryFollowsFile
    /\ ActiveIsListed
    /\ UnlistedIsUnclaimed

-----------------------------------------------------------------------------
(* The lifecycle: what the files show of a step. *)

\* Awards that keep place and content show no change.
LEMMA SameAwards ==
    ASSUME \A p \in Players, c \in Claims :
                /\ AwardsOf(p, c)' = AwardsOf(p, c)
                /\ \A i \in AwardsOf(p, c) : logs'[p][i] = logs[p][i],
           UNCHANGED claimFiles
    PROVE  UNCHANGED Lifecycle!clVars
<1>1. ASSUME NEW a \in Players \X Claims \X (1..MaxBlocks)
      PROVE  (\E i \in AwardsOf(a[1], a[2])' : logs'[a[1]][i].hash = a[3])
                <=> (\E i \in AwardsOf(a[1], a[2]) : logs[a[1]][i].hash = a[3])
  BY <1>1
<1>2. DurableAwards' = DurableAwards
  BY <1>1 DEF DurableAwards, AwardsOf
<1>3. DurableStatus' = DurableStatus
  BY DEF DurableStatus
<1>. QED
  BY <1>2, <1>3 DEF Lifecycle!clVars

\* Nothing that the files show changes.
LEMMA SameFiles ==
    ASSUME UNCHANGED <<logs, claimFiles>>
    PROVE  UNCHANGED Lifecycle!clVars
BY DEF Lifecycle!clVars, DurableStatus, DurableAwards, AwardsOf

\* A block that belongs to no claim shows no change.
LEMMA OtherBlocksShowNothing ==
    ASSUME AwardInv, "open" \notin Faults, NEW txn, txn.player \in Players,
           txn.via = None, NEW outcome \in AppendOutcomes,
           AddBlock(txn, outcome), UNCHANGED claimFiles
    PROVE  /\ UNCHANGED Lifecycle!clVars
           /\ listed' = listed \cup {txn.player}
<1>1. ASSUME NEW p \in Players, NEW c \in Claims
      PROVE  /\ AwardsOf(p, c)' = AwardsOf(p, c)
             /\ \A i \in AwardsOf(p, c) : logs'[p][i] = logs[p][i]
  <2>1. /\ \A i \in AwardsOf(p, c) :
                i \in AwardsOf(p, c)' /\ logs'[p][i] = logs[p][i]
        /\ \A i \in AwardsOf(p, c)' \ AwardsOf(p, c) : c = None
    BY AddBlockAwards DEF AwardInv
  <2>2. c # None
    BY NoneAssumption
  <2>. QED
    BY <2>1, <2>2
<1>2. UNCHANGED Lifecycle!clVars
  BY <1>1, SameAwards
<1>3. listed' = listed \cup {txn.player}
  BY DEF AddBlock, AppendBlock, FileExistsAfter, AppendOutcomes
<1>. QED
  BY <1>2, <1>3

\* Saving the claims of p, each of which is where the file has it or one move
\* further, is Save(p); failing to, or saving what was saved, is a stutter.
LEMMA SaveIsSave ==
    ASSUME FilesInv, ClaimsTypeOK, ClaimsTypeOK',
           NEW p \in Players, p \in listed,
           NEW outcome, PersistClaims(p, outcome),
           \A q \in Players : q # p => claims'[q] = claims[q],
           \A d \in Claims :
                \/ claims'[p][d].status = claimFiles[p][d].status
                \/ <<claimFiles[p][d].status, claims'[p][d].status>>
                        \in Lifecycle!Moves,
           UNCHANGED <<logs, listed>>
    PROVE  /\ MemoryFollowsFile'
           /\ UnlistedIsUnclaimed'
           /\ Lifecycle!CLNext \/ UNCHANGED Lifecycle!clVars
<1>1. \A q \in Players : q # p => claimFiles'[q] = claimFiles[q]
  BY DEF PersistClaims, ClaimsTypeOK
<1>2. CASE outcome # "ok"
  <2>1. UNCHANGED claimFiles
    BY <1>2 DEF PersistClaims
  <2>2. MemoryFollowsFile'
    BY <2>1 DEF FilesInv, MemoryFollowsFile, Lifecycle!Moves
  <2>3. UnlistedIsUnclaimed'
    BY <2>1 DEF FilesInv, UnlistedIsUnclaimed
  <2>. QED
    BY <2>1, <2>2, <2>3, SameFiles
<1>3. CASE outcome = "ok"
  <2>1. claimFiles' = [claimFiles EXCEPT ![p] = claims'[p]]
        /\ claimFiles'[p] = claims'[p]
    BY <1>3 DEF PersistClaims, ClaimsTypeOK
  <2>2. MemoryFollowsFile'
    BY <1>1, <2>1 DEF FilesInv, MemoryFollowsFile, Lifecycle!Moves
  <2>3. UnlistedIsUnclaimed'
    BY <1>1 DEF FilesInv, UnlistedIsUnclaimed
  <2>. DEFINE new == [d \in Claims |-> claims'[p][d].status]
  <2>4. new \in [Claims -> {"Absent", "Pending", "Promoted", "Rejected"}]
    BY DEF ClaimsTypeOK, ClaimRecords, Statuses
  <2>5. \A d \in Claims :
            new[d] # DurableStatus[p][d]
                => <<DurableStatus[p][d], new[d]>> \in Lifecycle!Moves
    BY DEF DurableStatus
  <2>6. DurableStatus' = [DurableStatus EXCEPT ![p] = new]
    <3>. DEFINE row(q) == [d \in Claims |-> claimFiles'[q][d].status]
    <3>1. DurableStatus' = [q \in Players |-> row(q)]
      BY DEF DurableStatus
    <3>2. row(p) = new
      BY <2>1
    <3>3. \A q \in Players : q # p => row(q) = DurableStatus[q]
      BY <1>1 DEF DurableStatus
    <3>4. DOMAIN DurableStatus = Players
      BY DEF DurableStatus
    <3>. HIDE DEF new, row
    <3>5. DurableStatus' = [q \in Players |->
                               IF q = p THEN new ELSE DurableStatus[q]]
      BY <3>1, <3>2, <3>3
    <3>6. [DurableStatus EXCEPT ![p] = new] =
              [q \in Players |-> IF q = p THEN new ELSE DurableStatus[q]]
      BY <3>4
    <3>. QED
      BY <3>5, <3>6
  <2>7. DurableAwards' = DurableAwards
    BY DEF DurableAwards, AwardsOf
  <2>. HIDE DEF new
  <2>8. Lifecycle!Save(p)
    BY <2>4, <2>5, <2>6, <2>7 DEF Lifecycle!Save
  <2>. QED
    BY <2>2, <2>3, <2>8 DEF Lifecycle!CLNext
<1>. QED
  BY <1>2, <1>3

\* The award of a promoted claim, when it reaches the log, is Award.
LEMMA PromoteAwardIsAward ==
    ASSUME AwardInv, ClaimsTypeOK, ClaimsTypeOK', PromoteAward
    PROVE  Lifecycle!CLNext \/ UNCHANGED Lifecycle!clVars
<1>1. PICK p \in Players, c \in Claims :
          p = promotion.player /\ c = promotion.claim
  BY DEF PromoteAward, ClaimsTypeOK, Promotions, NoPromotion
<1>. DEFINE txn == AchievementAward(p, claims[p][c].achievement, c)
<1>2. PICK outcome \in AppendOutcomes : AddBlock(txn, outcome)
  BY <1>1 DEF PromoteAward, GiveAchievement
<1>3. txn.player = p /\ txn.via = c
  BY DEF AchievementAward
<1>. HIDE DEF txn
<1>4. AwardsOf(p, c) = {} /\ claimFiles[p][c].status = "Promoted"
  BY <1>1 DEF AwardInv, AwardIsDue, PromoteAward
<1>5. /\ \A q \in Players, d \in Claims :
            /\ \A i \in AwardsOf(q, d) :
                    i \in AwardsOf(q, d)' /\ logs'[q][i] = logs[q][i]
            /\ \A i \in AwardsOf(q, d)' \ AwardsOf(q, d) :
                    /\ q = p /\ d = c
                    /\ logs'[q][i].hash = minted + 1
  BY <1>2, <1>3, AddBlockAwards DEF AwardInv
<1>6. UNCHANGED claimFiles
  BY DEF PromoteAward
<1>7. \A q \in Players, d \in Claims :
          ~(q = p /\ d = c) => AwardsOf(q, d)' = AwardsOf(q, d)
  <2>1. ASSUME NEW q \in Players, NEW d \in Claims, ~(q = p /\ d = c)
        PROVE  AwardsOf(q, d)' = AwardsOf(q, d)
    <3>1. \A i \in AwardsOf(q, d) : i \in AwardsOf(q, d)'
      BY <1>5
    <3>2. \A i \in AwardsOf(q, d)' : i \in AwardsOf(q, d)
      BY <1>5, <2>1
    <3>. QED
      BY <3>1, <3>2
  <2>. QED
    BY <2>1
<1>8. CASE AwardsOf(p, c)' = {}
  <2>1. \A q \in Players, d \in Claims :
            /\ AwardsOf(q, d)' = AwardsOf(q, d)
            /\ \A i \in AwardsOf(q, d) : logs'[q][i] = logs[q][i]
    BY <1>4, <1>5, <1>7, <1>8
  <2>. QED
    BY <1>6, <2>1, SameAwards
<1>9. CASE AwardsOf(p, c)' # {}
  <2>. DEFINE h == minted + 1
  <2>1. h \in 1..MaxBlocks
    BY <1>2, MaxBlocksAssumption DEF AddBlock, ClaimsTypeOK
  <2>2. \A i \in AwardsOf(p, c)' : logs'[p][i].hash = h
    BY <1>4, <1>5
  <2>. HIDE DEF h
  <2>3. ASSUME NEW q \in Players, NEW d \in Claims, NEW k \in 1..MaxBlocks
        PROVE  (\E i \in AwardsOf(q, d)' : logs'[q][i].hash = k)
                  <=> \/ \E i \in AwardsOf(q, d) : logs[q][i].hash = k
                      \/ q = p /\ d = c /\ k = h
    <3>1. CASE q = p /\ d = c
      BY <1>4, <1>9, <2>2, <3>1
    <3>2. CASE ~(q = p /\ d = c)
      BY <1>5, <1>7, <3>2
    <3>. QED
      BY <3>1, <3>2
  <2>4. DurableAwards' = DurableAwards \cup {<<p, c, h>>}
    <3>1. ASSUME NEW a \in Players \X Claims \X (1..MaxBlocks)
          PROVE  a \in DurableAwards' <=> a \in DurableAwards \cup {<<p, c, h>>}
      <4>1. a = <<a[1], a[2], a[3]>> /\ a[1] \in Players /\ a[2] \in Claims
            /\ a[3] \in 1..MaxBlocks
        OBVIOUS
      <4>2. a = <<p, c, h>> <=> a[1] = p /\ a[2] = c /\ a[3] = h
        BY <4>1
      <4>3. a \in DurableAwards' <=>
                \E i \in AwardsOf(a[1], a[2])' : logs'[a[1]][i].hash = a[3]
        BY DEF DurableAwards, AwardsOf
      <4>4. a \in DurableAwards <=>
                \E i \in AwardsOf(a[1], a[2]) : logs[a[1]][i].hash = a[3]
        BY DEF DurableAwards
      <4>. QED
        BY <2>3, <4>1, <4>2, <4>3, <4>4
    <3>2. <<p, c, h>> \in Players \X Claims \X (1..MaxBlocks)
      BY <2>1
    <3>3. /\ DurableAwards \subseteq Players \X Claims \X (1..MaxBlocks)
          /\ DurableAwards' \subseteq Players \X Claims \X (1..MaxBlocks)
      BY DEF DurableAwards
    <3>. QED
      BY <3>1, <3>2, <3>3
  <2>5. \A a \in DurableAwards : <<a[1], a[2]>> # <<p, c>>
    BY <1>4 DEF DurableAwards
  <2>6. DurableStatus[p][c] = "Promoted" /\ DurableStatus' = DurableStatus
    BY <1>4, <1>6 DEF DurableStatus
  <2>7. Lifecycle!Award(p, c, h)
    BY <2>4, <2>5, <2>6 DEF Lifecycle!Award
  <2>. QED
    BY <2>1, <2>7 DEF Lifecycle!CLNext
<1>. QED
  BY <1>8, <1>9

-----------------------------------------------------------------------------
(* The lifecycle: the initial states and the steps. *)

LEMMA InitFiles == Init => FilesInv
BY DEF Init, NoClaims, AbsentClaim, NoPromotion, FilesInv, MemoryFollowsFile,
       ActiveIsListed, UnlistedIsUnclaimed

LEMMA InitIsInit == Init => Lifecycle!CLInit
<1>. SUFFICES ASSUME Init PROVE Lifecycle!CLInit
  OBVIOUS
<1>1. \A p \in Players, c \in Claims : AwardsOf(p, c) = {}
  BY DEF Init, AwardsOf
<1>2. DurableAwards = {}
  BY <1>1 DEF DurableAwards
<1>3. DurableStatus = [p \in Players |-> [c \in Claims |-> "Absent"]]
  BY DEF Init, NoClaims, AbsentClaim, DurableStatus
<1>. QED
  BY <1>2, <1>3 DEF Lifecycle!CLInit

\* What each step has to keep: the invariant, and what the files show.
StepOk ==
    /\ FilesInv'
    /\ Lifecycle!CLNext \/ UNCHANGED Lifecycle!clVars

\* The files and what memory makes of them are left alone.
LEMMA StutterStep ==
    ASSUME FilesInv,
           UNCHANGED <<profiles, claims, promotion, logs, listed, claimFiles>>
    PROVE  StepOk
<1>1. UNCHANGED Lifecycle!clVars
  BY SameFiles
<1>2. FilesInv'
  BY DEF FilesInv, MemoryFollowsFile, ActiveIsListed, UnlistedIsUnclaimed
<1>. QED
  BY <1>1, <1>2 DEF StepOk

\* An operation on a profile, or an award that no claim asked for.
LEMMA OtherBlockStep ==
    ASSUME FilesInv, AwardInv, "open" \notin Faults, promotion = NoPromotion,
           NEW txn, txn.player \in Players, txn.via = None,
           NEW outcome \in AppendOutcomes, AddBlock(txn, outcome),
           DOMAIN profiles' = Players,
           \A q \in Players : q # txn.player => profiles'[q] = profiles[q],
           UNCHANGED <<claims, promotion, claimFiles>>
    PROVE  StepOk
<1>1. /\ UNCHANGED Lifecycle!clVars
      /\ listed' = listed \cup {txn.player}
  BY OtherBlocksShowNothing
<1>2. FilesInv'
  BY <1>1 DEF FilesInv, MemoryFollowsFile, ActiveIsListed, UnlistedIsUnclaimed,
              NoPromotion
<1>. QED
  BY <1>1, <1>2 DEF StepOk

LEMMA ReplaceVectorStep ==
    ASSUME FilesInv, AwardInv, "open" \notin Faults, LockFree,
           NEW p \in Players, NEW vector, ReplaceVector(p, vector)
    PROVE  StepOk
<1>1. PICK outcome \in AppendOutcomes : AddBlock(ProfileChange(p, vector), outcome)
  BY DEF ReplaceVector
<1>2. /\ DOMAIN profiles' = Players
      /\ \A q \in Players : q # p => profiles'[q] = profiles[q]
  BY DEF ReplaceVector, FilesInv
<1>. QED
  BY <1>1, <1>2, OtherBlockStep DEF ReplaceVector, LockFree, ProfileChange

LEMMA MergeVectorStep ==
    ASSUME FilesInv, AwardInv, "open" \notin Faults,
           NEW p \in Players, MergeVector(p)
    PROVE  StepOk
<1>1. PICK vector \in Vectors :
          IF vector.dim = profiles[p].dim
          THEN ReplaceVector(p, Xor(profiles[p], vector))
          ELSE /\ poisoned' = TRUE
               /\ UNCHANGED <<profiles, rewards, claims, ledger, promotion,
                              files, history>>
  BY DEF MergeVector
<1>2. CASE vector.dim = profiles[p].dim
  BY <1>1, <1>2, ReplaceVectorStep DEF MergeVector
<1>3. CASE vector.dim # profiles[p].dim
  BY <1>1, <1>3, StutterStep DEF files
<1>. QED
  BY <1>2, <1>3

LEMMA CreateProfileStep ==
    ASSUME FilesInv, AwardInv, "open" \notin Faults,
           NEW p \in Players, CreateProfile(p)
    PROVE  StepOk
<1>1. PICK outcome \in AppendOutcomes :
          AddBlock(ProfileChange(p, EmptyVector), outcome)
  BY DEF CreateProfile
<1>2. /\ DOMAIN profiles' = Players
      /\ \A q \in Players : q # p => profiles'[q] = profiles[q]
  BY DEF CreateProfile, FilesInv
<1>. QED
  BY <1>1, <1>2, OtherBlockStep DEF CreateProfile, LockFree, ProfileChange

LEMMA DirectAwardStep ==
    ASSUME FilesInv, AwardInv, "open" \notin Faults,
           NEW p \in Players, AwardEntitlement(p) \/ AwardAchievement(p)
    PROVE  StepOk
<1>1. /\ LockFree
      /\ UNCHANGED <<profiles, claims, promotion, claimFiles>>
  BY DEF AwardEntitlement, AwardAchievement
<1>2. CASE AwardEntitlement(p)
  <2>1. PICK e \in Entitlements, outcome \in AppendOutcomes :
            AddBlock(EntitlementAward(p, e), outcome)
    BY <1>2 DEF AwardEntitlement, GiveEntitlement
  <2>. QED
    BY <1>1, <2>1, OtherBlockStep DEF FilesInv, LockFree, EntitlementAward
<1>3. CASE AwardAchievement(p)
  <2>1. PICK a \in Achievements, outcome \in AppendOutcomes :
            AddBlock(AchievementAward(p, a, None), outcome)
    BY <1>3 DEF AwardAchievement, GiveAchievement
  <2>. QED
    BY <1>1, <2>1, OtherBlockStep DEF FilesInv, LockFree, AchievementAward
<1>. QED
  BY <1>2, <1>3

\* A claim is submitted, promoted or rejected: the old and the new status in
\* memory are such that the file, which is at most one move behind, can follow.
LEMMA ClaimStep ==
    ASSUME FilesInv, ClaimsTypeOK, ClaimsTypeOK', NEW p \in Players,
           NEW c \in Claims, profiles[p] # None,
           NEW outcome, PersistClaims(p, outcome),
           \A q \in Players : q # p => claims'[q] = claims[q],
           \A d \in Claims : d # c => claims'[p][d] = claims[p][d],
           \/ claims'[p][c].status = claims[p][c].status
           \/ <<claims[p][c].status, claims'[p][c].status>> \in Lifecycle!Moves,
           promotion'.stage # "none" => promotion'.player = p,
           UNCHANGED <<profiles, logs, listed>>
    PROVE  StepOk
<1>1. p \in listed
  BY DEF FilesInv, ActiveIsListed
<1>2. \A d \in Claims :
          \/ claims'[p][d].status = claimFiles[p][d].status
          \/ <<claimFiles[p][d].status, claims'[p][d].status>>
                  \in Lifecycle!Moves
  BY DEF FilesInv, MemoryFollowsFile, Lifecycle!Moves
<1>3. /\ MemoryFollowsFile'
      /\ UnlistedIsUnclaimed'
      /\ Lifecycle!CLNext \/ UNCHANGED Lifecycle!clVars
  BY <1>1, <1>2, SaveIsSave
<1>4. ActiveIsListed'
  BY <1>1 DEF FilesInv, ActiveIsListed
<1>. QED
  BY <1>3, <1>4 DEF StepOk, FilesInv

LEMMA SubmitNewStep ==
    ASSUME FilesInv, ClaimsTypeOK, ClaimsTypeOK', NEW p \in Players,
           NEW c \in Claims, SubmitNew(p, c)
    PROVE  StepOk
<1>1. PICK a \in Achievements, outcome \in SaveOutcomes :
          /\ claims' = [claims EXCEPT ![p][c] = PendingClaim(a)]
          /\ PersistClaims(p, outcome)
  BY DEF SubmitNew
<1>2. /\ \A q \in Players : q # p => claims'[q] = claims[q]
      /\ \A d \in Claims : d # c => claims'[p][d] = claims[p][d]
      /\ claims'[p][c].status = "Pending"
  BY <1>1 DEF ClaimsTypeOK, PendingClaim
<1>3. claims[p][c].status = "Absent" /\ profiles[p] # None
  BY DEF SubmitNew
<1>4. <<claims[p][c].status, claims'[p][c].status>> \in Lifecycle!Moves
  BY <1>2, <1>3 DEF Lifecycle!Moves
<1>. QED
  BY <1>1, <1>2, <1>3, <1>4, ClaimStep DEF SubmitNew, LockFree, NoPromotion

LEMMA PromoteBeginStep ==
    ASSUME FilesInv, ClaimsTypeOK, ClaimsTypeOK', NEW p \in Players,
           NEW c \in Claims, PromoteBegin(p, c)
    PROVE  StepOk
<1>1. PICK outcome \in SaveOutcomes :
          PersistClaims(p, outcome) /\ promotion' = AfterSave(outcome, p, c)
  BY DEF PromoteBegin
<1>2. /\ \A q \in Players : q # p => claims'[q] = claims[q]
      /\ \A d \in Claims : d # c => claims'[p][d] = claims[p][d]
      /\ claims'[p][c].status = "Promoted"
  BY DEF PromoteBegin, ClaimsTypeOK, ClaimRecords
<1>3. claims[p][c].status = "Pending" /\ profiles[p] # None
  BY DEF PromoteBegin, Promotable
<1>4. <<claims[p][c].status, claims'[p][c].status>> \in Lifecycle!Moves
  BY <1>2, <1>3 DEF Lifecycle!Moves
<1>5. promotion'.stage # "none" => promotion'.player = p
  BY <1>1 DEF AfterSave, NoPromotion
<1>. QED
  BY <1>1, <1>2, <1>3, <1>4, <1>5, ClaimStep DEF PromoteBegin

LEMMA RejectStep ==
    ASSUME FilesInv, ClaimsTypeOK, ClaimsTypeOK', NEW p \in Players,
           NEW c \in Claims, Reject(p, c)
    PROVE  StepOk
<1>1. PICK outcome \in SaveOutcomes : PersistClaims(p, outcome)
  BY DEF Reject
<1>2. /\ \A q \in Players : q # p => claims'[q] = claims[q]
      /\ \A d \in Claims : d # c => claims'[p][d] = claims[p][d]
      /\ claims'[p][c].status = "Rejected"
  BY DEF Reject, ClaimsTypeOK, ClaimRecords
<1>3. claims[p][c].status \in {"Pending", "Rejected"} /\ profiles[p] # None
  BY DEF Reject, Rejectable
<1>4. \/ claims'[p][c].status = claims[p][c].status
      \/ <<claims[p][c].status, claims'[p][c].status>> \in Lifecycle!Moves
  BY <1>2, <1>3 DEF Lifecycle!Moves
<1>. QED
  BY <1>1, <1>2, <1>3, <1>4, ClaimStep DEF Reject, LockFree, NoPromotion

LEMMA PromoteAwardStep ==
    ASSUME FilesInv, AwardInv, ClaimsTypeOK, ClaimsTypeOK', PromoteAward
    PROVE  StepOk
<1>1. Lifecycle!CLNext \/ UNCHANGED Lifecycle!clVars
  BY PromoteAwardIsAward
<1>2. PICK p \in Players, c \in Claims :
          p = promotion.player /\ c = promotion.claim
  BY DEF PromoteAward, ClaimsTypeOK, Promotions, NoPromotion
<1>. DEFINE txn == AchievementAward(p, claims[p][c].achievement, c)
<1>3. PICK outcome \in AppendOutcomes :
          AddBlock(txn, outcome) /\ promotion' = AfterAward(outcome, p, c)
  BY <1>2 DEF PromoteAward, GiveAchievement
<1>4. listed \subseteq listed'
  BY <1>3 DEF AddBlock, AppendBlock
<1>5. promotion'.stage # "none" => promotion'.player = p
  BY <1>3 DEF AfterAward, NoPromotion
<1>6. p \in listed
  BY <1>2 DEF FilesInv, ActiveIsListed, PromoteAward
<1>7. FilesInv'
  BY <1>4, <1>5, <1>6
     DEF FilesInv, MemoryFollowsFile, ActiveIsListed, UnlistedIsUnclaimed,
         PromoteAward
<1>. QED
  BY <1>1, <1>7 DEF StepOk

LEMMA PromoteRecordStep ==
    ASSUME FilesInv, ClaimsTypeOK, ClaimsTypeOK', PromoteRecord
    PROVE  StepOk
<1>1. PICK p \in Players, c \in Claims :
          p = promotion.player /\ c = promotion.claim
  BY DEF PromoteRecord, ClaimsTypeOK, Promotions, NoPromotion
<1>2. PICK outcome \in SaveOutcomes :
          /\ claims' = [claims EXCEPT ![p][c].award = promotion.hash]
          /\ PersistClaims(p, outcome)
  BY <1>1 DEF PromoteRecord
<1>3. p \in listed
  BY <1>1 DEF FilesInv, ActiveIsListed, PromoteRecord
<1>4. /\ \A q \in Players : q # p => claims'[q] = claims[q]
      /\ \A d \in Claims : claims'[p][d].status = claims[p][d].status
  BY <1>2 DEF ClaimsTypeOK, ClaimRecords
<1>5. \A d \in Claims :
          \/ claims'[p][d].status = claimFiles[p][d].status
          \/ <<claimFiles[p][d].status, claims'[p][d].status>>
                  \in Lifecycle!Moves
  BY <1>4 DEF FilesInv, MemoryFollowsFile
<1>6. /\ MemoryFollowsFile'
      /\ UnlistedIsUnclaimed'
      /\ Lifecycle!CLNext \/ UNCHANGED Lifecycle!clVars
  BY <1>2, <1>3, <1>4, <1>5, SaveIsSave DEF PromoteRecord
<1>7. ActiveIsListed'
  BY DEF FilesInv, ActiveIsListed, PromoteRecord, NoPromotion
<1>. QED
  BY <1>6, <1>7 DEF StepOk, FilesInv, PromoteRecord

\* A restart loads what the files hold, or nothing where they hold nothing.
LEMMA RestartStep ==
    ASSUME FilesInv, ClaimsTypeOK, "load" \notin Faults, Restart
    PROVE  StepOk
<1>1. PICK order \in SetToSeqs(listed \ torn) : RestartWith(order, listed)
  BY DEF Restart, ReadableAmong
<1>2. ToSet(order) \subseteq listed
  BY <1>1 DEF SetToSeqs, ToSet
<1>3. /\ UNCHANGED <<logs, listed, claimFiles>>
      /\ promotion' = NoPromotion
      /\ claims' = [p \in Players |->
                       IF p \in listed THEN claimFiles[p] ELSE NoClaims]
      /\ DOMAIN profiles' = Players
      /\ \A p \in Players : profiles'[p] # None => p \in ToSet(order)
  BY <1>1 DEF RestartWith, files
<1>4. \A p \in Players, c \in Claims :
          claims'[p][c].status = claimFiles'[p][c].status
  BY <1>3 DEF FilesInv, UnlistedIsUnclaimed, NoClaims, AbsentClaim
<1>5. ActiveIsListed'
  BY <1>2, <1>3 DEF ActiveIsListed, NoPromotion
<1>6. UnlistedIsUnclaimed'
  BY <1>3 DEF FilesInv, UnlistedIsUnclaimed
<1>7. UNCHANGED Lifecycle!clVars
  BY <1>3, SameFiles
<1>. QED
  BY <1>3, <1>4, <1>5, <1>6, <1>7 DEF StepOk, FilesInv, MemoryFollowsFile

LEMMA NextStep ==
    ASSUME "load" \notin Faults, "open" \notin Faults
    PROVE  FilesInv /\ AwardInv /\ ClaimsTypeOK /\ ClaimsTypeOK' /\ [Next]_vars
               => StepOk
<1>. SUFFICES ASSUME FilesInv, AwardInv, ClaimsTypeOK, ClaimsTypeOK', [Next]_vars
              PROVE  StepOk
  OBVIOUS
<1>1. ASSUME NEW p \in Players, SetVector(p) PROVE StepOk
  BY <1>1, ReplaceVectorStep DEF SetVector
<1>2. ASSUME NEW p \in Players, NEW c \in Claims,
             SubmitAgain(p, c) \/ PromoteAgain(p, c)
      PROVE  StepOk
  BY <1>2, StutterStep DEF SubmitAgain, PromoteAgain, memory, files
<1>3. CASE UNCHANGED vars
  BY <1>3, StutterStep DEF vars, memory, files
<1>. QED
  BY <1>1, <1>2, <1>3, CreateProfileStep, MergeVectorStep, DirectAwardStep,
     SubmitNewStep, PromoteBeginStep, RejectStep, PromoteAwardStep,
     PromoteRecordStep, RestartStep DEF Next

-----------------------------------------------------------------------------
(* What was accepted is kept.  AcceptedClaimsAreKept is not inductive: a    *)
(* claim that memory knows is accepted again without a save, and a save     *)
(* replaces the whole file.  While no save fails, memory and files agree    *)
(* between any two steps, and that is the invariant.                        *)

MemoryIsSaved == claims = claimFiles

UnlistedIsEmpty == \A p \in Players \ listed : claimFiles[p] = NoClaims

KeptInv ==
    /\ MemoryIsSaved
    /\ UnlistedIsEmpty
    /\ AcceptedClaimsAreKept

\* Claims and files are left alone, and log files are only added.
LEMMA OtherStepKeeps ==
    ASSUME KeptInv, UNCHANGED <<claims, claimFiles, accepted>>, listed \subseteq listed'
    PROVE  KeptInv'
BY DEF KeptInv, MemoryIsSaved, UnlistedIsEmpty, AcceptedClaimsAreKept

\* Blocks are mined, with whatever outcome.
LEMMA BlockKeeps ==
    ASSUME KeptInv, NEW txn, NEW outcome, AddBlock(txn, outcome),
           UNCHANGED <<claims, claimFiles, accepted>>
    PROVE  KeptInv'
<1>1. listed \subseteq listed'
  BY DEF AddBlock, AppendBlock
<1>. QED
  BY <1>1, OtherStepKeeps

\* One claim changes, but does not disappear, and its player's claims are saved.
LEMMA SaveKeeps ==
    ASSUME KeptInv, ClaimsTypeOK, NEW p \in Players, p \in listed, NEW c \in Claims,
           PersistClaims(p, "ok"),
           NEW claim,
           \/ claim.status # "Absent"
           \/ claim.status = claims[p][c].status /\ accepted' = accepted,
           claims' = [claims EXCEPT ![p][c] = claim],
           accepted' \subseteq accepted \cup {<<p, c>>},
           UNCHANGED listed
    PROVE  KeptInv'
<1>1. claims \in [Players -> [Claims -> ClaimRecords]]
  BY DEF ClaimsTypeOK
<1>2. claimFiles' = [claimFiles EXCEPT ![p] = claims'[p]]
  BY DEF PersistClaims
<1>3. MemoryIsSaved'
  BY <1>1, <1>2 DEF KeptInv, MemoryIsSaved
<1>4. UnlistedIsEmpty'
  BY <1>2 DEF KeptInv, UnlistedIsEmpty
<1>5. ASSUME NEW pc \in accepted'
      PROVE  pc[1] \in listed' /\ claimFiles'[pc[1]][pc[2]].status # "Absent"
  <2>1. accepted \subseteq Players \X Claims
    BY DEF ClaimsTypeOK
  <2>2. pc \in accepted \/ pc = <<p, c>>
    BY <1>5
  <2>3. CASE pc = <<p, c>>
    <3>1. claims'[p][c] = claim
      BY <1>1
    <3>2. pc \in accepted => claims[p][c].status # "Absent"
      BY <2>3 DEF KeptInv, MemoryIsSaved, AcceptedClaimsAreKept
    <3>3. claim.status # "Absent"
      BY <1>5, <3>2
    <3>. QED
      BY <1>3, <2>3, <3>1, <3>3 DEF MemoryIsSaved
  <2>4. CASE pc \in accepted /\ pc # <<p, c>>
    <3>1. pc[1] \in Players /\ pc[2] \in Claims /\ pc = <<pc[1], pc[2]>>
      BY <2>1, <2>4
    <3>2. ~(pc[1] = p /\ pc[2] = c)
      BY <2>4, <3>1
    <3>3. claims'[pc[1]][pc[2]] = claims[pc[1]][pc[2]]
      BY <1>1, <3>1, <3>2
    <3>. QED
      BY <1>3, <2>4, <3>3 DEF KeptInv, MemoryIsSaved, AcceptedClaimsAreKept
  <2>. QED
    BY <2>2, <2>3, <2>4
<1>. QED
  BY <1>3, <1>4, <1>5 DEF KeptInv, AcceptedClaimsAreKept

\* A claim is accepted that memory, and so the file, has.
LEMMA SubmitAgainKeeps ==
    ASSUME KeptInv, FilesInv, ClaimsTypeOK, NEW p \in Players, NEW c \in Claims,
           SubmitAgain(p, c)
    PROVE  KeptInv'
<1>1. /\ UNCHANGED <<claims, claimFiles, listed>>
      /\ accepted' = accepted \cup {<<p, c>>}
      /\ claims[p][c].status # "Absent"
  BY DEF SubmitAgain, memory, files
<1>2. p \in listed
  BY DEF SubmitAgain, FilesInv, ActiveIsListed
<1>3. AcceptedClaimsAreKept'
  BY <1>1, <1>2 DEF KeptInv, MemoryIsSaved, AcceptedClaimsAreKept
<1>. QED
  BY <1>1, <1>3 DEF KeptInv, MemoryIsSaved, UnlistedIsEmpty

\* A submission, a promotion, its end, or a rejection, while saves succeed.
LEMMA ClaimKeeps ==
    ASSUME KeptInv, FilesInv, ClaimsTypeOK, "save" \notin Faults,
           \/ \E p \in Players, c \in Claims :
                SubmitNew(p, c) \/ PromoteBegin(p, c) \/ Reject(p, c)
           \/ PromoteRecord
    PROVE  KeptInv'
<1>1. SaveOutcomes = {"ok"}
  BY DEF SaveOutcomes
<1>2. claims \in [Players -> [Claims -> ClaimRecords]]
  BY DEF ClaimsTypeOK
<1>3. \A p \in Players : profiles[p] # None => p \in listed
  BY DEF FilesInv, ActiveIsListed
<1>4. ASSUME NEW p \in Players, NEW c \in Claims, SubmitNew(p, c)
      PROVE  KeptInv'
  <2>1. PICK a \in Achievements : claims' = [claims EXCEPT ![p][c] = PendingClaim(a)]
    BY <1>4 DEF SubmitNew
  <2>2. /\ PersistClaims(p, "ok")
        /\ accepted' = accepted \cup {<<p, c>>}
        /\ UNCHANGED listed
        /\ p \in listed
    BY <1>1, <1>3, <1>4 DEF SubmitNew
  <2>3. PendingClaim(a).status # "Absent"
    BY DEF PendingClaim
  <2>. QED
    BY <2>1, <2>2, <2>3, SaveKeeps
<1>5. ASSUME NEW p \in Players, NEW c \in Claims, PromoteBegin(p, c) \/ Reject(p, c)
      PROVE  KeptInv'
  <2>1. PICK s \in {"Promoted", "Rejected"} :
            claims' = [claims EXCEPT ![p][c].status = s]
    BY <1>5 DEF PromoteBegin, Reject
  <2>. DEFINE claim == [claims[p][c] EXCEPT !.status = s]
  <2>2. /\ PersistClaims(p, "ok")
        /\ UNCHANGED <<accepted, listed>>
        /\ p \in listed
    BY <1>1, <1>3, <1>5 DEF PromoteBegin, Reject, history
  <2>3. claim.status # "Absent"
    BY <1>2 DEF ClaimRecords
  <2>4. claims' = [claims EXCEPT ![p][c] = claim]
    BY <2>1
  <2>. HIDE DEF claim
  <2>. QED
    BY <2>2, <2>3, <2>4, SaveKeeps
<1>6. CASE PromoteRecord
  <2>1. PICK p \in Players, c \in Claims :
            p = promotion.player /\ c = promotion.claim
    BY <1>6 DEF PromoteRecord, ClaimsTypeOK, Promotions, NoPromotion
  <2>. DEFINE claim == [claims[p][c] EXCEPT !.award = promotion.hash]
  <2>2. /\ PersistClaims(p, "ok")
        /\ UNCHANGED <<accepted, listed>>
        /\ p \in listed
    BY <1>1, <1>6, <2>1 DEF PromoteRecord, FilesInv, ActiveIsListed
  <2>3. claim.status = claims[p][c].status
    BY <1>2 DEF ClaimRecords
  <2>4. claims' = [claims EXCEPT ![p][c] = claim]
    BY <1>6, <2>1 DEF PromoteRecord
  <2>. HIDE DEF claim
  <2>. QED
    BY <2>2, <2>3, <2>4, SaveKeeps
<1>. QED
  BY <1>4, <1>5, <1>6

\* A restart reads back what memory had.
LEMMA RestartKeeps ==
    ASSUME KeptInv, ClaimsTypeOK, "load" \notin Faults, Restart
    PROVE  KeptInv'
<1>1. /\ UNCHANGED <<claimFiles, listed, accepted>>
      /\ claims' = [p \in Players |->
                       IF p \in listed THEN claimFiles[p] ELSE NoClaims]
  BY DEF Restart, ReadableAmong, RestartWith, files, history
<1>2. claimFiles = [p \in Players |-> claimFiles[p]]
  BY DEF ClaimsTypeOK
<1>3. claims' = claimFiles
  BY <1>1, <1>2 DEF KeptInv, UnlistedIsEmpty
<1>. QED
  BY <1>1, <1>3 DEF KeptInv, MemoryIsSaved, UnlistedIsEmpty, AcceptedClaimsAreKept

LEMMA NextKeeps ==
    ASSUME "save" \notin Faults, "load" \notin Faults
    PROVE  KeptInv /\ FilesInv /\ ClaimsTypeOK /\ [Next]_vars => KeptInv'
<1>. SUFFICES ASSUME KeptInv, FilesInv, ClaimsTypeOK, [Next]_vars
              PROVE  KeptInv'
  OBVIOUS
<1>1. ASSUME NEW p \in Players,
             \/ CreateProfile(p) \/ SetVector(p)
             \/ AwardEntitlement(p) \/ AwardAchievement(p)
      PROVE  KeptInv'
  <2>1. /\ \E txn, outcome : AddBlock(txn, outcome)
        /\ UNCHANGED <<claims, claimFiles, accepted>>
    BY <1>1 DEF CreateProfile, SetVector, ReplaceVector, AwardEntitlement,
                AwardAchievement, GiveEntitlement, GiveAchievement
  <2>. QED
    BY <2>1, BlockKeeps
<1>2. ASSUME NEW p \in Players, MergeVector(p)
      PROVE  KeptInv'
  <2>1. /\ (\E txn, outcome : AddBlock(txn, outcome)) \/ UNCHANGED listed
        /\ UNCHANGED <<claims, claimFiles, accepted>>
    BY <1>2 DEF MergeVector, ReplaceVector, files, history
  <2>. QED
    BY <2>1, BlockKeeps, OtherStepKeeps
<1>3. CASE PromoteAward
  <2>1. /\ \E txn, outcome : AddBlock(txn, outcome)
        /\ UNCHANGED <<claims, claimFiles, accepted>>
    BY <1>3 DEF PromoteAward, GiveAchievement
  <2>. QED
    BY <2>1, BlockKeeps
<1>4. ASSUME NEW p \in Players, NEW c \in Claims, PromoteAgain(p, c)
      PROVE  KeptInv'
  BY <1>4, OtherStepKeeps DEF PromoteAgain, memory, files
<1>5. CASE UNCHANGED vars
  BY <1>5, OtherStepKeeps DEF vars, memory, files, history
<1>. QED
  BY <1>1, <1>2, <1>3, <1>4, <1>5, SubmitAgainKeeps, ClaimKeeps, RestartKeeps DEF Next

-----------------------------------------------------------------------------
(* The lifecycle: the theorems. *)

LEMMA FilesInvariant ==
    ASSUME "load" \notin Faults, "open" \notin Faults
    PROVE  Spec => []FilesInv
<1>1. FilesInv /\ AwardInv /\ ClaimsTypeOK /\ ClaimsTypeOK' /\ [Next]_vars => FilesInv'
  BY NextStep DEF StepOk
<1>2. Spec => []AwardInv /\ []ClaimsTypeOK
  BY AwardInvariant, ClaimsTypes, PTL
<1>. QED
  BY <1>1, <1>2, InitFiles, PTL DEF Spec

\* While every claim file is read at start and every append at least creates
\* its log file, the claim files and logs of PlayerProfileService only ever
\* move as ClaimLifecycle allows: a decision on disk is never revised, and a
\* claim is awarded once, after its promotion is on disk.
THEOREM ClaimsRefineLifecycle ==
    ASSUME "load" \notin Faults, "open" \notin Faults
    PROVE  Spec => ClaimsFollowLifecycle
<1>1. Init => FilesInv /\ Lifecycle!CLInit
  BY InitFiles, InitIsInit
<1>2. FilesInv /\ AwardInv /\ ClaimsTypeOK /\ ClaimsTypeOK' /\ [Next]_vars
          => FilesInv' /\ [Lifecycle!CLNext]_(Lifecycle!clVars)
  BY NextStep DEF StepOk
<1>3. Spec => []AwardInv /\ []ClaimsTypeOK
  BY AwardInvariant, ClaimsTypes, PTL
<1>. QED
  BY <1>1, <1>2, <1>3, PTL DEF Spec, ClaimsFollowLifecycle, Lifecycle!CLSpec

LEMMA KeptInvariant ==
    ASSUME "load" \notin Faults, "open" \notin Faults, "save" \notin Faults
    PROVE  Spec => []KeptInv
<1>1. Init => KeptInv
  BY DEF Init, KeptInv, MemoryIsSaved, UnlistedIsEmpty, AcceptedClaimsAreKept
<1>2. KeptInv /\ FilesInv /\ ClaimsTypeOK /\ [Next]_vars => KeptInv'
  BY NextKeeps
<1>3. Spec => []FilesInv /\ []ClaimsTypeOK
  BY FilesInvariant, ClaimsTypes, PTL
<1>. QED
  BY <1>1, <1>2, <1>3, PTL DEF Spec

\* While claim files are read at start, every append at least creates its log
\* file and no save fails, a submission that was answered Ok, the first or a
\* repeated one, is in a claim file that the next start reads, whatever
\* becomes of the logs.
THEOREM AcceptedClaimsSurvive ==
    ASSUME "load" \notin Faults, "open" \notin Faults, "save" \notin Faults
    PROVE  Spec => []AcceptedClaimsAreKept
BY KeptInvariant, PTL DEF KeptInv

-----------------------------------------------------------------------------
(* The chain and the logs. *)

\* A claim that was submitted names an achievement, and so does the claim of
\* which the award is due.
ClaimsNameAchievements ==
    /\ \A p \in Players, c \in Claims :
        /\ claims[p][c].status # "Absent" => claims[p][c].achievement \in Achievements
        /\ claimFiles[p][c].status # "Absent" =>
                claimFiles[p][c].achievement \in Achievements
    /\ promotion.stage = "award" =>
        claims[promotion.player][promotion.claim].status # "Absent"

\* A log with blocks is a file that exists.
LogsAreListed == \A p \in Players : logs[p] # <<>> => p \in listed

\* The type invariant, with what its proof needs besides.
TypeInv ==
    /\ ClaimsTypeOK
    /\ BlocksTypeOK
    /\ LogsAreListed
    /\ IsFiniteSet(listed)
    /\ ClaimsNameAchievements

-----------------------------------------------------------------------------
(* What a step does. *)

\* The reward state once an award is in the chain.
Rewarded(state, txn) ==
    CASE txn.kind = "entitlement" ->
            WithEntitlement(state, txn.payload)
      [] txn.kind = "achievement" ->
            WithAchievement(state, txn.payload)
      [] OTHER -> state

\* An operation mines a block, and memory changes as its transaction says.
Mines(txn, outcome) ==
    /\ AddBlock(txn, outcome)
    /\ poisoned' = poisoned
    /\ profiles' = IF txn.kind = "profile"
                   THEN [profiles EXCEPT ![txn.player] = txn.payload]
                   ELSE profiles
    /\ rewards' = [p \in Players |-> rewards'[p]]
    /\ \A p \in Players : p # txn.player => rewards'[p] = rewards[p]
    /\ txn.kind # "profile" =>
        rewards'[txn.player] = Rewarded(OrDefault(rewards[txn.player]), txn)
    /\ txn.kind = "profile" =>
        rewards'[txn.player] \in {rewards[txn.player], OrDefault(rewards[txn.player])}

\* All that mining and replay are about.
chain == <<profiles, rewards, ledger, logs, listed, torn, minted>>

\* set_profile_vector, and merge_vector of one dimension.
LEMMA ReplaceVectorMines ==
    ASSUME TypeInv, NEW p \in Players, NEW vector \in Vectors, ReplaceVector(p, vector)
    PROVE  \E txn \in Transactions, outcome \in AppendOutcomes : Mines(txn, outcome)
<1> DEFINE txn == ProfileChange(p, vector)
<1>1. txn \in Transactions /\ txn.player = p /\ txn.kind = "profile" /\ txn.payload = vector
  BY DEF ProfileChange, Transactions
<1>2. PICK outcome \in AppendOutcomes : AddBlock(txn, outcome)
  BY DEF ReplaceVector
<1>3. profiles' = [profiles EXCEPT ![p] = vector] /\ rewards' = rewards
      /\ poisoned' = poisoned
  BY DEF ReplaceVector
<1>4. rewards = [q \in Players |-> rewards[q]]
  BY DEF TypeInv, BlocksTypeOK
<1> HIDE DEF txn
<1>5. Mines(txn, outcome)
  BY <1>1, <1>2, <1>3, <1>4 DEF Mines
<1> QED
  BY <1>1, <1>5

\* create_profile.
LEMMA CreateProfileMines ==
    ASSUME TypeInv, NEW p \in Players, CreateProfile(p)
    PROVE  \E txn \in Transactions, outcome \in AppendOutcomes : Mines(txn, outcome)
<1> DEFINE txn == ProfileChange(p, EmptyVector)
<1>1. txn \in Transactions /\ txn.player = p /\ txn.kind = "profile"
      /\ txn.payload = EmptyVector
  BY DimsAssumption DEF ProfileChange, Transactions, EmptyVector, Vectors
<1>2. PICK outcome \in AppendOutcomes : AddBlock(txn, outcome)
  BY DEF CreateProfile
<1>3. profiles' = [profiles EXCEPT ![p] = EmptyVector]
      /\ rewards' = [rewards EXCEPT ![p] = OrDefault(rewards[p])]
      /\ poisoned' = poisoned
  BY DEF CreateProfile
<1>4. rewards = [q \in Players |-> rewards[q]]
  BY DEF TypeInv, BlocksTypeOK
<1> HIDE DEF txn
<1>5. Mines(txn, outcome)
  BY <1>1, <1>2, <1>3, <1>4 DEF Mines
<1> QED
  BY <1>1, <1>5

\* award_entitlement.
LEMMA EntitlementMines ==
    ASSUME TypeInv, NEW p \in Players, AwardEntitlement(p)
    PROVE  \E txn \in Transactions, outcome \in AppendOutcomes : Mines(txn, outcome)
<1>1. PICK e \in Entitlements, outcome \in AppendOutcomes : GiveEntitlement(p, e, outcome)
  BY DEF AwardEntitlement
<1> DEFINE txn == EntitlementAward(p, e)
<1>2. txn \in Transactions /\ txn.player = p /\ txn.kind = "entitlement" /\ txn.payload = e
  BY DEF EntitlementAward, Transactions
<1>3. AddBlock(txn, outcome)
  BY <1>1 DEF GiveEntitlement
<1>4. profiles' = profiles
      /\ poisoned' = poisoned
      /\ rewards' = [rewards EXCEPT ![p] =
            WithEntitlement(OrDefault(rewards[p]), e)]
  BY <1>1 DEF AwardEntitlement, GiveEntitlement
<1>5. rewards = [q \in Players |-> rewards[q]]
  BY DEF TypeInv, BlocksTypeOK
<1>6. Rewarded(OrDefault(rewards[p]), txn) =
        WithEntitlement(OrDefault(rewards[p]), e)
  BY <1>2 DEF Rewarded
<1> HIDE DEF txn
<1>7. Mines(txn, outcome)
  BY <1>2, <1>3, <1>4, <1>5, <1>6 DEF Mines
<1> QED
  BY <1>2, <1>7

\* award_achievement, by itself or in a promotion.
LEMMA AchievementMines ==
    ASSUME TypeInv, NEW p \in Players, NEW a \in Achievements,
           NEW via \in Claims \cup {None}, NEW outcome \in AppendOutcomes,
           GiveAchievement(p, a, via, outcome),
           profiles' = profiles, poisoned' = poisoned
    PROVE  \E txn \in Transactions, o \in AppendOutcomes : Mines(txn, o)
<1> DEFINE txn == AchievementAward(p, a, via)
<1>2. txn \in Transactions /\ txn.player = p /\ txn.kind = "achievement" /\ txn.payload = a
  BY DEF AchievementAward, Transactions
<1>3. AddBlock(txn, outcome)
  BY DEF GiveAchievement
<1>4. rewards' = [rewards EXCEPT ![p] =
            WithAchievement(OrDefault(rewards[p]), a)]
  BY DEF GiveAchievement
<1>5. rewards = [q \in Players |-> rewards[q]]
  BY DEF TypeInv, BlocksTypeOK
<1>6. Rewarded(OrDefault(rewards[p]), txn) =
        WithAchievement(OrDefault(rewards[p]), a)
  BY <1>2 DEF Rewarded
<1> HIDE DEF txn
<1>7. Mines(txn, outcome)
  BY <1>2, <1>3, <1>4, <1>5, <1>6 DEF Mines
<1> QED
  BY <1>2, <1>7

\* The award of a promotion.
LEMMA PromoteAwardMines ==
    ASSUME TypeInv, PromoteAward
    PROVE  \E txn \in Transactions, o \in AppendOutcomes : Mines(txn, o)
<1> DEFINE p == promotion.player
           c == promotion.claim
           a == claims[p][c].achievement
<1>1. p \in Players /\ c \in Claims
  BY DEF PromoteAward, TypeInv, ClaimsTypeOK, Promotions, NoPromotion
<1>2. a \in Achievements
  BY <1>1 DEF PromoteAward, TypeInv, ClaimsNameAchievements
<1>3. PICK outcome \in AppendOutcomes : GiveAchievement(p, a, c, outcome)
  BY DEF PromoteAward
<1>4. profiles' = profiles /\ poisoned' = poisoned
  BY DEF PromoteAward
<1> HIDE DEF p, c, a
<1> QED
  BY <1>1, <1>2, <1>3, <1>4, AchievementMines

\* Every step mines one block, restarts the service, or leaves the chain, the
\* logs and what they are replayed to as they are.
LEMMA Steps ==
    ASSUME TypeInv, [Next]_vars
    PROVE  \/ \E txn \in Transactions, outcome \in AppendOutcomes : Mines(txn, outcome)
           \/ Restart
           \/ UNCHANGED chain /\ poisoned' \in BOOLEAN
<1>9. poisoned \in BOOLEAN
  BY DEF TypeInv, BlocksTypeOK
<1>1. ASSUME NEW p \in Players, NEW c \in Claims,
             SubmitNew(p, c) \/ SubmitAgain(p, c) \/ PromoteBegin(p, c)
                \/ PromoteAgain(p, c) \/ Reject(p, c)
      PROVE  UNCHANGED chain /\ poisoned' \in BOOLEAN
  BY <1>1, <1>9 DEF SubmitNew, SubmitAgain, PromoteBegin, PromoteAgain, Reject, chain,
              memory, files, history
<1>2. PromoteRecord => UNCHANGED chain /\ poisoned' \in BOOLEAN
  BY <1>9 DEF PromoteRecord, chain
<1>3. UNCHANGED vars => UNCHANGED chain /\ poisoned' \in BOOLEAN
  BY <1>9 DEF vars, memory, files, history, chain
<1>4. ASSUME NEW p \in Players, MergeVector(p)
      PROVE  \/ \E txn \in Transactions, outcome \in AppendOutcomes : Mines(txn, outcome)
             \/ UNCHANGED chain /\ poisoned' \in BOOLEAN
  <2>1. PICK vector \in Vectors :
            IF vector.dim = profiles[p].dim
            THEN ReplaceVector(p, Xor(profiles[p], vector))
            ELSE /\ poisoned' = TRUE
                 /\ UNCHANGED <<profiles, rewards, claims, ledger, promotion,
                                files, history>>
    BY <1>4 DEF MergeVector
  <2>2. CASE vector.dim = profiles[p].dim
    <3>1. profiles[p] \in Vectors
      BY <1>4 DEF MergeVector, TypeInv, BlocksTypeOK
    <3>2. Xor(profiles[p], vector) \in Vectors
      BY <3>1 DEF Xor, Vectors
    <3> QED
      BY <2>1, <2>2, <3>2, ReplaceVectorMines
  <2>3. CASE vector.dim # profiles[p].dim
    BY <2>1, <2>3 DEF chain, files, history
  <2> QED
    BY <2>2, <2>3
<1>5. ASSUME NEW p \in Players, AwardAchievement(p)
      PROVE  \E txn \in Transactions, outcome \in AppendOutcomes : Mines(txn, outcome)
  <2>1. PICK a \in Achievements, outcome \in AppendOutcomes :
            GiveAchievement(p, a, None, outcome)
    BY <1>5 DEF AwardAchievement
  <2> QED
    BY <1>5, <2>1, AchievementMines DEF AwardAchievement
<1>6. ASSUME NEW p \in Players, SetVector(p)
      PROVE  \E txn \in Transactions, outcome \in AppendOutcomes : Mines(txn, outcome)
  BY <1>6, ReplaceVectorMines DEF SetVector
<1>7. CASE UNCHANGED vars
  BY <1>3, <1>7
<1>8. CASE Next
  BY <1>1, <1>2, <1>4, <1>5, <1>6, <1>8, CreateProfileMines, EntitlementMines,
     PromoteAwardMines DEF Next
<1> QED
  BY <1>7, <1>8

-----------------------------------------------------------------------------
(* Types of blocks. *)

\* The block that an operation mines.
Mined(txn, outcome, block) ==
    /\ block \in Blocks
    /\ block.hash = minted + 1
    /\ block.digest = block.hash
    /\ block.prev = TipHash(ledger)
    /\ block.txn = txn
    /\ block.time \in Timestamps
    /\ minted' = minted + 1
    /\ ledger' = Append(ledger, block)
    /\ AppendBlock(txn.player, block, outcome)

\* The types of a block's fields.
LEMMA BlockFields ==
    ASSUME NEW block \in Blocks
    PROVE  /\ block.hash \in 1..MaxBlocks
           /\ block.digest \in 1..MaxBlocks
           /\ block.time \in 1..MaxBlocks
           /\ block.hash \in Nat
           /\ block.time \in Nat
           /\ block.txn \in Transactions
           /\ block.txn.player \in Players
  BY MaxBlocksAssumption DEF Blocks, Transactions

\* The genesis hash is the tip of the empty chain only.
LEMMA TipHashType ==
    ASSUME NEW c \in Seq(Blocks)
    PROVE  /\ TipHash(c) \in 0..MaxBlocks
           /\ TipHash(c) = 0 <=> c = <<>>
<1>1. CASE c = <<>>
  BY <1>1, MaxBlocksAssumption DEF TipHash, GenesisHash
<1>2. CASE c # <<>>
  <2>1. c[Len(c)] \in Blocks
    BY <1>2
  <2>2. c[Len(c)].hash \in 1..MaxBlocks
    BY <2>1 DEF Blocks
  <2> QED
    BY <1>2, <2>2, MaxBlocksAssumption DEF TipHash
<1> QED
  BY <1>1, <1>2

\* add_block and append_block make and log one block.
LEMMA AddBlockMines ==
    ASSUME TypeInv, NEW txn \in Transactions, NEW outcome, AddBlock(txn, outcome)
    PROVE  \E block : Mined(txn, outcome, block)
<1>1. minted \in Nat /\ minted < MaxBlocks /\ minted' = minted + 1
      /\ minted + 1 \in 1..MaxBlocks
  BY MaxBlocksAssumption DEF AddBlock, TypeInv, ClaimsTypeOK
<1>2. PICK t \in Timestamps :
        /\ ledger' = Append(ledger, CreateBlock(ledger, minted + 1, t, txn))
        /\ AppendBlock(txn.player, CreateBlock(ledger, minted + 1, t, txn), outcome)
  BY DEF AddBlock
<1>3. t \in 1..MaxBlocks
  BY <1>1 DEF Timestamps
<1>4. TipHash(ledger) \in 0..MaxBlocks
  BY TipHashType DEF TypeInv, BlocksTypeOK
<1> DEFINE block == CreateBlock(ledger, minted + 1, t, txn)
<1>5. block \in Blocks
  BY <1>1, <1>3, <1>4 DEF CreateBlock, Blocks
<1>6. /\ block.hash = minted + 1
      /\ block.digest = block.hash
      /\ block.prev = TipHash(ledger)
      /\ block.txn = txn
      /\ block.time = t
  BY DEF CreateBlock
<1>7. /\ ledger' = Append(ledger, block)
      /\ AppendBlock(txn.player, block, outcome)
  BY <1>2
<1> HIDE DEF block
<1> QED
  BY <1>1, <1>2, <1>5, <1>6, <1>7 DEF Mined

\* What append_block leaves on disk.
LEMMA LogsAfter ==
    ASSUME TypeInv, NEW p \in Players, NEW block \in Blocks, NEW outcome,
           AppendBlock(p, block, outcome)
    PROVE  /\ logs' \in [Players -> Seq(Blocks)]
           /\ \A q \in Players : \/ logs'[q] = logs[q]
                                 \/ q = p /\ logs'[q] = Append(logs[q], block)
           /\ \A q \in Players : q # p => logs'[q] = logs[q]
           /\ outcome \in {"ok", "sync"} => logs'[p] = Append(logs[p], block)
           /\ torn \subseteq torn'
           /\ torn' \subseteq listed'
           /\ listed \subseteq listed'
           /\ listed' \subseteq listed \cup {p}
           /\ LogsAreListed'
           /\ IsFiniteSet(listed')
<1>1. logs \in [Players -> Seq(Blocks)] /\ torn \subseteq listed /\ listed \subseteq Players
  BY DEF TypeInv, BlocksTypeOK
<1>2. logs' = logs \/ (logs' = [logs EXCEPT ![p] = Append(@, block)]
                       /\ outcome \in {"ok", "sync"})
  BY DEF AppendBlock
<1>3. outcome \in {"ok", "sync"} => logs' = [logs EXCEPT ![p] = Append(@, block)]
  BY DEF AppendBlock
<1>4. Append(logs[p], block) \in Seq(Blocks)
  BY <1>1
<1>5. /\ logs' \in [Players -> Seq(Blocks)]
      /\ \A q \in Players : \/ logs'[q] = logs[q]
                            \/ q = p /\ logs'[q] = Append(logs[q], block)
      /\ \A q \in Players : q # p => logs'[q] = logs[q]
      /\ outcome \in {"ok", "sync"} => logs'[p] = Append(logs[p], block)
  BY <1>1, <1>2, <1>3, <1>4
<1>6. listed' = listed \/ (listed' = listed \cup {p})
  BY DEF AppendBlock
<1>7. outcome \in {"ok", "sync", "torn"} => p \in listed'
  BY DEF AppendBlock, FileExistsAfter
<1>8. torn' = torn \/ (torn' = torn \cup {p} /\ outcome = "torn")
  BY DEF AppendBlock
<1>9. LogsAreListed'
  BY <1>1, <1>2, <1>6, <1>7 DEF TypeInv, LogsAreListed
<1>10. IsFiniteSet(listed')
  BY <1>6, FS_AddElement DEF TypeInv
<1> QED
  BY <1>1, <1>5, <1>6, <1>7, <1>8, <1>9, <1>10

\* An award keeps the type of a reward state.
LEMMA RewardedType ==
    ASSUME NEW txn \in Transactions, NEW state \in Rewards
    PROVE  Rewarded(state, txn) \in Rewards
<1>1. CASE txn.kind = "entitlement"
  BY <1>1 DEF Transactions, Rewarded, Rewards, WithEntitlement
<1>2. CASE txn.kind = "achievement"
  BY <1>2 DEF Transactions, Rewarded, Rewards, WithAchievement
<1>3. CASE txn.kind = "profile"
  BY <1>3 DEF Rewarded
<1> QED
  BY <1>1, <1>2, <1>3 DEF Transactions

\* So does the default for a player without one.
LEMMA OrDefaultType ==
    ASSUME NEW state \in Rewards \cup {None}
    PROVE  OrDefault(state) \in Rewards
  BY DEF OrDefault, Rewards, NoRewards

\* An operation keeps the types.
LEMMA MinesTypes ==
    ASSUME TypeInv, NEW txn \in Transactions, NEW outcome \in AppendOutcomes,
           Mines(txn, outcome)
    PROVE  BlocksTypeOK' /\ LogsAreListed' /\ IsFiniteSet(listed')
<1>1. PICK block : Mined(txn, outcome, block)
  BY AddBlockMines DEF Mines
<1> DEFINE p == txn.player
<1>2. p \in Players /\ (txn.kind = "profile" => txn.payload \in Vectors)
  BY DEF Transactions
<1>3. profiles' \in [Players -> Vectors \cup {None}]
  BY <1>2 DEF TypeInv, BlocksTypeOK, Mines
<1>4. \A q \in Players : rewards'[q] \in Rewards \cup {None}
  <2> TAKE q \in Players
  <2>1. rewards[q] \in Rewards \cup {None}
    BY DEF TypeInv, BlocksTypeOK
  <2>2. OrDefault(rewards[q]) \in Rewards
    BY <2>1, OrDefaultType
  <2>3. Rewarded(OrDefault(rewards[q]), txn) \in Rewards
    BY <2>2, RewardedType
  <2> QED
    BY <2>1, <2>2, <2>3 DEF Mines
<1>5. rewards' \in [Players -> Rewards \cup {None}]
  <2>1. rewards' = [q \in Players |-> rewards'[q]]
    BY DEF Mines
  <2> QED
    BY <1>4, <2>1
<1>6. ledger' \in Seq(Blocks)
  BY <1>1 DEF Mined, TypeInv, BlocksTypeOK
<1>7. /\ logs' \in [Players -> Seq(Blocks)]
      /\ torn' \subseteq listed'
      /\ listed' \subseteq listed \cup {p}
      /\ LogsAreListed'
      /\ IsFiniteSet(listed')
  BY <1>1, <1>2, LogsAfter DEF Mined
<1>8. poisoned' \in BOOLEAN
  BY DEF TypeInv, BlocksTypeOK, Mines
<1> QED
  BY <1>2, <1>3, <1>5, <1>6, <1>7, <1>8 DEF TypeInv, BlocksTypeOK

-----------------------------------------------------------------------------
(* What a player's part of a chain adds up to. *)

\* What a transaction may carry.
AllPayloads == Vectors \cup Entitlements \cup Achievements
PayloadsOf(c) == [i \in DOMAIN c |-> c[i].txn.payload]
Mine(c, p, kind) == {i \in DOMAIN c : c[i].txn.player = p /\ c[i].txn.kind = kind}

\* The payload of a transaction has the type of its kind.
LEMMA PayloadType ==
    ASSUME NEW txn \in Transactions
    PROVE  /\ txn.payload \in AllPayloads
           /\ txn.kind = "profile" => txn.payload \in Vectors
           /\ txn.kind = "entitlement" => txn.payload \in Entitlements
           /\ txn.kind = "achievement" => txn.payload \in Achievements
           /\ txn.kind \in {"profile", "entitlement", "achievement"}
  BY DEF Transactions, AllPayloads

\* Payloads are elements at positions.
LEMMA PayloadsIs ==
    ASSUME NEW c \in Seq(Blocks), NEW p, NEW kind
    PROVE  /\ PayloadsOf(c) \in Seq(AllPayloads)
           /\ Len(PayloadsOf(c)) = Len(c)
           /\ \A i \in 1..Len(c) : PayloadsOf(c)[i] = c[i].txn.payload
           /\ Mine(c, p, kind) \in SUBSET (1..Len(c))
           /\ Payloads(c, p, kind) = At(PayloadsOf(c), Mine(c, p, kind))
<1>1. ASSUME NEW i \in 1..Len(c)
      PROVE  c[i].txn.payload \in AllPayloads
  <2>1. c[i] \in Blocks
    OBVIOUS
  <2> QED
    BY <2>1, BlockFields, PayloadType
<1>2. DOMAIN c = 1..Len(c)
  OBVIOUS
<1>3. /\ PayloadsOf(c) \in Seq(AllPayloads)
      /\ Len(PayloadsOf(c)) = Len(c)
      /\ \A i \in 1..Len(c) : PayloadsOf(c)[i] = c[i].txn.payload
  BY <1>1, <1>2 DEF PayloadsOf
<1>4. Mine(c, p, kind) \in SUBSET (1..Len(c))
  BY <1>2 DEF Mine
<1>5. Payloads(c, p, kind) = At(PayloadsOf(c), Mine(c, p, kind))
  BY DEF Payloads, PayloadsOf, Mine
<1> QED
  BY <1>3, <1>4, <1>5

\* Payloads of a kind have the type of that kind.
LEMMA PayloadsType ==
    ASSUME NEW c \in Seq(Blocks), NEW p
    PROVE  /\ Payloads(c, p, "profile") \in Seq(Vectors)
           /\ Payloads(c, p, "entitlement") \in Seq(Entitlements)
           /\ Payloads(c, p, "achievement") \in Seq(Achievements)
<1>1. ASSUME NEW kind, NEW C,
             \A txn \in Transactions : txn.kind = kind => txn.payload \in C
      PROVE  Payloads(c, p, kind) \in Seq(C)
  <2> DEFINE s == PayloadsOf(c)
             K == Mine(c, p, kind)
  <2>1. /\ s \in Seq(AllPayloads)
        /\ K \in SUBSET (1..Len(s))
        /\ Payloads(c, p, kind) = At(s, K)
        /\ Len(s) = Len(c)
        /\ \A i \in 1..Len(c) : s[i] = c[i].txn.payload
    BY PayloadsIs
  <2>2. \A k \in K : c[k].txn.kind = kind
    BY DEF Mine
  <2> HIDE DEF s, K
  <2>3. ASSUME NEW k \in K
        PROVE  s[k] \in C
    <3>1. k \in 1..Len(c)
      BY <2>1
    <3>2. c[k].txn \in Transactions
      <4>1. c[k] \in Blocks
        BY <3>1
      <4> QED
        BY <4>1, BlockFields
    <3> QED
      BY <1>1, <2>1, <2>2, <3>1, <3>2
  <2>4. At(s, K) \in Seq(C)
    BY <2>1, <2>3, AtIn
  <2> QED
    BY <2>1, <2>4
<1> QED
  BY <1>1, PayloadType

\* One more block adds its payload to those of its player and kind.
LEMMA PayloadsAppend ==
    ASSUME NEW c \in Seq(Blocks), NEW b \in Blocks, NEW p, NEW kind
    PROVE  Payloads(Append(c, b), p, kind) =
             IF b.txn.player = p /\ b.txn.kind = kind
             THEN Append(Payloads(c, p, kind), b.txn.payload)
             ELSE Payloads(c, p, kind)
<1> DEFINE d == Append(c, b)
           s == PayloadsOf(c)
           K == Mine(c, p, kind)
           e == b.txn.payload
<1>1. d \in Seq(Blocks) /\ Len(d) = Len(c) + 1 /\ d[Len(c) + 1] = b
      /\ \A i \in 1..Len(c) : d[i] = c[i]
  OBVIOUS
<1>2. /\ s \in Seq(AllPayloads)
      /\ Len(s) = Len(c)
      /\ \A i \in 1..Len(c) : s[i] = c[i].txn.payload
      /\ K \in SUBSET (1..Len(c))
      /\ Payloads(c, p, kind) = At(s, K)
  BY PayloadsIs
<1>3. /\ PayloadsOf(d) \in Seq(AllPayloads)
      /\ Len(PayloadsOf(d)) = Len(d)
      /\ \A i \in 1..Len(d) : PayloadsOf(d)[i] = d[i].txn.payload
      /\ Payloads(d, p, kind) = At(PayloadsOf(d), Mine(d, p, kind))
  BY <1>1, PayloadsIs
<1>4. e \in AllPayloads
  BY PayloadType DEF Blocks
<1>5. Mine(d, p, kind) = IF b.txn.player = p /\ b.txn.kind = kind
                         THEN K \cup {Len(c) + 1} ELSE K
  BY <1>1 DEF Mine
<1> HIDE DEF d, K, e
<1>6. PayloadsOf(d) = Append(s, e)
  <2>1. Len(Append(s, e)) = Len(c) + 1 /\ Append(s, e) \in Seq(AllPayloads)
    BY <1>2, <1>4
  <2>2. \A i \in 1..Len(c) + 1 : PayloadsOf(d)[i] = Append(s, e)[i]
    BY <1>1, <1>2, <1>3, <1>4 DEF e
  <2> QED
    BY <1>1, <1>3, <2>1, <2>2, SeqEqual
<1> HIDE DEF s
<1>7. At(Append(s, e), K \cup {Len(c) + 1}) = Append(At(s, K), e)
  BY <1>2, <1>4, AtAppendNew
<1>8. At(Append(s, e), K) = At(s, K)
  BY <1>2, <1>4, AtAppendOld
<1>9. Payloads(d, p, kind) = IF b.txn.player = p /\ b.txn.kind = kind
                             THEN Append(Payloads(c, p, kind), e)
                             ELSE Payloads(c, p, kind)
  BY <1>2, <1>3, <1>5, <1>6, <1>7, <1>8
<1> QED
  BY <1>9 DEF d, e

\* A chain in which a player has no block says nothing of the player.
LEMMA PayloadsOfOthers ==
    ASSUME NEW c \in Seq(Blocks), NEW p, NEW kind,
           \A i \in 1..Len(c) : c[i].txn.player # p
    PROVE  Payloads(c, p, kind) = <<>>
<1>1. Mine(c, p, kind) = {}
  BY DEF Mine
<1>2. /\ At(PayloadsOf(c), {}) \in Seq(AllPayloads)
      /\ Len(At(PayloadsOf(c), {})) = Cardinality({})
  <2> DEFINE s == PayloadsOf(c)
  <2>1. s \in Seq(AllPayloads)
    BY PayloadsIs
  <2> HIDE DEF s
  <2>2. {} \in SUBSET (1..Len(s))
    OBVIOUS
  <2>3. At(s, {}) \in Seq(AllPayloads) /\ Len(At(s, {})) = Cardinality({})
    BY <2>1, <2>2, AtIs
  <2> QED
    BY <2>3 DEF s
<1>3. Payloads(c, p, kind) = At(PayloadsOf(c), Mine(c, p, kind))
  BY PayloadsIs
<1> QED
  BY <1>1, <1>2, <1>3, FS_EmptySet, EmptySeq

\* The reward state a chain adds up to, an entry or not.
LEMMA ReplayRewardsIs ==
    ASSUME NEW c \in Seq(Blocks), NEW p
    PROVE  /\ ReplayRewards(c, p) \in Rewards \cup {None}
           /\ OrDefault(ReplayRewards(c, p)) =
                [entitlements |-> Payloads(c, p, "entitlement"),
                 achievements |-> Payloads(c, p, "achievement")]
<1> DEFINE state == [entitlements |-> Payloads(c, p, "entitlement"),
                     achievements |-> Payloads(c, p, "achievement")]
<1>1. state \in Rewards
  BY PayloadsType DEF Rewards
<1>2. state # None
  BY <1>1, NoneAssumption DEF Rewards
<1>3. ReplayRewards(c, p) = IF state = NoRewards THEN None ELSE state
  BY DEF ReplayRewards
<1> HIDE DEF state
<1>4. OrDefault(ReplayRewards(c, p)) = state
  BY <1>2, <1>3 DEF OrDefault
<1> QED
  BY <1>1, <1>3, <1>4 DEF state

\* A replayed profile is a vector, or none.
LEMMA ReplayProfileType ==
    ASSUME NEW c \in Seq(Blocks), NEW p
    PROVE  ReplayProfile(c, p) \in Vectors \cup {None}
<1>1. Payloads(c, p, "profile") \in Seq(Vectors)
  BY PayloadsType
<1> QED
  BY <1>1 DEF ReplayProfile

\* An award to a reward state, written out.
LEMMA WithIs ==
    ASSUME NEW x, NEW y, NEW e
    PROVE  /\ WithEntitlement([entitlements |-> x, achievements |-> y], e) =
                [entitlements |-> Append(x, e), achievements |-> y]
           /\ WithAchievement([entitlements |-> x, achievements |-> y], e) =
                [entitlements |-> x, achievements |-> Append(y, e)]
<1> DEFINE state == [entitlements |-> x, achievements |-> y]
           z == Append(x, e)
           w == Append(y, e)
<1>1. state.entitlements = x /\ state.achievements = y
  OBVIOUS
<1>2. /\ WithEntitlement(state, e) = [state EXCEPT !.entitlements = z]
      /\ WithAchievement(state, e) = [state EXCEPT !.achievements = w]
  BY <1>1, Zenon DEF WithEntitlement, WithAchievement
<1> HIDE DEF z, w
<1>3. /\ [state EXCEPT !.entitlements = z] = [entitlements |-> z, achievements |-> y]
      /\ [state EXCEPT !.achievements = w] = [entitlements |-> x, achievements |-> w]
  OBVIOUS
<1> QED
  BY <1>2, <1>3 DEF z, w

\* Replaying one more block is what the operation that mined it did in memory.
LEMMA ReplayAppend ==
    ASSUME NEW c \in Seq(Blocks), NEW b \in Blocks, NEW p
    PROVE  /\ ReplayProfile(Append(c, b), p) =
                IF b.txn.player = p /\ b.txn.kind = "profile"
                THEN b.txn.payload ELSE ReplayProfile(c, p)
           /\ OrDefault(ReplayRewards(Append(c, b), p)) =
                IF b.txn.player = p
                THEN Rewarded(OrDefault(ReplayRewards(c, p)), b.txn)
                ELSE OrDefault(ReplayRewards(c, p))
<1> DEFINE profile == Payloads(c, p, "profile")
           entitlement == Payloads(c, p, "entitlement")
           achievement == Payloads(c, p, "achievement")
           e == b.txn.payload
<1>1. Append(c, b) \in Seq(Blocks)
  OBVIOUS
<1>2. profile \in Seq(Vectors)
  BY PayloadsType
<1>3. b.txn \in Transactions
  BY DEF Blocks
<1>4. ReplayProfile(Append(c, b), p) =
        IF b.txn.player = p /\ b.txn.kind = "profile" THEN e ELSE ReplayProfile(c, p)
  <2>1. CASE b.txn.player = p /\ b.txn.kind = "profile"
    <3>1. Payloads(Append(c, b), p, "profile") = Append(profile, e)
      BY <2>1, PayloadsAppend
    <3>2. e \in Vectors
      BY <1>3, <2>1, PayloadType
    <3> HIDE DEF profile, e
    <3>3. Append(profile, e) # <<>> /\ Append(profile, e)[Len(Append(profile, e))] = e
      BY <1>2, <3>2
    <3> QED
      BY <2>1, <3>1, <3>3 DEF ReplayProfile
  <2>2. CASE ~ (b.txn.player = p /\ b.txn.kind = "profile")
    <3>1. Payloads(Append(c, b), p, "profile") = profile
      BY <2>2, PayloadsAppend
    <3> QED
      BY <2>2, <3>1 DEF ReplayProfile
  <2> QED
    BY <2>1, <2>2
<1>5. OrDefault(ReplayRewards(c, p)) =
        [entitlements |-> entitlement, achievements |-> achievement]
  BY ReplayRewardsIs
<1>6. OrDefault(ReplayRewards(Append(c, b), p)) =
        [entitlements |-> Payloads(Append(c, b), p, "entitlement"),
         achievements |-> Payloads(Append(c, b), p, "achievement")]
  BY <1>1, ReplayRewardsIs
<1>7. /\ Payloads(Append(c, b), p, "entitlement") =
           IF b.txn.player = p /\ b.txn.kind = "entitlement"
           THEN Append(entitlement, e) ELSE entitlement
      /\ Payloads(Append(c, b), p, "achievement") =
           IF b.txn.player = p /\ b.txn.kind = "achievement"
           THEN Append(achievement, e) ELSE achievement
  BY PayloadsAppend
<1> DEFINE state == [entitlements |-> entitlement, achievements |-> achievement]
<1>8. /\ WithEntitlement(state, e) =
           [entitlements |-> Append(entitlement, e), achievements |-> achievement]
      /\ WithAchievement(state, e) =
           [entitlements |-> entitlement, achievements |-> Append(achievement, e)]
  BY WithIs
<1>9. Rewarded(state, b.txn) =
        CASE b.txn.kind = "entitlement" -> WithEntitlement(state, e)
          [] b.txn.kind = "achievement" -> WithAchievement(state, e)
          [] OTHER -> state
  BY DEF Rewarded
<1>10. b.txn.kind \in {"profile", "entitlement", "achievement"}
  BY <1>3, PayloadType
<1> HIDE DEF entitlement, achievement, e
<1>11. OrDefault(ReplayRewards(Append(c, b), p)) =
        IF b.txn.player = p THEN Rewarded(state, b.txn) ELSE state
  BY <1>6, <1>7, <1>8, <1>9, <1>10
<1> QED
  BY <1>4, <1>5, <1>11 DEF e

\* A chain without a block of p says nothing of p.
LEMMA ReplayOfOthers ==
    ASSUME NEW c \in Seq(Blocks), NEW p,
           \A i \in 1..Len(c) : c[i].txn.player # p
    PROVE  /\ ReplayProfile(c, p) = None
           /\ ReplayRewards(c, p) = None
<1>1. /\ Payloads(c, p, "profile") = <<>>
      /\ Payloads(c, p, "entitlement") = <<>>
      /\ Payloads(c, p, "achievement") = <<>>
  BY PayloadsOfOthers
<1> QED
  BY <1>1 DEF ReplayProfile, ReplayRewards, NoRewards

\* So does the empty chain, of everyone.
LEMMA EmptyReplay ==
    \A p : ReplayProfile(<<>>, p) = None /\ ReplayRewards(<<>>, p) = None
<1> SUFFICES ASSUME NEW p
             PROVE  ReplayProfile(<<>>, p) = None /\ ReplayRewards(<<>>, p) = None
  OBVIOUS
<1>1. <<>> \in Seq(Blocks)
  OBVIOUS
<1>2. \A i \in 1..Len(<<>>) : <<>>[i].txn.player # p
  OBVIOUS
<1> QED
  BY <1>1, <1>2, ReplayOfOthers

-----------------------------------------------------------------------------
(* A restart. *)

\* The order in which a start lists the logs is one of the readable players.
LEMMA OrderIs ==
    ASSUME NEW S, IsFiniteSet(S), NEW order \in SetToSeqs(S)
    PROVE  /\ order \in Seq(S)
           /\ ToSet(order) = S
           /\ \A i, j \in 1..Len(order) : order[i] = order[j] => i = j
<1> DEFINE n == Cardinality(S)
<1>1. n \in Nat
  BY FS_CardinalityType
<1>2. order \in [1..n -> S] /\ \A i, j \in 1..n : i # j => order[i] # order[j]
  BY DEF SetToSeqs
<1>3. order \in Injection(1..n, S)
  BY <1>2 DEF Injection, IsInjective
<1>4. IsFiniteSet(1..n) /\ Cardinality(1..n) = n
  BY <1>1, FS_Interval
<1>5. order \in Surjection(1..n, S)
  BY <1>3, <1>4, FS_Injection
<1> HIDE DEF n
<1>6. order \in Seq(S) /\ Len(order) = n
  BY <1>1, <1>2
<1>7. ToSet(order) = S
  BY <1>2, <1>5 DEF ToSet, Surjection
<1> QED
  BY <1>2, <1>6, <1>7

\* The verified blocks of a log are blocks.
LEMMA VerifiedLogType ==
    ASSUME BlocksTypeOK, NEW p \in Players
    PROVE  VerifiedLog(p) \in Seq(Blocks)
<1>1. logs[p] \in Seq(Blocks)
  BY DEF BlocksTypeOK
<1> QED
  BY <1>1, VerifyType DEF VerifiedLog, Histories

\* What a start that lists the logs in this order reads.
Listing(order) == [i \in DOMAIN order |-> VerifiedLog(order[i])]

\* It has one sequence of blocks for each log.
LEMMA ListingIs ==
    ASSUME BlocksTypeOK, NEW S \in SUBSET Players, NEW order \in Seq(S)
    PROVE  /\ Listing(order) \in Seq(Seq(Blocks))
           /\ Len(Listing(order)) = Len(order)
           /\ \A i \in 1..Len(order) :
                order[i] \in S /\ Listing(order)[i] = VerifiedLog(order[i])
<1>1. \A i \in 1..Len(order) : order[i] \in S /\ order[i] \in Players
  OBVIOUS
<1>2. \A i \in 1..Len(order) : VerifiedLog(order[i]) \in Seq(Blocks)
  BY <1>1, VerifiedLogType
<1>3. DOMAIN order = 1..Len(order) /\ Len(order) \in Nat
  OBVIOUS
<1> QED
  BY <1>1, <1>2, <1>3 DEF Listing

\* A restart keeps the types.
LEMMA RestartTypes ==
    ASSUME TypeInv, Restart
    PROVE  BlocksTypeOK' /\ LogsAreListed' /\ IsFiniteSet(listed')
<1>1. PICK S \in ReadableAmong(listed \ torn),
           readableClaims \in ReadableAmong(listed) :
        \E order \in SetToSeqs(S) : RestartWith(order, readableClaims)
  BY DEF Restart
<1>2. PICK order \in SetToSeqs(S) : RestartWith(order, readableClaims)
  BY <1>1
<1>3. S \in SUBSET Players /\ IsFiniteSet(S)
  BY FS_Subset DEF ReadableAmong, TypeInv, BlocksTypeOK
<1>4. order \in Seq(S) /\ ToSet(order) = S
  BY <1>3, OrderIs
<1>5. Listing(order) \in Seq(Seq(Blocks))
  BY <1>3, <1>4, ListingIs DEF TypeInv
<1>6. \A b \in Blocks : b.time \in Nat
  BY BlockFields
<1>7. MergeLogs(Listing(order)) \in Seq(Blocks)
  BY <1>5, <1>6, MergeIs
<1>8. ledger' \in Seq(Blocks)
  BY <1>2, <1>7 DEF RestartWith, Listing
<1>9. ASSUME NEW p \in Players
      PROVE  /\ ReplayProfile(VerifiedLog(p), p) \in Vectors \cup {None}
             /\ ReplayRewards(VerifiedLog(p), p) \in Rewards \cup {None}
  BY VerifiedLogType, ReplayProfileType, ReplayRewardsIs DEF TypeInv
<1>10. profiles' \in [Players -> Vectors \cup {None}]
  BY <1>2, <1>9 DEF RestartWith
<1>11. rewards' \in [Players -> Rewards \cup {None}]
  BY <1>2, <1>9 DEF RestartWith
<1>12. UNCHANGED <<logs, listed, torn>> /\ poisoned' = FALSE
  BY <1>2 DEF RestartWith, files
<1> QED
  BY <1>8, <1>10, <1>11, <1>12 DEF TypeInv, BlocksTypeOK, LogsAreListed

-----------------------------------------------------------------------------
(* Claims name achievements. *)

\* A save copies claims that name achievements.
LEMMA SavedClaimsName ==
    ASSUME TypeInv, NEW p \in Players, NEW outcome, PersistClaims(p, outcome),
           claims' \in [Players -> [Claims -> ClaimRecords]],
           \A q \in Players, c \in Claims :
               claims'[q][c].status # "Absent" => claims'[q][c].achievement \in Achievements,
           promotion'.stage = "award" =>
               claims'[promotion'.player][promotion'.claim].status # "Absent"
    PROVE  ClaimsNameAchievements'
<1>1. claimFiles' = claimFiles \/ claimFiles' = [claimFiles EXCEPT ![p] = claims'[p]]
  BY DEF PersistClaims
<1>2. \A q \in Players : claimFiles'[q] = claimFiles[q] \/ claimFiles'[q] = claims'[q]
  BY <1>1 DEF TypeInv, ClaimsTypeOK
<1> QED
  BY <1>2 DEF TypeInv, ClaimsNameAchievements

\* No claim changes.
LEMMA SameClaimsName ==
    ASSUME TypeInv, UNCHANGED <<claims, claimFiles>>,
           promotion' = promotion \/ promotion'.stage # "award"
    PROVE  ClaimsNameAchievements'
  BY DEF TypeInv, ClaimsNameAchievements

\* Whoever gets the lock meets no award in progress.
LEMMA IdlePromotion ==
    ASSUME LockFree
    PROVE  promotion.stage # "award"
  BY DEF LockFree, NoPromotion

\* A new claim names the achievement that was sent.
LEMMA SubmitNewNames ==
    ASSUME TypeInv, NEW p \in Players, NEW c \in Claims, SubmitNew(p, c)
    PROVE  ClaimsNameAchievements'
<1>1. PICK a \in Achievements : claims' = [claims EXCEPT ![p][c] = PendingClaim(a)]
  BY DEF SubmitNew
<1>2. PendingClaim(a) \in ClaimRecords /\ PendingClaim(a).achievement = a
  BY DEF PendingClaim, ClaimRecords, Statuses
<1>3. claims' \in [Players -> [Claims -> ClaimRecords]]
  BY <1>1, <1>2 DEF TypeInv, ClaimsTypeOK
<1>4. \A q \in Players, d \in Claims :
        claims'[q][d].status # "Absent" => claims'[q][d].achievement \in Achievements
  BY <1>1, <1>2 DEF TypeInv, ClaimsTypeOK, ClaimsNameAchievements
<1>5. promotion'.stage # "award"
  BY IdlePromotion DEF SubmitNew
<1> QED
  BY <1>3, <1>4, <1>5, SavedClaimsName DEF SubmitNew

\* A change of status, of a claim that was submitted, and its save.
LEMMA StatusNames ==
    ASSUME TypeInv, NEW p \in Players, NEW c \in Claims, NEW s \in Statuses,
           s # "Absent", claims[p][c].status # "Absent",
           claims' = [claims EXCEPT ![p][c].status = s],
           NEW outcome, PersistClaims(p, outcome),
           \/ promotion'.stage # "award"
           \/ promotion'.stage = "award" /\ promotion'.player = p /\ promotion'.claim = c
    PROVE  ClaimsNameAchievements'
<1>1. claims[p][c] \in ClaimRecords /\ claims[p][c].achievement \in Achievements
  BY DEF TypeInv, ClaimsTypeOK, ClaimsNameAchievements
<1>2. claims' \in [Players -> [Claims -> ClaimRecords]]
  BY StatusTypes DEF TypeInv
<1>3. /\ claims'[p][c].status = s
      /\ claims'[p][c].achievement = claims[p][c].achievement
  BY <1>1 DEF TypeInv, ClaimsTypeOK, ClaimRecords
<1>4. \A q \in Players, d \in Claims :
        (q # p \/ d # c) => claims'[q][d] = claims[q][d]
  BY DEF TypeInv, ClaimsTypeOK
<1>5. \A q \in Players, d \in Claims :
        claims'[q][d].status # "Absent" => claims'[q][d].achievement \in Achievements
  BY <1>1, <1>3, <1>4 DEF TypeInv, ClaimsNameAchievements
<1>6. promotion'.stage = "award" =>
        claims'[promotion'.player][promotion'.claim].status # "Absent"
  BY <1>3
<1> QED
  BY <1>2, <1>5, <1>6, SavedClaimsName

\* Noting the award changes nothing else in the claim.
LEMMA PromoteRecordNames ==
    ASSUME TypeInv, PromoteRecord
    PROVE  ClaimsNameAchievements'
<1> DEFINE p == promotion.player
           c == promotion.claim
           h == promotion.hash
<1>1. p \in Players /\ c \in Claims /\ h \in 1..MaxBlocks
  BY DEF PromoteRecord, TypeInv, ClaimsTypeOK, Promotions, NoPromotion
<1>2. PICK outcome \in SaveOutcomes :
        claims' = [claims EXCEPT ![p][c].award = h] /\ PersistClaims(p, outcome)
  BY DEF PromoteRecord
<1>3. promotion'.stage # "award"
  BY DEF PromoteRecord, NoPromotion
<1> HIDE DEF p, c, h
<1>4. claims[p][c] \in ClaimRecords
  BY <1>1 DEF TypeInv, ClaimsTypeOK
<1>5. claims' \in [Players -> [Claims -> ClaimRecords]]
  BY <1>1, <1>2, AwardTypes DEF TypeInv
<1>6. /\ claims'[p][c].status = claims[p][c].status
      /\ claims'[p][c].achievement = claims[p][c].achievement
  BY <1>1, <1>2, <1>4 DEF TypeInv, ClaimsTypeOK, ClaimRecords
<1>7. \A q \in Players, d \in Claims :
        (q # p \/ d # c) => claims'[q][d] = claims[q][d]
  BY <1>1, <1>2 DEF TypeInv, ClaimsTypeOK
<1>8. \A q \in Players, d \in Claims :
        claims'[q][d].status # "Absent" => claims'[q][d].achievement \in Achievements
  BY <1>6, <1>7 DEF TypeInv, ClaimsNameAchievements
<1> QED
  BY <1>1, <1>2, <1>3, <1>5, <1>8, SavedClaimsName

LEMMA NextNames ==
    ASSUME TypeInv, [Next]_vars
    PROVE  ClaimsNameAchievements'
<1>1. ASSUME NEW p \in Players, CreateProfile(p) \/ SetVector(p)
      PROVE  ClaimsNameAchievements'
  BY <1>1, SameClaimsName DEF CreateProfile, SetVector, ReplaceVector
<1>2. ASSUME NEW p \in Players, MergeVector(p)
      PROVE  ClaimsNameAchievements'
  <2>1. UNCHANGED <<claims, claimFiles, promotion>>
    BY <1>2 DEF MergeVector, ReplaceVector, files
  <2> QED
    BY <2>1, SameClaimsName
<1>3. ASSUME NEW p \in Players, AwardEntitlement(p) \/ AwardAchievement(p)
      PROVE  ClaimsNameAchievements'
  BY <1>3, SameClaimsName DEF AwardEntitlement, AwardAchievement
<1>4. ASSUME NEW p \in Players, NEW c \in Claims, SubmitAgain(p, c) \/ PromoteAgain(p, c)
      PROVE  ClaimsNameAchievements'
  BY <1>4, SameClaimsName DEF SubmitAgain, PromoteAgain, memory, files
<1>5. ASSUME NEW p \in Players, NEW c \in Claims, PromoteBegin(p, c)
      PROVE  ClaimsNameAchievements'
  <2>1. PICK outcome \in SaveOutcomes :
          PersistClaims(p, outcome) /\ promotion' = AfterSave(outcome, p, c)
    BY <1>5 DEF PromoteBegin
  <2>2. /\ claims[p][c].status # "Absent"
        /\ claims' = [claims EXCEPT ![p][c].status = "Promoted"]
    BY <1>5 DEF PromoteBegin, Promotable
  <2>3. \/ promotion'.stage # "award"
        \/ promotion'.stage = "award" /\ promotion'.player = p /\ promotion'.claim = c
    BY <2>1 DEF AfterSave, NoPromotion
  <2> QED
    BY <2>1, <2>2, <2>3, StatusNames DEF Statuses
<1>6. ASSUME NEW p \in Players, NEW c \in Claims, Reject(p, c)
      PROVE  ClaimsNameAchievements'
  <2>1. PICK outcome \in SaveOutcomes : PersistClaims(p, outcome)
    BY <1>6 DEF Reject
  <2>2. /\ claims[p][c].status # "Absent"
        /\ claims' = [claims EXCEPT ![p][c].status = "Rejected"]
        /\ promotion'.stage # "award"
    BY <1>6, IdlePromotion DEF Reject, Rejectable
  <2> QED
    BY <2>1, <2>2, StatusNames DEF Statuses
<1>7. CASE PromoteAward
  BY <1>7, SameClaimsName DEF PromoteAward, AfterAward, NoPromotion
<1>8. CASE Restart
  <2>1. PICK S \in ReadableAmong(listed \ torn), R \in ReadableAmong(listed) :
          \E order \in SetToSeqs(S) : RestartWith(order, R)
    BY <1>8 DEF Restart
  <2>2. /\ \A p \in Players : claims'[p] = claimFiles[p] \/ claims'[p] = NoClaims
        /\ claimFiles' = claimFiles
        /\ promotion' = NoPromotion
    BY <2>1 DEF RestartWith, files
  <2>3. \A c \in Claims : NoClaims[c].status = "Absent"
    BY DEF NoClaims, AbsentClaim
  <2> QED
    BY <2>2, <2>3 DEF TypeInv, ClaimsNameAchievements, NoPromotion
<1>9. CASE UNCHANGED vars
  BY <1>9, SameClaimsName DEF vars, memory, files
<1> QED
  BY <1>1, <1>2, <1>3, <1>4, <1>5, <1>6, <1>7, <1>8, <1>9, SubmitNewNames,
     PromoteRecordNames DEF Next

LEMMA InitTypeInv == Init => TypeInv
<1> SUFFICES ASSUME Init PROVE TypeInv
  OBVIOUS
<1>1. ClaimsTypeOK
  BY InitTypes
<1>2. BlocksTypeOK
  <2>1. <<>> \in Seq(Blocks)
    OBVIOUS
  <2>2. logs = [p \in Players |-> <<>>] /\ ledger = <<>>
    BY DEF Init
  <2>3. logs \in [Players -> Seq(Blocks)] /\ ledger \in Seq(Blocks)
    BY <2>1, <2>2
  <2>4. /\ profiles \in [Players -> Vectors \cup {None}]
        /\ rewards \in [Players -> Rewards \cup {None}]
        /\ poisoned \in BOOLEAN
        /\ torn \subseteq listed
        /\ listed \subseteq Players
    BY DEF Init
  <2> QED
    BY <2>3, <2>4 DEF BlocksTypeOK
<1>3. LogsAreListed /\ IsFiniteSet(listed)
  BY FS_EmptySet DEF Init, LogsAreListed
<1>4. ClaimsNameAchievements
  BY DEF Init, ClaimsNameAchievements, NoClaims, AbsentClaim, NoPromotion
<1> QED
  BY <1>1, <1>2, <1>3, <1>4 DEF TypeInv

LEMMA NextTypeInv == TypeInv /\ [Next]_vars => TypeInv'
<1> SUFFICES ASSUME TypeInv, [Next]_vars PROVE TypeInv'
  OBVIOUS
<1>1. ClaimsTypeOK'
  BY NextTypes DEF TypeInv
<1>2. ClaimsNameAchievements'
  BY NextNames
<1>3. BlocksTypeOK' /\ LogsAreListed' /\ IsFiniteSet(listed')
  <2>1. CASE UNCHANGED chain /\ poisoned' \in BOOLEAN
    BY <2>1 DEF chain, TypeInv, BlocksTypeOK, LogsAreListed
  <2> QED
    BY <2>1, Steps, MinesTypes, RestartTypes
<1> QED
  BY <1>1, <1>2, <1>3 DEF TypeInv

LEMMA Typed == Spec => []TypeInv
  BY InitTypeInv, NextTypeInv, PTL DEF Spec

\* Every variable keeps its type, whatever fails: among the rest, the chain
\* merged at a restart is one of whole blocks, and a log with a torn line, or
\* with blocks, is a log file that exists and that the next start lists.
THEOREM ServiceTypes == Spec => []TypeOK
<1>1. TypeInv => TypeOK
  BY DEF TypeInv, TypeOK, LogsAreListed
<1> QED
  BY <1>1, Typed, PTL

-----------------------------------------------------------------------------
(* One chain, one log that replays. *)

\* What one more block does to what the replay keeps of the logs.
LEMMA VerifiedAfter ==
    ASSUME TypeInv, NEW txn \in Transactions, NEW outcome, NEW block,
           Mined(txn, outcome, block), NEW q \in Players
    PROVE  /\ \/ VerifiedLog(q)' = VerifiedLog(q)
              \/ /\ q = txn.player
                 /\ TipHash(ledger) = TipHash(VerifiedLog(q))
                 /\ VerifiedLog(q)' = Append(VerifiedLog(q), block)
           /\ (/\ q = txn.player
               /\ outcome \in {"ok", "sync"}
               /\ TipHash(ledger) = TipHash(VerifiedLog(q)))
              => VerifiedLog(q)' = Append(VerifiedLog(q), block)
<1>1. txn.player \in Players /\ block \in Blocks
  BY DEF Mined, Transactions
<1>2. /\ \/ logs'[q] = logs[q]
         \/ q = txn.player /\ logs'[q] = Append(logs[q], block)
      /\ q = txn.player /\ outcome \in {"ok", "sync"} =>
            logs'[q] = Append(logs[q], block)
  BY <1>1, LogsAfter DEF Mined
<1>3. logs[q] \in Seq(Blocks)
  BY DEF TypeInv, BlocksTypeOK
<1>4. VerifyPlayerBlocks(Append(logs[q], block)).verified =
        IF block.prev = TipHash(VerifiedLog(q)) /\ block.hash = block.digest
        THEN Append(VerifiedLog(q), block) ELSE VerifiedLog(q)
  BY <1>1, <1>3, VerifiedAppend DEF VerifiedLog
<1>5. block.prev = TipHash(ledger) /\ block.hash = block.digest
  BY DEF Mined
<1>6. VerifiedLog(q)' = VerifyPlayerBlocks(logs'[q]).verified
  BY DEF VerifiedLog
<1>7. CASE logs'[q] = logs[q]
  <2>1. VerifiedLog(q)' = VerifiedLog(q)
    BY <1>6, <1>7 DEF VerifiedLog
  <2>2. logs[q] # Append(logs[q], block)
    BY <1>1, <1>3
  <2> QED
    BY <1>2, <1>7, <2>1, <2>2
<1>8. CASE q = txn.player /\ logs'[q] = Append(logs[q], block)
  BY <1>4, <1>5, <1>6, <1>8
<1> QED
  BY <1>2, <1>7, <1>8

\* A log with verified blocks is a file that exists.
LEMMA VerifiedIsListed ==
    ASSUME TypeInv, NEW p \in Players, VerifiedLog(p) # <<>>
    PROVE  p \in listed
<1>1. CASE logs[p] = <<>>
  BY <1>1, VerifyEmpty DEF VerifiedLog
<1> QED
  BY <1>1 DEF TypeInv, LogsAreListed

\* While the chain in memory is empty, no readable log has a verified block.
EmptyChainIsEverywhere ==
    ledger = <<>> => \A p \in listed \ torn : VerifiedLog(p) = <<>>

\* The inductive invariant of OneVerifiableLog.
ForkInv == OneVerifiableLog /\ EmptyChainIsEverywhere

\* A log that had no verified block gets its first one only from an empty chain.
LEMMA FirstVerified ==
    ASSUME TypeInv, NEW txn \in Transactions, NEW outcome, NEW block,
           Mined(txn, outcome, block), NEW q \in listed' \ torn',
           VerifiedLog(q)' # <<>>
    PROVE  \/ q \in listed \ torn /\ VerifiedLog(q) # <<>>
           \/ q = txn.player /\ ledger = <<>>
<1>1. txn.player \in Players /\ block \in Blocks
  BY DEF Mined, Transactions
<1>2. torn \subseteq torn' /\ listed' \subseteq listed \cup {txn.player}
  BY <1>1, LogsAfter DEF Mined
<1>3. q \in Players /\ q \notin torn
  BY <1>1, <1>2 DEF TypeInv, BlocksTypeOK
<1>4. CASE VerifiedLog(q) # <<>>
  BY <1>3, <1>4, VerifiedIsListed
<1>5. CASE VerifiedLog(q) = <<>>
  <2>1. q = txn.player /\ TipHash(ledger) = TipHash(VerifiedLog(q))
    BY <1>3, <1>5, VerifiedAfter
  <2>2. TipHash(ledger) = 0
    BY <1>5, <2>1 DEF TipHash, GenesisHash
  <2>3. ledger = <<>>
    BY <2>2, TipHashType DEF TypeInv, BlocksTypeOK
  <2> QED
    BY <2>1, <2>3
<1> QED
  BY <1>4, <1>5

\* A block more does not fork the chain.
LEMMA MinedFork ==
    ASSUME TypeInv, ForkInv, NEW txn \in Transactions, NEW outcome, NEW block,
           Mined(txn, outcome, block)
    PROVE  ForkInv'
<1>1. ledger' # <<>>
  BY DEF Mined, TypeInv, BlocksTypeOK
<1>2. OneVerifiableLog'
  <2> SUFFICES ASSUME NEW p \in listed' \ torn', NEW q \in listed' \ torn',
                      VerifiedLog(p)' # <<>>, VerifiedLog(q)' # <<>>
               PROVE  p = q
    BY DEF OneVerifiableLog
  <2>1. /\ \/ p \in listed \ torn /\ VerifiedLog(p) # <<>>
           \/ p = txn.player /\ ledger = <<>>
        /\ \/ q \in listed \ torn /\ VerifiedLog(q) # <<>>
           \/ q = txn.player /\ ledger = <<>>
    BY FirstVerified
  <2> QED
    BY <2>1 DEF ForkInv, OneVerifiableLog, EmptyChainIsEverywhere
<1> QED
  BY <1>1, <1>2 DEF ForkInv, EmptyChainIsEverywhere

\* What a start reads when no file is unreadable by accident.
LEMMA RestartReadsAll ==
    ASSUME TypeInv, Restart, "load" \notin Faults
    PROVE  \E order \in Seq(listed \ torn) :
            /\ ToSet(order) = listed \ torn
            /\ \A i, j \in 1..Len(order) : order[i] = order[j] => i = j
            /\ RestartWith(order, listed)
<1>1. PICK order \in SetToSeqs(listed \ torn) : RestartWith(order, listed)
  BY DEF Restart, ReadableAmong
<1>2. IsFiniteSet(listed \ torn)
  BY FS_Subset DEF TypeInv
<1> QED
  BY <1>1, <1>2, OrderIs

LEMMA NextFork ==
    ASSUME "load" \notin Faults, TypeInv, ForkInv, [Next]_vars
    PROVE  ForkInv'
<1>1. ASSUME NEW txn \in Transactions, NEW outcome, Mines(txn, outcome)
      PROVE  ForkInv'
  BY <1>1, AddBlockMines, MinedFork DEF Mines
<1>2. CASE Restart
  <2>1. PICK order \in Seq(listed \ torn) :
          ToSet(order) = listed \ torn /\ RestartWith(order, listed)
    BY <1>2, RestartReadsAll
  <2>2. UNCHANGED <<logs, listed, torn>> /\ ledger' = MergeLogs(Listing(order))
    BY <2>1 DEF RestartWith, files, Listing
  <2>3. OneVerifiableLog'
    BY <2>2 DEF ForkInv, OneVerifiableLog, VerifiedLog
  <2>4. listed \ torn \in SUBSET Players
    BY DEF TypeInv, BlocksTypeOK
  <2>5. /\ Listing(order) \in Seq(Seq(Blocks))
        /\ Len(Listing(order)) = Len(order)
        /\ \A i \in 1..Len(order) : Listing(order)[i] = VerifiedLog(order[i])
    BY <2>4, ListingIs DEF TypeInv
  <2>6. ASSUME ledger' = <<>>, NEW p \in listed \ torn
        PROVE  VerifiedLog(p) = <<>>
    <3>1. PICK i \in 1..Len(order) : order[i] = p
      BY <2>1 DEF ToSet
    <3>2. \A k \in 1..Len(Listing(order)) : Listing(order)[k] = <<>>
      BY <2>2, <2>5, <2>6, MergeEmpty, BlockFields
    <3> QED
      BY <2>5, <3>1, <3>2
  <2>7. EmptyChainIsEverywhere'
    BY <2>2, <2>6 DEF EmptyChainIsEverywhere, VerifiedLog
  <2> QED
    BY <2>3, <2>7 DEF ForkInv
<1>3. CASE UNCHANGED chain
  BY <1>3 DEF chain, ForkInv, OneVerifiableLog, EmptyChainIsEverywhere, VerifiedLog
<1> QED
  BY <1>1, <1>2, <1>3, Steps

LEMMA InitFork == Init => ForkInv
  BY DEF Init, ForkInv, OneVerifiableLog, EmptyChainIsEverywhere

\* However operations, failed appends and restarts interleave, and for any
\* number of players, the chain never forks on disk: at most one readable log
\* has blocks that a replay keeps.  Every file that can be read is read.
THEOREM OneLogReplays ==
    ASSUME "load" \notin Faults
    PROVE  Spec => []OneVerifiableLog
<1>1. TypeInv /\ ForkInv /\ [Next]_vars => ForkInv'
  BY NextFork
<1>2. ForkInv => OneVerifiableLog
  BY DEF ForkInv
<1> QED
  BY <1>1, <1>2, InitFork, Typed, PTL DEF Spec

-----------------------------------------------------------------------------
(* The chain in memory. *)

\* The verified blocks of a log are the player's own, and were mined, and
\* dated, in the order in which the log has them.
LogInOrder(p) ==
    \A i \in 1..Len(VerifiedLog(p)) :
        /\ VerifiedLog(p)[i].txn.player = p
        /\ VerifiedLog(p)[i].time = VerifiedLog(p)[i].hash
        /\ VerifiedLog(p)[i].hash <= minted
        /\ \A j \in 1..Len(VerifiedLog(p)) :
            i < j => VerifiedLog(p)[i].hash < VerifiedLog(p)[j].hash

LogsInOrder == \A p \in Players : LogInOrder(p)

\* The inductive invariant of a chain that is rebuilt from one log.
ChainInv == LogsInOrder /\ LedgerIsValid /\ MemoryMatchesLedger

\* A new block comes after all others, in number and in time.
LEMMA MinedOrder ==
    ASSUME "clock" \notin Faults, TypeInv, LogsInOrder, NEW txn \in Transactions,
           NEW outcome, NEW block, Mined(txn, outcome, block)
    PROVE  LogsInOrder'
<1> SUFFICES ASSUME NEW q \in Players
             PROVE  LogInOrder(q)'
  BY DEF LogsInOrder
<1> DEFINE kept == VerifiedLog(q)
           after == VerifiedLog(q)'
<1>1. \/ after = kept
      \/ q = txn.player /\ after = Append(kept, block)
  BY VerifiedAfter
<1>2. kept \in Seq(Blocks)
  BY VerifiedLogType DEF TypeInv
<1>3. /\ block \in Blocks
      /\ block.hash = minted + 1
      /\ block.time = minted + 1
      /\ block.txn = txn
      /\ minted' = minted + 1
      /\ minted \in Nat
  BY MaxBlocksAssumption DEF Mined, Timestamps, TypeInv, ClaimsTypeOK
<1>4. \A i \in 1..Len(kept) :
        /\ kept[i].txn.player = q
        /\ kept[i].time = kept[i].hash
        /\ kept[i].hash <= minted
        /\ \A j \in 1..Len(kept) : i < j => kept[i].hash < kept[j].hash
  BY DEF LogsInOrder, LogInOrder
<1>5. \A i \in 1..Len(kept) : kept[i] \in Blocks /\ kept[i].hash \in Nat
  BY <1>2, BlockFields
<1> HIDE DEF kept, after
<1>6. /\ Len(kept) \in Nat
      /\ Len(Append(kept, block)) = Len(kept) + 1
      /\ Append(kept, block)[Len(kept) + 1] = block
      /\ \A i \in 1..Len(kept) : Append(kept, block)[i] = kept[i]
  BY <1>2, <1>3
<1>7. \A i \in 1..Len(after) :
        /\ after[i].txn.player = q
        /\ after[i].time = after[i].hash
        /\ after[i].hash <= minted'
        /\ \A j \in 1..Len(after) : i < j => after[i].hash < after[j].hash
  <2>1. CASE after = kept
    BY <1>3, <1>4, <1>5, <2>1
  <2>2. CASE q = txn.player /\ after = Append(kept, block)
    <3> DEFINE n == Len(kept)
    <3>1. n \in Nat /\ Len(after) = n + 1 /\ after[n + 1] = block
          /\ \A i \in 1..n : after[i] = kept[i]
      BY <1>6, <2>2
    <3> HIDE DEF n
    <3>2. ASSUME NEW i \in 1..n
          PROVE  /\ after[i].txn.player = q
                 /\ after[i].time = after[i].hash
                 /\ after[i].hash <= minted
                 /\ after[i].hash \in Nat
      BY <1>4, <1>5, <3>1 DEF n
    <3>3. ASSUME NEW i \in 1..n, NEW j \in 1..n, i < j
          PROVE  after[i].hash < after[j].hash
      BY <1>4, <3>1, <3>3 DEF n
    <3>4. /\ after[n + 1].txn.player = q
          /\ after[n + 1].time = after[n + 1].hash
          /\ after[n + 1].hash = minted + 1
      BY <1>3, <2>2, <3>1
    <3>5. \A i \in 1..n + 1 : i \in 1..n \/ i = n + 1
      BY <3>1
    <3>6. ASSUME NEW i \in 1..n + 1, NEW j \in 1..n + 1, i < j
          PROVE  after[i].hash < after[j].hash
      <4>1. i \in 1..n
        BY <3>1, <3>6
      <4>2. CASE j \in 1..n
        BY <3>3, <3>6, <4>1, <4>2
      <4>3. CASE j = n + 1
        <5>1. after[i].hash <= minted /\ after[i].hash \in Nat
          BY <3>2, <4>1
        <5> QED
          BY <1>3, <3>4, <4>3, <5>1
      <4> QED
        BY <3>5, <4>2, <4>3
    <3>7. ASSUME NEW i \in 1..n + 1
          PROVE  /\ after[i].txn.player = q
                 /\ after[i].time = after[i].hash
                 /\ after[i].hash <= minted'
      <4>1. CASE i \in 1..n
        BY <1>3, <3>2, <4>1
      <4>2. CASE i = n + 1
        BY <1>3, <3>4, <4>2
      <4> QED
        BY <3>5, <4>1, <4>2
    <3> QED
      BY <3>1, <3>6, <3>7
  <2> QED
    BY <1>1, <2>1, <2>2
<1> QED
  BY <1>7 DEF LogInOrder, after

\* Memory changes as the new block says, and the chain stays valid.
LEMMA MinedMemory ==
    ASSUME TypeInv, LedgerIsValid, MemoryMatchesLedger, NEW txn \in Transactions,
           NEW outcome \in AppendOutcomes, Mines(txn, outcome)
    PROVE  LedgerIsValid' /\ MemoryMatchesLedger'
<1>1. PICK block : Mined(txn, outcome, block)
  BY AddBlockMines DEF Mines
<1>2. /\ ledger \in Seq(Blocks)
      /\ block \in Blocks
      /\ ledger' = Append(ledger, block)
      /\ block.txn = txn
      /\ block.prev = TipHash(ledger)
      /\ block.hash = block.digest
  BY <1>1 DEF Mined, TypeInv, BlocksTypeOK
<1>3. LedgerIsValid'
  BY <1>2, ValidAppend DEF LedgerIsValid
<1>4. ASSUME NEW p \in Players
      PROVE  /\ profiles'[p] = ReplayProfile(ledger, p)'
             /\ OrDefault(rewards'[p]) = OrDefault(ReplayRewards(ledger, p)')
  <2>1. /\ profiles[p] = ReplayProfile(ledger, p)
        /\ OrDefault(rewards[p]) = OrDefault(ReplayRewards(ledger, p))
    BY DEF MemoryMatchesLedger
  <2>2. /\ ReplayProfile(ledger', p) =
             IF txn.player = p /\ txn.kind = "profile"
             THEN txn.payload ELSE ReplayProfile(ledger, p)
        /\ OrDefault(ReplayRewards(ledger', p)) =
             IF txn.player = p
             THEN Rewarded(OrDefault(ReplayRewards(ledger, p)), txn)
             ELSE OrDefault(ReplayRewards(ledger, p))
    BY <1>2, ReplayAppend
  <2>3. profiles'[p] = IF txn.player = p /\ txn.kind = "profile"
                       THEN txn.payload ELSE profiles[p]
    BY DEF Mines, TypeInv, BlocksTypeOK
  <2>4. rewards[p] \in Rewards \cup {None}
    BY DEF TypeInv, BlocksTypeOK
  <2>5. OrDefault(rewards[p]) \in Rewards
    BY <2>4, OrDefaultType
  <2>6. ASSUME NEW state \in Rewards
        PROVE  OrDefault(state) = state
    BY <2>6, NoneAssumption DEF OrDefault, Rewards
  <2>7. OrDefault(rewards'[p]) = IF txn.player = p
                                 THEN Rewarded(OrDefault(rewards[p]), txn)
                                 ELSE OrDefault(rewards[p])
    <3>1. CASE txn.player # p
      BY <3>1 DEF Mines
    <3>2. CASE txn.player = p /\ txn.kind = "profile"
      <4>1. rewards'[p] \in {rewards[p], OrDefault(rewards[p])}
        BY <3>2 DEF Mines
      <4>2. OrDefault(rewards'[p]) = OrDefault(rewards[p])
        BY <2>5, <2>6, <4>1
      <4>3. Rewarded(OrDefault(rewards[p]), txn) = OrDefault(rewards[p])
        BY <3>2 DEF Rewarded
      <4> QED
        BY <3>2, <4>2, <4>3
    <3>3. CASE txn.player = p /\ txn.kind # "profile"
      <4>1. rewards'[p] = Rewarded(OrDefault(rewards[p]), txn)
        BY <3>3 DEF Mines
      <4>2. Rewarded(OrDefault(rewards[p]), txn) \in Rewards
        BY <2>5, RewardedType
      <4> QED
        BY <2>6, <3>3, <4>1, <4>2
    <3> QED
      BY <3>1, <3>2, <3>3
  <2> QED
    BY <2>1, <2>2, <2>3, <2>7
<1>5. MemoryMatchesLedger'
  BY <1>4 DEF MemoryMatchesLedger
<1> QED
  BY <1>3, <1>5

\* The chain of a restarted service is the one log that replays, if any.
LEMMA RestartLedger ==
    ASSUME "load" \notin Faults, TypeInv, OneVerifiableLog, LogsInOrder, Restart
    PROVE  /\ \/ /\ ledger' = <<>>
                 /\ \A p \in listed \ torn : VerifiedLog(p) = <<>>
              \/ \E q \in listed \ torn :
                    /\ ledger' = VerifiedLog(q)
                    /\ \A p \in listed \ torn : p # q => VerifiedLog(p) = <<>>
           /\ profiles' = [p \in Players |-> IF p \in listed \ torn
                                             THEN ReplayProfile(VerifiedLog(p), p)
                                             ELSE None]
           /\ rewards' = [p \in Players |-> IF p \in listed \ torn
                                            THEN ReplayRewards(VerifiedLog(p), p)
                                            ELSE None]
           /\ claims' = [p \in Players |-> IF p \in listed THEN claimFiles[p]
                                           ELSE NoClaims]
           /\ UNCHANGED <<files, history>>
           /\ promotion' = NoPromotion
<1>1. PICK order \in Seq(listed \ torn) :
        /\ ToSet(order) = listed \ torn
        /\ \A i, j \in 1..Len(order) : order[i] = order[j] => i = j
        /\ RestartWith(order, listed)
  BY RestartReadsAll
<1>2. ledger' = MergeLogs(Listing(order))
  BY <1>1 DEF RestartWith, Listing
<1>3. /\ profiles' = [p \in Players |-> IF p \in listed \ torn
                                        THEN ReplayProfile(VerifiedLog(p), p)
                                        ELSE None]
      /\ rewards' = [p \in Players |-> IF p \in listed \ torn
                                       THEN ReplayRewards(VerifiedLog(p), p)
                                       ELSE None]
      /\ claims' = [p \in Players |-> IF p \in listed THEN claimFiles[p]
                                      ELSE NoClaims]
      /\ UNCHANGED <<files, history>>
      /\ promotion' = NoPromotion
  BY <1>1 DEF RestartWith
<1>4. listed \ torn \in SUBSET Players
  BY DEF TypeInv, BlocksTypeOK
<1>5. /\ Listing(order) \in Seq(Seq(Blocks))
      /\ Len(Listing(order)) = Len(order)
      /\ \A i \in 1..Len(order) : /\ order[i] \in listed \ torn
                                  /\ Listing(order)[i] = VerifiedLog(order[i])
  BY <1>4, ListingIs DEF TypeInv
<1>6. CASE \A p \in listed \ torn : VerifiedLog(p) = <<>>
  <2>1. \A i \in 1..Len(Listing(order)) : Listing(order)[i] = <<>>
    BY <1>5, <1>6
  <2>2. ledger' = <<>>
    BY <1>2, <1>5, <2>1, MergeEmpty, BlockFields
  <2> QED
    BY <1>3, <1>6, <2>2
<1>7. CASE \E q \in listed \ torn : VerifiedLog(q) # <<>>
  <2>1. PICK q \in listed \ torn : VerifiedLog(q) # <<>>
    BY <1>7
  <2>2. \A p \in listed \ torn : p # q => VerifiedLog(p) = <<>>
    BY <2>1 DEF OneVerifiableLog
  <2>3. PICK k \in 1..Len(order) : order[k] = q
    BY <1>1 DEF ToSet
  <2>4. k \in 1..Len(Listing(order)) /\ Listing(order)[k] = VerifiedLog(q)
    BY <1>5, <2>3
  <2>5. \A i \in 1..Len(Listing(order)) : i # k => Listing(order)[i] = <<>>
    BY <1>1, <1>5, <2>2, <2>3
  <2>6. \A i, j \in 1..Len(VerifiedLog(q)) :
          i < j => /\ VerifiedLog(q)[i].time < VerifiedLog(q)[j].time
                   /\ VerifiedLog(q)[i].hash # VerifiedLog(q)[j].hash
    <3>1. VerifiedLog(q) \in Seq(Blocks)
      BY <1>4, VerifiedLogType DEF TypeInv
    <3>2. \A i \in 1..Len(VerifiedLog(q)) :
            VerifiedLog(q)[i] \in Blocks /\ VerifiedLog(q)[i].hash \in Nat
      BY <3>1, BlockFields
    <3> QED
      BY <1>4, <3>2 DEF LogsInOrder, LogInOrder
  <2>7. MergeLogs(Listing(order)) = Listing(order)[k]
    <3> DEFINE L == Listing(order)
    <3>1. L \in Seq(Seq(Blocks)) /\ k \in 1..Len(L)
      BY <1>5, <2>4
    <3>2. \A b \in Blocks : b.time \in Nat
      BY BlockFields
    <3>3. \A i, j \in 1..Len(L[k]) :
            i < j => L[k][i].time < L[k][j].time /\ L[k][i].hash # L[k][j].hash
      BY <2>4, <2>6
    <3>4. \A i \in 1..Len(L) : i # k => L[i] = <<>>
      BY <2>5
    <3> HIDE DEF L
    <3>5. MergeLogs(L) = L[k]
      BY <3>1, <3>2, <3>3, <3>4, MergeOne
    <3> QED
      BY <3>5 DEF L
  <2> QED
    BY <1>2, <1>3, <2>2, <2>4, <2>7
<1> QED
  BY <1>6, <1>7

\* A restart rebuilds memory from the log it takes for the chain.
LEMMA RestartChain ==
    ASSUME "load" \notin Faults, TypeInv, OneVerifiableLog, LogsInOrder, Restart
    PROVE  ChainInv'
<1>1. LogsInOrder'
  BY RestartLedger DEF files, history, LogsInOrder, LogInOrder, VerifiedLog
<1>2. /\ profiles' = [p \in Players |-> IF p \in listed \ torn
                                        THEN ReplayProfile(VerifiedLog(p), p)
                                        ELSE None]
      /\ rewards' = [p \in Players |-> IF p \in listed \ torn
                                       THEN ReplayRewards(VerifiedLog(p), p)
                                       ELSE None]
  BY RestartLedger
<1>3. listed \ torn \in SUBSET Players
  BY DEF TypeInv, BlocksTypeOK
<1>5. CASE ledger' = <<>> /\ \A p \in listed \ torn : VerifiedLog(p) = <<>>
  <2>1. LedgerIsValid'
    BY <1>5, EmptyIsValid DEF LedgerIsValid
  <2>2. MemoryMatchesLedger'
    BY <1>2, <1>5, EmptyReplay DEF MemoryMatchesLedger
  <2> QED
    BY <1>1, <2>1, <2>2 DEF ChainInv
<1>6. ASSUME NEW q \in listed \ torn, ledger' = VerifiedLog(q),
             \A p \in listed \ torn : p # q => VerifiedLog(p) = <<>>
      PROVE  ChainInv'
  <2>1. logs[q] \in Seq(Blocks) /\ VerifiedLog(q) \in Seq(Blocks)
    BY <1>3, VerifiedLogType DEF TypeInv, BlocksTypeOK
  <2>2. LedgerIsValid'
    BY <1>6, <2>1, VerifiedIsValid DEF LedgerIsValid, VerifiedLog
  <2>3. \A i \in 1..Len(VerifiedLog(q)) : VerifiedLog(q)[i].txn.player = q
    BY <1>3 DEF LogsInOrder, LogInOrder
  <2>4. ASSUME NEW p \in Players, p # q
        PROVE  /\ ReplayProfile(VerifiedLog(q), p) = None
               /\ ReplayRewards(VerifiedLog(q), p) = None
               /\ profiles'[p] = None
               /\ rewards'[p] = None
    <3>1. \A i \in 1..Len(VerifiedLog(q)) : VerifiedLog(q)[i].txn.player # p
      BY <2>3, <2>4
    <3> QED
      BY <1>2, <1>6, <2>1, <2>4, <3>1, EmptyReplay, ReplayOfOthers
  <2>5. /\ profiles'[q] = ReplayProfile(VerifiedLog(q), q)
        /\ rewards'[q] = ReplayRewards(VerifiedLog(q), q)
    BY <1>2, <1>3
  <2>6. MemoryMatchesLedger'
    BY <1>6, <2>4, <2>5 DEF MemoryMatchesLedger
  <2> QED
    BY <1>1, <2>2, <2>6 DEF ChainInv
<1> QED
  BY <1>5, <1>6, RestartLedger

LEMMA NextChain ==
    ASSUME "load" \notin Faults, "clock" \notin Faults,
           TypeInv, OneVerifiableLog, ChainInv, [Next]_vars
    PROVE  ChainInv'
<1>1. ASSUME NEW txn \in Transactions, NEW outcome \in AppendOutcomes,
             Mines(txn, outcome)
      PROVE  ChainInv'
  <2>1. LogsInOrder'
    BY <1>1, AddBlockMines, MinedOrder DEF Mines, ChainInv
  <2>2. LedgerIsValid' /\ MemoryMatchesLedger'
    BY <1>1, MinedMemory DEF ChainInv
  <2> QED
    BY <2>1, <2>2 DEF ChainInv
<1>2. CASE Restart
  BY <1>2, RestartChain DEF ChainInv
<1>3. CASE UNCHANGED chain
  <2>1. UNCHANGED <<profiles, rewards, ledger, logs, minted>>
    BY <1>3 DEF chain
  <2>2. LogsInOrder' /\ LedgerIsValid'
    BY <2>1 DEF ChainInv, LogsInOrder, LogInOrder, LedgerIsValid, VerifiedLog
  <2>3. MemoryMatchesLedger'
    BY <2>1 DEF ChainInv, MemoryMatchesLedger
  <2> QED
    BY <2>2, <2>3 DEF ChainInv
<1> QED
  BY <1>1, <1>2, <1>3, Steps

LEMMA InitChain == Init => ChainInv
<1> SUFFICES ASSUME Init PROVE ChainInv
  OBVIOUS
<1>1. LogsInOrder
  <2>1. \A p \in Players : VerifiedLog(p) = <<>>
    BY VerifyEmpty DEF Init, VerifiedLog
  <2> QED
    BY <2>1 DEF LogsInOrder, LogInOrder
<1>2. LedgerIsValid
  BY EmptyIsValid DEF Init, LedgerIsValid
<1>3. MemoryMatchesLedger
  BY EmptyReplay DEF Init, MemoryMatchesLedger
<1> QED
  BY <1>1, <1>2, <1>3 DEF ChainInv

LEMMA ChainInvariant ==
    ASSUME "load" \notin Faults, "clock" \notin Faults
    PROVE  Spec => []ChainInv
<1>1. TypeInv /\ OneVerifiableLog /\ ChainInv /\ [Next]_vars => ChainInv'
  BY NextChain
<1> QED
  BY <1>1, InitChain, Typed, OneLogReplays, PTL DEF Spec

\* The chain in memory is valid after every operation, every failed append and
\* every restart, for any number of players: the restarted chain is the one
\* log that replays, and the next block extends it.  It rests on every file
\* being read at start and on the clock not stepping back.
THEOREM ChainStaysValid ==
    ASSUME "load" \notin Faults, "clock" \notin Faults
    PROVE  Spec => []LedgerIsValid
BY ChainInvariant, PTL DEF ChainInv

\* What the player is shown is what the chain in memory adds up to, whether an
\* operation updated it in place or a restart rebuilt it from the logs.
THEOREM MemoryFollowsChain ==
    ASSUME "load" \notin Faults, "clock" \notin Faults
    PROVE  Spec => []MemoryMatchesLedger
BY ChainInvariant, PTL DEF ChainInv

-----------------------------------------------------------------------------
(* One player's service, of which no append fails halfway. *)

\* What is answered was mined.
AckInv ==
    /\ acked \subseteq 1..minted
    /\ promotion.stage = "record" => promotion.hash \in 1..minted

\* What is mined may be answered.
LEMMA MinedAcks ==
    ASSUME TypeInv, AckInv, NEW txn, NEW outcome, AddBlock(txn, outcome),
           acked' = acked \/ Acknowledge(outcome),
           \/ promotion' = promotion
           \/ promotion'.stage # "record"
           \/ promotion'.hash = minted + 1
    PROVE  AckInv'
<1>1. minted \in Nat /\ minted' = minted + 1
  BY MaxBlocksAssumption DEF AddBlock, TypeInv, ClaimsTypeOK
<1>2. acked' \subseteq acked \cup {minted + 1}
  BY DEF Acknowledge
<1>3. 1..minted \subseteq 1..minted' /\ minted + 1 \in 1..minted'
  BY <1>1
<1> QED
  BY <1>2, <1>3 DEF AckInv

\* Nothing else is answered but what a promotion mined.
LEMMA UnminedAcks ==
    ASSUME AckInv, minted' = minted,
           \/ acked' = acked
           \/ /\ promotion.stage = "record"
              /\ acked' \subseteq acked \cup {promotion.hash},
           promotion' = promotion \/ promotion'.stage # "record"
    PROVE  AckInv'
  BY DEF AckInv

LEMMA NextAcks == TypeInv /\ AckInv /\ [Next]_vars => AckInv'
<1> SUFFICES ASSUME TypeInv, AckInv, [Next]_vars PROVE AckInv'
  OBVIOUS
<1>1. ASSUME NEW p \in Players, NEW vector, ReplaceVector(p, vector)
      PROVE  AckInv'
  BY <1>1, MinedAcks DEF ReplaceVector
<1>2. ASSUME NEW p \in Players, CreateProfile(p) \/ SetVector(p)
      PROVE  AckInv'
  BY <1>1, <1>2, MinedAcks DEF CreateProfile, SetVector
<1>3. ASSUME NEW p \in Players, MergeVector(p)
      PROVE  AckInv'
  <2>1. \/ \E vector : ReplaceVector(p, vector)
        \/ UNCHANGED <<promotion, history>>
    BY <1>3 DEF MergeVector
  <2> QED
    BY <1>1, <2>1, UnminedAcks DEF history
<1>4. ASSUME NEW p \in Players, AwardEntitlement(p) \/ AwardAchievement(p)
      PROVE  AckInv'
  BY <1>4, MinedAcks DEF AwardEntitlement, AwardAchievement, GiveEntitlement,
                         GiveAchievement
<1>5. ASSUME NEW p \in Players, NEW c \in Claims,
             \/ SubmitNew(p, c) \/ SubmitAgain(p, c) \/ PromoteBegin(p, c)
             \/ PromoteAgain(p, c) \/ Reject(p, c)
      PROVE  AckInv'
  <2>1. minted' = minted /\ acked' = acked
    BY <1>5 DEF SubmitNew, SubmitAgain, PromoteBegin, PromoteAgain, Reject, history
  <2>2. promotion' = promotion \/ promotion'.stage # "record"
    BY <1>5 DEF SubmitNew, SubmitAgain, PromoteBegin, PromoteAgain, Reject, memory,
                AfterSave, NoPromotion
  <2> QED
    BY <2>1, <2>2, UnminedAcks
<1>6. CASE PromoteAward
  <2>1. PICK outcome \in AppendOutcomes :
          /\ AddBlock(AchievementAward(promotion.player,
                        claims[promotion.player][promotion.claim].achievement,
                        promotion.claim), outcome)
          /\ promotion' = AfterAward(outcome, promotion.player, promotion.claim)
    BY <1>6 DEF PromoteAward, GiveAchievement
  <2>2. promotion'.stage # "record" \/ promotion'.hash = minted + 1
    BY <2>1 DEF AfterAward, NoPromotion
  <2> QED
    BY <1>6, <2>1, <2>2, MinedAcks DEF PromoteAward
<1>7. CASE PromoteRecord
  <2>1. /\ minted' = minted
        /\ promotion.stage = "record"
        /\ acked' \subseteq acked \cup {promotion.hash}
        /\ promotion'.stage # "record"
    BY <1>7 DEF PromoteRecord, NoPromotion
  <2> QED
    BY <2>1, UnminedAcks
<1>8. CASE Restart
  BY <1>8, UnminedAcks DEF Restart, RestartWith, history, NoPromotion
<1>9. CASE UNCHANGED vars
  BY <1>9, UnminedAcks DEF vars, memory, history
<1> QED
  BY <1>2, <1>3, <1>4, <1>5, <1>6, <1>7, <1>8, <1>9 DEF Next

LEMMA Acks == Spec => []AckInv
<1>1. Init => AckInv
  BY DEF Init, AckInv, NoPromotion
<1> QED
  BY <1>1, NextAcks, Typed, PTL DEF Spec

\* The service of one player.
OnePlayer == \A p, q \in Players : p = q

\* The chain in memory, the one log and what replays of it are the same, and a
\* block is where its hash says.
WholeInv ==
    /\ torn = {}
    /\ \A p \in Players : logs[p] = ledger /\ VerifiedLog(p) = ledger
    /\ Len(ledger) = minted
    /\ \A i \in 1..minted : ledger[i].hash = i

\* The new block goes into the one log, whole.
LEMMA MinedWhole ==
    ASSUME OnePlayer, Faults \subseteq {"sync", "save"}, TypeInv, WholeInv,
           NEW txn \in Transactions, NEW outcome \in AppendOutcomes, NEW block,
           Mined(txn, outcome, block)
    PROVE  WholeInv'
<1>1. outcome \in {"ok", "sync"}
  BY DEF AppendOutcomes
<1>2. txn.player \in Players /\ block \in Blocks /\ ledger \in Seq(Blocks)
      /\ ledger' = Append(ledger, block) /\ block.hash = minted + 1
      /\ minted' = minted + 1 /\ minted \in Nat
  BY MaxBlocksAssumption DEF Mined, Transactions, TypeInv, BlocksTypeOK, ClaimsTypeOK
<1>3. torn' = {}
  BY <1>1 DEF Mined, AppendBlock, WholeInv
<1>4. ASSUME NEW q \in Players
      PROVE  logs'[q] = ledger' /\ VerifiedLog(q)' = ledger'
  <2>1. q = txn.player
    BY <1>2 DEF OnePlayer
  <2>2. logs'[q] = Append(logs[q], block)
    BY <1>1, <1>2, <2>1, LogsAfter DEF Mined
  <2>3. logs[q] = ledger /\ VerifiedLog(q) = ledger
    BY DEF WholeInv
  <2>4. VerifiedLog(q)' = Append(VerifiedLog(q), block)
    BY <1>1, <2>1, <2>3, VerifiedAfter
  <2> QED
    BY <1>2, <2>2, <2>3, <2>4
<1>5. Len(ledger) = minted /\ \A i \in 1..minted : ledger[i].hash = i
  BY DEF WholeInv
<1>6. Len(ledger') = minted' /\ \A i \in 1..minted' : ledger'[i].hash = i
  BY <1>2, <1>5
<1> QED
  BY <1>3, <1>4, <1>6 DEF WholeInv

\* A restart takes the one log for the chain.
LEMMA RestartWhole ==
    ASSUME Faults \subseteq {"sync", "save"}, OnePlayer, TypeInv, OneVerifiableLog,
           ChainInv, WholeInv, Restart
    PROVE  /\ ledger' = ledger
           /\ UNCHANGED <<files, history>>
           /\ claims' = [p \in Players |-> IF p \in listed THEN claimFiles[p]
                                           ELSE NoClaims]
<1>1. "load" \notin Faults
  OBVIOUS
<1>2. /\ \/ /\ ledger' = <<>>
            /\ \A p \in listed \ torn : VerifiedLog(p) = <<>>
         \/ \E q \in listed \ torn : ledger' = VerifiedLog(q)
      /\ UNCHANGED <<files, history>>
      /\ claims' = [p \in Players |-> IF p \in listed THEN claimFiles[p]
                                      ELSE NoClaims]
  BY <1>1, RestartLedger DEF ChainInv
<1>3. listed \subseteq Players /\ torn = {} /\ \A p \in Players : VerifiedLog(p) = ledger
  BY DEF TypeInv, BlocksTypeOK, WholeInv
<1>4. CASE ledger # <<>>
  <2>1. ledger[1].txn.player \in Players
    <3>1. ledger[1] \in Blocks
      BY <1>4 DEF TypeInv, BlocksTypeOK
    <3> QED
      BY <3>1, BlockFields
  <2>2. ledger[1].txn.player \in listed
    BY <1>3, <1>4, <2>1, VerifiedIsListed
  <2> QED
    BY <1>2, <1>3, <1>4, <2>2
<1>5. CASE ledger = <<>>
  BY <1>2, <1>3, <1>5
<1> QED
  BY <1>2, <1>4, <1>5

LEMMA NextWhole ==
    ASSUME OnePlayer, Faults \subseteq {"sync", "save"},
           TypeInv, OneVerifiableLog, ChainInv, WholeInv, [Next]_vars
    PROVE  WholeInv'
<1>1. ASSUME NEW txn \in Transactions, NEW outcome \in AppendOutcomes,
             Mines(txn, outcome)
      PROVE  WholeInv'
  BY <1>1, AddBlockMines, MinedWhole DEF Mines
<1>2. CASE Restart
  <2>1. UNCHANGED <<ledger, logs, torn, minted>>
    BY <1>2, RestartWhole DEF files, history
  <2> QED
    BY <2>1 DEF WholeInv, VerifiedLog
<1>3. CASE UNCHANGED chain
  BY <1>3 DEF chain, WholeInv, VerifiedLog
<1> QED
  BY <1>1, <1>2, <1>3, Steps

LEMMA WholeInvariant ==
    ASSUME OnePlayer, Faults \subseteq {"sync", "save"}
    PROVE  Spec => [](TypeInv /\ OneVerifiableLog /\ ChainInv /\ WholeInv)
<1>1. Init => WholeInv
  BY VerifyEmpty DEF Init, WholeInv, VerifiedLog
<1>2. TypeInv /\ OneVerifiableLog /\ ChainInv /\ WholeInv /\ [Next]_vars => WholeInv'
  BY NextWhole
<1>3. "load" \notin Faults /\ "clock" \notin Faults
  OBVIOUS
<1>4. (Spec => []OneVerifiableLog) /\ (Spec => []ChainInv)
  BY <1>3, OneLogReplays, ChainInvariant
<1> QED
  BY <1>1, <1>2, <1>4, Typed, PTL DEF Spec

\* Where one player is served and an append fails at most after the whole line
\* is written, every block whose operation was answered Ok is one that the
\* replay of the log keeps.  (With two players, or a lost append, it is not:
\* see the violations.)
THEOREM AckedBlocksSurvive ==
    ASSUME OnePlayer, Faults \subseteq {"sync", "save"}
    PROVE  Spec => []AckedBlocksAreRestorable
<1>1. TypeInv /\ WholeInv /\ AckInv => AckedBlocksAreRestorable
  <2> SUFFICES ASSUME TypeInv, WholeInv, AckInv, NEW h \in acked
               PROVE  \E p \in listed \ torn :
                        \E i \in DOMAIN VerifiedLog(p) : VerifiedLog(p)[i].hash = h
    BY DEF AckedBlocksAreRestorable
  <2>1. h \in 1..minted /\ Len(ledger) = minted /\ ledger[h].hash = h
        /\ ledger \in Seq(Blocks)
    BY DEF AckInv, WholeInv, TypeInv, BlocksTypeOK
  <2>2. h \in DOMAIN ledger /\ ledger[h] \in Blocks /\ ledger # <<>>
    BY <2>1
  <2> DEFINE p == ledger[h].txn.player
  <2>3. p \in Players
    BY <2>2, BlockFields
  <2>4. VerifiedLog(p) = ledger /\ torn = {}
    BY <2>3 DEF WholeInv
  <2>5. p \in listed
    BY <2>2, <2>3, <2>4, VerifiedIsListed
  <2> QED
    BY <2>1, <2>2, <2>4, <2>5
<1> QED
  BY <1>1, Acks, WholeInvariant, PTL

\* Where, besides, no save fails, a restart between any two steps, also in the
\* middle of a promotion, changes nothing that a player or a game can see.
THEOREM RestartsAreInvisible ==
    ASSUME OnePlayer, Faults \subseteq {"sync"}
    PROVE  Spec => RestartIsInvisible
<1>1. /\ "load" \notin Faults /\ "open" \notin Faults /\ "save" \notin Faults
      /\ "clock" \notin Faults
      /\ Faults \subseteq {"sync", "save"}
  OBVIOUS
<1>2. ASSUME TypeInv, OneVerifiableLog, ChainInv, WholeInv, ChainInv', KeptInv, Restart
      PROVE  /\ profiles' = profiles
             /\ ledger' = ledger
             /\ claims' = claims
             /\ \A p \in Players : OrDefault(rewards'[p]) = OrDefault(rewards[p])
  <2>1. /\ ledger' = ledger
        /\ claims' = [p \in Players |-> IF p \in listed THEN claimFiles[p]
                                        ELSE NoClaims]
    BY <1>1, <1>2, RestartWhole
  <2>2. claims' = claims
    BY <1>2, <2>1 DEF KeptInv, MemoryIsSaved, UnlistedIsEmpty, TypeInv, ClaimsTypeOK
  <2>3. \A p \in Players :
          /\ profiles[p] = ReplayProfile(ledger, p)
          /\ OrDefault(rewards[p]) = OrDefault(ReplayRewards(ledger, p))
    BY <1>2 DEF ChainInv, MemoryMatchesLedger
  <2>4. \A p \in Players :
          /\ profiles'[p] = ReplayProfile(ledger', p)
          /\ OrDefault(rewards'[p]) = OrDefault(ReplayRewards(ledger', p))
    BY <1>2 DEF ChainInv, MemoryMatchesLedger
  <2>5. profiles' \in [Players -> Vectors \cup {None}]
        /\ profiles \in [Players -> Vectors \cup {None}]
    BY <1>2, RestartTypes DEF TypeInv, BlocksTypeOK
  <2>6. \A p \in Players : profiles'[p] = profiles[p]
    BY <2>1, <2>3, <2>4
  <2>7. profiles' = profiles
    BY <2>5, <2>6
  <2> QED
    BY <2>1, <2>2, <2>3, <2>4, <2>7
<1>3. (Spec => [](TypeInv /\ OneVerifiableLog /\ ChainInv /\ WholeInv))
      /\ (Spec => []KeptInv)
  BY <1>1, WholeInvariant, KeptInvariant
<1> QED
  BY <1>2, <1>3, PTL DEF Spec, RestartIsInvisible
=============================================================================
