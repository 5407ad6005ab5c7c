------------------------------- MODULE ApiProofs -------------------------------
(***************************************************************************)
(* What concurrent handlers keep: the proof, for any calls, players,       *)
(* claims, tokens and registries, however often a call is repeated.        *)
(*                                                                         *)
(* A handler's guarantees come from the stages it has passed: what it      *)
(* checked still holds, and what it changes it changes with the lock.      *)
(***************************************************************************)
EXTENDS Api, FiniteSetTheorems, SequenceTheorems, TLAPS

\* Stage s comes before the i-th stage of handler h.
Before(h, i, s) == \E j \in 1..(i - 1) : h[j] = s

\* r's handler has passed stage s in this attempt.
Passed(r, s) == Before(Handler(r), at[r], s)

Reviewing(r) == job[r].kind = "review_claim"

\* The stages that read or change the service under the write lock.
WriteStages == {"create", "set", "merge", "submit", "decide", "award", "append", "note"}

\* What the order of the stages of handler k says of its i-th stage.
Ordered(k, i) ==
    LET h == Handlers[k]
    IN  /\ h[i] \in WriteStages => Before(h, i, "write")
        /\ Before(h, i, "decide") \/ Before(h, i, "award") => Before(h, i, "write")
        /\ h[i] = "create" => k = "create_profile" /\ Before(h, i, "session")
        /\ h[i] \in {"set", "merge"} =>
                /\ k \in {"set_dimensions", "add_concept_to_profile"}
                /\ Before(h, i, "session") /\ Before(h, i, "path")
        /\ h[i] = "set" => k = "set_dimensions"
        /\ h[i] = "submit" => k = "submit_claim"
        /\ h[i] \in {"snapshot", "decide", "note"} => k = "review_claim"
        /\ h[i] = "snapshot" => ~Before(h, i, "developer")
        /\ h[i] = "award" =>
                /\ k \in RewardKinds
                /\ Before(h, i, "token")
                /\ ~Before(h, i, "award")
                /\ k = "review_claim" => Before(h, i, "developer") /\ Before(h, i, "decide")
        /\ h[i] = "append" /\ k \in RewardKinds => Before(h, i, "award")
        /\ h[i] = "note" =>
                Before(h, i, "decide") /\ Before(h, i, "award") /\ Before(h, i, "append")
        /\ k = "review_claim" /\ Before(h, i, "decide") =>
                h[i] \in {"award", "append", "note"}
        /\ k = "review_claim" /\ h[i] = "append" => i # Len(h)
        /\ i = Len(h) => \/ h[i] \in {"look", "submit", "append", "note", "save"}
                         \/ k = "get_concept" /\ h[i] = "definition"

\* The order of the stages of every handler.
LEMMA StagesAreOrdered ==
    \A k \in DOMAIN Handlers : \A i \in 1..Len(Handlers[k]) : Ordered(k, i)
<1>. DEFINE Good(k) == \A i \in 1..Len(Handlers[k]) : Ordered(k, i)
<1>1. Good("create_profile") /\ Good("get_profile") /\ Good("get_rewards")
  BY DEF Handlers, CreateProfile, GetProfile, GetRewards, Ordered, Before,
         WriteStages, RewardKinds
<1>2. Good("set_dimensions") /\ Good("add_concept_to_profile")
  BY DEF Handlers, SetDimensions, AddConceptToProfile, Ordered, Before,
         WriteStages, RewardKinds
<1>3. Good("submit_claim") /\ Good("list_claims")
  BY DEF Handlers, SubmitClaim, ListClaims, Ordered, Before, WriteStages, RewardKinds
<1>4. Good("review_claim")
  BY DEF Handlers, ReviewClaim, Ordered, Before, WriteStages, RewardKinds
<1>5. Good("award_achievement") /\ Good("award_entitlement")
  BY DEF Handlers, AwardAchievement, AwardEntitlement, Ordered, Before,
         WriteStages, RewardKinds
<1>6. Good("add_achievement") /\ Good("add_entitlement") /\ Good("add_concept")
  BY DEF Handlers, AddDefinition, Ordered, Before, WriteStages, RewardKinds
<1>7. Good("get_concept")
  BY DEF Handlers, GetConcept, Ordered, Before, WriteStages, RewardKinds
<1>8. DOMAIN Handlers =
        {"create_profile", "get_profile", "get_rewards", "set_dimensions",
         "add_concept_to_profile", "submit_claim", "list_claims", "review_claim",
         "award_achievement", "award_entitlement", "add_achievement",
         "add_entitlement", "add_concept", "get_concept"}
  BY DEF Handlers
<1>. HIDE DEF Good
<1>9. \A k \in DOMAIN Handlers : Good(k)
  BY <1>1, <1>2, <1>3, <1>4, <1>5, <1>6, <1>7, <1>8
<1>. QED
  BY <1>9 DEF Good

-----------------------------------------------------------------------------
(* What one stage does. *)

StageTypes ==
    /\ job \in Workloads
    /\ at \in [Requests -> Nat]
    /\ \A r \in Requests : at[r] <= Len(Handler(r))
    /\ DOMAIN attempts = Requests
    /\ DOMAIN snapshot = Requests
    /\ DOMAIN receipt = Requests

\* r's handler goes on.
Goes(r) == at' = [at EXCEPT ![r] = at[r] + 1] /\ at'[r] = at[r] + 1

\* r's handler returns.
Returns(r) ==
    /\ at' = [at EXCEPT ![r] = 0]
    /\ writer' = IF writer = r THEN None ELSE writer

LEMMA CheckMoves ==
    ASSUME StageTypes, NEW r \in Requests, NEW condition, NEW otherwise,
           Check(r, condition, otherwise)
    PROVE  /\ Goes(r) \/ Returns(r)
           /\ Goes(r) => condition /\ UNCHANGED writer
  BY DEF Check, Continue, Proceed, Answer, Goes, Returns, StageTypes

LEMMA CallTypes ==
    ASSUME StageTypes, NEW r \in Requests
    PROVE  /\ job[r].kind \in DOMAIN Handlers
           /\ job[r].kind = "set_dimensions" => job[r].dim # None
           /\ job[r].kind \in {"submit_claim", "review_claim"} =>
                job[r].player \in Players /\ job[r].claim \in Claims
           /\ job[r].kind = "review_claim" => job[r].action \in {"Promote", "Reject"}
  BY WorkloadsAssumption DEF StageTypes

LEMMA HandlerLengths ==
    ASSUME NEW k \in DOMAIN Handlers
    PROVE  Len(Handlers[k]) \in {2, 4, 5, 6, 10}
BY DEF Handlers, CreateProfile, GetProfile, GetRewards, SetDimensions,
       AddConceptToProfile, SubmitClaim, ListClaims, ReviewClaim,
       AwardAchievement, AwardEntitlement, AddDefinition, GetConcept

LEMMA HandlerLength ==
    ASSUME StageTypes, NEW r \in Requests
    PROVE  Len(Handler(r)) \in Nat \ {0}
<1>1. Len(Handler(r)) \in {2, 4, 5, 6, 10}
  BY HandlerLengths, CallTypes DEF Handler
<1>. QED
  BY <1>1

\* A stage a handler is at is one of its stages.
LEMMA StageInHandler ==
    ASSUME StageTypes, NEW r \in Requests, at[r] > 0
    PROVE  Ordered(job[r].kind, at[r])
<1>1. at[r] \in Nat /\ at[r] <= Len(Handler(r))
  BY DEF StageTypes
<1>2. at[r] \in 1..Len(Handlers[job[r].kind])
  BY <1>1, HandlerLength DEF Handler
<1>. QED
  BY <1>2, StagesAreOrdered, CallTypes

-----------------------------------------------------------------------------
(* Which stages change what. *)

LEMMA StepFrame ==
    ASSUME NEW r \in Requests, Step(r)
    PROVE  UNCHANGED <<table, job, attempts>>
BY DEF Step, CheckSession, CheckPath, CheckToken, CheckDeveloper, FindDefinition,
       TakeRead, TakeWrite, Look, TakeSnapshot, CreateProfileInMemory, SetVector,
       MergeVector, SubmitClaimInMemory, ReviewDecided, Decide, Award, AppendBlock,
       Note, LoadRegistry, TruncateRegistry, SaveRegistry, client

LEMMA WhoChangesClaims ==
    ASSUME NEW r \in Requests, Step(r)
    PROVE  UNCHANGED claims \/ SubmitClaimInMemory(r) \/ Decide(r) \/ Note(r)
BY DEF Step, CheckSession, CheckPath, CheckToken, CheckDeveloper, FindDefinition,
       TakeRead, TakeWrite, Look, TakeSnapshot, CreateProfileInMemory, SetVector,
       MergeVector, ReviewDecided, Award, AppendBlock,
       LoadRegistry, TruncateRegistry, SaveRegistry, service

LEMMA WhoMines ==
    ASSUME NEW r \in Requests, Step(r)
    PROVE  \/ UNCHANGED chain
           \/ CreateProfileInMemory(r) \/ SetVector(r) \/ MergeVector(r) \/ Award(r)
BY DEF Step, CheckSession, CheckPath, CheckToken, CheckDeveloper, FindDefinition,
       TakeRead, TakeWrite, Look, TakeSnapshot, SubmitClaimInMemory,
       ReviewDecided, Decide, AppendBlock, Note, LoadRegistry, TruncateRegistry,
       SaveRegistry, service

LEMMA WhoDecides ==
    ASSUME NEW r \in Requests, Step(r)
    PROVE  /\ UNCHANGED decided \/ ReviewDecided(r) \/ Decide(r) \/ Note(r)
           /\ UNCHANGED spoilt \/ Decide(r) \/ AppendBlock(r)
BY DEF Step, CheckSession, CheckPath, CheckToken, CheckDeveloper, FindDefinition,
       TakeRead, TakeWrite, Look, TakeSnapshot, CreateProfileInMemory, SetVector,
       MergeVector, SubmitClaimInMemory, ReviewDecided, Award, AppendBlock,
       Note, LoadRegistry, TruncateRegistry, SaveRegistry, history

LEMMA WhoChangesLocals ==
    ASSUME NEW r \in Requests, Step(r)
    PROVE  /\ UNCHANGED snapshot \/ TakeSnapshot(r)
           /\ UNCHANGED receipt \/ AppendBlock(r)
           /\ UNCHANGED vectors \/ CreateProfileInMemory(r) \/ SetVector(r)
BY DEF Step, CheckSession, CheckPath, CheckToken, CheckDeveloper, FindDefinition,
       TakeRead, TakeWrite, Look, TakeSnapshot, CreateProfileInMemory, SetVector,
       MergeVector, SubmitClaimInMemory, ReviewDecided, Decide, Award, AppendBlock,
       Note, LoadRegistry, TruncateRegistry, SaveRegistry, local, service

\* What a handler that goes on has established at the stage it leaves.
Left(r, s) ==
    /\ s = "session" => job[r].bearer \in DOMAIN Sessions
    /\ s = "path" => Sessions[job[r].bearer] = job[r].player
    /\ s = "token" => TokenAllows(r)
    /\ s = "developer" => \E auth \in AuthorizedToken(table, job[r].bearer) :
                              auth.developer = snapshot[r].developer
    /\ IF s = "write" THEN writer = None /\ writer' = r ELSE UNCHANGED writer
    /\ s = "decide" => Decide(r) /\ job[r].action # "Reject"
    /\ s = "award" =>
            /\ vectors[job[r].player] # None
            /\ Mine(r, "award", DefinitionKey(r)[1], Via(r))
    /\ s = "append" => AppendBlock(r) /\ UNCHANGED spoilt /\
            receipt' = IF job[r].kind \in RewardKinds
                       THEN [receipt EXCEPT ![r] = AwardRecord(r, ReceiptBlock)]
                       ELSE receipt

Moves(r) ==
    /\ at[r] > 0
    /\ \/ Returns(r)
       \/ /\ Goes(r)
          /\ at[r] # Len(Handler(r))
          /\ Left(r, Handler(r)[at[r]])

\* Every step of a handler leaves its stage, and it goes on only with what the
\* stage is there to establish.
LEMMA EveryStepMoves ==
    ASSUME StageTypes, NEW r \in Requests, Step(r)
    PROVE  Moves(r)
<1>1. at[r] > 0
  BY DEF Step, CheckSession, CheckPath, CheckToken, CheckDeveloper, FindDefinition,
       TakeRead, TakeWrite, Look, TakeSnapshot, CreateProfileInMemory, SetVector,
       MergeVector, SubmitClaimInMemory, ReviewDecided, Decide, Award, AppendBlock,
       Note, LoadRegistry, TruncateRegistry, SaveRegistry, Stage
<1>2. at[r] = Len(Handler(r)) =>
        \/ Handler(r)[at[r]] \in {"look", "submit", "append", "note", "save"}
        \/ job[r].kind = "get_concept" /\ Handler(r)[at[r]] = "definition"
  BY <1>1, StageInHandler DEF Ordered, Handler
<1>3. /\ at \in [Requests -> Nat]
      /\ \A status : Answer(r, status) => Returns(r)
      /\ Proceed(r) => Goes(r)
  BY DEF StageTypes, Answer, Returns, Proceed, Goes
<1>4. CASE CheckSession(r)
  <2>. DEFINE known == job[r].bearer \in DOMAIN Sessions
  <2>1. Handler(r)[at[r]] = "session" /\ Check(r, known, "unauthorized")
    BY <1>4 DEF CheckSession, Stage
  <2>. HIDE DEF known
  <2>2. Goes(r) \/ Returns(r)
    BY <2>1, CheckMoves
  <2>3. Goes(r) => known /\ UNCHANGED writer
    BY <2>1, CheckMoves
  <2>4. Goes(r) => Left(r, "session")
    BY <2>3 DEF Left, known
  <2>. QED
    BY <1>1, <1>2, <2>1, <2>2, <2>4 DEF Moves
<1>5. CASE CheckPath(r)
  BY <1>1, <1>2, <1>5, CheckMoves DEF CheckPath, Stage, Moves, Left
<1>6. CASE CheckToken(r)
  BY <1>1, <1>2, <1>6, CheckMoves DEF CheckToken, Stage, Moves, Left
<1>7. CASE CheckDeveloper(r)
  BY <1>1, <1>2, <1>7, CheckMoves DEF CheckDeveloper, Stage, Moves, Left
<1>8. CASE FindDefinition(r)
  <2>1. CASE job[r].kind = "get_concept"
    <3>. DEFINE found == DefinitionKey(r) \in registry[RegistryOf[job[r].kind]]
    <3>1. CASE found
      BY <1>1, <1>3, <1>8, <2>1, <3>1 DEF FindDefinition, Moves
    <3>2. CASE ~found
      BY <1>1, <1>3, <1>8, <2>1, <3>2, CheckMoves DEF FindDefinition, Moves, Check
    <3>. QED
      BY <3>1, <3>2
  <2>2. CASE job[r].kind # "get_concept"
    BY <1>1, <1>2, <1>8, <2>2, CheckMoves DEF FindDefinition, Stage, Moves, Left
  <2>. QED
    BY <2>1, <2>2
<1>9. CASE TakeRead(r)
  BY <1>1, <1>2, <1>3, <1>9 DEF TakeRead, Refuse, Stage, Moves, Left
<1>10. CASE TakeWrite(r)
  BY <1>1, <1>2, <1>3, <1>10 DEF TakeWrite, Refuse, Stage, Moves, Left
<1>11. CASE Look(r)
  BY <1>1, <1>3, <1>11 DEF Look, Moves
<1>12. CASE TakeSnapshot(r)
  BY <1>1, <1>2, <1>3, <1>12 DEF TakeSnapshot, Stage, Moves, Left
<1>13. CASE CreateProfileInMemory(r)
  BY <1>1, <1>2, <1>3, <1>13 DEF CreateProfileInMemory, Continue, Stage, Moves, Left
<1>14. CASE SetVector(r)
  BY <1>1, <1>2, <1>3, <1>14 DEF SetVector, Continue, Stage, Moves, Left
<1>15. CASE MergeVector(r)
  BY <1>1, <1>2, <1>3, <1>15, CheckMoves DEF MergeVector, Stage, Moves, Left
<1>16. CASE SubmitClaimInMemory(r)
  BY <1>1, <1>3, <1>16 DEF SubmitClaimInMemory, Moves
<1>17. CASE ReviewDecided(r)
  BY <1>1, <1>3, <1>17 DEF ReviewDecided, Moves
<1>18. CASE Decide(r)
  BY <1>1, <1>2, <1>3, <1>18 DEF Decide, Continue, Stage, Moves, Left
<1>19. CASE Award(r)
  BY <1>1, <1>2, <1>3, <1>19 DEF Award, Continue, Stage, Moves, Left
<1>20. CASE AppendBlock(r)
  BY <1>1, <1>3, <1>20 DEF AppendBlock, Continue, Stage, Moves, Left
<1>21. CASE Note(r)
  BY <1>1, <1>3, <1>21 DEF Note, Moves
<1>22. CASE LoadRegistry(r)
  BY <1>1, <1>2, <1>22, CheckMoves DEF LoadRegistry, Stage, Moves, Left
<1>23. CASE TruncateRegistry(r)
  BY <1>1, <1>2, <1>3, <1>23 DEF TruncateRegistry, Continue, Stage, Moves, Left
<1>24. CASE SaveRegistry(r)
  BY <1>1, <1>3, <1>24 DEF SaveRegistry, Moves
<1>. QED
  BY <1>4, <1>5, <1>6, <1>7, <1>8, <1>9, <1>10, <1>11, <1>12, <1>13, <1>14, <1>15,
     <1>16, <1>17, <1>18, <1>19, <1>20, <1>21, <1>22, <1>23, <1>24 DEF Step

-----------------------------------------------------------------------------
(* What has been passed. *)

LEMMA PassedByGoing ==
    ASSUME StageTypes, NEW r \in Requests, NEW s, at[r] > 0, Goes(r), UNCHANGED job
    PROVE  Passed(r, s)' <=> Passed(r, s) \/ Handler(r)[at[r]] = s
<1>1. at[r] \in Nat /\ at'[r] = at[r] + 1 /\ Handler(r)' = Handler(r)
  BY DEF StageTypes, Goes, Handler
<1>2. 1..(at'[r] - 1) = 1..(at[r] - 1) \cup {at[r]}
  BY <1>1
<1>. QED
  BY <1>1, <1>2 DEF Passed, Before

LEMMA NothingPassed ==
    ASSUME NEW r \in Requests, NEW s, at'[r] \in {0, 1}
    PROVE  ~Passed(r, s)'
<1>1. 1..(at'[r] - 1) = {}
  OBVIOUS
<1>. QED
  BY <1>1 DEF Passed, Before

LEMMA OthersPassed ==
    ASSUME StageTypes, NEW r \in Requests, NEW q \in Requests, q # r, NEW s, NEW i,
           at' = [at EXCEPT ![r] = i], UNCHANGED job
    PROVE  Passed(q, s)' <=> Passed(q, s)
<1>1. at'[q] = at[q] /\ Handler(q)' = Handler(q)
  BY DEF StageTypes, Handler
<1>. QED
  BY <1>1 DEF Passed, Before

\* What a step may change of what any handler has passed.
LEMMA StepPasses ==
    ASSUME StageTypes, NEW r \in Requests, Step(r), NEW q \in Requests, NEW s,
           Passed(q, s)'
    PROVE  \/ q # r /\ Passed(q, s)
           \/ q = r /\ Goes(r) /\ Passed(r, s)
           \/ q = r /\ Goes(r) /\ Handler(r)[at[r]] = s /\ Left(r, s)
<1>1. Moves(r) /\ UNCHANGED job
  BY EveryStepMoves, StepFrame
<1>2. CASE Returns(r)
  <2>1. at'[r] = 0
    BY <1>2 DEF Returns, StageTypes
  <2>2. q # r
    BY <2>1, NothingPassed
  <2>. QED
    BY <1>1, <1>2, <2>2, OthersPassed DEF Returns
<1>3. CASE Goes(r) /\ Left(r, Handler(r)[at[r]])
  <2>1. CASE q = r
    BY <1>1, <1>3, <2>1, PassedByGoing DEF Moves
  <2>2. CASE q # r
    BY <1>1, <1>3, <2>2, OthersPassed DEF Goes
  <2>. QED
    BY <2>1, <2>2
<1>. QED
  BY <1>1, <1>2, <1>3 DEF Moves

\* A step that is none of a handler's: a call is sent, or nothing changes but
\* what is on its way to the caller.
Sends(r) ==
    /\ at' = [at EXCEPT ![r] = 1]
    /\ at[r] = 0
    /\ attempts' = [attempts EXCEPT ![r] = @ + 1]
    /\ snapshot' = [snapshot EXCEPT ![r] = None]
    /\ receipt' = [receipt EXCEPT ![r] = None]
    /\ UNCHANGED <<table, job, writer, vectors, claims, chain, decided, spoilt>>

Quiet == UNCHANGED <<table, job, attempts, at, snapshot, receipt, writer, vectors,
                     claims, chain, decided, spoilt>>

LEMMA EveryStep ==
    ASSUME [Next]_vars
    PROVE  Quiet \/ \E r \in Requests : Step(r) \/ Sends(r)
<1>1. ASSUME NEW r \in Requests, Call(r)
      PROVE  Quiet \/ Sends(r)
  BY <1>1 DEF Call, Send, Receive, Lose, Quiet, Sends, client, local, lock, service,
              history
<1>2. CASE Over \/ UNCHANGED vars
  BY <1>2 DEF Over, Quiet, vars, client, local, lock, service, history
<1>. QED
  BY <1>1, <1>2 DEF Next

\* A sender had passed nothing, so nobody loses what it had passed.
LEMMA SendKeeps ==
    ASSUME StageTypes, NEW r \in Requests, Sends(r), NEW q \in Requests, NEW s
    PROVE  Passed(q, s)' <=> Passed(q, s)
<1>1. at[r] = 0 /\ at'[r] = 1
  BY DEF Sends, StageTypes
<1>2. q = r => ~Passed(q, s)' /\ ~Passed(q, s)
  <2>1. 1..(at[r] - 1) = {}
    BY <1>1
  <2>. QED
    BY <1>1, <2>1, NothingPassed DEF Passed, Before
<1>3. q # r => (Passed(q, s)' <=> Passed(q, s))
  BY OthersPassed DEF Sends
<1>. QED
  BY <1>2, <1>3

LEMMA SendPasses ==
    ASSUME StageTypes, NEW r \in Requests, Sends(r), NEW q \in Requests, NEW s
    PROVE  Passed(q, s)' => q # r /\ Passed(q, s)
<1>1. at'[r] = 1
  BY DEF Sends, StageTypes
<1>. QED
  BY <1>1, NothingPassed, SendKeeps

LEMMA QuietPasses ==
    ASSUME Quiet, NEW q \in Requests, NEW s
    PROVE  Passed(q, s)' <=> Passed(q, s)
BY DEF Quiet, Passed, Before, Handler

-----------------------------------------------------------------------------
(* Types. *)

LEMMA InitStageTypes == Init => StageTypes
<1>. SUFFICES ASSUME Init PROVE StageTypes
  OBVIOUS
<1>1. /\ job \in Workloads
      /\ at \in [Requests -> Nat] /\ \A r \in Requests : at[r] = 0
      /\ DOMAIN attempts = Requests /\ DOMAIN snapshot = Requests
      /\ DOMAIN receipt = Requests
  BY DEF Init
<1>2. ASSUME NEW r \in Requests PROVE 0 <= Len(Handler(r))
  <2>1. job[r].kind \in DOMAIN Handlers
    BY <1>1, WorkloadsAssumption
  <2>. QED
    BY <2>1, HandlerLengths DEF Handler
<1>. QED
  BY <1>1, <1>2 DEF StageTypes

LEMMA NextStageTypes == StageTypes /\ [Next]_vars => StageTypes'
<1>. SUFFICES ASSUME StageTypes, [Next]_vars PROVE StageTypes'
  OBVIOUS
<1>1. CASE Quiet
  BY <1>1 DEF Quiet, StageTypes, Handler
<1>2. ASSUME NEW r \in Requests, Step(r)
      PROVE  StageTypes'
  <2>1. Moves(r) /\ UNCHANGED <<job, attempts>>
    BY <1>2, EveryStepMoves, StepFrame
  <2>2. DOMAIN snapshot' = Requests
    BY <1>2, WhoChangesLocals DEF TakeSnapshot, StageTypes
  <2>3. DOMAIN receipt' = Requests
    BY <1>2, WhoChangesLocals DEF AppendBlock, StageTypes
  <2>4. at' \in [Requests -> Nat]
    BY <2>1 DEF Moves, Goes, Returns, StageTypes
  <2>5. at'[r] <= Len(Handler(r))
    <3>1. CASE Returns(r)
      BY <3>1, HandlerLength DEF Returns, StageTypes
    <3>2. CASE Goes(r) /\ at[r] # Len(Handler(r))
      BY <3>2, HandlerLength DEF Goes, StageTypes
    <3>. QED
      BY <2>1, <3>1, <3>2 DEF Moves
  <2>6. ASSUME NEW q \in Requests PROVE at'[q] <= Len(Handler(q)')
    BY <2>1, <2>5 DEF Moves, Goes, Returns, StageTypes, Handler
  <2>. QED
    BY <2>1, <2>2, <2>3, <2>4, <2>6 DEF StageTypes
<1>3. ASSUME NEW r \in Requests, Sends(r)
      PROVE  StageTypes'
  <2>1. at' \in [Requests -> Nat]
    BY <1>3 DEF Sends, StageTypes
  <2>2. ASSUME NEW q \in Requests PROVE at'[q] <= Len(Handler(q)')
    BY <1>3, HandlerLength DEF Sends, StageTypes, Handler
  <2>. QED
    BY <1>3, <2>1, <2>2 DEF Sends, StageTypes
<1>. QED
  BY <1>1, <1>2, <1>3, EveryStep

-----------------------------------------------------------------------------
(* The lock. *)

\* A handler that has taken the write lock holds it until it returns.
WritersHoldTheLock == \A r \in Requests : Passed(r, "write") => writer = r

LEMMA NextWriters ==
    ASSUME StageTypes, WritersHoldTheLock, [Next]_vars
    PROVE  WritersHoldTheLock'
<1>1. CASE Quiet
  BY <1>1, QuietPasses DEF Quiet, WritersHoldTheLock
<1>2. ASSUME NEW r \in Requests, Step(r), NEW q \in Requests, Passed(q, "write")'
      PROVE  writer' = q
  <2>1. Moves(r)
    BY <1>2, EveryStepMoves
  <2>2. CASE q # r /\ Passed(q, "write")
    BY <2>1, <2>2, NoneAssumption DEF Moves, Returns, Left, WritersHoldTheLock
  <2>3. CASE q = r /\ Goes(r) /\ Handler(r)[at[r]] = "write" /\ Left(r, "write")
    BY <2>3 DEF Left
  <2>4. CASE q = r /\ Goes(r) /\ Passed(r, "write")
    <3>1. ~Returns(r)
      BY <2>4 DEF Goes, Returns, StageTypes
    <3>. QED
      BY <2>1, <2>4, <3>1 DEF Moves, Left, WritersHoldTheLock
  <2>. QED
    BY <1>2, <2>2, <2>3, <2>4, StepPasses
<1>3. ASSUME NEW r \in Requests, Sends(r), NEW q \in Requests, Passed(q, "write")'
      PROVE  writer' = q
  BY <1>3, SendPasses DEF Sends, WritersHoldTheLock
<1>. QED
  BY <1>1, <1>2, <1>3, EveryStep DEF WritersHoldTheLock

\* Who is at a stage that changes the service is alone with it.
LEMMA WritersAreAlone ==
    ASSUME StageTypes, WritersHoldTheLock, NEW r \in Requests, at[r] > 0,
           Handler(r)[at[r]] \in WriteStages
    PROVE  /\ writer = r
           /\ \A q \in Requests : Passed(q, "write") => q = r
<1>1. Passed(r, "write")
  BY StageInHandler DEF Ordered, Passed, Handler
<1>. QED
  BY <1>1 DEF WritersHoldTheLock

-----------------------------------------------------------------------------
(* Claims. *)

ClaimTypes ==
    /\ DOMAIN claims = Players
    /\ \A p \in Players :
        /\ DOMAIN claims[p] = Claims
        /\ \A c \in Claims :
            \/ claims[p][c] = AbsentClaim
            \/ /\ DOMAIN claims[p][c] = {"status", "developer", "name", "award"}
               /\ claims[p][c].status \in {"Pending", "Promoted", "Rejected"}

\* Only players that have a profile have claims, and no profile goes.
ClaimantsHaveProfiles ==
    /\ DOMAIN vectors = Players
    /\ \A p \in Players : (\E c \in Claims : claims[p][c] # AbsentClaim) =>
                                vectors[p] # None

\* The claim r is about.
About(r, p, c) == p = job[r].player /\ c = job[r].claim

\* What a step of r may do to claim c of p.
Submitted(r, p, c) ==
    /\ vectors[p] # None
    /\ claims[p][c] = AbsentClaim
    /\ DOMAIN claims'[p][c] = {"status", "developer", "name", "award"}
    /\ claims'[p][c].status = "Pending"

Reviewed(r, p, c) ==
    /\ Decide(r) /\ Reviewing(r) /\ About(r, p, c)
    /\ claims[p][c] # AbsentClaim
    /\ \/ claims[p][c].status = "Pending"
       \/ claims[p][c].status = "Rejected" /\ job[r].action = "Reject"
    /\ claims'[p][c] = [claims[p][c] EXCEPT !.status = Decision[job[r].action]]

Noted(r, p, c) ==
    /\ Note(r) /\ Reviewing(r) /\ About(r, p, c)
    /\ claims'[p][c] = [claims[p][c] EXCEPT !.award = receipt[r].by]

LEMMA HowClaimsChange ==
    ASSUME StageTypes, ClaimTypes, NEW r \in Requests, Step(r)
    PROVE  /\ DOMAIN claims' = Players
           /\ \A p \in Players : DOMAIN claims'[p] = Claims
           /\ \A p \in Players, c \in Claims :
                \/ claims'[p][c] = claims[p][c]
                \/ Submitted(r, p, c) \/ Reviewed(r, p, c) \/ Noted(r, p, c)
<1>. DEFINE me == job[r].player
            mine == job[r].claim
<1>1. CASE UNCHANGED claims
  BY <1>1 DEF ClaimTypes
<1>2. CASE SubmitClaimInMemory(r) /\ claims' # claims
  <2>1. /\ vectors[me] # None
        /\ claims[me][mine] = AbsentClaim
        /\ claims' = [claims EXCEPT ![me][mine] =
             [status |-> "Pending", developer |-> job[r].developer,
              name |-> job[r].name, award |-> None]]
    BY <1>2 DEF SubmitClaimInMemory, Taken
  <2>2. me \in Players /\ mine \in Claims
    <3>1. at[r] > 0 /\ Handler(r)[at[r]] = "submit"
      BY <1>2 DEF SubmitClaimInMemory, Stage
    <3>2. job[r].kind = "submit_claim"
      BY <3>1, StageInHandler DEF Ordered, Handler
    <3>. QED
      BY <3>2, CallTypes
  <2>. QED
    BY <2>1, <2>2 DEF ClaimTypes, Submitted
<1>3. CASE Decide(r)
  <2>1. \/ StatusAtReview(r) = "Pending"
        \/ StatusAtReview(r) = "Rejected" /\ job[r].action = "Reject"
    BY <1>3 DEF Decide
  <2>2. claims' = [claims EXCEPT ![me][mine].status = Decision[job[r].action]]
    BY <1>3 DEF Decide
  <2>3. Reviewing(r)
    <3>1. at[r] > 0 /\ Handler(r)[at[r]] = "decide"
      BY <1>3 DEF Decide, Stage
    <3>. QED
      BY <3>1, StageInHandler DEF Ordered, Handler, Reviewing
  <2>4. me \in Players /\ mine \in Claims
    BY <2>3, CallTypes DEF Reviewing
  <2>5. claims[me][mine] # AbsentClaim
    BY <2>1 DEF StatusAtReview, AbsentClaim
  <2>. QED
    BY <1>3, <2>1, <2>3, <2>4, <2>5, <2>2 DEF ClaimTypes, Reviewed, About, StatusAtReview
<1>4. CASE Note(r)
  <2>1. claims' = [claims EXCEPT ![me][mine].award = receipt[r].by]
    BY <1>4 DEF Note
  <2>2. Reviewing(r)
    <3>1. at[r] > 0 /\ Handler(r)[at[r]] = "note"
      BY <1>4 DEF Note, Stage
    <3>. QED
      BY <3>1, StageInHandler DEF Ordered, Handler, Reviewing
  <2>3. me \in Players /\ mine \in Claims
    BY <2>2, CallTypes DEF Reviewing
  <2>. QED
    BY <1>4, <2>1, <2>2, <2>3 DEF ClaimTypes, Noted, About
<1>. QED
  BY <1>1, <1>2, <1>3, <1>4, WhoChangesClaims

\* A claim, once made, is about the same achievement for ever, and a decision
\* is never revised.
LEMMA WhatClaimsKeep ==
    ASSUME StageTypes, ClaimTypes, NEW r \in Requests, Step(r),
           NEW p \in Players, NEW c \in Claims, claims[p][c] # AbsentClaim
    PROVE  /\ claims'[p][c] # AbsentClaim
           /\ claims'[p][c].developer = claims[p][c].developer
           /\ claims'[p][c].name = claims[p][c].name
           /\ claims[p][c].status \in {"Promoted", "Rejected"} =>
                claims'[p][c].status = claims[p][c].status
<1>1. DOMAIN claims[p][c] = {"status", "developer", "name", "award"}
  BY DEF ClaimTypes
<1>2. CASE Reviewed(r, p, c)
  <2>1. /\ claims'[p][c].developer = claims[p][c].developer
        /\ claims'[p][c].name = claims[p][c].name
        /\ claims'[p][c].status = Decision[job[r].action]
        /\ DOMAIN claims'[p][c] = DOMAIN claims[p][c]
    BY <1>1, <1>2 DEF Reviewed
  <2>2. claims'[p][c] # AbsentClaim
    BY <1>1, <2>1 DEF AbsentClaim
  <2>. QED
    BY <1>2, <2>1, <2>2 DEF Reviewed, Decision
<1>3. CASE Noted(r, p, c)
  <2>1. /\ claims'[p][c].developer = claims[p][c].developer
        /\ claims'[p][c].name = claims[p][c].name
        /\ claims'[p][c].status = claims[p][c].status
        /\ DOMAIN claims'[p][c] = DOMAIN claims[p][c]
    BY <1>1, <1>3 DEF Noted
  <2>2. claims'[p][c] # AbsentClaim
    BY <1>1, <2>1 DEF AbsentClaim
  <2>. QED
    BY <2>1, <2>2
<1>. QED
  BY <1>2, <1>3, HowClaimsChange DEF Submitted

LEMMA StepClaimTypes ==
    ASSUME StageTypes, ClaimTypes, NEW r \in Requests, Step(r)
    PROVE  ClaimTypes'
<1>1. ASSUME NEW p \in Players, NEW c \in Claims
      PROVE  \/ claims'[p][c] = AbsentClaim
             \/ /\ DOMAIN claims'[p][c] = {"status", "developer", "name", "award"}
                /\ claims'[p][c].status \in {"Pending", "Promoted", "Rejected"}
  <2>1. CASE Reviewed(r, p, c)
    <3>1. job[r].action \in {"Promote", "Reject"}
      BY <2>1, CallTypes DEF Reviewed, Reviewing
    <3>. QED
      BY <2>1, <3>1 DEF Reviewed, ClaimTypes, Decision
  <2>2. CASE Noted(r, p, c)
    <3>1. claims[p][c] = AbsentClaim => claims'[p][c] = AbsentClaim
      BY <2>2 DEF Noted, AbsentClaim
    <3>. QED
      BY <2>2, <3>1 DEF Noted, ClaimTypes
  <2>. QED
    BY <2>1, <2>2, HowClaimsChange DEF ClaimTypes, Submitted
<1>. QED
  BY <1>1, HowClaimsChange DEF ClaimTypes

-----------------------------------------------------------------------------
(* What a handler has checked stays true while it runs. *)

ChecksHold ==
    \A r \in Requests :
        /\ Passed(r, "session") => job[r].bearer \in DOMAIN Sessions
        /\ Passed(r, "path") => Sessions[job[r].bearer] = job[r].player
        /\ Passed(r, "token") => TokenAllows(r)
        /\ Passed(r, "developer") =>
                \E auth \in AuthorizedToken(table, job[r].bearer) :
                    auth.developer = snapshot[r].developer

\* No handler reads its claim again once it has checked the developer.
LEMMA CheckedSnapshotStays ==
    ASSUME StageTypes, NEW r \in Requests, Step(r), NEW q \in Requests,
           Passed(q, "developer") \/ Handler(q)[at[q]] = "developer"
    PROVE  snapshot'[q] = snapshot[q]
<1>1. CASE UNCHANGED snapshot
  BY <1>1
<1>2. CASE TakeSnapshot(r)
  <2>1. at[r] > 0 /\ Handler(r)[at[r]] = "snapshot"
    BY <1>2 DEF TakeSnapshot, Stage
  <2>2. ~Passed(r, "developer")
    BY <2>1, StageInHandler DEF Ordered, Passed, Handler
  <2>3. q # r
    BY <2>1, <2>2
  <2>. QED
    BY <1>2, <2>3 DEF TakeSnapshot, StageTypes
<1>. QED
  BY <1>1, <1>2, WhoChangesLocals

LEMMA NextChecks ==
    ASSUME StageTypes, ChecksHold, [Next]_vars
    PROVE  ChecksHold'
<1>1. CASE Quiet
  <2>1. ASSUME NEW q \in Requests
        PROVE  /\ job'[q] = job[q] /\ snapshot'[q] = snapshot[q] /\ table' = table
               /\ TokenAllows(q)' <=> TokenAllows(q)
    BY <1>1 DEF Quiet, TokenAllows
  <2>. QED
    BY <1>1, <2>1, QuietPasses DEF ChecksHold
<1>2. ASSUME NEW r \in Requests, Step(r), NEW q \in Requests
      PROVE  /\ Passed(q, "session")' => job'[q].bearer \in DOMAIN Sessions
             /\ Passed(q, "path")' => Sessions[job'[q].bearer] = job'[q].player
             /\ Passed(q, "token")' => TokenAllows(q)'
             /\ Passed(q, "developer")' =>
                    \E auth \in AuthorizedToken(table', job'[q].bearer) :
                        auth.developer = snapshot'[q].developer
  <2>1. UNCHANGED <<table, job>>
    BY <1>2, StepFrame
  <2>2. TokenAllows(q)' <=> TokenAllows(q)
    BY <2>1 DEF TokenAllows
  <2>3. Passed(q, "session")' => job'[q].bearer \in DOMAIN Sessions
    BY <1>2, <2>1, StepPasses DEF ChecksHold, Left
  <2>4. Passed(q, "path")' => Sessions[job'[q].bearer] = job'[q].player
    BY <1>2, <2>1, StepPasses DEF ChecksHold, Left
  <2>5. Passed(q, "token")' => TokenAllows(q)
    BY <1>2, StepPasses DEF ChecksHold, Left
  <2>6. ASSUME Passed(q, "developer")'
        PROVE  \E auth \in AuthorizedToken(table, job[q].bearer) :
                    auth.developer = snapshot'[q].developer
    <3>1. \/ Passed(q, "developer")
          \/ q = r /\ Handler(q)[at[q]] = "developer" /\ Left(r, "developer")
      BY <1>2, <2>6, StepPasses
    <3>2. \E auth \in AuthorizedToken(table, job[q].bearer) :
              auth.developer = snapshot[q].developer
      BY <3>1 DEF ChecksHold, Left
    <3>3. snapshot'[q] = snapshot[q]
      BY <1>2, <3>1, CheckedSnapshotStays
    <3>. QED
      BY <3>2, <3>3
  <2>. QED
    BY <2>1, <2>2, <2>3, <2>4, <2>5, <2>6
<1>3. ASSUME NEW r \in Requests, Sends(r), NEW q \in Requests
      PROVE  /\ Passed(q, "session")' => job'[q].bearer \in DOMAIN Sessions
             /\ Passed(q, "path")' => Sessions[job'[q].bearer] = job'[q].player
             /\ Passed(q, "token")' => TokenAllows(q)'
             /\ Passed(q, "developer")' =>
                    \E auth \in AuthorizedToken(table', job'[q].bearer) :
                        auth.developer = snapshot'[q].developer
  <2>1. \A s : Passed(q, s)' => q # r /\ Passed(q, s)
    BY <1>3, SendPasses
  <2>2. UNCHANGED <<table, job>> /\ (TokenAllows(q)' <=> TokenAllows(q))
    BY <1>3 DEF Sends, TokenAllows
  <2>3. q # r => snapshot'[q] = snapshot[q]
    BY <1>3 DEF Sends, StageTypes
  <2>. QED
    BY <2>1, <2>2, <2>3 DEF ChecksHold
<1>. QED
  BY <1>1, <1>2, <1>3, EveryStep DEF ChecksHold

-----------------------------------------------------------------------------
(* Reviews. *)

\* Only a review reads a claim.
SnapshotsAreReviews == \A r \in Requests : snapshot[r] # None => Reviewing(r)

\* A review past its decision has promoted, and the claim is still promoted.
PastDecision ==
    \A r \in Requests : Passed(r, "decide") =>
        /\ Reviewing(r) /\ job[r].action = "Promote"
        /\ claims[job[r].player][job[r].claim].status = "Promoted"

\* What was answered is what the claim says.
AnswersAgree ==
    \A p \in Players, c \in Claims :
        /\ <<p, c, "Promote">> \in decided => claims[p][c].status = "Promoted"
        /\ <<p, c, "Reject">> \in decided => claims[p][c].status = "Rejected"

ReviewInv ==
    /\ ClaimTypes /\ SnapshotsAreReviews /\ SnapshotStillHolds
    /\ PastDecision /\ AnswersAgree

LEMMA StepSnapshots ==
    ASSUME StageTypes, ReviewInv, NEW r \in Requests, Step(r)
    PROVE  SnapshotsAreReviews' /\ SnapshotStillHolds'
<1>1. UNCHANGED job
  BY StepFrame
<1>2. ASSUME NEW q \in Requests, snapshot'[q] # snapshot[q]
      PROVE  TakeSnapshot(r) /\ q = r /\ Reviewing(q)
  <2>1. TakeSnapshot(r)
    BY <1>2, WhoChangesLocals
  <2>2. q = r
    BY <1>2, <2>1 DEF TakeSnapshot, StageTypes
  <2>3. at[r] > 0 /\ Handler(r)[at[r]] = "snapshot"
    BY <2>1 DEF TakeSnapshot, Stage
  <2>. QED
    BY <2>1, <2>2, <2>3, StageInHandler DEF Ordered, Handler, Reviewing
<1>3. ASSUME NEW q \in Requests, snapshot'[q] # None
      PROVE  Reviewing(q)
  BY <1>2, <1>3 DEF ReviewInv, SnapshotsAreReviews
<1>4. ASSUME NEW q \in Requests, at'[q] # 0, snapshot'[q] # None
      PROVE  LET claim == claims'[job[q].player][job[q].claim]
             IN  /\ claim # AbsentClaim
                 /\ claim.developer = snapshot'[q].developer
                 /\ claim.name = snapshot'[q].name
  <2>1. at[q] # 0
    BY <1>4, EveryStepMoves DEF Moves, Goes, Returns, StageTypes
  <2>2. CASE snapshot'[q] = snapshot[q]
    <3>1. job[q].player \in Players /\ job[q].claim \in Claims
      BY <1>3, <1>4, CallTypes DEF Reviewing
    <3>2. LET claim == claims[job[q].player][job[q].claim]
          IN  /\ claim # AbsentClaim
              /\ claim.developer = snapshot[q].developer
              /\ claim.name = snapshot[q].name
      BY <1>4, <2>1, <2>2 DEF ReviewInv, SnapshotStillHolds
    <3>. QED
      BY <2>2, <3>1, <3>2, WhatClaimsKeep DEF ReviewInv
  <2>3. CASE snapshot'[q] # snapshot[q]
    <3>1. LET claim == claims[job[q].player][job[q].claim]
          IN  claim # AbsentClaim /\ snapshot'[q] = claim /\ UNCHANGED claims
      BY <1>2, <2>3 DEF TakeSnapshot, StageTypes, service
    <3>. QED
      BY <3>1
  <2>. QED
    BY <2>2, <2>3
<1>5. SnapshotsAreReviews'
  BY <1>1, <1>3 DEF SnapshotsAreReviews, Reviewing
<1>. QED
  BY <1>1, <1>4, <1>5 DEF SnapshotStillHolds

LEMMA StepPastDecision ==
    ASSUME StageTypes, ReviewInv, NEW r \in Requests, Step(r)
    PROVE  PastDecision'
<1>. SUFFICES ASSUME NEW q \in Requests, Passed(q, "decide")'
              PROVE  /\ Reviewing(q)' /\ job'[q].action = "Promote"
                     /\ claims'[job'[q].player][job'[q].claim].status = "Promoted"
  BY DEF PastDecision
<1>1. UNCHANGED job /\ (Reviewing(q)' <=> Reviewing(q))
  BY StepFrame DEF Reviewing
<1>. DEFINE p == job[q].player
            c == job[q].claim
<1>2. CASE Passed(q, "decide")
  <2>1. Reviewing(q) /\ job[q].action = "Promote" /\ claims[p][c].status = "Promoted"
    BY <1>2 DEF ReviewInv, PastDecision
  <2>2. p \in Players /\ c \in Claims
    BY <2>1, CallTypes DEF Reviewing
  <2>3. claims[p][c] # AbsentClaim
    BY <2>1 DEF AbsentClaim
  <2>. QED
    BY <1>1, <2>1, <2>2, <2>3, WhatClaimsKeep DEF ReviewInv
<1>3. CASE q = r /\ Handler(r)[at[r]] = "decide" /\ Left(r, "decide")
  <2>1. Decide(r) /\ job[r].action # "Reject"
    BY <1>3 DEF Left
  <2>2. at[r] > 0
    BY EveryStepMoves DEF Moves
  <2>3. Reviewing(r)
    BY <1>3, <2>2, StageInHandler DEF Ordered, Handler, Reviewing
  <2>4. /\ p \in Players /\ c \in Claims
        /\ job[r].action = "Promote"
    BY <1>3, <2>1, <2>3, CallTypes DEF Reviewing
  <2>5. claims' = [claims EXCEPT ![p][c].status = Decision[job[r].action]]
    BY <1>3, <2>1 DEF Decide
  <2>6. StatusAtReview(r) \in {"Pending", "Rejected"}
    BY <2>1 DEF Decide
  <2>7. "status" \in DOMAIN claims[p][c]
    BY <1>3, <2>4, <2>6 DEF StatusAtReview, ReviewInv, ClaimTypes, AbsentClaim
  <2>8. claims'[p][c].status = "Promoted"
    BY <2>4, <2>5, <2>7 DEF ReviewInv, ClaimTypes, Decision
  <2>. QED
    BY <1>1, <1>3, <2>3, <2>4, <2>8
<1>. QED
  BY <1>2, <1>3, StepPasses

\* A decision that a step answers Ok is in the claim after the step.
LEMMA StepAnswers ==
    ASSUME StageTypes, ReviewInv, NEW r \in Requests, Step(r), decided' # decided
    PROVE  /\ job[r].player \in Players /\ job[r].claim \in Claims
           /\ \E action \in {"Promote", "Reject"} :
                /\ decided' = decided \cup {<<job[r].player, job[r].claim, action>>}
                /\ claims'[job[r].player][job[r].claim].status = Decision[action]
<1>. DEFINE me == job[r].player
            mine == job[r].claim
<1>1. CASE ReviewDecided(r)
  <2>1. at[r] > 0 /\ Handler(r)[at[r]] = "decide"
    BY <1>1 DEF ReviewDecided, Stage
  <2>2. me \in Players /\ mine \in Claims
    BY <2>1, StageInHandler, CallTypes DEF Ordered, Handler
  <2>3. StatusAtReview(r) = "Promoted"
    BY <1>1 DEF ReviewDecided
  <2>4. decided' = decided \cup {<<me, mine, "Promote">>}
    BY <1>1 DEF ReviewDecided
  <2>5. UNCHANGED claims
    BY <1>1 DEF ReviewDecided, service
  <2>. QED
    BY <2>2, <2>3, <2>4, <2>5 DEF StatusAtReview, Decision
<1>2. CASE Decide(r)
  <2>1. at[r] > 0 /\ Handler(r)[at[r]] = "decide"
    BY <1>2 DEF Decide, Stage
  <2>2. me \in Players /\ mine \in Claims
    BY <2>1, StageInHandler, CallTypes DEF Ordered, Handler
  <2>3. /\ job[r].action = "Reject"
        /\ decided' = decided \cup {<<me, mine, "Reject">>}
    BY <1>2 DEF Decide, history
  <2>4. claims' = [claims EXCEPT ![me][mine].status = Decision["Reject"]]
    BY <1>2, <2>3 DEF Decide
  <2>5. StatusAtReview(r) \in {"Pending", "Rejected"}
    BY <1>2 DEF Decide
  <2>6. "status" \in DOMAIN claims[me][mine]
    BY <2>2, <2>5 DEF StatusAtReview, ReviewInv, ClaimTypes, AbsentClaim
  <2>7. claims'[me][mine].status = Decision["Reject"]
    BY <2>2, <2>4, <2>6 DEF ReviewInv, ClaimTypes
  <2>. QED
    BY <2>2, <2>3, <2>7
<1>3. CASE Note(r)
  <2>1. at[r] > 0 /\ Handler(r)[at[r]] = "note"
    BY <1>3 DEF Note, Stage
  <2>2. job[r].kind = "review_claim"
    BY <2>1, StageInHandler DEF Ordered, Handler
  <2>3. me \in Players /\ mine \in Claims
    BY <2>2, CallTypes
  <2>4. Passed(r, "decide")
    BY <2>1, StageInHandler DEF Ordered, Passed, Handler
  <2>5. decided' = decided \cup {<<me, mine, "Promote">>}
    BY <1>3 DEF Note
  <2>6. claims[me][mine].status = "Promoted"
    BY <2>4 DEF ReviewInv, PastDecision
  <2>7. claims'[me][mine].status = "Promoted"
    BY <2>3, <2>6, WhatClaimsKeep DEF ReviewInv, AbsentClaim
  <2>. QED
    BY <2>3, <2>5, <2>7 DEF Decision
<1>. QED
  BY <1>1, <1>2, <1>3, WhoDecides

LEMMA StepAnswersAgree ==
    ASSUME StageTypes, ReviewInv, NEW r \in Requests, Step(r)
    PROVE  AnswersAgree'
<1>. SUFFICES ASSUME NEW p \in Players, NEW c \in Claims,
                     NEW action \in {"Promote", "Reject"},
                     <<p, c, action>> \in decided'
              PROVE  claims'[p][c].status = Decision[action]
  BY DEF AnswersAgree, Decision
<1>1. CASE <<p, c, action>> \in decided
  <2>1. claims[p][c].status = Decision[action]
    <3>1. CASE action = "Promote"
      BY <1>1, <3>1 DEF ReviewInv, AnswersAgree, Decision
    <3>2. CASE action = "Reject"
      BY <1>1, <3>2 DEF ReviewInv, AnswersAgree, Decision
    <3>. QED
      BY <3>1, <3>2
  <2>2. claims[p][c] # AbsentClaim /\ Decision[action] \in {"Promoted", "Rejected"}
    BY <2>1 DEF AbsentClaim, Decision
  <2>. QED
    BY <2>1, <2>2, WhatClaimsKeep DEF ReviewInv
<1>2. CASE <<p, c, action>> \notin decided
  BY <1>2, StepAnswers
<1>. QED
  BY <1>1, <1>2

LEMMA NextReviews ==
    ASSUME StageTypes, ReviewInv, [Next]_vars
    PROVE  ReviewInv'
<1>1. CASE Quiet
  BY <1>1, QuietPasses DEF Quiet, ReviewInv, ClaimTypes, SnapshotsAreReviews,
     SnapshotStillHolds, PastDecision, AnswersAgree, Reviewing
<1>2. ASSUME NEW r \in Requests, Step(r)
      PROVE  ReviewInv'
  BY <1>2, StepClaimTypes, StepSnapshots, StepPastDecision, StepAnswersAgree
     DEF ReviewInv
<1>3. ASSUME NEW r \in Requests, Sends(r)
      PROVE  ReviewInv'
  <2>1. /\ ClaimTypes' /\ AnswersAgree'
        /\ UNCHANGED <<job, claims>>
        /\ \A q \in Requests : Passed(q, "decide")' => Passed(q, "decide")
    BY <1>3, SendPasses DEF Sends, ReviewInv, ClaimTypes, AnswersAgree
  <2>2. PastDecision'
    BY <2>1 DEF ReviewInv, PastDecision, Reviewing
  <2>3. \A q \in Requests : snapshot'[q] # None =>
            snapshot'[q] = snapshot[q] /\ at'[q] = at[q]
    BY <1>3 DEF Sends, StageTypes
  <2>4. SnapshotsAreReviews' /\ SnapshotStillHolds'
    BY <2>1, <2>3 DEF ReviewInv, SnapshotsAreReviews, SnapshotStillHolds, Reviewing
  <2>. QED
    BY <2>1, <2>2, <2>4 DEF ReviewInv
<1>. QED
  BY <1>1, <1>2, <1>3, EveryStep

LEMMA InitReviews == Init => ReviewInv
<1>. SUFFICES ASSUME Init PROVE ReviewInv
  OBVIOUS
<1>1. /\ claims = [p \in Players |-> [c \in Claims |-> AbsentClaim]]
      /\ decided = {}
      /\ \A r \in Requests : at[r] = 0 /\ snapshot[r] = None
  BY DEF Init
<1>2. \A r \in Requests : \A s : ~Passed(r, s)
  BY <1>1 DEF Passed, Before
<1>. QED
  BY <1>1, <1>2 DEF ReviewInv, ClaimTypes, SnapshotsAreReviews, SnapshotStillHolds,
                    PastDecision, AnswersAgree

-----------------------------------------------------------------------------
(* What is mined. *)

ChainIsASequence == \E Blocks : chain \in Seq(Blocks)

\* r mines one block.
Mines(r, kind, developer, via) ==
    /\ ChainIsASequence'
    /\ Len(chain) \in Nat /\ DOMAIN chain = 1..Len(chain)
    /\ Len(chain') = Len(chain) + 1 /\ DOMAIN chain' = 1..(Len(chain) + 1)
    /\ \A i \in 1..Len(chain) : chain'[i] = chain[i]
    /\ LET block == chain'[Len(chain')]
       IN  /\ block.by = <<r, attempts[r]>> /\ block.player = Player(r)
           /\ block.kind = kind /\ block.developer = developer /\ block.via = via

LEMMA MineAppends ==
    ASSUME ChainIsASequence, NEW r, NEW kind, NEW developer, NEW via,
           Mine(r, kind, developer, via)
    PROVE  Mines(r, kind, developer, via)
<1>. DEFINE block == [by |-> <<r, attempts[r]>>, kind |-> kind, player |-> Player(r),
                      developer |-> developer, via |-> via]
<1>1. PICK Blocks : chain \in Seq(Blocks)
  BY DEF ChainIsASequence
<1>2. chain \in Seq(Blocks \cup {block})
  BY <1>1, SeqMonotonic
<1>3. chain' = Append(chain, block)
  BY DEF Mine
<1>. HIDE DEF block
<1>4. /\ chain' \in Seq(Blocks \cup {block})
      /\ Len(chain') = Len(chain) + 1
      /\ \A i \in 1..Len(chain) : chain'[i] = chain[i]
      /\ chain'[Len(chain) + 1] = block
  BY <1>2, <1>3, AppendProperties
<1>5. /\ Len(chain) \in Nat /\ DOMAIN chain = 1..Len(chain)
      /\ DOMAIN chain' = 1..(Len(chain) + 1)
  BY <1>2, <1>4, LenProperties
<1>6. ChainIsASequence'
  BY <1>4 DEF ChainIsASequence
<1>. QED
  BY <1>4, <1>5, <1>6 DEF Mines, block

\* Who changes a profile has opened a session of its player.
LEMMA ProfileIsAuthorized ==
    ASSUME StageTypes, ChecksHold, NEW r \in Requests, at[r] > 0,
           Handler(r)[at[r]] \in {"create", "set", "merge"}
    PROVE  /\ job[r].bearer \in DOMAIN Sessions
           /\ Sessions[job[r].bearer] = Player(r)
           /\ ~Reviewing(r)
<1>1. Ordered(job[r].kind, at[r])
  BY StageInHandler
<1>2. /\ Passed(r, "session")
      /\ \/ job[r].kind = "create_profile"
         \/ /\ job[r].kind \in {"set_dimensions", "add_concept_to_profile"}
            /\ Passed(r, "path")
  BY <1>1 DEF Ordered, Passed, Handler
<1>. QED
  BY <1>2 DEF ChecksHold, Player, Reviewing

\* There is at most one authorization.
LEMMA SoleAuthorization ==
    ASSUME NEW token, NEW x \in AuthorizedToken(table, token),
           NEW y \in AuthorizedToken(table, token)
    PROVE  x = y
BY DEF AuthorizedToken

\* Who awards has a token of the developer whose award it is.
LEMMA AwardIsAuthorized ==
    ASSUME StageTypes, ChecksHold, NEW r \in Requests, at[r] > 0,
           Handler(r)[at[r]] = "award"
    PROVE  DeveloperAuthorizedFor(table, job[r].bearer, DefinitionKey(r)[1],
                                  RequiredScope[job[r].kind])
<1>1. Ordered(job[r].kind, at[r])
  BY StageInHandler
<1>2. TokenAllows(r)
  BY <1>1 DEF Ordered, Passed, Handler, ChecksHold
<1>3. CASE Reviewing(r)
  <2>1. PICK auth \in AuthorizedToken(table, job[r].bearer) :
            auth.developer = snapshot[r].developer
    BY <1>1, <1>3 DEF Ordered, Passed, Handler, ChecksHold, Reviewing
  <2>2. PICK other \in AuthorizedToken(table, job[r].bearer) :
            RequiredScope[job[r].kind] \in other.scopes
    BY <1>2, <1>3 DEF TokenAllows, Reviewing
  <2>3. DefinitionKey(r)[1] = snapshot[r].developer
    BY <1>3 DEF DefinitionKey, Reviewing
  <2>. QED
    BY <2>1, <2>2, <2>3, SoleAuthorization DEF DeveloperAuthorizedFor
<1>4. CASE ~Reviewing(r)
  BY <1>2, <1>4 DEF TokenAllows, DefinitionKey, Reviewing
<1>. QED
  BY <1>3, <1>4

\* A step mines nothing, or one block: what r changes, as its caller may.
LEMMA HowChainGrows ==
    ASSUME StageTypes, ChecksHold, ChainIsASequence, NEW r \in Requests, Step(r)
    PROVE  \/ UNCHANGED chain
           \/ /\ at[r] > 0 /\ Handler(r)[at[r]] \in WriteStages
              /\ \/ /\ Mines(r, "profile", None, Via(r)) /\ ~Reviewing(r)
                    /\ job[r].bearer \in DOMAIN Sessions
                    /\ Sessions[job[r].bearer] = Player(r)
                 \/ /\ Mines(r, "award", DefinitionKey(r)[1], Via(r))
                    /\ Handler(r)[at[r]] = "award"
                    /\ DeveloperAuthorizedFor(table, job[r].bearer, DefinitionKey(r)[1],
                                              RequiredScope[job[r].kind])
<1>. SUFFICES ASSUME chain' # chain
              PROVE  /\ at[r] > 0 /\ Handler(r)[at[r]] \in WriteStages
                     /\ \/ /\ Mines(r, "profile", None, Via(r)) /\ ~Reviewing(r)
                           /\ job[r].bearer \in DOMAIN Sessions
                           /\ Sessions[job[r].bearer] = Player(r)
                        \/ /\ Mines(r, "award", DefinitionKey(r)[1], Via(r))
                           /\ Handler(r)[at[r]] = "award"
                           /\ DeveloperAuthorizedFor(table, job[r].bearer,
                                DefinitionKey(r)[1], RequiredScope[job[r].kind])
  OBVIOUS
<1>1. CASE Award(r)
  <2>1. at[r] > 0 /\ Handler(r)[at[r]] = "award"
    BY <1>1 DEF Award, Stage
  <2>2. Mine(r, "award", DefinitionKey(r)[1], Via(r))
    BY <1>1 DEF Award
  <2>. QED
    BY <2>1, <2>2, MineAppends, AwardIsAuthorized DEF WriteStages
<1>2. CASE CreateProfileInMemory(r) \/ SetVector(r) \/ MergeVector(r)
  <2>1. at[r] > 0 /\ Handler(r)[at[r]] \in {"create", "set", "merge"}
    BY <1>2 DEF CreateProfileInMemory, SetVector, MergeVector, Stage
  <2>2. Mine(r, "profile", None, None)
    BY <1>2 DEF CreateProfileInMemory, SetVector, MergeVector
  <2>3. ~Reviewing(r) /\ Via(r) = None
    BY <2>1, ProfileIsAuthorized DEF Via, Reviewing
  <2>. QED
    BY <2>1, <2>2, <2>3, MineAppends, ProfileIsAuthorized DEF WriteStages
<1>. QED
  BY <1>1, <1>2, WhoMines

\* While a handler that has mined an award runs, its block is the last one.
LastBlockIsOwn ==
    \A r \in Requests : Passed(r, "award") =>
        /\ chain # <<>>
        /\ LET block == chain[Len(chain)]
           IN  /\ block.by = <<r, attempts[r]>>
               /\ block.player = Player(r)
               /\ block.via = Via(r)

\* A handler that has its receipt has that of its own block.
ReceiptIsMade ==
    \A r \in Requests : Passed(r, "append") /\ Reviewing(r) =>
        receipt[r].by = <<r, attempts[r]>>

ChainInv ==
    /\ ChainIsASequence /\ ChangesAreAuthorized
    /\ LastBlockIsOwn /\ ReceiptsAreOwn /\ ReceiptIsMade

LEMMA StepAuthorized ==
    ASSUME StageTypes, ChecksHold, ChainInv, NEW r \in Requests, Step(r)
    PROVE  ChainIsASequence' /\ ChangesAreAuthorized'
<1>1. UNCHANGED <<table, job>>
  BY StepFrame
<1>. DEFINE Allowed(block) ==
        LET j == job[block.by[1]]
        IN  IF block.kind = "profile"
            THEN j.bearer \in DOMAIN Sessions /\ Sessions[j.bearer] = block.player
            ELSE DeveloperAuthorizedFor(table, j.bearer, block.developer,
                                        RequiredScope[j.kind])
<1>2. ChangesAreAuthorized <=> \A i \in DOMAIN chain : Allowed(chain[i])
  BY DEF ChangesAreAuthorized
<1>3. ChangesAreAuthorized' <=> \A i \in DOMAIN chain' : Allowed(chain'[i])
  BY <1>1 DEF ChangesAreAuthorized
<1>4. CASE UNCHANGED chain
  BY <1>2, <1>3, <1>4 DEF ChainInv, ChainIsASequence
<1>5. CASE \/ /\ Mines(r, "profile", None, Via(r))
              /\ job[r].bearer \in DOMAIN Sessions
              /\ Sessions[job[r].bearer] = Player(r)
           \/ /\ Mines(r, "award", DefinitionKey(r)[1], Via(r))
              /\ DeveloperAuthorizedFor(table, job[r].bearer, DefinitionKey(r)[1],
                                        RequiredScope[job[r].kind])
  <2>1. Allowed(chain'[Len(chain')])
    BY <1>5 DEF Mines
  <2>2. /\ ChainIsASequence'
        /\ Len(chain) \in Nat /\ DOMAIN chain = 1..Len(chain)
        /\ Len(chain') = Len(chain) + 1 /\ DOMAIN chain' = 1..(Len(chain) + 1)
        /\ \A i \in 1..Len(chain) : chain'[i] = chain[i]
    BY <1>5 DEF Mines
  <2>3. \A i \in 1..Len(chain) : Allowed(chain[i])
    BY <1>2, <2>2 DEF ChainInv
  <2>. HIDE DEF Allowed
  <2>4. \A i \in DOMAIN chain' : Allowed(chain'[i])
    BY <2>1, <2>2, <2>3
  <2>. QED
    BY <1>3, <2>2, <2>4
<1>. QED
  BY <1>4, <1>5, HowChainGrows DEF ChainInv

LEMMA StepLastBlock ==
    ASSUME StageTypes, WritersHoldTheLock, ChecksHold, ChainInv,
           NEW r \in Requests, Step(r)
    PROVE  LastBlockIsOwn'
<1>. SUFFICES ASSUME NEW q \in Requests, Passed(q, "award")'
              PROVE  /\ chain' # <<>>
                     /\ LET block == chain'[Len(chain')]
                        IN  /\ block.by = <<q, attempts'[q]>>
                            /\ block.player = Player(q)'
                            /\ block.via = Via(q)'
  BY DEF LastBlockIsOwn
<1>1. UNCHANGED <<job, attempts>> /\ Player(q)' = Player(q) /\ Via(q)' = Via(q)
  BY StepFrame DEF Player, Via
<1>2. CASE UNCHANGED chain /\ Passed(q, "award")
  BY <1>1, <1>2 DEF ChainInv, LastBlockIsOwn
<1>3. CASE \E kind, developer : Mines(q, kind, developer, Via(q))
  <2>1. PICK kind, developer : Mines(q, kind, developer, Via(q))
    BY <1>3
  <2>2. Len(chain') # 0
    BY <2>1 DEF Mines
  <2>. QED
    BY <1>1, <2>1, <2>2 DEF Mines
<1>4. CASE chain' # chain /\ Passed(q, "award")
  <2>1. /\ at[r] > 0 /\ Handler(r)[at[r]] \in WriteStages
        /\ \E kind, developer : Mines(r, kind, developer, Via(r))
    BY <1>4, HowChainGrows DEF ChainInv
  <2>2. Passed(q, "write")
    <3>1. at[q] > 0
      BY <1>4 DEF Passed, Before, StageTypes
    <3>. QED
      BY <1>4, <3>1, StageInHandler DEF Ordered, Passed, Handler
  <2>3. q = r
    BY <2>1, <2>2, WritersAreAlone
  <2>. QED
    BY <1>3, <2>1, <2>3
<1>5. CASE q = r /\ Handler(r)[at[r]] = "award" /\ Left(r, "award")
  BY <1>3, <1>5, MineAppends DEF Left, ChainInv
<1>. QED
  BY <1>2, <1>4, <1>5, StepPasses

LEMMA StepReceipts ==
    ASSUME StageTypes, ChainInv, NEW r \in Requests, Step(r)
    PROVE  ReceiptsAreOwn' /\ ReceiptIsMade'
<1>1. UNCHANGED <<job, attempts>>
  BY StepFrame
<1>2. \A q \in Requests : /\ Player(q)' = Player(q) /\ Via(q)' = Via(q)
                          /\ Reviewing(q)' <=> Reviewing(q)
  BY <1>1 DEF Player, Via, Reviewing
<1>3. ASSUME NEW q \in Requests, receipt'[q] # receipt[q]
      PROVE  /\ receipt'[q].by = <<q, attempts[q]>>
             /\ receipt'[q].player = Player(q)
             /\ receipt'[q].via = Via(q)
  <2>1. AppendBlock(r)
    BY <1>3, WhoChangesLocals
  <2>2. /\ q = r /\ job[r].kind \in RewardKinds
        /\ receipt'[r] = AwardRecord(r, ReceiptBlock)
    BY <1>3, <2>1 DEF AppendBlock, StageTypes
  <2>3. at[r] > 0 /\ Handler(r)[at[r]] = "append"
    BY <2>1 DEF AppendBlock, Stage
  <2>4. Passed(r, "award")
    BY <2>2, <2>3, StageInHandler DEF Ordered, Passed, Handler
  <2>. QED
    BY <2>2, <2>4 DEF ChainInv, LastBlockIsOwn, AwardRecord, ReceiptBlock
<1>4. ReceiptsAreOwn'
  BY <1>1, <1>2, <1>3 DEF ChainInv, ReceiptsAreOwn
<1>5. ASSUME NEW q \in Requests, Passed(q, "append")', Reviewing(q)
      PROVE  receipt'[q].by = <<q, attempts[q]>>
  <2>1. CASE receipt'[q] # receipt[q]
    BY <1>3, <2>1
  <2>2. CASE receipt'[q] = receipt[q] /\ Passed(q, "append")
    BY <1>5, <2>2 DEF ChainInv, ReceiptIsMade
  <2>3. CASE q = r /\ Handler(r)[at[r]] = "append" /\ Left(r, "append")
    <3>1. receipt' = [receipt EXCEPT ![r] = AwardRecord(r, ReceiptBlock)]
      BY <1>5, <2>3 DEF Left, RewardKinds, Reviewing
    <3>2. receipt'[r] = AwardRecord(r, ReceiptBlock)
      BY <3>1 DEF StageTypes
    <3>3. at[r] > 0
      BY EveryStepMoves DEF Moves
    <3>4. Passed(r, "award")
      BY <1>5, <2>3, <3>3, StageInHandler
         DEF Ordered, Passed, Handler, RewardKinds, Reviewing
    <3>. QED
      BY <2>3, <3>2, <3>4 DEF ChainInv, LastBlockIsOwn, AwardRecord, ReceiptBlock
  <2>. QED
    BY <1>5, <2>1, <2>2, <2>3, StepPasses
<1>. QED
  BY <1>1, <1>2, <1>4, <1>5 DEF ReceiptIsMade

LEMMA NextChain ==
    ASSUME StageTypes, WritersHoldTheLock, ChecksHold, ChainInv, [Next]_vars
    PROVE  ChainInv'
<1>1. CASE Quiet
  BY <1>1, QuietPasses DEF Quiet, ChainInv, ChainIsASequence, ChangesAreAuthorized,
     LastBlockIsOwn, ReceiptsAreOwn, ReceiptIsMade, Player, Via, Reviewing
<1>2. ASSUME NEW r \in Requests, Step(r)
      PROVE  ChainInv'
  BY <1>2, StepAuthorized, StepLastBlock, StepReceipts DEF ChainInv
<1>3. ASSUME NEW r \in Requests, Sends(r)
      PROVE  ChainInv'
  <2>1. /\ UNCHANGED <<table, job, chain>>
        /\ \A q \in Requests : q # r =>
                attempts'[q] = attempts[q] /\ receipt'[q] = receipt[q]
        /\ receipt'[r] = None
    BY <1>3 DEF Sends, StageTypes
  <2>2. \A q \in Requests : \A s : Passed(q, s)' => q # r /\ Passed(q, s)
    BY <1>3, SendPasses
  <2>3. \A q \in Requests : /\ Player(q)' = Player(q) /\ Via(q)' = Via(q)
                            /\ Reviewing(q)' <=> Reviewing(q)
    BY <2>1 DEF Player, Via, Reviewing
  <2>4. ChainIsASequence' /\ ChangesAreAuthorized'
    BY <2>1 DEF ChainInv, ChainIsASequence, ChangesAreAuthorized
  <2>5. LastBlockIsOwn'
    BY <2>1, <2>2, <2>3 DEF ChainInv, LastBlockIsOwn
  <2>6. ReceiptsAreOwn' /\ ReceiptIsMade'
    BY <2>1, <2>2, <2>3 DEF ChainInv, ReceiptsAreOwn, ReceiptIsMade
  <2>. QED
    BY <2>4, <2>5, <2>6 DEF ChainInv
<1>. QED
  BY <1>1, <1>2, <1>3, EveryStep

-----------------------------------------------------------------------------
(* Promotions. *)

\* The award of a claim is one, of a promoted claim, and comes after the
\* decision.
AwardsAreOne ==
    \A p \in Players, c \in Claims : \A i, j \in AwardsVia(p, c) : i = j

AwardsArePromoted ==
    \A p \in Players, c \in Claims :
        AwardsVia(p, c) # {} => claims[p][c].status = "Promoted"

AwardsAreToCome ==
    \A r \in Requests : Passed(r, "decide") /\ ~Passed(r, "award") =>
        \A p \in Players, c \in Claims : About(r, p, c) => AwardsVia(p, c) = {}

\* The claim names its award.
IsWhole(p, c) == \E i \in AwardsVia(p, c) : claims[p][c].award = chain[i].by

\* A promotion that is not whole, and did not fail, is under way.
PromotionsAreFinished ==
    \A p \in Players, c \in Claims :
        claims[p][c].status = "Promoted" /\ <<p, c>> \notin spoilt =>
            \/ IsWhole(p, c)
            \/ \E r \in Requests : Passed(r, "decide") /\ About(r, p, c)

PromotionInv ==
    /\ AwardsAreOne /\ AwardsArePromoted /\ AwardsAreToCome
    /\ ClaimantsHaveProfiles /\ PromotionsAreFinished

\* What holds of every state.
ApiInv ==
    /\ StageTypes /\ WritersHoldTheLock /\ ChecksHold
    /\ ReviewInv /\ ChainInv /\ PromotionInv

LEMMA PassedStays ==
    ASSUME StageTypes, NEW r \in Requests, Step(r), NEW q \in Requests, NEW s, NEW t,
           Passed(q, s), Passed(q, t)'
    PROVE  Passed(q, s)'
<1>1. Moves(r) /\ UNCHANGED job
  BY EveryStepMoves, StepFrame
<1>2. CASE q = r
  <2>1. at'[r] # 0
    BY <1>2, NothingPassed
  <2>2. Goes(r)
    BY <1>1, <2>1 DEF Moves, Returns, StageTypes
  <2>. QED
    BY <1>1, <1>2, <2>2, PassedByGoing DEF Moves
<1>3. CASE q # r
  BY <1>1, <1>3, OthersPassed DEF Moves, Goes, Returns
<1>. QED
  BY <1>2, <1>3

\* A review that has decided is alone with the service, and has its award to
\* make, to save or to note.
LEMMA DecidedIsAlone ==
    ASSUME StageTypes, WritersHoldTheLock, ReviewInv, NEW q \in Requests,
           Passed(q, "decide")
    PROVE  /\ at[q] > 0
           /\ Reviewing(q)
           /\ job[q].player \in Players /\ job[q].claim \in Claims
           /\ Handler(q)[at[q]] \in {"award", "append", "note"}
           /\ Passed(q, "write") /\ writer = q
<1>1. at[q] > 0
  BY DEF Passed, Before, StageTypes
<1>2. Reviewing(q)
  BY DEF ReviewInv, PastDecision
<1>3. Ordered(job[q].kind, at[q])
  BY <1>1, StageInHandler
<1>4. Passed(q, "write") /\ Handler(q)[at[q]] \in {"award", "append", "note"}
  BY <1>2, <1>3 DEF Ordered, Passed, Handler, Reviewing
<1>. QED
  BY <1>1, <1>2, <1>4, CallTypes DEF Reviewing, WritersHoldTheLock

\* Mining adds to the awards of the claim the block was made for.
LEMMA AwardsGrow ==
    ASSUME NEW r \in Requests, NEW kind, NEW developer,
           Mines(r, kind, developer, Via(r)), NEW p \in Players, NEW c \in Claims
    PROVE  /\ AwardsVia(p, c) \subseteq AwardsVia(p, c)'
           /\ \A i \in AwardsVia(p, c) : chain'[i] = chain[i]
           /\ AwardsVia(p, c)' # AwardsVia(p, c) =>
                /\ Reviewing(r) /\ About(r, p, c)
                /\ AwardsVia(p, c)' = AwardsVia(p, c) \cup {Len(chain')}
<1>1. /\ DOMAIN chain = 1..Len(chain) /\ Len(chain) \in Nat
      /\ DOMAIN chain' = 1..(Len(chain) + 1)
      /\ \A i \in 1..Len(chain) : chain'[i] = chain[i]
      /\ Len(chain') = Len(chain) + 1
      /\ chain'[Len(chain')].via = Via(r)
  BY DEF Mines
<1>2. AwardsVia(p, c)' = IF Via(r) = <<p, c>> THEN AwardsVia(p, c) \cup {Len(chain')}
                         ELSE AwardsVia(p, c)
  <2>1. AwardsVia(p, c) = {i \in 1..Len(chain) : chain[i].via = <<p, c>>}
    BY <1>1 DEF AwardsVia
  <2>2. AwardsVia(p, c)' = {i \in 1..(Len(chain) + 1) : chain'[i].via = <<p, c>>}
    BY <1>1 DEF AwardsVia
  <2>3. 1..(Len(chain) + 1) = 1..Len(chain) \cup {Len(chain')}
    BY <1>1
  <2>4. \A i : i \in AwardsVia(p, c)' <=>
                \/ i \in AwardsVia(p, c)
                \/ i = Len(chain') /\ Via(r) = <<p, c>>
    <3>1. Len(chain') \notin 1..Len(chain)
      BY <1>1
    <3>. QED
      BY <1>1, <2>1, <2>2, <2>3, <3>1
  <2>. QED
    BY <2>4
<1>3. Via(r) = <<p, c>> => Reviewing(r) /\ About(r, p, c)
  BY NoneAssumption DEF Via, Reviewing, About
<1>. QED
  BY <1>1, <1>2, <1>3 DEF AwardsVia

\* A step changes the awards of no claim, or r gives its own claim the first.
LEMMA HowAwardsChange ==
    ASSUME ApiInv, NEW r \in Requests, Step(r), NEW p \in Players, NEW c \in Claims
    PROVE  /\ AwardsVia(p, c) \subseteq AwardsVia(p, c)'
           /\ \A i \in AwardsVia(p, c) : chain'[i] = chain[i]
           /\ AwardsVia(p, c)' # AwardsVia(p, c) =>
                /\ at[r] > 0 /\ Handler(r)[at[r]] = "award"
                /\ About(r, p, c)
                /\ Passed(r, "decide")
                /\ AwardsVia(p, c) = {}
                /\ AwardsVia(p, c)' = {Len(chain')}
<1>1. CASE UNCHANGED chain
  BY <1>1 DEF AwardsVia
<1>2. CASE chain' # chain
  <2>1. PICK kind, developer :
            /\ Mines(r, kind, developer, Via(r))
            /\ at[r] > 0
            /\ Handler(r)[at[r]] = "award" \/ ~Reviewing(r)
    BY <1>2, HowChainGrows DEF ApiInv, ChainInv
  <2>2. ASSUME AwardsVia(p, c)' # AwardsVia(p, c)
        PROVE  /\ at[r] > 0 /\ Handler(r)[at[r]] = "award"
               /\ About(r, p, c)
               /\ Passed(r, "decide")
               /\ AwardsVia(p, c) = {}
               /\ AwardsVia(p, c)' = {Len(chain')}
    <3>1. /\ Reviewing(r) /\ About(r, p, c)
          /\ AwardsVia(p, c)' = AwardsVia(p, c) \cup {Len(chain')}
      BY <2>1, <2>2, AwardsGrow
    <3>2. at[r] > 0 /\ Handler(r)[at[r]] = "award"
      BY <2>1, <3>1
    <3>3. Passed(r, "decide") /\ ~Passed(r, "award")
      BY <3>1, <3>2, StageInHandler DEF Ordered, Passed, Handler, Reviewing, ApiInv
    <3>4. AwardsVia(p, c) = {}
      BY <3>1, <3>3 DEF ApiInv, PromotionInv, AwardsAreToCome, About
    <3>. QED
      BY <3>1, <3>2, <3>3, <3>4
  <2>. QED
    BY <2>1, <2>2, AwardsGrow
<1>. QED
  BY <1>1, <1>2

LEMMA StepAwards ==
    ASSUME ApiInv, NEW r \in Requests, Step(r)
    PROVE  AwardsAreOne' /\ AwardsArePromoted'
<1>1. ASSUME NEW p \in Players, NEW c \in Claims,
             NEW i \in AwardsVia(p, c)', NEW j \in AwardsVia(p, c)'
      PROVE  i = j
  <2>1. CASE AwardsVia(p, c)' = AwardsVia(p, c)
    BY <2>1, <1>1 DEF ApiInv, PromotionInv, AwardsAreOne
  <2>2. CASE AwardsVia(p, c)' # AwardsVia(p, c)
    BY <2>2, <1>1, HowAwardsChange
  <2>. QED
    BY <2>1, <2>2
<1>2. ASSUME NEW p \in Players, NEW c \in Claims, AwardsVia(p, c)' # {}
      PROVE  claims'[p][c].status = "Promoted"
  <2>1. claims[p][c].status = "Promoted"
    <3>1. CASE AwardsVia(p, c)' = AwardsVia(p, c)
      BY <1>2, <3>1 DEF ApiInv, PromotionInv, AwardsArePromoted
    <3>2. CASE AwardsVia(p, c)' # AwardsVia(p, c)
      <4>1. Passed(r, "decide") /\ About(r, p, c)
        BY <3>2, HowAwardsChange
      <4>. QED
        BY <4>1 DEF ApiInv, ReviewInv, PastDecision, About
    <3>. QED
      BY <3>1, <3>2
  <2>2. claims[p][c] # AbsentClaim
    BY <2>1 DEF AbsentClaim
  <2>. QED
    BY <2>1, <2>2, WhatClaimsKeep DEF ApiInv, ReviewInv
<1>. QED
  BY <1>1, <1>2 DEF AwardsAreOne, AwardsArePromoted

LEMMA StepToCome ==
    ASSUME ApiInv, NEW r \in Requests, Step(r)
    PROVE  AwardsAreToCome'
<1>1. UNCHANGED job
  BY StepFrame
<1>. SUFFICES ASSUME NEW q \in Requests, Passed(q, "decide")', ~Passed(q, "award")',
                     NEW p \in Players, NEW c \in Claims, About(q, p, c)
              PROVE  AwardsVia(p, c)' = {}
  BY <1>1 DEF AwardsAreToCome, About
<1>2. ~Passed(q, "award")
  BY PassedStays DEF ApiInv
<1>3. CASE Passed(q, "decide")
  <2>1. Passed(q, "write")
    BY <1>3, DecidedIsAlone DEF ApiInv
  <2>2. AwardsVia(p, c) = {}
    BY <1>2, <1>3 DEF ApiInv, PromotionInv, AwardsAreToCome
  <2>3. ASSUME AwardsVia(p, c)' # {}
        PROVE  FALSE
    <3>1. at[r] > 0 /\ Handler(r)[at[r]] = "award"
      BY <2>1, <2>2, <2>3, HowAwardsChange
    <3>2. q = r
      BY <2>1, <3>1, WritersAreAlone DEF WriteStages, ApiInv
    <3>3. Goes(r)
      BY <3>2, EveryStepMoves, NothingPassed DEF Moves, Returns, StageTypes, ApiInv
    <3>4. Passed(r, "award")'
      BY <1>1, <3>1, <3>3, PassedByGoing DEF ApiInv
    <3>. QED
      BY <3>2, <3>4
  <2>. QED
    BY <2>3
<1>4. CASE q = r /\ Handler(r)[at[r]] = "decide" /\ Left(r, "decide")
  <2>1. Decide(r) /\ job[r].action # "Reject" /\ at[r] > 0
    BY <1>4, EveryStepMoves DEF Left, Moves, ApiInv
  <2>3. claims[p][c].status = "Pending"
    BY <1>4, <2>1 DEF Decide, StatusAtReview, About
  <2>4. UNCHANGED chain
    BY <2>1 DEF Decide
  <2>5. AwardsVia(p, c)' = AwardsVia(p, c)
    BY <2>4 DEF AwardsVia
  <2>. QED
    BY <2>3, <2>5 DEF ApiInv, PromotionInv, AwardsArePromoted
<1>. QED
  BY <1>3, <1>4, StepPasses DEF ApiInv

LEMMA StepProfiles ==
    ASSUME ApiInv, NEW r \in Requests, Step(r)
    PROVE  ClaimantsHaveProfiles'
<1>1. DOMAIN vectors' = Players
  BY WhoChangesLocals DEF CreateProfileInMemory, SetVector, ApiInv, PromotionInv,
     ClaimantsHaveProfiles
<1>2. ASSUME NEW p \in Players, vectors[p] # None
      PROVE  vectors'[p] # None
  <2>1. CASE UNCHANGED vectors
    BY <1>2, <2>1
  <2>2. CASE CreateProfileInMemory(r)
    <3>1. vectors' = [vectors EXCEPT ![Player(r)] = DefaultDim]
      BY <2>2 DEF CreateProfileInMemory
    <3>. QED
      BY <1>2, <3>1, WorkloadsAssumption DEF ApiInv, PromotionInv, ClaimantsHaveProfiles
  <2>3. CASE SetVector(r)
    <3>1. at[r] > 0 /\ Handler(r)[at[r]] = "set"
      BY <2>3 DEF SetVector, Stage
    <3>2. job[r].dim # None
      BY <3>1, StageInHandler, CallTypes DEF Ordered, Handler, ApiInv
    <3>3. \/ UNCHANGED vectors
          \/ vectors' = [vectors EXCEPT ![job[r].player] = job[r].dim]
      BY <2>3 DEF SetVector
    <3>. QED
      BY <1>2, <3>2, <3>3 DEF ApiInv, PromotionInv, ClaimantsHaveProfiles
  <2>. QED
    BY <2>1, <2>2, <2>3, WhoChangesLocals
<1>3. ASSUME NEW p \in Players, NEW c \in Claims, claims'[p][c] # AbsentClaim
      PROVE  vectors[p] # None
  <2>1. CASE Submitted(r, p, c)
    BY <2>1 DEF Submitted
  <2>2. CASE claims[p][c] # AbsentClaim
    BY <2>2 DEF ApiInv, PromotionInv, ClaimantsHaveProfiles
  <2>3. CASE Noted(r, p, c) /\ claims[p][c] = AbsentClaim
    <3>1. claims'[p][c] = AbsentClaim
      BY <2>3 DEF Noted, AbsentClaim
    <3>. QED
      BY <1>3, <3>1
  <2>. QED
    BY <1>3, <2>1, <2>2, <2>3, HowClaimsChange DEF ApiInv, ReviewInv, Reviewed
<1>. QED
  BY <1>1, <1>2, <1>3 DEF ClaimantsHaveProfiles

\* Noting makes a promotion whole.
LEMMA NotingMakesWhole ==
    ASSUME ApiInv, NEW r \in Requests, Note(r), UNCHANGED <<job, attempts>>
    PROVE  IsWhole(job[r].player, job[r].claim)'
<1>. DEFINE p == job[r].player
            c == job[r].claim
<1>1. at[r] > 0 /\ Handler(r)[at[r]] = "note"
  BY DEF Note, Stage
<1>2. Passed(r, "decide") /\ Passed(r, "award") /\ Passed(r, "append")
  BY <1>1, StageInHandler DEF Ordered, Passed, Handler, ApiInv
<1>3. /\ Reviewing(r) /\ p \in Players /\ c \in Claims
      /\ claims[p][c].status = "Promoted"
  BY <1>2, DecidedIsAlone DEF ApiInv, ReviewInv, PastDecision
<1>4. "award" \in DOMAIN claims[p][c]
  BY <1>3 DEF ApiInv, ReviewInv, ClaimTypes, AbsentClaim
<1>5. claims' = [claims EXCEPT ![p][c].award = receipt[r].by]
  BY DEF Note
<1>6. claims'[p][c].award = receipt[r].by
  BY <1>3, <1>4, <1>5 DEF ApiInv, ReviewInv, ClaimTypes
<1>7. /\ chain # <<>>
      /\ chain[Len(chain)].by = receipt[r].by
      /\ chain[Len(chain)].via = <<p, c>>
  BY <1>2, <1>3 DEF ApiInv, ChainInv, LastBlockIsOwn, ReceiptIsMade, Via, Reviewing
<1>8. Len(chain) \in DOMAIN chain
  <2>1. PICK Blocks : chain \in Seq(Blocks)
    BY DEF ApiInv, ChainInv, ChainIsASequence
  <2>. QED
    BY <1>7, <2>1, EmptySeq, LenProperties
<1>9. Len(chain) \in AwardsVia(p, c)
  BY <1>7, <1>8 DEF AwardsVia
<1>10. UNCHANGED chain
  BY DEF Note
<1>. QED
  BY <1>6, <1>7, <1>9, <1>10 DEF IsWhole, AwardsVia

\* What runs at each stage of a review that has decided.
LEMMA LastStagesOfReview ==
    ASSUME NEW r \in Requests, Step(r), Handler(r)[at[r]] \in {"award", "append", "note"}
    PROVE  Award(r) \/ AppendBlock(r) \/ Note(r)
BY DEF Step, CheckSession, CheckPath, CheckToken, CheckDeveloper, FindDefinition,
       TakeRead, TakeWrite, Look, TakeSnapshot, CreateProfileInMemory, SetVector,
       MergeVector, SubmitClaimInMemory, ReviewDecided, Decide,
       LoadRegistry, TruncateRegistry, SaveRegistry, Stage

\* A review that has decided returns only when its promotion is whole or counts
\* as failed.
LEMMA ReviewsFinish ==
    ASSUME ApiInv, NEW r \in Requests, Step(r), Passed(r, "decide"), ~Goes(r),
           NEW p \in Players, NEW c \in Claims, About(r, p, c)
    PROVE  IsWhole(p, c)' \/ <<p, c>> \in spoilt'
<1>1. /\ at[r] > 0 /\ Reviewing(r)
      /\ Handler(r)[at[r]] \in {"award", "append", "note"}
  BY DecidedIsAlone DEF ApiInv
<1>2. UNCHANGED <<job, attempts>>
  BY StepFrame
<1>3. CASE Award(r)
  <2>1. claims[p][c].status = "Promoted"
    BY DEF ApiInv, ReviewInv, PastDecision, About
  <2>2. vectors[p] # None
    BY <2>1 DEF ApiInv, PromotionInv, ClaimantsHaveProfiles, AbsentClaim
  <2>3. Continue(r)
    BY <1>3, <2>2 DEF Award, About
  <2>. QED
    BY <2>3 DEF Continue, Proceed, Goes, ApiInv, StageTypes
<1>4. CASE AppendBlock(r)
  <2>1. Handler(r)[at[r]] = "append"
    BY <1>4 DEF AppendBlock, Stage
  <2>2. at[r] # Len(Handler(r))
    BY <1>1, <2>1, StageInHandler DEF Ordered, Handler, Reviewing, ApiInv
  <2>3. ~Continue(r)
    BY DEF Continue, Proceed, Goes, ApiInv, StageTypes
  <2>4. spoilt' = spoilt \cup {Via(r)}
    BY <1>1, <1>4, <2>2, <2>3 DEF AppendBlock, Reviewing
  <2>. QED
    BY <1>1, <2>4 DEF Via, Reviewing, About
<1>5. CASE Note(r)
  <2>1. IsWhole(job[r].player, job[r].claim)'
    BY <1>2, <1>5, NotingMakesWhole
  <2>. QED
    BY <1>2, <2>1 DEF About, IsWhole, AwardsVia
<1>. QED
  BY <1>1, <1>3, <1>4, <1>5, LastStagesOfReview

LEMMA StepFinished ==
    ASSUME ApiInv, NEW r \in Requests, Step(r)
    PROVE  PromotionsAreFinished'
<1>1. UNCHANGED <<job, attempts>>
  BY StepFrame
<1>. SUFFICES ASSUME NEW p \in Players, NEW c \in Claims,
                     claims'[p][c].status = "Promoted", <<p, c>> \notin spoilt'
              PROVE  \/ IsWhole(p, c)'
                     \/ \E q \in Requests : Passed(q, "decide")' /\ About(q, p, c)
  BY <1>1 DEF PromotionsAreFinished, About
<1>2. <<p, c>> \notin spoilt
  BY WhoDecides DEF Decide, AppendBlock, history
<1>3. CASE claims[p][c].status = "Promoted" /\ IsWhole(p, c)
  <2>1. PICK i \in AwardsVia(p, c) : claims[p][c].award = chain[i].by
    BY <1>3 DEF IsWhole
  <2>2. i \in AwardsVia(p, c)' /\ chain'[i] = chain[i]
    BY HowAwardsChange
  <2>3. CASE claims'[p][c] = claims[p][c]
    BY <2>1, <2>2, <2>3 DEF IsWhole
  <2>4. CASE Noted(r, p, c)
    <3>1. IsWhole(job[r].player, job[r].claim)'
      BY <1>1, <2>4, NotingMakesWhole DEF Noted
    <3>. QED
      BY <1>1, <2>4, <3>1 DEF Noted, About, IsWhole, AwardsVia
  <2>5. ~Submitted(r, p, c) /\ ~Reviewed(r, p, c)
    BY <1>3 DEF Submitted, Reviewed, AbsentClaim
  <2>. QED
    BY <2>3, <2>4, <2>5, HowClaimsChange DEF ApiInv, ReviewInv
<1>4. CASE \E q \in Requests : Passed(q, "decide") /\ About(q, p, c)
  <2>1. PICK q \in Requests : Passed(q, "decide") /\ About(q, p, c)
    BY <1>4
  <2>2. CASE q # r
    BY <1>1, <2>1, <2>2, EveryStepMoves, OthersPassed
       DEF Moves, Goes, Returns, ApiInv
  <2>3. CASE q = r /\ Goes(r)
    <3>1. at[r] > 0
      BY EveryStepMoves DEF Moves, ApiInv
    <3>. QED
      BY <1>1, <2>1, <2>3, <3>1, PassedByGoing DEF ApiInv
  <2>4. CASE q = r /\ ~Goes(r)
    BY <2>1, <2>4, ReviewsFinish
  <2>. QED
    BY <2>2, <2>3, <2>4
<1>5. CASE claims[p][c].status # "Promoted"
  <2>1. ~Submitted(r, p, c) /\ claims'[p][c] # claims[p][c]
    BY <1>5 DEF Submitted
  <2>2. CASE Noted(r, p, c)
    <3>1. claims'[p][c].status = claims[p][c].status
      BY <2>2 DEF Noted, ApiInv, ReviewInv, ClaimTypes, AbsentClaim
    <3>. QED
      BY <1>5, <3>1
  <2>3. CASE Reviewed(r, p, c)
    <3>1. /\ Decide(r) /\ About(r, p, c) /\ at[r] > 0
          /\ Handler(r)[at[r]] = "decide"
      BY <2>3 DEF Reviewed, Decide, Stage
    <3>2. job[r].action # "Reject"
      BY <2>3 DEF Reviewed, Decision, ApiInv, ReviewInv, ClaimTypes
    <3>3. job[r].action = "Promote"
      BY <2>3, <3>2, CallTypes DEF Reviewed, Reviewing, ApiInv
    <3>4. Continue(r)
      BY <3>1, <3>3 DEF Decide, About
    <3>5. Goes(r)
      BY <3>4 DEF Continue, Proceed, Goes, ApiInv, StageTypes
    <3>6. Passed(r, "decide")'
      BY <1>1, <3>1, <3>5, PassedByGoing DEF ApiInv
    <3>. QED
      BY <3>1, <3>6
  <2>. QED
    BY <2>1, <2>2, <2>3, HowClaimsChange DEF ApiInv, ReviewInv
<1>. QED
  BY <1>2, <1>3, <1>4, <1>5 DEF ApiInv, PromotionInv, PromotionsAreFinished

LEMMA NextPromotions ==
    ASSUME ApiInv, [Next]_vars
    PROVE  PromotionInv'
<1>. DEFINE Same ==
        /\ UNCHANGED <<job, vectors, claims, chain, spoilt>>
        /\ \A q \in Requests : \A s : Passed(q, s)' <=> Passed(q, s)
<1>1. ASSUME Same PROVE PromotionInv'
  <2>1. UNCHANGED <<job, vectors, claims, chain, spoilt>>
    BY <1>1
  <2>2. \A p \in Players, c \in Claims :
            /\ AwardsVia(p, c)' = AwardsVia(p, c)
            /\ IsWhole(p, c)' <=> IsWhole(p, c)
            /\ \A q \in Requests : About(q, p, c)' <=> About(q, p, c)
    BY <2>1 DEF AwardsVia, IsWhole, About
  <2>3. \A q \in Requests : /\ Passed(q, "decide")' <=> Passed(q, "decide")
                            /\ Passed(q, "award")' <=> Passed(q, "award")
    BY <1>1
  <2>4. AwardsAreOne' /\ AwardsArePromoted' /\ ClaimantsHaveProfiles'
    BY <2>1, <2>2 DEF ApiInv, PromotionInv, AwardsAreOne, AwardsArePromoted,
                      ClaimantsHaveProfiles
  <2>5. AwardsAreToCome'
    BY <2>2, <2>3 DEF ApiInv, PromotionInv, AwardsAreToCome
  <2>6. PromotionsAreFinished'
    BY <2>1, <2>2, <2>3 DEF ApiInv, PromotionInv, PromotionsAreFinished
  <2>. QED
    BY <2>4, <2>5, <2>6 DEF PromotionInv
<1>2. ASSUME NEW r \in Requests, Step(r)
      PROVE  PromotionInv'
  BY <1>2, StepAwards, StepToCome, StepProfiles, StepFinished DEF PromotionInv
<1>3. Quiet => Same
  BY QuietPasses DEF Quiet
<1>4. \A r \in Requests : Sends(r) => Same
  BY SendKeeps DEF Sends, ApiInv
<1>. QED
  BY <1>1, <1>2, <1>3, <1>4, EveryStep

LEMMA InitApi == Init => ApiInv
<1>. SUFFICES ASSUME Init PROVE ApiInv
  OBVIOUS
<1>1. \A r \in Requests : at[r] = 0 /\ receipt[r] = None
  BY DEF Init
<1>2. \A r \in Requests : \A s : ~Passed(r, s)
  BY <1>1 DEF Passed, Before
<1>3. chain = <<>> /\ ChainIsASequence
  BY EmptySeq DEF Init, ChainIsASequence
<1>4. \A p \in Players, c \in Claims :
            claims[p][c] = AbsentClaim /\ AwardsVia(p, c) = {}
  BY <1>3 DEF Init, AwardsVia
<1>5. DOMAIN vectors = Players
  BY DEF Init
<1>6. WritersHoldTheLock /\ ChecksHold
  BY <1>2 DEF WritersHoldTheLock, ChecksHold
<1>7. ChainInv
  BY <1>1, <1>2, <1>3 DEF ChainInv, ChangesAreAuthorized, LastBlockIsOwn,
                          ReceiptsAreOwn, ReceiptIsMade
<1>8. PromotionInv
  BY <1>4, <1>5 DEF PromotionInv, AwardsAreOne, AwardsArePromoted, AwardsAreToCome,
                    ClaimantsHaveProfiles, PromotionsAreFinished, AbsentClaim
<1>. QED
  BY <1>6, <1>7, <1>8, InitStageTypes, InitReviews DEF ApiInv

LEMMA NextApi == ApiInv /\ [Next]_vars => ApiInv'
  BY NextStageTypes, NextWriters, NextChecks, NextReviews, NextChain, NextPromotions
     DEF ApiInv

\* Every reachable state has the inductive invariant: what a handler has
\* passed, and what it says of the lock, the claims and the chain.
THEOREM HandlersKeepTheirPlace == Spec => []ApiInv
  BY InitApi, NextApi, PTL DEF Spec

-----------------------------------------------------------------------------

\* Reviews that race never leave a caller with an answer that the claim does
\* not bear out.
THEOREM DecisionsNeverDisagree == Spec => []DecisionsAgree
<1>1. ApiInv => DecisionsAgree
  BY DEF ApiInv, ReviewInv, AnswersAgree, DecisionsAgree
<1>. QED
  BY <1>1, HandlersKeepTheirPlace, PTL

\* The claim a review decides on is the one it read before it took the lock.
THEOREM SnapshotsHold == Spec => []SnapshotStillHolds
<1>1. ApiInv => SnapshotStillHolds
  BY DEF ApiInv, ReviewInv
<1>. QED
  BY <1>1, HandlersKeepTheirPlace, PTL

\* Concurrent awards never swap their receipts.
THEOREM NoReceiptIsAnothers == Spec => []ReceiptsAreOwn
<1>1. ApiInv => ReceiptsAreOwn
  BY DEF ApiInv, ChainInv
<1>. QED
  BY <1>1, HandlersKeepTheirPlace, PTL

\* No interleaving lets a change into the chain that its caller had no session
\* or token for.
THEOREM NothingUnauthorizedIsMined == Spec => []ChangesAreAuthorized
<1>1. ApiInv => ChangesAreAuthorized
  BY DEF ApiInv, ChainInv
<1>. QED
  BY <1>1, HandlersKeepTheirPlace, PTL

\* A promotion is seen whole, and made once, by whoever holds the lock next.
THEOREM PromotionsAreSeenWhole == Spec => []PromotionsAreWhole
<1>1. ASSUME ApiInv, NEW p \in Players, NEW c \in Claims
      PROVE  Cardinality(AwardsVia(p, c)) <= 1
  <2>1. CASE AwardsVia(p, c) = {}
    BY <2>1, FS_EmptySet
  <2>2. CASE AwardsVia(p, c) # {}
    <3>1. \A i, j \in AwardsVia(p, c) : i = j
      BY <1>1 DEF ApiInv, PromotionInv, AwardsAreOne
    <3>2. PICK i \in AwardsVia(p, c) : TRUE
      BY <2>2
    <3>3. AwardsVia(p, c) = {i}
      BY <3>1, <3>2
    <3>4. Cardinality(AwardsVia(p, c)) = 1
      BY <3>3, FS_Singleton
    <3>. QED
      BY <3>4
  <2>. QED
    BY <2>1, <2>2
<1>2. ASSUME ApiInv, NEW p \in Players, NEW c \in Claims, writer = None,
             claims[p][c].status = "Promoted", <<p, c>> \notin spoilt
      PROVE  \E i \in AwardsVia(p, c) : claims[p][c].award = chain[i].by
  <2>1. \A r \in Requests : ~Passed(r, "decide")
    BY <1>2, DecidedIsAlone, NoneAssumption DEF ApiInv
  <2>. QED
    BY <1>2, <2>1 DEF ApiInv, PromotionInv, PromotionsAreFinished, IsWhole
<1>3. ApiInv => PromotionsAreWhole
  BY <1>1, <1>2 DEF PromotionsAreWhole
<1>. QED
  BY <1>3, HandlersKeepTheirPlace, PTL
================================================================================
