---------------------------------- MODULE Api ---------------------------------
(***************************************************************************)
(* The handlers of rust/src/api.rs as concurrent requests.  A handler is a *)
(* sequence of stages; between two stages any other request may run.  What *)
(* they share is the RwLock around the service, the service's memory and   *)
(* the registry files.  A caller uses the game SDK                         *)
(* (game-sdk-rust/src/lib.rs): it may lose the answer, and call again.     *)
(*                                                                         *)
(* Of the service only its memory is modelled here; the files behind it    *)
(* are ProfileService.  Overlapping saves of a registry are Registry.      *)
(***************************************************************************)
EXTENDS Tokens, Receipt, Naturals, FiniteSets

CONSTANTS
    Requests,     \* calls in progress at one time
    Workloads,    \* what the calls may ask for: functions from Requests
    Config,       \* the configuration of the developer tokens
    Sessions,     \* Sessions[token]: the player of an open session
    Players,
    Profiled,     \* the players that have a profile at first
    Claims,       \* claim ids
    Defined,      \* Defined[f]: the definitions in registry f at first
    DefaultDim,   \* DEFAULT_DIM
    ConceptDim,   \* ConceptDim[k]: the dimension of concept k
    None,         \* no value
    Faults,       \* subset of {"append", "save", "registry", "lost"}
    MaxAttempts   \* bound: MaxAttempts[r], how often the call r is made

ASSUME FaultsAssumption == Faults \subseteq {"append", "save", "registry", "lost"}
ASSUME NoneAssumption == None \notin Requests \cup (Players \X Claims)

VARIABLES
    table,      \* DEVELOPER_TOKENS
    job,        \* job[r]: what r asks for
    attempts,   \* attempts[r]: how often r was sent
    at,         \* at[r]: the stage r is at, 0 when no handler runs for r
    snapshot,   \* snapshot[r]: the claim a review has read
    copy,       \* copy[r]: the registry a request to add has loaded
    receipt,    \* receipt[r]: the award a handler will answer with
    answer,     \* answer[r]: the status on its way to the caller
    told,       \* told[r]: what the SDK returned: "none", "ok", "status", "http"
    readers,    \* who holds the read half of the lock
    writer,     \* who holds the write half
    poisoned,   \* a writer panicked
    vectors,    \* vectors[p]: the dimension of p's profile vector
    claims,     \* claims[p][c]: a claim
    chain,      \* what was mined since the start; rewards are its awards
    registry,   \* registry[f]: the definitions in registry file f
    decided,    \* history: <<p, c, action>> was answered Ok
    spoilt      \* history: <<p, c>> had a promotion that failed half way

client == <<job, attempts, told>>
local == <<snapshot, copy, receipt>>
lock == <<readers, writer, poisoned>>
service == <<vectors, claims, chain>>
history == <<decided, spoilt>>
vars == <<table, client, at, answer, local, lock, service, registry, history>>

AbsentClaim == [status |-> "Absent"]

Init ==
    /\ table \in DeveloperTokenTables(Config)
    /\ job \in Workloads
    /\ attempts = [r \in Requests |-> 0]
    /\ told = [r \in Requests |-> "none"]
    /\ at = [r \in Requests |-> 0]
    /\ answer = [r \in Requests |-> None]
    /\ snapshot = [r \in Requests |-> None]
    /\ copy = [r \in Requests |-> {}]
    /\ receipt = [r \in Requests |-> None]
    /\ readers = {} /\ writer = None /\ poisoned = FALSE
    /\ vectors = [p \in Players |-> IF p \in Profiled THEN DefaultDim ELSE None]
    /\ claims = [p \in Players |-> [c \in Claims |-> AbsentClaim]]
    /\ chain = <<>>
    /\ registry = Defined
    /\ decided = {} /\ spoilt = {}

-----------------------------------------------------------------------------
(* The handlers: the order of their checks, locks and changes. *)

CreateProfile == <<"session", "write", "create", "append">>
GetProfile == <<"session", "read", "path", "look">>
GetRewards == <<"session", "path", "read", "look">>
SetDimensions == <<"session", "write", "path", "set", "append">>
AddConceptToProfile ==
    <<"session", "path", "definition", "write", "merge", "append">>
SubmitClaim == <<"session", "path", "write", "submit">>
ListClaims == <<"session", "path", "read", "look">>

\* Fault for api_requests: the award is not noted in the claim.
ReviewClaimWithoutNote ==
    <<"token", "read", "snapshot", "developer", "definition", "write",
      "decide", "award", "append">>

ReviewClaim ==
    <<"token", "read", "snapshot", "developer", "definition", "write",
      "decide", "award", "append", "note">>

AwardAchievement == <<"token", "definition", "write", "award", "append">>
AwardEntitlement == <<"token", "definition", "write", "award", "append">>
AddDefinition == <<"token", "load", "truncate", "save">>
GetConcept == <<"token", "definition">>

Handlers ==
    [create_profile |-> CreateProfile, get_profile |-> GetProfile,
     get_rewards |-> GetRewards, set_dimensions |-> SetDimensions,
     add_concept_to_profile |-> AddConceptToProfile,
     submit_claim |-> SubmitClaim, list_claims |-> ListClaims,
     review_claim |-> ReviewClaim,
     award_achievement |-> AwardAchievement,
     award_entitlement |-> AwardEntitlement,
     add_achievement |-> AddDefinition, add_entitlement |-> AddDefinition,
     add_concept |-> AddDefinition, get_concept |-> GetConcept]

\* Every call names an endpoint; players and claim ids in a path are modelled,
\* and a dimension is a number.
ASSUME WorkloadsAssumption ==
    /\ DefaultDim # None
    /\ \A calls \in Workloads :
        /\ DOMAIN calls = Requests
        /\ \A r \in Requests :
            LET call == calls[r]
            IN  /\ call.kind \in DOMAIN Handlers
                /\ call.kind = "set_dimensions" => call.dim # None
                /\ call.kind \in {"submit_claim", "review_claim"} =>
                        call.player \in Players /\ call.claim \in Claims
                /\ call.kind = "review_claim" =>
                        call.action \in {"Promote", "Reject"}

RequiredScope ==
    [review_claim |-> "award:achievements",
     award_achievement |-> "award:achievements",
     award_entitlement |-> "grant:entitlements",
     add_achievement |-> "register:definitions",
     add_entitlement |-> "register:definitions",
     add_concept |-> "manage:concepts", get_concept |-> "manage:concepts"]

\* The registry file a handler opens.
RegistryOf ==
    [review_claim |-> "achievements", award_achievement |-> "achievements",
     add_achievement |-> "achievements", award_entitlement |-> "entitlements",
     add_entitlement |-> "entitlements", add_concept |-> "concepts",
     get_concept |-> "concepts", add_concept_to_profile |-> "concepts"]

Handler(r) == Handlers[job[r].kind]
Stage(r, s) == at[r] > 0 /\ Handler(r)[at[r]] = s

\* The handler goes on to its next stage.
Proceed(r) == at' = [at EXCEPT ![r] = @ + 1] /\ UNCHANGED answer

\* The handler returns; its guards are dropped.
Answer(r, status) ==
    /\ at' = [at EXCEPT ![r] = 0]
    /\ answer' = [answer EXCEPT ![r] = status]
    /\ readers' = readers \ {r}
    /\ writer' = IF writer = r THEN None ELSE writer

Continue(r) == Proceed(r) /\ UNCHANGED <<readers, writer>>
Check(r, condition, otherwise) ==
    IF condition THEN Continue(r) ELSE Answer(r, otherwise)

\* The player in the path; create_profile takes the session's.
Player(r) == IF job[r].kind = "create_profile" THEN Sessions[job[r].bearer]
             ELSE job[r].player

-----------------------------------------------------------------------------
(* Stages that only check. *)

CheckSession(r) ==
    /\ Stage(r, "session")
    /\ Check(r, job[r].bearer \in DOMAIN Sessions, "unauthorized")
    /\ UNCHANGED <<table, client, local, poisoned, service, registry, history>>

CheckPath(r) ==
    /\ Stage(r, "path")
    /\ Check(r, Sessions[job[r].bearer] = job[r].player, "unauthorized")
    /\ UNCHANGED <<table, client, local, poisoned, service, registry, history>>

\* Fault for api_requests: any developer with the scope may award.
TokenAllowsAnyDeveloper(r) ==
    \E auth \in AuthorizedToken(table, job[r].bearer) :
        RequiredScope[job[r].kind] \in auth.scopes

\* A review learns the developer only from the claim.
TokenAllows(r) ==
    LET scope == RequiredScope[job[r].kind]
    IN  IF job[r].kind = "review_claim"
        THEN \E auth \in AuthorizedToken(table, job[r].bearer) : scope \in auth.scopes
        ELSE DeveloperAuthorizedFor(table, job[r].bearer, job[r].developer, scope)

CheckToken(r) ==
    /\ Stage(r, "token")
    /\ Check(r, TokenAllows(r), "unauthorized")
    /\ UNCHANGED <<table, client, local, poisoned, service, registry, history>>

CheckDeveloper(r) ==
    /\ Stage(r, "developer")
    /\ Check(r, \E auth \in AuthorizedToken(table, job[r].bearer) :
                    auth.developer = snapshot[r].developer, "unauthorized")
    /\ UNCHANGED <<table, client, local, poisoned, service, registry, history>>

\* The key of the definition a handler looks up or adds.
DefinitionKey(r) ==
    IF job[r].kind = "review_claim"
    THEN <<snapshot[r].developer, snapshot[r].name>>
    ELSE <<job[r].developer, job[r].name>>

\* A look-up reads the file as it is now, truncated perhaps; a rejection needs
\* no definition.
FindDefinition(r) ==
    /\ Stage(r, "definition")
    /\ LET found == DefinitionKey(r) \in registry[RegistryOf[job[r].kind]]
       IN  IF job[r].kind = "get_concept" /\ found THEN Answer(r, "ok")
           ELSE Check(r, \/ found
                         \/ job[r].kind = "review_claim" /\ job[r].action = "Reject",
                      "not found")
    /\ UNCHANGED <<table, client, local, poisoned, service, registry, history>>

-----------------------------------------------------------------------------
(* The lock. *)

\* Fault for api_requests: a handler tries again until the lock is sound.
RefuseNot(r) == UNCHANGED <<at, answer, readers, writer>>

\* A poisoned lock is acquired, and given back with an error.
Refuse(r) == Answer(r, "error")

TakeRead(r) ==
    /\ Stage(r, "read")
    /\ writer = None
    /\ IF poisoned THEN Refuse(r)
       ELSE Proceed(r) /\ readers' = readers \cup {r} /\ UNCHANGED writer
    /\ UNCHANGED <<table, client, local, poisoned, service, registry, history>>

TakeWrite(r) ==
    /\ Stage(r, "write")
    /\ writer = None /\ readers = {}
    /\ IF poisoned THEN Refuse(r)
       ELSE Proceed(r) /\ writer' = r /\ UNCHANGED readers
    /\ UNCHANGED <<table, client, local, poisoned, service, registry, history>>

\* get_profile, get_rewards and the list of claims only read; a player without
\* claims has an empty list.  An unknown player has no rewards either.
Look(r) ==
    /\ Stage(r, "look")
    /\ Answer(r, IF job[r].kind # "list_claims" /\ vectors[job[r].player] = None
                 THEN "not found" ELSE "ok")
    /\ UNCHANGED <<table, client, local, poisoned, service, registry, history>>

\* The review reads the claim and gives the lock back.
TakeSnapshot(r) ==
    /\ Stage(r, "snapshot")
    /\ LET claim == claims[job[r].player][job[r].claim]
       IN  IF claim = AbsentClaim
           THEN Answer(r, "not found") /\ UNCHANGED snapshot
           ELSE /\ Proceed(r)
                /\ snapshot' = [snapshot EXCEPT ![r] = claim]
                /\ readers' = readers \ {r}
                /\ UNCHANGED writer
    /\ UNCHANGED <<table, client, copy, receipt, poisoned, service, registry, history>>

-----------------------------------------------------------------------------
(* The service's operations, under the write lock. *)

\* Mining a block with one transaction, which r asked for.
Mine(r, kind, developer, via) ==
    chain' = Append(chain, [by |-> <<r, attempts[r]>>, kind |-> kind,
                            player |-> Player(r), developer |-> developer,
                            via |-> via])

\* What of the details of an award the handlers pass on.
AwardDetails(block) == [developer |-> block.developer]

\* The variant of TransactionData an award is wrapped in.
Variant(r) == IF job[r].kind = "award_entitlement" THEN "Entitlement" ELSE "Achievement"

\* The AwardRecord made of the latest block.
AwardRecord(r, block) ==
    [by |-> block.by, player |-> block.player, via |-> block.via,
     data_hash |-> DataHash(AwardDetails(block)),
     details |-> Wrapped(Variant(r), AwardDetails(block))]

CreateProfileInMemory(r) ==
    /\ Stage(r, "create")
    /\ vectors' = [vectors EXCEPT ![Player(r)] = DefaultDim]
    /\ Mine(r, "profile", None, None)
    /\ Continue(r)
    /\ UNCHANGED <<table, client, local, poisoned, claims, registry, history>>

SetVector(r) ==
    /\ Stage(r, "set")
    /\ IF vectors[job[r].player] = None
       THEN Answer(r, "not found") /\ UNCHANGED <<vectors, chain>>
       ELSE /\ vectors' = [vectors EXCEPT ![job[r].player] = job[r].dim]
            /\ Mine(r, "profile", None, None)
            /\ Continue(r)
    /\ UNCHANGED <<table, client, local, poisoned, claims, registry, history>>

\* xor asserts that the dimensions agree; a panic drops the connection and
\* poisons the lock.
MergeVector(r) ==
    LET p == job[r].player
        agree == vectors[p] = ConceptDim[DefinitionKey(r)]
    IN  /\ Stage(r, "merge")
        /\ IF vectors[p] = None THEN Answer(r, "not found")
           ELSE Check(r, agree, "dropped")
        /\ poisoned' = (vectors[p] # None /\ ~agree)
        /\ IF vectors[p] # None /\ agree
           THEN Mine(r, "profile", None, None) ELSE UNCHANGED chain
        /\ UNCHANGED <<table, client, local, vectors, claims, registry, history>>

SaveOutcomes == {"ok"} \cup (Faults \cap {"save"})
AppendOutcomes == {"ok"} \cup (Faults \cap {"append"})

\* Fault for api_requests: a claim id that is taken is submitted over.
TakenNever(claim) == FALSE

\* Whether a claim id is taken; the caller then gets the stored claim.
Taken(claim) == claim # AbsentClaim

SubmitClaimInMemory(r) ==
    LET p == job[r].player
        c == job[r].claim
    IN  /\ Stage(r, "submit")
        /\ IF vectors[p] = None
           THEN Answer(r, "not found") /\ UNCHANGED claims
           ELSE IF Taken(claims[p][c]) THEN Answer(r, "ok") /\ UNCHANGED claims
           ELSE /\ claims' = [claims EXCEPT ![p][c] =
                     [status |-> "Pending", developer |-> job[r].developer,
                      name |-> job[r].name, award |-> None]]
                /\ \E saved \in SaveOutcomes :
                     Answer(r, IF saved = "ok" THEN "ok" ELSE "error")
        /\ UNCHANGED <<table, client, local, poisoned, vectors, chain, registry, history>>

\* Fault for api_requests: the status is that of the snapshot.
StatusAtReviewStale(r) == snapshot[r].status

\* The status the review decides on, read under the write lock.
StatusAtReview(r) == claims[job[r].player][job[r].claim].status

Decision == [Promote |-> "Promoted", Reject |-> "Rejected"]

\* A review that finds the decision made: a promotion of a promoted claim is
\* answered Ok, the opposite decision is refused.
ReviewDecided(r) ==
    LET status == StatusAtReview(r)
    IN  /\ Stage(r, "decide")
        /\ \/ /\ status = "Promoted" /\ job[r].action = "Promote"
              /\ Answer(r, "ok")
              /\ decided' = decided \cup {<<job[r].player, job[r].claim, "Promote">>}
           \/ /\ \/ status = "Promoted" /\ job[r].action = "Reject"
                 \/ status = "Rejected" /\ job[r].action = "Promote"
              /\ Answer(r, "bad request")
              /\ UNCHANGED decided
        /\ UNCHANGED <<table, client, local, poisoned, service, registry, spoilt>>

\* The first half of review_achievement_claim: the decision, and its save.
Decide(r) ==
    LET p == job[r].player
        c == job[r].claim
    IN  /\ Stage(r, "decide")
        /\ \/ StatusAtReview(r) = "Pending"
           \/ StatusAtReview(r) = "Rejected" /\ job[r].action = "Reject"
        /\ claims' = [claims EXCEPT ![p][c].status = Decision[job[r].action]]
        /\ \E saved \in SaveOutcomes :
            IF saved # "ok" THEN
                /\ Answer(r, "error")
                /\ spoilt' = IF job[r].action = "Promote"
                             THEN spoilt \cup {<<p, c>>} ELSE spoilt
                /\ UNCHANGED decided
            ELSE IF job[r].action = "Reject" THEN
                /\ Answer(r, "ok")
                /\ decided' = decided \cup {<<p, c, "Reject">>}
                /\ UNCHANGED spoilt
            ELSE Continue(r) /\ UNCHANGED history
        /\ UNCHANGED <<table, client, local, poisoned, vectors, chain, registry>>

Via(r) == IF job[r].kind = "review_claim" THEN <<job[r].player, job[r].claim>> ELSE None

\* award_achievement and award_entitlement, up to add_block.
Award(r) ==
    /\ Stage(r, "award")
    /\ IF vectors[job[r].player] = None
       THEN Answer(r, "not found") /\ UNCHANGED chain
       ELSE Continue(r) /\ Mine(r, "award", DefinitionKey(r)[1], Via(r))
    /\ UNCHANGED <<table, client, local, poisoned, vectors, claims, registry, history>>

\* Any error of set_dimensions and of the merge is answered as "not found".
AppendError(r) ==
    IF job[r].kind \in {"set_dimensions", "add_concept_to_profile"}
    THEN "not found" ELSE "error"

\* The requests that are answered with a receipt.
RewardKinds == {"award_achievement", "award_entitlement", "review_claim"}

\* Fault for api_requests: the receipt is the oldest block's.
ReceiptBlockOldest == Head(chain)

\* get_latest_block.
ReceiptBlock == chain[Len(chain)]

\* append_block of the latest block, from which the receipt is made.
AppendBlock(r) ==
    /\ Stage(r, "append")
    /\ \E appended \in AppendOutcomes :
        IF appended # "ok" THEN
            /\ Answer(r, AppendError(r))
            /\ spoilt' = IF job[r].kind = "review_claim"
                         THEN spoilt \cup {Via(r)} ELSE spoilt
            /\ UNCHANGED receipt
        ELSE
            /\ receipt' = IF job[r].kind \in RewardKinds
                          THEN [receipt EXCEPT ![r] = AwardRecord(r, ReceiptBlock)]
                          ELSE receipt
            /\ IF at[r] = Len(Handler(r)) THEN Answer(r, "ok") ELSE Continue(r)
            /\ UNCHANGED spoilt
    /\ UNCHANGED <<table, client, snapshot, copy, poisoned, service, registry, decided>>

\* The second half of the review: the award is noted in the claim and saved.
Note(r) ==
    LET p == job[r].player
        c == job[r].claim
    IN  /\ Stage(r, "note")
        /\ claims' = [claims EXCEPT ![p][c].award = receipt[r].by]
        /\ \E saved \in SaveOutcomes :
            IF saved = "ok"
            THEN /\ Answer(r, "ok")
                 /\ decided' = decided \cup {<<p, c, "Promote">>}
            ELSE Answer(r, "error") /\ UNCHANGED decided
        /\ UNCHANGED <<table, client, local, poisoned, vectors, chain, registry, spoilt>>

-----------------------------------------------------------------------------
(* Adding a definition. *)

\* add_concept answers with the concept that is there.
LoadRegistry(r) ==
    LET f == RegistryOf[job[r].kind]
    IN  /\ Stage(r, "load")
        /\ copy' = [copy EXCEPT ![r] = registry[f]]
        /\ Check(r, ~(f = "concepts" /\ DefinitionKey(r) \in registry[f]), "ok")
        /\ UNCHANGED <<table, client, snapshot, receipt, poisoned, service, registry, history>>

\* The open of save, which truncates; when it fails the answer is Ok all the same.
TruncateRegistry(r) ==
    /\ Stage(r, "truncate")
    /\ \/ /\ registry' = [registry EXCEPT ![RegistryOf[job[r].kind]] = {}]
          /\ Continue(r)
       \/ "registry" \in Faults /\ Answer(r, "ok") /\ UNCHANGED registry
    /\ UNCHANGED <<table, client, local, poisoned, service, history>>

SaveRegistry(r) ==
    /\ Stage(r, "save")
    /\ registry' = [registry EXCEPT ![RegistryOf[job[r].kind]] =
                      copy[r] \cup {DefinitionKey(r)}]
    /\ Answer(r, "ok")
    /\ UNCHANGED <<table, client, local, poisoned, service, history>>

-----------------------------------------------------------------------------
(* The caller. *)

\* post_json or get_json: the request reaches the server.
Send(r) ==
    /\ at[r] = 0 /\ answer[r] = None
    /\ told[r] \in {"none", "http"} /\ attempts[r] < MaxAttempts[r]
    /\ attempts' = [attempts EXCEPT ![r] = @ + 1]
    /\ at' = [at EXCEPT ![r] = 1]
    /\ snapshot' = [snapshot EXCEPT ![r] = None]
    /\ receipt' = [receipt EXCEPT ![r] = None]
    /\ copy' = [copy EXCEPT ![r] = {}]
    /\ UNCHANGED <<table, job, told, answer, lock, service, registry, history>>

\* What the SDK makes of an answer.
SdkResult(status) ==
    IF status = "ok" THEN "ok" ELSE IF status = "dropped" THEN "http" ELSE "status"

Receive(r) ==
    /\ answer[r] # None
    /\ told' = [told EXCEPT ![r] = SdkResult(answer[r])]
    /\ answer' = [answer EXCEPT ![r] = None]
    /\ UNCHANGED <<table, job, attempts, at, local, lock, service, registry, history>>

\* The answer is lost; the SDK reports SdkError::Http.
Lose(r) ==
    /\ "lost" \in Faults
    /\ answer[r] # None
    /\ told' = [told EXCEPT ![r] = "http"]
    /\ answer' = [answer EXCEPT ![r] = None]
    /\ UNCHANGED <<table, job, attempts, at, local, lock, service, registry, history>>

-----------------------------------------------------------------------------

\* One stage of r's handler.
Step(r) ==
    \/ CheckSession(r) \/ CheckPath(r) \/ CheckToken(r) \/ CheckDeveloper(r)
    \/ FindDefinition(r) \/ TakeRead(r) \/ TakeWrite(r) \/ Look(r)
    \/ TakeSnapshot(r) \/ CreateProfileInMemory(r) \/ SetVector(r)
    \/ MergeVector(r) \/ SubmitClaimInMemory(r) \/ ReviewDecided(r) \/ Decide(r)
    \/ Award(r) \/ AppendBlock(r) \/ Note(r)
    \/ LoadRegistry(r) \/ TruncateRegistry(r) \/ SaveRegistry(r)

Call(r) == Send(r) \/ Receive(r) \/ Lose(r)

\* Every call is over.
Over ==
    /\ \A r \in Requests : at[r] = 0 /\ answer[r] = None
    /\ \A r \in Requests : told[r] \in {"ok", "status"} \/ attempts[r] = MaxAttempts[r]
    /\ UNCHANGED vars

Next == (\E r \in Requests : Step(r) \/ Call(r)) \/ Over

\* A worker thread that can take a stage takes it, the stages in which the storage
\* is called included.  Callers owe nothing.
Fairness == \A r \in Requests : WF_vars(Step(r))

Spec == Init /\ [][Next]_vars /\ Fairness

-----------------------------------------------------------------------------

\* A claim is never answered Ok both as promoted and as rejected, whichever
\* reviews read it before the other one decided (api.rs:605 and :641), in one
\* run of the process.
DecisionsAgree ==
    \A p \in Players, c \in Claims :
        ~({<<p, c, "Promote">>, <<p, c, "Reject">>} \subseteq decided)

AwardsVia(p, c) == {i \in DOMAIN chain : chain[i].via = <<p, c>>}

\* Nobody can see a promotion half done: when no writer holds the lock, a
\* promoted claim has its one award and names it, unless that promotion was
\* answered with an error; and no claim ever has two, however often the review
\* is repeated.
PromotionsAreWhole ==
    \A p \in Players, c \in Claims :
        /\ Cardinality(AwardsVia(p, c)) <= 1
        /\ /\ writer = None
           /\ claims[p][c].status = "Promoted"
           /\ <<p, c>> \notin spoilt
           => \E i \in AwardsVia(p, c) : claims[p][c].award = chain[i].by

\* What a review read before it let go of the lock still identifies the claim
\* it decides on: the developer it checked and the achievement it looked up.
SnapshotStillHolds ==
    \A r \in Requests :
        at[r] # 0 /\ snapshot[r] # None =>
            LET claim == claims[job[r].player][job[r].claim]
            IN  /\ claim # AbsentClaim
                /\ claim.developer = snapshot[r].developer
                /\ claim.name = snapshot[r].name

\* A receipt is that of the change its own request made, in this attempt, also
\* when others award to the same player (docs/WORK_QUEUE.md, EW-005).
ReceiptsAreOwn ==
    \A r \in Requests :
        receipt[r] # None =>
            /\ receipt[r].by = <<r, attempts[r]>>
            /\ receipt[r].player = Player(r)
            /\ receipt[r].via = Via(r)

\* The SDK's check of a receipt accepts every receipt the server gives
\* (game-sdk-rust/README.md:20).
ReceiptsVerify ==
    \A r \in Requests : receipt[r] # None => VerifyReceiptIntegrity(receipt[r])

\* Whoever changed a player's profile had that player's session, and every
\* award was made with a token of the developer it belongs to that has the
\* scope, also when it came about by way of a claim.
ChangesAreAuthorized ==
    \A i \in DOMAIN chain :
        LET j == job[chain[i].by[1]]
        IN  IF chain[i].kind = "profile"
            THEN j.bearer \in DOMAIN Sessions /\ Sessions[j.bearer] = chain[i].player
            ELSE DeveloperAuthorizedFor(table, j.bearer, chain[i].developer,
                                        RequiredScope[j.kind])

\* Every request is answered: no handler waits for ever for the lock, or for
\* another one, whatever fails and whoever panics.  Every call of the storage is
\* taken to return, which one of the qcoin backend does not if its node accepts
\* the connection and stays silent (see NodeIsNeverSilent in QCoinMirror).
EveryRequestIsAnswered == \A r \in Requests : at[r] # 0 ~> at[r] = 0
=============================================================================
