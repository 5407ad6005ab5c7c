------------------------------- MODULE Identity -------------------------------
(***************************************************************************)
(* Identity exchange and sessions (rust/src/identity.rs).  exchange runs   *)
(* under the write lock of the identity map from the lookup to the answer, *)
(* saving the whole map on the way; sessions live in memory only.  The     *)
(* process may be killed and restarted at any moment, also while it writes *)
(* the map, which is truncated first.                                      *)
(***************************************************************************)
EXTENDS Naturals, FiniteSets

CONSTANTS
    Spellings,   \* provider names callers send that is_supported_provider
                 \* accepts, in whatever case
    Tokens,      \* provider tokens
    TokenMap,    \* TokenMap[s][t]: the subject of t under the configured
                 \* spelling s, or None; an empty function if not configured
    None,        \* no value
    Faults,      \* subset of {"open", "write"}: how a save may fail
    MaxIds,      \* bound: player ids generated in a behaviour
    MaxSessions  \* bound: sessions opened in a behaviour

ASSUME FaultsAssumption == Faults \subseteq {"open", "write"}
ASSUME TokenMapAssumption == DOMAIN TokenMap \subseteq Spellings
ASSUME NoneAssumption == None \notin Nat
ASSUME BoundsAssumption == MaxIds \in Nat /\ MaxSessions \in Nat

\* Fault for identity_restarts: a token that is not configured is a subject.
ResolveAnything(s, t) ==
    IF s \in DOMAIN TokenMap /\ TokenMap[s][t] # None THEN TokenMap[s][t] ELSE t

\* resolve_subject.  It looks the spelling up as it was sent; with no tokens
\* configured at all, a token is its own subject.
Resolve(s, t) ==
    IF s \in DOMAIN TokenMap THEN TokenMap[s][t]
    ELSE IF DOMAIN TokenMap = {} THEN t
    ELSE None

\* The subjects the configuration knows, and a login: a provider as it was
\* sent, and a subject.
Configured(s) == {TokenMap[s][t] : t \in Tokens} \ {None}
Logins == Spellings \X (Tokens \cup UNION {Configured(s) : s \in DOMAIN TokenMap})

VARIABLES
    idMap,     \* idMap[l]: the player id of login l in memory, or None
    idFile,    \* the same in the file
    sessions,  \* the sessions in memory, as <<access token, player id>>
    ids,       \* player ids generated so far: 1..ids
    opened,    \* access tokens generated so far: 1..opened
    told       \* <<login, player id, is_new_player>>: answers so far

vars == <<idMap, idFile, sessions, ids, opened, told>>

\* A missing, empty or half-written file is loaded as an empty map.
NoIds == [l \in Logins |-> None]

Init ==
    /\ idMap = NoIds
    /\ idFile = NoIds
    /\ sessions = {}
    /\ ids = 0
    /\ opened = 0
    /\ told = {}

\* How persist_identity_map ends: it fails before or after the truncation, the
\* latter also standing for a crash in the middle, to be followed by Restart.
SaveOutcomes == {"ok"} \cup Faults

\* Fault for identity_restarts: the map is saved before the id is added.
PersistStale(outcome) ==
    idFile' = CASE outcome = "ok" -> idMap
                [] outcome = "open" -> idFile
                [] outcome = "write" -> NoIds

\* persist_identity_map.
Persist(outcome) ==
    idFile' = CASE outcome = "ok" -> idMap'
                [] outcome = "open" -> idFile
                [] outcome = "write" -> NoIds

\* Fault for identity_restarts: subjects are looked up without the provider.
KnownIdAnywhere(login) ==
    {idMap[l] : l \in {k \in Logins : k[2] = login[2]}} \ {None}

\* The id the map holds for a login, if any.
KnownId(login) == {idMap[login]} \ {None}

\* Fault for identity_restarts: the session is opened though the save failed.
OpensSessionAlways(outcome) == TRUE

\* A session is opened and the exchange answered once the map is saved.
OpensSession(outcome) == outcome = "ok"

\* exchange_identity of a supported provider and a token with a subject; any
\* other is an error that changes nothing.
Exchange(s, t) ==
    LET login == <<s, Resolve(s, t)>>
        isNew == KnownId(login) = {}
        id == IF isNew THEN ids + 1 ELSE CHOOSE known \in KnownId(login) : TRUE
    IN  /\ Resolve(s, t) # None
        /\ isNew => ids < MaxIds
        /\ opened < MaxSessions
        /\ ids' = IF isNew THEN ids + 1 ELSE ids
        /\ idMap' = [idMap EXCEPT ![login] = id]
        /\ \E outcome \in SaveOutcomes :
            /\ Persist(outcome)
            /\ IF OpensSession(outcome)
               THEN /\ opened' = opened + 1
                    /\ sessions' = sessions \cup {<<opened + 1, id>>}
                    /\ told' = told \cup {<<login, id, isNew>>}
               ELSE UNCHANGED <<opened, sessions, told>>

\* The process dies, and a new one loads the map and has no sessions.
Restart ==
    /\ idMap' = idFile
    /\ sessions' = {}
    /\ UNCHANGED <<idFile, ids, opened, told>>

Next ==
    \/ \E s \in Spellings, t \in Tokens : Exchange(s, t)
    \/ Restart

Spec == Init /\ [][Next]_vars

-----------------------------------------------------------------------------

\* The logins that the configuration vouches for.
Vouched ==
    IF DOMAIN TokenMap = {} THEN Spellings \X Tokens
    ELSE {l \in Logins : l[1] \in DOMAIN TokenMap /\ l[2] \in Configured(l[1])}

IdMaps == [Logins -> 1..MaxIds \cup {None}]

\* Every variable keeps its type; in particular only logins that the
\* configuration vouches for are answered.
TypeOK ==
    /\ idMap \in IdMaps
    /\ idFile \in IdMaps
    /\ sessions \subseteq (1..opened) \X (1..ids)
    /\ ids \in 0..MaxIds
    /\ opened \in 0..MaxSessions
    /\ told \subseteq Vouched \X (1..ids) \X BOOLEAN

\* A login is answered the same player id for ever, across failed saves and
\* restarts, so a player keeps the profile that was created with the first.
\* It rests on no save failing after the truncation ("write").
LoginKeepsItsPlayer ==
    \A answer, other \in told : answer[1] = other[1] => answer[2] = other[2]

\* Two logins are never answered one player id, so no player is shown the
\* profile of another.
PlayersAreDistinct ==
    \A answer, other \in told : answer[2] = other[2] => answer[1] = other[1]

\* Whatever is done in a session can be found again: the player id of every
\* session is durably that of some login.  It rests on "write" too.
SessionPlayersAreSaved ==
    \A session \in sessions : \E l \in Logins : idFile[l] = session[2]
=============================================================================
