---------------------------- MODULE IdentityProofs ----------------------------
(***************************************************************************)
(* The proofs about Identity, for any number of logins, ids and sessions:  *)
(* its types, that players are distinct, and, while no save of the map     *)
(* fails after it was truncated ("write"), that a login keeps its player   *)
(* and that session players are saved.                                     *)
(*                                                                         *)
(* None of the three is inductive: an answer says nothing of the file that *)
(* the next start reads.  Players are distinct because an id, once given   *)
(* to a login, is not found with another in memory, in the file or in an   *)
(* answer.  For the other two, answers and sessions agree with the file,   *)
(* and the file with memory.                                               *)
(***************************************************************************)
EXTENDS Identity, TLAPS

\* Ids in memory and in the file are ids that were generated.
IdsAreGenerated ==
    /\ ids \in Nat
    /\ idMap \in [Logins -> 1..ids \cup {None}]
    /\ idFile \in [Logins -> 1..ids \cup {None}]

\* Memory knows what the file knows.
FileIsInMemory == \A l \in Logins : idFile[l] \in {None, idMap[l]}

\* The login has the id, was answered it, or will have it after a restart.
Holds(l, id) ==
    \/ idMap[l] = id
    \/ idFile[l] = id
    \/ \E answer \in told : answer[1] = l /\ answer[2] = id

OneLoginPerId ==
    \A l, k \in Logins, id \in 1..ids : Holds(l, id) /\ Holds(k, id) => l = k

AnswersAreSaved ==
    \A answer \in told :
        /\ answer[1] \in Logins
        /\ answer[2] # None
        /\ idFile[answer[1]] = answer[2]

SessionsAreSaved ==
    \A session \in sessions :
        session[2] # None /\ \E l \in Logins : idFile[l] = session[2]

DistinctInv == TypeOK /\ IdsAreGenerated /\ OneLoginPerId
IdInv == IdsAreGenerated /\ FileIsInMemory /\ AnswersAreSaved /\ SessionsAreSaved

-----------------------------------------------------------------------------
(* The exchange. *)

\* A token that has a subject is one of a login that is vouched for.
LEMMA ResolvedIsVouched ==
    ASSUME NEW s \in Spellings, NEW t \in Tokens, Resolve(s, t) # None
    PROVE  <<s, Resolve(s, t)>> \in Logins \cap Vouched
<1>1. CASE s \in DOMAIN TokenMap
  <2>1. Resolve(s, t) \in Configured(s)
    BY <1>1 DEF Resolve, Configured
  <2>2. <<s, Resolve(s, t)>> \in Logins
    BY <1>1, <2>1 DEF Logins
  <2>. QED
    BY <1>1, <2>1, <2>2 DEF Vouched
<1>2. CASE s \notin DOMAIN TokenMap
  BY <1>2 DEF Resolve, Logins, Vouched
<1>. QED
  BY <1>1, <1>2

\* What an exchange does: the login has its id or gets a fresh one, and the
\* answer, if any, comes after the whole map was saved.
LEMMA ExchangeEffect ==
    ASSUME IdsAreGenerated, NEW s \in Spellings, NEW t \in Tokens, Exchange(s, t)
    PROVE  \E login \in Logins \cap Vouched, id \in 1..ids' :
              /\ ids' \in {ids, ids + 1} /\ (ids' = ids + 1 => ids < MaxIds)
              /\ id = idMap[login] \/ (idMap[login] = None /\ id = ids + 1)
              /\ idMap' = [idMap EXCEPT ![login] = id]
              /\ \/ idFile' = idFile /\ UNCHANGED <<opened, sessions, told>>
                 \/ /\ idFile' = NoIds /\ UNCHANGED <<opened, sessions, told>>
                    /\ "write" \in Faults
                 \/ /\ idFile' = idMap' /\ opened < MaxSessions /\ opened' = opened + 1
                    /\ sessions' = sessions \cup {<<opened + 1, id>>}
                    /\ \E isNew \in BOOLEAN : told' = told \cup {<<login, id, isNew>>}
<1>. DEFINE login == <<s, Resolve(s, t)>>
            isNew == KnownId(login) = {}
            id == IF isNew THEN ids + 1 ELSE CHOOSE known \in KnownId(login) : TRUE
<1>1. /\ Resolve(s, t) # None
      /\ isNew => ids < MaxIds
      /\ opened < MaxSessions
      /\ ids' = IF isNew THEN ids + 1 ELSE ids
      /\ idMap' = [idMap EXCEPT ![login] = id]
  BY DEF Exchange
<1>2. PICK outcome \in SaveOutcomes :
          /\ Persist(outcome)
          /\ IF OpensSession(outcome)
             THEN /\ opened' = opened + 1
                  /\ sessions' = sessions \cup {<<opened + 1, id>>}
                  /\ told' = told \cup {<<login, id, isNew>>}
             ELSE UNCHANGED <<opened, sessions, told>>
  BY DEF Exchange
<1>3. login \in Logins \cap Vouched
  BY <1>1, ResolvedIsVouched
<1>. HIDE DEF login
<1>4. \/ isNew /\ idMap[login] = None /\ id = ids + 1 /\ ids' = ids + 1 /\ ids < MaxIds
      \/ ~isNew /\ id = idMap[login] /\ id # None /\ ids' = ids
  BY <1>1 DEF KnownId
<1>5. idMap[login] \in 1..ids \cup {None} /\ ids \in Nat
  BY <1>3 DEF IdsAreGenerated
<1>6. id \in 1..ids' /\ (ids' = ids + 1 => ids < MaxIds)
  BY <1>4, <1>5
<1>7. outcome \in {"ok", "open"} \/ (outcome = "write" /\ "write" \in Faults)
  BY FaultsAssumption DEF SaveOutcomes
<1>8. isNew \in BOOLEAN
  OBVIOUS
<1>. HIDE DEF id, isNew
<1>9. CASE outcome = "ok"
  <2>1. /\ idFile' = idMap' /\ opened' = opened + 1
        /\ sessions' = sessions \cup {<<opened + 1, id>>}
        /\ told' = told \cup {<<login, id, isNew>>}
    BY <1>2, <1>9 DEF Persist, OpensSession
  <2>. QED
    BY <1>1, <1>3, <1>4, <1>6, <1>8, <2>1
<1>10. CASE outcome = "open"
  <2>1. idFile' = idFile /\ UNCHANGED <<opened, sessions, told>>
    BY <1>2, <1>10 DEF Persist, OpensSession
  <2>. QED
    BY <1>1, <1>3, <1>4, <1>6, <2>1
<1>11. CASE outcome = "write" /\ "write" \in Faults
  <2>1. idFile' = NoIds /\ UNCHANGED <<opened, sessions, told>>
    BY <1>2, <1>11 DEF Persist, OpensSession
  <2>. QED
    BY <1>1, <1>3, <1>4, <1>6, <1>11, <2>1
<1>. QED
  BY <1>7, <1>9, <1>10, <1>11

\* What every exchange keeps of the ids.
LEMMA ExchangeGenerates ==
    ASSUME IdsAreGenerated, NEW s \in Spellings, NEW t \in Tokens, Exchange(s, t)
    PROVE  IdsAreGenerated'
<1>1. PICK login \in Logins, id \in 1..ids' :
          /\ ids' \in {ids, ids + 1}
          /\ idMap' = [idMap EXCEPT ![login] = id]
          /\ idFile' \in {idFile, NoIds, idMap'}
  BY ExchangeEffect
<1>2. /\ ids \in Nat
      /\ idMap \in [Logins -> 1..ids \cup {None}]
      /\ idFile \in [Logins -> 1..ids \cup {None}]
  BY DEF IdsAreGenerated
<1>3. ids' \in Nat /\ 1..ids \subseteq 1..ids'
  BY <1>1, <1>2
<1>4. idMap' \in [Logins -> 1..ids' \cup {None}]
  BY <1>1, <1>2, <1>3
<1>5. idFile' \in [Logins -> 1..ids' \cup {None}]
  BY <1>1, <1>2, <1>3, <1>4 DEF NoIds
<1>. QED
  BY <1>3, <1>4, <1>5 DEF IdsAreGenerated

-----------------------------------------------------------------------------
(* Types, and one login for each id, however saves fail. *)

LEMMA InitDistinct == Init => DistinctInv
<1>. SUFFICES ASSUME Init PROVE DistinctInv
  OBVIOUS
<1>1. IdsAreGenerated /\ OneLoginPerId
  BY DEF Init, NoIds, IdsAreGenerated, OneLoginPerId
<1>2. TypeOK
  BY BoundsAssumption DEF Init, NoIds, TypeOK, IdMaps
<1>. QED
  BY <1>1, <1>2 DEF DistinctInv

LEMMA ExchangeTypes ==
    ASSUME DistinctInv, NEW s \in Spellings, NEW t \in Tokens, Exchange(s, t)
    PROVE  TypeOK'
<1>1. PICK login \in Logins \cap Vouched, id \in 1..ids' :
          /\ ids' \in {ids, ids + 1} /\ (ids' = ids + 1 => ids < MaxIds)
          /\ \/ UNCHANGED <<opened, sessions, told>>
             \/ /\ opened < MaxSessions /\ opened' = opened + 1
                /\ sessions' = sessions \cup {<<opened + 1, id>>}
                /\ \E isNew \in BOOLEAN : told' = told \cup {<<login, id, isNew>>}
  BY ExchangeEffect DEF DistinctInv
<1>2. /\ ids \in 0..MaxIds /\ opened \in 0..MaxSessions
      /\ sessions \subseteq (1..opened) \X (1..ids)
      /\ told \subseteq Vouched \X (1..ids) \X BOOLEAN
  BY DEF DistinctInv, TypeOK
<1>3. ids' \in 0..MaxIds /\ 1..ids \subseteq 1..ids' /\ 1..ids' \subseteq 1..MaxIds
  BY <1>1, <1>2, BoundsAssumption
<1>4. opened' \in 0..MaxSessions /\ 1..opened \subseteq 1..opened'
  BY <1>1, <1>2, BoundsAssumption
<1>5. sessions' \subseteq (1..opened') \X (1..ids')
  <2>1. CASE UNCHANGED <<opened, sessions, told>>
    BY <1>2, <1>3, <2>1
  <2>2. CASE opened' = opened + 1 /\ sessions' = sessions \cup {<<opened + 1, id>>}
    <3>1. opened + 1 \in 1..opened'
      BY <1>2, <2>2, BoundsAssumption
    <3>. QED
      BY <1>2, <1>3, <1>4, <2>2, <3>1
  <2>. QED
    BY <1>1, <2>1, <2>2
<1>6. told' \subseteq Vouched \X (1..ids') \X BOOLEAN
  BY <1>1, <1>2, <1>3
<1>7. idMap' \in IdMaps /\ idFile' \in IdMaps
  BY <1>3, ExchangeGenerates DEF DistinctInv, IdsAreGenerated, IdMaps
<1>. QED
  BY <1>3, <1>4, <1>5, <1>6, <1>7 DEF TypeOK, Vouched

\* The login of an exchange holds its id; no other login comes to hold any.
LEMMA ExchangeKeepsLoginsApart ==
    ASSUME DistinctInv, NEW s \in Spellings, NEW t \in Tokens, Exchange(s, t)
    PROVE  OneLoginPerId'
<1>1. PICK login \in Logins \cap Vouched, id \in 1..ids' :
          /\ ids' \in {ids, ids + 1}
          /\ id = idMap[login] \/ (idMap[login] = None /\ id = ids + 1)
          /\ idMap' = [idMap EXCEPT ![login] = id]
          /\ idFile' \in {idFile, NoIds, idMap'}
          /\ told' = told \/ \E isNew \in BOOLEAN : told' = told \cup {<<login, id, isNew>>}
  BY ExchangeEffect DEF DistinctInv
<1>2. /\ ids \in Nat
      /\ idMap \in [Logins -> 1..ids \cup {None}]
      /\ idFile \in [Logins -> 1..ids \cup {None}]
      /\ \A answer \in told : answer[2] \in 1..ids
  BY DEF DistinctInv, IdsAreGenerated, TypeOK
<1>3. None \notin 1..ids'
  BY <1>1, <1>2, NoneAssumption
<1>4. ASSUME NEW l \in Logins, NEW i \in 1..ids', Holds(l, i)'
      PROVE  Holds(l, i) \/ (l = login /\ i = id)
  <2>1. idMap'[l] = i => idMap[l] = i \/ (l = login /\ i = id)
    BY <1>1, <1>2
  <2>2. idFile'[l] = i => idFile[l] = i \/ idMap'[l] = i
    BY <1>1, <1>3 DEF NoIds
  <2>3. ASSUME NEW answer \in told', answer[1] = l, answer[2] = i
        PROVE  answer \in told \/ (l = login /\ i = id)
    BY <1>1, <2>3
  <2>. QED
    BY <1>4, <2>1, <2>2, <2>3 DEF Holds
<1>5. \A l \in Logins : ~Holds(l, ids + 1)
  <2>1. ids + 1 \notin 1..ids \cup {None}
    BY <1>2, NoneAssumption
  <2>. QED
    BY <1>2, <2>1 DEF Holds
<1>6. ASSUME NEW l \in Logins, Holds(l, id)
      PROVE  l = login
  <2>1. CASE id = ids + 1
    BY <1>5, <1>6, <2>1
  <2>2. CASE id = idMap[login] /\ id # ids + 1
    <3>1. id \in 1..ids /\ Holds(login, id)
      BY <1>1, <1>2, <2>2 DEF Holds
    <3>. QED
      BY <1>6, <3>1 DEF DistinctInv, OneLoginPerId
  <2>. QED
    BY <1>1, <2>1, <2>2
<1>7. ASSUME NEW l \in Logins, NEW k \in Logins, NEW i \in 1..ids', Holds(l, i)', Holds(k, i)'
      PROVE  l = k
  <2>1. CASE i = id
    BY <1>4, <1>6, <1>7, <2>1
  <2>2. CASE i # id
    <3>1. Holds(l, i) /\ Holds(k, i)
      BY <1>4, <1>7, <2>2
    <3>2. i \in 1..ids
      BY <1>1, <1>2, <1>5, <3>1
    <3>. QED
      BY <3>1, <3>2 DEF DistinctInv, OneLoginPerId
  <2>. QED
    BY <2>1, <2>2
<1>. QED
  BY <1>7 DEF OneLoginPerId, Logins, Configured

LEMMA NextDistinct == DistinctInv /\ [Next]_vars => DistinctInv'
<1>. SUFFICES ASSUME DistinctInv, [Next]_vars PROVE DistinctInv'
  OBVIOUS
<1>1. ASSUME NEW s \in Spellings, NEW t \in Tokens, Exchange(s, t)
      PROVE  DistinctInv'
  BY <1>1, ExchangeTypes, ExchangeGenerates, ExchangeKeepsLoginsApart DEF DistinctInv
<1>2. CASE Restart
  <2>1. TypeOK'
    BY <1>2 DEF Restart, DistinctInv, TypeOK, IdMaps, Vouched
  <2>2. IdsAreGenerated'
    BY <1>2 DEF Restart, DistinctInv, IdsAreGenerated
  <2>3. OneLoginPerId'
    BY <1>2 DEF Restart, DistinctInv, OneLoginPerId, Holds
  <2>. QED
    BY <2>1, <2>2, <2>3 DEF DistinctInv
<1>3. CASE UNCHANGED vars
  BY <1>3 DEF vars, DistinctInv, TypeOK, IdMaps, Vouched, IdsAreGenerated, OneLoginPerId, Holds
<1>. QED
  BY <1>1, <1>2, <1>3 DEF Next

LEMMA DistinctInvariant == Spec => []DistinctInv
  BY InitDistinct, NextDistinct, PTL DEF Spec

-----------------------------------------------------------------------------
(* What the file keeps, while no save fails after the truncation. *)

LEMMA InitIds == Init => IdInv
BY DEF Init, NoIds, IdInv, IdsAreGenerated, FileIsInMemory, AnswersAreSaved, SessionsAreSaved

LEMMA ExchangeIds ==
    ASSUME IdInv, "write" \notin Faults,
           NEW s \in Spellings, NEW t \in Tokens, Exchange(s, t)
    PROVE  IdInv'
<1>1. PICK login \in Logins, id \in 1..ids' :
          /\ ids' \in {ids, ids + 1}
          /\ id = idMap[login] \/ (idMap[login] = None /\ id = ids + 1)
          /\ idMap' = [idMap EXCEPT ![login] = id]
          /\ \/ idFile' = idFile /\ UNCHANGED <<sessions, told>>
             \/ /\ idFile' = idMap'
                /\ sessions' = sessions \cup {<<opened + 1, id>>}
                /\ \E isNew : told' = told \cup {<<login, id, isNew>>}
  BY ExchangeEffect DEF IdInv
<1>2. /\ ids \in Nat
      /\ idMap \in [Logins -> 1..ids \cup {None}]
      /\ idFile \in [Logins -> 1..ids \cup {None}]
  BY DEF IdInv, IdsAreGenerated
<1>3. ids' \in Nat /\ id # None
  BY <1>1, <1>2, NoneAssumption
<1>4. /\ idMap'[login] = id
      /\ \A l \in Logins : l # login => idMap'[l] = idMap[l]
      /\ DOMAIN idMap' = Logins
  BY <1>1, <1>2
<1>5. \A l \in Logins : idMap[l] \in {None, idMap'[l]}
  BY <1>1, <1>3, <1>4
<1>6. \A l \in Logins : idFile[l] \in {None, idFile'[l]}
  BY <1>1, <1>5 DEF IdInv, FileIsInMemory
<1>7. IdsAreGenerated'
  BY ExchangeGenerates DEF IdInv
<1>8. FileIsInMemory'
  BY <1>1, <1>5 DEF IdInv, FileIsInMemory
<1>9. AnswersAreSaved'
  BY <1>1, <1>3, <1>4, <1>6 DEF IdInv, AnswersAreSaved
<1>10. SessionsAreSaved'
  BY <1>1, <1>3, <1>4, <1>6 DEF IdInv, SessionsAreSaved
<1>. QED
  BY <1>7, <1>8, <1>9, <1>10 DEF IdInv

LEMMA NextIds ==
    ASSUME "write" \notin Faults
    PROVE  IdInv /\ [Next]_vars => IdInv'
<1>. SUFFICES ASSUME IdInv, [Next]_vars PROVE IdInv'
  OBVIOUS
<1>1. CASE Restart
  BY <1>1 DEF Restart, IdInv, IdsAreGenerated, FileIsInMemory,
              AnswersAreSaved, SessionsAreSaved
<1>2. CASE UNCHANGED vars
  BY <1>2 DEF vars, IdInv, IdsAreGenerated, FileIsInMemory,
              AnswersAreSaved, SessionsAreSaved
<1>. QED
  BY <1>1, <1>2, ExchangeIds DEF Next

LEMMA IdInvariant ==
    ASSUME "write" \notin Faults
    PROVE  Spec => []IdInv
<1>1. Init => IdInv
  BY InitIds
<1>2. IdInv /\ [Next]_vars => IdInv'
  BY NextIds
<1>. QED
  BY <1>1, <1>2, PTL DEF Spec

-----------------------------------------------------------------------------
(* The theorems. *)

\* Whatever fails, every variable of Identity keeps its type, and only logins
\* that the configuration vouches for are answered.
THEOREM IdentityTypes == Spec => []TypeOK
<1>1. DistinctInv => TypeOK
  BY DEF DistinctInv
<1>. QED
  BY <1>1, DistinctInvariant, PTL

\* Whatever fails, even if it leaves the map of a restarted service empty, no
\* two logins are ever answered one player id: an id that was given out is
\* never generated again.
THEOREM NoSharedPlayers == Spec => []PlayersAreDistinct
<1>1. ASSUME DistinctInv, NEW answer \in told, NEW other \in told, answer[2] = other[2]
      PROVE  answer[1] = other[1]
  <2>1. Vouched \subseteq Logins
    <3>1. CASE DOMAIN TokenMap = {}
      BY <3>1 DEF Vouched, Logins
    <3>2. CASE DOMAIN TokenMap # {}
      BY <3>2 DEF Vouched
    <3>. QED
      BY <3>1, <3>2
  <2>2. answer[1] \in Logins /\ other[1] \in Logins /\ answer[2] \in 1..ids
    BY <1>1, <2>1 DEF DistinctInv, TypeOK
  <2>3. Holds(answer[1], answer[2]) /\ Holds(other[1], answer[2])
    BY <1>1 DEF Holds
  <2>. QED
    BY <1>1, <2>2, <2>3 DEF DistinctInv, OneLoginPerId
<1>2. DistinctInv => PlayersAreDistinct
  BY <1>1 DEF PlayersAreDistinct
<1>. QED
  BY <1>2, DistinctInvariant, PTL

\* While no save truncates the map and then fails, exchange_identity answers a
\* login the same player id for ever, through failed saves and restarts.
THEOREM LoginsKeepTheirPlayers ==
    ASSUME "write" \notin Faults
    PROVE  Spec => []LoginKeepsItsPlayer
<1>1. IdInv => LoginKeepsItsPlayer
  BY DEF IdInv, AnswersAreSaved, LoginKeepsItsPlayer
<1>. QED
  BY <1>1, IdInvariant, PTL

\* Under that assumption the player of every open session is in the file, so
\* that what is done in the session can be found after a restart.
THEOREM SessionsOutliveRestarts ==
    ASSUME "write" \notin Faults
    PROVE  Spec => []SessionPlayersAreSaved
<1>1. IdInv => SessionPlayersAreSaved
  BY DEF IdInv, SessionsAreSaved, SessionPlayersAreSaved
<1>. QED
  BY <1>1, IdInvariant, PTL
=============================================================================
