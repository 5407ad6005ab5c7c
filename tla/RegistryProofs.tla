----------------------------- MODULE RegistryProofs -----------------------------
(***************************************************************************)
(* What a registry without a lock still keeps: the proof, for any number   *)
(* of requests and definitions, and texts of any length.                   *)
(*                                                                         *)
(* That an answered definition is in the file is not inductive: while a    *)
(* request is under way the file says nothing of what will be written.     *)
(* What is, is that the one request of an undisturbed registry carries     *)
(* everything that was answered in its copy.                               *)
(***************************************************************************)
EXTENDS Registry, TLAPS

\* No two requests to add are under way.
OneAtATime ==
    \A r, s \in Requests : request[r] # Idle /\ request[s] # Idle => r = s

\* A request that has loaded the file but not opened it.
FileIsCopied ==
    \A r \in Requests : request[r].stage = "open" =>
        /\ request[r].copy = Insert(Load, request[r].def)
        /\ ~overwrites => Load \cap SameKey(request[r].def) = {}

\* A request that has truncated the file carries what was in it.
AnswersAreCarried ==
    \A r \in Requests : request[r].stage = "write" =>
        /\ file = NoFile
        /\ Insert(answered, request[r].def) \subseteq request[r].copy
        /\ ~overwrites => answered \cap SameKey(request[r].def) = {}

RegInv ==
    /\ TypeOK
    /\ ~disturbed => /\ OneAtATime
                     /\ FileIsCopied
                     /\ AnswersAreCarried
                     /\ LossHasACause
                     /\ ConceptAnswersAgree

-----------------------------------------------------------------------------

\* A set of definitions with no two of one key.
OnePerKey(reg) == reg \subseteq Defs /\ \A d \in reg : reg \cap SameKey(d) = {d}

\* TypeOK, with its last conjunct taken apart.
LEMMA TypeParts ==
    TypeOK <=>
        /\ overwrites \in BOOLEAN /\ disagreed \in BOOLEAN /\ disturbed \in BOOLEAN
        /\ file \in [readable : BOOLEAN, defs : SUBSET Defs, bytes : Nat]
        /\ request \in [Requests -> {Idle} \cup Adding]
        /\ \A d \in file.defs : file.defs \cap SameKey(d) = {d}
        /\ \A d \in answered : answered \cap SameKey(d) = {d}
        /\ \A r \in Requests : request[r] # Idle =>
            \A d \in request[r].copy : request[r].copy \cap SameKey(d) = {d}
  BY DEF TypeOK

\* Inserting keeps one definition per key.
LEMMA InsertOnePerKey ==
    ASSUME NEW reg, OnePerKey(reg), NEW d \in Defs
    PROVE  OnePerKey(Insert(reg, d)) /\ d \in Insert(reg, d)
  BY DEF OnePerKey, Insert, SameKey

\* What a load finds has one definition per key.
LEMMA LoadOnePerKey == ASSUME TypeOK PROVE OnePerKey(Load)
  BY TypeParts DEF OnePerKey, Load

LEMMA RequestTypes ==
    ASSUME TypeOK, NEW r \in Requests, request[r].stage \in {"open", "write"}
    PROVE  /\ request[r] # Idle
           /\ request[r] \in Adding
           /\ OnePerKey(request[r].copy)
<1>1. request[r] # Idle
  BY DEF Idle
<1>2. request[r] \in Adding
  BY <1>1, TypeParts
<1>. QED
  BY <1>1, <1>2, TypeParts DEF OnePerKey, Adding

LEMMA AnsweredOnePerKey == ASSUME TypeOK PROVE OnePerKey(answered)
  BY TypeParts DEF OnePerKey, SameKey

-----------------------------------------------------------------------------
(* Types. *)

LEMMA InitTypes == Init => TypeOK
<1>. SUFFICES ASSUME Init PROVE TypeOK
  OBVIOUS
<1>1. /\ overwrites \in BOOLEAN /\ disagreed \in BOOLEAN /\ disturbed \in BOOLEAN
      /\ file.defs = {} /\ answered = {}
      /\ \A r \in Requests : request[r] = Idle
  BY DEF Init, NoFile
<1>2. file \in [readable : BOOLEAN, defs : SUBSET Defs, bytes : Nat]
  BY DEF Init, NoFile
<1>3. request \in [Requests -> {Idle} \cup Adding]
  BY DEF Init
<1>. QED
  BY <1>1, <1>2, <1>3, TypeParts

\* An answer keeps the types of what it changes.
LEMMA AnswerTypes ==
    ASSUME TypeOK, NEW r \in Requests, NEW d \in Defs, Answer(r, d), UNCHANGED overwrites
    PROVE  /\ disagreed' \in BOOLEAN
           /\ request' = [request EXCEPT ![r] = Idle]
           /\ request' \in [Requests -> {Idle} \cup Adding]
           /\ \A e \in answered' : answered' \cap SameKey(e) = {e}
<1>1. request' = [request EXCEPT ![r] = Idle]
  BY DEF Answer
<1>2. answered' = Insert(answered, d)
  BY DEF Answer
<1>3. disagreed' \in BOOLEAN
  BY TypeParts DEF Answer
<1>4. OnePerKey(answered')
  BY <1>2, AnsweredOnePerKey, InsertOnePerKey
<1>5. request' \in [Requests -> {Idle} \cup Adding]
  BY <1>1, TypeParts
<1>. QED
  BY <1>1, <1>3, <1>4, <1>5 DEF OnePerKey

LEMMA AddLoadTypes ==
    ASSUME TypeOK, NEW r \in Requests, NEW d \in Defs, AddLoad(r, d)
    PROVE  TypeOK'
<1>. DEFINE new == [stage |-> "open", def |-> d, copy |-> Insert(Load, d)]
<1>1. /\ request' = [request EXCEPT ![r] = new]
      /\ UNCHANGED <<overwrites, file, answered, disagreed>>
  BY DEF AddLoad
<1>2. disturbed' \in BOOLEAN
  BY TypeParts DEF AddLoad
<1>3. OnePerKey(Insert(Load, d))
  BY LoadOnePerKey, InsertOnePerKey
<1>4. new \in Adding
  BY <1>3 DEF OnePerKey, Adding
<1>5. request' \in [Requests -> {Idle} \cup Adding]
  BY <1>1, <1>4, TypeParts
<1>6. \A s \in Requests : request[s]' # Idle =>
          \A e \in request[s].copy' : request[s].copy' \cap SameKey(e) = {e}
  <2>. SUFFICES ASSUME NEW s \in Requests, request'[s] # Idle
                PROVE  \A e \in request'[s].copy : request'[s].copy \cap SameKey(e) = {e}
    OBVIOUS
  <2>1. CASE s = r
    BY <2>1, <1>1, <1>3, TypeParts DEF OnePerKey
  <2>2. CASE s # r
    BY <2>2, <1>1, TypeParts
  <2>. QED
    BY <2>1, <2>2
<1>. QED
  BY <1>1, <1>2, <1>5, <1>6, TypeParts DEF TypeOK, SameKey

\* The requests after an answer: r is done, the others are where they were.
LEMMA OthersStay ==
    ASSUME TypeOK, NEW r \in Requests, request' = [request EXCEPT ![r] = Idle]
    PROVE  \A s \in Requests : request'[s] # Idle => s # r /\ request'[s] = request[s]
  BY TypeParts

LEMMA AddKnownTypes ==
    ASSUME TypeOK, NEW r \in Requests, NEW d \in Defs, AddKnown(r, d)
    PROVE  TypeOK'
<1>1. PICK stored \in Load \cap SameKey(d) : Answer(r, stored)
  BY DEF AddKnown
<1>2. stored \in Defs /\ UNCHANGED <<overwrites, file, disturbed>>
  BY DEF AddKnown, SameKey
<1>. QED
  BY <1>1, <1>2, AnswerTypes, OthersStay, TypeParts DEF TypeOK, SameKey

LEMMA SaveOpenTypes ==
    ASSUME TypeOK, NEW r \in Requests, SaveOpen(r)
    PROVE  TypeOK'
<1>1. /\ request[r].stage = "open"
      /\ request' = [request EXCEPT ![r].stage = "write"]
      /\ file' = NoFile
      /\ UNCHANGED <<overwrites, answered, disagreed, disturbed>>
  BY DEF SaveOpen
<1>2. /\ request[r] # Idle /\ request[r] \in Adding
      /\ request'[r] = [request[r] EXCEPT !.stage = "write"]
  BY <1>1, RequestTypes, TypeParts
<1>3. request'[r] \in Adding /\ request'[r].copy = request[r].copy
  BY <1>2 DEF Adding
<1>4. request' \in [Requests -> {Idle} \cup Adding]
  BY <1>1, <1>2, <1>3, TypeParts
<1>5. \A s \in Requests \ {r} : request'[s] = request[s]
  BY <1>1, TypeParts
<1>6. file' \in [readable : BOOLEAN, defs : SUBSET Defs, bytes : Nat] /\ file'.defs = {}
  BY <1>1 DEF NoFile
<1>. QED
  BY <1>1, <1>2, <1>3, <1>4, <1>5, <1>6, TypeParts DEF TypeOK, SameKey

LEMMA SaveWriteTypes ==
    ASSUME TypeOK, NEW r \in Requests, SaveWrite(r)
    PROVE  TypeOK'
<1>1. /\ request[r].stage = "write"
      /\ file' = WriteOver(request[r].copy)
      /\ Answer(r, request[r].def)
      /\ UNCHANGED <<overwrites, disturbed>>
  BY DEF SaveWrite
<1>2. OnePerKey(request[r].copy) /\ request[r].def \in Defs
  BY <1>1, RequestTypes DEF Adding
<1>3. /\ file' \in [readable : BOOLEAN, defs : SUBSET Defs, bytes : Nat]
      /\ file'.defs \in {{}, request[r].copy}
  BY <1>1, <1>2, TypeParts, LengthAssumption DEF WriteOver, TextLength, OnePerKey
<1>4. \A d \in file'.defs : file'.defs \cap SameKey(d) = {d}
  BY <1>2, <1>3 DEF OnePerKey
<1>. QED
  BY <1>1, <1>2, <1>3, <1>4, AnswerTypes, OthersStay, TypeParts DEF TypeOK, SameKey

LEMMA SaveFailsTypes ==
    ASSUME TypeOK, NEW r \in Requests, SaveFails(r)
    PROVE  TypeOK'
<1>1. /\ Answer(r, request[r].def)
      /\ disturbed'
      /\ UNCHANGED <<overwrites, file>>
  BY DEF SaveFails
<1>2. disturbed' \in BOOLEAN
  BY DEF SaveFails
<1>3. request[r].def \in Defs
  BY FaultsAssumption, RequestTypes DEF SaveFails, Adding
<1>. QED
  BY <1>1, <1>2, <1>3, AnswerTypes, OthersStay, TypeParts DEF TypeOK, SameKey

LEMMA CrashTypes == ASSUME TypeOK, Crash PROVE TypeOK'
<1>1. /\ request' = [r \in Requests |-> Idle]
      /\ UNCHANGED <<overwrites, file, answered, disagreed>>
  BY DEF Crash
<1>2. disturbed' \in BOOLEAN
  BY TypeParts DEF Crash
<1>. QED
  BY <1>1, <1>2, TypeParts DEF TypeOK, SameKey

-----------------------------------------------------------------------------
(* Nothing is lost while nothing disturbs. *)

Undisturbed == OneAtATime /\ FileIsCopied /\ AnswersAreCarried
               /\ LossHasACause /\ ConceptAnswersAgree

LEMMA AddLoadKeeps ==
    ASSUME RegInv, NEW r \in Requests, NEW d \in Defs, AddLoad(r, d), ~disturbed'
    PROVE  Undisturbed'
<1>. DEFINE new == [stage |-> "open", def |-> d, copy |-> Insert(Load, d)]
<1>1. /\ ~disturbed /\ \A s \in Requests : request[s] = Idle
      /\ request' = [request EXCEPT ![r] = new]
      /\ UNCHANGED <<overwrites, file, answered, disagreed>>
      /\ ~KeepsStored(d)
  BY DEF AddLoad
<1>2. request'[r] = new /\ \A s \in Requests \ {r} : request'[s] = Idle
  BY <1>1, TypeParts DEF RegInv
<1>3. Load' = Load /\ (~overwrites => Load \cap SameKey(d) = {})
  BY <1>1 DEF Load, KeepsStored
<1>4. OneAtATime'
  BY <1>2 DEF OneAtATime, Idle
<1>5. FileIsCopied'
  BY <1>1, <1>2, <1>3 DEF FileIsCopied, Idle, Insert, SameKey
<1>6. AnswersAreCarried'
  BY <1>2 DEF AnswersAreCarried, Idle
<1>7. LossHasACause'
  <2>1. ~Saving
    BY <1>1 DEF Saving, Idle
  <2>. QED
    BY <1>1, <1>3, <2>1 DEF RegInv, LossHasACause
<1>8. ConceptAnswersAgree'
  BY <1>1 DEF RegInv, ConceptAnswersAgree
<1>. QED
  BY <1>4, <1>5, <1>6, <1>7, <1>8 DEF Undisturbed

LEMMA AddKnownKeeps ==
    ASSUME RegInv, NEW r \in Requests, NEW d \in Defs, AddKnown(r, d), ~disturbed'
    PROVE  Undisturbed'
<1>1. PICK stored \in Load \cap SameKey(d) : Answer(r, stored)
  BY DEF AddKnown
<1>2. /\ ~disturbed /\ TypeOK
      /\ request[r] = Idle /\ ~overwrites
      /\ UNCHANGED <<overwrites, file, disturbed>> /\ Load' = Load
  BY DEF AddKnown, KeepsStored, Load, RegInv
<1>3. request' = request /\ answered' = Insert(answered, stored) /\ stored \in Defs
  BY <1>1, <1>2, TypeParts DEF Answer, SameKey
<1>4. ~Saving /\ answered \subseteq Load
  BY <1>1, <1>2 DEF RegInv, AnswersAreCarried, LossHasACause, Saving, Load, NoFile
<1>5. OneAtATime'
  BY <1>2, <1>3 DEF RegInv, OneAtATime
<1>6. FileIsCopied'
  BY <1>2, <1>3 DEF RegInv, FileIsCopied, Insert, SameKey
<1>7. AnswersAreCarried'
  BY <1>3, <1>4 DEF AnswersAreCarried, Saving
<1>8. LossHasACause'
  BY <1>1, <1>2, <1>3, <1>4 DEF LossHasACause, Insert
<1>9. ConceptAnswersAgree'
  <2>1. Load \cap SameKey(stored) = {stored}
    BY <1>1, <1>2, LoadOnePerKey DEF OnePerKey
  <2>2. answered \cap SameKey(stored) \in {{}, {stored}}
    BY <2>1, <1>4
  <2>. QED
    BY <1>1, <1>2, <2>2 DEF Answer, RegInv, ConceptAnswersAgree
<1>. QED
  BY <1>5, <1>6, <1>7, <1>8, <1>9 DEF Undisturbed

LEMMA SaveOpenKeeps ==
    ASSUME RegInv, NEW r \in Requests, SaveOpen(r), ~disturbed'
    PROVE  Undisturbed'
<1>1. /\ request[r].stage = "open" /\ file' = NoFile
      /\ request' = [request EXCEPT ![r].stage = "write"]
      /\ UNCHANGED <<overwrites, answered, disagreed, disturbed>>
      /\ ~disturbed /\ TypeOK
  BY DEF SaveOpen, RegInv
<1>2. /\ request[r] # Idle /\ request[r] \in Adding
      /\ request'[r] = [request[r] EXCEPT !.stage = "write"]
      /\ \A s \in Requests \ {r} : request'[s] = Idle
  BY <1>1, RequestTypes, TypeParts DEF RegInv, OneAtATime
<1>3. /\ request'[r].stage = "write"
      /\ request'[r].def = request[r].def
      /\ request'[r].copy = request[r].copy
  BY <1>2 DEF Adding
<1>4. ~Saving
  BY <1>1, <1>2, RequestTypes DEF Saving, RegInv, OneAtATime
<1>5. answered \subseteq Load
  BY <1>1, <1>4 DEF RegInv, LossHasACause
<1>6. OneAtATime' /\ FileIsCopied'
  <2>1. ASSUME NEW s \in Requests, request'[s] # Idle
        PROVE  s = r
    BY <1>2, <2>1
  <2>2. OneAtATime'
    BY <2>1 DEF OneAtATime
  <2>3. ASSUME NEW s \in Requests
        PROVE  request'[s].stage # "open"
    <3>1. CASE s = r
      BY <1>3, <3>1
    <3>2. CASE s # r
      BY <1>2, <3>2 DEF Idle
    <3>. QED
      BY <3>1, <3>2
  <2>. QED
    BY <2>2, <2>3 DEF FileIsCopied
<1>7. AnswersAreCarried'
  <2>1. /\ Insert(answered, request[r].def) \subseteq request[r].copy
        /\ ~overwrites => answered \cap SameKey(request[r].def) = {}
    BY <1>1, <1>5 DEF RegInv, FileIsCopied, Insert
  <2>. QED
    BY <1>1, <1>2, <1>3, <2>1 DEF AnswersAreCarried, Idle, Insert, SameKey
<1>8. Saving' /\ LossHasACause'
  BY <1>3 DEF Saving, LossHasACause
<1>9. ConceptAnswersAgree'
  BY <1>1 DEF RegInv, ConceptAnswersAgree
<1>. QED
  BY <1>6, <1>7, <1>8, <1>9 DEF Undisturbed

LEMMA SaveWriteKeeps ==
    ASSUME RegInv, NEW r \in Requests, SaveWrite(r), ~disturbed'
    PROVE  Undisturbed'
<1>. DEFINE d == request[r].def
<1>1. /\ request[r].stage = "write" /\ file' = WriteOver(request[r].copy)
      /\ Answer(r, d)
      /\ UNCHANGED <<overwrites, disturbed>>
      /\ ~disturbed /\ TypeOK
  BY DEF SaveWrite, RegInv
<1>2. request[r] # Idle /\ d \in Defs /\ request[r].copy \subseteq Defs
  BY <1>1, RequestTypes DEF OnePerKey, Adding
<1>3. \A s \in Requests : request'[s] = Idle
  BY <1>1, <1>2, TypeParts DEF Answer, RegInv, OneAtATime
<1>4. /\ file = NoFile
      /\ Insert(answered, d) \subseteq request[r].copy
      /\ ~overwrites => answered \cap SameKey(d) = {}
  BY <1>1 DEF RegInv, AnswersAreCarried
<1>5. Load' = request[r].copy
  BY <1>1, <1>2, <1>4, LengthAssumption DEF WriteOver, TextLength, NoFile, Load
<1>6. OneAtATime' /\ FileIsCopied' /\ AnswersAreCarried'
  BY <1>3 DEF OneAtATime, FileIsCopied, AnswersAreCarried, Idle
<1>7. LossHasACause'
  BY <1>1, <1>4, <1>5 DEF Answer, LossHasACause
<1>8. ConceptAnswersAgree'
  BY <1>1, <1>4 DEF Answer, RegInv, ConceptAnswersAgree
<1>. QED
  BY <1>6, <1>7, <1>8 DEF Undisturbed

LEMMA CrashKeeps == ASSUME RegInv, Crash, ~disturbed' PROVE Undisturbed'
<1>1. /\ \A r \in Requests : request'[r] = Idle
      /\ UNCHANGED <<overwrites, file, answered, disagreed>> /\ Load' = Load
      /\ ~disturbed /\ ~Saving
  BY TypeParts DEF Crash, Saving, Load, RegInv
<1>. QED
  BY <1>1 DEF RegInv, Undisturbed, OneAtATime, FileIsCopied, AnswersAreCarried,
              LossHasACause, ConceptAnswersAgree, Idle

-----------------------------------------------------------------------------

LEMMA InitRegistry == Init => RegInv
<1>. SUFFICES ASSUME Init PROVE RegInv
  OBVIOUS
<1>1. /\ \A r \in Requests : request[r] = Idle
      /\ answered = {} /\ disagreed = FALSE
  BY DEF Init
<1>. QED
  BY <1>1, InitTypes DEF RegInv, OneAtATime, FileIsCopied, AnswersAreCarried,
                         LossHasACause, ConceptAnswersAgree, Idle

LEMMA NextRegistry == RegInv /\ [Next]_vars => RegInv'
<1>. SUFFICES ASSUME RegInv, [Next]_vars PROVE TypeOK' /\ (~disturbed' => Undisturbed')
  BY DEF RegInv, Undisturbed
<1>. USE DEF RegInv
<1>1. ASSUME NEW r \in Requests, NEW d \in Defs, AddLoad(r, d)
      PROVE  TypeOK' /\ (~disturbed' => Undisturbed')
  BY <1>1, AddLoadTypes, AddLoadKeeps
<1>2. ASSUME NEW r \in Requests, NEW d \in Defs, AddKnown(r, d)
      PROVE  TypeOK' /\ (~disturbed' => Undisturbed')
  BY <1>2, AddKnownTypes, AddKnownKeeps
<1>3. ASSUME NEW r \in Requests, SaveOpen(r)
      PROVE  TypeOK' /\ (~disturbed' => Undisturbed')
  BY <1>3, SaveOpenTypes, SaveOpenKeeps
<1>4. ASSUME NEW r \in Requests, SaveWrite(r)
      PROVE  TypeOK' /\ (~disturbed' => Undisturbed')
  BY <1>4, SaveWriteTypes, SaveWriteKeeps
<1>5. ASSUME NEW r \in Requests, SaveFails(r)
      PROVE  TypeOK' /\ (~disturbed' => Undisturbed')
  BY <1>5, SaveFailsTypes DEF SaveFails
<1>6. CASE Crash
  BY <1>6, CrashTypes, CrashKeeps
<1>7. CASE UNCHANGED vars
  <2>1. /\ UNCHANGED <<overwrites, file, request, answered, disagreed, disturbed>>
        /\ Load' = Load /\ Saving' = Saving
    BY <1>7 DEF vars, Load, Saving
  <2>2. TypeOK'
    BY <2>1 DEF TypeOK, SameKey
  <2>3. ~disturbed' => Undisturbed'
    BY <2>1 DEF Undisturbed, OneAtATime, FileIsCopied, AnswersAreCarried,
                LossHasACause, ConceptAnswersAgree, Insert, SameKey
  <2>. QED
    BY <2>2, <2>3
<1>. QED
  BY <1>1, <1>2, <1>3, <1>4, <1>5, <1>6, <1>7 DEF Next

LEMMA RegistryInvariant == Spec => []RegInv
  BY InitRegistry, NextRegistry, PTL DEF Spec

-----------------------------------------------------------------------------
(* The theorems. *)

\* Every variable keeps its type, and no file, copy or set of answers ever holds
\* two definitions of one key, however requests, failed saves and crashes mix.
THEOREM RegistryTypes == Spec => []TypeOK
<1>1. RegInv => TypeOK
  BY DEF RegInv
<1>. QED
  BY <1>1, RegistryInvariant, PTL

\* An answered definition can be lost only when two requests to add overlapped,
\* or a save failed or died half way.
THEOREM LossesHaveCauses == Spec => []LossHasACause
<1>1. RegInv => LossHasACause
  BY DEF RegInv, LossHasACause
<1>. QED
  BY <1>1, RegistryInvariant, PTL

\* Under the same condition a concept is answered with one vector for ever.
THEOREM ConceptsKeepTheirVectors == Spec => []ConceptAnswersAgree
<1>1. RegInv => ConceptAnswersAgree
  BY DEF RegInv, ConceptAnswersAgree
<1>. QED
  BY <1>1, RegistryInvariant, PTL
=============================================================================
