------------------------------- MODULE Registry -------------------------------
(***************************************************************************)
(* A definition registry (rust/src/achievement_registry.rs, and its twins  *)
(* entitlement_registry.rs and concept_registry.rs) as the handlers of     *)
(* rust/src/api.rs and the concept tool use it: each loads the file,       *)
(* changes its copy and saves it, with no lock, so requests interleave     *)
(* between load, open and write.  The process may die at any moment.       *)
(*                                                                         *)
(* A save opens the file with truncation and then writes it.  Two saves    *)
(* that overlap both write from the start of the file: a shorter text over *)
(* a longer one leaves the longer one's tail, which is not JSON.           *)
(***************************************************************************)
EXTENDS Naturals, FiniteSets

CONSTANTS
    Requests,   \* the requests that may run at one time
    Defs,       \* definitions a caller may register
    Key,        \* Key[d]: what identifies d; a caller may redefine a key
    Length,     \* Length[reg]: the length of the text of registry reg
    Faults      \* subset of {"open", "write"}: how a save may fail

ASSUME FaultsAssumption == Faults \subseteq {"open", "write"}
ASSUME KeyAssumption == DOMAIN Key = Defs
ASSUME LengthAssumption == Length \in [SUBSET Defs -> Nat]

VARIABLES
    overwrites,  \* TRUE for achievements and entitlements, FALSE for concepts
    file,        \* the registry's file
    request,     \* request[r]: how far r has come
    answered,    \* definitions a request answered Ok with, the last per key
    disagreed,   \* a key was answered with two definitions, though it never
                 \* changes (concepts)
    disturbed    \* two requests to add overlapped, or a save was cut short

vars == <<overwrites, file, request, answered, disagreed, disturbed>>

Idle == [stage |-> "idle"]

\* A file that is missing or empty, or holds something other than JSON, is
\* loaded as a registry without definitions.
NoFile == [readable |-> FALSE, defs |-> {}, bytes |-> 0]

Init ==
    /\ overwrites \in BOOLEAN
    /\ file = NoFile
    /\ request = [r \in Requests |-> Idle]
    /\ answered = {}
    /\ disagreed = FALSE
    /\ disturbed = FALSE

SameKey(d) == {e \in Defs : Key[e] = Key[d]}

\* load.
Load == IF file.readable THEN file.defs ELSE {}

\* Fault for registry_requests: the definition is stored beside the old one.
InsertBeside(reg, d) == reg \cup {d}

\* insert.
Insert(reg, d) == (reg \ SameKey(d)) \cup {d}

\* to_string_pretty; only how long the text is matters here.
TextLength(reg) == Length[reg]

\* write_all at the start of a file that is no longer empty if another save
\* wrote meanwhile.
WriteOver(reg) ==
    IF file.bytes <= TextLength(reg)
    THEN [readable |-> TRUE, defs |-> reg, bytes |-> TextLength(reg)]
    ELSE [readable |-> FALSE, defs |-> {}, bytes |-> file.bytes]

\* The answer Ok with d, by a request that is then done.
Answer(r, d) ==
    /\ request' = [request EXCEPT ![r] = Idle]
    /\ answered' = Insert(answered, d)
    /\ disagreed' = (disagreed \/ (~overwrites
                                    /\ answered \cap SameKey(d) \notin {{}, {d}}))

\* Fault for registry_requests: an existing concept is taken for a new one.
KeepsStoredNever(d) == FALSE

\* Whether the load finds the key taken by a concept, which is then kept.
KeepsStored(d) == ~overwrites /\ Load \cap SameKey(d) # {}

\* A request to add d has loaded the registry, found no concept to answer with,
\* and inserted d into its copy.
AddLoad(r, d) ==
    /\ request[r] = Idle
    /\ ~KeepsStored(d)
    /\ request' = [request EXCEPT ![r] =
                     [stage |-> "open", def |-> d, copy |-> Insert(Load, d)]]
    /\ disturbed' = (disturbed \/ \E s \in Requests : request[s] # Idle)
    /\ UNCHANGED <<overwrites, file, answered, disagreed>>

\* add_concept of a key that is taken: the stored vector is the answer.
AddKnown(r, d) ==
    /\ request[r] = Idle
    /\ KeepsStored(d)
    /\ \E stored \in Load \cap SameKey(d) : Answer(r, stored)
    /\ UNCHANGED <<overwrites, file, disturbed>>

\* Fault for registry_requests: the open does not truncate.
SaveOpenKeeping(r) ==
    /\ request[r].stage = "open"
    /\ request' = [request EXCEPT ![r].stage = "write"]
    /\ UNCHANGED <<overwrites, file, answered, disagreed, disturbed>>

\* save, up to the open with truncation.
SaveOpen(r) ==
    /\ request[r].stage = "open"
    /\ file' = NoFile
    /\ request' = [request EXCEPT ![r].stage = "write"]
    /\ UNCHANGED <<overwrites, answered, disagreed, disturbed>>

\* The rest of save, and the answer.
SaveWrite(r) ==
    /\ request[r].stage = "write"
    /\ file' = WriteOver(request[r].copy)
    /\ Answer(r, request[r].def)
    /\ UNCHANGED <<overwrites, disturbed>>

\* save fails, before or after the truncation; its error is dropped and the
\* request answered Ok all the same.
SaveFails(r) ==
    /\ request[r].stage \in Faults
    /\ Answer(r, request[r].def)
    /\ disturbed' = TRUE
    /\ UNCHANGED <<overwrites, file>>

\* The process dies, and with it every request.
Crash ==
    /\ request' = [r \in Requests |-> Idle]
    /\ disturbed' = (disturbed \/ \E r \in Requests : request[r].stage = "write")
    /\ UNCHANGED <<overwrites, file, answered, disagreed>>

Next ==
    \/ \E r \in Requests :
        \/ \E d \in Defs : AddLoad(r, d) \/ AddKnown(r, d)
        \/ SaveOpen(r)
        \/ SaveWrite(r)
        \/ SaveFails(r)
    \/ Crash

Spec == Init /\ [][Next]_vars

-----------------------------------------------------------------------------

Adding == [stage : {"open", "write"}, def : Defs, copy : SUBSET Defs]

\* Every variable keeps its type, and no file, copy or set of answers holds
\* two definitions of one key.
TypeOK ==
    /\ {overwrites, disagreed, disturbed} \subseteq BOOLEAN
    /\ file \in [readable : BOOLEAN, defs : SUBSET Defs, bytes : Nat]
    /\ request \in [Requests -> {Idle} \cup Adding]
    /\ \A reg \in {file.defs, answered}
                     \cup {request[r].copy : r \in {s \in Requests : request[s] # Idle}} :
            \A d \in reg : reg \cap SameKey(d) = {d}

Saving == \E r \in Requests : request[r].stage = "write"

\* What a request was told is registered stays registered, as long as no two
\* requests to add overlap and no save fails or dies half way: so only these
\* can lose a definition, and each of them can.
LossHasACause ==
    ~disturbed /\ ~Saving => answered \subseteq Load

\* Under the same condition POST /concepts answers one vector per concept,
\* whatever dimensions the callers ask for, also across crashes.
ConceptAnswersAgree == ~disturbed => ~disagreed
=============================================================================
