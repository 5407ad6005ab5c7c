---------------------------- MODULE ClaimLifecycle ----------------------------
(***************************************************************************)
(* What the service promises about achievement claims, in terms of what is *)
(* on disk only: a claim is decided once, and is worth one award, given    *)
(* after it was promoted.  ClaimRefinement shows that ProfileService keeps *)
(* the promise.                                                            *)
(***************************************************************************)
EXTENDS Naturals

CONSTANTS Players, Claims,
          Hashes           \* of blocks

VARIABLES status,  \* status[p][c]: what is durably known of the claim
          awards   \* <<p, c, h>>: block h durably awards p's claim c

clVars == <<status, awards>>

\* How a claim may move on: several of its changes may reach the disk at once,
\* but a decision is never revised.
Moves ==
    {<<"Absent", "Pending">>, <<"Absent", "Promoted">>, <<"Absent", "Rejected">>,
     <<"Pending", "Promoted">>, <<"Pending", "Rejected">>}

CLInit ==
    /\ status = [p \in Players |-> [c \in Claims |-> "Absent"]]
    /\ awards = {}

\* All the claims of one player are saved together.
Save(p) ==
    /\ \E new \in [Claims -> {"Absent", "Pending", "Promoted", "Rejected"}] :
        /\ \A c \in Claims : new[c] # status[p][c]
                                => <<status[p][c], new[c]>> \in Moves
        /\ status' = [status EXCEPT ![p] = new]
    /\ UNCHANGED awards

Award(p, c, h) ==
    /\ status[p][c] = "Promoted"
    /\ \A a \in awards : <<a[1], a[2]>> # <<p, c>>
    /\ awards' = awards \cup {<<p, c, h>>}
    /\ UNCHANGED status

CLNext ==
    \E p \in Players :
        \/ Save(p)
        \/ \E c \in Claims, h \in Hashes : Award(p, c, h)

CLSpec == CLInit /\ [][CLNext]_clVars
=============================================================================
