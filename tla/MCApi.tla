--------------------------------- MODULE MCApi ---------------------------------
(***************************************************************************)
(* Api for TLC.  One call submits a claim, one is any of the calls below,  *)
(* made up to twice, and one reviews the claim or merges a concept that    *)
(* does not fit.  Player p1 has a profile, p2 has none, each has a session.*)
(* Developer dev1's token has every scope; dev2's may award achievements   *)
(* and manage concepts.                                                    *)
(***************************************************************************)
EXTENDS Api, TLC

CONSTANTS q1, q2, q3

MCConfig ==
    [file |-> [format |-> "list",
               entries |-> <<[developer |-> "dev1", token |-> "t1", scopes |-> <<>>],
                             [developer |-> "dev2", token |-> "t2",
                              scopes |-> <<"award:achievements", "manage:concepts">>]>>],
     env |-> Unset]

MCSessions == [s1 |-> "p1", s2 |-> "p2"]

MCDefined == [achievements |-> {<<"dev1", "a">>}, entitlements |-> {<<"dev1", "e">>},
              concepts |-> {<<"dev1", "narrow">>, <<"dev1", "wide">>}]
MCConceptDim == (<<"dev1", "narrow">> :> 8) @@ (<<"dev1", "wide">> :> 16)
                @@ (<<"dev1", "new">> :> 8)

Submission == [kind |-> "submit_claim", bearer |-> "s1", player |-> "p1", claim |-> "c",
               developer |-> "dev1", name |-> "a"]
Review(bearer, action) ==
    [kind |-> "review_claim", bearer |-> bearer, player |-> "p1", claim |-> "c",
     action |-> action]
Own(kind, session, player) ==
    [kind |-> kind, bearer |-> session, player |-> player, dim |-> 16,
     developer |-> "dev1", name |-> "narrow"]
ByDeveloper(kind, token, player, name) ==
    [kind |-> kind, bearer |-> token, developer |-> "dev1", name |-> name,
     player |-> player]

OtherJobs ==
    {[Submission EXCEPT !.name = "b"],
      [Submission EXCEPT !.bearer = "s2", !.player = "p2"],
      Review("t1", "Promote"), Review("t1", "Reject"), Review("t2", "Promote"),
      Own("create_profile", "s2", "p2"), Own("get_profile", "s2", "p2"),
      Own("get_rewards", "s1", "p2"), Own("list_claims", "s1", "p1"),
      Own("set_dimensions", "s1", "p1"), Own("set_dimensions", "s2", "p2"),
      Own("add_concept_to_profile", "s1", "p1"),
      [Own("add_concept_to_profile", "s1", "p1") EXCEPT !.name = "wide"],
      ByDeveloper("award_achievement", "t1", "p1", "a"),
      ByDeveloper("award_achievement", "t2", "p1", "a"),
      ByDeveloper("award_entitlement", "t1", "p2", "e"),
      ByDeveloper("add_achievement", "t1", "p1", "b"),
      ByDeveloper("add_entitlement", "t2", "p1", "e"),
      ByDeveloper("add_concept", "t1", "p1", "new"),
      ByDeveloper("get_concept", "t1", "p1", "new")}

\* Those the other calls are paired with: they decide, award, or panic.
Opponents ==
    {Review("t1", "Promote"), Review("t1", "Reject"),
     [Own("add_concept_to_profile", "s1", "p1") EXCEPT !.name = "wide"]}

MCMaxAttempts == [r \in {q1, q2, q3} |-> IF r = q2 THEN 2 ELSE 1]

MCWorkloads ==
    {[r \in {q1, q2, q3} |->
        CASE r = q1 -> Submission [] r = q2 -> other [] r = q3 -> opponent] :
     other \in OtherJobs, opponent \in Opponents}
=============================================================================
