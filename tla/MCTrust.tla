------------------------------- MODULE MCTrust -------------------------------
(***************************************************************************)
(* Instances of the trust bootstrap for TLC.                               *)
(***************************************************************************)
EXTENDS Trust, TLC

CONSTANTS o1, o2, h1, h2

(* Two redeemers of one remote principal that hold different keys, and one *)
(* that claims a principal of the inviter's own domain.                    *)
Friends  == {[p |-> 1, key |-> 1], [p |-> 1, key |-> 2]}
Strangers == Friends \cup {[p |-> 3, key |-> 1]}

(* No keyring yet, a pinned peer, a peer whose pin expires at 1.           *)
Files == {Absent, {<<1, 1>>}, {<<1, 1, "active", 1>>}}

(* Two commands that save the keyring in place would mix their bytes: only *)
(* one operator runs `famp peer'.                                          *)
PeerVerbs == {"import", "rotate", "retire", "revoke", "import-revocation"}
Plan(run1, run2, n) == [verbs |-> (o1 :> run1) @@ (o2 :> run2), requests |-> n]
AllPlans ==
    {Plan(PeerVerbs, {}, 0),
     Plan({"export", "import"}, {"export", "revoke-all"}, 0),
     Plan({"invite", "status"}, {"status", "revoke-id"}, 2),
     Plan({"rotate", "revoke"}, {"invite", "status"}, 1)}

=============================================================================
