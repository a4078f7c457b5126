----------------------------- MODULE MCFederation -----------------------------
(***************************************************************************)
(* Instances of the gateway and the relay for TLC.                         *)
(***************************************************************************)
EXTENDS Federation

CONSTANTS h1, h2, k1, k2

(* The peer rotated its key: 1 is good until 2, and 2 is the new one.      *)
PeerPins == {[p |-> 1, key |-> 1, state |-> "retired", until |-> Never, dated |-> TRUE],
             [p |-> 1, key |-> 2, state |-> "active", until |-> 2, dated |-> TRUE]}

Post(ts, nonce, key) ==
    [via |-> 7, e |-> [from |-> 1, to |-> "here", rcpt |-> 7, ts |-> ts,
                       nonce |-> nonce, key |-> key, flaw |-> "none"]]
Flawed(post, flaw) == [post EXCEPT !.e.flaw = flaw]

Local(id, dom, name, to, owned) ==
    [id |-> id, dom |-> dom, name |-> name, to |-> to, owned |-> owned]

Backs == [backs |-> {<<"there", 1>>, <<"there", 2>>}, peers |-> {"there"}]

Quiet == [args |-> Backs, egress |-> {}, outbox |-> <<>>, direct |-> {}, relayed |-> {},
          copies |-> 1, repeats |-> 0, good |-> TRUE, polls |-> 0, clock |-> 0, kills |-> 0]

(* Local agents send: to a peer, with a sender that is itself backed, with *)
(* a sender or a recipient that does not parse.                            *)
Outbound ==
    [Quiet EXCEPT
        !.kills = 1, !.egress = {1, 2},
        !.outbox = <<Local(1, "here", 7, <<"there", 1>>, FALSE),
                     Local(2, "here", 1, <<"there", 1>>, FALSE),
                     Local(3, Garbled, 7, <<"there", 1>>, FALSE),
                     Local(4, "here", 7, Garbled, FALSE)>>]

(* A post comes in while the egress tasks go round.                        *)
Mixed == [Quiet EXCEPT !.egress = {1, 2}, !.direct = {Post(0, 1, 2)},
                       !.outbox = <<Local(1, "here", 7, <<"there", 3>>, FALSE)>>]

(* Posts that arrive again, at either end of their window.                 *)
Direct ==
    [Quiet EXCEPT
        !.copies = 2, !.clock = 3,
        !.direct = {Post(1, 1, 2), Flawed(Post(2, 2, 2), "signature")}]

(* A post with each flaw.                                                  *)
Malformed ==
    [Quiet EXCEPT !.direct = {Flawed(Post(0, 1, 2), f) : f \in {"class", "body", "fields", "shape"}}]

(* Posts to the relay, fetch requests that arrive again, and time.         *)
Relayed ==
    [Quiet EXCEPT
        !.repeats = 1, !.polls = 2, !.clock = 3,
        !.relayed = {Post(1, 1, 2)}]

(* More posts than a queue holds, one with a recipient that does not       *)
(* parse, and processes that die.                                          *)
Crowded ==
    [Quiet EXCEPT
        !.kills = 1, !.polls = 2, !.copies = 2,
        !.relayed = {Post(0, 1, 2), [Post(0, 2, 2) EXCEPT !.via = Garbled]}]

AllPlans == {Outbound, Mixed, Direct, Malformed, Relayed, Crowded,
             [Crowded EXCEPT !.copies = 1, !.good = FALSE]}
=============================================================================
