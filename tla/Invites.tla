------------------------------- MODULE Invites -------------------------------
(***************************************************************************)
(* The invite store of `famp pair': the records of pairing.json and the    *)
(* pure operations on them.  A code is a number, equal codes have equal    *)
(* digests, and the id of an invite is its place in the store.             *)
(***************************************************************************)
EXTENDS Integers, Sequences

CONSTANTS
    MaxAttempts,    \* MAX_ATTEMPTS
    Lifetime,       \* how long an invite is valid
    Nobody          \* the redeemer of an invite that is not redeemed

ASSUME InvitesAssumption == MaxAttempts \in Nat /\ Lifetime \in Nat

InviteState == {"Pending", "Redeemed", "Pinned", "Revoked"}

(* The record that `famp pair invite' pushes.                              *)
NewInvite(code, now) ==
    [code |-> code, expires |-> now + Lifetime, attempts |-> 0,
     state |-> "Pending", by |-> Nobody]

is_expired(r, now) == now >= r.expires

Pending(s) == {i \in DOMAIN s : s[i].state = "Pending"}
Live(s)    == {i \in DOMAIN s : s[i].state # "Revoked"}
Open(s, now) == {i \in Pending(s) : ~is_expired(s[i], now)}

(* Mutant: the budget is not looked at for the right code.                 *)
M_decide(s, code, now) ==
    LET matched == {i \in Live(s) : s[i].code = code}
        i       == CHOOSE m \in matched : \A n \in matched : n <= m
    IN  IF matched # {}
        THEN IF s[i].state # "Pending" THEN [verdict |-> "AlreadyRedeemed"]
             ELSE IF is_expired(s[i], now) THEN [verdict |-> "Expired"]
             ELSE [verdict |-> "Accept", id |-> i]
        ELSE IF Pending(s) = {} THEN [verdict |-> "NoPendingInvite"]
        ELSE IF Open(s, now) = {} THEN [verdict |-> "Expired"]
        ELSE [verdict |-> "WrongCode"]

(* What a presented code is worth.  A revoked record matches nothing, the  *)
(* last match counts, and a spent budget wins over the right code.         *)
decide(s, code, now) ==
    LET matched == {i \in Live(s) : s[i].code = code}
        i       == CHOOSE m \in matched : \A n \in matched : n <= m
    IN  IF matched # {}
        THEN IF s[i].state # "Pending" THEN [verdict |-> "AlreadyRedeemed"]
             ELSE IF is_expired(s[i], now) THEN [verdict |-> "Expired"]
             ELSE IF s[i].attempts >= MaxAttempts
                  THEN [verdict |-> "AttemptsExhausted"]
             ELSE [verdict |-> "Accept", id |-> i]
        ELSE IF Pending(s) = {} THEN [verdict |-> "NoPendingInvite"]
        ELSE IF Open(s, now) = {} THEN [verdict |-> "Expired"]
        ELSE IF \A j \in Open(s, now) : s[j].attempts >= MaxAttempts
             THEN [verdict |-> "AttemptsExhausted"]
        ELSE [verdict |-> "WrongCode"]

(* A wrong code costs every open invite an attempt.                        *)
burn_attempt(s, now) ==
    [i \in DOMAIN s |-> IF i \in Open(s, now)
                        THEN [s[i] EXCEPT !.attempts = @ + 1]
                        ELSE s[i]]

consume(s, i, by) == [s EXCEPT ![i].state = "Redeemed", ![i].by = by]

revoke_invite(s, i) == [s EXCEPT ![i].state = "Revoked"]

revoke_all_pending(s) ==
    [i \in DOMAIN s |-> IF i \in Pending(s)
                        THEN [s[i] EXCEPT !.state = "Revoked"]
                        ELSE s[i]]
=============================================================================
