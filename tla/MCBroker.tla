------------------------------- MODULE MCBroker -------------------------------
(***************************************************************************)
(* Instances of the broker for TLC.                                        *)
(***************************************************************************)
EXTENDS BrokerProperties, TLC

CONSTANTS c1, c2, c3, n1, n2, t1, t2

(* Mailbox files that were there before this broker: empty, or with a line *)
(* that does not decode.                                                   *)
NoLegacy == <<>>
Garbled  == <<[id |-> 0, from |-> n1, origin |-> "Unknown", task |-> t1,
               ok |-> FALSE]>>

(* Connections are alike, and so are names where no file names one.        *)
SymConn      == Permutations({c1, c2, c3})
SymConn2     == Permutations({c1, c2})
SymConn2Name == {p @@ q : p \in SymConn2, q \in Permutations({n1, n2})}

(* A bound: after a crash only the channels are written to.                *)
OneSubject == nfault = 0 \/ \A n \in Name : file[n] = <<>>
=============================================================================
