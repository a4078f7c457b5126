------------------------------ MODULE LossyFifo ------------------------------
(***************************************************************************)
(* What the relay promises: a channel for each domain that may lose what   *)
(* was put into it, but takes nothing out twice or out of order.  Items    *)
(* are the numbers 1, 2, ... in the order in which they are put into the   *)
(* channels.                                                               *)
(***************************************************************************)
EXTENDS Naturals

CONSTANT Channels

VARIABLES
    waiting,    \* for each channel the items in it
    taken,      \* for each channel the items taken out so far
    count       \* number of the last item put

vars == <<waiting, taken, count>>

Init ==
    /\ waiting = [c \in Channels |-> {}]
    /\ taken = [c \in Channels |-> {}]
    /\ count = 0

(* The next item goes into channel c, which may lose older ones.           *)
Put(c) ==
    /\ count' = count + 1
    /\ \E kept \in SUBSET waiting[c] :
          waiting' = [waiting EXCEPT ![c] = kept \cup {count + 1}]
    /\ UNCHANGED taken

Lose ==
    /\ waiting' \in [Channels -> UNION {SUBSET waiting[c] : c \in Channels}]
    /\ \A c \in Channels : waiting'[c] \subseteq waiting[c]
    /\ UNCHANGED <<taken, count>>

(* Items come out that are younger than all that came out before, and      *)
(* older than all that stay.                                               *)
Take(c) ==
    \E items \in SUBSET waiting[c] :
        /\ \A x \in items, y \in taken[c] : y < x
        /\ \E kept \in SUBSET {w \in waiting[c] : \A x \in items : x < w} :
              waiting' = [waiting EXCEPT ![c] = kept]
        /\ taken' = [taken EXCEPT ![c] = @ \cup items]
        /\ UNCHANGED count

Next == Lose \/ \E c \in Channels : Put(c) \/ Take(c)

Spec == Init /\ [][Next]_vars
=============================================================================
