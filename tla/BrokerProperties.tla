--------------------------- MODULE BrokerProperties ---------------------------
(***************************************************************************)
(* What the broker of module Broker promises its clients.                  *)
(***************************************************************************)
EXTENDS Broker

(* Every variable has the type that the broker's state gives it.           *)
TypeOK ==
    /\ clients \subseteq Conn
    /\ st \in [Conn -> ClientState]
    /\ channels \in [Channel -> SUBSET Name]
    /\ roles \in [Channel -> SUBSET Name]
    /\ pending \in [Conn -> Filter \cup {None}]
    /\ due \subseteq Conn
    /\ alive \subseteq Conn
    /\ file \in [Mailbox -> Seq(Record)]
    /\ exists \subseteq Mailbox
    /\ cursor \in [Mailbox -> Nat]
    /\ job \in SendJob \cup TickJob \cup {None}
    /\ outs \in Seq(Out)
    /\ nmsg \in Nat
    /\ nfault \in Nat
    /\ delivered \in [Conn -> SUBSET Nat]
    /\ inboxed \in [Conn -> SUBSET Nat]
    /\ acked \subseteq Nat

-----------------------------------------------------------------------------
(* Sessions and identity *)

(* A name has one holder: register never lets two connections hold the     *)
(* same name, and a proxy connection never holds one, whatever the order   *)
(* of registrations, rebinds, deaths and reconnects.                       *)
OneHolder ==
    /\ \A c, d \in clients : st[c].name = st[d].name /\ st[c].name # None => c = d
    /\ \A c \in clients : st[c].bind_as # None => st[c].name = None

(* Nothing is left behind when a connection goes (disconnect, tick): a     *)
(* parked await and a deadline belong to a connection that is still there, *)
(* and so do the clients that a running handler still has to answer.       *)
NoOrphans ==
    /\ \A c \in Conn : pending[c] # None => c \in clients
    /\ \A c \in Conn \ clients : st[c] = Fresh(None)
    /\ job # None => /\ job.todo \subseteq clients
                     /\ \A w \in job.todo : pending[w] # None

(* inbox() expects a canonical holder once resolve_op_identity succeeded   *)
(* (it panics otherwise), and the last arm of await_reply_for_mailbox, "no *)
(* matching envelopes", is never taken: a client is woken only for an      *)
(* envelope that it is given, or behind one that it may not pass.          *)
NoInternalError ==
    /\ \A c \in clients : Resolves(c) => Holders(effective_identity(c)) # {}
    /\ \A i \in DOMAIN outs : outs[i].kind = "Reply" => outs[i].what # "Internal"

(* Registrations, deaths and disconnects leave the sessions consistent.    *)
SessionsHold == OneHolder /\ NoOrphans

(* A name is a member of a channel exactly when its holder has joined it:  *)
(* the member lists that send_channel wakes from and the `joined' sets     *)
(* that await and inbox read stay in step.                                 *)
MembersAreJoined ==
    \A ch \in Channel, n \in Name :
        n \in channels[ch] <=> \E c \in Holders(n) : ch \in st[c].joined

-----------------------------------------------------------------------------
(* Delivery *)

Boxes(o) == {st[o].name} \cup st[o].joined
Holder   == {o \in clients : st[o].name # None}

(* What an await of holder o is to be given from mailbox m.                *)
ForAwait(o, m, r) == /\ r.ok /\ r.origin = "Local"
                     /\ m \in Channel => r.from # st[o].name

(* An await cursor never passes an envelope that no await of the holder    *)
(* was given: "never advances past a record this walk did not either       *)
(* deliver or prove permanently unmatchable".  Holds across the awaits of  *)
(* the holder and of all its proxies, which share the cursor.              *)
AwaitSkipsNothing ==
    \A o \in Holder : \A m \in Boxes(o) : \A i \in DOMAIN file[m] :
        i <= st[o].await_offsets[m] /\ ForAwait(o, m, file[m][i])
            => file[m][i].id \in delivered[o]

(* An inbox cursor never passes a channel envelope that the holder's inbox *)
(* polls did not give; a poll that does not fit in a frame, and an await,  *)
(* leave it alone.                                                         *)
InboxSkipsNothing ==
    \A o \in Holder : \A ch \in st[o].joined : \A i \in DOMAIN file[ch] :
        (/\ i <= st[o].inbox_offsets[ch]
         /\ file[ch][i].ok /\ file[ch][i].from # st[o].name)
            => file[ch][i].id \in inboxed[o]

(* A parked client never sleeps on mail it could be given: whenever the    *)
(* broker is ready for the next input, an await with the same filter would *)
(* park again.                                                             *)
NoLostWakeup ==
    Ready => \A c \in clients : pending[c] # None /\ Resolves(c) =>
                \A m \in {effective_identity(c)} \cup st[Owner(c)].joined :
                    drain_await_batch(Owner(c), m, pending[c], None).ids = {}

(* An envelope confirmed to anybody, by SendOk or by AwaitOk, is in a      *)
(* mailbox file: the append comes before every reply, so not even a crash  *)
(* between two outputs loses it.                                           *)
ConfirmedIsStored ==
    \A id \in acked : \E m \in Mailbox : \E i \in DOMAIN file[m] :
        file[m][i].id = id

(* An await hands out an envelope once: what one await of the holder or of *)
(* its proxies was given is not given again by a later one, and an inbox   *)
(* poll does not repeat a channel envelope of an earlier poll.  The one    *)
(* exception is the envelope that a send is just giving out: every await   *)
(* parked for it gets it, the holder's and each of its proxies', but those *)
(* answers too repeat nothing older.                                       *)
NoReplay ==
    [][/\ Ready /\ Len(outs') = 1 /\ outs'[1].kind = "Reply" =>
             LET o == Owner(outs'[1].to)
             IN  /\ outs'[1].what = "AwaitOk" => outs'[1].ids \cap delivered[o] = {}
                 /\ outs'[1].what = "InboxOk" =>
                      \A ch \in st[o].joined : \A i \in DOMAIN file[ch] :
                         file[ch][i].id \in inboxed[o]
                             => file[ch][i].id \notin outs'[1].ids
       /\ job # None /\ job.kind = "send" /\ Len(outs') > Len(outs) =>
             LET out == outs'[Len(outs')]
             IN  out.kind = "Reply" /\ out.what = "AwaitOk" =>
                    out.ids \cap delivered[Owner(out.to)] \subseteq {job.rec.id}]_vars

(* A channel delivers to each member through two cursors, that of await    *)
(* and that of inbox, which do not disturb each other: neither skips, or   *)
(* repeats what it gave before, and nobody sleeps on a post.               *)
ChannelDelivers ==
    /\ [](AwaitSkipsNothing /\ InboxSkipsNothing /\ NoLostWakeup)
    /\ NoReplay

-----------------------------------------------------------------------------
(* Progress *)

(* A parked await is answered, or its connection goes: tick expires it     *)
(* after its deadline even when nobody writes to it.                       *)
AwaitAnswered == \A c \in Conn : pending[c] # None ~> pending[c] = None

(* The name of a client that died is free again: tick finds the dead       *)
(* process even when the connection never closes.                          *)
DeadHolderReaped ==
    \A c \in Conn : (c \in Holder /\ c \notin alive) ~> ~(c \in Holder /\ c \notin alive)

(* The tick settles what no request ever will.                             *)
TickSettles == AwaitAnswered /\ DeadHolderReaped
=============================================================================
