------------------------------- MODULE Broker -------------------------------
(***************************************************************************)
(* The local bus broker: the pure actor Broker::handle of famp-bus and the *)
(* executor loop of `famp broker` that carries out what the actor returns. *)
(*                                                                         *)
(* One input at a time is handled.  handle() reads the mailbox files and   *)
(* the process table, updates the in-memory state and returns a list of    *)
(* outputs; execute_outs then performs the outputs in order, and only then *)
(* is the next input taken.  So while a handler runs, the record it is     *)
(* about to append is not on disk yet.  The two loops inside handlers that *)
(* answer several parked clients (send, tick) take one step per client:    *)
(* `job' holds what is left of the loop and nothing else is handled        *)
(* meanwhile, but processes may die and files may be truncated.            *)
(*                                                                         *)
(* A mailbox is a file of records, and an offset counts records: every     *)
(* record has length one.                                                  *)
(***************************************************************************)
EXTENDS Integers, Sequences, FiniteSets

CONSTANTS
    Conn,           \* connections (ClientId)
    Name,           \* agent names
    Channel,        \* channels; a set of numbers, in the order of their names
    Task,           \* task ids
    AnyTask,        \* the await filter that matches every envelope (Any)
    None,           \* absence
    Origins,        \* the origins that clients declare when they register
    Flags,          \* the flags clients choose: listening, wake address, role
    Rebind,         \* a registered client may register under another name
    Pipelined,      \* a client may send a request while its await is parked
    AwaitBatchCap,  \* AWAIT_BATCH_CAP
    ChannelDrainCap,\* CHANNEL_DRAIN_CAP
    FrameCap,       \* the number of envelopes that fit in one reply frame
    Born,           \* mailboxes whose file exists when the broker starts
    Legacy,         \* what those files hold
    Faults,         \* those that happen: "crash", "truncate", "lose", "unreadable"
    MaxFaults,      \* bound on their number
    MaxMsg          \* bound on the number of envelopes sent

Mailbox == Name \cup Channel
Origin  == {"Local", "Gateway", "Unknown"}
Filter  == Task \cup {AnyTask}

(* A line of a mailbox file: a stamped envelope, or (~ok) bytes that do    *)
(* not decode.  `id' identifies the envelope.                              *)
Record == [id : Nat, from : Name, origin : Origin, task : Task, ok : BOOLEAN]

ASSUME ConnAssumption    == IsFiniteSet(Conn)
ASSUME ChannelAssumption == Channel \subseteq Nat /\ IsFiniteSet(Channel)
ASSUME NameAssumption    == Name \cap Channel = {} /\ None \notin Mailbox
ASSUME FilterAssumption  == AnyTask \notin Task /\ None \notin Filter
ASSUME NoneAssumption    == None \notin Record
ASSUME SetAssumption     == /\ Origins \subseteq Origin
                            /\ Flags \subseteq BOOLEAN
                            /\ Rebind \in BOOLEAN
                            /\ Pipelined \in BOOLEAN
                            /\ Born \subseteq Mailbox
ASSUME CapAssumption     == /\ AwaitBatchCap \in Nat \ {0}
                            /\ ChannelDrainCap \in Nat \ {0}
                            /\ FrameCap \in Nat
                            /\ MaxFaults \in Nat
                            /\ MaxMsg \in Nat
ASSUME LegacyAssumption  == Legacy \in Seq(Record)

VARIABLES
    clients,    \* the connections that have an entry in BrokerState.clients
    st,         \* their ClientState
    channels,   \* members of each channel
    roles,      \* members with a declared role in each channel
    pending,    \* filter of the parked await of each connection, or None
    due,        \* connections whose parked await has passed its deadline
    alive,      \* connections whose process is alive
    file,       \* records of each mailbox file
    exists,     \* mailboxes that have a file
    cursor,     \* offset in each on-disk cursor file
    job,        \* loop of the running handler, or None
    outs,       \* outputs that the executor has still to carry out
    nmsg,       \* envelopes sent
    nfault,     \* faults that happened
    delivered,  \* history: ids handed to each holder's awaits, or drained
    inboxed,    \* history: ids of channel envelopes each holder's inbox gave
    acked       \* history: ids confirmed by a reply that left the broker

actorVars == <<clients, st, channels, roles, pending, due>>
diskVars  == <<file, exists, cursor>>
envVars   == <<alive, nmsg, nfault>>
history   == <<delivered, inboxed, acked>>
vars      == <<actorVars, diskVars, envVars, history, job, outs>>

ClientState ==
    [name : Name \cup {None}, bind_as : Name \cup {None}, origin : Origin,
     listen_mode : BOOLEAN, wake_addr : BOOLEAN, joined : SUBSET Channel,
     await_offsets : [Mailbox -> Nat], inbox_offsets : [Channel -> Nat]]

(* The entry that hello inserts for a connection.  An offset that the map  *)
(* does not hold reads as 0.                                               *)
Fresh(bound) ==
    [name |-> None, bind_as |-> bound, origin |-> "Unknown",
     listen_mode |-> FALSE, wake_addr |-> FALSE, joined |-> {},
     await_offsets |-> [m \in Mailbox |-> 0],
     inbox_offsets |-> [ch \in Channel |-> 0]]

AppendOut == [kind : {"Append"}, mbox : Mailbox, rec : Record]
ReplyKind == {"SendOk", "InboxOk", "AwaitOk", "AwaitTimeout", "Err", "Internal"}
ReplyOut  == [kind : {"Reply"}, to : Conn, what : ReplyKind, ids : SUBSET Nat,
              flags : SUBSET {"woken", "wake_addr"}]
CursorOut == [kind : {"Cursor"}, mbox : Mailbox, off : Nat]
Out       == AppendOut \cup ReplyOut \cup CursorOut

Reply(c, what, ids) ==
    [kind |-> "Reply", to |-> c, what |-> what, ids |-> ids, flags |-> {}]
SendOk(c, id, flags) ==
    [kind |-> "Reply", to |-> c, what |-> "SendOk", ids |-> {id},
     flags |-> flags]
AppendMailbox(m, r) == [kind |-> "Append", mbox |-> m, rec |-> r]
AdvanceCursor(m, o) == [kind |-> "Cursor", mbox |-> m, off |-> o]

(* The loop of a send: the channel members still to look at, and the       *)
(* waiters of the present one still to answer.                             *)
SendJob == [kind : {"send"}, from : Conn, mbox : Mailbox, rec : Record,
            members : SUBSET Name, todo : SUBSET Conn,
            flags : SUBSET {"woken", "wake_addr"}]
TickJob == [kind : {"tick"}, todo : SUBSET Conn]

ASSUME JobAssumption     == None \notin SendJob /\ None \notin TickJob

(* The broker takes the next input only when the last one is done with.    *)
Ready == job = None /\ outs = <<>>

-----------------------------------------------------------------------------
(* Identity: canonical holders and the proxies bound to them.              *)

IsProxy(c)  == st[c].bind_as # None /\ st[c].name = None
Holders(n)  == {c \in clients : st[c].name = n}

canonical_holder_id(n) == CHOOSE c \in Holders(n) : TRUE

proxy_holder_alive(n) == \E c \in Holders(n) : c \in alive

effective_identity(c) ==
    IF st[c].name # None THEN st[c].name ELSE st[c].bind_as

(* Mutant: a proxy may act after its holder is gone.                       *)
M_Resolves(c) == c \in clients /\ (st[c].name # None \/ st[c].bind_as # None)

(* resolve_op_identity returns effective_identity(c) when this holds.      *)
Resolves(c) == /\ c \in clients
               /\ \/ st[c].name # None
                  \/ st[c].bind_as # None /\ proxy_holder_alive(st[c].bind_as)

(* Mutant: a proxy works with cursors and memberships of its own.          *)
M_Owner(c) == c

(* The client that owns the cursors and the memberships c works with.      *)
Owner(c) == LET n == effective_identity(c)
            IN  IF Holders(n) # {} THEN canonical_holder_id(n) ELSE c

client_origin(c) ==
    CASE st[c].name # None -> st[c].origin
      [] st[c].name = None /\ st[c].bind_as # None
                           /\ Holders(st[c].bind_as) # {} ->
            st[canonical_holder_id(st[c].bind_as)].origin
      [] OTHER -> "Unknown"

-----------------------------------------------------------------------------
(* Mailboxes: drain_from, decode_lines and drain_walk.                     *)

(* The records a drain returns, and the offset it reports: the end of the  *)
(* file, or, when there is no file, the caller's own offset.               *)
Drained(m, since)  == {i \in DOMAIN file[m] : i > since}
DrainEnd(m, since) == IF m \in exists THEN Len(file[m]) ELSE since

decode_lines(m, since) ==
    {file[m][i].id : i \in {k \in Drained(m, since) : file[m][k].ok}}

filter_matches(f, r) == f = AnyTask \/ f = r.task

(* Mutant: an offset beyond the end of the file is not clamped.            *)
M_Least(a, b) == a

Least(a, b) == IF a <= b THEN a ELSE b

(* walk: go through the records `scan' of a drain from `since' in order.   *)
(* A record that does not decode, is not local (when `local' asks for it)  *)
(* or was written by `self' is passed over; one that matches the filter is *)
(* delivered; the first other one stops the walk, and so does the cap-th   *)
(* delivery.                                                               *)
walk(m, since, scan, f, self, local, cap) ==
    LET skip    == {i \in scan : \/ ~file[m][i].ok
                                 \/ local /\ file[m][i].origin # "Local"
                                 \/ file[m][i].from = self}
        match   == {i \in scan \ skip : filter_matches(f, file[m][i])}
        stop    == scan \ (skip \cup match)
        reached == {i \in scan : \A k \in stop : i < k}
        hits    == reached \cap match
        given   == {i \in hits : Cardinality({k \in hits : k <= i}) <= cap}
        capped  == Cardinality(hits) >= cap
        passed  == IF capped THEN {i \in reached : \E k \in given : i <= k}
                             ELSE reached
    IN  [ids           |-> {file[m][i].id : i \in given},
         next_offset   |-> Least(since, DrainEnd(m, since)) + Cardinality(passed),
         fully_drained |-> stop = {} /\ ~capped]

(* Mutant: the cursor does not count the record that was being sent.       *)
M_drain_await_batch_again(o, m, f, trigger) ==
    LET since == st[o].await_offsets[m]
        self  == IF m \in Channel THEN effective_identity(o) ELSE None
        w     == walk(m, since, Drained(m, since), f, self, TRUE, AwaitBatchCap)
        give  == /\ w.fully_drained /\ trigger # None /\ trigger.origin = "Local"
                 /\ trigger.from # self /\ filter_matches(f, trigger)
    IN  [ids           |-> w.ids \cup (IF give THEN {trigger.id} ELSE {}),
         next_offset   |-> w.next_offset,
         fully_drained |-> w.fully_drained]

(* drain_await_batch: the walk for an await of owner o, and then the       *)
(* record `trigger' that is being sent and is not in the file yet.         *)
drain_await_batch(o, m, f, trigger) ==
    LET since == st[o].await_offsets[m]
        self  == IF m \in Channel THEN effective_identity(o) ELSE None
        w     == walk(m, since, Drained(m, since), f, self, TRUE, AwaitBatchCap)
        fold  == w.fully_drained /\ trigger # None
        pass  == fold /\ (trigger.origin # "Local" \/ trigger.from = self)
        give  == fold /\ ~pass /\ filter_matches(f, trigger)
    IN  [ids           |-> w.ids \cup (IF give THEN {trigger.id} ELSE {}),
         next_offset   |-> w.next_offset + (IF pass \/ give THEN 1 ELSE 0),
         fully_drained |-> w.fully_drained]

(* A reply whose frame is too large cannot be encoded.                     *)
Fits(ids) == Cardinality(ids) <= FrameCap

-----------------------------------------------------------------------------
(* The handlers.                                                           *)

(* A reply is an output only when it confirms or hands out an envelope, or *)
(* answers a parked await: no other reply changes what is kept here.  So a *)
(* request that is refused leaves everything as it was.                    *)
Refuse == UNCHANGED vars

(* The mailbox file cannot be read: every handler that drains it gives up. *)
Unreadable == "unreadable" \in Faults

Hello(c, bound) ==
    \/ /\ c \in clients \/ (bound # None /\ ~proxy_holder_alive(bound))
       /\ Refuse
    \/ /\ c \notin clients
       /\ bound = None \/ proxy_holder_alive(bound)
       /\ clients' = clients \cup {c}
       /\ st' = [st EXCEPT ![c] = Fresh(bound)]
       /\ alive' = alive \cup {c}
       /\ UNCHANGED <<channels, roles, pending, due, diskVars, nmsg, nfault,
                      history, job, outs>>

(* Mutant: a name is free as soon as its holder's process is dead.         *)
M_name_taken(c, n) == \E d \in (clients \cap alive) \ {c} : st[d].name = n

name_taken(c, n) == \E d \in clients \ {c} : st[d].name = n

register(c, n, origin, listen) ==
    LET ids == decode_lines(n, 0)
        off == DrainEnd(n, 0)
    IN
    \/ /\ st[c].bind_as # None \/ name_taken(c, n) \/ ~Fits(ids) \/ Unreadable
       /\ Refuse
    \/ /\ st[c].bind_as = None /\ ~name_taken(c, n) /\ Fits(ids)
       /\ st' = [st EXCEPT ![c].name = n, ![c].origin = origin,
                           ![c].listen_mode = listen,
                           ![c].await_offsets[n] = off]
       /\ delivered' = [delivered EXCEPT ![c] = @ \cup ids]
       /\ outs' = <<AdvanceCursor(n, off)>>
       /\ UNCHANGED <<clients, channels, roles, pending, due, diskVars, envVars,
                      inboxed, acked, job>>

(* set_listen and set_wake_addr.                                           *)
set_listen(c, listen) ==
    \/ st[c].name = None /\ Refuse
    \/ /\ st[c].name # None
       /\ st' = [st EXCEPT ![c].listen_mode = listen]
       /\ UNCHANGED <<clients, channels, roles, pending, due, diskVars, envVars,
                      history, job, outs>>

set_wake_addr(c, valid) ==
    \/ st[c].name = None /\ Refuse
    \/ /\ st[c].name # None
       /\ st' = [st EXCEPT ![c].wake_addr = valid]
       /\ UNCHANGED <<clients, channels, roles, pending, due, diskVars, envVars,
                      history, job, outs>>

join(c, ch, role) ==
    LET n   == effective_identity(c)
        o   == Owner(c)
        ids == decode_lines(ch, 0)
        off == DrainEnd(ch, 0)
    IN
    \/ /\ ~(Resolves(c) /\ Fits(ids)) \/ Unreadable
       /\ Refuse
    \/ /\ Resolves(c) /\ Fits(ids)
       /\ channels' = [channels EXCEPT ![ch] = @ \cup {n}]
       /\ st' = [st EXCEPT ![o].joined = @ \cup {ch},
                           ![o].await_offsets[ch] = off,
                           ![o].inbox_offsets[ch] = off]
       /\ roles' = IF role THEN [roles EXCEPT ![ch] = @ \cup {n}] ELSE roles
       /\ delivered' = [delivered EXCEPT ![o] = @ \cup ids]
       /\ inboxed' = [inboxed EXCEPT ![o] = @ \cup ids]
       /\ outs' = <<AdvanceCursor(ch, off)>>
       /\ UNCHANGED <<clients, pending, due, diskVars, envVars, acked, job>>

leave(c, ch) ==
    LET n == effective_identity(c)
        o == Owner(c)
    IN
    \/ ~Resolves(c) /\ Refuse
    \/ /\ Resolves(c)
       /\ channels' = [channels EXCEPT ![ch] = @ \ {n}]
       /\ st' = [st EXCEPT ![o].joined = @ \ {ch},
                           ![o].await_offsets[ch] = 0,
                           ![o].inbox_offsets[ch] = 0]
       /\ roles' = [roles EXCEPT ![ch] = @ \ {n}]
       /\ UNCHANGED <<clients, pending, due, diskVars, envVars, history, job, outs>>

(* Mutant: the cursor goes to the end of the file although the poll was    *)
(* cut.                                                                    *)
M_InboxWalk_all(o, ch) ==
    LET since == st[o].inbox_offsets[ch]
        scan  == {i \in Drained(ch, since) : i <= since + ChannelDrainCap}
        w     == walk(ch, since, scan, AnyTask, st[o].name, FALSE, Len(file[ch]) + 1)
    IN  [ids |-> w.ids, next_offset |-> DrainEnd(ch, since)]

(* The part of one inbox poll that one joined channel contributes.         *)
InboxWalk(o, ch) ==
    LET since == st[o].inbox_offsets[ch]
        scan  == {i \in Drained(ch, since) : i <= since + ChannelDrainCap}
        w     == walk(ch, since, scan, AnyTask, st[o].name, FALSE, Len(file[ch]) + 1)
        cut   == Cardinality(Drained(ch, since)) > ChannelDrainCap
    IN  [ids         |-> w.ids,
         next_offset |-> IF cut THEN w.next_offset ELSE DrainEnd(ch, since)]

(* The channel cursors move only once the whole reply is known to fit.     *)
inbox(c, since) ==
    LET n    == effective_identity(c)
        o    == Owner(c)
        mine == UNION {InboxWalk(o, ch).ids : ch \in st[o].joined}
        ids  == decode_lines(n, since) \cup mine
    IN
    \/ /\ ~(Resolves(c) /\ Fits(ids)) \/ Unreadable
       /\ Refuse
    \/ /\ Resolves(c) /\ Fits(ids)
       /\ st' = [st EXCEPT ![o].inbox_offsets =
                    [ch \in Channel |-> IF ch \in st[o].joined
                                        THEN InboxWalk(o, ch).next_offset
                                        ELSE @[ch]]]
       /\ inboxed' = [inboxed EXCEPT ![o] = @ \cup mine]
       /\ outs' = <<Reply(c, "InboxOk", mine)>>
       /\ UNCHANGED <<clients, channels, roles, pending, due, diskVars, envVars,
                      delivered, acked, job>>

(* An await hands out the first mailbox that has something for it, and     *)
(* parks when none has.  The mailboxes looked at before keep what the walk *)
(* passed over.  A mailbox that cannot be read ends the search.            *)
Earlier(m, k) == k \in Channel /\ (m \in Name \/ m < k)

await_envelope(c, f) ==
    LET o        == Owner(c)
        boxes    == {effective_identity(c)} \cup st[o].joined
        batch(m) == drain_await_batch(o, m, f, None)
        empty(S) == \A m \in S : batch(m).ids = {}
        before(m) == {k \in boxes : Earlier(k, m)}
        Walked(S) == st' = [st EXCEPT ![o].await_offsets =
                              [m \in Mailbox |-> IF m \in S
                                                 THEN batch(m).next_offset
                                                 ELSE @[m]]]
    IN
    \/ ~Resolves(c) /\ Refuse
    \/ /\ Resolves(c)
       /\ \/ \E m \in boxes :
               /\ Unreadable
               /\ empty(before(m))
               /\ Walked(before(m))
               /\ UNCHANGED <<pending, due, delivered, outs>>
          \/ \E m \in boxes :
               /\ empty(before(m)) /\ batch(m).ids # {}
               /\ Walked(before(m) \cup {m})
               /\ delivered' = IF Fits(batch(m).ids)
                               THEN [delivered EXCEPT ![o] = @ \cup batch(m).ids]
                               ELSE delivered
               /\ outs' = <<Reply(c, "AwaitOk", batch(m).ids)>>
               /\ UNCHANGED <<pending, due>>
          \/ /\ empty(boxes)
             /\ Walked(boxes)
             /\ pending' = [pending EXCEPT ![c] = f]
             /\ due' = due \ {c}
             /\ UNCHANGED <<outs, delivered>>
       /\ UNCHANGED <<clients, channels, roles, diskVars, envVars, inboxed,
                      acked, job>>

-----------------------------------------------------------------------------
(* Sending: the append comes first, then one answer per parked client the  *)
(* envelope wakes, then the sender's SendOk.  Clients are answered in the  *)
(* order of their ids; ids grow as connections come, so any order of any   *)
(* set of parked clients is some order of ids.  In the same way the        *)
(* members of a channel come in the order of their names.                  *)

(* Mutant: the awaits of proxies are not looked at.                        *)
M_waiting_clients_for_name(n, r) ==
    {c \in clients : /\ r.origin = "Local"
                     /\ pending[c] # None
                     /\ st[c].name = n
                     /\ filter_matches(pending[c], r)}

waiting_clients_for_name(n, r) ==
    {c \in clients : /\ r.origin = "Local"
                     /\ pending[c] # None
                     /\ \/ st[c].name = n
                        \/ IsProxy(c) /\ st[c].bind_as = n /\ proxy_holder_alive(n)
                     /\ filter_matches(pending[c], r)}

woken_waiter_is_canonical_holder(n, waiters) ==
    \E w \in waiters : /\ Resolves(w)
                       /\ effective_identity(w) = n
                       /\ Owner(w) = w

recipient_wake_addr(n, origin) ==
    /\ origin = "Local"
    /\ Holders(n) # {}
    /\ st[canonical_holder_id(n)].listen_mode
    /\ st[canonical_holder_id(n)].wake_addr

Sending(c, m, r, members, waiters, flags) ==
    /\ job' = [kind |-> "send", from |-> c, mbox |-> m, rec |-> r,
               members |-> members, todo |-> waiters, flags |-> flags]
    /\ outs' = <<AppendMailbox(m, r)>>
    /\ nmsg' = nmsg + 1
    /\ UNCHANGED <<actorVars, diskVars, alive, nfault, history>>

send_agent(c, n, r) ==
    LET waiters == waiting_clients_for_name(n, r)
        woken   == waiters # {}
        ping    == /\ ~woken_waiter_is_canonical_holder(n, waiters)
                   /\ recipient_wake_addr(n, r.origin)
    IN  Sending(c, n, r, {}, waiters, (IF woken THEN {"woken"} ELSE {})
                                      \cup (IF ping THEN {"wake_addr"} ELSE {}))

send_channel(c, ch, r) == Sending(c, ch, r, channels[ch] \ {r.from}, {}, {})

(* send_channel looks for the waiters of one member after the other.       *)
NextMember ==
    /\ job # None /\ job.kind = "send" /\ job.todo = {}
    /\ \E n \in job.members :
         job' = [job EXCEPT !.members = @ \ {n},
                            !.todo = waiting_clients_for_name(n, job.rec)]
    /\ UNCHANGED <<actorVars, diskVars, envVars, history, outs>>

(* An envelope that names another sender or cannot be encoded is refused.  *)
send(c, m, task) ==
    \/ Refuse
    \/ /\ Resolves(c) /\ nmsg < MaxMsg
       /\ LET r == [id |-> nmsg + 1, from |-> effective_identity(c),
                    origin |-> client_origin(c), task |-> task, ok |-> TRUE]
          IN  \/ m \in Name /\ send_agent(c, m, r)
              \/ m \in Channel /\ send_channel(c, m, r)

(* await_reply_for_mailbox for the next client that the envelope wakes.    *)
(* Its last answer, an internal error, is for a walk that went through     *)
(* everything and found nothing.                                           *)
WakeOne ==
    /\ job # None /\ job.kind = "send"
    /\ \E w \in job.todo :
         LET o    == Owner(w)
             b    == drain_await_batch(o, job.mbox, pending[w], job.rec)
             what == IF b.ids # {} THEN "AwaitOk"
                     ELSE IF b.fully_drained THEN "Internal" ELSE "AwaitTimeout"
         IN
         /\ job' = [job EXCEPT !.todo = @ \ {w}]
         /\ pending' = [pending EXCEPT ![w] = None]
         /\ due' = due \ {w}
         /\ \/ /\ ~Resolves(w) \/ Unreadable
               /\ outs' = Append(outs, Reply(w, "Err", {}))
               /\ UNCHANGED <<st, delivered>>
            \/ /\ Resolves(w)
               /\ st' = [st EXCEPT ![o].await_offsets[job.mbox] = b.next_offset]
               /\ outs' = Append(outs, Reply(w, what, b.ids))
               /\ delivered' = IF Fits(b.ids)
                               THEN [delivered EXCEPT ![o] = @ \cup b.ids]
                               ELSE delivered
    /\ UNCHANGED <<clients, channels, roles, diskVars, envVars, inboxed, acked>>

(* Mutant: SendOk overtakes the append.                                    *)
M_SendDone ==
    /\ job # None /\ job.kind = "send" /\ job.members = {} /\ job.todo = {}
    /\ outs' = Tail(outs) \o <<SendOk(job.from, job.rec.id, job.flags), Head(outs)>>
    /\ job' = None
    /\ UNCHANGED <<actorVars, diskVars, envVars, history>>

SendDone ==
    /\ job # None /\ job.kind = "send" /\ job.members = {} /\ job.todo = {}
    /\ outs' = Append(outs, SendOk(job.from, job.rec.id, job.flags))
    /\ job' = None
    /\ UNCHANGED <<actorVars, diskVars, envVars, history>>

-----------------------------------------------------------------------------
(* Disconnect and tick.                                                    *)

(* Every trace of the connections S goes, but for their channel roles.     *)
disconnect(S) ==
    /\ clients' = clients \ S
    /\ st' = [c \in Conn |-> IF c \in S THEN Fresh(None) ELSE st[c]]
    /\ channels' = [ch \in Channel |-> channels[ch] \ {st[c].name : c \in S}]
    /\ pending' = [c \in Conn |-> IF c \in S THEN None ELSE pending[c]]
    /\ due' = due \ S
    /\ delivered' = [c \in Conn |-> IF c \in S THEN {} ELSE delivered[c]]
    /\ inboxed' = [c \in Conn |-> IF c \in S THEN {} ELSE inboxed[c]]
    /\ UNCHANGED roles

Disconnect(c) ==
    /\ Ready /\ c \in clients
    /\ disconnect({c})
    /\ UNCHANGED <<diskVars, envVars, acked, job, outs>>

(* Mutant: a tick that only expires.                                       *)
M_tick_expires ==
    LET expired == {c \in due : pending[c] # None}
    IN  /\ Ready /\ expired # {}
        /\ job' = [kind |-> "tick", todo |-> expired]
        /\ UNCHANGED <<actorVars, diskVars, envVars, history, outs>>

(* A tick that finds neither a dead client nor an expired await does       *)
(* nothing.                                                                *)
tick ==
    LET dead    == {c \in clients : st[c].name # None /\ c \notin alive}
        expired == {c \in due \ dead : pending[c] # None}
    IN  /\ Ready /\ dead \cup expired # {}
        /\ disconnect(dead)
        /\ job' = IF expired = {} THEN None
                                  ELSE [kind |-> "tick", todo |-> expired]
        /\ UNCHANGED <<diskVars, envVars, acked, outs>>

ExpireOne ==
    /\ job # None /\ job.kind = "tick"
    /\ \E w \in job.todo :
         /\ pending' = [pending EXCEPT ![w] = None]
         /\ due' = due \ {w}
         /\ outs' = Append(outs, Reply(w, "AwaitTimeout", {}))
         /\ job' = IF job.todo = {w} THEN None
                                     ELSE [job EXCEPT !.todo = @ \ {w}]
    /\ UNCHANGED <<clients, st, channels, roles, diskVars, envVars, history>>

-----------------------------------------------------------------------------
(* execute_outs: one output at a time.  A write that fails, of a record or *)
(* of a cursor, is only logged.                                            *)

WriteFails == /\ "lose" \in Faults /\ nfault < MaxFaults
              /\ nfault' = nfault + 1

execute_append(h) ==
    /\ \/ /\ file' = [file EXCEPT ![h.mbox] = Append(@, h.rec)]
          /\ exists' = exists \cup {h.mbox}
          /\ UNCHANGED nfault
       \/ WriteFails /\ UNCHANGED <<file, exists>>
    /\ UNCHANGED <<cursor, alive, nmsg, acked>>

execute_cursor(h) ==
    /\ \/ cursor' = [cursor EXCEPT ![h.mbox] = h.off] /\ UNCHANGED nfault
       \/ WriteFails /\ UNCHANGED cursor
    /\ UNCHANGED <<file, exists, alive, nmsg, acked>>

execute_reply(h) ==
    /\ acked' = IF h.what \in {"SendOk", "AwaitOk"} /\ Fits(h.ids)
                THEN acked \cup h.ids ELSE acked
    /\ UNCHANGED <<diskVars, envVars>>

execute_outs ==
    /\ job = None /\ outs # <<>>
    /\ LET h == Head(outs)
       IN  \/ h.kind = "Append" /\ execute_append(h)
           \/ h.kind = "Cursor" /\ execute_cursor(h)
           \/ h.kind = "Reply"  /\ execute_reply(h)
    /\ outs' = Tail(outs)
    /\ UNCHANGED <<actorVars, delivered, inboxed, job>>

-----------------------------------------------------------------------------
(* The surroundings: a deadline passes, a process dies, the broker stops   *)
(* and starts again with an empty memory, /famp-clear empties a mailbox.   *)

Deadline(c) ==
    /\ pending[c] # None /\ c \notin due
    /\ due' = due \cup {c}
    /\ UNCHANGED <<clients, st, channels, roles, pending, diskVars, envVars,
                   history, job, outs>>

Die(c) ==
    /\ c \in clients \cap alive
    /\ alive' = alive \ {c}
    /\ UNCHANGED <<actorVars, diskVars, nmsg, nfault, history, job, outs>>

Crash ==
    /\ "crash" \in Faults /\ nfault < MaxFaults
    /\ nfault' = nfault + 1
    /\ clients' = {} /\ st' = [c \in Conn |-> Fresh(None)]
    /\ channels' = [ch \in Channel |-> {}] /\ roles' = [ch \in Channel |-> {}]
    /\ pending' = [c \in Conn |-> None] /\ due' = {}
    /\ job' = None /\ outs' = <<>>
    /\ delivered' = [c \in Conn |-> {}] /\ inboxed' = [c \in Conn |-> {}]
    /\ UNCHANGED <<diskVars, alive, nmsg, acked>>

Truncate(m) ==
    /\ "truncate" \in Faults /\ nfault < MaxFaults
    /\ m \in exists /\ file[m] # <<>>
    /\ file' = [file EXCEPT ![m] = <<>>]
    /\ nfault' = nfault + 1
    /\ UNCHANGED <<actorVars, exists, cursor, alive, nmsg, history, job, outs>>

-----------------------------------------------------------------------------
Init ==
    /\ clients = {} /\ st = [c \in Conn |-> Fresh(None)]
    /\ channels = [ch \in Channel |-> {}] /\ roles = [ch \in Channel |-> {}]
    /\ pending = [c \in Conn |-> None] /\ due = {} /\ alive = {}
    /\ file = [m \in Mailbox |-> IF m \in Born THEN Legacy ELSE <<>>]
    /\ exists = Born /\ cursor = [m \in Mailbox |-> 0]
    /\ job = None /\ outs = <<>> /\ nmsg = 0 /\ nfault = 0
    /\ delivered = [c \in Conn |-> {}] /\ inboxed = [c \in Conn |-> {}]
    /\ acked = {}

(* handle_wire: before its Hello a connection can do nothing else.         *)
handle_wire(c) ==
    \/ \E bound \in Name \cup {None} : Hello(c, bound)
    \/ c \notin clients /\ Refuse
    \/ /\ c \in clients
       /\ \/ \E n \in Name, o \in Origins, l \in Flags :
               /\ Rebind \/ st[c].name \in {None, n}
               /\ register(c, n, o, l)
          \/ \E l \in Flags : set_listen(c, l) \/ set_wake_addr(c, l)
          \/ \E m \in Mailbox, t \in Task : send(c, m, t)
          \/ \E since \in 0 .. MaxMsg : inbox(c, since)
          \/ \E f \in Filter : await_envelope(c, f)
          \/ \E ch \in Channel :
               (\E role \in Flags : join(c, ch, role)) \/ leave(c, ch)

Wire(c) == /\ Ready
           /\ Pipelined \/ pending[c] = None
           /\ handle_wire(c)

(* What the broker's loop does by itself.                                  *)
Work == NextMember \/ WakeOne \/ SendDone \/ ExpireOne \/ execute_outs

Next == \/ \E c \in Conn : Wire(c) \/ Disconnect(c) \/ Deadline(c) \/ Die(c)
        \/ \E m \in Mailbox : Truncate(m)
        \/ tick \/ Work \/ Crash

(* The loop always goes on with what it has begun; its select! takes the   *)
(* tick arm again and again, whatever else is ready; and time passes.      *)
Fairness == /\ WF_vars(Work)
            /\ SF_vars(tick)
            /\ \A c \in Conn : WF_vars(Deadline(c))

Spec == Init /\ [][Next]_vars /\ Fairness
=============================================================================
