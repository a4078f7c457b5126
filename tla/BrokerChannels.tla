--------------------------- MODULE BrokerChannels ---------------------------
(***************************************************************************)
(* Proofs about the broker's channels, for every configuration: nobody is  *)
(* left waiting for an entry it could be given (NobodySleeps), an id       *)
(* stands for one envelope, and only a holder is given anything.           *)
(***************************************************************************)
EXTENDS BrokerDelivery

(* Zenon proves a leaf unless the leaf asks for arithmetic (SMTT).         *)
USE ZenonT(60)
-----------------------------------------------------------------------------
(* Nobody sleeps on mail.                                                  *)

(* Every filter lets every envelope through: the clients work on one task. *)
OneTask == \A f \in Filter, r \in Record : filter_matches(f, r)

(* Nothing in Q is waiting for holder o behind its cursor.                 *)
Quiet(o, m, Q) ==
    \A i \in DOMAIN Q : i > st[o].await_offsets[m] => ~ForName(st[o].name, m, Q[i])

(* The running send has still to wake c.                                   *)
Busy(c, m) == /\ job # None /\ job.kind = "send" /\ job.mbox = m
              /\ c \in job.todo \/ effective_identity(c) \in job.members

(* A parked client, and the holder whose mail it is waiting for.           *)
Sleeps(c, o) == /\ c \in clients /\ pending[c] # None
                /\ o \in Holder /\ st[o].name = effective_identity(c)
                /\ c = o \/ o \in alive

WakeInv ==
    \A c, o \in Conn : Sleeps(c, o) =>
        \A m \in Boxes(o) : /\ Quiet(o, m, file[m])
                            /\ Busy(c, m) \/ Quiet(o, m, Mail(m))

(* The steps that put nobody to sleep.                                     *)
SameSleepers ==
    /\ \A c \in clients' : pending'[c] # None =>
          /\ c \in clients /\ pending[c] # None
          /\ st'[c].name = None => /\ st[c].name = None
                                   /\ st'[c].bind_as = st[c].bind_as
    /\ \A o \in Holder : o \in alive' => o \in alive

LEMMA WasAsleep ==
    ASSUME TypeOK, OneHolder', SameSleepers, NEW c \in Conn, NEW o \in Holder,
           st'[o].name = st[o].name, Sleeps(c, o)'
    PROVE  Sleeps(c, o)
<1>1. c \in clients' /\ pending'[c] # None /\ o \in clients' /\ st'[o].name # None
    BY DEF Sleeps, Holder
<1>2. c \in clients /\ pending[c] # None
    BY <1>1 DEF SameSleepers
<1>3. CASE c = o
    BY <1>2, <1>3 DEF Sleeps, Holder, effective_identity
<1>4. CASE c # o
  <2>1. st'[c].name # st'[o].name
      BY <1>1, <1>4 DEF OneHolder
  <2>2. st'[c].name = None /\ st'[o].name = st'[c].bind_as
      BY <2>1 DEF Sleeps, effective_identity
  <2>3. st[c].name = None /\ st[c].bind_as = st'[c].bind_as
      BY <1>1, <2>2 DEF SameSleepers
  <2>4. o \in alive
      BY <1>4 DEF Sleeps, SameSleepers
  <2> QED
      BY <1>2, <2>2, <2>3, <2>4 DEF Sleeps, effective_identity
<1> QED
    BY <1>3, <1>4

(* Nobody new is parked, and whoever has no name had none.                 *)
LEMMA CalmSleepers ==
    ASSUME TypeOK, SameIdentities, alive' \subseteq alive,
           \A c \in Conn : pending'[c] # None => pending[c] # None
    PROVE  SameSleepers
BY DEF SameIdentities, SameSleepers, TypeOK

LEMMA DisconnectSleepers ==
    ASSUME TypeOK, NEW S \in SUBSET clients, disconnect(S), UNCHANGED alive
    PROVE  SameSleepers
<1>1. /\ clients' = clients \ S
      /\ \A c \in Conn \ S : st'[c] = st[c] /\ pending'[c] = pending[c]
    BY DEF disconnect
<1>2. \A c \in clients' : c \in clients /\ c \in Conn \ S
    BY <1>1 DEF TypeOK
<1> QED
    BY <1>1, <1>2 DEF SameSleepers

LEMMA HelloSleepers ==
    ASSUME TypeOK, NoOrphans, NEW c \in Conn, NEW bound \in Name \cup {None},
           Hello(c, bound)
    PROVE  SameSleepers
<1>1. CASE Refuse
    BY <1>1 DEF Refuse, vars, actorVars, envVars, SameSleepers
<1>2. CASE /\ c \notin clients /\ clients' = clients \cup {c}
           /\ st' = [st EXCEPT ![c] = Fresh(bound)]
           /\ pending' = pending /\ alive' = alive \cup {c}
  <2>1. pending[c] = None
      BY <1>2 DEF NoOrphans
  <2>2. \A d \in clients : d \in Conn /\ st'[d] = st[d]
      BY <1>2 DEF TypeOK
  <2>3. c \notin Holder
      BY <1>2 DEF Holder
  <2> QED
      BY <1>2, <2>1, <2>2, <2>3 DEF SameSleepers
<1> QED
    BY <1>1, <1>2 DEF Hello

LEMMA RegisterSleepers ==
    ASSUME TypeOK, NEW c \in clients, NEW n \in Name, NEW origin, NEW l,
           register(c, n, origin, l)
    PROVE  SameSleepers
<1>1. CASE Refuse
    BY <1>1 DEF Refuse, vars, actorVars, envVars, SameSleepers
<1>2. CASE ~Refuse
  <2>1. PICK off : off = DrainEnd(n, 0)
      OBVIOUS
  <2>2. /\ UNCHANGED <<clients, pending, alive>>
        /\ st' = [st EXCEPT ![c].name = n, ![c].origin = origin,
                            ![c].listen_mode = l, ![c].await_offsets[n] = off]
      BY <1>2, <2>1 DEF register, envVars
  <2>3. /\ \A d \in Conn \ {c} : st'[d] = st[d]
        /\ st'[c].name = n /\ n # None
      BY SMTT(60), <2>2, NamesAreSome DEF TypeOK, ClientState
  <2>4. \A d \in clients : d # c => st'[d] = st[d]
      BY <2>3 DEF TypeOK
  <2> QED
      BY <2>2, <2>3, <2>4 DEF SameSleepers
<1> QED
    BY <1>1, <1>2

LEMMA WireSleepers ==
    ASSUME TypeOK, NoOrphans, NEW c \in Conn, Wire(c),
           ~\E f \in Filter : await_envelope(c, f)
    PROVE  SameSleepers
<1>1. CASE \E bound \in Name \cup {None} : Hello(c, bound)
    BY <1>1, HelloSleepers
<1>2. CASE c \in clients /\ \E n \in Name, o \in Origins, l \in Flags : register(c, n, o, l)
    BY <1>2, RegisterSleepers
<1>3. CASE UNCHANGED <<alive, pending>> /\ SameIdentities
    BY <1>3, CalmSleepers
<1>4. CASE Refuse
    BY <1>3, <1>4, UnchangedIdentities DEF Refuse, vars, actorVars, envVars
<1>5. ASSUME c \in clients,
             ~\E bound \in Name \cup {None} : Hello(c, bound),
             ~\E n \in Name, o \in Origins, l \in Flags : register(c, n, o, l),
             ~Refuse
      PROVE  SameSleepers
  <2>1. SameIdentities
      BY <1>5, WireIdentities
  <2>2. UNCHANGED <<alive, pending>>
    <3>1. CASE \E m \in Mailbox, t \in Task : send(c, m, t)
        BY <1>5, <3>1 DEF send, send_agent, send_channel, Sending, actorVars
    <3>2. CASE \E l \in Flags : set_listen(c, l) \/ set_wake_addr(c, l)
        BY <1>5, <3>2 DEF set_listen, set_wake_addr, envVars
    <3>3. CASE \E since \in 0 .. MaxMsg : inbox(c, since)
        BY <1>5, <3>3 DEF inbox, envVars
    <3>4. CASE \E ch \in Channel : (\E role \in Flags : join(c, ch, role)) \/ leave(c, ch)
        BY <1>5, <3>4 DEF join, leave, envVars
    <3> QED
        BY <1>5, <3>1, <3>2, <3>3, <3>4 DEF Wire, handle_wire
  <2> QED
      BY <1>3, <2>1, <2>2
<1> QED
    BY <1>1, <1>2, <1>4, <1>5 DEF Wire, handle_wire

LEMMA OtherSleepers ==
    ASSUME TypeOK, NoOrphans,
           \/ \E c \in Conn : Disconnect(c) \/ Deadline(c) \/ Die(c)
           \/ \E m \in Mailbox : Truncate(m)
           \/ tick \/ Work
    PROVE  SameSleepers
<1>1. CASE \E c \in Conn : Disconnect(c)
    BY <1>1, DisconnectSleepers DEF Disconnect, envVars
<1>2. CASE tick
  <2>1. PICK S \in SUBSET clients : disconnect(S) /\ UNCHANGED alive
      BY <1>2 DEF tick, envVars
  <2> QED
      BY <2>1, DisconnectSleepers
<1>3. CASE \/ Work
           \/ \E c \in Conn : Deadline(c) \/ Die(c)
           \/ \E m \in Mailbox : Truncate(m)
  <2>1. SameIdentities
      BY <1>3, WorkIdentities
  <2>2. alive' \subseteq alive
      BY <1>3 DEF Work, NextMember, WakeOne, SendDone, ExpireOne, execute_outs,
                  execute_append, execute_cursor, execute_reply,
                  Deadline, Die, Truncate, envVars
  <2>3. \A c \in Conn : pending'[c] # None => pending[c] # None
    <3>1. CASE WakeOne
      <4>1. PICK w : pending' = [pending EXCEPT ![w] = None]
          BY <3>1 DEF WakeOne
      <4> QED
          BY <4>1 DEF TypeOK
    <3>2. CASE ExpireOne
      <4>1. PICK w : pending' = [pending EXCEPT ![w] = None]
          BY <3>2 DEF ExpireOne
      <4> QED
          BY <4>1 DEF TypeOK
    <3> QED
        BY <1>3, <3>1, <3>2 DEF Work, NextMember, SendDone, execute_outs,
                                Deadline, Die, Truncate, actorVars
  <2> QED
      BY <2>1, <2>2, <2>3, CalmSleepers
<1> QED
    BY <1>1, <1>2, <1>3

(* Whoever sleeps is among those a local envelope for its holder wakes.    *)
LEMMA IsWaiter ==
    ASSUME TypeOK, OneTask, NEW c \in Conn, NEW o \in Conn, Sleeps(c, o),
           NEW r \in Record, r.origin = "Local"
    PROVE  c \in waiting_clients_for_name(st[o].name, r)
<1>1. /\ c \in clients /\ pending[c] # None /\ pending[c] \in Filter
      /\ o \in clients /\ st[o].name # None /\ st[o].name = effective_identity(c)
    BY DEF Sleeps, Holder, TypeOK
<1>2. filter_matches(pending[c], r)
    BY <1>1 DEF OneTask
<1>3. CASE st[c].name # None
    BY <1>1, <1>2, <1>3 DEF waiting_clients_for_name, effective_identity
<1>4. CASE st[c].name = None
  <2>1. c # o /\ o \in alive
      BY <1>1, <1>4 DEF Sleeps
  <2>2. st[c].bind_as = st[o].name
      BY <1>1, <1>4 DEF effective_identity
  <2>3. proxy_holder_alive(st[o].name)
      BY <1>1, <2>1 DEF proxy_holder_alive, Holders
  <2> QED
      BY <1>1, <1>2, <1>4, <2>2, <2>3 DEF waiting_clients_for_name, IsProxy
<1> QED
    BY <1>3, <1>4

LEMMA AppendQuiet ==
    ASSUME TypeOK, NEW o \in Holder, NEW m \in Mailbox, NEW r \in Record,
           Quiet(o, m, file[m]), ~ForName(st[o].name, m, r),
           NEW Q, Q = Append(file[m], r)
    PROVE  Quiet(o, m, Q)
<1>1. file[m] \in Seq(Record)
    BY DEF TypeOK
<1>2. \A i \in DOMAIN Q : (i \in DOMAIN file[m] /\ Q[i] = file[m][i]) \/ Q[i] = r
    BY SMTT(60), <1>1
<1> QED
    BY <1>2 DEF Quiet

(* A send has still to wake whoever sleeps on its mailbox, unless what it  *)
(* sends is not for them.                                                  *)
LEMMA SendBusy ==
    ASSUME TypeOK, OneTask, Rosters, outs = <<>>, NEW d \in Conn,
           NEW m \in Mailbox, NEW task \in Task, send(d, m, task), ~Refuse,
           NEW c \in Conn, NEW o \in Conn, Sleeps(c, o), m \in Boxes(o),
           Quiet(o, m, file[m]), TypeOK'
    PROVE  Busy(c, m)' \/ Quiet(o, m, Mail(m))'
<1>1. PICK r : \/ m \in Name /\ send_agent(d, m, r)
               \/ m \in Channel /\ send_channel(d, m, r)
    BY DEF send
<1>2. /\ outs' = <<AppendMailbox(m, r)>> /\ UNCHANGED <<st, file, clients>>
      /\ job'.rec = r /\ job'.mbox = m /\ job'.kind = "send" /\ job' \in SendJob
      /\ job' # None
  <2>1. /\ outs' = <<AppendMailbox(m, r)>> /\ UNCHANGED <<st, file, clients>>
        /\ job'.rec = r /\ job'.mbox = m /\ job'.kind = "send"
      BY SMTT(60), <1>1 DEF send_agent, send_channel, Sending, diskVars, actorVars
  <2>2. PICK S, M, F :
          /\ S \subseteq Conn /\ M \subseteq Name /\ F \subseteq {"woken", "wake_addr"}
          /\ job' = [kind |-> "send", from |-> d, mbox |-> m, rec |-> r,
                     members |-> M, todo |-> S, flags |-> F]
    <3>1. CASE m \in Name /\ send_agent(d, m, r)
      <4> DEFINE S == waiting_clients_for_name(m, r)
                 F == (IF S # {} THEN {"woken"} ELSE {})
                      \cup (IF /\ ~woken_waiter_is_canonical_holder(m, S)
                               /\ recipient_wake_addr(m, r.origin)
                            THEN {"wake_addr"} ELSE {})
      <4>1. job' = [kind |-> "send", from |-> d, mbox |-> m, rec |-> r,
                    members |-> {}, todo |-> S, flags |-> F]
          BY <3>1 DEF send_agent, Sending
      <4>2. S \subseteq Conn /\ F \subseteq {"woken", "wake_addr"}
          BY DEF waiting_clients_for_name, TypeOK
      <4> HIDE DEF S, F
      <4> QED
          BY <4>1, <4>2
    <3>2. CASE m \in Channel /\ send_channel(d, m, r)
      <4>1. channels[m] \ {r.from} \subseteq Name
          BY <3>2 DEF TypeOK
      <4> QED
          BY <3>2, <4>1 DEF send_channel, Sending
    <3> QED
        BY <1>1, <3>1, <3>2
  <2>3. r \in Record
    <3>1. outs'[1] = AppendMailbox(m, r) /\ outs' # <<>>
        BY <2>1
    <3>2. outs'[1] \in Out
        BY SMTT(60), <3>1 DEF TypeOK
    <3> QED
        BY SMTT(60), <3>1, <3>2 DEF Out, AppendOut, ReplyOut, CursorOut, AppendMailbox
  <2>4. job' \in SendJob
      BY <2>2, <2>3 DEF SendJob
  <2> QED
      BY <2>1, <2>4, JobAssumption
<1>3. r \in Record
    BY <1>2 DEF SendJob
<1>4. PICK Q : Q = Append(file[m], r)
    OBVIOUS
<1>5. Mail(m)' = Q
  <2>1. outs' # <<>> /\ outs'[1] = AppendMailbox(m, r)
      BY <1>2
  <2> QED
      BY <1>2, <1>4, <2>1 DEF Mail, Ahead, AppendMailbox
<1>6. o \in Holder /\ st[o].name \in Name /\ st[o].name = effective_identity(c)
    BY BoxesType DEF Sleeps
<1>7. CASE ~ForName(st[o].name, m, r)
  <2>1. Quiet(o, m, Q)
      BY <1>3, <1>4, <1>6, <1>7, AppendQuiet
  <2> QED
      BY <1>2, <1>5, <2>1 DEF Quiet
<1>8. CASE ForName(st[o].name, m, r)
  <2>1. effective_identity(c)' = effective_identity(c)
      BY <1>2 DEF effective_identity
  <2>2. CASE m \in Name /\ send_agent(d, m, r)
    <3>1. m = st[o].name
        BY <2>2, NameAssumption DEF Boxes, TypeOK, ClientState
    <3>2. c \in waiting_clients_for_name(m, r)
        BY <1>3, <1>8, <3>1, IsWaiter DEF ForName
    <3>3. job'.todo = waiting_clients_for_name(m, r)
        BY <2>2 DEF send_agent, Sending
    <3> QED
        BY <1>2, <3>2, <3>3 DEF Busy
  <2>3. CASE m \in Channel /\ send_channel(d, m, r)
    <3>1. m \in st[o].joined
        BY <1>6, <2>3, NameAssumption DEF Boxes
    <3>2. st[o].name \in channels[m]
        BY <1>6, <2>3, <3>1 DEF Rosters
    <3>3. job'.members = channels[m] \ {r.from}
        BY <2>3 DEF send_channel, Sending
    <3> QED
        BY <1>2, <1>6, <1>8, <2>1, <2>3, <3>2, <3>3 DEF Busy, ForName
  <2> QED
      BY <1>1, <2>2, <2>3
<1> QED
    BY <1>7, <1>8

(* The loop of a send forgets nobody.                                      *)
LEMMA StillBusy ==
    ASSUME OneTask, Sound, Next, ~Crash,
           NEW c \in Conn, NEW o \in Conn, Sleeps(c, o), pending'[c] # None,
           NEW m \in Boxes(o), Quiet(o, m, file[m]), Busy(c, m)
    PROVE  Busy(c, m)' \/ Quiet(o, m, Mail(m))
<1>0. TypeOK /\ OneHolder /\ NoOrphans /\ Durable
    BY DEF Sound
<1>1. job # None /\ job.kind = "send" /\ job.mbox = m /\ job \in SendJob
    BY <1>0 DEF Busy, TypeOK, TickJob
<1>2. o \in Holder /\ st[o].name = effective_identity(c) /\ m \in Mailbox
    BY <1>0, BoxesType DEF Sleeps
<1>3. \/ NextMember \/ WakeOne \/ SendDone
      \/ \E d \in Conn : Deadline(d) \/ Die(d)
      \/ \E k \in Mailbox : Truncate(k)
    BY <1>1 DEF Next, Wire, Disconnect, Ready, tick, Work, ExpireOne, execute_outs
<1>4. effective_identity(c)' = effective_identity(c)
  <2>1. SameIdentities
      BY <1>0, <1>3, WorkIdentities DEF Work
  <2> QED
      BY <2>1 DEF SameIdentities, effective_identity
<1>5. CASE UNCHANGED job
    BY <1>4, <1>5 DEF Busy
<1>6. CASE SendDone
    BY <1>6 DEF SendDone, Busy
<1>7. CASE WakeOne
  <2>1. PICK w \in job.todo : /\ job' = [job EXCEPT !.todo = @ \ {w}]
                              /\ pending' = [pending EXCEPT ![w] = None]
      BY <1>7 DEF WakeOne
  <2>2. c # w
      BY <1>0, <2>1 DEF TypeOK
  <2>3. /\ job'.kind = "send" /\ job'.mbox = m /\ job'.members = job.members
        /\ job'.todo = job.todo \ {w} /\ job' # None
      BY SMTT(60), <1>1, <2>1, JobAssumption DEF SendJob
  <2> QED
      BY <1>4, <2>2, <2>3 DEF Busy
<1>8. CASE NextMember
  <2>1. PICK n \in job.members :
          job' = [job EXCEPT !.members = @ \ {n},
                             !.todo = waiting_clients_for_name(n, job.rec)]
      BY <1>8 DEF NextMember
  <2>2. /\ job'.kind = "send" /\ job'.mbox = m /\ job'.members = job.members \ {n}
        /\ job'.todo = waiting_clients_for_name(n, job.rec) /\ job' # None
    <3>1. waiting_clients_for_name(n, job.rec) \subseteq Conn
        BY <1>0 DEF waiting_clients_for_name, TypeOK
    <3> QED
        BY <1>1, <2>1, <3>1, JobAssumption DEF SendJob
  <2>3. effective_identity(c) \in job.members
      BY <1>8 DEF NextMember, Busy
  <2>4. CASE n # effective_identity(c)
      BY <1>4, <2>2, <2>3, <2>4 DEF Busy
  <2>5. CASE n = effective_identity(c) /\ job.rec.origin = "Local"
    <3>1. c \in waiting_clients_for_name(n, job.rec)
        BY <1>0, <1>1, <1>2, <2>5, IsWaiter DEF SendJob
    <3> QED
        BY <2>2, <3>1 DEF Busy
  <2>6. CASE job.rec.origin # "Local"
    <3>1. outs # <<>> /\ outs[1] = AppendMailbox(m, job.rec)
        BY <1>0, <1>1 DEF Durable, SendBegun
    <3>2. Mail(m) = Append(file[m], job.rec)
        BY SMTT(60), <3>1 DEF Mail, Ahead, AppendMailbox
    <3>3. ~ForName(st[o].name, m, job.rec) /\ job.rec \in Record
        BY <1>1, <2>6 DEF ForName, SendJob
    <3> QED
        BY <1>0, <1>2, <3>2, <3>3, AppendQuiet
  <2> QED
      BY <2>4, <2>5, <2>6
<1> QED
    BY <1>3, <1>5, <1>6, <1>7, <1>8 DEF Deadline, Die, Truncate

(* Whoever is parked after an await has nothing to read.                   *)
LEMMA AwaitQuiet ==
    ASSUME Settled, OneTask, Sound, CursorInv, WakeInv, outs = <<>>,
           NEW d \in clients, NEW f \in Filter, await_envelope(d, f),
           NEW c \in Conn, NEW o \in Conn, Sleeps(c, o)', NEW m \in Boxes(o)
    PROVE  Quiet(o, m, file[m])
<1>0. /\ TypeOK /\ OneHolder /\ exists = Mailbox /\ d \in Conn
      /\ AwaitBatchCap <= FrameCap
    BY DEF Sound, Settled, TypeOK
<1>1. /\ SameIdentities /\ alive' = alive
      /\ \/ pending' = pending
         \/ /\ Resolves(d) /\ pending' = [pending EXCEPT ![d] = f]
            /\ \A k \in Boxes(Owner(d)) : drain_await_batch(Owner(d), k, f, None).ids = {}
  <2>1. CASE Refuse
      BY <2>1, UnchangedIdentities DEF Refuse, vars, actorVars, envVars
  <2>2. CASE ~Refuse
    <3>1. PICK h : h = Owner(d)
        OBVIOUS
    <3>2. PICK S, G : AwaitShape(d, f, h, S, G)
        BY <2>2, <3>1, AwaitShapes
    <3>3. Resolves(d)
        BY <2>2 DEF await_envelope
    <3>4. PICK offs : st' = [st EXCEPT ![h].await_offsets = offs] /\ clients' = clients
        BY <3>2 DEF AwaitShape
    <3>5. SameIdentities
        BY <1>0, <3>1, <3>4, OwnerIsClient, CursorIdentities
    <3> QED
        BY <3>1, <3>2, <3>3, <3>5 DEF AwaitShape
  <2> QED
      BY <2>1, <2>2
<1>2. /\ c \in clients /\ pending'[c] # None /\ o \in Holder
      /\ st[o].name = effective_identity(c) /\ (c = o \/ o \in alive)
    BY <1>1 DEF Sleeps, SameIdentities, Holder, effective_identity
<1>3. CASE pending[c] # None
    BY <1>2, <1>3 DEF Sleeps, WakeInv
<1>4. CASE pending[c] = None
  <2>1. /\ c = d /\ Resolves(d)
        /\ \A k \in Boxes(Owner(d)) : drain_await_batch(Owner(d), k, f, None).ids = {}
      BY <1>0, <1>1, <1>2, <1>4 DEF TypeOK
  <2>2. o = Owner(d)
      BY <1>0, <1>2, <2>1, OwnerHolds
  <2>3. m \in Mailbox /\ st[o].await_offsets[m] \in Nat
      BY <1>0, <1>2, BoxesType
  <2>4. PICK since, b : /\ since = st[o].await_offsets[m]
                        /\ b = drain_await_batch(o, m, f, None)
      OBVIOUS
  <2>5. since <= Len(file[m])
      BY <1>2, <2>4, ReadyMail DEF CursorInv
  <2>6. (\A r \in Record : filter_matches(f, r)) /\ b.ids = {}
      BY <2>1, <2>2, <2>4 DEF OneTask
  <2>7. \A i \in since + 1 .. Len(file[m]) : ~ForAwait(o, m, file[m][i])
      BY SMTT(60), <1>0, <1>2, <2>3, <2>4, <2>5, <2>6, Batch
  <2>8. \A i \in DOMAIN file[m] : i > since => i \in since + 1 .. Len(file[m])
      BY SMTT(60), <1>0, <2>3, <2>4 DEF TypeOK
  <2> QED
      BY <2>4, <2>7, <2>8 DEF Quiet, ForName, ForAwait
<1> QED
    BY <1>3, <1>4

LEMMA WakeStep ==
    ASSUME Settled, OneTask, Sound, Sound', CursorInv, WakeInv, Next, ~Crash
    PROVE  WakeInv'
<1>0. /\ TypeOK /\ TypeOK' /\ OneHolder' /\ NoOrphans /\ Rosters
    BY DEF Sound
<1> SUFFICES ASSUME NEW c \in Conn, NEW o \in Conn, Sleeps(c, o)', NEW m \in Boxes(o)'
             PROVE  Quiet(o, m, file[m])' /\ (Busy(c, m)' \/ Quiet(o, m, Mail(m))')
    BY DEF WakeInv
<1>1. Advance /\ (SameMail \/ \E k \in Mailbox : \E r : Sent(k, r))
    BY <1>0, StepAdvance, StepMail
<1>2. MailGrows
    BY <1>0, <1>1, StepGrows
<1>3. o \in Holder' /\ Moved(o, m)
    BY <1>1 DEF Advance, Sleeps
<1>4. m \in Mailbox
    BY SMTT(60), <1>0, <1>3 DEF TypeOK, Holder, Boxes, ClientState, Mailbox
<1>5. /\ Mail(m) \in Seq(Record) /\ Mail(m)' \in Seq(Record)
      /\ file[m] \in Seq(Record) /\ file'[m] \in Seq(Record)
      /\ st[o].await_offsets[m] \in Nat /\ st'[o].await_offsets[m] \in Nat
  <2>1. Mail(m) \in Seq(Record) /\ Mail(m)' \in Seq(Record)
      BY <1>0, <1>2, <1>4, MailType DEF MailGrows
  <2> QED
      BY SMTT(60), <1>0, <1>4, <2>1 DEF TypeOK, ClientState
<1>6. /\ DOMAIN file'[m] \subseteq DOMAIN Mail(m)'
      /\ \A i \in DOMAIN file'[m] : Mail(m)'[i] = file'[m][i]
    BY SMTT(60), <1>5 DEF Mail
<1>7. Quiet(o, m, Mail(m))' => Quiet(o, m, file[m])'
    BY <1>6 DEF Quiet
<1>8. CASE st'[o].await_offsets[m] = Len(Mail(m)')
  <2>1. \A i \in DOMAIN Mail(m)' : ~(i > st'[o].await_offsets[m])
      BY SMTT(60), <1>5, <1>8
  <2> QED
      BY <1>7, <2>1 DEF Quiet
<1>9. CASE /\ o \in Holder /\ st'[o].name = st[o].name /\ m \in Boxes(o)
           /\ st[o].await_offsets[m] <= st'[o].await_offsets[m]
  <2>1. ASSUME NEW Q \in Seq(Record), Quiet(o, m, Q)
        PROVE  \A i \in DOMAIN Q : i > st'[o].await_offsets[m] => ~ForName(st'[o].name, m, Q[i])
    <3>1. \A i \in DOMAIN Q : i > st'[o].await_offsets[m] => i > st[o].await_offsets[m]
        BY SMTT(60), <1>5, <1>9
    <3> QED
        BY <1>9, <2>1, <3>1 DEF Quiet
  <2>2. CASE Mail(m)' = Mail(m) /\ Quiet(o, m, Mail(m))
    <3>1. Quiet(o, m, Mail(m))'
        BY <1>5, <2>1, <2>2 DEF Quiet
    <3> QED
        BY <1>7, <3>1
  <2>3. ASSUME \E d \in Conn : Wire(d) /\ d \in clients /\ \E f \in Filter : await_envelope(d, f)
        PROVE  Quiet(o, m, file[m])' /\ Quiet(o, m, Mail(m))'
    <3>1. PICK d \in clients, f \in Filter : await_envelope(d, f) /\ Wire(d)
        BY <2>3
    <3>2. outs = <<>> /\ job = None
        BY <3>1 DEF Wire, Ready
    <3>3. Quiet(o, m, file[m])
        BY <1>9, <3>1, <3>2, AwaitQuiet
    <3>4. Mail(m) = file[m]
        BY <3>2, ReadyMail
    <3>5. Mail(m)' = Mail(m)
      <4>1. d \in Conn
          BY <1>0 DEF TypeOK
      <4>2. nmsg' = nmsg
          BY <3>1 DEF await_envelope, Refuse, vars, envVars
      <4>3. nmsg \in Nat
          BY <1>0 DEF TypeOK
      <4> QED
          BY SMTT(60), <1>1, <1>4, <4>2, <4>3 DEF SameMail, Sent
    <3> QED
        BY <2>2, <3>3, <3>4, <3>5, <1>5, <2>1, <1>7 DEF Quiet
  <2>4. ASSUME ~\E d \in Conn : Wire(d) /\ d \in clients /\ \E f \in Filter : await_envelope(d, f)
        PROVE  Sleeps(c, o)
    <3>1. SameSleepers
      <4>1. CASE \E d \in Conn : Wire(d)
        <5>1. PICK d \in Conn : Wire(d)
            BY <4>1
        <5>2. CASE d \in clients
            BY <1>0, <2>4, <5>1, <5>2, WireSleepers
        <5>3. CASE d \notin clients
          <6>1. CASE Refuse
              BY <6>1 DEF Refuse, vars, actorVars, envVars, SameSleepers
          <6> QED
              BY <1>0, <5>1, <5>3, <6>1, HelloSleepers DEF Wire, handle_wire
        <5> QED
            BY <5>2, <5>3
      <4> QED
          BY <1>0, <4>1, OtherSleepers DEF Next
    <3> QED
        BY <1>0, <1>9, <3>1, WasAsleep
  <2>5. ASSUME Sleeps(c, o)
        PROVE  Quiet(o, m, file[m])' /\ (Busy(c, m)' \/ Quiet(o, m, Mail(m))')
    <3>1. Quiet(o, m, file[m]) /\ (Busy(c, m) \/ Quiet(o, m, Mail(m)))
        BY <1>9, <2>5 DEF WakeInv
    <3>2. CASE execute_outs
        BY <1>4, <2>2, <3>1, <3>2, ExecuteMail DEF execute_outs, Busy
    <3>3. CASE UNCHANGED file
      <4>1. Quiet(o, m, file[m])'
          BY <1>5, <2>1, <3>1, <3>3 DEF Quiet
      <4>2. CASE Mail(m)' = Mail(m)
        <5>1. Busy(c, m)' \/ Quiet(o, m, Mail(m))
            BY <1>9, <2>5, <3>1, StillBusy DEF Sleeps
        <5> QED
            BY <2>2, <4>1, <4>2, <5>1
      <4>3. CASE Mail(m)' # Mail(m)
        <5>1. PICK r : Sent(m, r)
            BY <1>1, <1>4, <4>3 DEF SameMail, Sent
        <5>2. PICK d \in Conn, k \in Mailbox, task \in Task :
                 Wire(d) /\ send(d, k, task) /\ ~Refuse
          <6>1. nmsg' # nmsg
              BY SMTT(60), <1>0, <5>1 DEF Sent, TypeOK
          <6>2. \E d \in Conn : Wire(d)
              BY <6>1 DEF Next, Work, Disconnect, Deadline, Die, Truncate, tick,
                 NextMember,
                          WakeOne, SendDone, ExpireOne, execute_outs, execute_append,
                          execute_cursor, execute_reply, envVars
          <6> QED
              BY <1>0, <6>1, <6>2, WireMail DEF SameMail
        <5>3. outs = <<>>
            BY <5>2 DEF Wire, Ready
        <5>4. k = m
            BY <1>0, <1>4, <4>3, <5>2, <5>3, SendMail DEF Sent
        <5>5. Busy(c, m)' \/ Quiet(o, m, Mail(m))'
            BY <1>0, <1>4, <1>9, <2>5, <3>1, <5>2, <5>3, <5>4, SendBusy
        <5> QED
            BY <4>1, <5>5
      <4> QED
          BY <4>2, <4>3
    <3>4. CASE \E k \in Mailbox : Truncate(k)
        BY <3>4 DEF Truncate, Settled, Reliable
    <3>5. CASE \E d \in Conn : Wire(d)
        BY <3>3, <3>5, WireFiles
    <3> QED
        BY <3>2, <3>3, <3>4, <3>5
           DEF Next, Work, Disconnect, Deadline, Die, tick, NextMember, WakeOne,
               SendDone, ExpireOne, diskVars
  <2> QED
      BY <2>3, <2>4, <2>5
<1> QED
    BY <1>3, <1>8, <1>9 DEF Moved

LEMMA AlwaysWake ==
    ASSUME Settled, OneTask
    PROVE  Spec => []WakeInv
<1>1. Init => WakeInv
    BY DEF Init, WakeInv, Sleeps
<1>2. Sound /\ Sound' /\ CursorInv /\ WakeInv /\ [Next]_vars => WakeInv'
  <2> SUFFICES ASSUME Sound, Sound', CursorInv, WakeInv, [Next]_vars PROVE WakeInv'
      OBVIOUS
  <2>1. CASE Next /\ ~Crash
      BY <2>1, WakeStep
  <2>2. CASE Crash
      BY <2>2 DEF Crash, WakeInv, Sleeps
  <2>3. CASE UNCHANGED vars
    <3>1. UNCHANGED <<clients, st, pending, alive, file, job>> /\ \A m : Mail(m)' = Mail(m)
        BY <2>3, SameFront DEF vars, actorVars, diskVars, envVars
    <3>2. Holder' = Holder /\ (\A o : Boxes(o)' = Boxes(o))
        BY <3>1 DEF Holder, Boxes
    <3>3. \A c : effective_identity(c)' = effective_identity(c)
        BY <3>1 DEF effective_identity
    <3> QED
        BY SMTT(60), <3>1, <3>2, <3>3 DEF WakeInv, Sleeps, Quiet, Busy
  <2> QED
      BY <2>1, <2>2, <2>3
<1>3. (Spec => []Sound) /\ (Spec => []CursorInv)
    BY AlwaysSound, AlwaysCursor
<1> QED
    BY <1>1, <1>2, <1>3, PTL DEF Spec

THEOREM NobodySleeps ==
    ASSUME Settled, OneTask
    PROVE  Spec => []NoLostWakeup
<1>1. Sound /\ CursorInv /\ WakeInv => NoLostWakeup
  <2> SUFFICES ASSUME Sound, CursorInv, WakeInv, Ready, NEW c \in clients,
                      pending[c] # None, Resolves(c),
                      NEW m \in {effective_identity(c)} \cup st[Owner(c)].joined
               PROVE  drain_await_batch(Owner(c), m, pending[c], None).ids = {}
      BY DEF NoLostWakeup
  <2>1. TypeOK /\ OneHolder /\ exists = Mailbox /\ AwaitBatchCap <= FrameCap /\ c \in Conn
      BY DEF Sound, Settled, TypeOK
  <2>2. PICK o, f : o = Owner(c) /\ f = pending[c]
      OBVIOUS
  <2>3. /\ o \in Holder /\ o \in Conn /\ st[o].name = effective_identity(c)
        /\ \A h \in Holder : st[h].name = effective_identity(c) => h = o
        /\ st[c].name # None => o = c
      BY <2>1, <2>2, OwnerHolds
  <2>4. c = o \/ o \in alive
    <3>1. CASE st[c].name = None
      <4>1. PICK h \in Holders(st[c].bind_as) : h \in alive /\ st[c].bind_as # None
          BY <3>1 DEF Resolves, proxy_holder_alive
      <4>2. h \in Holder /\ st[h].name = effective_identity(c)
          BY <3>1, <4>1 DEF Holders, Holder, effective_identity
      <4> QED
          BY <2>3, <4>1, <4>2
    <3> QED
        BY <2>3, <3>1
  <2>5. m \in Boxes(o) /\ m \in Mailbox
      BY <2>1, <2>2, <2>3, BoxesType DEF Boxes
  <2>6. Quiet(o, m, file[m])
      BY <2>1, <2>3, <2>4, <2>5 DEF WakeInv, Sleeps
  <2>7. PICK since, b : since = st[o].await_offsets[m] /\ b = drain_await_batch(o, m, f, None)
      OBVIOUS
  <2>8. since <= Len(file[m])
      BY <2>3, <2>5, <2>7, ReadyMail DEF CursorInv, Ready
  <2>9. /\ since \in Nat /\ b.next_offset \in since .. Len(file[m])
        /\ \A x \in b.ids : \E i \in since + 1 .. b.next_offset :
              ForAwait(o, m, file[m][i]) /\ file[m][i].id = x
      BY SMTT(60), <2>1, <2>3, <2>5, <2>7, <2>8, Batch
  <2>10. \A i \in since + 1 .. b.next_offset : ~ForAwait(o, m, file[m][i])
    <3>1. \A i \in since + 1 .. b.next_offset : i \in DOMAIN file[m] /\ i > since
        BY SMTT(60), <2>1, <2>5, <2>9 DEF TypeOK
    <3> QED
        BY <2>6, <2>7, <3>1 DEF Quiet, ForName, ForAwait
  <2> QED
      BY <2>2, <2>7, <2>9, <2>10
<1>2. (Spec => []Sound) /\ (Spec => []CursorInv) /\ (Spec => []WakeInv)
    BY AlwaysSound, AlwaysCursor, AlwaysWake
<1> QED
    BY <1>1, <1>2, PTL

-----------------------------------------------------------------------------
(* Who is given what: an id stands for one envelope.                       *)

(* What the mailbox files hold at first is unreadable or empty, so that an *)
(* id stands for one envelope.                                             *)
Blank == \A i \in DOMAIN Legacy : ~Legacy[i].ok

(* An envelope is in one place, under a number that was given out.         *)
MailIds ==
    /\ \A m, k \in Mailbox : \A i \in DOMAIN Mail(m), j \in DOMAIN Mail(k) :
          Mail(m)[i].ok /\ Mail(k)[j].ok /\ Mail(m)[i].id = Mail(k)[j].id
              => m = k /\ i = j
    /\ \A m \in Mailbox : \A i \in DOMAIN Mail(m) :
          Mail(m)[i].ok => Mail(m)[i].id \in 1 .. nmsg

LEMMA SentIds ==
    ASSUME TypeOK, MailIds, NEW m \in Mailbox, NEW r, Sent(m, r)
    PROVE  MailIds'
<1>1. nmsg \in Nat /\ \A k \in Mailbox : Mail(k) \in Seq(Record)
  <2>1. nmsg \in Nat
      BY DEF TypeOK
  <2> QED
      BY <2>1, MailType
<1>2. /\ nmsg' = nmsg + 1 /\ r.id = nmsg + 1
      /\ Mail(m)' = Append(Mail(m), r) /\ \A k \in Mailbox \ {m} : Mail(k)' = Mail(k)
    BY DEF Sent
<1>3. \A k \in Mailbox : \A i \in DOMAIN Mail(k)' :
          \/ i \in DOMAIN Mail(k) /\ Mail(k)'[i] = Mail(k)[i]
          \/ k = m /\ i = Len(Mail(m)) + 1 /\ Mail(k)'[i] = r
    BY SMTT(60), <1>1, <1>2
<1>4. \A k \in Mailbox : \A i \in DOMAIN Mail(k) :
          Mail(k)[i].ok => Mail(k)[i].id \in 1 .. nmsg' /\ Mail(k)[i].id # r.id
  <2>1. \A x \in 1 .. nmsg : x \in 1 .. nmsg' /\ x # r.id
      BY SMTT(60), <1>1, <1>2
  <2> QED
      BY <2>1 DEF MailIds
<1>5. r.id \in 1 .. nmsg'
    BY SMTT(60), <1>1, <1>2
<1>6. ASSUME NEW k \in Mailbox, NEW l \in Mailbox,
             NEW i \in DOMAIN Mail(k)', NEW j \in DOMAIN Mail(l)',
             Mail(k)'[i].ok, Mail(l)'[j].ok, Mail(k)'[i].id = Mail(l)'[j].id
      PROVE  k = l /\ i = j
    BY SMTT(60), <1>3, <1>4, <1>6 DEF MailIds
<1>7. \A k \in Mailbox : \A i \in DOMAIN Mail(k)' :
          Mail(k)'[i].ok => Mail(k)'[i].id \in 1 .. nmsg'
    BY <1>3, <1>4, <1>5
<1> QED
    BY <1>6, <1>7 DEF MailIds

LEMMA AlwaysIds ==
    ASSUME Settled, Blank
    PROVE  Spec => []MailIds
<1>1. Init => MailIds
  <2> SUFFICES ASSUME Init PROVE MailIds
      OBVIOUS
  <2>1. \A m \in Mailbox : Mail(m) = Legacy
      BY ReadyMail DEF Init, Settled
  <2> QED
      BY <2>1 DEF MailIds, Blank
<1>2. Sound /\ Sound' /\ MailIds /\ [Next]_vars => MailIds'
  <2> SUFFICES ASSUME Sound, Sound', MailIds, [Next]_vars PROVE MailIds'
      OBVIOUS
  <2>0. TypeOK /\ TypeOK'
      BY DEF Sound
  <2>1. CASE ~Crash
    <3>1. CASE SameMail
        BY SMTT(60), <3>1 DEF SameMail, MailIds
    <3> QED
        BY <2>0, <2>1, <3>1, StepMail, SentIds
  <2>2. CASE Crash
    <3>1. /\ nmsg' = nmsg
          /\ \A m \in Mailbox : Mail(m)' = file[m]
        BY <2>2 DEF Crash, Mail, Ahead, diskVars
    <3>2. ASSUME NEW m \in Mailbox
          PROVE  /\ DOMAIN file[m] \subseteq DOMAIN Mail(m)
                 /\ \A i \in DOMAIN file[m] : Mail(m)[i] = file[m][i]
      <4>1. Mail(m) \in Seq(Record)
          BY <2>0, MailType
      <4>2. file[m] \in Seq(Record)
          BY <2>0 DEF TypeOK
      <4> QED
          BY SMTT(60), <4>1, <4>2 DEF Mail
    <3> QED
        BY SMTT(60), <3>1, <3>2 DEF MailIds
  <2> QED
      BY <2>1, <2>2
<1>3. Spec => []Sound
    BY AlwaysSound
<1> QED
    BY <1>1, <1>2, <1>3, PTL DEF Spec

(* Only a holder is given anything.                                        *)
StrangersKeep ==
    \A c \in Conn \ Holder' : /\ delivered'[c] \subseteq delivered[c]
                              /\ inboxed'[c] \subseteq inboxed[c]

LEMMA HolderGets ==
    ASSUME TypeOK, NEW o \in Holder',
           \/ delivered' = delivered
           \/ \E A : delivered' = [delivered EXCEPT ![o] = A],
           \/ inboxed' = inboxed
           \/ \E B : inboxed' = [inboxed EXCEPT ![o] = B]
    PROVE  StrangersKeep
BY DEF StrangersKeep, TypeOK

LEMMA OwnerGets ==
    ASSUME TypeOK, OneHolder, NEW c \in Conn, Resolves(c), SameIdentities,
           \/ delivered' = delivered
           \/ \E A : delivered' = [delivered EXCEPT ![Owner(c)] = A],
           \/ inboxed' = inboxed
           \/ \E B : inboxed' = [inboxed EXCEPT ![Owner(c)] = B]
    PROVE  StrangersKeep
<1>1. Holder' = Holder
    BY SameHolders DEF SameIdentities, TypeOK
<1>2. Owner(c) \in Holder
    BY OwnerHolds
<1> QED
    BY <1>1, <1>2, HolderGets

LEMMA StrangersStep ==
    ASSUME Sound, Next
    PROVE  StrangersKeep
<1>0. TypeOK /\ OneHolder /\ NoOrphans
    BY DEF Sound
<1>1. CASE UNCHANGED <<delivered, inboxed>>
    BY <1>1 DEF StrangersKeep
<1>2. ASSUME NEW S, disconnect(S)
      PROVE  StrangersKeep
    BY <1>2 DEF disconnect, StrangersKeep
<1>3. CASE Crash
    BY <1>3 DEF Crash, StrangersKeep
<1>4. CASE WakeOne
  <2>1. SameIdentities
      BY <1>0, <1>4, WorkIdentities DEF Work
  <2>2. PICK w \in job.todo :
           /\ UNCHANGED inboxed
           /\ \/ UNCHANGED delivered
              \/ Resolves(w) /\ \E A : delivered' = [delivered EXCEPT ![Owner(w)] = A]
      BY <1>4 DEF WakeOne
  <2>3. w \in Conn
      BY <1>0, <1>4, <2>2 DEF WakeOne, TypeOK, SendJob, TickJob
  <2> QED
      BY <1>0, <1>1, <2>1, <2>2, <2>3, OwnerGets
<1>5. ASSUME NEW c \in Conn, Wire(c), ~UNCHANGED <<delivered, inboxed>>
      PROVE  StrangersKeep
  <2>1. /\ ~Refuse /\ ~\E bound \in Name \cup {None} : Hello(c, bound)
      BY <1>5 DEF Refuse, Hello, vars, history
  <2>2. c \in clients
      BY <1>5, <2>1 DEF Wire, handle_wire
  <2>3. CASE \E n \in Name, o \in Origins, l \in Flags : register(c, n, o, l)
    <3>1. PICK n \in Name, o \in Origins, l \in Flags : register(c, n, o, l)
        BY <2>3
    <3>2. PICK off : off = DrainEnd(n, 0)
        OBVIOUS
    <3>3. /\ clients' = clients /\ inboxed' = inboxed
          /\ \E A : delivered' = [delivered EXCEPT ![c] = A]
          /\ st' = [st EXCEPT ![c].name = n, ![c].origin = o,
                              ![c].listen_mode = l, ![c].await_offsets[n] = off]
        BY <2>1, <3>1, <3>2 DEF register
    <3>4. st'[c].name = n
        BY SMTT(60), <1>0, <3>3 DEF TypeOK, ClientState
    <3>5. c \in Holder'
        BY <2>2, <3>3, <3>4, NamesAreSome DEF Holder
    <3> QED
        BY <1>0, <3>3, <3>5, HolderGets
  <2>4. ASSUME ~\E n \in Name, o \in Origins, l \in Flags : register(c, n, o, l)
        PROVE  StrangersKeep
    <3>1. SameIdentities
        BY <1>0, <1>5, <2>1, <2>4, WireIdentities
    <3>2. CASE \E f \in Filter : await_envelope(c, f)
      <4>1. /\ Resolves(c) /\ inboxed' = inboxed
            /\ \/ delivered' = delivered
               \/ \E A : delivered' = [delivered EXCEPT ![Owner(c)] = A]
          BY <2>1, <3>2 DEF await_envelope
      <4> QED
          BY <1>0, <3>1, <4>1, OwnerGets
    <3>3. CASE \E ch \in Channel, role \in Flags : join(c, ch, role)
      <4>1. /\ Resolves(c)
            /\ \E A : delivered' = [delivered EXCEPT ![Owner(c)] = A]
            /\ \E B : inboxed' = [inboxed EXCEPT ![Owner(c)] = B]
          BY <2>1, <3>3 DEF join
      <4> QED
          BY <1>0, <3>1, <4>1, OwnerGets
    <3>4. CASE \E since \in 0 .. MaxMsg : inbox(c, since)
      <4>1. /\ Resolves(c) /\ delivered' = delivered
            /\ \E B : inboxed' = [inboxed EXCEPT ![Owner(c)] = B]
          BY <2>1, <3>4 DEF inbox
      <4> QED
          BY <1>0, <3>1, <4>1, OwnerGets
    <3>5. CASE \/ \E l \in Flags : set_listen(c, l) \/ set_wake_addr(c, l)
               \/ \E m \in Mailbox, t \in Task : send(c, m, t)
               \/ \E ch \in Channel : leave(c, ch)
        BY <1>5, <2>1, <3>5 DEF set_listen, set_wake_addr, send, send_agent,
                                send_channel, Sending, leave, history
    <3> QED
        BY <1>5, <2>1, <2>4, <3>2, <3>3, <3>4, <3>5 DEF Wire, handle_wire
  <2> QED
      BY <2>3, <2>4
<1> QED
    BY <1>1, <1>2, <1>3, <1>4, <1>5
       DEF Next, Work, Disconnect, Deadline, Die, Truncate, tick, NextMember,
           SendDone, ExpireOne, execute_outs, history

=============================================================================
