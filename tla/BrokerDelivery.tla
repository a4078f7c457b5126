--------------------------- MODULE BrokerDelivery ---------------------------
(***************************************************************************)
(* Proofs about the broker's mailboxes, for every configuration: no await  *)
(* cursor passes an envelope that no await of its holder was given         *)
(* (NothingSkipped).                                                       *)
(***************************************************************************)
EXTENDS BrokerSafety

(* Zenon proves a leaf unless the leaf asks for arithmetic (SMTT).         *)
USE ZenonT(60)
-----------------------------------------------------------------------------
(* Whom a send may wake.                                                   *)

(* Everyone a send still has to look at reads the mailbox it writes to.    *)
Addressed ==
    job # None /\ job.kind = "send" =>
        /\ job.rec.ok
        /\ \A w \in job.todo, o \in Holder :
              st[o].name = effective_identity(w) => job.mbox \in Boxes(o)
        /\ \A n \in job.members, o \in Holder :
              st[o].name = n => job.mbox \in Boxes(o)

(* A waiter for a name acts under that name.                               *)
LEMMA WaitersActAs ==
    ASSUME NEW n \in Name, NEW r, NEW w \in waiting_clients_for_name(n, r)
    PROVE  effective_identity(w) = n
BY NamesAreSome DEF waiting_clients_for_name, effective_identity, IsProxy

LEMMA SendAddressed ==
    ASSUME TypeOK, OneHolder, Rosters, NEW c \in Conn, NEW m \in Mailbox,
           NEW task \in Task, send(c, m, task), ~Refuse
    PROVE  Addressed'
<1>1. PICK r : /\ r.ok
               /\ \/ m \in Name /\ send_agent(c, m, r)
                  \/ m \in Channel /\ send_channel(c, m, r)
    BY DEF send
<1>2. ASSUME NEW M, NEW S, NEW flags, Sending(c, m, r, M, S, flags),
             \A w \in S, o \in Holder : st[o].name = effective_identity(w) => m \in Boxes(o),
             \A n \in M, o \in Holder : st[o].name = n => m \in Boxes(o)
      PROVE  Addressed'
  <2>1. /\ job'.rec = r /\ job'.mbox = m /\ job'.members = M /\ job'.todo = S
        /\ UNCHANGED <<clients, st>>
      BY <1>2 DEF Sending, actorVars
  <2>2. Holder' = Holder /\ \A o : Boxes(o)' = Boxes(o)
      BY <2>1 DEF Holder, Boxes
  <2>3. \A w : effective_identity(w)' = effective_identity(w)
      BY <2>1 DEF effective_identity
  <2> QED
      BY <1>1, <1>2, <2>1, <2>2, <2>3 DEF Addressed
<1>3. CASE m \in Name /\ send_agent(c, m, r)
  <2>1. PICK flags : Sending(c, m, r, {}, waiting_clients_for_name(m, r), flags)
      BY <1>3 DEF send_agent
  <2>2. \A w \in waiting_clients_for_name(m, r) : effective_identity(w) = m
      BY <1>3, WaitersActAs
  <2>3. \A o : st[o].name = m => m \in Boxes(o)
      BY DEF Boxes
  <2> QED
      BY SMTT(60), <1>2, <2>1, <2>2, <2>3
<1>4. CASE m \in Channel /\ send_channel(c, m, r)
  <2>1. Sending(c, m, r, channels[m] \ {r.from}, {}, {})
      BY <1>4 DEF send_channel
  <2>2. \A n \in channels[m], o \in Holder : st[o].name = n => m \in Boxes(o)
    <3> SUFFICES ASSUME NEW n \in channels[m], NEW o \in Holder, st[o].name = n
                 PROVE  m \in Boxes(o)
        OBVIOUS
    <3>1. n \in Name
        BY <1>4 DEF TypeOK
    <3>2. PICK h \in Holder : st[h].name = n /\ m \in st[h].joined
        BY SMTT(60), <1>4, <3>1 DEF Rosters
    <3>3. h = o
        BY <3>1, <3>2, NamesAreSome DEF OneHolder, Holder
    <3> QED
        BY <3>2, <3>3 DEF Boxes
  <2> QED
      BY SMTT(60), <1>2, <2>1, <2>2
<1> QED
    BY <1>1, <1>3, <1>4

LEMMA AddressedStep ==
    ASSUME TypeOK, SessionsHold, Rosters, Addressed, [Next]_vars
    PROVE  Addressed'
<1>0. OneHolder /\ NoOrphans
    BY DEF SessionsHold
<1>1. CASE UNCHANGED <<clients, st, job>>
  <2>1. Holder' = Holder /\ (\A o : Boxes(o)' = Boxes(o))
      BY <1>1 DEF Holder, Boxes
  <2>2. \A w : effective_identity(w)' = effective_identity(w)
      BY <1>1 DEF effective_identity
  <2> QED
      BY <1>1, <2>1, <2>2 DEF Addressed
<1>2. CASE job' = None \/ job'.kind = "tick"
    BY <1>2 DEF Addressed
<1>3. CASE \E c \in Conn : Wire(c)
  <2>1. PICK c \in Conn : Ready /\ handle_wire(c)
      BY <1>3 DEF Wire
  <2>2. CASE \E m \in Mailbox, t \in Task : send(c, m, t)
    <3>1. CASE Refuse
        BY <1>1, <3>1 DEF Refuse, vars, actorVars
    <3> QED
        BY <1>0, <2>2, <3>1, SendAddressed
  <2>3. CASE UNCHANGED job
      BY <1>2, <2>1, <2>3 DEF Ready
  <2> QED
      BY <2>1, <2>2, <2>3
         DEF handle_wire, Hello, register, set_listen, set_wake_addr, inbox,
             await_envelope, join, leave, Refuse, vars
<1>4. CASE NextMember \/ WakeOne
  <2>1. job \in SendJob /\ job # None /\ job.kind = "send"
      BY <1>4 DEF NextMember, WakeOne, TypeOK, TickJob
  <2>2. SameMembers
      BY <1>0, <1>4, WorkMembers DEF Work
  <2>3. /\ Holder' = Holder /\ Holder \subseteq Conn
        /\ \A o \in Holder : Boxes(o)' = Boxes(o) /\ st'[o].name = st[o].name
    <3>1. Holder' = Holder /\ Holder \subseteq Conn
        BY <2>2, SameHolders DEF SameMembers, TypeOK, Holder
    <3> QED
        BY <2>2, <3>1 DEF SameMembers, Boxes
  <2>4. \A w \in Conn : effective_identity(w)' = effective_identity(w)
      BY <2>2 DEF SameMembers, effective_identity
  <2>5. CASE NextMember
    <3>1. PICK n \in job.members :
             job' = [job EXCEPT !.members = @ \ {n},
                                !.todo = waiting_clients_for_name(n, job.rec)]
        BY <2>5 DEF NextMember
    <3>2. /\ job'.rec = job.rec /\ job'.mbox = job.mbox
          /\ job'.members = job.members \ {n}
          /\ job'.todo = waiting_clients_for_name(n, job.rec)
          /\ n \in Name
        BY <2>1, <3>1 DEF SendJob
    <3>3. \A w \in job'.todo : w \in Conn /\ effective_identity(w) = n
        BY <3>2, WaitersActAs DEF waiting_clients_for_name, TypeOK
    <3> QED
        BY SMTT(60), <2>1, <2>3, <2>4, <3>2, <3>3 DEF Addressed
  <2>6. CASE WakeOne
    <3>1. PICK w \in job.todo : job' = [job EXCEPT !.todo = @ \ {w}]
        BY <2>6 DEF WakeOne
    <3>2. /\ job'.rec = job.rec /\ job'.mbox = job.mbox
          /\ job'.members = job.members /\ job'.todo = job.todo \ {w}
          /\ job.todo \subseteq Conn
        BY <2>1, <3>1 DEF SendJob
    <3> QED
        BY SMTT(60), <2>1, <2>3, <2>4, <3>2 DEF Addressed
  <2> QED
      BY <1>4, <2>5, <2>6
<1>5. CASE ExpireOne
  <2>1. job \in TickJob
      BY <1>5 DEF ExpireOne, TypeOK, SendJob
  <2>2. job' = None \/ \E w \in job.todo : job' = [job EXCEPT !.todo = @ \ {w}]
      BY <1>5 DEF ExpireOne
  <2> QED
      BY <1>2, <2>1, <2>2 DEF TickJob
<1>6. CASE tick
  <2>1. job' = None \/ job' = [kind |-> "tick", todo |-> job'.todo]
      BY <1>6 DEF tick
  <2> QED
      BY SMTT(60), <1>2, <2>1
<1>7. CASE SendDone \/ execute_outs \/ Crash \/ \E c \in Conn : Disconnect(c)
    BY <1>2, <1>7 DEF SendDone, execute_outs, Crash, Disconnect, Ready
<1> QED
    BY <1>1, <1>3, <1>4, <1>5, <1>6, <1>7
       DEF Next, Work, Deadline, Die, Truncate, vars, actorVars

-----------------------------------------------------------------------------
(* The mailboxes as their readers are to see them.                         *)

(* What the delivery theorems assume.  Appends succeed and nobody clears a *)
(* mailbox, so a record stays where it is.  Every mailbox has its file: an *)
(* offset taken before the first append is the caller's own (DrainEnd).    *)
(* A client keeps the name it took.  A full await batch fits in a frame.   *)
Settled == Reliable /\ Born = Mailbox /\ ~Rebind /\ AwaitBatchCap <= FrameCap

Sound == /\ TypeOK /\ OneHolder /\ NoOrphans /\ Rosters /\ Durable /\ WakeReason
         /\ Addressed /\ exists = Mailbox

LEMMA WireFiles ==
    ASSUME NEW c \in Conn, Wire(c)
    PROVE  UNCHANGED <<file, exists>>
<1>1. CASE Refuse
    BY <1>1 DEF Refuse, vars, diskVars
<1>2. CASE \E m \in Mailbox, t \in Task : send(c, m, t)
    BY <1>1, <1>2 DEF send, send_agent, send_channel, Sending, diskVars
<1>3. CASE \E bound \in Name \cup {None} : Hello(c, bound)
    BY <1>1, <1>3 DEF Hello, diskVars
<1>4. CASE \E n \in Name, o \in Origins, l \in Flags : register(c, n, o, l)
    BY <1>1, <1>4 DEF register, diskVars
<1>5. CASE \E l \in Flags : set_listen(c, l) \/ set_wake_addr(c, l)
    BY <1>1, <1>5 DEF set_listen, set_wake_addr, diskVars
<1>6. CASE \E since \in 0 .. MaxMsg : inbox(c, since)
    BY <1>1, <1>6 DEF inbox, diskVars
<1>7. CASE \E f \in Filter : await_envelope(c, f)
    BY <1>1, <1>7 DEF await_envelope, diskVars
<1>8. CASE \E ch \in Channel : (\E role \in Flags : join(c, ch, role)) \/ leave(c, ch)
    BY <1>1, <1>8 DEF join, leave, diskVars
<1> QED
    BY <1>1, <1>2, <1>3, <1>4, <1>5, <1>6, <1>7, <1>8 DEF Wire, handle_wire

LEMMA AlwaysSound ==
    ASSUME Settled
    PROVE  Spec => []Sound
<1> DEFINE Inv == Addressed /\ exists = Mailbox
<1>0. Reliable /\ Born = Mailbox /\ ~Rebind
    BY DEF Settled
<1>1. Init => Inv
  <2> SUFFICES ASSUME Init PROVE Inv
      OBVIOUS
  <2> QED
      BY <1>0 DEF Init, Addressed
<1>2. TypeOK /\ TypeOK' /\ SessionsHold /\ Rosters /\ Inv /\ [Next]_vars => Inv'
  <2> SUFFICES ASSUME TypeOK, TypeOK', SessionsHold, Rosters, Inv, [Next]_vars
               PROVE  Inv'
      OBVIOUS
  <2>1. Addressed'
      BY AddressedStep
  <2>2. exists \subseteq exists'
    <3>1. CASE execute_outs
        BY <3>1 DEF execute_outs, execute_append, execute_cursor, execute_reply,
                    diskVars
    <3>2. CASE UNCHANGED exists
        BY <3>2
    <3>3. CASE \E c \in Conn : Wire(c)
        BY <3>2, <3>3, WireFiles
    <3> QED
        BY <3>1, <3>2, <3>3
           DEF Next, Work, Disconnect, Deadline, Die, Truncate, tick, NextMember,
               WakeOne, SendDone, ExpireOne, Crash, vars, diskVars
  <2>3. exists' \subseteq Mailbox
      BY DEF TypeOK
  <2> QED
      BY <2>1, <2>2, <2>3
<1>3. Spec => []Rosters
    BY <1>0, AlwaysRosters
<1>4. Spec => []Durable
    BY <1>0, AlwaysDurable
<1>5. SessionsHold => OneHolder /\ NoOrphans
    BY DEF SessionsHold
<1>6. TypeOK /\ SessionsHold /\ Rosters /\ Durable /\ WakeReason /\ NoInternalReply /\ Inv
         => Sound
    BY <1>5 DEF Sound
<1> HIDE DEF Inv
<1> QED
    BY <1>1, <1>2, <1>3, <1>4, <1>6, TypeCorrect, Sessions, AlwaysReason, PTL DEF Spec

(* The envelope being sent counts as the last record of its mailbox.       *)
Ahead(m) == outs # <<>> /\ outs[1].kind = "Append" /\ outs[1].mbox = m
Mail(m)  == IF Ahead(m) THEN Append(file[m], outs[1].rec) ELSE file[m]

LEMMA MailType ==
    ASSUME TypeOK, NEW m \in Mailbox
    PROVE  Mail(m) \in Seq(Record)
<1>1. file[m] \in Seq(Record) /\ outs \in Seq(Out)
    BY DEF TypeOK
<1>2. CASE Ahead(m)
  <2>1. outs[1] \in Out
      BY SMTT(60), <1>1, <1>2 DEF Ahead
  <2>2. outs[1] \in AppendOut
      BY <1>2, <2>1 DEF Ahead, Out, ReplyOut, CursorOut
  <2>3. outs[1].rec \in Record
      BY <2>2 DEF AppendOut
  <2> QED
      BY SMTT(60), <1>1, <1>2, <2>3 DEF Mail
<1>3. CASE ~Ahead(m)
    BY <1>1, <1>3 DEF Mail
<1> QED
    BY <1>2, <1>3

LEMMA ReadyMail ==
    ASSUME outs = <<>>, NEW m
    PROVE  Mail(m) = file[m]
BY DEF Mail, Ahead

(* Nothing but a send, the execution of its append and a crash touches     *)
(* what the mailboxes hold.                                                *)
LEMMA SameFront ==
    ASSUME UNCHANGED file,
           \/ UNCHANGED outs
           \/ outs = <<>> /\ (outs' = <<>> \/ outs'[1].kind # "Append")
           \/ outs # <<>> /\ outs' # <<>> /\ outs'[1] = outs[1]
    PROVE  \A m : Mail(m)' = Mail(m)
BY DEF Mail, Ahead

LEMMA OneMore ==
    ASSUME TypeOK, NEW h, h.kind # "Append", outs' = Append(outs, h), UNCHANGED file
    PROVE  \A m : Mail(m)' = Mail(m)
<1>1. outs \in Seq(Out)
    BY DEF TypeOK
<1>2. CASE outs = <<>>
  <2>1. outs' = <<h>>
      BY SMTT(60), <1>2
  <2>2. outs'[1] = h
      BY SMTT(60), <2>1
  <2> QED
      BY <1>2, <2>2, SameFront
<1>3. CASE outs # <<>>
  <2>1. outs'[1] = outs[1] /\ outs' # <<>>
      BY SMTT(60), <1>1, <1>3
  <2> QED
      BY <1>3, <2>1, SameFront
<1> QED
    BY <1>2, <1>3

LEMMA ExecuteMail ==
    ASSUME Settled, Sound, execute_outs
    PROVE  \A m \in Mailbox : Mail(m)' = Mail(m)
<1>1. TypeOK /\ Durable /\ Reliable
    BY DEF Sound, Settled
<1> DEFINE h == Head(outs)
<1>2. outs # <<>> /\ outs' = Tail(outs) /\ outs \in Seq(Out)
    BY <1>1 DEF execute_outs, TypeOK
<1>3. h = outs[1]
    BY SMTT(60), <1>2
<1>4. outs' = <<>> \/ outs'[1].kind # "Append"
  <2>1. outs' # <<>> => outs'[1] = outs[2] /\ 2 \in DOMAIN outs
      BY SMTT(60), <1>2
  <2> QED
      BY SMTT(60), <1>1, <2>1 DEF Durable, RepliesBacked
<1>5. \A m : ~Ahead(m)' /\ Mail(m)' = file'[m]
    BY <1>4 DEF Ahead, Mail
<1>6. CASE h.kind = "Append"
  <2>1. h.mbox \in Mailbox
      BY <1>1, <1>2, <1>6, HeadOut DEF AppendOut
  <2>2. file' = [file EXCEPT ![h.mbox] = Append(@, h.rec)]
      BY <1>1, <1>6 DEF execute_outs, execute_append, WriteFails, Reliable
  <2>3. \A m \in Mailbox : file'[m] = IF m = h.mbox THEN Append(file[m], h.rec) ELSE file[m]
      BY <1>1, <2>1, <2>2 DEF TypeOK
  <2>4. \A m : Ahead(m) <=> m = h.mbox
      BY <1>2, <1>3, <1>6 DEF Ahead
  <2> HIDE DEF h
  <2> QED
      BY <1>3, <1>5, <2>3, <2>4 DEF Mail
<1>7. CASE h.kind # "Append"
  <2>1. UNCHANGED file
      BY <1>7 DEF execute_outs, execute_cursor, execute_reply, diskVars
  <2>2. \A m : ~Ahead(m)
      BY <1>3, <1>7 DEF Ahead
  <2> QED
      BY <1>5, <2>1, <2>2 DEF Mail
<1> QED
    BY <1>6, <1>7

SameMail == nmsg' = nmsg /\ \A m \in Mailbox : Mail(m)' = Mail(m)

Sent(m, r) ==
    /\ r \in Record /\ r.ok /\ r.id = nmsg + 1 /\ nmsg' = nmsg + 1
    /\ Mail(m)' = Append(Mail(m), r)
    /\ \A k \in Mailbox \ {m} : Mail(k)' = Mail(k)

MailGrows ==
    \A m \in Mailbox : /\ Mail(m)' \in Seq(Record)
                       /\ Len(Mail(m)) <= Len(Mail(m)')
                       /\ \A i \in DOMAIN Mail(m) : Mail(m)'[i] = Mail(m)[i]

LEMMA SendMail ==
    ASSUME TypeOK, TypeOK', outs = <<>>, NEW c \in Conn, NEW m \in Mailbox, NEW task \in Task,
           send(c, m, task), ~Refuse
    PROVE  \E r : Sent(m, r)
<1>1. PICK r : /\ r.ok /\ r.id = nmsg + 1
               /\ \/ m \in Name /\ send_agent(c, m, r)
                  \/ m \in Channel /\ send_channel(c, m, r)
    BY DEF send
<1>2. outs' = <<AppendMailbox(m, r)>> /\ nmsg' = nmsg + 1 /\ UNCHANGED file
    BY <1>1 DEF send_agent, send_channel, Sending, diskVars
<1>3. outs' # <<>> /\ outs'[1] = AppendMailbox(m, r)
    BY <1>2
<1>4. outs'[1].kind = "Append" /\ outs'[1].mbox = m /\ outs'[1].rec = r
    BY SMTT(60), <1>3 DEF AppendMailbox
<1>5. r \in Record
  <2>1. outs'[1] \in Out
      BY SMTT(60), <1>2, <1>3 DEF TypeOK
  <2>2. outs'[1] \in AppendOut
      BY <1>4, <2>1 DEF Out, ReplyOut, CursorOut
  <2> QED
      BY <1>4, <2>2 DEF AppendOut
<1>6. \A k : Mail(k) = file[k]
    BY ReadyMail
<1>7. \A k : Mail(k)' = IF k = m THEN Append(file[k], r) ELSE file[k]
    BY <1>2, <1>3, <1>4 DEF Mail, Ahead
<1> QED
    BY <1>1, <1>2, <1>5, <1>6, <1>7 DEF Sent

LEMMA WireMail ==
    ASSUME TypeOK, TypeOK', NEW c \in Conn, Wire(c)
    PROVE  \/ SameMail
           \/ \E m \in Mailbox, task \in Task : send(c, m, task) /\ ~Refuse
<1>0. outs = <<>> /\ UNCHANGED file
    BY WireFiles DEF Wire, Ready
<1>1. CASE UNCHANGED <<outs, nmsg>>
    BY <1>0, <1>1, SameFront DEF SameMail
<1>2. CASE /\ UNCHANGED nmsg
           /\ \/ \E m, off : outs' = <<AdvanceCursor(m, off)>>
              \/ \E what, ids : outs' = <<Reply(c, what, ids)>>
  <2>1. outs'[1].kind # "Append"
      BY SMTT(60), <1>2 DEF AdvanceCursor, Reply
  <2> QED
      BY <1>0, <1>2, <2>1, SameFront DEF SameMail
<1>3. CASE Refuse
    BY <1>1, <1>3 DEF Refuse, vars, envVars
<1>4. CASE \E bound \in Name \cup {None} : Hello(c, bound)
    BY <1>1, <1>3, <1>4 DEF Hello
<1>5. CASE \E n \in Name, o \in Origins, l \in Flags : register(c, n, o, l)
    BY <1>2, <1>3, <1>5 DEF register, envVars
<1>6. CASE \E l \in Flags : set_listen(c, l) \/ set_wake_addr(c, l)
    BY <1>1, <1>3, <1>6 DEF set_listen, set_wake_addr, envVars
<1>7. CASE \E since \in 0 .. MaxMsg : inbox(c, since)
    BY <1>2, <1>3, <1>7 DEF inbox, envVars
<1>8. CASE \E f \in Filter : await_envelope(c, f)
    BY <1>1, <1>2, <1>3, <1>8 DEF await_envelope, envVars
<1>9. CASE \E ch \in Channel : (\E role \in Flags : join(c, ch, role)) \/ leave(c, ch)
    BY <1>1, <1>2, <1>3, <1>9 DEF join, leave, envVars
<1> QED
    BY <1>3, <1>4, <1>5, <1>6, <1>7, <1>8, <1>9 DEF Wire, handle_wire

(* The envelopes are numbered in the order in which they are sent, and     *)
(* each is the last one of its mailbox when it is.                         *)
LEMMA StepMail ==
    ASSUME Settled, Sound, TypeOK', [Next]_vars, ~Crash
    PROVE  \/ SameMail
           \/ \E m \in Mailbox : \E r : Sent(m, r)
<1>0. TypeOK /\ Durable /\ Reliable
    BY DEF Sound, Settled
<1>1. CASE UNCHANGED <<outs, file, nmsg>>
    BY <1>1, SameFront DEF SameMail
<1>2. CASE \E c \in Conn : Wire(c)
  <2>1. PICK c \in Conn : Wire(c)
      BY <1>2
  <2>2. outs = <<>>
      BY <2>1 DEF Wire, Ready
  <2> QED
      BY <1>0, <2>1, <2>2, WireMail, SendMail
<1>3. CASE execute_outs
  <2>1. nmsg' = nmsg
      BY <1>3 DEF execute_outs, execute_append, execute_cursor, execute_reply, envVars
  <2> QED
      BY <1>3, <2>1, ExecuteMail DEF SameMail
<1>4. CASE WakeOne \/ SendDone \/ ExpireOne
  <2>1. PICK h : h.kind # "Append" /\ outs' = Append(outs, h)
      BY <1>4 DEF WakeOne, SendDone, ExpireOne, Reply, SendOk
  <2>2. UNCHANGED <<file, nmsg>>
      BY <1>4 DEF WakeOne, SendDone, ExpireOne, diskVars, envVars
  <2> QED
      BY <1>0, <2>1, <2>2, OneMore DEF SameMail
<1>5. CASE \E m \in Mailbox : Truncate(m)
    BY <1>0, <1>5 DEF Truncate, Reliable
<1> QED
    BY <1>1, <1>2, <1>3, <1>4, <1>5
       DEF Next, Work, Disconnect, Deadline, Die, tick, NextMember, vars, diskVars, envVars

LEMMA StepGrows ==
    ASSUME TypeOK, \/ SameMail
                   \/ \E m \in Mailbox : \E r : Sent(m, r)
    PROVE  MailGrows
<1>1. \A m \in Mailbox : Mail(m) \in Seq(Record) /\ Len(Mail(m)) \in Nat
    BY SMTT(60), MailType
<1>2. CASE SameMail
    BY SMTT(60), <1>1, <1>2 DEF SameMail, MailGrows
<1>3. ASSUME NEW m \in Mailbox, NEW r, r \in Record, Mail(m)' = Append(Mail(m), r)
      PROVE  /\ Mail(m)' \in Seq(Record)
             /\ Len(Mail(m)) <= Len(Mail(m)')
             /\ \A i \in DOMAIN Mail(m) : Mail(m)'[i] = Mail(m)[i]
    BY SMTT(60), <1>1, <1>3
<1>4. CASE \E m \in Mailbox : \E r : Sent(m, r)
    BY SMTT(60), <1>1, <1>3, <1>4 DEF Sent, MailGrows
<1> QED
    BY <1>2, <1>4

-----------------------------------------------------------------------------
(* The await cursors.                                                      *)

(* What an await under the name n is to be given from mailbox m.           *)
ForName(n, m, r) == /\ r.ok /\ r.origin = "Local"
                    /\ m \in Channel => r.from # n

(* Why no cursor passes anything: it stays within its mailbox, and what is *)
(* behind it was given, the envelope being sent included.                  *)
CursorInv ==
    \A o \in Holder : \A m \in Boxes(o) :
        /\ st[o].await_offsets[m] <= Len(Mail(m))
        /\ \A i \in DOMAIN Mail(m) :
              i <= st[o].await_offsets[m] /\ ForName(st[o].name, m, Mail(m)[i])
                  => Mail(m)[i].id \in delivered[o]

(* What a step may do to a cursor: move it on over records that are given  *)
(* or are not for its holder, or set it to the end of the mailbox after    *)
(* all of it was given.                                                    *)
Moved(o, m) ==
    /\ st'[o].await_offsets[m] <= Len(Mail(m)')
    /\ \/ /\ o \in Holder /\ st'[o].name = st[o].name /\ m \in Boxes(o)
          /\ st[o].await_offsets[m] <= st'[o].await_offsets[m]
          /\ \A i \in st[o].await_offsets[m] + 1 .. st'[o].await_offsets[m] :
                ForName(st[o].name, m, Mail(m)'[i]) => Mail(m)'[i].id \in delivered'[o]
       \/ /\ st'[o].await_offsets[m] = Len(Mail(m)')
          /\ \A i \in 1 .. Len(Mail(m)') :
                Mail(m)'[i].ok => Mail(m)'[i].id \in delivered'[o]

(* What is given anew is behind a cursor.                                  *)
Behind(o, x) ==
    \E m \in Boxes(o) : \E i \in 1 .. st[o].await_offsets[m] :
        Mail(m)[i].ok /\ Mail(m)[i].id = x

Advance ==
    \A o \in Holder' :
        /\ delivered[o] \subseteq delivered'[o]
        /\ \A m \in Boxes(o)' : Moved(o, m)
        /\ \A x \in delivered'[o] \ delivered[o] : Behind(o, x)'

LEMMA BoxesType ==
    ASSUME TypeOK, NEW o \in Holder
    PROVE  /\ o \in Conn /\ st[o].name \in Name
           /\ Boxes(o) \subseteq Mailbox
           /\ \A m \in Mailbox : st[o].await_offsets[m] \in Nat
BY DEF TypeOK, ClientState, Holder, Boxes, Mailbox

LEMMA CursorStep ==
    ASSUME TypeOK, TypeOK', CursorInv, MailGrows, Advance
    PROVE  CursorInv'
<1> SUFFICES ASSUME NEW o \in Holder', NEW m \in Boxes(o)'
             PROVE  /\ st'[o].await_offsets[m] <= Len(Mail(m)')
                    /\ \A i \in DOMAIN Mail(m)' :
                          i <= st'[o].await_offsets[m] /\ ForName(st'[o].name, m, Mail(m)'[i])
                              => Mail(m)'[i].id \in delivered'[o]
    BY DEF CursorInv
<1>1. m \in Mailbox /\ o \in Conn
    BY SMTT(60) DEF TypeOK, Holder, Boxes, ClientState, Mailbox
<1>2. Moved(o, m) /\ delivered[o] \subseteq delivered'[o]
    BY DEF Advance
<1>3. /\ Len(Mail(m)) \in Nat /\ DOMAIN Mail(m) = 1 .. Len(Mail(m))
      /\ Len(Mail(m)') \in Nat /\ DOMAIN Mail(m)' = 1 .. Len(Mail(m)')
  <2>1. Mail(m) \in Seq(Record)
      BY <1>1, MailType
  <2>2. Mail(m)' \in Seq(Record)
      BY <1>1 DEF MailGrows
  <2> QED
      BY SMTT(60), <2>1, <2>2
<1>4. st[o].await_offsets[m] \in Nat /\ st'[o].await_offsets[m] \in Nat
    BY SMTT(60), <1>1 DEF TypeOK, ClientState
<1>5. /\ Len(Mail(m)) <= Len(Mail(m)')
      /\ \A i \in DOMAIN Mail(m) : Mail(m)'[i] = Mail(m)[i]
    BY <1>1 DEF MailGrows
<1> SUFFICES ASSUME NEW i \in 1 .. Len(Mail(m)'), i <= st'[o].await_offsets[m],
                    ForName(st'[o].name, m, Mail(m)'[i])
             PROVE  Mail(m)'[i].id \in delivered'[o]
    BY <1>2, <1>3 DEF Moved
<1>6. CASE /\ o \in Holder /\ st'[o].name = st[o].name /\ m \in Boxes(o)
           /\ st[o].await_offsets[m] <= st'[o].await_offsets[m]
           /\ \A j \in st[o].await_offsets[m] + 1 .. st'[o].await_offsets[m] :
                ForName(st[o].name, m, Mail(m)'[j]) => Mail(m)'[j].id \in delivered'[o]
  <2>1. CASE i <= st[o].await_offsets[m]
    <3>1. st[o].await_offsets[m] <= Len(Mail(m))
        BY <1>6 DEF CursorInv
    <3>2. i \in DOMAIN Mail(m) /\ Mail(m)'[i] = Mail(m)[i]
        BY SMTT(60), <1>3, <1>4, <1>5, <2>1, <3>1
    <3>3. Mail(m)[i].id \in delivered[o]
        BY <1>6, <2>1, <3>2 DEF CursorInv
    <3> QED
        BY <1>2, <3>2, <3>3
  <2>2. CASE i > st[o].await_offsets[m]
      BY SMTT(60), <1>4, <1>6, <2>2
  <2> QED
      BY SMTT(60), <1>4, <2>1, <2>2
<1>7. CASE \A j \in 1 .. Len(Mail(m)') :
              Mail(m)'[j].ok => Mail(m)'[j].id \in delivered'[o]
    BY <1>7 DEF ForName
<1> QED
    BY <1>2, <1>6, <1>7 DEF Moved

(* The steps that leave the cursors, and what was given, alone.            *)
Keeps ==
    \A o \in Holder' :
        /\ o \in Holder /\ st'[o].name = st[o].name
        /\ st'[o].joined \subseteq st[o].joined
        /\ \A m \in Boxes(o)' : st'[o].await_offsets[m] = st[o].await_offsets[m]
        /\ delivered'[o] = delivered[o]

LEMMA KeepsAdvance ==
    ASSUME TypeOK, CursorInv, MailGrows, Keeps
    PROVE  Advance
<1> SUFFICES ASSUME NEW o \in Holder'
             PROVE  /\ delivered[o] \subseteq delivered'[o]
                    /\ \A m \in Boxes(o)' : Moved(o, m)
                    /\ \A x \in delivered'[o] \ delivered[o] : Behind(o, x)'
    BY DEF Advance
<1>1. /\ o \in Holder /\ st'[o].name = st[o].name /\ Boxes(o)' \subseteq Boxes(o)
      /\ delivered'[o] = delivered[o]
    BY DEF Keeps, Boxes
<1>2. ASSUME NEW m \in Boxes(o)'
      PROVE  Moved(o, m)
  <2>1. m \in Boxes(o) /\ m \in Mailbox
      BY <1>1, BoxesType
  <2>2. st'[o].await_offsets[m] = st[o].await_offsets[m] /\ st[o].await_offsets[m] \in Nat
      BY <1>1, <2>1, BoxesType DEF Keeps
  <2>3. /\ Len(Mail(m)) \in Nat /\ Len(Mail(m)) <= Len(Mail(m)')
        /\ st[o].await_offsets[m] <= Len(Mail(m))
      BY SMTT(60), <1>1, <2>1, MailType DEF MailGrows, CursorInv
  <2>4. Len(Mail(m)') \in Int
      BY SMTT(60)
  <2> QED
      BY SMTT(60), <1>1, <2>1, <2>2, <2>3, <2>4 DEF Moved
<1> QED
    BY <1>1, <1>2

LEMMA SameKeeps ==
    ASSUME TypeOK, clients' = clients, delivered' = delivered,
           \A c \in Conn : /\ st'[c].name = st[c].name
                           /\ st'[c].joined = st[c].joined
                           /\ st'[c].await_offsets = st[c].await_offsets
    PROVE  Keeps
<1>1. Holder' = Holder /\ Holder \subseteq Conn
    BY SameHolders DEF TypeOK, Holder
<1> QED
    BY <1>1 DEF Keeps

LEMMA DisconnectKeeps ==
    ASSUME TypeOK, NEW S \in SUBSET clients, disconnect(S)
    PROVE  Keeps
<1>1. /\ clients' = clients \ S
      /\ \A c \in Conn \ S : st'[c] = st[c] /\ delivered'[c] = delivered[c]
    BY DEF disconnect
<1>2. \A o \in Holder' : o \in Holder /\ o \in Conn \ S
    BY <1>1 DEF Holder, TypeOK
<1> QED
    BY <1>1, <1>2 DEF Keeps

LEMMA HelloKeeps ==
    ASSUME TypeOK, NoOrphans, NEW c \in Conn, NEW bound \in Name \cup {None},
           Hello(c, bound)
    PROVE  Keeps
<1>1. CASE Refuse
    BY <1>1, SameKeeps DEF Refuse, vars, actorVars, history
<1>2. CASE /\ c \notin clients /\ clients' = clients \cup {c}
           /\ st' = [st EXCEPT ![c] = Fresh(bound)] /\ delivered' = delivered
  <2>1. st'[c].name = None /\ \A d \in Conn \ {c} : st'[d] = st[d]
      BY <1>2 DEF TypeOK, Fresh
  <2>2. \A o \in Holder' : o \in Holder /\ st'[o] = st[o]
      BY <1>2, <2>1 DEF Holder, TypeOK
  <2> QED
      BY <1>2, <2>2 DEF Keeps
<1> QED
    BY <1>1, <1>2 DEF Hello, history

LEMMA LeaveKeeps ==
    ASSUME TypeOK, OneHolder, NEW c \in clients, NEW ch \in Channel, leave(c, ch)
    PROVE  Keeps
<1>1. CASE Refuse
    BY <1>1, SameKeeps DEF Refuse, vars, actorVars, history
<1>2. CASE ~Refuse
  <2>1. PICK o, J, off : o = Owner(c) /\ J = st[o].joined \ {ch} /\ off = 0
      OBVIOUS
  <2>2. /\ Resolves(c) /\ clients' = clients /\ delivered' = delivered
        /\ st' = [st EXCEPT ![o].joined = J, ![o].await_offsets[ch] = off,
                            ![o].inbox_offsets[ch] = off]
      BY <1>2, <2>1 DEF leave, history
  <2>3. o \in Holder /\ o \in Conn
      BY <2>1, <2>2, OwnerHolds DEF TypeOK
  <2>4. /\ \A d \in Conn \ {o} : st'[d] = st[d]
        /\ st'[o].name = st[o].name /\ st'[o].joined = J
        /\ \A k \in Mailbox \ {ch} : st'[o].await_offsets[k] = st[o].await_offsets[k]
      BY SMTT(60), <2>2, <2>3 DEF TypeOK, ClientState, Mailbox
  <2>5. Holder' = Holder /\ Holder \subseteq Conn
      BY <2>2, <2>3, <2>4, SameHolders DEF TypeOK, Holder
  <2>6. Boxes(o)' \subseteq Mailbox \ {ch}
    <3>1. st[o].name \in Name /\ st[o].joined \subseteq Channel
        BY <2>3 DEF TypeOK, ClientState, Holder
    <3>2. Boxes(o)' = {st[o].name} \cup (st[o].joined \ {ch})
        BY <2>1, <2>4 DEF Boxes
    <3> QED
        BY <3>1, <3>2, NameAssumption DEF Mailbox
  <2> QED
      BY <2>1, <2>2, <2>4, <2>5, <2>6 DEF Keeps
<1> QED
    BY <1>1, <1>2

LEMMA WireKeeps ==
    ASSUME TypeOK, NEW c \in clients,
           \/ \E l \in Flags : set_listen(c, l) \/ set_wake_addr(c, l)
           \/ \E m \in Mailbox, t \in Task : send(c, m, t)
           \/ \E since \in 0 .. MaxMsg : inbox(c, since)
    PROVE  Keeps
<1>0. c \in Conn /\ Owner(c) \in Conn
    BY OwnerIsClient DEF TypeOK
<1>1. CASE UNCHANGED <<clients, st, delivered>>
    BY <1>1, SameKeeps
<1>2. CASE /\ clients' = clients /\ delivered' = delivered
           /\ \E l : \/ st' = [st EXCEPT ![c].listen_mode = l]
                     \/ st' = [st EXCEPT ![c].wake_addr = l]
  <2>1. \A d \in Conn : /\ st'[d].name = st[d].name
                        /\ st'[d].joined = st[d].joined
                        /\ st'[d].await_offsets = st[d].await_offsets
      BY <1>0, <1>2, FlagEffect
  <2> QED
      BY <1>2, <2>1, SameKeeps
<1>3. CASE /\ clients' = clients /\ delivered' = delivered
           /\ \E offs : st' = [st EXCEPT ![Owner(c)].inbox_offsets = offs]
  <2>1. \A d \in Conn : /\ st'[d].name = st[d].name
                        /\ st'[d].joined = st[d].joined
                        /\ st'[d].await_offsets = st[d].await_offsets
      BY <1>0, <1>3, InboxEffect
  <2> QED
      BY <1>3, <2>1, SameKeeps
<1>5. CASE Refuse
    BY <1>1, <1>5 DEF Refuse, vars, actorVars, history
<1>6. CASE \E l \in Flags : set_listen(c, l) \/ set_wake_addr(c, l)
    BY <1>2, <1>5, <1>6 DEF set_listen, set_wake_addr, history
<1>7. CASE \E m \in Mailbox, t \in Task : send(c, m, t)
    BY <1>1, <1>5, <1>7 DEF send, send_agent, send_channel, Sending, actorVars, history
<1>8. CASE \E since \in 0 .. MaxMsg : inbox(c, since)
    BY <1>3, <1>5, <1>8 DEF inbox
<1> QED
    BY <1>6, <1>7, <1>8

(* A cursor that stays where it is.                                        *)
LEMMA Stays ==
    ASSUME TypeOK, CursorInv, MailGrows, NEW o \in Holder, NEW m \in Boxes(o),
           st'[o].name = st[o].name,
           st'[o].await_offsets[m] = st[o].await_offsets[m]
    PROVE  Moved(o, m)
<1>1. m \in Mailbox /\ st[o].await_offsets[m] \in Nat
    BY BoxesType
<1>2. /\ Len(Mail(m)) \in Nat /\ Len(Mail(m)) <= Len(Mail(m)')
      /\ Mail(m)' \in Seq(Record) /\ Len(Mail(m)') \in Nat
      /\ st[o].await_offsets[m] <= Len(Mail(m))
    BY SMTT(60), <1>1, MailType DEF MailGrows, CursorInv
<1> QED
    BY SMTT(60), <1>1, <1>2 DEF Moved

(* Registering and joining give the whole mailbox.                         *)
LEMMA WholeFile ==
    ASSUME TypeOK, NEW m \in Mailbox, m \in exists
    PROVE  /\ DrainEnd(m, 0) = Len(file[m])
           /\ \A i \in 1 .. Len(file[m]) :
                 file[m][i].ok => file[m][i].id \in decode_lines(m, 0)
           /\ \A x \in decode_lines(m, 0) : \E i \in 1 .. Len(file[m]) :
                 file[m][i].ok /\ file[m][i].id = x
<1>1. DOMAIN file[m] = 1 .. Len(file[m]) /\ Len(file[m]) \in Nat
    BY SMTT(60) DEF TypeOK
<1>2. Drained(m, 0) = 1 .. Len(file[m])
    BY SMTT(60), <1>1 DEF Drained
<1> QED
    BY <1>2 DEF DrainEnd, decode_lines

(* What one client is given from the whole of mailbox n.                   *)
LEMMA DrainAdvance ==
    ASSUME TypeOK, CursorInv, MailGrows, SameMail, outs = <<>>, exists = Mailbox,
           NEW c \in Conn, NEW n \in Mailbox,
           Holder' \subseteq Holder \cup {c},
           \A d \in Conn \ {c} : st'[d] = st[d] /\ delivered'[d] = delivered[d],
           delivered'[c] = delivered[c] \cup decode_lines(n, 0),
           n \in Boxes(c)', st'[c].await_offsets[n] = DrainEnd(n, 0),
           \A m \in Boxes(c)' \ {n} :
               /\ c \in Holder /\ m \in Boxes(c) /\ st'[c].name = st[c].name
               /\ st'[c].await_offsets[m] = st[c].await_offsets[m]
    PROVE  Advance
<1>1. /\ DrainEnd(n, 0) = Len(file[n])
      /\ \A i \in 1 .. Len(file[n]) :
            file[n][i].ok => file[n][i].id \in decode_lines(n, 0)
      /\ \A x \in decode_lines(n, 0) : \E i \in 1 .. Len(file[n]) :
            file[n][i].ok /\ file[n][i].id = x
    BY WholeFile
<1>2. Mail(n)' = file[n] /\ Len(file[n]) \in Nat
    BY SMTT(60), ReadyMail DEF SameMail, TypeOK
<1>3. ASSUME NEW o \in Holder', o # c
      PROVE  /\ delivered[o] \subseteq delivered'[o]
             /\ \A m \in Boxes(o)' : Moved(o, m)
             /\ \A x \in delivered'[o] \ delivered[o] : Behind(o, x)'
  <2>1. o \in Holder /\ o \in Conn
      BY <1>3 DEF Holder, TypeOK
  <2>2. st'[o] = st[o] /\ delivered'[o] = delivered[o]
      BY <1>3, <2>1
  <2>3. Boxes(o)' = Boxes(o)
      BY <2>2 DEF Boxes
  <2>4. \A m \in Boxes(o)' : Moved(o, m)
      BY <2>1, <2>2, <2>3, Stays
  <2> QED
      BY <2>2, <2>4
<1>4. Moved(c, n)
    BY SMTT(60), <1>1, <1>2 DEF Moved
<1>5. \A m \in Boxes(c)' \ {n} : Moved(c, m)
    BY Stays
<1>6. \A x \in delivered'[c] \ delivered[c] : Behind(c, x)'
  <2> SUFFICES ASSUME NEW x \in decode_lines(n, 0) PROVE Behind(c, x)'
      OBVIOUS
  <2>1. PICK i \in 1 .. Len(file[n]) : file[n][i].ok /\ file[n][i].id = x
      BY <1>1
  <2> QED
      BY SMTT(60), <1>1, <1>2, <2>1 DEF Behind
<1> QED
    BY <1>3, <1>4, <1>5, <1>6 DEF Advance

LEMMA RegisterAdvance ==
    ASSUME Sound, CursorInv, MailGrows, SameMail, outs = <<>>,
           NEW c \in clients, NEW n \in Name,
           NEW origin, NEW l, st[c].name \in {None, n}, register(c, n, origin, l)
    PROVE  Advance
<1>0. TypeOK /\ Rosters /\ exists = Mailbox /\ c \in Conn /\ n \in Mailbox
    BY DEF Sound, TypeOK, Mailbox
<1>1. CASE Refuse
    BY <1>0, <1>1, SameKeeps, KeepsAdvance DEF Refuse, vars, actorVars, history
<1>2. CASE ~Refuse
  <2>1. PICK off, ids : off = DrainEnd(n, 0) /\ ids = decode_lines(n, 0)
      OBVIOUS
  <2>2. /\ clients' = clients /\ delivered' = [delivered EXCEPT ![c] = @ \cup ids]
        /\ st' = [st EXCEPT ![c].name = n, ![c].origin = origin,
                            ![c].listen_mode = l, ![c].await_offsets[n] = off]
      BY <1>2, <2>1 DEF register
  <2>3. /\ \A d \in Conn \ {c} : st'[d] = st[d]
        /\ st'[c].name = n /\ st'[c].joined = st[c].joined
        /\ st'[c].await_offsets[n] = off
        /\ \A k \in Mailbox \ {n} : st'[c].await_offsets[k] = st[c].await_offsets[k]
      BY SMTT(60), <1>0, <2>2 DEF TypeOK, ClientState
  <2>4. /\ \A d \in Conn \ {c} : delivered'[d] = delivered[d]
        /\ delivered'[c] = delivered[c] \cup ids
      BY <1>0, <2>2 DEF TypeOK
  <2>5. Holder' \subseteq Holder \cup {c}
      BY <1>0, <2>2, <2>3 DEF Holder, TypeOK
  <2>6. Boxes(c)' = {n} \cup st[c].joined
      BY <2>3 DEF Boxes
  <2>7. ASSUME NEW m \in Boxes(c)' \ {n}
        PROVE  /\ c \in Holder /\ m \in Boxes(c) /\ st'[c].name = st[c].name
               /\ st'[c].await_offsets[m] = st[c].await_offsets[m]
    <3>1. m \in st[c].joined
        BY <2>6, <2>7
    <3>2. c \in Holder
        BY <1>0, <3>1 DEF Rosters
    <3>3. m \in Mailbox
        BY <1>0, <3>1 DEF TypeOK, ClientState, Mailbox
    <3> QED
        BY <2>3, <2>7, <3>1, <3>2, <3>3 DEF Boxes, Holder
  <2> QED
      BY <1>0, <2>1, <2>3, <2>4, <2>5, <2>6, <2>7, DrainAdvance
<1> QED
    BY <1>1, <1>2

LEMMA JoinAdvance ==
    ASSUME Sound, CursorInv, MailGrows, SameMail, outs = <<>>,
           NEW c \in clients, NEW ch \in Channel, NEW role, join(c, ch, role)
    PROVE  Advance
<1>0. TypeOK /\ OneHolder /\ exists = Mailbox /\ c \in Conn /\ ch \in Mailbox
    BY DEF Sound, TypeOK, Mailbox
<1>1. CASE Refuse
    BY <1>0, <1>1, SameKeeps, KeepsAdvance DEF Refuse, vars, actorVars, history
<1>2. CASE ~Refuse
  <2>1. PICK o, J, off, ids : /\ o = Owner(c) /\ J = st[o].joined \cup {ch}
                              /\ off = DrainEnd(ch, 0) /\ ids = decode_lines(ch, 0)
      OBVIOUS
  <2>2. /\ Resolves(c) /\ clients' = clients
        /\ delivered' = [delivered EXCEPT ![o] = @ \cup ids]
        /\ st' = [st EXCEPT ![o].joined = J, ![o].await_offsets[ch] = off,
                            ![o].inbox_offsets[ch] = off]
      BY <1>2, <2>1 DEF join
  <2>3. o \in Holder /\ o \in Conn
      BY <1>0, <2>1, <2>2, OwnerHolds
  <2>4. /\ \A d \in Conn \ {o} : st'[d] = st[d]
        /\ st'[o].name = st[o].name /\ st'[o].joined = J
        /\ st'[o].await_offsets[ch] = off
        /\ \A k \in Mailbox \ {ch} : st'[o].await_offsets[k] = st[o].await_offsets[k]
      BY SMTT(60), <1>0, <2>2, <2>3 DEF TypeOK, ClientState
  <2>5. /\ \A d \in Conn \ {o} : delivered'[d] = delivered[d]
        /\ delivered'[o] = delivered[o] \cup ids
      BY <1>0, <2>2, <2>3 DEF TypeOK
  <2>6. Holder' = Holder
      BY <1>0, <2>2, <2>3, <2>4, SameHolders DEF TypeOK
  <2>7. Boxes(o)' = Boxes(o) \cup {ch} /\ Boxes(o) \subseteq Mailbox
      BY <1>0, <2>1, <2>3, <2>4, BoxesType DEF Boxes
  <2>8. ASSUME NEW m \in Boxes(o)' \ {ch}
        PROVE  /\ o \in Holder /\ m \in Boxes(o) /\ st'[o].name = st[o].name
               /\ st'[o].await_offsets[m] = st[o].await_offsets[m]
      BY <2>3, <2>4, <2>7, <2>8
  <2> QED
      BY <1>0, <2>1, <2>3, <2>4, <2>5, <2>6, <2>7, <2>8, DrainAdvance
<1> QED
    BY <1>1, <1>2

(* What an await does: it walks the mailboxes S of its holder and gives G. *)
AwaitShape(c, f, o, S, G) ==
    /\ o \in Holder /\ S \subseteq Boxes(o)
    /\ st' = [st EXCEPT ![o].await_offsets =
                 [m \in Mailbox |-> IF m \in S
                                    THEN drain_await_batch(o, m, f, None).next_offset
                                    ELSE st[o].await_offsets[m]]]
    /\ delivered' = [delivered EXCEPT ![o] = @ \cup G]
    /\ \A m \in S : drain_await_batch(o, m, f, None).ids \subseteq G
    /\ \A x \in G : \E m \in S : x \in drain_await_batch(o, m, f, None).ids
    /\ \/ /\ pending' = pending
          /\ outs' = outs \/ outs' = <<Reply(c, "AwaitOk", G)>>
       \/ /\ S = Boxes(o) /\ G = {} /\ outs' = outs
          /\ pending' = [pending EXCEPT ![c] = f]
    /\ UNCHANGED <<clients, alive, file, inboxed, job>>

LEMMA AwaitShapes ==
    ASSUME Settled, Sound, CursorInv, outs = <<>>,
           NEW c \in clients, NEW f \in Filter, await_envelope(c, f), ~Refuse,
           NEW o, o = Owner(c)
    PROVE  \E S, G : AwaitShape(c, f, o, S, G)
<1>0. TypeOK /\ OneHolder /\ exists = Mailbox /\ c \in Conn /\ AwaitBatchCap <= FrameCap
    BY DEF Sound, TypeOK, Settled
<1> DEFINE boxes     == {effective_identity(c)} \cup st[o].joined
           batch(m)  == drain_await_batch(o, m, f, None)
           before(m) == {k \in boxes : Earlier(k, m)}
           Walked(S) == st' = [st EXCEPT ![o].await_offsets =
                                  [m \in Mailbox |-> IF m \in S
                                                     THEN batch(m).next_offset
                                                     ELSE st[o].await_offsets[m]]]
<1>1. /\ Resolves(c) /\ UNCHANGED <<clients, alive, file, inboxed, job>>
      /\ \/ \E m \in boxes :
              /\ \A k \in before(m) : batch(k).ids = {}
              /\ Walked(before(m))
              /\ UNCHANGED <<pending, delivered, outs>>
         \/ \E m \in boxes :
              /\ \A k \in before(m) : batch(k).ids = {}
              /\ Walked(before(m) \cup {m})
              /\ delivered' = IF Fits(batch(m).ids)
                              THEN [delivered EXCEPT ![o] = @ \cup batch(m).ids]
                              ELSE delivered
              /\ outs' = <<Reply(c, "AwaitOk", batch(m).ids)>>
              /\ UNCHANGED pending
         \/ /\ \A k \in boxes : batch(k).ids = {}
            /\ Walked(boxes)
            /\ pending' = [pending EXCEPT ![c] = f]
            /\ UNCHANGED <<outs, delivered>>
  <2> HIDE DEF batch
  <2> QED
      BY DEF await_envelope, diskVars, envVars, batch
<1>2. /\ o \in Holder /\ o \in Conn /\ boxes = Boxes(o) /\ Boxes(o) \subseteq Mailbox
      /\ \A m \in boxes : before(m) \subseteq boxes
    BY <1>0, <1>1, OwnerHolds, BoxesType DEF Boxes
<1>3. delivered = [delivered EXCEPT ![o] = @ \cup {}]
    BY <1>0, <1>2 DEF TypeOK
<1>4. \A m \in boxes : Fits(batch(m).ids)
  <2> SUFFICES ASSUME NEW m \in Boxes(o) PROVE Fits(batch(m).ids)
      BY <1>2
  <2>1. PICK b : b = batch(m)
      OBVIOUS
  <2>2. m \in Mailbox /\ st[o].await_offsets[m] <= Len(file[m])
      BY <1>2, ReadyMail DEF CursorInv
  <2>3. Fits(b.ids)
      BY <1>0, <1>2, <2>1, <2>2, Batch
  <2> QED
      BY <2>1, <2>3
<1> HIDE DEF boxes, batch, before, Walked
<1>5. CASE \E m \in boxes :
              /\ \A k \in before(m) : batch(k).ids = {}
              /\ Walked(before(m))
              /\ UNCHANGED <<pending, delivered, outs>>
  <2>1. PICK m \in boxes :
              /\ \A k \in before(m) : batch(k).ids = {}
              /\ Walked(before(m))
              /\ UNCHANGED <<pending, delivered, outs>>
      BY <1>5
  <2>2. AwaitShape(c, f, o, before(m), {})
      BY <1>1, <1>2, <1>3, <2>1 DEF AwaitShape, batch, Walked
  <2> QED
      BY <2>2
<1>6. CASE \E m \in boxes :
              /\ \A k \in before(m) : batch(k).ids = {}
              /\ Walked(before(m) \cup {m})
              /\ delivered' = IF Fits(batch(m).ids)
                              THEN [delivered EXCEPT ![o] = @ \cup batch(m).ids]
                              ELSE delivered
              /\ outs' = <<Reply(c, "AwaitOk", batch(m).ids)>>
              /\ UNCHANGED pending
  <2>1. PICK m \in boxes :
              /\ \A k \in before(m) : batch(k).ids = {}
              /\ Walked(before(m) \cup {m})
              /\ delivered' = IF Fits(batch(m).ids)
                              THEN [delivered EXCEPT ![o] = @ \cup batch(m).ids]
                              ELSE delivered
              /\ outs' = <<Reply(c, "AwaitOk", batch(m).ids)>>
              /\ UNCHANGED pending
      BY <1>6
  <2>2. PICK G : G = batch(m).ids
      OBVIOUS
  <2>3. PICK S : S = before(m) \cup {m}
      OBVIOUS
  <2>4. /\ delivered' = [delivered EXCEPT ![o] = @ \cup G]
        /\ outs' = <<Reply(c, "AwaitOk", G)>>
        /\ Walked(S) /\ S \subseteq Boxes(o)
        /\ \A k \in S : batch(k).ids \subseteq G
        /\ \A x \in G : \E k \in S : x \in batch(k).ids
      BY <1>2, <1>4, <2>1, <2>2, <2>3
  <2>5. AwaitShape(c, f, o, S, G)
      BY <1>1, <1>2, <2>1, <2>4 DEF AwaitShape, batch, Walked
  <2> QED
      BY <2>5
<1>7. CASE /\ \A k \in boxes : batch(k).ids = {}
           /\ Walked(boxes)
           /\ pending' = [pending EXCEPT ![c] = f]
           /\ UNCHANGED <<outs, delivered>>
  <2>1. AwaitShape(c, f, o, boxes, {})
      BY <1>1, <1>2, <1>3, <1>7 DEF AwaitShape, batch, Walked
  <2> QED
      BY <2>1
<1> QED
    BY <1>1, <1>5, <1>6, <1>7

(* A walk of one holder over some of its mailboxes.                        *)
LEMMA WalkAdvance ==
    ASSUME TypeOK, CursorInv, MailGrows, NEW o \in Holder, clients' = clients,
           \A d \in Conn \ {o} : st'[d] = st[d] /\ delivered'[d] = delivered[d],
           st'[o].name = st[o].name, st'[o].joined = st[o].joined,
           delivered[o] \subseteq delivered'[o],
           \A m \in Boxes(o) :
              \/ st'[o].await_offsets[m] = st[o].await_offsets[m]
              \/ Moved(o, m),
           \A x \in delivered'[o] \ delivered[o] : Behind(o, x)'
    PROVE  Advance
<1>1. Holder' = Holder /\ Holder \subseteq Conn
    BY SameHolders DEF TypeOK, Holder
<1>2. Boxes(o)' = Boxes(o)
    BY DEF Boxes
<1>3. \A m \in Boxes(o) : Moved(o, m)
    BY Stays
<1>4. ASSUME NEW d \in Holder, d # o
      PROVE  /\ delivered'[d] = delivered[d]
             /\ \A m \in Boxes(d)' : Moved(d, m)
  <2>1. st'[d] = st[d] /\ delivered'[d] = delivered[d]
      BY <1>1, <1>4
  <2>2. Boxes(d)' = Boxes(d)
      BY <2>1 DEF Boxes
  <2> QED
      BY <2>1, <2>2, Stays
<1>5. ASSUME NEW d \in Holder'
      PROVE  /\ delivered[d] \subseteq delivered'[d]
             /\ \A m \in Boxes(d)' : Moved(d, m)
             /\ \A x \in delivered'[d] \ delivered[d] : Behind(d, x)'
  <2>1. CASE d = o
      BY <1>2, <1>3, <2>1
  <2>2. CASE d # o
      BY <1>1, <1>4, <2>2
  <2> QED
      BY <2>1, <2>2
<1> QED
    BY <1>5 DEF Advance

LEMMA AwaitAdvance ==
    ASSUME Settled, Sound, CursorInv, MailGrows, SameMail, outs = <<>>,
           NEW c \in clients, NEW f \in Filter, await_envelope(c, f)
    PROVE  Advance
<1>0. TypeOK /\ exists = Mailbox /\ AwaitBatchCap <= FrameCap
    BY DEF Sound, Settled
<1>1. CASE Refuse
    BY <1>0, <1>1, SameKeeps, KeepsAdvance DEF Refuse, vars, actorVars, history
<1>2. CASE ~Refuse
  <2>1. PICK o : o = Owner(c)
      OBVIOUS
  <2>2. PICK S, G : AwaitShape(c, f, o, S, G)
      BY <1>2, <2>1, AwaitShapes
  <2>3. o \in Holder /\ o \in Conn /\ Boxes(o) \subseteq Mailbox /\ S \subseteq Boxes(o)
      BY <1>0, <2>2, BoxesType DEF AwaitShape
  <2>4. PICK offs : offs = [m \in Mailbox |-> IF m \in S
                               THEN drain_await_batch(o, m, f, None).next_offset
                               ELSE st[o].await_offsets[m]]
      OBVIOUS
  <2>5. /\ st' = [st EXCEPT ![o].await_offsets = offs]
        /\ delivered' = [delivered EXCEPT ![o] = @ \cup G]
        /\ clients' = clients
      BY <2>2, <2>4 DEF AwaitShape
  <2>6. /\ \A d \in Conn \ {o} : st'[d] = st[d]
        /\ st'[o].name = st[o].name /\ st'[o].joined = st[o].joined
        /\ st'[o].await_offsets = offs
      BY <1>0, <2>3, <2>5, AwaitEffect
  <2>7. /\ \A d \in Conn \ {o} : delivered'[d] = delivered[d]
        /\ delivered'[o] = delivered[o] \cup G
      BY <1>0, <2>3, <2>5 DEF TypeOK
  <2>8. \A m \in Boxes(o) \ S : st'[o].await_offsets[m] = st[o].await_offsets[m]
      BY <2>3, <2>4, <2>6
  <2>9. ASSUME NEW m \in S
        PROVE  /\ Moved(o, m)
               /\ \A x \in drain_await_batch(o, m, f, None).ids :
                     \E i \in 1 .. st'[o].await_offsets[m] :
                        Mail(m)'[i].ok /\ Mail(m)'[i].id = x
    <3>1. m \in Mailbox /\ m \in Boxes(o) /\ m \in exists
        BY <1>0, <2>3
    <3>2. PICK b : b = drain_await_batch(o, m, f, None)
        OBVIOUS
    <3>3. Mail(m) = file[m] /\ Mail(m)' = file[m]
        BY <3>1, ReadyMail DEF SameMail
    <3>4. PICK since : since = st[o].await_offsets[m]
        OBVIOUS
    <3>5. since <= Len(file[m])
        BY <2>3, <3>1, <3>3, <3>4 DEF CursorInv
    <3>6. /\ since \in Nat /\ b.next_offset \in since .. Len(file[m])
          /\ \A i \in since + 1 .. b.next_offset :
                ForAwait(o, m, file[m][i]) => file[m][i].id \in b.ids
          /\ \A x \in b.ids : \E i \in since + 1 .. b.next_offset :
                ForAwait(o, m, file[m][i]) /\ file[m][i].id = x
        BY SMTT(60), <1>0, <2>3, <3>1, <3>2, <3>4, <3>5, Batch
    <3>7. st'[o].await_offsets[m] = b.next_offset /\ b.ids \subseteq delivered'[o]
      <4>1. b.ids \subseteq G
          BY <2>2, <3>2 DEF AwaitShape
      <4> QED
          BY <2>4, <2>6, <2>7, <3>1, <3>2, <4>1
    <3>8. Len(file[m]) \in Nat
        BY SMTT(60), <1>0, <3>1 DEF TypeOK
    <3>9. Moved(o, m)
      <4>1. b.next_offset <= Len(file[m]) /\ since <= b.next_offset
          BY SMTT(60), <3>6, <3>8
      <4> QED
          BY SMTT(60), <2>3, <2>6, <3>1, <3>3, <3>4, <3>6, <3>7, <4>1
             DEF Moved, ForName, ForAwait
    <3>10. \A i \in since + 1 .. b.next_offset : i \in 1 .. b.next_offset
        BY SMTT(60), <3>6, <3>8
    <3> QED
        BY SMTT(60), <3>2, <3>3, <3>6, <3>7, <3>9, <3>10 DEF ForAwait
  <2>10. \A x \in G : Behind(o, x)'
    <3> SUFFICES ASSUME NEW x \in G PROVE Behind(o, x)'
        OBVIOUS
    <3>1. PICK m \in S : x \in drain_await_batch(o, m, f, None).ids
        BY <2>2 DEF AwaitShape
    <3>2. m \in Boxes(o)'
        BY <2>3, <2>6 DEF Boxes
    <3> QED
        BY <2>9, <3>1, <3>2 DEF Behind
  <2> QED
      BY <1>0, <2>3, <2>5, <2>6, <2>7, <2>8, <2>9, <2>10, WalkAdvance
<1> QED
    BY <1>1, <1>2

LEMMA WakeAdvance ==
    ASSUME Settled, Sound, CursorInv, MailGrows, SameMail, WakeOne
    PROVE  Advance
<1>0. /\ TypeOK /\ OneHolder /\ exists = Mailbox /\ AwaitBatchCap <= FrameCap
      /\ Durable /\ WakeReason /\ Addressed
    BY DEF Sound, Settled
<1>1. job \in SendJob /\ job # None /\ job.kind = "send"
    BY <1>0 DEF WakeOne, TypeOK, TickJob
<1>2. PICK m, t : m = job.mbox /\ t = job.rec
    OBVIOUS
<1>3. PICK w \in job.todo :
         /\ clients' = clients
         /\ \/ UNCHANGED <<st, delivered>>
            \/ /\ Resolves(w)
               /\ st' = [st EXCEPT ![Owner(w)].await_offsets[m] =
                           drain_await_batch(Owner(w), m, pending[w], t).next_offset]
               /\ delivered' = IF Fits(drain_await_batch(Owner(w), m, pending[w], t).ids)
                               THEN [delivered EXCEPT ![Owner(w)] = @ \cup
                                      drain_await_batch(Owner(w), m, pending[w], t).ids]
                               ELSE delivered
    BY <1>2 DEF WakeOne
<1>4. w \in Conn /\ m \in Mailbox /\ t \in Record
    BY <1>1, <1>2 DEF SendJob
<1>5. CASE UNCHANGED <<st, delivered>>
    BY <1>0, <1>3, <1>5, SameKeeps, KeepsAdvance
<1>6. CASE Resolves(w) /\ ~UNCHANGED <<st, delivered>>
  <2>1. PICK o, f : o = Owner(w) /\ f = pending[w]
      OBVIOUS
  <2>2. PICK b : b = drain_await_batch(o, m, f, t)
      OBVIOUS
  <2>3. /\ clients' = clients
        /\ st' = [st EXCEPT ![o].await_offsets[m] = b.next_offset]
        /\ delivered' = IF Fits(b.ids) THEN [delivered EXCEPT ![o] = @ \cup b.ids]
                                       ELSE delivered
      BY <1>3, <1>6, <2>1, <2>2
  <2>4. o \in Holder /\ o \in Conn /\ st[o].name = effective_identity(w)
      BY <1>0, <1>4, <1>6, <2>1, OwnerHolds
  <2>5. m \in Boxes(o) /\ t.ok
      BY <1>0, <1>1, <1>2, <2>4 DEF Addressed
  <2>6. t.origin = "Local" /\ filter_matches(f, t) /\ (m \in Channel => st[o].name # t.from)
      BY <1>0, <1>1, <1>2, <2>1, <2>4 DEF WakeReason
  <2>7. ForAwait(o, m, t)
      BY <2>5, <2>6 DEF ForAwait
  <2>8. PICK Q : Q = Append(file[m], t)
      OBVIOUS
  <2>9. Mail(m) = Q /\ Mail(m)' = Q
    <3>1. outs # <<>> /\ outs[1] = AppendMailbox(m, t)
        BY <1>0, <1>1, <1>2 DEF Durable, SendBegun
    <3>2. Ahead(m) /\ outs[1].rec = t
        BY SMTT(60), <3>1 DEF Ahead, AppendMailbox
    <3> QED
        BY <1>4, <2>8, <3>2 DEF Mail, SameMail
  <2>10. PICK since : since = st[o].await_offsets[m]
      OBVIOUS
  <2>11. Len(file[m]) \in Nat /\ Len(Q) = Len(file[m]) + 1
      BY SMTT(60), <1>0, <1>4, <2>8 DEF TypeOK
  <2>12. since <= Len(file[m]) + 1
      BY <2>4, <2>5, <2>9, <2>10, <2>11 DEF CursorInv
  <2>13. /\ since \in Nat /\ b.next_offset \in since .. Len(Q)
         /\ \A i \in since + 1 .. b.next_offset :
               ForAwait(o, m, Q[i]) => Q[i].id \in b.ids
         /\ \A x \in b.ids : \E i \in 1 .. b.next_offset :
               ForAwait(o, m, Q[i]) /\ Q[i].id = x
         /\ Fits(b.ids)
    <3>1. m \in exists /\ filter_matches(f, t) /\ TypeOK /\ AwaitBatchCap <= FrameCap
        BY <1>0, <1>4, <2>6
    <3>2. FoldFacts(b, o, m, since, Q)
        BY <1>4, <2>2, <2>4, <2>7, <2>8, <2>10, <2>12, <3>1, BatchFold
    <3> QED
        BY <3>2 DEF FoldFacts
  <2>14. /\ \A d \in Conn \ {o} : st'[d] = st[d]
         /\ st'[o].name = st[o].name /\ st'[o].joined = st[o].joined
         /\ st'[o].await_offsets[m] = b.next_offset
         /\ \A k \in Mailbox \ {m} : st'[o].await_offsets[k] = st[o].await_offsets[k]
    <3>1. PICK off : off = b.next_offset
        OBVIOUS
    <3>2. st' = [st EXCEPT ![o].await_offsets[m] = off]
        BY <2>3, <3>1
    <3> QED
        BY <1>0, <1>4, <2>4, <3>1, <3>2 DEF TypeOK, ClientState
  <2>15. /\ \A d \in Conn \ {o} : delivered'[d] = delivered[d]
         /\ delivered'[o] = delivered[o] \cup b.ids
      BY <1>0, <2>3, <2>4, <2>13 DEF TypeOK
  <2>16. Moved(o, m)
    <3>1. b.next_offset <= Len(Q) /\ since <= b.next_offset
        BY SMTT(60), <2>11, <2>13
    <3> QED
        BY SMTT(60), <2>4, <2>5, <2>9, <2>10, <2>13, <2>14, <2>15, <3>1
           DEF Moved, ForName, ForAwait
  <2>17. \A k \in Boxes(o) : st'[o].await_offsets[k] = st[o].await_offsets[k] \/ Moved(o, k)
      BY <1>0, <2>4, <2>14, <2>16, BoxesType
  <2>18. \A x \in b.ids : Behind(o, x)'
    <3>1. m \in Boxes(o)'
        BY <2>5, <2>14 DEF Boxes
    <3> QED
        BY SMTT(60), <2>9, <2>13, <2>14, <3>1 DEF Behind, ForAwait
  <2> QED
      BY <1>0, <2>3, <2>4, <2>14, <2>15, <2>17, <2>18, WalkAdvance
<1> QED
    BY <1>3, <1>5, <1>6

LEMMA StepAdvance ==
    ASSUME Settled, Sound, TypeOK', CursorInv, Next
    PROVE  Advance
<1>0. TypeOK /\ ~Rebind
    BY DEF Sound, Settled
<1>1. CASE Crash
    BY <1>1 DEF Crash, Advance, Holder
<1>2. CASE ~Crash
  <2>1. MailGrows
      BY <1>0, <1>2, StepMail, StepGrows
  <2>2. CASE Keeps
      BY <1>0, <2>1, <2>2, KeepsAdvance
  <2>3. CASE WakeOne
    <3>1. PICK h : h.kind # "Append" /\ outs' = Append(outs, h)
        BY <2>3 DEF WakeOne, Reply
    <3>2. SameMail
        BY <1>0, <2>3, <3>1, OneMore DEF WakeOne, SameMail, diskVars, envVars
    <3> QED
        BY <2>1, <2>3, <3>2, WakeAdvance
  <2>4. ASSUME NEW c \in Conn, Wire(c), c \in clients,
               ~\E m \in Mailbox, t \in Task : send(c, m, t),
               ~Keeps
        PROVE  Advance
    <3>1. SameMail /\ outs = <<>>
        BY <1>0, <2>4, WireMail DEF Wire, Ready
    <3>2. CASE \E n \in Name, o \in Origins, l \in Flags :
                 st[c].name \in {None, n} /\ register(c, n, o, l)
        BY SMTT(60), <2>1, <2>4, <3>1, <3>2, RegisterAdvance
    <3>3. CASE \E ch \in Channel, role \in Flags : join(c, ch, role)
        BY <2>1, <2>4, <3>1, <3>3, JoinAdvance
    <3>4. CASE \E f \in Filter : await_envelope(c, f)
        BY <2>1, <2>4, <3>1, <3>4, AwaitAdvance
    <3>5. CASE \E bound \in Name \cup {None} : Hello(c, bound)
        BY <2>4, <3>5, HelloKeeps DEF Sound
    <3>6. CASE \E ch \in Channel : leave(c, ch)
        BY <2>4, <3>6, LeaveKeeps DEF Sound
    <3> QED
        BY <1>0, <2>4, <3>2, <3>3, <3>4, <3>5, <3>6, WireKeeps DEF Wire, handle_wire
  <2>5. CASE \E c \in Conn : Wire(c)
    <3>1. PICK c \in Conn : Wire(c)
        BY <2>5
    <3>2. CASE c \notin clients
      <4>1. CASE Refuse
          BY <1>0, <2>2, <4>1, SameKeeps DEF Refuse, vars, actorVars, history
      <4> QED
          BY <2>2, <3>1, <3>2, <4>1, HelloKeeps DEF Wire, handle_wire, Sound
    <3>3. CASE c \in clients /\ \E m \in Mailbox, t \in Task : send(c, m, t)
        BY <1>0, <2>2, <3>3, WireKeeps
    <3> QED
        BY <2>2, <2>4, <3>1, <3>2, <3>3
  <2>6. CASE \/ \E c \in Conn : Disconnect(c) \/ Deadline(c) \/ Die(c)
             \/ \E m \in Mailbox : Truncate(m)
             \/ tick \/ Work
    <3>1. ASSUME UNCHANGED <<clients, st, delivered>>
          PROVE  Keeps
        BY <1>0, <3>1, SameKeeps
    <3>2. CASE \E c \in Conn : Disconnect(c)
        BY <1>0, <2>2, <3>2, DisconnectKeeps DEF Disconnect
    <3>3. CASE tick
      <4>1. PICK S \in SUBSET clients : disconnect(S)
          BY <3>3 DEF tick
      <4> QED
          BY <1>0, <2>2, <4>1, DisconnectKeeps
    <3> QED
        BY <2>2, <2>3, <2>6, <3>1, <3>2, <3>3
           DEF Work, NextMember, SendDone, ExpireOne, execute_outs,
               Deadline, Die, Truncate, actorVars, history
  <2> QED
      BY <1>2, <2>5, <2>6 DEF Next
<1> QED
    BY <1>1, <1>2

LEMMA AlwaysCursor ==
    ASSUME Settled
    PROVE  Spec => []CursorInv
<1>1. Init => CursorInv
    BY DEF Init, CursorInv, Holder
<1>2. Sound /\ Sound' /\ CursorInv /\ [Next]_vars => CursorInv'
  <2> SUFFICES ASSUME Sound, Sound', CursorInv, [Next]_vars PROVE CursorInv'
      OBVIOUS
  <2>0. TypeOK /\ TypeOK'
      BY DEF Sound
  <2>1. CASE Next /\ ~Crash
      BY <2>0, <2>1, StepMail, StepGrows, StepAdvance, CursorStep
  <2>2. CASE Crash
      BY <2>2 DEF Crash, CursorInv, Holder
  <2>3. CASE UNCHANGED vars
    <3>1. /\ Holder' = Holder /\ st' = st /\ delivered' = delivered
          /\ \A m : Mail(m)' = Mail(m)
        BY <2>3, SameFront DEF vars, actorVars, diskVars, history, Holder
    <3>2. \A o : Boxes(o)' = Boxes(o)
        BY <3>1 DEF Boxes
    <3> QED
        BY <3>1, <3>2 DEF CursorInv
  <2> QED
      BY <2>1, <2>2, <2>3
<1>3. Spec => []Sound
    BY AlwaysSound
<1> QED
    BY <1>1, <1>2, <1>3, PTL DEF Spec

(* No await cursor passes an envelope that no await of its holder was      *)
(* given, whatever mixture of awaits of the holder and of its proxies,     *)
(* wakes in the middle of a send, joins, disconnects and crashes moves it, *)
(* and whatever their filters are.                                         *)
THEOREM NothingSkipped ==
    ASSUME Settled
    PROVE  Spec => []AwaitSkipsNothing
<1>1. Sound /\ CursorInv => AwaitSkipsNothing
  <2> SUFFICES ASSUME Sound, CursorInv, NEW o \in Holder, NEW m \in Boxes(o),
                      NEW i \in DOMAIN file[m], i <= st[o].await_offsets[m],
                      ForAwait(o, m, file[m][i])
               PROVE  file[m][i].id \in delivered[o]
      BY DEF AwaitSkipsNothing
  <2>1. TypeOK
      BY DEF Sound
  <2>2. m \in Mailbox
      BY <2>1, BoxesType
  <2>3. file[m] \in Seq(Record) /\ Mail(m) \in Seq(Record)
      BY <2>1, <2>2, MailType DEF TypeOK
  <2>4. i \in DOMAIN Mail(m) /\ Mail(m)[i] = file[m][i]
      BY SMTT(60), <2>3 DEF Mail
  <2> QED
      BY <2>4 DEF CursorInv, ForName, ForAwait
<1>2. (Spec => []Sound) /\ (Spec => []CursorInv)
    BY AlwaysSound, AlwaysCursor
<1> QED
    BY <1>1, <1>2, PTL

=============================================================================
