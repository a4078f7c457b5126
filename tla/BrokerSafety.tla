---------------------------- MODULE BrokerSafety ----------------------------
(***************************************************************************)
(* Proofs about the broker, for every configuration: type correctness, who *)
(* may act as whom (Sessions), what a reply promises is on disk            *)
(* (ConfirmedMail), that no lookup the code takes for granted fails        *)
(* (NoPanic), what a walk over a mailbox gives and where it stops, and     *)
(* that the members of a channel are the clients that joined it            *)
(* (MembersJoined).                                                        *)
(***************************************************************************)
EXTENDS BrokerProperties, FiniteSetTheorems, WellFoundedInduction, TLAPS

(* Zenon proves a leaf unless the leaf asks for arithmetic (SMTT).         *)
USE ZenonT(60)

-----------------------------------------------------------------------------
(* Types.                                                                  *)

(* A set of record positions is finite.                                    *)
LEMMA PositionsFinite ==
    ASSUME TypeOK, NEW m \in Mailbox, NEW S, S \subseteq DOMAIN file[m]
    PROVE  IsFiniteSet(S) /\ Cardinality(S) \in Nat
<1>1. file[m] \in Seq(Record)
    BY DEF TypeOK
<1>2. DOMAIN file[m] = 1 .. Len(file[m]) /\ Len(file[m]) \in Nat
    BY SMTT(60), <1>1
<1>3. IsFiniteSet(1 .. Len(file[m]))
    BY SMTT(60), <1>2, FS_Interval
<1> QED
    BY <1>2, <1>3, FS_Subset, FS_CardinalityType

(* What a walk over a mailbox returns.                                     *)
LEMMA WalkType ==
    ASSUME TypeOK, NEW m \in Mailbox, NEW since \in Nat,
           NEW scan, scan \subseteq DOMAIN file[m],
           NEW f, NEW self, NEW local, NEW cap
    PROVE  LET w == walk(m, since, scan, f, self, local, cap)
           IN  /\ w.ids \subseteq {file[m][i].id : i \in DOMAIN file[m]}
               /\ w.next_offset \in Nat
               /\ w.fully_drained \in BOOLEAN
<1> DEFINE skip    == {i \in scan : \/ ~file[m][i].ok
                                    \/ local /\ file[m][i].origin # "Local"
                                    \/ file[m][i].from = self}
           match   == {i \in scan \ skip : filter_matches(f, file[m][i])}
           stop    == scan \ (skip \cup match)
           reached == {i \in scan : \A k \in stop : i < k}
           hits    == reached \cap match
           given   == {i \in hits : Cardinality({k \in hits : k <= i}) <= cap}
           capped  == Cardinality(hits) >= cap
           passed  == IF capped THEN {i \in reached : \E k \in given : i <= k}
                                ELSE reached
<1>1. walk(m, since, scan, f, self, local, cap) =
        [ids |-> {file[m][i].id : i \in given},
         next_offset |-> Least(since, DrainEnd(m, since)) + Cardinality(passed),
         fully_drained |-> stop = {} /\ ~capped]
    BY DEF walk
<1>2. given \subseteq DOMAIN file[m] /\ passed \subseteq DOMAIN file[m]
    OBVIOUS
<1>3. Cardinality(passed) \in Nat
    BY <1>2, PositionsFinite
<1>4. Least(since, DrainEnd(m, since)) \in Nat
    BY SMTT(60) DEF Least, DrainEnd, TypeOK
<1> HIDE DEF given, passed, stop, capped
<1> QED
    BY SMTT(60), <1>1, <1>2, <1>3, <1>4

(* The ids that mailbox m holds.                                           *)
IdsIn(m) == {file[m][i].id : i \in DOMAIN file[m]}

LEMMA IdsInType ==
    ASSUME TypeOK, NEW m \in Mailbox
    PROVE  IdsIn(m) \subseteq Nat
<1>1. file[m] \in Seq(Record)
    BY DEF TypeOK
<1>2. \A i \in DOMAIN file[m] : file[m][i] \in Record
    BY SMTT(60), <1>1
<1> QED
    BY <1>2 DEF Record, IdsIn

(* A drain's decoded lines are lines of the file.                          *)
LEMMA DecodeType ==
    ASSUME TypeOK, NEW m \in Mailbox, NEW since \in Nat
    PROVE  /\ decode_lines(m, since) \subseteq IdsIn(m)
           /\ DrainEnd(m, since) \in Nat
<1>1. file[m] \in Seq(Record)
    BY DEF TypeOK
<1> QED
    BY SMTT(60), <1>1 DEF decode_lines, Drained, IdsIn, DrainEnd

(* The owner of the cursors a connection works with is a connection, and   *)
(* who may act has a name.                                                 *)
LEMMA OwnerType ==
    ASSUME TypeOK, NEW c \in Conn
    PROVE  Owner(c) \in Conn
BY DEF Owner, canonical_holder_id, Holders, TypeOK

LEMMA IdentityType ==
    ASSUME TypeOK, NEW c \in Conn, Resolves(c)
    PROVE  effective_identity(c) \in Name
<1>1. st[c].name \in Name \cup {None} /\ st[c].bind_as \in Name \cup {None}
    BY DEF TypeOK, ClientState
<1> QED
    BY <1>1 DEF Resolves, effective_identity

(* What an await batch holds: ids of the file, and the record being sent.  *)
LEMMA BatchType ==
    ASSUME TypeOK, NEW o \in Conn, NEW m \in Mailbox, NEW f,
           NEW t \in Record \cup {None}
    PROVE  LET b == drain_await_batch(o, m, f, t)
           IN  /\ b.ids \subseteq IdsIn(m) \cup (IF t = None THEN {} ELSE {t.id})
               /\ b.next_offset \in Nat
               /\ b.fully_drained \in BOOLEAN
<1> DEFINE since == st[o].await_offsets[m]
           self  == IF m \in Channel THEN effective_identity(o) ELSE None
           w     == walk(m, since, Drained(m, since), f, self, TRUE, AwaitBatchCap)
           fold  == w.fully_drained /\ t # None
           pass  == fold /\ (t.origin # "Local" \/ t.from = self)
           give  == fold /\ ~pass /\ filter_matches(f, t)
<1>1. drain_await_batch(o, m, f, t) =
        [ids |-> w.ids \cup (IF give THEN {t.id} ELSE {}),
         next_offset |-> w.next_offset + (IF pass \/ give THEN 1 ELSE 0),
         fully_drained |-> w.fully_drained]
    BY DEF drain_await_batch
<1>2. since \in Nat
    BY SMTT(60) DEF TypeOK, ClientState
<1>3. Drained(m, since) \subseteq DOMAIN file[m]
    BY DEF Drained
<1> HIDE DEF since, self
<1>4. /\ w.ids \subseteq IdsIn(m)
      /\ w.next_offset \in Nat
      /\ w.fully_drained \in BOOLEAN
    BY <1>2, <1>3, WalkType DEF IdsIn
<1>5. give => t # None
    OBVIOUS
<1> HIDE DEF w, pass, give
<1> QED
    BY SMTT(60), <1>1, <1>4, <1>5

-----------------------------------------------------------------------------
(* Type correctness, action by action.                                     *)

(* One channel's share of an inbox poll.                                   *)
LEMMA InboxWalkType ==
    ASSUME TypeOK, NEW o \in Conn, NEW ch \in Channel
    PROVE  /\ InboxWalk(o, ch).ids \subseteq IdsIn(ch)
           /\ InboxWalk(o, ch).next_offset \in Nat
<1> DEFINE since == st[o].inbox_offsets[ch]
           scan  == {i \in Drained(ch, since) : i <= since + ChannelDrainCap}
           w     == walk(ch, since, scan, AnyTask, st[o].name, FALSE,
                         Len(file[ch]) + 1)
           cut   == Cardinality(Drained(ch, since)) > ChannelDrainCap
<1>1. InboxWalk(o, ch) =
        [ids |-> w.ids,
         next_offset |-> IF cut THEN w.next_offset ELSE DrainEnd(ch, since)]
    BY DEF InboxWalk
<1>2. since \in Nat /\ ch \in Mailbox
    BY SMTT(60) DEF TypeOK, ClientState, Mailbox
<1>3. scan \subseteq DOMAIN file[ch]
    BY DEF Drained
<1> HIDE DEF since, scan
<1>4. w.ids \subseteq IdsIn(ch) /\ w.next_offset \in Nat
    BY <1>2, <1>3, WalkType DEF IdsIn
<1>5. DrainEnd(ch, since) \in Nat
    BY <1>2, DecodeType
<1> HIDE DEF w, cut
<1> QED
    BY SMTT(60), <1>1, <1>4, <1>5

(* The first output, and what is left when it is done.                     *)
LEMMA HeadOut ==
    ASSUME TypeOK, outs # <<>>
    PROVE  /\ Head(outs) \in Out
           /\ Tail(outs) \in Seq(Out)
           /\ Head(outs).kind = "Append" => Head(outs) \in AppendOut
           /\ Head(outs).kind = "Cursor" => Head(outs) \in CursorOut
           /\ Head(outs).kind = "Reply"  => Head(outs) \in ReplyOut
<1>1. Head(outs) \in Out /\ Tail(outs) \in Seq(Out)
    BY SMTT(60) DEF TypeOK
<1> QED
    BY <1>1 DEF Out, AppendOut, CursorOut, ReplyOut

(* Every state the broker reaches is well typed, for any number of         *)
(* connections, names, channels, tasks, messages and faults.               *)
THEOREM TypeCorrect == Spec => []TypeOK
(* The entry of a new connection is a client state.                        *)
<1>FreshType.
    ASSUME NEW n \in Name \cup {None}
    PROVE  Fresh(n) \in ClientState
    BY <1>FreshType DEF Fresh, ClientState, Origin
<1>BatchIds.
    ASSUME TypeOK, NEW o \in Conn, NEW m \in Mailbox, NEW f,
           NEW t \in Record \cup {None}
    PROVE  drain_await_batch(o, m, f, t).ids \subseteq Nat
  <2> USE <1>BatchIds
  <2>1. t # None => t.id \in Nat
      BY DEF Record
  <2> QED
      BY SMTT(60), <2>1, BatchType, IdsInType
<1>RefuseType.
    ASSUME TypeOK, UNCHANGED vars
    PROVE  TypeOK'
    BY <1>RefuseType DEF TypeOK, vars, actorVars, diskVars, envVars, history
<1>HelloType.
    ASSUME TypeOK, NEW c \in Conn, NEW n \in Name \cup {None}, Hello(c, n)
    PROVE  TypeOK'
  <2> USE <1>HelloType
  <2>1. CASE Refuse
      BY <2>1, <1>RefuseType DEF Refuse
  <2>2. CASE c \notin clients /\ (n = None \/ proxy_holder_alive(n))
              /\ clients' = clients \cup {c} /\ st' = [st EXCEPT ![c] = Fresh(n)]
              /\ alive' = alive \cup {c}
              /\ UNCHANGED <<channels, roles, pending, due, diskVars, nmsg, nfault,
                             history, job, outs>>
      BY <2>2, <1>FreshType DEF TypeOK, diskVars, history
  <2> QED
      BY <2>1, <2>2 DEF Hello
<1>JoinedType.
    ASSUME TypeOK, NEW o \in Conn, NEW ch \in Channel, ch \in Mailbox,
           NEW J \in SUBSET Channel, NEW off \in Nat
    PROVE  [st EXCEPT ![o].joined = J, ![o].await_offsets[ch] = off,
                      ![o].inbox_offsets[ch] = off] \in [Conn -> ClientState]
  <2> USE <1>JoinedType
  <2> DEFINE s == [st[o] EXCEPT !.joined = J, !.await_offsets[ch] = off,
                                !.inbox_offsets[ch] = off]
  <2>1. st[o] \in ClientState /\ st \in [Conn -> ClientState]
      BY DEF TypeOK
  <2>2. s \in ClientState
      BY <2>1 DEF ClientState
  <2>3. [st EXCEPT ![o].joined = J, ![o].await_offsets[ch] = off,
                   ![o].inbox_offsets[ch] = off] = [st EXCEPT ![o] = s]
      BY <2>1 DEF ClientState
  <2> HIDE DEF s
  <2> QED
      BY <2>1, <2>2, <2>3
<1>RegisterType.
    ASSUME TypeOK, NEW c \in Conn, NEW n \in Name, NEW origin \in Origins,
           NEW listen \in Flags, register(c, n, origin, listen)
    PROVE  TypeOK'
  <2> USE <1>RegisterType
  <2> DEFINE ids == decode_lines(n, 0)
             off == DrainEnd(n, 0)
  <2>1. CASE Refuse
      BY <2>1, <1>RefuseType DEF Refuse
  <2>2. CASE /\ st' = [st EXCEPT ![c].name = n, ![c].origin = origin,
                                 ![c].listen_mode = listen,
                                 ![c].await_offsets[n] = off]
             /\ delivered' = [delivered EXCEPT ![c] = @ \cup ids]
             /\ outs' = <<AdvanceCursor(n, off)>>
             /\ UNCHANGED <<clients, channels, roles, pending, due, diskVars, envVars,
                            inboxed, acked, job>>
    <3>1. ids \subseteq Nat /\ off \in Nat /\ n \in Mailbox
        BY DecodeType, IdsInType DEF Mailbox
    <3>2. st[c] \in ClientState /\ st \in [Conn -> ClientState]
        BY DEF TypeOK
    <3>3. origin \in Origin /\ listen \in BOOLEAN
        BY SetAssumption
    <3> HIDE DEF ids, off
    <3>5. st' \in [Conn -> ClientState]
        BY <2>2, <3>1, <3>2, <3>3 DEF ClientState
    <3>6. delivered' \in [Conn -> SUBSET Nat]
        BY <2>2, <3>1 DEF TypeOK
    <3>7. outs' \in Seq(Out)
      <4>1. AdvanceCursor(n, off) \in Out
          BY <3>1 DEF AdvanceCursor, CursorOut, Out
      <4> QED
          BY SMTT(60), <2>2, <4>1
    <3> QED
        BY <2>2, <3>5, <3>6, <3>7 DEF TypeOK, diskVars, envVars
  <2> QED
      BY <2>1, <2>2 DEF register
<1>FlagType.
    ASSUME TypeOK, NEW c \in Conn, NEW l \in Flags,
           set_listen(c, l) \/ set_wake_addr(c, l)
    PROVE  TypeOK'
  <2> USE <1>FlagType
  <2>1. CASE Refuse
      BY <2>1, <1>RefuseType DEF Refuse
  <2>2. CASE /\ \/ st' = [st EXCEPT ![c].listen_mode = l]
                \/ st' = [st EXCEPT ![c].wake_addr = l]
             /\ UNCHANGED <<clients, channels, roles, pending, due, diskVars,
                            envVars, history, job, outs>>
    <3>1. st[c] \in ClientState /\ st \in [Conn -> ClientState] /\ l \in BOOLEAN
        BY SetAssumption DEF TypeOK
    <3>2. CASE st' = [st EXCEPT ![c].listen_mode = l]
        BY <2>2, <3>1, <3>2 DEF TypeOK, ClientState, diskVars, envVars, history
    <3>3. CASE st' = [st EXCEPT ![c].wake_addr = l]
        BY <2>2, <3>1, <3>3 DEF TypeOK, ClientState, diskVars, envVars, history
    <3> QED
        BY <2>2, <3>2, <3>3
  <2> QED
      BY <2>1, <2>2 DEF set_listen, set_wake_addr
<1>JoinType.
    ASSUME TypeOK, NEW c \in Conn, NEW ch \in Channel, NEW role \in Flags,
           join(c, ch, role)
    PROVE  TypeOK'
  <2> USE <1>JoinType
  <2> DEFINE n   == effective_identity(c)
             o   == Owner(c)
             ids == decode_lines(ch, 0)
             off == DrainEnd(ch, 0)
  <2>1. CASE Refuse
      BY <2>1, <1>RefuseType DEF Refuse
  <2>2. CASE /\ Resolves(c)
             /\ channels' = [channels EXCEPT ![ch] = @ \cup {n}]
             /\ st' = [st EXCEPT ![o].joined = @ \cup {ch},
                                 ![o].await_offsets[ch] = off,
                                 ![o].inbox_offsets[ch] = off]
             /\ roles' = IF role THEN [roles EXCEPT ![ch] = @ \cup {n}] ELSE roles
             /\ delivered' = [delivered EXCEPT ![o] = @ \cup ids]
             /\ inboxed' = [inboxed EXCEPT ![o] = @ \cup ids]
             /\ outs' = <<AdvanceCursor(ch, off)>>
             /\ UNCHANGED <<clients, pending, due, diskVars, envVars, acked, job>>
    <3>1. ids \subseteq Nat /\ off \in Nat /\ ch \in Mailbox
        BY DecodeType, IdsInType DEF Mailbox
    <3>2. n \in Name /\ o \in Conn
        BY <2>2, IdentityType, OwnerType
    <3> HIDE DEF ids, off, n, o
    <3>a. st[o].joined \cup {ch} \in SUBSET Channel
        BY <3>2 DEF TypeOK, ClientState
    <3>3. st' \in [Conn -> ClientState]
        BY <2>2, <3>1, <3>2, <3>a, <1>JoinedType
    <3>4. /\ channels' \in [Channel -> SUBSET Name]
          /\ roles' \in [Channel -> SUBSET Name]
          /\ delivered' \in [Conn -> SUBSET Nat]
          /\ inboxed' \in [Conn -> SUBSET Nat]
        BY <2>2, <3>1, <3>2 DEF TypeOK
    <3>5. AdvanceCursor(ch, off) \in Out
        BY <3>1 DEF AdvanceCursor, CursorOut, Out
    <3>6. outs' \in Seq(Out)
        BY SMTT(60), <2>2, <3>5
    <3> QED
        BY <2>2, <3>3, <3>4, <3>6 DEF TypeOK, diskVars, envVars
  <2> QED
      BY <2>1, <2>2 DEF join
<1>LeaveType.
    ASSUME TypeOK, NEW c \in Conn, NEW ch \in Channel, leave(c, ch)
    PROVE  TypeOK'
  <2> USE <1>LeaveType
  <2> DEFINE n == effective_identity(c)
             o == Owner(c)
  <2>1. CASE Refuse
      BY <2>1, <1>RefuseType DEF Refuse
  <2>2. CASE /\ channels' = [channels EXCEPT ![ch] = @ \ {n}]
             /\ st' = [st EXCEPT ![o].joined = @ \ {ch},
                                 ![o].await_offsets[ch] = 0,
                                 ![o].inbox_offsets[ch] = 0]
             /\ roles' = [roles EXCEPT ![ch] = @ \ {n}]
             /\ UNCHANGED <<clients, pending, due, diskVars, envVars, history, job, outs>>
    <3>1. o \in Conn /\ ch \in Mailbox
        BY OwnerType DEF Mailbox
    <3> HIDE DEF n, o
    <3>a. st[o].joined \ {ch} \in SUBSET Channel
        BY <3>1 DEF TypeOK, ClientState
    <3>2. st' \in [Conn -> ClientState]
        BY <2>2, <3>1, <3>a, <1>JoinedType
    <3>3. /\ channels' \in [Channel -> SUBSET Name]
          /\ roles' \in [Channel -> SUBSET Name]
        BY <2>2 DEF TypeOK
    <3> QED
        BY <2>2, <3>2, <3>3 DEF TypeOK, diskVars, envVars, history
  <2> QED
      BY <2>1, <2>2 DEF leave
<1>InboxType.
    ASSUME TypeOK, NEW c \in Conn, NEW since \in Nat, inbox(c, since)
    PROVE  TypeOK'
  <2> USE <1>InboxType
  <2>InboxOffsetsType.
      ASSUME TypeOK, NEW o \in Conn, NEW offs \in [Channel -> Nat]
      PROVE  [st EXCEPT ![o].inbox_offsets = offs] \in [Conn -> ClientState]
    <3> USE <2>InboxOffsetsType
    <3>1. st \in [Conn -> ClientState] /\ st[o] \in ClientState
        BY DEF TypeOK
    <3>2. [st[o] EXCEPT !.inbox_offsets = offs] \in ClientState
        BY <3>1 DEF ClientState
    <3> QED
        BY <3>1, <3>2
  <2> DEFINE o    == Owner(c)
             mine == UNION {InboxWalk(o, ch).ids : ch \in st[o].joined}
             offs == [ch \in Channel |-> IF ch \in st[o].joined
                                         THEN InboxWalk(o, ch).next_offset
                                         ELSE st[o].inbox_offsets[ch]]
  <2>1. CASE Refuse
      BY <2>1, <1>RefuseType DEF Refuse
  <2>2. CASE /\ st' = [st EXCEPT ![o].inbox_offsets = offs]
             /\ inboxed' = [inboxed EXCEPT ![o] = @ \cup mine]
             /\ outs' = <<Reply(c, "InboxOk", mine)>>
             /\ UNCHANGED <<clients, channels, roles, pending, due, diskVars, envVars,
                            delivered, acked, job>>
    <3>1. o \in Conn
        BY OwnerType
    <3>2. st[o] \in ClientState
        BY <3>1 DEF TypeOK
    <3> HIDE DEF o
    <3>3. \A ch \in st[o].joined : InboxWalk(o, ch).ids \subseteq Nat
      <4>1. \A ch \in st[o].joined : ch \in Channel /\ ch \in Mailbox
          BY <3>2 DEF ClientState, Mailbox
      <4> QED
          BY <3>1, <4>1, InboxWalkType, IdsInType
    <3>4. mine \subseteq Nat
        BY <3>3
    <3>5. offs \in [Channel -> Nat]
        BY <3>1, <3>2, InboxWalkType DEF ClientState
    <3> HIDE DEF mine, offs
    <3>6. st' \in [Conn -> ClientState]
        BY <2>2, <3>1, <3>5, <2>InboxOffsetsType
    <3>7. inboxed' \in [Conn -> SUBSET Nat]
        BY <2>2, <3>1, <3>4 DEF TypeOK
    <3>8. Reply(c, "InboxOk", mine) \in Out
        BY <3>4 DEF Reply, ReplyOut, ReplyKind, Out
    <3>9. outs' \in Seq(Out)
        BY SMTT(60), <2>2, <3>8
    <3> QED
        BY <2>2, <3>6, <3>7, <3>9 DEF TypeOK, diskVars, envVars
  <2> QED
      BY <2>1, <2>2 DEF inbox
(* A reply of any kind is an output.                                       *)
<1>ReplyType.
    ASSUME NEW c \in Conn, NEW what \in ReplyKind, NEW ids \in SUBSET Nat
    PROVE  Reply(c, what, ids) \in Out
    BY <1>ReplyType DEF Reply, ReplyOut, Out
<1>AwaitType.
    ASSUME TypeOK, NEW c \in Conn, NEW f \in Filter, await_envelope(c, f)
    PROVE  TypeOK'
  <2> USE <1>AwaitType
  (* A new offset for one mailbox, or new offsets for all, keeps the type of *)
  (* the table of clients.                                                   *)
  <2>OffsetsType.
      ASSUME TypeOK, NEW o \in Conn, NEW offs \in [Mailbox -> Nat]
      PROVE  [st EXCEPT ![o].await_offsets = offs] \in [Conn -> ClientState]
    <3> USE <2>OffsetsType
    <3>1. st \in [Conn -> ClientState] /\ st[o] \in ClientState
        BY DEF TypeOK
    <3>2. [st[o] EXCEPT !.await_offsets = offs] \in ClientState
        BY <3>1 DEF ClientState
    <3> QED
        BY <3>1, <3>2
  <2> DEFINE o         == Owner(c)
             boxes     == {effective_identity(c)} \cup st[o].joined
             batch(m)  == drain_await_batch(o, m, f, None)
             empty(S)  == \A m \in S : batch(m).ids = {}
             before(m) == {k \in boxes : Earlier(k, m)}
             offs(S)   == [m \in Mailbox |-> IF m \in S THEN batch(m).next_offset
                                             ELSE st[o].await_offsets[m]]
             Walked(S) == st' = [st EXCEPT ![o].await_offsets = offs(S)]
             Rest      == UNCHANGED <<clients, channels, roles, diskVars, envVars,
                                      inboxed, acked, job>>
  <2>1. CASE Refuse
      BY <2>1, <1>RefuseType DEF Refuse
  <2>2. o \in Conn
      BY OwnerType
  <2>3. \A m \in Mailbox : batch(m).ids \subseteq Nat /\ batch(m).next_offset \in Nat
      BY <2>2, BatchType, <1>BatchIds
  <2>4. st[o].await_offsets \in [Mailbox -> Nat] /\ st[o].joined \subseteq Channel
      BY <2>2 DEF TypeOK, ClientState
  <2>5. \A S : offs(S) \in [Mailbox -> Nat]
      BY <2>3, <2>4
  <2>6. ASSUME NEW S, Walked(S)
        PROVE  st' \in [Conn -> ClientState]
      BY <2>2, <2>5, <2>6, <2>OffsetsType
  <2>7. CASE /\ \E m \in boxes : /\ Walked(before(m))
                                 /\ UNCHANGED <<pending, due, delivered, outs>>
             /\ Rest
      BY <2>6, <2>7 DEF TypeOK, diskVars, envVars
  <2>8. CASE /\ Resolves(c)
             /\ \E m \in boxes :
                  /\ Walked(before(m) \cup {m})
                  /\ delivered' = IF Fits(batch(m).ids)
                                  THEN [delivered EXCEPT ![o] = @ \cup batch(m).ids]
                                  ELSE delivered
                  /\ outs' = <<Reply(c, "AwaitOk", batch(m).ids)>>
                  /\ UNCHANGED <<pending, due>>
             /\ Rest
    <3>1. PICK m \in boxes :
                  /\ Walked(before(m) \cup {m})
                  /\ delivered' = IF Fits(batch(m).ids)
                                  THEN [delivered EXCEPT ![o] = @ \cup batch(m).ids]
                                  ELSE delivered
                  /\ outs' = <<Reply(c, "AwaitOk", batch(m).ids)>>
                  /\ UNCHANGED <<pending, due>>
        BY <2>8
    <3>2. m \in Mailbox
        BY <2>4, <2>8, IdentityType DEF Mailbox
    <3>3. batch(m).ids \subseteq Nat
        BY <2>3, <3>2
    <3>4. st' \in [Conn -> ClientState]
        BY <2>6, <3>1
    <3> HIDE DEF o, batch, Walked
    <3>5. delivered' \in [Conn -> SUBSET Nat]
        BY <2>2, <3>1, <3>3 DEF TypeOK
    <3>6. outs' \in Seq(Out)
      <4>1. Reply(c, "AwaitOk", batch(m).ids) \in Out
          BY <3>3, <1>ReplyType DEF ReplyKind
      <4> QED
          BY SMTT(60), <3>1, <4>1
    <3> QED
        BY <2>8, <3>1, <3>4, <3>5, <3>6 DEF TypeOK, diskVars, envVars
  <2>9. CASE /\ Walked(boxes)
             /\ pending' = [pending EXCEPT ![c] = f]
             /\ due' = due \ {c}
             /\ UNCHANGED <<outs, delivered>>
             /\ Rest
    <3>1. st' \in [Conn -> ClientState]
        BY <2>6, <2>9
    <3> HIDE DEF o, batch, Walked
    <3>2. pending' \in [Conn -> Filter \cup {None}] /\ due' \subseteq Conn
        BY <2>9 DEF TypeOK
    <3> QED
        BY <2>9, <3>1, <3>2 DEF TypeOK, diskVars, envVars
  <2> QED
      BY <2>1, <2>7, <2>8, <2>9 DEF await_envelope
(* An envelope that send is given.                                         *)
<1>SendingType.
    ASSUME TypeOK, NEW c \in Conn, NEW m \in Mailbox, NEW r \in Record,
           NEW members \in SUBSET Name, NEW waiters \in SUBSET Conn,
           NEW flags \in SUBSET {"woken", "wake_addr"},
           Sending(c, m, r, members, waiters, flags)
    PROVE  TypeOK'
  <2> USE <1>SendingType
  <2>1. job' \in SendJob
      BY DEF Sending, SendJob
  <2>2. AppendMailbox(m, r) \in Out
      BY DEF AppendMailbox, AppendOut, Out
  <2>3. outs' \in Seq(Out)
      BY SMTT(60), <2>2 DEF Sending
  <2> QED
      BY SMTT(60), <2>1, <2>3 DEF Sending, TypeOK, actorVars, diskVars, history
<1>SendType.
    ASSUME TypeOK, NEW c \in Conn, NEW m \in Mailbox, NEW task \in Task,
           send(c, m, task)
    PROVE  TypeOK'
  <2> USE <1>SendType
  <2> DEFINE r == [id |-> nmsg + 1, from |-> effective_identity(c),
                   origin |-> client_origin(c), task |-> task, ok |-> TRUE]
  <2>1. CASE Refuse
      BY <2>1, <1>RefuseType DEF Refuse
  <2>2. CASE Resolves(c) /\ (\/ m \in Name /\ send_agent(c, m, r)
                             \/ m \in Channel /\ send_channel(c, m, r))
    <3>1. client_origin(c) \in Origin
      <4>1. \A d \in Conn : st[d].origin \in Origin
          BY DEF TypeOK, ClientState
      <4>2. \A n : Holders(n) # {} => canonical_holder_id(n) \in Conn
          BY DEF canonical_holder_id, Holders, TypeOK
      <4>3. CASE st[c].name # None
          BY <4>1, <4>3 DEF client_origin
      <4>4. CASE st[c].name = None /\ st[c].bind_as # None
                                   /\ Holders(st[c].bind_as) # {}
          BY <4>1, <4>2, <4>4 DEF client_origin
      <4>5. CASE ~(\/ st[c].name # None
                   \/ st[c].name = None /\ st[c].bind_as # None
                                        /\ Holders(st[c].bind_as) # {})
        <5>1. client_origin(c) = "Unknown"
            BY <4>5 DEF client_origin
        <5> QED
            BY <5>1 DEF Origin
      <4> QED
          BY <4>3, <4>4, <4>5
    <3>2. r \in Record
      <4>1. nmsg + 1 \in Nat
          BY SMTT(60) DEF TypeOK
      <4>2. effective_identity(c) \in Name
          BY <2>2, IdentityType
      <4> QED
          BY <3>1, <4>1, <4>2 DEF Record
    <3> HIDE DEF r
    <3>3. \A n : waiting_clients_for_name(n, r) \subseteq Conn
        BY DEF waiting_clients_for_name, TypeOK
    <3>4. CASE send_agent(c, m, r)
      <4> DEFINE waiters == waiting_clients_for_name(m, r)
                 flags   == (IF waiters # {} THEN {"woken"} ELSE {})
                            \cup (IF /\ ~woken_waiter_is_canonical_holder(m, waiters)
                                     /\ recipient_wake_addr(m, r.origin)
                                  THEN {"wake_addr"} ELSE {})
      <4>1. Sending(c, m, r, {}, waiters, flags)
          BY <3>4 DEF send_agent
      <4>2. flags \in SUBSET {"woken", "wake_addr"}
          OBVIOUS
      <4> HIDE DEF waiters, flags
      <4>3. waiters \in SUBSET Conn
          BY <3>3 DEF waiters
      <4> QED
          BY <3>2, <4>1, <4>2, <4>3, <1>SendingType
    <3>5. CASE m \in Channel /\ send_channel(c, m, r)
      <4>1. channels[m] \ {r.from} \in SUBSET Name
          BY <3>5 DEF TypeOK
      <4>2. {} \in SUBSET {"woken", "wake_addr"}
          OBVIOUS
      <4> QED
          BY <3>2, <3>5, <4>1, <4>2, <1>SendingType DEF send_channel
    <3> QED
        BY <2>2, <3>4, <3>5
  <2> QED
      BY <2>1, <2>2 DEF send
<1>NextMemberType.
    ASSUME TypeOK, NextMember
    PROVE  TypeOK'
  <2> USE <1>NextMemberType
  <2>1. job \in SendJob
      BY DEF NextMember, TypeOK, TickJob
  <2>2. PICK n \in job.members :
           job' = [job EXCEPT !.members = @ \ {n},
                              !.todo = waiting_clients_for_name(n, job.rec)]
      BY DEF NextMember
  <2>3. waiting_clients_for_name(n, job.rec) \subseteq Conn
      BY DEF waiting_clients_for_name, TypeOK
  <2>4. job' \in SendJob
      BY <2>1, <2>2, <2>3 DEF SendJob
  <2> QED
      BY <2>4 DEF NextMember, TypeOK, actorVars, diskVars, envVars, history
<1>WakeOneType.
    ASSUME TypeOK, WakeOne
    PROVE  TypeOK'
  <2> USE <1>WakeOneType
  <2>OffsetType.
      ASSUME TypeOK, NEW o \in Conn, NEW m \in Mailbox, NEW off \in Nat
      PROVE  [st EXCEPT ![o].await_offsets[m] = off] \in [Conn -> ClientState]
    <3> USE <2>OffsetType
    <3>1. st \in [Conn -> ClientState] /\ st[o] \in ClientState
        BY DEF TypeOK
    <3>2. [st[o].await_offsets EXCEPT ![m] = off] \in [Mailbox -> Nat]
        BY <3>1 DEF ClientState
    <3>3. [st[o] EXCEPT !.await_offsets[m] = off] \in ClientState
        BY <3>1, <3>2 DEF ClientState
    <3> QED
        BY <3>1, <3>3
  <2>1. job \in SendJob
      BY DEF WakeOne, TypeOK, TickJob
  <2>2. PICK w \in job.todo :
           LET o    == Owner(w)
               b    == drain_await_batch(o, job.mbox, pending[w], job.rec)
               what == IF b.ids # {} THEN "AwaitOk"
                       ELSE IF b.fully_drained THEN "Internal" ELSE "AwaitTimeout"
           IN
           /\ job' = [job EXCEPT !.todo = @ \ {w}]
           /\ pending' = [pending EXCEPT ![w] = None]
           /\ due' = due \ {w}
           /\ \/ /\ ~Resolves(w) \/ Unreadable
                 /\ outs' = Append(outs, Reply(w, "Err", {}))
                 /\ UNCHANGED <<st, delivered>>
              \/ /\ Resolves(w)
                 /\ st' = [st EXCEPT ![o].await_offsets[job.mbox] = b.next_offset]
                 /\ outs' = Append(outs, Reply(w, what, b.ids))
                 /\ delivered' = IF Fits(b.ids)
                                 THEN [delivered EXCEPT ![o] = @ \cup b.ids]
                                 ELSE delivered
      BY DEF WakeOne
  <2> DEFINE o    == Owner(w)
             b    == drain_await_batch(o, job.mbox, pending[w], job.rec)
             what == IF b.ids # {} THEN "AwaitOk"
                     ELSE IF b.fully_drained THEN "Internal" ELSE "AwaitTimeout"
  <2>3. w \in Conn /\ job.mbox \in Mailbox /\ job.rec \in Record
      BY <2>1 DEF SendJob
  <2>4. o \in Conn
      BY <2>3, OwnerType
  <2>5. b.ids \subseteq Nat /\ b.next_offset \in Nat
      BY <2>3, <2>4, BatchType, <1>BatchIds
  <2>6. what \in ReplyKind
      BY DEF ReplyKind
  <2>7. /\ job' \in SendJob
        /\ pending' \in [Conn -> Filter \cup {None}]
        /\ due' \subseteq Conn
    <3>1. job' = [job EXCEPT !.todo = @ \ {w}]
        BY <2>2
    <3>2. job' \in SendJob
        BY <2>1, <3>1 DEF SendJob
    <3> QED
        BY <2>2, <3>2 DEF TypeOK
  <2>8. UNCHANGED <<clients, channels, roles, file, exists, cursor, alive, nmsg,
                    nfault, inboxed, acked>>
      BY DEF WakeOne, diskVars, envVars
  <2>9. CASE outs' = Append(outs, Reply(w, "Err", {})) /\ UNCHANGED <<st, delivered>>
    <3>1. Reply(w, "Err", {}) \in Out
        BY <2>3, <1>ReplyType DEF ReplyKind
    <3>2. outs' \in Seq(Out)
        BY SMTT(60), <2>9, <3>1 DEF TypeOK
    <3> QED
        BY <2>7, <2>8, <2>9, <3>2 DEF TypeOK
  <2>10. CASE /\ st' = [st EXCEPT ![o].await_offsets[job.mbox] = b.next_offset]
              /\ outs' = Append(outs, Reply(w, what, b.ids))
              /\ delivered' = IF Fits(b.ids)
                              THEN [delivered EXCEPT ![o] = @ \cup b.ids]
                              ELSE delivered
    <3> HIDE DEF o, b, what
    <3>1. outs' \in Seq(Out)
      <4>1. Reply(w, what, b.ids) \in Out
          BY <2>3, <2>5, <2>6, <1>ReplyType
      <4> QED
          BY SMTT(60), <2>10, <4>1 DEF TypeOK
    <3>2. delivered' \in [Conn -> SUBSET Nat]
        BY <2>4, <2>5, <2>10 DEF TypeOK
    <3>3. st' \in [Conn -> ClientState]
        BY <2>3, <2>4, <2>5, <2>10, <2>OffsetType
    <3> QED
        BY <2>7, <2>8, <3>1, <3>2, <3>3 DEF TypeOK
  <2> QED
      BY <2>2, <2>9, <2>10
<1>SendDoneType.
    ASSUME TypeOK, SendDone
    PROVE  TypeOK'
  <2> USE <1>SendDoneType
  <2>1. job \in SendJob
      BY DEF SendDone, TypeOK, TickJob
  <2>2. SendOk(job.from, job.rec.id, job.flags) \in Out
      BY <2>1 DEF SendJob, Record, SendOk, ReplyOut, ReplyKind, Out
  <2>3. outs' \in Seq(Out)
      BY SMTT(60), <2>2 DEF SendDone, TypeOK
  <2> QED
      BY <2>3 DEF SendDone, TypeOK, actorVars, diskVars, envVars, history
<1>DisconnectType.
    ASSUME TypeOK, NEW S \in SUBSET Conn, disconnect(S)
    PROVE  /\ clients' \subseteq Conn /\ due' \subseteq Conn
           /\ st' \in [Conn -> ClientState]
           /\ channels' \in [Channel -> SUBSET Name]
           /\ roles' \in [Channel -> SUBSET Name]
           /\ pending' \in [Conn -> Filter \cup {None}]
           /\ delivered' \in [Conn -> SUBSET Nat]
           /\ inboxed' \in [Conn -> SUBSET Nat]
  <2> USE <1>DisconnectType
  <2>1. Fresh(None) \in ClientState
      BY <1>FreshType
  <2>2. st' \in [Conn -> ClientState]
      BY <2>1 DEF disconnect, TypeOK
  <2> QED
      BY <2>2 DEF disconnect, TypeOK
<1>TickType.
    ASSUME TypeOK, tick
    PROVE  TypeOK'
  <2> USE <1>TickType
  <2> DEFINE dead    == {c \in clients : st[c].name # None /\ c \notin alive}
             expired == {c \in due \ dead : pending[c] # None}
  <2>1. dead \in SUBSET Conn /\ expired \in SUBSET Conn
      BY DEF TypeOK
  <2>2. /\ disconnect(dead)
        /\ job' = IF expired = {} THEN None ELSE [kind |-> "tick", todo |-> expired]
        /\ UNCHANGED <<diskVars, envVars, acked, outs>>
      BY DEF tick
  <2> HIDE DEF dead, expired
  <2>3. job' \in TickJob \cup {None}
      BY <2>1, <2>2 DEF TickJob
  <2> QED
      BY <2>1, <2>2, <2>3, <1>DisconnectType DEF TypeOK, diskVars, envVars
<1>ExpireOneType.
    ASSUME TypeOK, ExpireOne
    PROVE  TypeOK'
  <2> USE <1>ExpireOneType
  <2>1. job \in TickJob
      BY DEF ExpireOne, TypeOK, SendJob
  <2>2. PICK w \in job.todo :
           /\ pending' = [pending EXCEPT ![w] = None]
           /\ due' = due \ {w}
           /\ outs' = Append(outs, Reply(w, "AwaitTimeout", {}))
           /\ job' = IF job.todo = {w} THEN None
                                       ELSE [job EXCEPT !.todo = @ \ {w}]
      BY DEF ExpireOne
  <2>3. w \in Conn
      BY <2>1 DEF TickJob
  <2>4. Reply(w, "AwaitTimeout", {}) \in Out
      BY <2>3, <1>ReplyType DEF ReplyKind
  <2>5. outs' \in Seq(Out)
      BY SMTT(60), <2>2, <2>4 DEF TypeOK
  <2>6. job' \in TickJob \cup {None}
      BY <2>1, <2>2 DEF TickJob
  <2>7. pending' \in [Conn -> Filter \cup {None}] /\ due' \subseteq Conn
      BY <2>2 DEF TypeOK
  <2> QED
      BY <2>5, <2>6, <2>7 DEF ExpireOne, TypeOK, diskVars, envVars, history
<1>ExecuteType.
    ASSUME TypeOK, execute_outs
    PROVE  TypeOK'
  <2> USE <1>ExecuteType
  <2> DEFINE h == Head(outs)
  <2>1. outs # <<>>
      BY DEF execute_outs
  <2>2. outs' \in Seq(Out)
      BY <2>1, HeadOut DEF execute_outs
  <2>3. UNCHANGED <<clients, st, channels, roles, pending, due, delivered, inboxed, job>>
      BY DEF execute_outs, actorVars
  <2>4. CASE h.kind = "Append" /\ execute_append(h)
    <3>1. h.mbox \in Mailbox /\ h.rec \in Record
        BY <2>1, <2>4, HeadOut DEF AppendOut
    <3> HIDE DEF h
    <3>2. file' \in [Mailbox -> Seq(Record)]
      <4>1. CASE UNCHANGED file
          BY <4>1 DEF TypeOK
      <4>2. CASE file' = [file EXCEPT ![h.mbox] = Append(@, h.rec)]
        <5>1. Append(file[h.mbox], h.rec) \in Seq(Record)
            BY SMTT(60), <3>1 DEF TypeOK
        <5> QED
            BY <3>1, <4>2, <5>1 DEF TypeOK
      <4> QED
          BY <2>4, <4>1, <4>2 DEF execute_append
    <3> QED
        BY SMTT(60), <2>2, <2>3, <2>4, <3>1, <3>2 DEF execute_append, WriteFails, TypeOK
  <2>5. CASE h.kind = "Cursor" /\ execute_cursor(h)
    <3>1. h.mbox \in Mailbox /\ h.off \in Nat
        BY <2>1, <2>5, HeadOut DEF CursorOut
    <3> HIDE DEF h
    <3>2. cursor' \in [Mailbox -> Nat]
      <4>1. CASE UNCHANGED cursor
          BY <4>1 DEF TypeOK
      <4>2. CASE cursor' = [cursor EXCEPT ![h.mbox] = h.off]
          BY <3>1, <4>2 DEF TypeOK
      <4> QED
          BY <2>5, <4>1, <4>2 DEF execute_cursor
    <3> QED
        BY SMTT(60), <2>2, <2>3, <2>5, <3>2 DEF execute_cursor, WriteFails, TypeOK
  <2>6. CASE h.kind = "Reply" /\ execute_reply(h)
    <3>1. h.ids \subseteq Nat
        BY <2>1, <2>6, HeadOut DEF ReplyOut
    <3> HIDE DEF h
    <3> QED
        BY <2>2, <2>3, <2>6, <3>1 DEF execute_reply, TypeOK, envVars, diskVars
  <2> QED
      BY <2>4, <2>5, <2>6 DEF execute_outs
<1>WireType.
    ASSUME TypeOK, NEW c \in Conn, Wire(c)
    PROVE  TypeOK'
  <2> USE <1>WireType
  <2>1. CASE \E bound \in Name \cup {None} : Hello(c, bound)
      BY <2>1, <1>HelloType
  <2>2. CASE Refuse
      BY <2>2, <1>RefuseType DEF Refuse
  <2>3. CASE \E n \in Name, o \in Origins, l \in Flags : register(c, n, o, l)
      BY <2>3, <1>RegisterType
  <2>4. CASE \E l \in Flags : set_listen(c, l) \/ set_wake_addr(c, l)
      BY <2>4, <1>FlagType
  <2>5. CASE \E m \in Mailbox, t \in Task : send(c, m, t)
      BY <2>5, <1>SendType
  <2>6. CASE \E since \in 0 .. MaxMsg : inbox(c, since)
      BY SMTT(60), <2>6, <1>InboxType, CapAssumption
  <2>7. CASE \E f \in Filter : await_envelope(c, f)
      BY <2>7, <1>AwaitType
  <2>8. CASE \E ch \in Channel, role \in Flags : join(c, ch, role)
      BY <2>8, <1>JoinType
  <2>9. CASE \E ch \in Channel : leave(c, ch)
      BY <2>9, <1>LeaveType
  <2> QED
      BY <2>1, <2>2, <2>3, <2>4, <2>5, <2>6, <2>7, <2>8, <2>9 DEF Wire, handle_wire
<1>EnvironmentType.
    ASSUME TypeOK,
           \/ \E c \in Conn : Deadline(c) \/ Die(c)
           \/ \E m \in Mailbox : Truncate(m)
           \/ Crash
    PROVE  TypeOK'
  <2> USE <1>EnvironmentType
  <2>1. CASE \E c \in Conn : Deadline(c)
      BY <2>1 DEF Deadline, TypeOK, diskVars, envVars, history
  <2>2. CASE \E c \in Conn : Die(c)
      BY <2>2 DEF Die, TypeOK, actorVars, diskVars, history
  <2>3. CASE \E m \in Mailbox : Truncate(m)
      BY SMTT(60), <2>3 DEF Truncate, TypeOK, actorVars, history
  <2>4. CASE Crash
    <3>1. st' \in [Conn -> ClientState]
        BY <2>4, <1>FreshType DEF Crash
    <3>2. outs' \in Seq(Out)
        BY SMTT(60), <2>4 DEF Crash
    <3> QED
        BY SMTT(60), <2>4, <3>1, <3>2 DEF Crash, TypeOK, diskVars
  <2> QED
      BY <2>1, <2>2, <2>3, <2>4
<1>1. Init => TypeOK
  <2> SUFFICES ASSUME Init PROVE TypeOK
      OBVIOUS
  <2>1. st \in [Conn -> ClientState]
      BY <1>FreshType DEF Init
  <2>2. file \in [Mailbox -> Seq(Record)] /\ exists \subseteq Mailbox
      BY SMTT(60), LegacyAssumption, SetAssumption DEF Init
  <2> QED
      BY SMTT(60), <2>1, <2>2 DEF Init, TypeOK
<1>2. TypeOK /\ [Next]_vars => TypeOK'
  <2> SUFFICES ASSUME TypeOK, [Next]_vars PROVE TypeOK'
      OBVIOUS
  <2>1. CASE UNCHANGED vars
      BY <2>1, <1>RefuseType
  <2>2. CASE \E c \in Conn : Wire(c)
      BY <2>2, <1>WireType
  <2>3. CASE \E c \in Conn : Disconnect(c)
      BY <2>3, <1>DisconnectType DEF Disconnect, TypeOK, diskVars, envVars
  <2>4. CASE tick
      BY <2>4, <1>TickType
  <2>5. CASE Work
      BY <2>5, <1>NextMemberType, <1>WakeOneType, <1>SendDoneType, <1>ExpireOneType,
         <1>ExecuteType DEF Work
  <2>6. CASE \/ \E c \in Conn : Deadline(c) \/ Die(c)
             \/ \E m \in Mailbox : Truncate(m)
             \/ Crash
      BY <2>6, <1>EnvironmentType
  <2> QED
      BY <2>1, <2>2, <2>3, <2>4, <2>5, <2>6 DEF Next
<1> QED
    BY <1>1, <1>2, PTL DEF Spec

-----------------------------------------------------------------------------
(* Names and bindings.                                                     *)

(* The steps that change nobody's name or binding and let nobody in.       *)
SameIdentities ==
    /\ clients' = clients
    /\ \A c \in Conn : /\ st'[c].name = st[c].name
                       /\ st'[c].bind_as = st[c].bind_as
    /\ \A c \in Conn \ clients : st'[c] = st[c]

(* A client works with the cursors of a client.                            *)
LEMMA OwnerIsClient ==
    ASSUME TypeOK, NEW c \in clients
    PROVE  Owner(c) \in clients /\ Owner(c) \in Conn
BY DEF Owner, canonical_holder_id, Holders, TypeOK

LEMMA UnchangedIdentities ==
    ASSUME UNCHANGED <<clients, st>>
    PROVE  SameIdentities
BY DEF SameIdentities

(* Moving cursors, joining and leaving do not touch names.                 *)
LEMMA CursorIdentities ==
    ASSUME TypeOK, NEW o \in clients, NEW offs, clients' = clients,
           \/ st' = [st EXCEPT ![o].await_offsets = offs]
           \/ st' = [st EXCEPT ![o].inbox_offsets = offs]
    PROVE  SameIdentities
<1>1. st \in [Conn -> ClientState] /\ clients \subseteq Conn
    BY DEF TypeOK
<1>2. CASE st' = [st EXCEPT ![o].await_offsets = offs]
    BY SMTT(60), <1>1, <1>2 DEF ClientState, SameIdentities
<1>3. CASE st' = [st EXCEPT ![o].inbox_offsets = offs]
    BY <1>1, <1>3 DEF ClientState, SameIdentities
<1> QED
    BY <1>2, <1>3

LEMMA FlagIdentities ==
    ASSUME TypeOK, NEW c \in clients, NEW l, clients' = clients,
           \/ st' = [st EXCEPT ![c].listen_mode = l]
           \/ st' = [st EXCEPT ![c].wake_addr = l]
    PROVE  SameIdentities
<1>1. st \in [Conn -> ClientState] /\ clients \subseteq Conn
    BY DEF TypeOK
<1>2. CASE st' = [st EXCEPT ![c].listen_mode = l]
    BY SMTT(60), <1>1, <1>2 DEF ClientState, SameIdentities
<1>3. CASE st' = [st EXCEPT ![c].wake_addr = l]
    BY <1>1, <1>3 DEF ClientState, SameIdentities
<1> QED
    BY <1>2, <1>3

LEMMA WireIdentities ==
    ASSUME TypeOK, NEW c \in Conn, Wire(c),
           ~\E bound \in Name \cup {None} : Hello(c, bound),
           ~\E n \in Name, o \in Origins, l \in Flags : register(c, n, o, l)
    PROVE  SameIdentities
<1>0. CASE c \notin clients
    BY <1>0, UnchangedIdentities DEF Wire, handle_wire, Refuse, vars, actorVars
<1> SUFFICES ASSUME c \in clients PROVE SameIdentities
    BY <1>0
<1>o. Owner(c) \in clients /\ Owner(c) \in Conn
    BY OwnerIsClient
<1>1. CASE Refuse
    BY <1>1, UnchangedIdentities DEF Refuse, vars, actorVars
<1>2. CASE \E l \in Flags : set_listen(c, l) \/ set_wake_addr(c, l)
    BY <1>1, <1>2, FlagIdentities DEF set_listen, set_wake_addr
<1>3. CASE \E m \in Mailbox, t \in Task : send(c, m, t)
    BY <1>1, <1>3, UnchangedIdentities
       DEF send, send_agent, send_channel, Sending, actorVars
<1>4. CASE \E since \in 0 .. MaxMsg : inbox(c, since)
    BY <1>o, <1>1, <1>4, CursorIdentities DEF inbox
<1>5. CASE \E f \in Filter : await_envelope(c, f)
    BY <1>o, <1>1, <1>5, CursorIdentities DEF await_envelope
<1>6. CASE \E ch \in Channel, role \in Flags : join(c, ch, role)
  <2>1. PICK ch \in Channel :
          \/ Refuse
          \/ /\ st' = [st EXCEPT ![Owner(c)].joined = st[Owner(c)].joined \cup {ch},
                                 ![Owner(c)].await_offsets[ch] = DrainEnd(ch, 0),
                                 ![Owner(c)].inbox_offsets[ch] = DrainEnd(ch, 0)]
             /\ clients' = clients
      BY <1>6 DEF join
  <2> DEFINE o   == Owner(c)
             J   == st[o].joined \cup {ch}
             off == DrainEnd(ch, 0)
  <2>2. \/ Refuse
        \/ /\ st' = [st EXCEPT ![o].joined = J, ![o].await_offsets[ch] = off,
                               ![o].inbox_offsets[ch] = off]
           /\ clients' = clients
      BY <2>1
  <2> HIDE DEF o, J, off
  <2>3. o \in Conn /\ o \in clients
      BY <1>o DEF o
  <2>4. CASE /\ st' = [st EXCEPT ![o].joined = J, ![o].await_offsets[ch] = off,
                                  ![o].inbox_offsets[ch] = off]
             /\ clients' = clients
      BY SMTT(60), <2>3, <2>4 DEF TypeOK, ClientState, SameIdentities
  <2> QED
      BY <1>1, <2>2, <2>4
<1>7. CASE \E ch \in Channel : leave(c, ch)
  <2>1. PICK ch \in Channel :
          \/ Refuse
          \/ /\ st' = [st EXCEPT ![Owner(c)].joined = st[Owner(c)].joined \ {ch},
                                 ![Owner(c)].await_offsets[ch] = 0,
                                 ![Owner(c)].inbox_offsets[ch] = 0]
             /\ clients' = clients
      BY <1>7 DEF leave
  <2> DEFINE o   == Owner(c)
             J   == st[o].joined \ {ch}
             off == 0
  <2>2. \/ Refuse
        \/ /\ st' = [st EXCEPT ![o].joined = J, ![o].await_offsets[ch] = off,
                               ![o].inbox_offsets[ch] = off]
           /\ clients' = clients
      BY <2>1
  <2> HIDE DEF o, J, off
  <2>3. o \in Conn /\ o \in clients
      BY <1>o DEF o
  <2>4. CASE /\ st' = [st EXCEPT ![o].joined = J, ![o].await_offsets[ch] = off,
                                  ![o].inbox_offsets[ch] = off]
             /\ clients' = clients
      BY SMTT(60), <2>3, <2>4 DEF TypeOK, ClientState, SameIdentities
  <2> QED
      BY <1>1, <2>2, <2>4
<1> QED
    BY <1>1, <1>2, <1>3, <1>4, <1>5, <1>6, <1>7 DEF Wire, handle_wire

LEMMA WorkIdentities ==
    ASSUME TypeOK, NoOrphans,
           \/ Work
           \/ \E c \in Conn : Deadline(c) \/ Die(c)
           \/ \E m \in Mailbox : Truncate(m)
    PROVE  SameIdentities
<1>OffsetIdentities.
    ASSUME TypeOK, NEW o \in clients, NEW m, NEW off, clients' = clients,
           st' = [st EXCEPT ![o].await_offsets[m] = off]
    PROVE  SameIdentities
    BY <1>OffsetIdentities DEF TypeOK, ClientState, SameIdentities
<1>1. CASE WakeOne
  <2>1. job.todo \subseteq clients
      BY <1>1 DEF WakeOne, NoOrphans
  <2>2. \A w \in job.todo : Owner(w) \in clients
      BY <2>1, OwnerIsClient
  <2>3. /\ clients' = clients
        /\ \/ UNCHANGED st
           \/ \E w \in job.todo : \E off :
                st' = [st EXCEPT ![Owner(w)].await_offsets[job.mbox] = off]
      BY <1>1 DEF WakeOne
  <2> QED
      BY <2>2, <2>3, <1>OffsetIdentities, UnchangedIdentities
<1>2. CASE NextMember \/ SendDone \/ execute_outs
    BY <1>2, UnchangedIdentities DEF NextMember, SendDone, execute_outs, actorVars
<1>3. CASE ExpireOne \/ \E c \in Conn : Deadline(c)
    BY <1>3, UnchangedIdentities DEF ExpireOne, Deadline
<1>4. CASE \E c \in Conn : Die(c)
    BY <1>4, UnchangedIdentities DEF Die, actorVars
<1>5. CASE \E m \in Mailbox : Truncate(m)
    BY <1>5, UnchangedIdentities DEF Truncate, actorVars
<1> QED
    BY <1>1, <1>2, <1>3, <1>4, <1>5 DEF Work

-----------------------------------------------------------------------------
(* One holder per name, and nothing left of a connection that has gone.    *)

(* However registrations, rebinds, deaths, reaps and crashes interleave,   *)
(* no name ever has two holders and no proxy holds a name; and a           *)
(* connection that went leaves no parked await, no state and no place in   *)
(* a loop behind.                                                          *)
THEOREM Sessions == Spec => []SessionsHold
(* Clients that go, or keep their names, break nothing.                    *)
<1>KeepsOneHolder.
    ASSUME OneHolder, clients' \subseteq clients,
           \A c \in clients' : /\ st'[c].name = st[c].name
                               /\ st'[c].bind_as = st[c].bind_as
    PROVE  OneHolder'
    BY SMTT(60), <1>KeepsOneHolder DEF OneHolder
<1>HelloOneHolder.
    ASSUME TypeOK, OneHolder, NEW c \in Conn, NEW bound \in Name \cup {None},
           Hello(c, bound)
    PROVE  OneHolder'
  <2> USE <1>HelloOneHolder
  <2>1. CASE Refuse
      BY <2>1 DEF Refuse, vars, actorVars, OneHolder
  <2>2. CASE /\ c \notin clients
             /\ clients' = clients \cup {c}
             /\ st' = [st EXCEPT ![c] = Fresh(bound)]
    <3>1. \A d \in clients : st'[d] = st[d]
        BY <2>2 DEF TypeOK
    <3>2. st'[c] = Fresh(bound)
        BY <2>2 DEF TypeOK
    <3>3. st'[c].name = None
        BY SMTT(60), <3>2 DEF Fresh
    <3> QED
        BY SMTT(60), <2>2, <3>1, <3>3 DEF OneHolder
  <2> QED
      BY <2>1, <2>2 DEF Hello
<1>RegisterOneHolder.
    ASSUME TypeOK, OneHolder, NEW c \in clients, NEW n \in Name,
           NEW o \in Origins, NEW l \in Flags, register(c, n, o, l)
    PROVE  OneHolder'
  <2> USE <1>RegisterOneHolder
  <2> DEFINE off == DrainEnd(n, 0)
  <2>1. CASE Refuse
      BY <2>1 DEF Refuse, vars, actorVars, OneHolder
  <2>2. CASE /\ st[c].bind_as = None
             /\ ~\E d \in clients \ {c} : st[d].name = n
             /\ st' = [st EXCEPT ![c].name = n, ![c].origin = o,
                                 ![c].listen_mode = l, ![c].await_offsets[n] = off]
             /\ clients' = clients
    <3> HIDE DEF off
    <3>1. st \in [Conn -> ClientState] /\ clients \subseteq Conn
        BY DEF TypeOK
    <3>2. st'[c].name = n /\ st'[c].bind_as = None
        BY SMTT(60), <2>2, <3>1 DEF ClientState
    <3>3. \A d \in clients \ {c} : st'[d] = st[d]
        BY <2>2, <3>1
    <3>4. /\ clients' = clients
          /\ \A d \in clients \ {c} : st[d].name # n
        BY <2>2
    <3>5. ASSUME NEW d \in clients, NEW e \in clients,
                 st'[d].name = st'[e].name, st'[d].name # None
          PROVE  d = e
        BY <3>2, <3>3, <3>4, <3>5 DEF OneHolder
    <3>6. ASSUME NEW d \in clients, st'[d].bind_as # None
          PROVE  st'[d].name = None
        BY <3>2, <3>3, <3>6 DEF OneHolder
    <3> QED
        BY <3>4, <3>5, <3>6 DEF OneHolder
  <2> QED
      BY <2>1, <2>2 DEF register, name_taken
<1>DisconnectOneHolder.
    ASSUME TypeOK, OneHolder, NEW S, disconnect(S)
    PROVE  OneHolder'
  <2> USE <1>DisconnectOneHolder
  <2>1. clients' \subseteq clients /\ \A c \in clients' : st'[c] = st[c]
      BY DEF disconnect, TypeOK
  <2> QED
      BY <2>1, <1>KeepsOneHolder
(* Steps that park nobody and start no loop.                               *)
<1>KeepsNoOrphans.
    ASSUME TypeOK, NoOrphans, SameIdentities, UNCHANGED <<pending, job>>
    PROVE  NoOrphans'
    BY <1>KeepsNoOrphans DEF NoOrphans, SameIdentities
<1>HelloNoOrphans.
    ASSUME TypeOK, NoOrphans, NEW c \in Conn, NEW bound \in Name \cup {None},
           Hello(c, bound)
    PROVE  NoOrphans'
  <2> USE <1>HelloNoOrphans
  <2>1. CASE Refuse
      BY <2>1 DEF Refuse, vars, actorVars, NoOrphans
  <2>2. CASE /\ clients' = clients \cup {c}
             /\ st' = [st EXCEPT ![c] = Fresh(bound)]
             /\ UNCHANGED <<pending, job>>
    <3>1. \A d \in Conn \ clients' : st'[d] = st[d]
        BY <2>2 DEF TypeOK
    <3> QED
        BY <2>2, <3>1 DEF NoOrphans
  <2> QED
      BY <2>1, <2>2 DEF Hello
<1>RegisterNoOrphans.
    ASSUME TypeOK, NoOrphans, NEW c \in clients, NEW n \in Name,
           NEW o \in Origins, NEW l \in Flags, register(c, n, o, l)
    PROVE  NoOrphans'
  <2> USE <1>RegisterNoOrphans
  <2> DEFINE off == DrainEnd(n, 0)
  <2>1. CASE Refuse
      BY <2>1 DEF Refuse, vars, actorVars, NoOrphans
  <2>2. CASE /\ st' = [st EXCEPT ![c].name = n, ![c].origin = o,
                                 ![c].listen_mode = l, ![c].await_offsets[n] = off]
             /\ UNCHANGED <<clients, pending, job>>
    <3> HIDE DEF off
    <3>1. \A d \in Conn \ clients : st'[d] = st[d]
        BY <2>2 DEF TypeOK
    <3> QED
        BY <2>2, <3>1 DEF NoOrphans
  <2> QED
      BY <2>1, <2>2 DEF register
(* Every other request: an await parks its own client, and a send begins   *)
(* to answer clients that are parked.                                      *)
<1>WireNoOrphans.
    ASSUME TypeOK, NoOrphans, NEW c \in Conn, Wire(c), SameIdentities
    PROVE  NoOrphans'
  <2> USE <1>WireNoOrphans
  <2>1. CASE UNCHANGED <<pending, job>>
      BY <2>1, <1>KeepsNoOrphans
  <2>2. CASE \E m \in Mailbox, t \in Task : send(c, m, t)
    <3>1. CASE Refuse
        BY <2>1, <3>1 DEF Refuse, vars, actorVars
    <3>2. CASE \E m, r, M, S, flags :
                  /\ Sending(c, m, r, M, S, flags)
                  /\ S \subseteq clients
                  /\ \A w \in S : pending[w] # None
      <4>1. PICK m, r, M, S, flags :
                  /\ Sending(c, m, r, M, S, flags)
                  /\ S \subseteq clients
                  /\ \A w \in S : pending[w] # None
          BY <3>2
      <4>2. job'.todo = S /\ UNCHANGED <<clients, pending, st>>
          BY <4>1 DEF Sending, actorVars
      <4> QED
          BY <4>1, <4>2 DEF NoOrphans
    <3>3. \A n, r : /\ waiting_clients_for_name(n, r) \subseteq clients
                    /\ \A w \in waiting_clients_for_name(n, r) : pending[w] # None
        BY DEF waiting_clients_for_name
    <3>4. ASSUME NEW m \in Mailbox, NEW r,
                 send_agent(c, m, r) \/ send_channel(c, m, r)
          PROVE  NoOrphans'
        BY SMTT(60), <3>2, <3>3, <3>4 DEF send_agent, send_channel
    <3> QED
        BY <2>2, <3>1, <3>4 DEF send
  <2>3. CASE \E f \in Filter : await_envelope(c, f)
    <3>1. CASE UNCHANGED pending
        BY <2>1, <2>3, <3>1 DEF await_envelope, Refuse, vars
    <3>2. CASE /\ c \in clients /\ UNCHANGED <<clients, job>>
               /\ \E f : pending' = [pending EXCEPT ![c] = f]
      <4>1. \A d \in Conn : pending'[d] # None => d \in clients
          BY <3>2 DEF NoOrphans, TypeOK
      <4>2. job = None
          BY DEF Wire, Ready
      <4> QED
          BY <3>2, <4>1, <4>2 DEF NoOrphans, SameIdentities
    <3> QED
        BY <2>3, <3>1, <3>2
           DEF await_envelope, Resolves, Refuse, vars, actorVars
  <2> QED
      BY <2>1, <2>2, <2>3
         DEF Wire, handle_wire, Hello, register, set_listen, set_wake_addr, inbox,
             join, leave, Refuse, vars, actorVars
<1>DisconnectNoOrphans.
    ASSUME TypeOK, NoOrphans, NEW S \in SUBSET Conn, disconnect(S)
    PROVE  /\ \A c \in Conn : pending'[c] # None => c \in clients'
           /\ \A c \in Conn \ clients' : st'[c] = Fresh(None)
  <2> USE <1>DisconnectNoOrphans
  <2>1. \A c \in Conn : /\ st'[c] = IF c \in S THEN Fresh(None) ELSE st[c]
                        /\ pending'[c] = IF c \in S THEN None ELSE pending[c]
      BY DEF disconnect
  <2> QED
      BY <2>1 DEF disconnect, NoOrphans
<1>TickNoOrphans.
    ASSUME TypeOK, NoOrphans, tick
    PROVE  NoOrphans'
  <2> USE <1>TickNoOrphans
  <2> DEFINE dead    == {c \in clients : st[c].name # None /\ c \notin alive}
             expired == {c \in due \ dead : pending[c] # None}
  <2>1. dead \in SUBSET Conn /\ expired \in SUBSET Conn
      BY DEF TypeOK
  <2>2. /\ disconnect(dead)
        /\ job' = IF expired = {} THEN None ELSE [kind |-> "tick", todo |-> expired]
      BY DEF tick
  <2>3. \A w \in expired : w \in clients \ dead /\ pending[w] # None
      BY <2>1 DEF NoOrphans
  <2> HIDE DEF dead, expired
  <2>4. \A w \in expired : w \in clients' /\ pending'[w] # None
      BY <2>1, <2>2, <2>3 DEF disconnect
  <2>5. job' # None => job'.todo \subseteq clients' /\ \A w \in job'.todo : pending'[w] # None
    <3>1. CASE job' = [kind |-> "tick", todo |-> expired]
        BY <2>4, <3>1
    <3>2. CASE job' = None
        BY <3>2
    <3> QED
        BY <2>2, <3>1, <3>2
  <2> QED
      BY <2>1, <2>2, <2>5, <1>DisconnectNoOrphans DEF NoOrphans
<1>WorkNoOrphans.
    ASSUME TypeOK, NoOrphans,
           \/ Work
           \/ \E c \in Conn : Deadline(c) \/ Die(c)
           \/ \E m \in Mailbox : Truncate(m)
    PROVE  NoOrphans'
  <2> USE <1>WorkNoOrphans
  (* The loop answers a client, which is then no longer parked.              *)
  <2>LoopNoOrphans.
      ASSUME TypeOK, NoOrphans, SameIdentities, NEW w \in Conn, w \in job.todo,
             job # None,
             pending' = [pending EXCEPT ![w] = None],
             job' = None \/ job'.todo = job.todo \ {w}
      PROVE  NoOrphans'
    <3> USE <2>LoopNoOrphans
    <3>1. \A c \in Conn : pending'[c] = IF c = w THEN None ELSE pending[c]
        BY DEF TypeOK
    <3>2. job.todo \subseteq clients /\ \A v \in job.todo : pending[v] # None
        BY DEF NoOrphans
    <3>3. clients \subseteq Conn /\ clients' = clients
        BY DEF TypeOK, SameIdentities
    <3>4. job' # None => job'.todo \subseteq clients' /\ \A v \in job'.todo : pending'[v] # None
        BY <3>1, <3>2, <3>3
    <3>5. \A c \in Conn \ clients' : st'[c] = Fresh(None)
        BY DEF NoOrphans, SameIdentities
    <3>6. \A c \in Conn : pending'[c] # None => c \in clients'
        BY <3>1, <3>3 DEF NoOrphans
    <3> QED
        BY <3>4, <3>5, <3>6 DEF NoOrphans
  <2>0. SameIdentities
      BY WorkIdentities
  <2>1. CASE WakeOne
    <3>1. job \in SendJob
        BY <2>1 DEF WakeOne, TypeOK, TickJob
    <3>2. PICK w \in job.todo : /\ pending' = [pending EXCEPT ![w] = None]
                                /\ job' = [job EXCEPT !.todo = @ \ {w}]
        BY <2>1 DEF WakeOne
    <3>3. w \in Conn /\ job'.todo = job.todo \ {w}
        BY <3>1, <3>2 DEF SendJob
    <3> QED
        BY <2>0, <2>1, <3>2, <3>3, <2>LoopNoOrphans DEF WakeOne
  <2>2. CASE ExpireOne
    <3>1. job \in TickJob
        BY <2>2 DEF ExpireOne, TypeOK, SendJob
    <3>2. PICK w \in job.todo : /\ pending' = [pending EXCEPT ![w] = None]
                                /\ \/ job' = None
                                   \/ job' = [job EXCEPT !.todo = @ \ {w}]
        BY <2>2 DEF ExpireOne
    <3>3. w \in Conn /\ (job' = None \/ job'.todo = job.todo \ {w})
        BY <3>1, <3>2 DEF TickJob
    <3> QED
        BY <2>0, <2>2, <3>2, <3>3, <2>LoopNoOrphans DEF ExpireOne
  <2>a. CASE NextMember
    <3>1. PICK n \in job.members :
             job' = [job EXCEPT !.members = @ \ {n},
                                !.todo = waiting_clients_for_name(n, job.rec)]
        BY <2>a DEF NextMember
    <3>2. job \in SendJob
        BY <2>a DEF NextMember, TypeOK, TickJob
    <3>3. job'.todo = waiting_clients_for_name(n, job.rec)
        BY <3>1, <3>2 DEF SendJob
    <3>4. /\ job'.todo \subseteq clients
          /\ \A w \in job'.todo : pending[w] # None
        BY <3>3 DEF waiting_clients_for_name
    <3> QED
        BY <2>a, <3>4 DEF NextMember, NoOrphans, actorVars
  <2>3. CASE SendDone
      BY <2>0, <2>3 DEF SendDone, SameIdentities, NoOrphans, actorVars
  <2>4. CASE UNCHANGED <<pending, job>>
      BY <2>0, <2>4, <1>KeepsNoOrphans
  <2> QED
      BY <2>1, <2>2, <2>a, <2>3, <2>4
         DEF Work, execute_outs, Deadline, Die, Truncate, actorVars
<1> DEFINE Inv == OneHolder /\ NoOrphans
<1>1. Init => Inv
  <2> SUFFICES ASSUME Init PROVE Inv
      OBVIOUS
  <2> QED
      BY DEF Init, OneHolder, NoOrphans
<1>2. TypeOK /\ Inv /\ [Next]_vars => Inv'
  <2> SUFFICES ASSUME TypeOK, Inv, [Next]_vars PROVE Inv'
      OBVIOUS
  <2>1. CASE UNCHANGED vars
      BY <2>1 DEF vars, actorVars, OneHolder, NoOrphans
  <2>2. ASSUME NEW c \in Conn, Wire(c)
        PROVE  Inv'
    <3>1. CASE \E bound \in Name \cup {None} : Hello(c, bound)
        BY <3>1, <1>HelloOneHolder, <1>HelloNoOrphans
    <3>2. CASE c \in clients /\ \E n \in Name, o \in Origins, l \in Flags :
                                    register(c, n, o, l)
        BY <3>2, <1>RegisterOneHolder, <1>RegisterNoOrphans
    <3>3. CASE SameIdentities
      <4>1. OneHolder'
          BY <3>3, <1>KeepsOneHolder DEF SameIdentities, TypeOK
      <4> QED
          BY <2>2, <3>3, <4>1, <1>WireNoOrphans
    <3>4. CASE c \notin clients /\ Refuse
        BY <3>3, <3>4, UnchangedIdentities DEF Refuse, vars, actorVars
    <3>5. CASE c \in clients /\ ~\E n \in Name, o \in Origins, l \in Flags :
                                    register(c, n, o, l)
        BY <2>2, <3>1, <3>3, <3>5, WireIdentities
    <3> QED
        BY <2>2, <3>1, <3>2, <3>4, <3>5 DEF Wire, handle_wire
  <2>3. CASE \E c \in Conn : Disconnect(c)
    <3>1. PICK c \in Conn : Ready /\ disconnect({c}) /\ UNCHANGED job
        BY <2>3 DEF Disconnect
    <3> QED
        BY <3>1, <1>DisconnectOneHolder, <1>DisconnectNoOrphans DEF NoOrphans, Ready
  <2>4. CASE tick
      BY <2>4, <1>DisconnectOneHolder, <1>TickNoOrphans DEF tick
  <2>5. CASE \/ Work
             \/ \E c \in Conn : Deadline(c) \/ Die(c)
             \/ \E m \in Mailbox : Truncate(m)
    <3>1. SameIdentities
        BY <2>5, WorkIdentities
    <3>2. OneHolder'
        BY <3>1, <1>KeepsOneHolder DEF SameIdentities, TypeOK
    <3> QED
        BY <2>5, <3>2, <1>WorkNoOrphans
  <2>6. CASE Crash
      BY <2>6 DEF Crash, OneHolder, NoOrphans
  <2> QED
      BY <2>1, <2>2, <2>3, <2>4, <2>5, <2>6 DEF Next
<1> QED
    BY <1>1, <1>2, TypeCorrect, PTL DEF Spec, SessionsHold

-----------------------------------------------------------------------------
(* Confirmed mail is on disk.                                              *)

Stored == {id \in Nat : \E m \in Mailbox : \E i \in DOMAIN file[m] : file[m][i].id = id}

(* The envelope whose append is the next output.                           *)
Coming == {id \in Nat : /\ outs # <<>> /\ outs[1].kind = "Append"
                        /\ outs[1].rec.id = id}

(* Why a reply never runs ahead of its append: a handler's append is its   *)
(* first output, and what its replies name is on disk or in that append.   *)
RepliesBacked ==
    \A k \in DOMAIN outs :
        /\ outs[k].kind = "Append" => k = 1
        /\ outs[k].kind = "Reply"  => outs[k].ids \subseteq Stored \cup Coming

SendBegun ==
    job # None /\ job.kind = "send" =>
        outs # <<>> /\ outs[1] = AppendMailbox(job.mbox, job.rec)

Durable == acked \subseteq Stored /\ RepliesBacked /\ SendBegun

(* Every append succeeds and nobody empties a mailbox.                     *)
Reliable == "lose" \notin Faults /\ "truncate" \notin Faults

LEMMA AlwaysDurable ==
    ASSUME Reliable
    PROVE  Spec => []Durable
<1>StoredIds.
    ASSUME TypeOK
    PROVE  /\ Stored \subseteq Nat
           /\ \A m \in Mailbox : IdsIn(m) \subseteq Stored
  <2> USE <1>StoredIds
  <2>1. \A m \in Mailbox : IdsIn(m) \subseteq Nat
      BY IdsInType
  <2> QED
      BY <2>1 DEF Stored, IdsIn
(* A step that writes no file and confirms nothing, when the new outputs   *)
(* are in order.                                                           *)
<1>KeepsDurable.
    ASSUME Durable, UNCHANGED <<file, acked>>, RepliesBacked', SendBegun'
    PROVE  Durable'
    BY <1>KeepsDurable DEF Durable, Stored
(* The one output of a handler that appends nothing.                       *)
<1>OneReply.
    ASSUME NEW c, NEW what, NEW ids \in SUBSET Stored, UNCHANGED file,
           outs' = <<Reply(c, what, ids)>>
    PROVE  RepliesBacked'
  <2> USE <1>OneReply
  <2>1. outs'[1] = Reply(c, what, ids) /\ DOMAIN outs' = {1}
      BY SMTT(60)
  <2>2. outs'[1].kind = "Reply" /\ outs'[1].ids = ids
      BY <2>1 DEF Reply
  <2>3. Stored' = Stored
      BY DEF Stored
  <2> QED
      BY <2>1, <2>2, <2>3 DEF RepliesBacked
<1>NoOutputs.
    ASSUME outs' = <<>>
    PROVE  RepliesBacked'
    BY SMTT(60), <1>NoOutputs DEF RepliesBacked
(* The requests: outs is empty when one is taken.                          *)
<1>WireDurable.
    ASSUME TypeOK, Durable, NEW c \in Conn, Wire(c)
    PROVE  Durable'
  <2> USE <1>WireDurable
  <2>OneCursor.
      ASSUME NEW m, NEW off, outs' = <<AdvanceCursor(m, off)>>
      PROVE  RepliesBacked'
    <3> USE <2>OneCursor
    <3>1. outs'[1] = AdvanceCursor(m, off) /\ DOMAIN outs' = {1}
        BY SMTT(60)
    <3>2. outs'[1].kind = "Cursor"
        BY <3>1 DEF AdvanceCursor
    <3> QED
        BY <3>1, <3>2 DEF RepliesBacked
  <2>OneAppend.
      ASSUME NEW m, NEW r, outs' = <<AppendMailbox(m, r)>>
      PROVE  RepliesBacked'
    <3> USE <2>OneAppend
    <3>1. outs'[1] = AppendMailbox(m, r) /\ DOMAIN outs' = {1}
        BY SMTT(60)
    <3>2. outs'[1].kind = "Append"
        BY <3>1 DEF AppendMailbox
    <3> QED
        BY <3>1, <3>2 DEF RepliesBacked
  <2>0. job = None /\ outs = <<>>
      BY DEF Wire, Ready
  <2>1. CASE UNCHANGED <<file, acked, outs, job>>
      BY <2>0, <2>1, <1>NoOutputs, <1>KeepsDurable DEF SendBegun
  <2>2. CASE Refuse
      BY <2>1, <2>2 DEF Refuse, vars, diskVars, history
  <2>3. CASE \E bound \in Name \cup {None} : Hello(c, bound)
      BY <2>1, <2>2, <2>3 DEF Hello, diskVars, history
  <2>4. CASE \E n \in Name, o \in Origins, l \in Flags : register(c, n, o, l)
    <3>1. CASE /\ \E n, off : outs' = <<AdvanceCursor(n, off)>>
               /\ UNCHANGED <<file, acked, job>>
        BY <2>0, <3>1, <2>OneCursor, <1>KeepsDurable DEF SendBegun
    <3> QED
        BY <2>2, <2>4, <3>1 DEF register, diskVars
  <2>5. CASE \E l \in Flags : set_listen(c, l) \/ set_wake_addr(c, l)
      BY <2>1, <2>2, <2>5 DEF set_listen, set_wake_addr, diskVars, history
  <2>6. CASE \E m \in Mailbox, t \in Task : send(c, m, t)
    <3>1. ASSUME NEW m, NEW r, NEW M, NEW S, NEW flags,
                 Sending(c, m, r, M, S, flags)
          PROVE  Durable'
      <4>1. job'.mbox = m /\ job'.rec = r /\ outs' = <<AppendMailbox(m, r)>>
          BY <3>1 DEF Sending
      <4>2. SendBegun'
          BY <4>1 DEF SendBegun
      <4> QED
          BY <3>1, <4>1, <4>2, <2>OneAppend, <1>KeepsDurable
             DEF Sending, diskVars, history
    <3> QED
        BY <2>2, <2>6, <3>1 DEF send, send_agent, send_channel
  <2>7. CASE \E since \in 0 .. MaxMsg : inbox(c, since)
    <3> DEFINE o    == Owner(c)
               mine == UNION {InboxWalk(o, ch).ids : ch \in st[o].joined}
    <3>1. o \in Conn
        BY OwnerType
    <3>2. st[o].joined \subseteq Channel
        BY <3>1 DEF TypeOK, ClientState
    <3>3. \A ch \in st[o].joined : InboxWalk(o, ch).ids \subseteq Stored
        BY <3>1, <3>2, InboxWalkType, <1>StoredIds DEF Mailbox
    <3>4. mine \in SUBSET Stored
        BY <3>3
    <3>5. CASE outs' = <<Reply(c, "InboxOk", mine)>> /\ UNCHANGED <<file, acked, job>>
      <4> HIDE DEF mine
      <4> QED
          BY <2>0, <3>4, <3>5, <1>OneReply, <1>KeepsDurable DEF SendBegun
    <3> QED
        BY <2>2, <2>7, <3>5 DEF inbox, diskVars
  <2>8. CASE \E f \in Filter : await_envelope(c, f)
    <3>1. PICK f \in Filter : await_envelope(c, f)
        BY <2>8
    <3> DEFINE o        == Owner(c)
               boxes    == {effective_identity(c)} \cup st[o].joined
               batch(m) == drain_await_batch(o, m, f, None)
    <3>2. o \in Conn
        BY OwnerType
    <3>3. st[o].joined \subseteq Channel
        BY <3>2 DEF TypeOK, ClientState
    <3>4. CASE /\ Resolves(c)
               /\ \E m \in boxes : outs' = <<Reply(c, "AwaitOk", batch(m).ids)>>
               /\ UNCHANGED <<file, acked, job>>
      <4>1. PICK m \in boxes : outs' = <<Reply(c, "AwaitOk", batch(m).ids)>>
          BY <3>4
      <4>2. m \in Mailbox
          BY <3>3, <3>4, IdentityType DEF Mailbox
      <4>3. batch(m).ids \in SUBSET Stored
          BY <3>2, <4>2, BatchType, <1>StoredIds
      <4> HIDE DEF batch
      <4> QED
          BY <2>0, <3>4, <4>1, <4>3, <1>OneReply, <1>KeepsDurable DEF SendBegun
    <3> QED
        BY <2>1, <2>2, <3>1, <3>4 DEF await_envelope, diskVars
  <2>9. CASE \E ch \in Channel, role \in Flags : join(c, ch, role)
    <3>1. CASE /\ \E n, off : outs' = <<AdvanceCursor(n, off)>>
               /\ UNCHANGED <<file, acked, job>>
        BY <2>0, <3>1, <2>OneCursor, <1>KeepsDurable DEF SendBegun
    <3> QED
        BY <2>2, <2>9, <3>1 DEF join, diskVars
  <2>10. CASE \E ch \in Channel : leave(c, ch)
      BY <2>1, <2>2, <2>10 DEF leave, diskVars, history
  <2> QED
      BY <2>2, <2>3, <2>4, <2>5, <2>6, <2>7, <2>8, <2>9, <2>10 DEF Wire, handle_wire
(* A loop adds a reply whose ids are on disk or in the append.             *)
<1>MoreReplies.
    ASSUME TypeOK, Durable, NEW h \in ReplyOut, outs # <<>>,
           h.ids \subseteq Stored \cup Coming,
           outs' = Append(outs, h), UNCHANGED <<file, acked>>,
           job' = None \/ job'.kind = "tick"
           \/ /\ job # None /\ job.kind = "send"
              /\ job'.mbox = job.mbox /\ job'.rec = job.rec
    PROVE  Durable'
  <2> USE <1>MoreReplies
  <2>1. outs \in Seq(Out)
      BY DEF TypeOK
  <2>2. /\ Len(outs) \in Nat /\ Len(outs) > 0
        /\ DOMAIN outs' = 1 .. Len(outs) + 1
        /\ \A k \in 1 .. Len(outs) : outs'[k] = outs[k]
        /\ outs'[Len(outs) + 1] = h
      BY SMTT(60), <2>1
  <2>3. outs'[1] = outs[1] /\ outs' # <<>>
      BY SMTT(60), <2>2
  <2>4. Stored' = Stored /\ Coming' = Coming
      BY <2>3 DEF Stored, Coming
  <2>5. h.kind = "Reply"
      BY DEF ReplyOut
  <2>6. RepliesBacked'
    <3> SUFFICES ASSUME NEW k \in DOMAIN outs'
                 PROVE  /\ outs'[k].kind = "Append" => k = 1
                        /\ outs'[k].kind = "Reply" => outs'[k].ids \subseteq Stored \cup Coming
        BY <2>4 DEF RepliesBacked
    <3>1. CASE k \in 1 .. Len(outs)
        BY SMTT(60), <2>1, <2>2, <3>1 DEF Durable, RepliesBacked
    <3>2. CASE k = Len(outs) + 1
        BY <2>2, <2>5, <3>2
    <3> QED
        BY SMTT(60), <2>2, <3>1, <3>2
  <2>7. SendBegun'
      BY <2>3 DEF Durable, SendBegun
  <2> QED
      BY <2>6, <2>7, <1>KeepsDurable
<1>NextMemberDurable.
    ASSUME TypeOK, Durable, NextMember
    PROVE  Durable'
  <2> USE <1>NextMemberDurable
  <2>1. job \in SendJob /\ job # None /\ job.kind = "send"
      BY DEF NextMember, TypeOK, TickJob
  <2>2. job'.mbox = job.mbox /\ job'.rec = job.rec
      BY <2>1 DEF NextMember, SendJob
  <2>3. UNCHANGED <<file, acked, outs>>
      BY DEF NextMember, diskVars, history
  <2>4. SendBegun'
      BY <2>1, <2>2, <2>3 DEF Durable, SendBegun
  <2>5. RepliesBacked'
      BY SMTT(60), <2>3 DEF Durable, RepliesBacked, Stored, Coming
  <2> QED
      BY <2>3, <2>4, <2>5, <1>KeepsDurable
<1>WakeOneDurable.
    ASSUME TypeOK, Durable, WakeOne
    PROVE  Durable'
  <2> USE <1>WakeOneDurable
  <2>1. job \in SendJob /\ job # None /\ job.kind = "send"
      BY DEF WakeOne, TypeOK, TickJob
  <2>2. PICK w, what, ids :
           /\ w \in job.todo /\ what \in ReplyKind
           /\ job' = [job EXCEPT !.todo = @ \ {w}]
           /\ outs' = Append(outs, Reply(w, what, ids))
           /\ \/ ids = {}
              \/ ids = drain_await_batch(Owner(w), job.mbox, pending[w], job.rec).ids
      BY DEF WakeOne, ReplyKind
  <2>3. w \in Conn /\ job.mbox \in Mailbox /\ job.rec \in Record /\ job.rec.id \in Nat
      BY <2>1, <2>2 DEF SendJob, Record
  <2>4. Owner(w) \in Conn
      BY <2>3, OwnerType
  <2>5. outs # <<>> /\ outs[1] = AppendMailbox(job.mbox, job.rec)
      BY <2>1 DEF Durable, SendBegun
  <2>6. job.rec.id \in Coming
      BY SMTT(60), <2>3, <2>5 DEF Coming, AppendMailbox
  <2>7. ids \subseteq Stored \cup Coming
    <3>1. CASE ids = {}
        BY <3>1
    <3>2. CASE ids = drain_await_batch(Owner(w), job.mbox, pending[w], job.rec).ids
      <4>1. ids \subseteq IdsIn(job.mbox) \cup {job.rec.id}
          BY <2>3, <2>4, <3>2, BatchType
      <4> QED
          BY <2>3, <2>6, <4>1, <1>StoredIds
    <3> QED
        BY <2>2, <3>1, <3>2
  <2>8. Reply(w, what, ids) \in ReplyOut /\ Reply(w, what, ids).ids = ids
    <3>1. ids \subseteq Nat
        BY <2>7 DEF Stored, Coming
    <3> QED
        BY <2>2, <2>3, <3>1 DEF Reply, ReplyOut
  <2>9. job'.mbox = job.mbox /\ job'.rec = job.rec
      BY <2>1, <2>2 DEF SendJob
  <2>10. UNCHANGED <<file, acked>>
      BY DEF WakeOne, diskVars
  <2> QED
      BY <2>1, <2>2, <2>5, <2>7, <2>8, <2>9, <2>10, <1>MoreReplies
<1>SendDoneDurable.
    ASSUME TypeOK, Durable, SendDone
    PROVE  Durable'
  <2> USE <1>SendDoneDurable
  <2>1. job \in SendJob /\ job # None /\ job.kind = "send"
      BY DEF SendDone, TypeOK, TickJob
  <2> DEFINE h == SendOk(job.from, job.rec.id, job.flags)
  <2>2. job.rec.id \in Nat
      BY <2>1 DEF SendJob, Record
  <2>3. outs # <<>> /\ outs[1] = AppendMailbox(job.mbox, job.rec)
      BY <2>1 DEF Durable, SendBegun
  <2>4. job.rec.id \in Coming
      BY SMTT(60), <2>2, <2>3 DEF Coming, AppendMailbox
  <2>5. h \in ReplyOut /\ h.ids = {job.rec.id}
      BY <2>1, <2>2 DEF SendJob, SendOk, ReplyOut, ReplyKind
  <2>6. outs' = Append(outs, h) /\ job' = None /\ UNCHANGED <<file, acked>>
      BY DEF SendDone, diskVars, history
  <2> HIDE DEF h
  <2> QED
      BY <2>3, <2>4, <2>5, <2>6, <1>MoreReplies
(* Ticks answer with nothing at all.                                       *)
<1>ExpireOneDurable.
    ASSUME TypeOK, Durable, ExpireOne
    PROVE  Durable'
  <2> USE <1>ExpireOneDurable
  <2>1. job \in TickJob /\ job # None /\ job.kind = "tick"
      BY DEF ExpireOne, TypeOK, SendJob
  <2>2. PICK w \in job.todo :
           /\ outs' = Append(outs, Reply(w, "AwaitTimeout", {}))
           /\ job' = None \/ job' = [job EXCEPT !.todo = @ \ {w}]
      BY DEF ExpireOne
  <2>3. w \in Conn /\ (job' = None \/ job'.kind = "tick")
      BY <2>1, <2>2 DEF TickJob
  <2> DEFINE h == Reply(w, "AwaitTimeout", {})
  <2>4. h \in ReplyOut /\ h.ids = {} /\ h.kind = "Reply"
      BY <2>3 DEF Reply, ReplyOut, ReplyKind
  <2>5. outs' = Append(outs, h) /\ UNCHANGED <<file, acked>>
      BY <2>2 DEF ExpireOne, diskVars, history
  <2> HIDE DEF h
  <2>6. CASE outs # <<>>
      BY <2>3, <2>4, <2>5, <2>6, <1>MoreReplies
  <2>7. CASE outs = <<>>
    <3>1. outs' = <<h>>
        BY SMTT(60), <2>5, <2>7
    <3>2. RepliesBacked'
        BY SMTT(60), <2>4, <3>1 DEF RepliesBacked
    <3> QED
        BY <2>3, <2>5, <3>2, <1>KeepsDurable DEF SendBegun
  <2> QED
      BY <2>6, <2>7
<1>ExecuteDurable.
    ASSUME Reliable, TypeOK, Durable, execute_outs
    PROVE  Durable'
  <2> USE <1>ExecuteDurable
  (* Removing the first output: an append is on disk now, and no other one   *)
  (* is left.                                                                *)
  <2>TailBacked.
      ASSUME TypeOK, Durable, outs # <<>>, outs' = Tail(outs),
             Stored \cup Coming \subseteq Stored'
      PROVE  RepliesBacked'
    <3> USE <2>TailBacked
    <3>1. outs \in Seq(Out) /\ Len(outs) \in Nat
        BY SMTT(60) DEF TypeOK
    <3>2. /\ DOMAIN outs' = 1 .. Len(outs) - 1
          /\ \A k \in 1 .. Len(outs) - 1 : outs'[k] = outs[k + 1]
        BY SMTT(60), <3>1
    <3> SUFFICES ASSUME NEW k \in DOMAIN outs'
                 PROVE  /\ outs'[k].kind = "Append" => k = 1
                        /\ outs'[k].kind = "Reply" => outs'[k].ids \subseteq Stored'
        BY DEF RepliesBacked
    <3>3. k + 1 \in DOMAIN outs /\ k + 1 # 1 /\ outs'[k] = outs[k + 1]
        BY SMTT(60), <3>1, <3>2
    <3> QED
        BY <3>3 DEF Durable, RepliesBacked
  <2> DEFINE h == Head(outs)
  <2>1. outs # <<>> /\ outs' = Tail(outs) /\ job = None /\ job' = None
      BY DEF execute_outs
  <2>2. h = outs[1] /\ 1 \in DOMAIN outs
      BY SMTT(60), <2>1 DEF TypeOK
  <2>3. SendBegun'
      BY <2>1 DEF SendBegun
  <2>4. CASE h.kind = "Append" /\ execute_append(h)
    <3>1. h.mbox \in Mailbox /\ h.rec \in Record
        BY <2>1, <2>4, HeadOut DEF AppendOut
    <3>2. file' = [file EXCEPT ![h.mbox] = Append(@, h.rec)] /\ UNCHANGED acked
        BY <2>4 DEF execute_append, WriteFails, Reliable
    <3>3. file[h.mbox] \in Seq(Record) /\ file \in [Mailbox -> Seq(Record)]
        BY <3>1 DEF TypeOK
    <3> HIDE DEF h
    <3>4. /\ file'[h.mbox] = Append(file[h.mbox], h.rec)
          /\ \A m \in Mailbox \ {h.mbox} : file'[m] = file[m]
        BY <3>1, <3>2, <3>3
    <3>5. /\ \A i \in DOMAIN file[h.mbox] : /\ i \in DOMAIN file'[h.mbox]
                                            /\ file'[h.mbox][i] = file[h.mbox][i]
          /\ Len(file[h.mbox]) + 1 \in DOMAIN file'[h.mbox]
          /\ file'[h.mbox][Len(file[h.mbox]) + 1] = h.rec
        BY SMTT(60), <3>3, <3>4
    <3>6. Stored \subseteq Stored'
      <4> SUFFICES ASSUME NEW id \in Nat, NEW m \in Mailbox,
                          NEW i \in DOMAIN file[m], file[m][i].id = id
                   PROVE  \E j \in DOMAIN file'[m] : file'[m][j].id = id
          BY DEF Stored
      <4> QED
          BY <3>4, <3>5
    <3>7. Coming \subseteq Stored'
        BY <2>2, <3>1, <3>5 DEF Coming, Stored
    <3> QED
        BY <2>1, <2>3, <3>2, <3>6, <3>7, <2>TailBacked DEF Durable
  <2>5. CASE h.kind # "Append" /\ UNCHANGED file
    <3>1. Coming = {} /\ Stored' = Stored
        BY <2>2, <2>5 DEF Coming, Stored
    <3>2. RepliesBacked'
        BY <2>1, <3>1, <2>TailBacked
    <3>3. CASE UNCHANGED acked
        BY <2>3, <3>1, <3>2, <3>3 DEF Durable
    <3>4. CASE h.kind = "Reply" /\ acked' = acked \cup h.ids
      <4>1. h.ids \subseteq Stored
          BY <2>2, <3>1, <3>4 DEF Durable, RepliesBacked
      <4> QED
          BY <2>3, <3>1, <3>2, <3>4, <4>1 DEF Durable
    <3> QED
        BY <3>3, <3>4 DEF execute_outs, execute_append, execute_cursor, execute_reply
  <2> QED
      BY <2>4, <2>5 DEF execute_outs, execute_cursor, execute_reply, diskVars
<1>1. Init => Durable
    BY SMTT(60) DEF Init, Durable, RepliesBacked, SendBegun
<1>2. TypeOK /\ Durable /\ [Next]_vars => Durable'
  <2> SUFFICES ASSUME TypeOK, Durable, [Next]_vars PROVE Durable'
      OBVIOUS
  <2>1. CASE UNCHANGED <<file, acked, outs, job>>
      BY SMTT(60), <2>1 DEF Durable, Stored, RepliesBacked, Coming, SendBegun
  <2>2. CASE \E c \in Conn : Wire(c)
      BY <2>2, <1>WireDurable
  <2>3. CASE Work
      BY <2>3, <1>NextMemberDurable, <1>WakeOneDurable, <1>SendDoneDurable,
         <1>ExpireOneDurable, <1>ExecuteDurable DEF Work
  <2>4. CASE tick
    <3>1. job' = None \/ job' = [kind |-> "tick", todo |-> job'.todo]
        BY <2>4 DEF tick
    <3>2. outs = <<>> /\ UNCHANGED <<file, acked, outs>>
        BY <2>4 DEF tick, Ready, diskVars
    <3>3. SendBegun'
        BY SMTT(60), <3>1 DEF SendBegun
    <3> QED
        BY <3>2, <3>3, <1>NoOutputs, <1>KeepsDurable
  <2>5. CASE Crash
      BY <2>5, <1>NoOutputs, <1>KeepsDurable DEF Crash, SendBegun, diskVars
  <2>6. CASE \E m \in Mailbox : Truncate(m)
      BY <2>6 DEF Truncate, Reliable
  <2> QED
      BY <2>1, <2>2, <2>3, <2>4, <2>5, <2>6
         DEF Next, Disconnect, Deadline, Die, vars, diskVars, envVars, history
<1> QED
    BY <1>1, <1>2, TypeCorrect, PTL DEF Spec

(* What SendOk or AwaitOk told anybody is in a mailbox file for good: no   *)
(* interleaving of wakes, deaths, reaps and broker crashes between any two *)
(* outputs loses it, when every append succeeds and no mailbox is cleared. *)
THEOREM ConfirmedMail ==
    ASSUME Reliable
    PROVE  Spec => []ConfirmedIsStored
<1>1. Durable => ConfirmedIsStored
    BY DEF Durable, Stored, ConfirmedIsStored
<1> QED
    BY <1>1, AlwaysDurable, PTL

-----------------------------------------------------------------------------
(* No handler meets a case that its code calls impossible.                 *)

(* Why a waiter was chosen: the envelope being sent is one it may be given.*)
WakeReason ==
    job # None /\ job.kind = "send" =>
        /\ job.rec.from \notin job.members
        /\ \A w \in job.todo :
              /\ job.rec.origin = "Local"
              /\ filter_matches(pending[w], job.rec)
              /\ job.mbox \in Channel => effective_identity(w) # job.rec.from

NoInternalReply ==
    \A i \in DOMAIN outs : outs[i].kind = "Reply" => outs[i].what # "Internal"

LEMMA NamesAreSome == None \notin Name
BY NameAssumption DEF Mailbox

LEMMA AlwaysReason == Spec => [](WakeReason /\ NoInternalReply)
<1>SendReason.
    ASSUME TypeOK, NEW c \in Conn, NEW m \in Mailbox, NEW task \in Task,
           send(c, m, task), ~Refuse
    PROVE  WakeReason'
  <2> USE <1>SendReason
  <2> DEFINE r == [id |-> nmsg + 1, from |-> effective_identity(c),
                   origin |-> client_origin(c), task |-> task, ok |-> TRUE]
  <2>1. \/ m \in Name /\ send_agent(c, m, r)
        \/ m \in Channel /\ send_channel(c, m, r)
      BY DEF send
  <2> HIDE DEF r
  <2>2. \A w \in waiting_clients_for_name(m, r) :
           r.origin = "Local" /\ filter_matches(pending[w], r)
      BY DEF waiting_clients_for_name
  <2>3. ASSUME NEW M, NEW S, NEW flags, Sending(c, m, r, M, S, flags),
               r.from \notin M,
               \A w \in S : /\ r.origin = "Local"
                            /\ filter_matches(pending[w], r)
                            /\ m \notin Channel
        PROVE  WakeReason'
    <3>1. /\ job'.rec = r /\ job'.mbox = m /\ job'.members = M /\ job'.todo = S
          /\ UNCHANGED <<st, pending>>
        BY <2>3 DEF Sending, actorVars
    <3> QED
        BY <2>3, <3>1 DEF WakeReason, filter_matches
  <2>4. CASE m \in Name /\ send_agent(c, m, r)
    <3>1. m \notin Channel
        BY <2>4, NameAssumption
    <3> QED
        BY <2>2, <2>3, <2>4, <3>1 DEF send_agent
  <2>5. CASE m \in Channel /\ send_channel(c, m, r)
      BY SMTT(60), <2>3, <2>5 DEF send_channel
  <2> QED
      BY <2>1, <2>4, <2>5
<1>WireReason.
    ASSUME TypeOK, NoInternalReply, NEW c \in Conn, Wire(c)
    PROVE  WakeReason' /\ NoInternalReply'
  <2> USE <1>WireReason
  (* One output that is not an internal error.                               *)
  <2>OneOutput.
      ASSUME NEW h, outs' = <<h>>, h.kind = "Reply" => h.what # "Internal"
      PROVE  NoInternalReply'
      BY SMTT(60), <2>OneOutput DEF NoInternalReply
  <2>0. job = None /\ outs = <<>>
      BY DEF Wire, Ready
  <2>1. CASE Refuse
      BY <2>0, <2>1 DEF Refuse, vars, WakeReason, NoInternalReply
  <2>2. CASE UNCHANGED <<outs, job>>
      BY <2>0, <2>2 DEF WakeReason, NoInternalReply
  <2>3. CASE /\ \E m, off : outs' = <<AdvanceCursor(m, off)>>
             /\ UNCHANGED job
      BY <2>0, <2>3, <2>OneOutput DEF WakeReason, AdvanceCursor
  <2>4. CASE /\ \E what \in {"InboxOk", "AwaitOk"} : \E ids : outs' = <<Reply(c, what, ids)>>
             /\ UNCHANGED job
      BY <2>0, <2>4, <2>OneOutput DEF WakeReason, Reply
  <2>5. CASE \E m \in Mailbox, t \in Task : send(c, m, t)
    <3>1. ASSUME ~Refuse
          PROVE  WakeReason' /\ \E m, r : outs' = <<AppendMailbox(m, r)>>
        BY <2>5, <3>1, <1>SendReason DEF send, send_agent, send_channel, Sending
    <3> QED
        BY <2>1, <3>1, <2>OneOutput DEF AppendMailbox
  <2>6. CASE \E since \in 0 .. MaxMsg : inbox(c, since)
      BY <2>1, <2>4, <2>6 DEF inbox
  <2>7. CASE \E f \in Filter : await_envelope(c, f)
      BY <2>1, <2>2, <2>4, <2>7 DEF await_envelope
  <2>8. CASE \E n \in Name, o \in Origins, l \in Flags : register(c, n, o, l)
      BY <2>1, <2>3, <2>8 DEF register
  <2>9. CASE \E ch \in Channel, role \in Flags : join(c, ch, role)
      BY <2>1, <2>3, <2>9 DEF join
  <2> QED
      BY <2>1, <2>2, <2>5, <2>6, <2>7, <2>8, <2>9
         DEF Wire, handle_wire, Hello, set_listen, set_wake_addr, leave
<1>WorkReason.
    ASSUME TypeOK, NoOrphans, WakeReason, NoInternalReply, Work
    PROVE  WakeReason' /\ NoInternalReply'
  <2> USE <1>WorkReason
  (* The waiters that send_channel finds for the next member.                *)
  <2>NextMemberReason.
      ASSUME TypeOK, WakeReason, NoInternalReply, NextMember
      PROVE  WakeReason' /\ NoInternalReply'
    <3> USE <2>NextMemberReason
    <3>1. job \in SendJob /\ job # None /\ job.kind = "send"
        BY DEF NextMember, TypeOK, TickJob
    <3>2. PICK n \in job.members :
             job' = [job EXCEPT !.members = @ \ {n},
                                !.todo = waiting_clients_for_name(n, job.rec)]
        BY DEF NextMember
    <3>3. /\ job'.mbox = job.mbox /\ job'.rec = job.rec
          /\ job'.members = job.members \ {n}
          /\ job'.todo = waiting_clients_for_name(n, job.rec)
          /\ n \in Name
        BY <3>1, <3>2 DEF SendJob
    <3>4. n # job.rec.from /\ job.rec.from \notin job.members
        BY <3>1 DEF WakeReason
    <3>5. \A w \in job'.todo : /\ job.rec.origin = "Local"
                               /\ filter_matches(pending[w], job.rec)
                               /\ effective_identity(w) = n
        BY <3>3, NamesAreSome DEF waiting_clients_for_name, effective_identity, IsProxy
    <3>6. UNCHANGED <<st, pending, outs>>
        BY DEF NextMember, actorVars
    <3>7. \A w \in job'.todo : effective_identity(w)' = effective_identity(w)
        BY <3>6 DEF effective_identity
    <3>8. WakeReason'
        BY <3>3, <3>4, <3>5, <3>6, <3>7 DEF WakeReason, filter_matches
    <3> QED
        BY <3>6, <3>8 DEF NoInternalReply
  <2>AddReply.
      ASSUME TypeOK, NoInternalReply, NEW c, NEW what, NEW ids,
             what # "Internal", outs' = Append(outs, Reply(c, what, ids))
      PROVE  NoInternalReply'
    <3> USE <2>AddReply
    <3>1. Reply(c, what, ids).what = what
        BY DEF Reply
    <3> DEFINE h == Reply(c, what, ids)
    <3> HIDE DEF h
    <3>2. outs \in Seq(Out) /\ outs' = Append(outs, h) /\ h.what # "Internal"
        BY <3>1 DEF TypeOK, h
    <3> QED
        BY SMTT(60), <3>2 DEF NoInternalReply
  <2>WakeOneReason.
      ASSUME TypeOK, NoOrphans, WakeReason, NoInternalReply, WakeOne
      PROVE  WakeReason' /\ NoInternalReply'
    <3> USE <2>WakeOneReason
    (* The owner acts under the same name as the client it stands for.         *)
    <3>OwnerIdentity.
        ASSUME TypeOK, NEW c \in Conn, Resolves(c)
        PROVE  effective_identity(Owner(c)) = effective_identity(c)
      <4> USE <3>OwnerIdentity
      <4> DEFINE n == effective_identity(c)
      <4>1. CASE Holders(n) = {}
          BY <4>1 DEF Owner
      <4>2. CASE Holders(n) # {}
        <5>1. Owner(c) \in Holders(n)
            BY <4>2 DEF Owner, canonical_holder_id
        <5>2. st[Owner(c)].name = n
            BY <5>1 DEF Holders
        <5>3. n # None
            BY IdentityType, NamesAreSome
        <5> QED
            BY <5>2, <5>3 DEF effective_identity
      <4> QED
          BY <4>1, <4>2
    (* A walk that got to the end of the file folds the envelope in.           *)
    <3>FoldGives.
        ASSUME TypeOK, NEW o \in Conn, NEW m \in Mailbox, NEW f, NEW t \in Record,
               t # None, t.origin = "Local", filter_matches(f, t),
               m \in Channel => effective_identity(o) # t.from,
               drain_await_batch(o, m, f, t).fully_drained
        PROVE  drain_await_batch(o, m, f, t).ids # {}
      <4> USE <3>FoldGives
      <4> DEFINE since == st[o].await_offsets[m]
                 self  == IF m \in Channel THEN effective_identity(o) ELSE None
                 w     == walk(m, since, Drained(m, since), f, self, TRUE, AwaitBatchCap)
                 fold  == w.fully_drained /\ t # None
                 pass  == fold /\ (t.origin # "Local" \/ t.from = self)
                 give  == fold /\ ~pass /\ filter_matches(f, t)
      <4>1. /\ drain_await_batch(o, m, f, t).fully_drained = w.fully_drained
            /\ drain_await_batch(o, m, f, t).ids = w.ids \cup (IF give THEN {t.id} ELSE {})
          BY DEF drain_await_batch
      <4>2. t.from # self
          BY NamesAreSome DEF Record
      <4> HIDE DEF self, w
      <4>3. w.fully_drained
        <5> HIDE DEF fold, pass, give
        <5> QED
            BY <4>1
      <4>4. give
          BY <4>2, <4>3
      <4> HIDE DEF fold, give, pass
      <4> QED
          BY <4>1, <4>4
    <3>1. job \in SendJob /\ job # None /\ job.kind = "send"
        BY DEF WakeOne, TypeOK, TickJob
    <3>2. PICK w \in job.todo :
             LET b == drain_await_batch(Owner(w), job.mbox, pending[w], job.rec)
             IN
             /\ job' = [job EXCEPT !.todo = @ \ {w}]
             /\ pending' = [pending EXCEPT ![w] = None]
             /\ \/ outs' = Append(outs, Reply(w, "Err", {}))
                \/ /\ Resolves(w)
                   /\ outs' = Append(outs, Reply(w,
                         IF b.ids # {} THEN "AwaitOk"
                         ELSE IF b.fully_drained THEN "Internal" ELSE "AwaitTimeout",
                         b.ids))
        BY DEF WakeOne
    <3>3. w \in Conn /\ job.mbox \in Mailbox /\ job.rec \in Record /\ job.todo \subseteq Conn
        BY <3>1 DEF SendJob
    <3>4. WakeReason'
      <4>1. SameIdentities
          BY WorkIdentities DEF Work
      <4>2. /\ job'.mbox = job.mbox /\ job'.rec = job.rec
            /\ job'.members = job.members
            /\ job'.todo = job.todo \ {w}
          BY <3>1, <3>2 DEF SendJob
      <4>3. \A v \in job.todo \ {w} : pending'[v] = pending[v]
          BY <3>2, <3>3 DEF TypeOK
      <4>4. \A v \in job.todo : effective_identity(v)' = effective_identity(v)
          BY <3>3, <4>1 DEF SameIdentities, effective_identity
      <4> QED
          BY <3>1, <4>2, <4>3, <4>4 DEF WakeReason, filter_matches
    <3>5. NoInternalReply'
      <4>1. CASE outs' = Append(outs, Reply(w, "Err", {}))
          BY <4>1, <2>AddReply
      <4>2. CASE Resolves(w) /\ outs' # Append(outs, Reply(w, "Err", {}))
        <5> DEFINE o    == Owner(w)
                   b    == drain_await_batch(o, job.mbox, pending[w], job.rec)
                   what == IF b.ids # {} THEN "AwaitOk"
                           ELSE IF b.fully_drained THEN "Internal" ELSE "AwaitTimeout"
        <5>1. outs' = Append(outs, Reply(w, what, b.ids))
            BY <3>2, <4>2
        <5>2. o \in Conn /\ effective_identity(o) = effective_identity(w)
            BY <3>3, <4>2, OwnerType, <3>OwnerIdentity
        <5>3. /\ job.rec.origin = "Local"
              /\ filter_matches(pending[w], job.rec)
              /\ job.mbox \in Channel => effective_identity(o) # job.rec.from
            BY <3>1, <3>2, <5>2 DEF WakeReason
        <5>4. b.fully_drained => b.ids # {}
            BY <3>3, <5>2, <5>3, <3>FoldGives, NoneAssumption
        <5>5. what # "Internal"
            BY <5>4
        <5> HIDE DEF what, b
        <5> QED
            BY <5>1, <5>5, <2>AddReply
      <4> QED
          BY <3>2, <4>1, <4>2
    <3> QED
        BY <3>4, <3>5
  <2>1. CASE WakeOne
      BY <2>1, <2>WakeOneReason
  <2>a. CASE NextMember
      BY <2>a, <2>NextMemberReason
  <2>2. CASE SendDone
    <3>1. job' = None /\ outs' = Append(outs, SendOk(job.from, job.rec.id, job.flags))
        BY <2>2 DEF SendDone
    <3> DEFINE h == SendOk(job.from, job.rec.id, job.flags)
    <3>2. h.what # "Internal"
        BY DEF SendOk
    <3>3. outs \in Seq(Out) /\ outs' = Append(outs, h)
        BY <3>1 DEF TypeOK
    <3> HIDE DEF h
    <3>4. NoInternalReply'
        BY SMTT(60), <3>2, <3>3 DEF NoInternalReply
    <3> QED
        BY <3>1, <3>4 DEF WakeReason
  <2>3. CASE ExpireOne
    <3>1. job \in TickJob /\ job.kind = "tick"
        BY <2>3 DEF ExpireOne, TypeOK, SendJob
    <3>2. PICK w \in job.todo :
            /\ outs' = Append(outs, Reply(w, "AwaitTimeout", {}))
            /\ job' = None \/ job' = [job EXCEPT !.todo = @ \ {w}]
        BY <2>3 DEF ExpireOne
    <3>3. job' = None \/ job'.kind = "tick"
        BY <3>1, <3>2 DEF TickJob
    <3> QED
        BY <3>2, <3>3, <2>AddReply DEF WakeReason
  <2>4. CASE execute_outs
    <3>1. outs \in Seq(Out) /\ outs # <<>> /\ outs' = Tail(outs) /\ job' = None
        BY <2>4 DEF execute_outs, TypeOK
    <3>2. /\ Len(outs) \in Nat /\ DOMAIN outs' = 1 .. Len(outs) - 1
          /\ \A k \in 1 .. Len(outs) - 1 : outs'[k] = outs[k + 1] /\ k + 1 \in DOMAIN outs
        BY SMTT(60), <3>1
    <3> QED
        BY SMTT(60), <3>1, <3>2 DEF WakeReason, NoInternalReply
  <2> QED
      BY <2>1, <2>a, <2>2, <2>3, <2>4 DEF Work
<1> DEFINE Inv == WakeReason /\ NoInternalReply
<1>1. Init => Inv
  <2>1. Init => job = None /\ outs = <<>>
      BY DEF Init
  <2>2. job = None /\ outs = <<>> => WakeReason /\ NoInternalReply
      BY SMTT(60) DEF WakeReason, NoInternalReply
  <2> QED
      BY <2>1, <2>2
<1>2. TypeOK /\ NoOrphans /\ Inv /\ [Next]_vars => Inv'
  <2> SUFFICES ASSUME TypeOK, NoOrphans, Inv, [Next]_vars PROVE Inv'
      OBVIOUS
  <2>1. CASE \E c \in Conn : Wire(c)
      BY <2>1, <1>WireReason
  <2>2. CASE Work
      BY <2>2, <1>WorkReason
  <2>3. CASE tick \/ \E c \in Conn : Disconnect(c)
    <3>1. job' = None \/ job'.kind = "tick"
      <4>1. CASE tick
          BY <4>1 DEF tick
      <4>2. CASE \E c \in Conn : Disconnect(c)
          BY <4>2 DEF Disconnect, Ready
      <4> QED
          BY <2>3, <4>1, <4>2
    <3>2. UNCHANGED outs
        BY <2>3 DEF tick, Disconnect
    <3>3. WakeReason'
        BY <3>1 DEF WakeReason
    <3>4. NoInternalReply'
        BY <3>2 DEF NoInternalReply
    <3> QED
        BY <3>3, <3>4
  <2>4. CASE UNCHANGED <<st, pending, job, outs>>
      BY <2>4 DEF WakeReason, NoInternalReply, effective_identity, filter_matches
  <2>5. CASE Crash
    <3>1. job' = None /\ outs' = <<>>
        BY <2>5 DEF Crash
    <3> QED
        BY SMTT(60), <3>1 DEF WakeReason, NoInternalReply
  <2> QED
      BY <2>1, <2>2, <2>3, <2>4, <2>5
         DEF Next, Deadline, Die, Truncate, vars, actorVars
<1> QED
    BY <1>1, <1>2, TypeCorrect, Sessions, PTL DEF Spec, SessionsHold

(* The expect() in inbox and the last arm of await_reply_for_mailbox are   *)
(* unreachable: whoever may act has a canonical holder, and a waiter that  *)
(* is woken is given an envelope unless one it must not pass comes first.  *)
(* It holds with every fault on, so files may shrink under the broker.     *)
THEOREM NoPanic == Spec => []NoInternalError
<1>1. WakeReason /\ NoInternalReply => NoInternalError
    BY DEF NoInternalReply, NoInternalError, Resolves, proxy_holder_alive,
           effective_identity, Holders
<1> QED
    BY <1>1, AlwaysReason, PTL

-----------------------------------------------------------------------------
(* Sets of positions.                                                      *)

LEMMA FirstPosition ==
    ASSUME NEW S \in SUBSET Nat, S # {}
    PROVE  \E x \in S : \A y \in S : x <= y
<1> DEFINE Less == {p \in Nat \X Nat : p[1] < p[2]}
<1>1. OpToRel(<, Nat) = Less
    BY DEF OpToRel
<1>2. IsWellFoundedOn(Less, Nat)
    BY <1>1, NatLessThanWellFounded
<1>3. \E x \in S : \A y \in S : ~(<<y, x>> \in Less)
  <2> HIDE DEF Less
  <2> QED
      BY <1>2, WFMin
<1>4. PICK x \in S : \A y \in S : ~(<<y, x>> \in Less)
    BY <1>3
<1>5. ASSUME NEW y \in S PROVE x <= y
  <2>1. x \in Nat /\ y \in Nat
      OBVIOUS
  <2>2. ~(y < x)
      BY <1>4, <2>1
  <2> QED
      BY SMTT(60), <2>1, <2>2
<1> QED
    BY <1>5

LEMMA LastPosition ==
    ASSUME NEW a \in Nat, NEW b \in Nat, NEW S \in SUBSET (a .. b), S # {}
    PROVE  \E x \in S : \A y \in S : y <= x
<1> DEFINE R == {b - s : s \in S}
<1>1. \A s \in S : s \in a .. b /\ b - s \in Nat
    BY SMTT(60)
<1>2. R \in SUBSET Nat /\ R # {}
    BY <1>1
<1> HIDE DEF R
<1>3. PICK r \in R : \A y \in R : r <= y
    BY <1>2, FirstPosition
<1>4. PICK x \in S : r = b - x
    BY DEF R
<1>5. ASSUME NEW y \in S PROVE y <= x
  <2>1. b - y \in R
      BY DEF R
  <2> QED
      BY SMTT(60), <2>1, <1>1, <1>3, <1>4
<1> QED
    BY <1>5

LEMMA CountImage ==
    ASSUME NEW S, IsFiniteSet(S), NEW T, NEW f \in [S -> T],
           \A t \in T : \E i \in S : f[i] = t
    PROVE  IsFiniteSet(T) /\ Cardinality(T) <= Cardinality(S)
<1>1. f \in Surjection(S, T)
    BY DEF Surjection
<1> QED
    BY <1>1, FS_Surjection

(* What a walk gets through, it gets through from the start: such a set is *)
(* an interval, and its size says where it ends.                           *)
LEMMA StretchIsInterval ==
    ASSUME NEW a \in Nat, NEW b \in Nat, NEW S \in SUBSET (a + 1 .. b),
           \A i \in S : \A j \in a + 1 .. b : j <= i => j \in S
    PROVE  /\ Cardinality(S) \in Nat
           /\ S = a + 1 .. a + Cardinality(S)
           /\ a + Cardinality(S) <= b \/ S = {}
<1>1. CASE S = {}
    BY SMTT(60), <1>1, FS_EmptySet
<1>2. CASE S # {}
  <2>0. a + 1 \in Nat
      BY SMTT(60)
  <2>1. PICK x \in S : \A y \in S : y <= x
      BY <1>2, <2>0, LastPosition
  <2>2. x \in a + 1 .. b
      OBVIOUS
  <2>3. S = a + 1 .. x
    <3>1. \A j \in a + 1 .. x : j \in a + 1 .. b /\ j <= x
        BY SMTT(60), <2>2
    <3>2. a + 1 .. x \subseteq S
        BY <3>1
    <3>3. \A y \in S : y \in a + 1 .. x
        BY SMTT(60), <2>1, <2>2
    <3> QED
        BY <3>2, <3>3
  <2>4. Cardinality(a + 1 .. x) = x - a
      BY SMTT(60), <2>2, FS_Interval
  <2> QED
      BY SMTT(60), <2>2, <2>3, <2>4
<1> QED
    BY <1>1, <1>2

-----------------------------------------------------------------------------
(* What a walk over a mailbox gives and gets past.                         *)

Skips(m, i, self, local) == \/ ~file[m][i].ok
                            \/ local /\ file[m][i].origin # "Local"
                            \/ file[m][i].from = self

(* The first of some positions is alone among those up to it.              *)
LEMMA FirstIsOne ==
    ASSUME NEW S \in SUBSET Nat, S # {}
    PROVE  \E x \in S : Cardinality({k \in S : k <= x}) = 1
<1>1. PICK x \in S : \A y \in S : x <= y
    BY FirstPosition
<1>2. \A k \in S : k <= x <=> k = x
    BY SMTT(60), <1>1
<1>3. {k \in S : k <= x} = {x}
    BY <1>2
<1> QED
    BY <1>3, FS_Singleton

(* A walk from `since' over the records up to `top' ends between the two,  *)
(* passes nothing but what it gives or may never give, gives nothing it    *)
(* does not pass, gives no more than the cap, and when it claims to have   *)
(* drained everything it has.                                              *)
WalkFacts(w, m, since, top, f, self, local, cap) ==
    /\ w.next_offset \in since .. top
    /\ \A i \in since + 1 .. w.next_offset :
          Skips(m, i, self, local) \/ file[m][i].id \in w.ids
    /\ \A x \in w.ids : \E i \in since + 1 .. w.next_offset :
          ~Skips(m, i, self, local) /\ file[m][i].id = x
    /\ IsFiniteSet(w.ids) /\ Cardinality(w.ids) <= cap
    /\ w.fully_drained => w.next_offset = top /\ Cardinality(w.ids) < cap
    /\ (\A i \in since + 1 .. top : filter_matches(f, file[m][i])) =>
          /\ top - since < cap => w.fully_drained
          /\ w.ids = {} => \A i \in since + 1 .. top : Skips(m, i, self, local)

LEMMA Walk ==
    ASSUME TypeOK, NEW m \in Mailbox, m \in exists, NEW since \in Nat,
           NEW top \in Nat, since <= top, top <= Len(file[m]),
           NEW f, NEW self, NEW local, NEW cap \in Nat \ {0}
    PROVE  \A w : w = walk(m, since, since + 1 .. top, f, self, local, cap) =>
                  WalkFacts(w, m, since, top, f, self, local, cap)
<1> DEFINE scan    == since + 1 .. top
           skip    == {i \in scan : \/ ~file[m][i].ok
                                    \/ local /\ file[m][i].origin # "Local"
                                    \/ file[m][i].from = self}
           match   == {i \in scan \ skip : filter_matches(f, file[m][i])}
           stop    == scan \ (skip \cup match)
           reached == {i \in scan : \A k \in stop : i < k}
           hits    == reached \cap match
           upto(i) == {k \in hits : k <= i}
           given   == {i \in hits : Cardinality(upto(i)) <= cap}
           capped  == Cardinality(hits) >= cap
           passed  == IF capped THEN {i \in reached : \E k \in given : i <= k}
                                ELSE reached
           id      == [i \in given |-> file[m][i].id]
           ids     == {file[m][i].id : i \in given}
           n       == since + Cardinality(passed)
<1>1. walk(m, since, scan, f, self, local, cap) =
        [ids |-> ids,
         next_offset |-> Least(since, DrainEnd(m, since)) + Cardinality(passed),
         fully_drained |-> stop = {} /\ ~capped]
    BY DEF walk
<1>2. Len(file[m]) \in Nat
    BY SMTT(60) DEF TypeOK
<1>3. Least(since, DrainEnd(m, since)) = since
    BY SMTT(60), <1>2 DEF Least, DrainEnd
<1>4. scan \subseteq Nat /\ IsFiniteSet(scan) /\ Cardinality(scan) = top - since
    BY SMTT(60), FS_Interval
<1>5. skip = {i \in scan : Skips(m, i, self, local)}
    BY DEF Skips
<1>6. hits \subseteq scan \ skip /\ given \subseteq hits
    OBVIOUS
<1>a. reached \subseteq scan /\ \A i \in reached : \A j \in scan : j <= i => j \in reached
  <2>1. stop \subseteq scan
      OBVIOUS
  <2> HIDE DEF stop, scan
  <2> QED
      BY SMTT(60), <1>4, <2>1
<1>7. IsFiniteSet(hits) /\ Cardinality(hits) \in Nat /\ Cardinality(hits) <= top - since
  <2>1. hits \in SUBSET scan
      BY <1>6
  <2> HIDE DEF hits, scan
  <2> QED
      BY <1>4, <2>1, FS_Subset, FS_CardinalityType
<1> HIDE DEF skip, match, stop, reached, hits
<1>8. \A i \in hits : /\ upto(i) \subseteq hits
                      /\ IsFiniteSet(upto(i)) /\ Cardinality(upto(i)) \in Nat
                      /\ Cardinality(upto(i)) <= Cardinality(hits)
  <2> SUFFICES ASSUME NEW i \in hits
               PROVE  /\ upto(i) \subseteq hits
                      /\ IsFiniteSet(upto(i)) /\ Cardinality(upto(i)) \in Nat
                      /\ Cardinality(upto(i)) <= Cardinality(hits)
      OBVIOUS
  <2>1. upto(i) \in SUBSET hits
      OBVIOUS
  <2> HIDE DEF upto
  <2> QED
      BY <2>1, <1>7, FS_Subset, FS_CardinalityType
<1>9. ~capped => given = hits
  <2> HIDE DEF upto
  <2>1. ~capped => \A i \in hits : Cardinality(upto(i)) <= cap
      BY SMTT(60), <1>7, <1>8
  <2> QED
      BY <2>1
<1>10. \A i \in hits, k \in given : i <= k => i \in given
  <2> SUFFICES ASSUME NEW i \in hits, NEW k \in given, i <= k PROVE i \in given
      OBVIOUS
  <2>1. k \in hits /\ Cardinality(upto(k)) <= cap
      OBVIOUS
  <2>2. upto(i) \in SUBSET upto(k)
    <3>1. \A j \in hits : j \in Nat
        BY <1>4, <1>6
    <3>2. \A j \in hits : j <= i => j <= k
        BY SMTT(60), <2>1, <3>1
    <3> QED
        BY <3>2
  <2>3. /\ IsFiniteSet(upto(k)) /\ Cardinality(upto(k)) \in Nat
        /\ Cardinality(upto(i)) \in Nat
      BY <1>8, <2>1
  <2> HIDE DEF upto
  <2>4. Cardinality(upto(i)) <= Cardinality(upto(k))
      BY <2>2, <2>3, FS_Subset
  <2> QED
      BY SMTT(60), <2>1, <2>3, <2>4
<1>11. \A i \in reached : i \in skip \/ i \in hits
  <2> SUFFICES ASSUME NEW i \in reached, i \notin skip, i \notin hits PROVE FALSE
      OBVIOUS
  <2>1. i \in scan /\ \A k \in stop : i < k
      BY DEF reached
  <2>2. i \in stop
      BY <2>1 DEF stop, hits
  <2> QED
      BY SMTT(60), <1>4, <2>1, <2>2
<1>12. hits \subseteq reached
    BY DEF hits
<1>13. /\ passed \subseteq reached /\ given \subseteq passed
       /\ \A i \in passed : i \in hits => i \in given
       /\ \A i \in passed : \A j \in scan : j <= i => j \in passed
  <2> HIDE DEF given, scan
  <2>1. \A i \in scan : i <= i
      BY SMTT(60), <1>4
  <2>2. CASE capped
    <3>1. passed = {i \in reached : \E k \in given : i <= k}
        BY <2>2
    <3>2. \A i, j, k \in scan : i <= j /\ j <= k => i <= k
        BY SMTT(60), <1>4
    <3>3. given \subseteq scan
        BY <1>6, <1>12, <1>a
    <3> HIDE DEF passed, capped
    <3> QED
        BY <1>6, <1>10, <1>12, <1>a, <2>1, <3>1, <3>2, <3>3
  <2>3. CASE ~capped
      BY <1>9, <1>12, <1>a, <2>3
  <2> QED
      BY <2>2, <2>3
<1>14. Cardinality(passed) \in Nat /\ passed = since + 1 .. n /\ n \in since .. top
  <2>1. passed \in SUBSET scan
      BY <1>13, <1>a
  <2> HIDE DEF passed
  <2>2. /\ Cardinality(passed) \in Nat
        /\ passed = since + 1 .. since + Cardinality(passed)
        /\ since + Cardinality(passed) <= top \/ passed = {}
      BY <1>13, <2>1, StretchIsInterval
  <2>3. passed = {} => Cardinality(passed) = 0
      BY FS_EmptySet
  <2> QED
      BY SMTT(60), <2>2, <2>3
<1>15. IsFiniteSet(given) /\ Cardinality(given) \in Nat /\ Cardinality(given) <= cap
  <2>1. given \in SUBSET hits
      OBVIOUS
  <2>2. \A i \in given : Cardinality(upto(i)) <= cap
      OBVIOUS
  <2> HIDE DEF given
  <2>3. IsFiniteSet(given) /\ Cardinality(given) \in Nat
      BY <1>7, <2>1, FS_Subset, FS_CardinalityType
  <2>4. CASE given = {}
      BY SMTT(60), <2>3, <2>4, FS_EmptySet
  <2>5. CASE given # {}
    <3>1. given \in SUBSET (since + 1 .. top) /\ since + 1 \in Nat
        BY SMTT(60), <1>6, <2>1
    <3>2. PICK x \in given : \A y \in given : y <= x
        BY <2>5, <3>1, LastPosition
    <3>3. given \in SUBSET upto(x)
        BY <2>1, <3>2
    <3>4. IsFiniteSet(upto(x)) /\ Cardinality(upto(x)) \in Nat /\ Cardinality(upto(x)) <= cap
        BY <1>8, <2>1, <2>2
    <3> HIDE DEF upto
    <3>5. Cardinality(given) <= Cardinality(upto(x))
        BY <3>3, <3>4, FS_Subset
    <3> QED
        BY SMTT(60), <2>3, <3>4, <3>5
  <2> QED
      BY <2>3, <2>4, <2>5
<1>16. /\ IsFiniteSet(ids) /\ Cardinality(ids) \in Nat
       /\ Cardinality(ids) <= Cardinality(given)
  <2> HIDE DEF given
  <2>1. id \in [given -> ids] /\ \A t \in ids : \E i \in given : id[i] = t
      OBVIOUS
  <2> HIDE DEF id, ids
  <2> QED
      BY <1>15, <2>1, CountImage, FS_CardinalityType
<1>17. \A i \in since + 1 .. n : Skips(m, i, self, local) \/ file[m][i].id \in ids
  <2> SUFFICES ASSUME NEW i \in passed, i \notin skip PROVE file[m][i].id \in ids
      BY <1>5, <1>14
  <2>1. i \in given
    <3> HIDE DEF passed, given
    <3> QED
        BY <1>11, <1>13
  <2> QED
      BY <2>1
<1>18. \A x \in ids : \E i \in since + 1 .. n :
          ~Skips(m, i, self, local) /\ file[m][i].id = x
  <2> SUFFICES ASSUME NEW i \in given
               PROVE  i \in since + 1 .. n /\ ~Skips(m, i, self, local)
      OBVIOUS
  <2> HIDE DEF given, passed
  <2>1. i \in hits /\ i \in passed
      BY <1>6, <1>13
  <2> QED
      BY <1>5, <1>6, <1>14, <2>1
<1>19. stop = {} => reached = scan
    BY DEF reached
<1>20. stop = {} /\ ~capped => n = top /\ Cardinality(ids) < cap
  <2> HIDE DEF given, ids
  <2>1. stop = {} /\ ~capped => passed = scan
      BY <1>19
  <2>2. ~capped => Cardinality(given) < cap
      BY SMTT(60), <1>7, <1>9
  <2> HIDE DEF passed
  <2>3. passed = scan => Cardinality(passed) = top - since
      BY <1>4
  <2> QED
      BY SMTT(60), <1>15, <1>16, <2>1, <2>2, <2>3
<1> DEFINE all == \A i \in scan : filter_matches(f, file[m][i])
<1>21. all => stop = {} /\ hits = scan \ skip
    BY <1>19 DEF stop, hits, match
<1>22. all /\ top - since < cap => stop = {} /\ ~capped
    BY SMTT(60), <1>7, <1>21
<1>23. all /\ ids = {} => \A i \in scan : Skips(m, i, self, local)
  <2> SUFFICES ASSUME all, hits # {} PROVE ids # {}
      BY <1>5, <1>21
  <2>1. hits \in SUBSET Nat
      BY <1>4, <1>6
  <2>2. PICK x \in hits : Cardinality({k \in hits : k <= x}) = 1
      BY <2>1, FirstIsOne
  <2>3. x \in given
      BY SMTT(60), <2>2
  <2> QED
      BY <2>3
<1>24. Cardinality(ids) <= cap
    BY SMTT(60), <1>15, <1>16
<1>25. ASSUME NEW w, w = walk(m, since, scan, f, self, local, cap)
       PROVE  w.ids = ids /\ w.next_offset = n /\ w.fully_drained = (stop = {} /\ ~capped)
  <2> HIDE DEF ids, passed, capped
  <2> QED
      BY SMTT(60), <1>1, <1>3, <1>25
<1> HIDE DEF ids, n, capped
<1>26. ASSUME NEW w, w.ids = ids, w.next_offset = n,
              w.fully_drained = (stop = {} /\ ~capped)
       PROVE  /\ w.next_offset \in since .. top
              /\ \A i \in since + 1 .. w.next_offset :
                    Skips(m, i, self, local) \/ file[m][i].id \in w.ids
              /\ \A x \in w.ids : \E i \in since + 1 .. w.next_offset :
                    ~Skips(m, i, self, local) /\ file[m][i].id = x
              /\ IsFiniteSet(w.ids) /\ Cardinality(w.ids) <= cap
              /\ w.fully_drained => w.next_offset = top /\ Cardinality(w.ids) < cap
              /\ all => /\ top - since < cap => w.fully_drained
                        /\ w.ids = {} => \A i \in scan : Skips(m, i, self, local)
  <2> HIDE DEF all, scan
  <2> QED
      BY <1>14, <1>16, <1>17, <1>18, <1>20, <1>22, <1>23, <1>24, <1>26
<1> QED
    BY <1>25, <1>26 DEF WalkFacts

-----------------------------------------------------------------------------
(* What an await batch gives and gets past.                                *)

(* What a walk for an await passes over is what is not for the await.      *)
LEMMA SkipsAwait ==
    ASSUME TypeOK, NEW o \in Holder, NEW m \in Mailbox, NEW i \in DOMAIN file[m]
    PROVE  LET self == IF m \in Channel THEN effective_identity(o) ELSE None
           IN  Skips(m, i, self, TRUE) <=> ~ForAwait(o, m, file[m][i])
<1>1. file[m] \in Seq(Record)
    BY DEF TypeOK
<1>2. file[m][i] \in Record
    BY SMTT(60), <1>1
<1>3. file[m][i].from # None
    BY <1>2, NamesAreSome DEF Record
<1>4. effective_identity(o) = st[o].name
    BY DEF Holder, effective_identity
<1> QED
    BY <1>3, <1>4 DEF Skips, ForAwait

(* The records from a cursor on; a cursor that counts the record being     *)
(* sent is clamped to the end of the file.                                 *)
LEMMA WalkFrom ==
    ASSUME TypeOK, NEW m \in Mailbox, m \in exists,
           NEW since \in 0 .. Len(file[m]) + 1, NEW f, NEW self, NEW local, NEW cap,
           NEW from, from = Least(since, Len(file[m]))
    PROVE  /\ from \in 0 .. Len(file[m])
           /\ walk(m, since, Drained(m, since), f, self, local, cap)
                = walk(m, from, from + 1 .. Len(file[m]), f, self, local, cap)
<1>1. Len(file[m]) \in Nat /\ DOMAIN file[m] = 1 .. Len(file[m])
    BY SMTT(60) DEF TypeOK
<1>2. from \in 0 .. Len(file[m])
    BY SMTT(60), <1>1 DEF Least
<1>3. Drained(m, since) = from + 1 .. Len(file[m])
  <2>1. \A i \in 1 .. Len(file[m]) : i > since <=> i >= from + 1
      BY SMTT(60), <1>1 DEF Least
  <2>2. \A i \in from + 1 .. Len(file[m]) : i \in 1 .. Len(file[m]) /\ i >= from + 1
      BY SMTT(60), <1>1, <1>2
  <2>3. \A i \in 1 .. Len(file[m]) : i > since <=> i \in from + 1 .. Len(file[m])
      BY SMTT(60), <1>1, <1>2, <2>1
  <2> QED
      BY <1>1, <2>2, <2>3 DEF Drained
<1>4. Least(since, DrainEnd(m, since)) = Least(from, DrainEnd(m, from))
    BY <1>1 DEF Least, DrainEnd
<1>5. walk(m, since, from + 1 .. Len(file[m]), f, self, local, cap)
        = walk(m, from, from + 1 .. Len(file[m]), f, self, local, cap)
    BY <1>4 DEF walk
<1> QED
    BY <1>2, <1>3, <1>5

(* The walk of an await, in terms of what the await is to be given.        *)
AwaitFacts(w, o, m, from, f) ==
    /\ from \in 0 .. Len(file[m])
    /\ w.next_offset \in from .. Len(file[m])
    /\ \A i \in from + 1 .. w.next_offset :
          ForAwait(o, m, file[m][i]) => file[m][i].id \in w.ids
    /\ \A x \in w.ids : \E i \in from + 1 .. w.next_offset :
          ForAwait(o, m, file[m][i]) /\ file[m][i].id = x
    /\ IsFiniteSet(w.ids) /\ Cardinality(w.ids) <= AwaitBatchCap
    /\ w.fully_drained => /\ w.next_offset = Len(file[m])
                          /\ Cardinality(w.ids) < AwaitBatchCap
    /\ from = Len(file[m]) => w.fully_drained
    /\ (\A r \in Record : filter_matches(f, r)) /\ w.ids = {} =>
          \A i \in from + 1 .. Len(file[m]) : ~ForAwait(o, m, file[m][i])

LEMMA AwaitWalk ==
    ASSUME TypeOK, NEW o \in Holder, NEW m \in Mailbox, m \in exists, NEW f,
           NEW since \in 0 .. Len(file[m]) + 1,
           NEW from, from = Least(since, Len(file[m])),
           NEW self, NEW local \in BOOLEAN,
           \A i \in DOMAIN file[m] : Skips(m, i, self, local) <=> ~ForAwait(o, m, file[m][i]),
           NEW w, w = walk(m, since, Drained(m, since), f, self, local, AwaitBatchCap)
    PROVE  AwaitFacts(w, o, m, from, f)
<1> DEFINE top == Len(file[m])
           all == \A i \in from + 1 .. top : filter_matches(f, file[m][i])
<1>1. top \in Nat /\ DOMAIN file[m] = 1 .. top /\ \A i \in 1 .. top : file[m][i] \in Record
    BY SMTT(60) DEF TypeOK
<1>2. from \in 0 .. Len(file[m]) /\ from \in Nat /\ from <= top
    BY SMTT(60), <1>1, WalkFrom
<1>3. w = walk(m, from, from + 1 .. top, f, self, local, AwaitBatchCap)
    BY SMTT(60), WalkFrom
<1>4. \A i \in from + 1 .. top : i \in DOMAIN file[m]
    BY SMTT(60), <1>1, <1>2
<1>5. \A i \in from + 1 .. top : Skips(m, i, self, local) <=> ~ForAwait(o, m, file[m][i])
    BY <1>4
<1>6. /\ w.next_offset \in from .. top
      /\ \A i \in from + 1 .. w.next_offset :
            Skips(m, i, self, local) \/ file[m][i].id \in w.ids
      /\ \A x \in w.ids : \E i \in from + 1 .. w.next_offset :
            ~Skips(m, i, self, local) /\ file[m][i].id = x
      /\ IsFiniteSet(w.ids) /\ Cardinality(w.ids) <= AwaitBatchCap
      /\ w.fully_drained => w.next_offset = top /\ Cardinality(w.ids) < AwaitBatchCap
      /\ all /\ w.ids = {} => \A i \in from + 1 .. top : Skips(m, i, self, local)
      /\ all /\ top - from < AwaitBatchCap => w.fully_drained
  <2>1. top <= Len(file[m]) /\ AwaitBatchCap \in Nat \ {0}
      BY SMTT(60), <1>1, CapAssumption
  <2> HIDE DEF top
  <2>2. WalkFacts(w, m, from, top, f, self, local, AwaitBatchCap)
      BY <1>1, <1>2, <1>3, <2>1, Walk
  <2> QED
      BY <2>2 DEF WalkFacts
<1>7. (\A r \in Record : filter_matches(f, r)) => all
    BY <1>1, <1>4
<1>8. from = top => all /\ top - from < AwaitBatchCap
    BY SMTT(60), <1>1, CapAssumption
<1>9. \A i \in from + 1 .. w.next_offset : i \in from + 1 .. top
  <2> HIDE DEF top
  <2> QED
      BY SMTT(60), <1>1, <1>2, <1>6
<1> HIDE DEF top, all
<1> QED
    BY <1>2, <1>5, <1>6, <1>7, <1>8, <1>9 DEF top, AwaitFacts

(* An await that is handled on its own.                                    *)
LEMMA Batch ==
    ASSUME TypeOK, NEW o \in Holder, NEW m \in Mailbox, m \in exists, NEW f,
           NEW since, since = st[o].await_offsets[m], since <= Len(file[m]),
           AwaitBatchCap <= FrameCap,
           NEW b, b = drain_await_batch(o, m, f, None)
    PROVE  /\ since \in Nat /\ b.next_offset \in since .. Len(file[m])
           /\ \A i \in since + 1 .. b.next_offset :
                 ForAwait(o, m, file[m][i]) => file[m][i].id \in b.ids
           /\ \A x \in b.ids : \E i \in since + 1 .. b.next_offset :
                 ForAwait(o, m, file[m][i]) /\ file[m][i].id = x
           /\ Fits(b.ids)
           /\ (\A r \in Record : filter_matches(f, r)) /\ b.ids = {} =>
                 \A i \in since + 1 .. Len(file[m]) : ~ForAwait(o, m, file[m][i])
<1>1. PICK self : self = IF m \in Channel THEN effective_identity(o) ELSE None
    OBVIOUS
<1>2. PICK local \in BOOLEAN : local = TRUE
    OBVIOUS
<1>3. PICK w : w = walk(m, since, Drained(m, since), f, self, local, AwaitBatchCap)
    OBVIOUS
<1>4. w = walk(m, since, Drained(m, since), f, self, TRUE, AwaitBatchCap)
    BY <1>2, <1>3
<1>5. b.ids = w.ids /\ b.next_offset = w.next_offset + 0
    BY <1>1, <1>4 DEF drain_await_batch
<1>6. Len(file[m]) \in Nat /\ since \in Nat
    BY SMTT(60) DEF TypeOK, ClientState, Holder
<1>7. since \in 0 .. Len(file[m]) + 1 /\ since = Least(since, Len(file[m]))
    BY SMTT(60), <1>6 DEF Least
<1>8. AwaitFacts(w, o, m, since, f)
  <2>1. \A i \in DOMAIN file[m] : Skips(m, i, self, local) <=> ~ForAwait(o, m, file[m][i])
      BY <1>1, <1>2, SkipsAwait
  <2> QED
      BY <1>3, <1>7, <2>1, AwaitWalk
<1>9. Fits(w.ids)
  <2>1. Cardinality(w.ids) \in Nat
      BY <1>8, FS_CardinalityType DEF AwaitFacts
  <2> QED
      BY SMTT(60), <1>8, <2>1, CapAssumption DEF Fits, AwaitFacts
<1>10. w.next_offset + 0 = w.next_offset
    BY SMTT(60), <1>6, <1>8 DEF AwaitFacts
<1> QED
    BY <1>5, <1>6, <1>8, <1>9, <1>10 DEF AwaitFacts

(* An await that is woken: the envelope being sent counts as the record    *)
(* after the last one of the file.                                         *)
FoldFacts(b, o, m, since, Q) ==
    /\ since \in Nat /\ b.next_offset \in since .. Len(Q)
    /\ \A i \in since + 1 .. b.next_offset :
          ForAwait(o, m, Q[i]) => Q[i].id \in b.ids
    /\ \A x \in b.ids : \E i \in 1 .. b.next_offset :
          ForAwait(o, m, Q[i]) /\ Q[i].id = x
    /\ Fits(b.ids)

LEMMA BatchFold ==
    ASSUME TypeOK, NEW o \in Holder, NEW m \in Mailbox, m \in exists, NEW f,
           NEW since, since = st[o].await_offsets[m], since <= Len(file[m]) + 1,
           AwaitBatchCap <= FrameCap,
           NEW t \in Record, ForAwait(o, m, t), filter_matches(f, t),
           NEW b, b = drain_await_batch(o, m, f, t),
           NEW Q, Q = Append(file[m], t)
    PROVE  FoldFacts(b, o, m, since, Q)
<1> SUFFICES /\ since \in Nat /\ b.next_offset \in since .. Len(Q)
             /\ \A i \in since + 1 .. b.next_offset :
                   ForAwait(o, m, Q[i]) => Q[i].id \in b.ids
             /\ \A x \in b.ids : \E i \in 1 .. b.next_offset :
                   ForAwait(o, m, Q[i]) /\ Q[i].id = x
             /\ Fits(b.ids)
    BY DEF FoldFacts
<1>1. PICK self : self = IF m \in Channel THEN effective_identity(o) ELSE None
    OBVIOUS
<1>2. PICK local \in BOOLEAN : local = TRUE
    OBVIOUS
<1>3. PICK w : w = walk(m, since, Drained(m, since), f, self, local, AwaitBatchCap)
    OBVIOUS
<1>4. w = walk(m, since, Drained(m, since), f, self, TRUE, AwaitBatchCap)
    BY <1>2, <1>3
<1>5. t # None /\ t.origin = "Local" /\ t.from # self
  <2>1. effective_identity(o) = st[o].name
      BY DEF Holder, effective_identity
  <2>2. t # None /\ t.from # None
      BY NoneAssumption, NamesAreSome DEF Record
  <2> QED
      BY <1>1, <2>1, <2>2 DEF ForAwait
<1>6. /\ b.ids = w.ids \cup (IF w.fully_drained THEN {t.id} ELSE {})
      /\ b.next_offset = w.next_offset + (IF w.fully_drained THEN 1 ELSE 0)
  <2> DEFINE fold  == w.fully_drained /\ t # None
             pass  == fold /\ (t.origin # "Local" \/ t.from = self)
             give  == fold /\ ~pass /\ filter_matches(f, t)
  <2>1. b = [ids           |-> w.ids \cup (IF give THEN {t.id} ELSE {}),
             next_offset   |-> w.next_offset + (IF pass \/ give THEN 1 ELSE 0),
             fully_drained |-> w.fully_drained]
      BY <1>1, <1>4 DEF drain_await_batch
  <2>2. ~pass /\ (give <=> w.fully_drained)
      BY <1>5
  <2> HIDE DEF pass, give
  <2> QED
      BY SMTT(60), <2>1, <2>2
<1>7. Len(file[m]) \in Nat /\ since \in Nat /\ file[m] \in Seq(Record)
    BY SMTT(60) DEF TypeOK, ClientState, Holder
<1>8. PICK from : from = Least(since, Len(file[m]))
    OBVIOUS
<1>9. AwaitFacts(w, o, m, from, f)
  <2>1. \A i \in DOMAIN file[m] : Skips(m, i, self, local) <=> ~ForAwait(o, m, file[m][i])
      BY <1>1, <1>2, SkipsAwait
  <2>2. since \in 0 .. Len(file[m]) + 1
      BY SMTT(60), <1>7
  <2> QED
      BY <1>3, <1>8, <2>1, <2>2, AwaitWalk
<1>10. /\ Len(Q) = Len(file[m]) + 1 /\ Q[Len(file[m]) + 1] = t
       /\ \A i \in 1 .. Len(file[m]) : Q[i] = file[m][i]
    BY SMTT(60), <1>7
<1>11. from \in 0 .. Len(file[m]) /\ (since = from \/ (since = Len(file[m]) + 1 /\ w.fully_drained))
    BY SMTT(60), <1>7, <1>8, <1>9 DEF Least, AwaitFacts
<1>12. w.next_offset \in from .. Len(file[m]) /\ w.next_offset \in Nat
    BY SMTT(60), <1>7, <1>9 DEF AwaitFacts
<1>13. /\ \A i \in from + 1 .. w.next_offset :
             ForAwait(o, m, Q[i]) => Q[i].id \in w.ids
       /\ \A x \in w.ids : \E i \in 1 .. w.next_offset :
             ForAwait(o, m, Q[i]) /\ Q[i].id = x
  <2>0. from \in Nat /\ w.next_offset <= Len(file[m])
      BY SMTT(60), <1>7, <1>11, <1>12
  <2>1. \A i \in from + 1 .. w.next_offset : i \in 1 .. w.next_offset /\ Q[i] = file[m][i]
      BY SMTT(60), <1>7, <1>10, <1>12, <2>0
  <2> QED
      BY <1>9, <2>1 DEF AwaitFacts
<1>14. /\ IsFiniteSet(w.ids) /\ Cardinality(w.ids) \in Nat
       /\ Cardinality(w.ids) <= AwaitBatchCap
       /\ w.fully_drained => /\ w.next_offset = Len(file[m])
                             /\ Cardinality(w.ids) < AwaitBatchCap
    BY <1>9, FS_CardinalityType DEF AwaitFacts
<1>15. CASE w.fully_drained
  <2>1. b.ids = w.ids \cup {t.id} /\ b.next_offset = Len(file[m]) + 1
      BY <1>6, <1>14, <1>15
  <2>2. Fits(b.ids)
    <3>0. PICK x : x = t.id
        OBVIOUS
    <3>1. /\ IsFiniteSet(w.ids \cup {x})
          /\ Cardinality(w.ids \cup {x}) =
                IF x \in w.ids THEN Cardinality(w.ids) ELSE Cardinality(w.ids) + 1
        BY <1>14, FS_AddElement
    <3>2. b.ids = w.ids \cup {x}
        BY <2>1, <3>0
    <3> QED
        BY SMTT(60), <1>14, <1>15, <3>1, <3>2, CapAssumption DEF Fits
  <2>3. \A i \in since + 1 .. b.next_offset : ForAwait(o, m, Q[i]) => Q[i].id \in b.ids
    <3> SUFFICES ASSUME NEW i \in since + 1 .. Len(file[m]) + 1, ForAwait(o, m, Q[i])
                 PROVE  Q[i].id \in b.ids
        BY <2>1
    <3>1. CASE i = Len(file[m]) + 1
        BY <1>10, <2>1, <3>1
    <3>2. CASE i # Len(file[m]) + 1
      <4>0. since = from /\ w.next_offset = Len(file[m])
          BY SMTT(60), <1>7, <1>11, <1>14, <1>15, <3>2
      <4>1. i \in from + 1 .. w.next_offset
          BY SMTT(60), <1>7, <3>2, <4>0
      <4> QED
          BY <1>13, <2>1, <4>1
    <3> QED
        BY <3>1, <3>2
  <2>4. \A x \in b.ids : \E i \in 1 .. b.next_offset : ForAwait(o, m, Q[i]) /\ Q[i].id = x
    <3>1. \A i \in 1 .. w.next_offset : i \in 1 .. b.next_offset
        BY SMTT(60), <1>7, <1>14, <1>15, <2>1
    <3>2. b.next_offset \in 1 .. b.next_offset /\ Q[b.next_offset] = t
        BY SMTT(60), <1>7, <1>10, <2>1
    <3> QED
        BY <1>13, <2>1, <3>1, <3>2
  <2>5. b.next_offset \in since .. Len(Q)
      BY SMTT(60), <1>7, <1>10, <1>11, <2>1
  <2> QED
      BY <1>7, <2>2, <2>3, <2>4, <2>5
<1>16. CASE ~w.fully_drained
  <2>1. b.ids = w.ids /\ b.next_offset = w.next_offset /\ since = from
      BY SMTT(60), <1>6, <1>11, <1>12, <1>16
  <2>2. b.next_offset \in since .. Len(Q)
      BY SMTT(60), <1>7, <1>10, <1>12, <2>1
  <2>3. Fits(b.ids)
      BY SMTT(60), <1>14, <2>1, CapAssumption DEF Fits
  <2> QED
      BY <1>7, <1>13, <2>1, <2>2, <2>3
<1> QED
    BY <1>15, <1>16

-----------------------------------------------------------------------------
(* What each handler does to the entries of the clients.                   *)

LEMMA AwaitEffect ==
    ASSUME TypeOK, NEW o \in Conn, NEW offs,
           st' = [st EXCEPT ![o].await_offsets = offs]
    PROVE  /\ \A c \in Conn \ {o} : st'[c] = st[c]
           /\ st'[o].name = st[o].name /\ st'[o].bind_as = st[o].bind_as
           /\ st'[o].joined = st[o].joined
           /\ st'[o].inbox_offsets = st[o].inbox_offsets
           /\ st'[o].await_offsets = offs
BY DEF TypeOK, ClientState

LEMMA InboxEffect ==
    ASSUME TypeOK, NEW o \in Conn, NEW offs,
           st' = [st EXCEPT ![o].inbox_offsets = offs]
    PROVE  /\ \A c \in Conn \ {o} : st'[c] = st[c]
           /\ st'[o].name = st[o].name /\ st'[o].bind_as = st[o].bind_as
           /\ st'[o].joined = st[o].joined
           /\ st'[o].inbox_offsets = offs
           /\ st'[o].await_offsets = st[o].await_offsets
BY DEF TypeOK, ClientState

LEMMA WakeEffect ==
    ASSUME TypeOK, NEW o \in Conn, NEW m \in Mailbox, NEW off,
           st' = [st EXCEPT ![o].await_offsets[m] = off]
    PROVE  /\ \A c \in Conn \ {o} : st'[c] = st[c]
           /\ st'[o].name = st[o].name /\ st'[o].bind_as = st[o].bind_as
           /\ st'[o].joined = st[o].joined
           /\ st'[o].inbox_offsets = st[o].inbox_offsets
           /\ st'[o].await_offsets[m] = off
           /\ \A k \in Mailbox \ {m} : st'[o].await_offsets[k] = st[o].await_offsets[k]
BY DEF TypeOK, ClientState

LEMMA FlagEffect ==
    ASSUME TypeOK, NEW c \in Conn, NEW l,
           \/ st' = [st EXCEPT ![c].listen_mode = l]
           \/ st' = [st EXCEPT ![c].wake_addr = l]
    PROVE  /\ \A d \in Conn \ {c} : st'[d] = st[d]
           /\ st'[c].name = st[c].name /\ st'[c].bind_as = st[c].bind_as
           /\ st'[c].joined = st[c].joined
           /\ st'[c].inbox_offsets = st[c].inbox_offsets
           /\ st'[c].await_offsets = st[c].await_offsets
<1>1. CASE st' = [st EXCEPT ![c].listen_mode = l]
    BY SMTT(60), <1>1 DEF TypeOK, ClientState
<1>2. CASE st' = [st EXCEPT ![c].wake_addr = l]
    BY SMTT(60), <1>2 DEF TypeOK, ClientState
<1> QED
    BY <1>1, <1>2

LEMMA RegisterEffect ==
    ASSUME TypeOK, NEW c \in Conn, NEW n \in Name, NEW origin, NEW l, NEW off,
           st' = [st EXCEPT ![c].name = n, ![c].origin = origin,
                            ![c].listen_mode = l, ![c].await_offsets[n] = off]
    PROVE  /\ \A d \in Conn \ {c} : st'[d] = st[d]
           /\ st'[c].name = n /\ st'[c].bind_as = st[c].bind_as
           /\ st'[c].joined = st[c].joined
           /\ st'[c].inbox_offsets = st[c].inbox_offsets
           /\ st'[c].await_offsets[n] = off
           /\ \A k \in Mailbox \ {n} : st'[c].await_offsets[k] = st[c].await_offsets[k]
BY SMTT(60) DEF TypeOK, ClientState, Mailbox

(* A holder works with its own cursors, and so do its proxies.             *)
LEMMA OwnerHolds ==
    ASSUME TypeOK, OneHolder, NEW c \in Conn, Resolves(c)
    PROVE  /\ Owner(c) \in Holder /\ Owner(c) \in Conn
           /\ st[Owner(c)].name = effective_identity(c)
           /\ \A o \in Holder : st[o].name = effective_identity(c) => o = Owner(c)
           /\ st[c].name # None => Owner(c) = c
<1>1. effective_identity(c) \in Name /\ effective_identity(c) # None
    BY IdentityType, NamesAreSome
<1>2. Holders(effective_identity(c)) # {}
    BY DEF Resolves, proxy_holder_alive, effective_identity, Holders
<1>3. Owner(c) \in Holders(effective_identity(c))
    BY <1>2 DEF Owner, canonical_holder_id
<1>4. Owner(c) \in clients /\ st[Owner(c)].name = effective_identity(c)
    BY <1>3 DEF Holders
<1> QED
    BY <1>1, <1>4 DEF Holder, OneHolder, TypeOK, effective_identity, Resolves

-----------------------------------------------------------------------------
(* Members and holders.                                                    *)

(* Who joined holds a name, and the member lists name those who joined.    *)
Rosters ==
    /\ \A ch \in Channel, n \in Name :
          n \in channels[ch] <=> \E o \in Holder : st[o].name = n /\ ch \in st[o].joined
    /\ \A c \in Conn : st[c].joined # {} => c \in Holder

LEMMA KeepsRosters ==
    ASSUME TypeOK, Rosters, channels' = channels, Holder' = Holder,
           \A c \in Conn : st'[c].name = st[c].name /\ st'[c].joined = st[c].joined
    PROVE  Rosters'
<1>1. Holder \subseteq Conn
    BY DEF Holder, TypeOK
<1> QED
    BY SMTT(60), <1>1 DEF Rosters

LEMMA SameHolders ==
    ASSUME clients' = clients, \A c \in clients : st'[c].name = st[c].name
    PROVE  Holder' = Holder
BY DEF Holder

LEMMA IdleRosters ==
    ASSUME Rosters, UNCHANGED vars
    PROVE  Rosters'
<1>1. clients' = clients /\ st' = st /\ channels' = channels
    BY DEF vars, actorVars
<1>2. Holder' = Holder
    BY <1>1 DEF Holder
<1> QED
    BY SMTT(60), <1>1, <1>2 DEF Rosters

LEMMA HelloRosters ==
    ASSUME TypeOK, NoOrphans, Rosters, NEW c \in Conn, NEW bound \in Name \cup {None},
           Hello(c, bound)
    PROVE  Rosters'
<1>1. CASE Refuse
    BY <1>1, IdleRosters DEF Refuse
<1>2. CASE /\ c \notin clients /\ clients' = clients \cup {c}
           /\ st' = [st EXCEPT ![c] = Fresh(bound)] /\ channels' = channels
  <2>1. st[c].name = None /\ st[c].joined = {}
      BY SMTT(60), <1>2 DEF NoOrphans, Fresh
  <2>2. /\ st'[c].name = None /\ st'[c].joined = {}
        /\ \A d \in Conn \ {c} : st'[d] = st[d]
      BY <1>2 DEF TypeOK, Fresh
  <2>3. Holder' = Holder
      BY <1>2, <2>2 DEF Holder, TypeOK
  <2> QED
      BY <1>2, <2>1, <2>2, <2>3, KeepsRosters
<1> QED
    BY <1>1, <1>2 DEF Hello

(* A name that is registered anew was nobody's, so no channel lists it.    *)
LEMMA RegisterRosters ==
    ASSUME TypeOK, Rosters, NEW c \in clients, NEW n \in Name,
           NEW origin, NEW l, st[c].name \in {None, n}, register(c, n, origin, l)
    PROVE  Rosters'
<1>1. CASE Refuse
    BY <1>1, IdleRosters DEF Refuse
<1>2. CASE /\ ~name_taken(c, n) /\ clients' = clients /\ channels' = channels
           /\ st' = [st EXCEPT ![c].name = n, ![c].origin = origin,
                               ![c].listen_mode = l,
                               ![c].await_offsets[n] = DrainEnd(n, 0)]
  <2>1. c \in Conn /\ clients \subseteq Conn
      BY DEF TypeOK
  <2>2. PICK off : off = DrainEnd(n, 0)
      OBVIOUS
  <2>3. /\ \A d \in Conn \ {c} : st'[d] = st[d]
        /\ st'[c].name = n /\ st'[c].joined = st[c].joined
      BY <1>2, <2>1, <2>2, RegisterEffect
  <2>4. n # None
      BY NamesAreSome
  <2>5. CASE st[c].name = n
    <3>1. Holder' = Holder
        BY <1>2, <2>1, <2>3, <2>5, SameHolders
    <3> QED
        BY <1>2, <2>1, <2>3, <2>5, <3>1, KeepsRosters
  <2>6. CASE st[c].name = None
    <3>1. c \notin Holder /\ st[c].joined = {}
        BY <2>1, <2>6 DEF Holder, Rosters
    <3>2. \A o \in Holder : o # c /\ st[o].name # n
        BY <1>2, <3>1 DEF name_taken, Holder
    <3>3. Holder' = Holder \cup {c}
        BY <1>2, <2>1, <2>3, <2>4 DEF Holder
    <3>4. Holder \subseteq Conn
        BY <2>1 DEF Holder
    <3>5. \A o \in Holder : st'[o] = st[o]
        BY <2>3, <3>2, <3>4
    <3>6. \A ch \in Channel, k \in Name :
             k \in channels[ch] <=> \E o \in Holder : st'[o].name = k /\ ch \in st'[o].joined
        BY SMTT(60), <3>5 DEF Rosters
    <3>c. channels' = channels
        BY <1>2
    <3>7. \A ch \in Channel, k \in Name :
             k \in channels'[ch] <=> \E o \in Holder' : st'[o].name = k /\ ch \in st'[o].joined
        BY SMTT(60), <2>3, <3>1, <3>3, <3>6, <3>c
    <3>8. \A d \in Conn : st'[d].joined # {} => d \in Holder'
        BY <2>3, <3>3 DEF Rosters
    <3> QED
        BY <3>7, <3>8 DEF Rosters
  <2> QED
      BY <2>5, <2>6
<1> QED
    BY <1>1, <1>2 DEF register

LEMMA JoinRosters ==
    ASSUME TypeOK, OneHolder, Rosters, NEW c \in clients, NEW ch \in Channel,
           NEW role, join(c, ch, role)
    PROVE  Rosters'
<1>1. CASE Refuse
    BY <1>1, IdleRosters DEF Refuse
<1>2. CASE ~Refuse
  <2>1. PICK o : o = Owner(c)
      OBVIOUS
  <2>2. /\ Resolves(c) /\ clients' = clients
        /\ channels' = [channels EXCEPT ![ch] = @ \cup {effective_identity(c)}]
        /\ st' = [st EXCEPT ![o].joined = st[o].joined \cup {ch},
                            ![o].await_offsets[ch] = DrainEnd(ch, 0),
                            ![o].inbox_offsets[ch] = DrainEnd(ch, 0)]
      BY <1>2, <2>1 DEF join
  <2>3. /\ o \in Holder /\ o \in Conn /\ st[o].name = effective_identity(c)
        /\ \A d \in Holder : st[d].name = effective_identity(c) => d = o
      BY <2>1, <2>2, OwnerHolds DEF TypeOK
  <2>4. PICK J, off : J = st[o].joined \cup {ch} /\ off = DrainEnd(ch, 0)
      OBVIOUS
  <2>5. /\ \A d \in Conn \ {o} : st'[d] = st[d]
        /\ st'[o].name = st[o].name /\ st'[o].joined = J
    <3>1. st' = [st EXCEPT ![o].joined = J, ![o].await_offsets[ch] = off,
                           ![o].inbox_offsets[ch] = off]
        BY <2>2, <2>4
    <3> QED
        BY SMTT(60), <2>3, <3>1 DEF TypeOK, ClientState, Mailbox
  <2>6. Holder' = Holder /\ Holder \subseteq Conn
      BY <2>2, <2>3, <2>5, SameHolders DEF TypeOK, Holder
  <2>7. \A k \in Channel : channels'[k] = IF k = ch THEN channels[k] \cup {st[o].name}
                                                    ELSE channels[k]
      BY <2>2, <2>3 DEF TypeOK
  <2>8. ASSUME NEW k \in Channel, NEW n \in Name
        PROVE  n \in channels'[k] <=> \E d \in Holder : st'[d].name = n /\ k \in st'[d].joined
    <3>1. n \in channels[k] <=> \E d \in Holder : st[d].name = n /\ k \in st[d].joined
        BY SMTT(60) DEF Rosters
    <3>2. n \in channels'[k] <=> n \in channels[k] \/ (k = ch /\ n = st[o].name)
        BY <2>7
    <3>3. \A d \in Holder : /\ st'[d].name = st[d].name
                            /\ k \in st'[d].joined <=> k \in st[d].joined \/ (d = o /\ k = ch)
        BY <2>4, <2>5, <2>6
    <3> QED
        BY <2>3, <3>1, <3>2, <3>3
  <2> QED
      BY SMTT(60), <2>3, <2>5, <2>6, <2>8 DEF Rosters
<1> QED
    BY <1>1, <1>2

LEMMA LeaveRosters ==
    ASSUME TypeOK, OneHolder, Rosters, NEW c \in clients, NEW ch \in Channel,
           leave(c, ch)
    PROVE  Rosters'
<1>1. CASE Refuse
    BY <1>1, IdleRosters DEF Refuse
<1>2. CASE ~Refuse
  <2>1. PICK o : o = Owner(c)
      OBVIOUS
  <2>2. /\ Resolves(c) /\ clients' = clients
        /\ channels' = [channels EXCEPT ![ch] = @ \ {effective_identity(c)}]
        /\ st' = [st EXCEPT ![o].joined = st[o].joined \ {ch},
                            ![o].await_offsets[ch] = 0,
                            ![o].inbox_offsets[ch] = 0]
      BY <1>2, <2>1 DEF leave
  <2>3. /\ o \in Holder /\ o \in Conn /\ st[o].name = effective_identity(c)
        /\ \A d \in Holder : st[d].name = effective_identity(c) => d = o
      BY <2>1, <2>2, OwnerHolds DEF TypeOK
  <2>4. PICK J, off : J = st[o].joined \ {ch} /\ off = 0
      OBVIOUS
  <2>5. /\ \A d \in Conn \ {o} : st'[d] = st[d]
        /\ st'[o].name = st[o].name /\ st'[o].joined = J
    <3>1. st' = [st EXCEPT ![o].joined = J, ![o].await_offsets[ch] = off,
                           ![o].inbox_offsets[ch] = off]
        BY <2>2, <2>4
    <3> QED
        BY SMTT(60), <2>3, <3>1 DEF TypeOK, ClientState, Mailbox
  <2>6. Holder' = Holder /\ Holder \subseteq Conn
      BY <2>2, <2>3, <2>5, SameHolders DEF TypeOK, Holder
  <2>7. \A k \in Channel : channels'[k] = IF k = ch THEN channels[k] \ {st[o].name}
                                                    ELSE channels[k]
      BY <2>2, <2>3 DEF TypeOK
  <2>8. ASSUME NEW k \in Channel, NEW n \in Name
        PROVE  n \in channels'[k] <=> \E d \in Holder : st'[d].name = n /\ k \in st'[d].joined
    <3>1. n \in channels[k] <=> \E d \in Holder : st[d].name = n /\ k \in st[d].joined
        BY SMTT(60) DEF Rosters
    <3>2. n \in channels'[k] <=> n \in channels[k] /\ ~(k = ch /\ n = st[o].name)
        BY <2>7
    <3>3. \A d \in Holder : /\ st'[d].name = st[d].name
                            /\ k \in st'[d].joined <=> k \in st[d].joined /\ ~(d = o /\ k = ch)
        BY <2>4, <2>5, <2>6
    <3> QED
        BY <2>3, <3>1, <3>2, <3>3
  <2>9. \A d \in Conn : st'[d].joined # {} => st[d].joined # {}
      BY <2>4, <2>5
  <2> QED
      BY SMTT(60), <2>6, <2>8, <2>9 DEF Rosters
<1> QED
    BY <1>1, <1>2

LEMMA DisconnectRosters ==
    ASSUME TypeOK, OneHolder, Rosters, NEW S \in SUBSET clients, disconnect(S)
    PROVE  Rosters'
<1>1. /\ clients' = clients \ S /\ S \subseteq Conn
      /\ \A c \in Conn : st'[c] = IF c \in S THEN Fresh(None) ELSE st[c]
      /\ \A ch \in Channel : channels'[ch] = channels[ch] \ {st[c].name : c \in S}
    BY DEF disconnect, TypeOK
<1>2. Fresh(None).joined = {}
    BY DEF Fresh
<1>3. Holder \subseteq Conn
    BY DEF Holder, TypeOK
<1>4. Holder' = Holder \ S /\ \A o \in Holder \ S : st'[o] = st[o]
    BY <1>1, <1>3 DEF Holder, TypeOK
<1>5. ASSUME NEW ch \in Channel, NEW n \in Name
      PROVE  n \in channels'[ch] <=> \E o \in Holder' : st'[o].name = n /\ ch \in st'[o].joined
  <2>1. n \in channels[ch] <=> \E o \in Holder : st[o].name = n /\ ch \in st[o].joined
      BY SMTT(60) DEF Rosters
  <2>2. n \in channels'[ch] <=> n \in channels[ch] /\ ~\E c \in S : st[c].name = n
      BY SMTT(60), <1>1
  <2>3. \A c \in S, o \in Holder : st[c].name = st[o].name => c = o
      BY DEF OneHolder, Holder
  <2> QED
      BY <1>4, <2>1, <2>2, <2>3
<1>6. \A c \in Conn : st'[c].joined # {} => c \in Holder'
    BY <1>1, <1>2, <1>4 DEF Rosters
<1> QED
    BY <1>5, <1>6 DEF Rosters

(* The steps that touch neither a name nor a membership.                   *)
SameMembers ==
    /\ clients' = clients /\ channels' = channels
    /\ \A c \in Conn : /\ st'[c].name = st[c].name
                       /\ st'[c].bind_as = st[c].bind_as
                       /\ st'[c].joined = st[c].joined

LEMMA SameRosters ==
    ASSUME TypeOK, Rosters, SameMembers
    PROVE  Rosters'
<1>1. Holder' = Holder
    BY SameHolders DEF SameMembers, TypeOK
<1> QED
    BY <1>1, KeepsRosters DEF SameMembers

LEMMA WireMembers ==
    ASSUME TypeOK, NEW c \in clients,
           \/ \E l \in Flags : set_listen(c, l) \/ set_wake_addr(c, l)
           \/ \E m \in Mailbox, t \in Task : send(c, m, t)
           \/ \E since \in 0 .. MaxMsg : inbox(c, since)
           \/ \E f \in Filter : await_envelope(c, f)
    PROVE  SameMembers
<1>0. c \in Conn /\ Owner(c) \in Conn
    BY OwnerIsClient DEF TypeOK
<1>1. CASE UNCHANGED <<clients, st, channels>>
    BY <1>1 DEF SameMembers
<1>2. CASE /\ clients' = clients /\ channels' = channels
           /\ \E l : \/ st' = [st EXCEPT ![c].listen_mode = l]
                     \/ st' = [st EXCEPT ![c].wake_addr = l]
    BY <1>0, <1>2, FlagEffect DEF SameMembers
<1>3. CASE /\ clients' = clients /\ channels' = channels
           /\ \E offs : st' = [st EXCEPT ![Owner(c)].inbox_offsets = offs]
    BY <1>0, <1>3, InboxEffect DEF SameMembers
<1>4. CASE /\ clients' = clients /\ channels' = channels
           /\ \E offs : st' = [st EXCEPT ![Owner(c)].await_offsets = offs]
    BY <1>0, <1>4, AwaitEffect DEF SameMembers
<1>5. CASE Refuse
    BY <1>1, <1>5 DEF Refuse, vars, actorVars
<1>6. CASE \E l \in Flags : set_listen(c, l) \/ set_wake_addr(c, l)
    BY <1>2, <1>5, <1>6 DEF set_listen, set_wake_addr
<1>7. CASE \E m \in Mailbox, t \in Task : send(c, m, t)
    BY <1>1, <1>5, <1>7 DEF send, send_agent, send_channel, Sending, actorVars
<1>8. CASE \E since \in 0 .. MaxMsg : inbox(c, since)
    BY <1>3, <1>5, <1>8 DEF inbox
<1>9. CASE \E f \in Filter : await_envelope(c, f)
    BY <1>4, <1>5, <1>9 DEF await_envelope
<1> QED
    BY <1>6, <1>7, <1>8, <1>9

LEMMA WorkMembers ==
    ASSUME TypeOK, NoOrphans,
           \/ Work
           \/ \E c \in Conn : Deadline(c) \/ Die(c)
           \/ \E m \in Mailbox : Truncate(m)
    PROVE  SameMembers
<1>1. CASE WakeOne
  <2>1. job \in SendJob
      BY <1>1 DEF WakeOne, TypeOK, TickJob
  <2>2. job.mbox \in Mailbox /\ \A w \in job.todo : Owner(w) \in Conn
      BY <2>1, OwnerType DEF SendJob
  <2>3. /\ clients' = clients /\ channels' = channels
        /\ \/ UNCHANGED st
           \/ \E w \in job.todo : \E off :
                st' = [st EXCEPT ![Owner(w)].await_offsets[job.mbox] = off]
      BY <1>1 DEF WakeOne
  <2>4. CASE UNCHANGED st
      BY <2>3, <2>4 DEF SameMembers
  <2>5. ASSUME NEW o \in Conn, NEW m \in Mailbox, NEW off,
               st' = [st EXCEPT ![o].await_offsets[m] = off]
        PROVE  SameMembers
      BY <2>3, <2>5, WakeEffect DEF SameMembers
  <2> QED
      BY <2>2, <2>3, <2>4, <2>5
<1>2. CASE UNCHANGED <<clients, st, channels>>
    BY <1>2 DEF SameMembers
<1> QED
    BY <1>1, <1>2 DEF Work, NextMember, SendDone, ExpireOne, execute_outs,
                             Deadline, Die, Truncate, actorVars

LEMMA AlwaysRosters ==
    ASSUME ~Rebind
    PROVE  Spec => []Rosters
<1>1. Init => Rosters
  <2> SUFFICES ASSUME Init PROVE Rosters
      OBVIOUS
  <2>1. Fresh(None).joined = {}
      BY DEF Fresh
  <2> QED
      BY <2>1 DEF Init, Rosters, Holder
<1>2. TypeOK /\ SessionsHold /\ Rosters /\ [Next]_vars => Rosters'
  <2> SUFFICES ASSUME TypeOK, SessionsHold, Rosters, [Next]_vars PROVE Rosters'
      OBVIOUS
  <2>0. OneHolder /\ NoOrphans
      BY DEF SessionsHold
  <2>1. CASE UNCHANGED vars
      BY <2>1, IdleRosters
  <2>2. ASSUME NEW c \in Conn, Wire(c)
        PROVE  Rosters'
    <3>1. CASE \E bound \in Name \cup {None} : Hello(c, bound)
        BY <2>0, <3>1, HelloRosters
    <3>2. CASE Refuse
        BY <2>1, <3>2 DEF Refuse
    <3>3. CASE c \in clients /\ \E n \in Name, o \in Origins, l \in Flags :
                 st[c].name \in {None, n} /\ register(c, n, o, l)
        BY SMTT(60), <3>3, RegisterRosters
    <3>4. CASE c \in clients /\ \E ch \in Channel :
                 (\E role \in Flags : join(c, ch, role)) \/ leave(c, ch)
        BY <2>0, <3>4, JoinRosters, LeaveRosters
    <3>5. CASE /\ c \in clients
               /\ \/ \E l \in Flags : set_listen(c, l) \/ set_wake_addr(c, l)
                  \/ \E m \in Mailbox, t \in Task : send(c, m, t)
                  \/ \E since \in 0 .. MaxMsg : inbox(c, since)
                  \/ \E f \in Filter : await_envelope(c, f)
        BY <3>5, WireMembers, SameRosters
    <3> QED
        BY <2>2, <3>1, <3>2, <3>3, <3>4, <3>5 DEF Wire, handle_wire
  <2>3. CASE \E c \in Conn : Disconnect(c)
      BY <2>0, <2>3, DisconnectRosters DEF Disconnect
  <2>4. CASE tick
    <3>1. PICK S \in SUBSET clients : disconnect(S)
        BY <2>4 DEF tick
    <3> QED
        BY <2>0, <3>1, DisconnectRosters
  <2>5. CASE \/ Work
             \/ \E c \in Conn : Deadline(c) \/ Die(c)
             \/ \E m \in Mailbox : Truncate(m)
      BY <2>0, <2>5, WorkMembers, SameRosters
  <2>6. CASE Crash
    <3>1. clients' = {} /\ \A c \in Conn : st'[c].joined = {}
        BY <2>6 DEF Crash, Fresh
    <3>2. \A ch \in Channel : channels'[ch] = {}
        BY <2>6 DEF Crash
    <3> QED
        BY <3>1, <3>2 DEF Rosters, Holder
  <2> QED
      BY <2>1, <2>2, <2>3, <2>4, <2>5, <2>6 DEF Next
<1> QED
    BY <1>1, <1>2, TypeCorrect, Sessions, PTL DEF Spec

(* Members are those who joined: however joins, leaves, registrations,     *)
(* disconnects, reaps and crashes interleave, the list that send_channel   *)
(* wakes from is the set of holders that read the channel.  A client that  *)
(* takes a second name leaves its first one in the lists, so the theorem   *)
(* is about clients that do not.                                           *)
THEOREM MembersJoined ==
    ASSUME ~Rebind
    PROVE  Spec => []MembersAreJoined
<1>1. Rosters => MembersAreJoined
    BY SMTT(60), NamesAreSome DEF Rosters, MembersAreJoined, Holders, Holder
<1> QED
    BY <1>1, AlwaysRosters, PTL

=============================================================================
