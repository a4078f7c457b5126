---------------------------- MODULE BrokerReplay ----------------------------
(***************************************************************************)
(* Proofs about the broker's channels, for every configuration: what an    *)
(* await or an inbox poll gives was not given before, and no poll passes   *)
(* anything over (ChannelsDeliver).                                        *)
(***************************************************************************)
EXTENDS BrokerChannels

(* Zenon proves a leaf unless the leaf asks for arithmetic (SMTT).         *)
USE ZenonT(60)

-----------------------------------------------------------------------------
(* Nothing is given twice.                                                 *)

(* What is given anew, D2 \ D, is not in mailbox m before e.               *)
NewBehind(m, e, D, D2) ==
    \A x \in D2 \ D : \E k \in Mailbox : \E j \in DOMAIN Mail(k) :
        Mail(k)[j].ok /\ Mail(k)[j].id = x /\ (k = m => ~(j > e))

(* So what is before a cursor was not given: an envelope that comes has a  *)
(* number nobody was given.                                                *)
LEMMA StaysFresh ==
    ASSUME TypeOK, MailIds', MailGrows,
           SameMail \/ \E k \in Mailbox : \E r : Sent(k, r),
           NEW m \in Mailbox, NEW i \in DOMAIN Mail(m)', Mail(m)'[i].ok,
           NEW e, NEW D, NEW D2, D \subseteq 1 .. nmsg,
           NewBehind(m, e, D, D2)', i > e,
           i \in DOMAIN Mail(m) => Mail(m)[i].id \notin D
    PROVE  Mail(m)'[i].id \notin D2
<1>1. Mail(m)'[i].id \notin D2 \ D
    BY SMTT(60) DEF MailIds, NewBehind
<1>2. CASE i \in DOMAIN Mail(m)
    BY <1>1, <1>2 DEF MailGrows
<1>3. CASE i \notin DOMAIN Mail(m)
  <2>1. PICK r : Sent(m, r)
      BY <1>3 DEF SameMail, Sent
  <2>2. Mail(m) \in Seq(Record) /\ nmsg \in Nat
    <3>1. Mail(m) \in Seq(Record)
        BY MailType
    <3> QED
        BY <3>1 DEF TypeOK
  <2>3. Mail(m)'[i] = r /\ r.id = nmsg + 1
      BY SMTT(60), <1>3, <2>1, <2>2 DEF Sent
  <2>4. r.id \notin D
      BY SMTT(60), <2>2, <2>3
  <2> QED
      BY <1>1, <2>3, <2>4
<1> QED
    BY <1>2, <1>3

LEMMA NumbersGrow ==
    ASSUME TypeOK, SameMail \/ \E k \in Mailbox : \E r : Sent(k, r)
    PROVE  1 .. nmsg \subseteq 1 .. nmsg'
<1>1. nmsg \in Nat /\ (nmsg' = nmsg \/ nmsg' = nmsg + 1)
    BY DEF TypeOK, SameMail, Sent
<1> QED
    BY SMTT(60), <1>1

(* What is before a cursor was not given.                                  *)
FreshInv ==
    /\ \A c \in Conn : delivered[c] \subseteq 1 .. nmsg
    /\ \A o \in Holder : \A m \in Boxes(o) : \A i \in DOMAIN Mail(m) :
          i > st[o].await_offsets[m] /\ Mail(m)[i].ok => Mail(m)[i].id \notin delivered[o]

LEMMA FreshStep ==
    ASSUME Settled, Sound, TypeOK', CursorInv, MailIds', FreshInv, Next, ~Crash
    PROVE  FreshInv'
<1>0. TypeOK
    BY DEF Sound
<1>1. /\ Advance /\ StrangersKeep
      /\ SameMail \/ \E k \in Mailbox : \E r : Sent(k, r)
    BY StepAdvance, StepMail, StrangersStep
<1>2. MailGrows /\ 1 .. nmsg \subseteq 1 .. nmsg'
    BY <1>0, <1>1, StepGrows, NumbersGrow
<1>3. ASSUME NEW o \in Holder'
      PROVE  /\ o \in Conn /\ Boxes(o)' \subseteq Mailbox
             /\ \A m \in Mailbox : st[o].await_offsets[m] \in Nat /\ st'[o].await_offsets[m] \in Nat
    BY SMTT(60), <1>0 DEF Holder, TypeOK, Boxes, ClientState, Mailbox
<1>4. ASSUME NEW o \in Holder', NEW x \in delivered'[o] \ delivered[o]
      PROVE  \E k \in Mailbox : \E j \in DOMAIN Mail(k)' :
                /\ Mail(k)'[j].ok /\ Mail(k)'[j].id = x
                /\ ~(j > st'[o].await_offsets[k])
  <2>1. PICK k \in Boxes(o)' : \E j \in 1 .. st'[o].await_offsets[k] :
           Mail(k)'[j].ok /\ Mail(k)'[j].id = x
      BY <1>1 DEF Advance, Behind
  <2>2. PICK j \in 1 .. st'[o].await_offsets[k] : Mail(k)'[j].ok /\ Mail(k)'[j].id = x
      BY <2>1
  <2>3. k \in Mailbox /\ st'[o].await_offsets[k] \in Nat
      BY <1>3
  <2>4. st'[o].await_offsets[k] <= Len(Mail(k)') /\ Mail(k)' \in Seq(Record)
      BY <1>1, <1>2, <2>3 DEF Advance, Moved, MailGrows
  <2>5. j \in DOMAIN Mail(k)' /\ ~(j > st'[o].await_offsets[k])
      BY SMTT(60), <2>3, <2>4
  <2> QED
      BY <2>2, <2>3, <2>5
<1>5. ASSUME NEW c \in Conn
      PROVE  delivered'[c] \subseteq 1 .. nmsg'
  <2>1. delivered[c] \subseteq 1 .. nmsg'
      BY <1>2 DEF FreshInv
  <2>2. CASE c \in Holder'
    <3>1. \A x \in delivered'[c] \ delivered[c] : x \in 1 .. nmsg'
        BY SMTT(60), <1>4, <2>2 DEF MailIds
    <3> QED
        BY <2>1, <3>1
  <2>3. CASE c \notin Holder'
      BY <1>1, <2>1, <2>3 DEF StrangersKeep
  <2> QED
      BY <2>2, <2>3
<1>6. ASSUME NEW o \in Holder', NEW m \in Boxes(o)', NEW i \in DOMAIN Mail(m)',
             i > st'[o].await_offsets[m], Mail(m)'[i].ok
      PROVE  Mail(m)'[i].id \notin delivered'[o]
  <2>1. o \in Conn /\ m \in Mailbox
      BY <1>3
  <2>2. /\ st[o].await_offsets[m] \in Nat /\ st'[o].await_offsets[m] \in Nat
        /\ Mail(m)' \in Seq(Record)
      BY <1>2, <1>3, <2>1 DEF MailGrows
  <2>3. /\ o \in Holder /\ m \in Boxes(o)
        /\ st[o].await_offsets[m] <= st'[o].await_offsets[m]
    <3>1. Moved(o, m)
        BY <1>1 DEF Advance
    <3>2. st'[o].await_offsets[m] # Len(Mail(m)')
        BY SMTT(60), <1>6, <2>2
    <3> QED
        BY <3>1, <3>2 DEF Moved
  <2>4. i \in DOMAIN Mail(m) => Mail(m)[i].id \notin delivered[o]
    <3> SUFFICES ASSUME i \in DOMAIN Mail(m) PROVE Mail(m)[i].id \notin delivered[o]
        OBVIOUS
    <3>1. i > st[o].await_offsets[m]
        BY SMTT(60), <1>6, <2>2, <2>3
    <3>2. Mail(m)'[i] = Mail(m)[i]
        BY <1>2, <2>1 DEF MailGrows
    <3> QED
        BY <1>6, <2>3, <3>1, <3>2 DEF FreshInv
  <2>5. delivered[o] \subseteq 1 .. nmsg
      BY <2>1 DEF FreshInv
  <2>6. \A x \in delivered'[o] \ delivered[o] : \E k \in Mailbox : \E j \in DOMAIN Mail(k)' :
           /\ Mail(k)'[j].ok /\ Mail(k)'[j].id = x
           /\ k = m => ~(j > st'[o].await_offsets[m])
      BY SMTT(60), <1>4
  <2>7. PICK e, D, D2 : e = st'[o].await_offsets[m] /\ D = delivered[o] /\ D2 = delivered'[o]
      OBVIOUS
  <2>8. /\ D \subseteq 1 .. nmsg /\ i > e /\ (i \in DOMAIN Mail(m) => Mail(m)[i].id \notin D)
        /\ NewBehind(m, e, D, D2)'
      BY <1>6, <2>4, <2>5, <2>6, <2>7 DEF NewBehind
  <2>9. Mail(m)'[i].id \notin D2
      BY <1>0, <1>1, <1>2, <1>6, <2>1, <2>8, StaysFresh
  <2> QED
      BY <2>7, <2>9
<1> QED
    BY <1>5, <1>6 DEF FreshInv

LEMMA AlwaysFresh ==
    ASSUME Settled, Blank
    PROVE  Spec => []FreshInv
<1>1. Init => FreshInv
    BY DEF Init, FreshInv, Holder
<1>2. Sound /\ Sound' /\ CursorInv /\ MailIds' /\ FreshInv /\ [Next]_vars => FreshInv'
  <2> SUFFICES ASSUME Sound, Sound', CursorInv, MailIds', FreshInv, [Next]_vars
               PROVE  FreshInv'
      OBVIOUS
  <2>0. TypeOK'
      BY DEF Sound
  <2>1. CASE Next /\ ~Crash
      BY <2>0, <2>1, FreshStep
  <2>2. CASE Crash
      BY <2>2 DEF Crash, FreshInv, Holder
  <2>3. CASE UNCHANGED vars
    <3>1. /\ Holder' = Holder /\ UNCHANGED <<st, delivered, nmsg>>
          /\ \A m : Mail(m)' = Mail(m)
        BY <2>3, SameFront DEF vars, actorVars, diskVars, envVars, history, Holder
    <3>2. \A o : Boxes(o)' = Boxes(o)
        BY <3>1 DEF Boxes
    <3> QED
        BY <3>1, <3>2 DEF FreshInv
  <2> QED
      BY <2>1, <2>2, <2>3
<1>3. (Spec => []Sound) /\ (Spec => []CursorInv) /\ (Spec => []MailIds)
    BY AlwaysSound, AlwaysCursor, AlwaysIds
<1> QED
    BY <1>1, <1>2, <1>3, PTL DEF Spec

-----------------------------------------------------------------------------
(* The inbox cursors.                                                      *)

(* A holder polls its channels: what is behind a cursor was given, unless  *)
(* the holder wrote it, and what is before it was not.                     *)
PollInv ==
    /\ \A c \in Conn : inboxed[c] \subseteq 1 .. nmsg
    /\ \A o \in Holder : \A ch \in st[o].joined :
          /\ st[o].inbox_offsets[ch] <= Len(Mail(ch))
          /\ \A i \in DOMAIN Mail(ch) : Mail(ch)[i].ok =>
                /\ i <= st[o].inbox_offsets[ch] /\ Mail(ch)[i].from # st[o].name
                      => Mail(ch)[i].id \in inboxed[o]
                /\ i > st[o].inbox_offsets[ch] => Mail(ch)[i].id \notin inboxed[o]

(* What a step may do to an inbox cursor: as Moved, for the await cursors. *)
PollMoved(o, ch) ==
    /\ st'[o].inbox_offsets[ch] <= Len(Mail(ch)')
    /\ \/ /\ o \in Holder /\ st'[o].name = st[o].name /\ ch \in st[o].joined
          /\ st[o].inbox_offsets[ch] <= st'[o].inbox_offsets[ch]
          /\ \A i \in st[o].inbox_offsets[ch] + 1 .. st'[o].inbox_offsets[ch] :
                Mail(ch)'[i].ok /\ Mail(ch)'[i].from # st[o].name
                    => Mail(ch)'[i].id \in inboxed'[o]
       \/ /\ st'[o].inbox_offsets[ch] = Len(Mail(ch)')
          /\ \A i \in 1 .. Len(Mail(ch)') :
                Mail(ch)'[i].ok => Mail(ch)'[i].id \in inboxed'[o]

Polled(o, x) ==
    \E ch \in st[o].joined : \E i \in 1 .. st[o].inbox_offsets[ch] :
        Mail(ch)[i].ok /\ Mail(ch)[i].id = x

PollAdvance ==
    \A o \in Holder' :
        /\ inboxed[o] \subseteq inboxed'[o]
        /\ \A ch \in st'[o].joined : PollMoved(o, ch)
        /\ \A x \in inboxed'[o] \ inboxed[o] : Polled(o, x)'

LEMMA PollStep ==
    ASSUME TypeOK, TypeOK', MailGrows, MailIds', PollInv, PollAdvance, StrangersKeep,
           SameMail \/ \E k \in Mailbox : \E r : Sent(k, r)
    PROVE  PollInv'
<1>1. 1 .. nmsg \subseteq 1 .. nmsg'
    BY NumbersGrow
<1>2. ASSUME NEW o \in Holder', NEW ch \in st'[o].joined
      PROVE  /\ o \in Conn /\ ch \in Mailbox
             /\ st[o].inbox_offsets[ch] \in Nat /\ st'[o].inbox_offsets[ch] \in Nat
             /\ Mail(ch)' \in Seq(Record)
  <2>1. /\ o \in Conn /\ ch \in Mailbox
        /\ st[o].inbox_offsets[ch] \in Nat /\ st'[o].inbox_offsets[ch] \in Nat
      BY <1>2 DEF Holder, TypeOK, ClientState, Mailbox
  <2> QED
      BY <2>1 DEF MailGrows
<1>3. ASSUME NEW o \in Holder', NEW x \in inboxed'[o] \ inboxed[o]
      PROVE  \E k \in Mailbox : \E j \in DOMAIN Mail(k)' :
                /\ Mail(k)'[j].ok /\ Mail(k)'[j].id = x
                /\ ~(j > st'[o].inbox_offsets[k])
  <2>1. PICK k \in st'[o].joined : \E j \in 1 .. st'[o].inbox_offsets[k] :
           Mail(k)'[j].ok /\ Mail(k)'[j].id = x
      BY DEF PollAdvance, Polled
  <2>2. PICK j \in 1 .. st'[o].inbox_offsets[k] : Mail(k)'[j].ok /\ Mail(k)'[j].id = x
      BY <2>1
  <2>3. k \in Mailbox /\ st'[o].inbox_offsets[k] \in Nat /\ Mail(k)' \in Seq(Record)
      BY <1>2
  <2>4. st'[o].inbox_offsets[k] <= Len(Mail(k)')
      BY <2>3 DEF PollAdvance, PollMoved
  <2>5. j \in DOMAIN Mail(k)' /\ ~(j > st'[o].inbox_offsets[k])
      BY SMTT(60), <2>3, <2>4
  <2> QED
      BY <2>2, <2>3, <2>5
<1>4. ASSUME NEW c \in Conn
      PROVE  inboxed'[c] \subseteq 1 .. nmsg'
  <2>1. inboxed[c] \subseteq 1 .. nmsg'
      BY <1>1 DEF PollInv
  <2>2. CASE c \in Holder'
    <3>1. \A x \in inboxed'[c] \ inboxed[c] : x \in 1 .. nmsg'
        BY SMTT(60), <1>3, <2>2 DEF MailIds
    <3> QED
        BY <2>1, <3>1
  <2>3. CASE c \notin Holder'
      BY <2>1, <2>3 DEF StrangersKeep
  <2> QED
      BY <2>2, <2>3
<1>5. ASSUME NEW o \in Holder', NEW ch \in st'[o].joined, NEW i \in DOMAIN Mail(ch)',
             Mail(ch)'[i].ok
      PROVE  /\ i <= st'[o].inbox_offsets[ch] /\ Mail(ch)'[i].from # st'[o].name
                   => Mail(ch)'[i].id \in inboxed'[o]
             /\ i > st'[o].inbox_offsets[ch] => Mail(ch)'[i].id \notin inboxed'[o]
  <2>1. /\ o \in Conn /\ ch \in Mailbox /\ Mail(ch)' \in Seq(Record)
        /\ st[o].inbox_offsets[ch] \in Nat /\ st'[o].inbox_offsets[ch] \in Nat
      BY <1>2
  <2>2. Mail(ch) \in Seq(Record)
      BY <2>1, MailType
  <2>3. inboxed[o] \subseteq inboxed'[o] /\ inboxed[o] \subseteq 1 .. nmsg
      BY <2>1 DEF PollAdvance, PollInv
  <2>4. i \in DOMAIN Mail(ch) => Mail(ch)'[i] = Mail(ch)[i]
      BY <2>1 DEF MailGrows
  <2>5. CASE /\ st'[o].inbox_offsets[ch] = Len(Mail(ch)')
             /\ \A j \in 1 .. Len(Mail(ch)') :
                   Mail(ch)'[j].ok => Mail(ch)'[j].id \in inboxed'[o]
      BY SMTT(60), <1>5, <2>1, <2>5
  <2>6. CASE /\ o \in Holder /\ st'[o].name = st[o].name /\ ch \in st[o].joined
             /\ st[o].inbox_offsets[ch] <= st'[o].inbox_offsets[ch]
             /\ \A j \in st[o].inbox_offsets[ch] + 1 .. st'[o].inbox_offsets[ch] :
                   Mail(ch)'[j].ok /\ Mail(ch)'[j].from # st[o].name
                       => Mail(ch)'[j].id \in inboxed'[o]
    <3>1. st[o].inbox_offsets[ch] <= Len(Mail(ch))
        BY <2>6 DEF PollInv
    <3>2. ASSUME i <= st'[o].inbox_offsets[ch], Mail(ch)'[i].from # st'[o].name
          PROVE  Mail(ch)'[i].id \in inboxed'[o]
      <4>1. CASE i <= st[o].inbox_offsets[ch]
        <5>1. i \in DOMAIN Mail(ch)
            BY SMTT(60), <2>1, <2>2, <3>1, <4>1
        <5> QED
            BY <1>5, <2>3, <2>4, <2>6, <3>2, <4>1, <5>1 DEF PollInv
      <4>2. CASE i > st[o].inbox_offsets[ch]
          BY SMTT(60), <1>5, <2>1, <2>6, <3>2, <4>2
      <4> QED
          BY SMTT(60), <2>1, <4>1, <4>2
    <3>3. ASSUME i > st'[o].inbox_offsets[ch]
          PROVE  Mail(ch)'[i].id \notin inboxed'[o]
      <4>1. i \in DOMAIN Mail(ch) => Mail(ch)[i].id \notin inboxed[o]
        <5>1. i > st[o].inbox_offsets[ch]
            BY SMTT(60), <2>1, <2>6, <3>3
        <5> QED
            BY <1>5, <2>4, <2>6, <5>1 DEF PollInv
      <4>2. PICK e, D, D2 : /\ e = st'[o].inbox_offsets[ch]
                            /\ D = inboxed[o] /\ D2 = inboxed'[o]
          OBVIOUS
      <4>3. NewBehind(ch, e, D, D2)'
          BY SMTT(60), <1>3, <4>2 DEF NewBehind
      <4>4. Mail(ch)'[i].id \notin D2
          BY <1>5, <2>1, <2>3, <3>3, <4>1, <4>2, <4>3, StaysFresh
      <4> QED
          BY <4>2, <4>4
    <3> QED
        BY <3>2, <3>3
  <2> QED
      BY <2>5, <2>6 DEF PollAdvance, PollMoved
<1>6. \A o \in Holder' : \A ch \in st'[o].joined : st'[o].inbox_offsets[ch] <= Len(Mail(ch)')
    BY DEF PollAdvance, PollMoved
<1> QED
    BY <1>4, <1>5, <1>6 DEF PollInv

(* One channel's share of an inbox poll: everything up to where it is cut. *)
LEMMA InboxShare ==
    ASSUME TypeOK, NEW o \in Holder, NEW ch \in Channel, ch \in exists,
           NEW since, since = st[o].inbox_offsets[ch], since <= Len(file[ch]),
           NEW b, b = InboxWalk(o, ch)
    PROVE  /\ since \in Nat /\ b.next_offset \in since .. Len(file[ch])
           /\ \A i \in since + 1 .. b.next_offset :
                 file[ch][i].ok /\ file[ch][i].from # st[o].name
                     => file[ch][i].id \in b.ids
           /\ \A x \in b.ids : \E i \in since + 1 .. b.next_offset :
                 file[ch][i].ok /\ file[ch][i].id = x
<1> DEFINE end  == Len(file[ch])
           scan == {i \in Drained(ch, since) : i <= since + ChannelDrainCap}
           cut  == Cardinality(Drained(ch, since)) > ChannelDrainCap
<1>1. end \in Nat /\ since \in Nat /\ ch \in Mailbox /\ DOMAIN file[ch] = 1 .. end
    BY SMTT(60) DEF TypeOK, ClientState, Holder, Mailbox
<1>2. PICK top : top = Least(end, since + ChannelDrainCap)
    OBVIOUS
<1>3. top \in Nat /\ since <= top /\ top <= end
    BY SMTT(60), <1>1, <1>2, CapAssumption DEF Least
<1>a. \/ top = end /\ end <= since + ChannelDrainCap
      \/ top = since + ChannelDrainCap /\ top < end
    BY SMTT(60), <1>1, <1>2, CapAssumption DEF Least
<1>4. scan = since + 1 .. top /\ Drained(ch, since) = since + 1 .. end
  <2> HIDE DEF end
  <2>1. \A i \in 1 .. end : i > since <=> i \in since + 1 .. end
      BY SMTT(60), <1>1
  <2>2. \A i \in since + 1 .. end : i \in 1 .. end
      BY SMTT(60), <1>1
  <2>3. Drained(ch, since) = since + 1 .. end
      BY <1>1, <2>1, <2>2 DEF Drained
  <2>4. \A i \in since + 1 .. end : i <= since + ChannelDrainCap <=> i \in since + 1 .. top
      BY SMTT(60), <1>1, <1>3, <1>a, CapAssumption
  <2>5. \A i \in since + 1 .. top : i \in since + 1 .. end
      BY SMTT(60), <1>1, <1>3
  <2> QED
      BY <2>3, <2>4, <2>5
<1>5. cut <=> end > since + ChannelDrainCap
  <2>1. since <= end
      OBVIOUS
  <2> HIDE DEF end
  <2>2. since + 1 \in Int /\ end \in Int
      BY SMTT(60), <1>1
  <2>3. Cardinality(since + 1 .. end) = IF since + 1 > end THEN 0 ELSE end - (since + 1) + 1
      BY <2>2, FS_Interval
  <2>4. Cardinality(Drained(ch, since)) = end - since
      BY SMTT(60), <1>1, <1>4, <2>1, <2>3
  <2> QED
      BY SMTT(60), <1>1, <2>4, CapAssumption
<1>6. PICK self : self = st[o].name
    OBVIOUS
<1>7. PICK local \in BOOLEAN : local = FALSE
    OBVIOUS
<1>8. PICK w : w = walk(ch, since, since + 1 .. top, AnyTask, self, local, end + 1)
    OBVIOUS
<1>9. /\ b.ids = w.ids
      /\ b.next_offset = IF cut THEN w.next_offset ELSE DrainEnd(ch, since)
  <2>1. w = walk(ch, since, scan, AnyTask, st[o].name, FALSE, Len(file[ch]) + 1)
      BY <1>4, <1>6, <1>7, <1>8
  <2> HIDE DEF scan
  <2> QED
      BY <2>1 DEF InboxWalk, scan
<1>10. WalkFacts(w, ch, since, top, AnyTask, self, local, end + 1)
  <2>1. end + 1 \in Nat \ {0} /\ top <= Len(file[ch])
      BY SMTT(60), <1>1, <1>3
  <2> HIDE DEF end
  <2> QED
      BY <1>1, <1>3, <1>8, <2>1, Walk
<1>11. w.next_offset = top
  <2>1. \A i \in since + 1 .. top : filter_matches(AnyTask, file[ch][i])
      BY DEF filter_matches
  <2>2. top - since < end + 1
      BY SMTT(60), <1>1, <1>3
  <2> HIDE DEF end
  <2> QED
      BY <1>10, <2>1, <2>2 DEF WalkFacts
<1>12. b.next_offset = top
  <2>1. DrainEnd(ch, since) = end
      BY DEF DrainEnd
  <2> HIDE DEF end, cut
  <2> QED
      BY <1>1, <1>a, <1>5, <1>9, <1>11, <2>1, CapAssumption
<1>13. \A i \in since + 1 .. top :
          Skips(ch, i, self, local) <=> ~file[ch][i].ok \/ file[ch][i].from = st[o].name
    BY <1>6, <1>7 DEF Skips
<1> HIDE DEF end, cut
<1>14. /\ \A i \in since + 1 .. top :
             Skips(ch, i, self, local) \/ file[ch][i].id \in w.ids
       /\ \A x \in w.ids : \E i \in since + 1 .. top :
             ~Skips(ch, i, self, local) /\ file[ch][i].id = x
    BY <1>10, <1>11 DEF WalkFacts
<1>15. b.next_offset \in since .. end
    BY SMTT(60), <1>1, <1>3, <1>12
<1>16. /\ \A i \in since + 1 .. top :
             file[ch][i].ok /\ file[ch][i].from # st[o].name => file[ch][i].id \in b.ids
       /\ \A x \in b.ids : \E i \in since + 1 .. top : file[ch][i].ok /\ file[ch][i].id = x
    BY <1>9, <1>13, <1>14
<1> QED
    BY <1>1, <1>12, <1>15, <1>16 DEF end

(* The steps that leave the inbox cursors, and what polls gave, alone.     *)
PollKeeps ==
    \A o \in Holder' :
        /\ inboxed'[o] = inboxed[o]
        /\ \A ch \in st'[o].joined :
              /\ o \in Holder /\ st'[o].name = st[o].name /\ ch \in st[o].joined
              /\ st'[o].inbox_offsets[ch] = st[o].inbox_offsets[ch]

LEMMA PollStays ==
    ASSUME TypeOK, PollInv, MailGrows, NEW o \in Holder, NEW ch \in st[o].joined,
           st'[o].name = st[o].name,
           st'[o].inbox_offsets[ch] = st[o].inbox_offsets[ch]
    PROVE  PollMoved(o, ch)
<1>1. ch \in Mailbox /\ st[o].inbox_offsets[ch] \in Nat
    BY DEF TypeOK, ClientState, Holder, Mailbox
<1>2. Mail(ch) \in Seq(Record)
    BY <1>1, MailType
<1>3. /\ Len(Mail(ch)) <= Len(Mail(ch)') /\ Mail(ch)' \in Seq(Record)
      /\ st[o].inbox_offsets[ch] <= Len(Mail(ch))
    BY <1>1 DEF MailGrows, PollInv
<1>4. st[o].inbox_offsets[ch] <= Len(Mail(ch)')
    BY SMTT(60), <1>1, <1>2, <1>3
<1>5. /\ st[o].inbox_offsets[ch] <= st[o].inbox_offsets[ch]
      /\ st[o].inbox_offsets[ch] + 1 .. st[o].inbox_offsets[ch] = {}
    BY SMTT(60), <1>1
<1> QED
    BY <1>4, <1>5 DEF PollMoved

LEMMA KeepsPoll ==
    ASSUME TypeOK, PollInv, MailGrows, PollKeeps
    PROVE  PollAdvance
<1>1. ASSUME NEW o \in Holder', NEW ch \in st'[o].joined
      PROVE  PollMoved(o, ch)
    BY <1>1, PollStays DEF PollKeeps
<1> QED
    BY <1>1 DEF PollAdvance, PollKeeps

LEMMA SamePoll ==
    ASSUME TypeOK, clients' = clients, inboxed' = inboxed,
           \A c \in Conn : /\ st'[c].name = st[c].name
                           /\ st'[c].joined = st[c].joined
                           /\ st'[c].inbox_offsets = st[c].inbox_offsets
    PROVE  PollKeeps
<1>1. Holder' = Holder /\ Holder \subseteq Conn
    BY SameHolders DEF TypeOK, Holder
<1> QED
    BY <1>1 DEF PollKeeps

LEMMA DisconnectPoll ==
    ASSUME TypeOK, NEW S \in SUBSET clients, disconnect(S)
    PROVE  PollKeeps
<1>1. /\ clients' = clients \ S
      /\ \A c \in Conn \ S : st'[c] = st[c] /\ inboxed'[c] = inboxed[c]
    BY DEF disconnect
<1>2. \A o \in Holder' : o \in Holder /\ o \in Conn \ S
    BY <1>1 DEF Holder, TypeOK
<1> QED
    BY <1>1, <1>2 DEF PollKeeps

LEMMA HelloPoll ==
    ASSUME TypeOK, NEW c \in Conn, NEW bound \in Name \cup {None}, Hello(c, bound)
    PROVE  PollKeeps
<1>1. CASE Refuse
    BY <1>1, SamePoll DEF Refuse, vars, actorVars, history
<1>2. CASE /\ c \notin clients /\ clients' = clients \cup {c}
           /\ st' = [st EXCEPT ![c] = Fresh(bound)] /\ inboxed' = inboxed
  <2>1. st'[c].name = None /\ \A d \in Conn \ {c} : st'[d] = st[d]
      BY <1>2 DEF TypeOK, Fresh
  <2>2. \A o \in Holder' : o \in Holder /\ st'[o] = st[o]
      BY <1>2, <2>1 DEF Holder, TypeOK
  <2> QED
      BY <1>2, <2>2 DEF PollKeeps
<1> QED
    BY <1>1, <1>2 DEF Hello, history

LEMMA RegisterPoll ==
    ASSUME TypeOK, Rosters, NEW c \in clients, NEW n \in Name, NEW origin, NEW l,
           st[c].name \in {None, n}, register(c, n, origin, l)
    PROVE  PollKeeps
<1>1. CASE Refuse
    BY <1>1, SamePoll DEF Refuse, vars, actorVars, history
<1>2. CASE ~Refuse
  <2>1. PICK off : off = DrainEnd(n, 0)
      OBVIOUS
  <2>2. /\ clients' = clients /\ inboxed' = inboxed
        /\ st' = [st EXCEPT ![c].name = n, ![c].origin = origin,
                            ![c].listen_mode = l, ![c].await_offsets[n] = off]
      BY <1>2, <2>1 DEF register
  <2>3. c \in Conn
      BY DEF TypeOK
  <2>4. /\ \A d \in Conn \ {c} : st'[d] = st[d]
        /\ st'[c].name = n /\ st'[c].joined = st[c].joined
        /\ st'[c].inbox_offsets = st[c].inbox_offsets
      BY <2>2, <2>3, RegisterEffect
  <2>5. ASSUME NEW ch \in st[c].joined
        PROVE  c \in Holder /\ st[c].name = n
    <3>1. c \in Holder
        BY <2>3 DEF Rosters
    <3> QED
        BY <3>1 DEF Holder
  <2>6. \A o \in Holder' : o # c => o \in Holder /\ o \in Conn \ {c}
      BY <2>2, <2>4 DEF Holder, TypeOK
  <2> QED
      BY <2>2, <2>4, <2>5, <2>6 DEF PollKeeps
<1> QED
    BY <1>1, <1>2

LEMMA LeavePoll ==
    ASSUME TypeOK, OneHolder, NEW c \in clients, NEW ch \in Channel, leave(c, ch)
    PROVE  PollKeeps
<1>1. CASE Refuse
    BY <1>1, SamePoll DEF Refuse, vars, actorVars, history
<1>2. CASE ~Refuse
  <2>1. PICK o, J, off : o = Owner(c) /\ J = st[o].joined \ {ch} /\ off = 0
      OBVIOUS
  <2>2. /\ Resolves(c) /\ clients' = clients /\ inboxed' = inboxed
        /\ st' = [st EXCEPT ![o].joined = J, ![o].await_offsets[ch] = off,
                            ![o].inbox_offsets[ch] = off]
      BY <1>2, <2>1 DEF leave, history
  <2>3. o \in Holder /\ o \in Conn
      BY <2>1, <2>2, OwnerHolds DEF TypeOK
  <2>4. /\ \A d \in Conn \ {o} : st'[d] = st[d]
        /\ st'[o].name = st[o].name /\ st'[o].joined = J
        /\ \A k \in Channel \ {ch} : st'[o].inbox_offsets[k] = st[o].inbox_offsets[k]
      BY SMTT(60), <2>2, <2>3 DEF TypeOK, ClientState
  <2>5. Holder' = Holder /\ Holder \subseteq Conn
      BY <2>2, <2>3, <2>4, SameHolders DEF TypeOK, Holder
  <2>6. J \subseteq Channel \ {ch} /\ J \subseteq st[o].joined
      BY <2>1, <2>3 DEF TypeOK, ClientState
  <2> QED
      BY <2>2, <2>4, <2>5, <2>6 DEF PollKeeps
<1> QED
    BY <1>1, <1>2

(* What one holder's polls are given.                                      *)
LEMMA OwnPoll ==
    ASSUME TypeOK, PollInv, MailGrows, NEW o \in Holder, clients' = clients,
           \A d \in Conn \ {o} : st'[d] = st[d] /\ inboxed'[d] = inboxed[d],
           st'[o].name = st[o].name, inboxed[o] \subseteq inboxed'[o],
           \A ch \in st'[o].joined :
              \/ ch \in st[o].joined /\ st'[o].inbox_offsets[ch] = st[o].inbox_offsets[ch]
              \/ PollMoved(o, ch),
           \A x \in inboxed'[o] \ inboxed[o] : Polled(o, x)'
    PROVE  PollAdvance
<1>1. Holder' = Holder /\ Holder \subseteq Conn
    BY SameHolders DEF TypeOK, Holder
<1>2. \A ch \in st'[o].joined : PollMoved(o, ch)
    BY PollStays
<1>3. ASSUME NEW d \in Holder, d # o
      PROVE  /\ inboxed'[d] = inboxed[d]
             /\ \A ch \in st'[d].joined : PollMoved(d, ch)
  <2>1. st'[d] = st[d] /\ inboxed'[d] = inboxed[d]
      BY <1>1, <1>3
  <2> QED
      BY <2>1, PollStays
<1>4. ASSUME NEW d \in Holder'
      PROVE  /\ inboxed[d] \subseteq inboxed'[d]
             /\ \A ch \in st'[d].joined : PollMoved(d, ch)
             /\ \A x \in inboxed'[d] \ inboxed[d] : Polled(d, x)'
  <2>1. CASE d = o
      BY <1>2, <2>1
  <2>2. CASE d # o
      BY <1>1, <1>3, <2>2
  <2> QED
      BY <2>1, <2>2
<1> QED
    BY <1>4 DEF PollAdvance

LEMMA JoinPoll ==
    ASSUME Sound, PollInv, MailGrows, SameMail, outs = <<>>,
           NEW c \in clients, NEW ch \in Channel, NEW role, join(c, ch, role)
    PROVE  PollAdvance
<1>0. TypeOK /\ OneHolder /\ ch \in exists /\ c \in Conn /\ ch \in Mailbox
    BY DEF Sound, TypeOK, Mailbox
<1>1. CASE Refuse
    BY <1>0, <1>1, SamePoll, KeepsPoll DEF Refuse, vars, actorVars, history
<1>2. CASE ~Refuse
  <2>1. PICK o, J, off, ids : /\ o = Owner(c) /\ J = st[o].joined \cup {ch}
                              /\ off = DrainEnd(ch, 0) /\ ids = decode_lines(ch, 0)
      OBVIOUS
  <2>2. /\ Resolves(c) /\ clients' = clients
        /\ inboxed' = [inboxed EXCEPT ![o] = @ \cup ids]
        /\ st' = [st EXCEPT ![o].joined = J, ![o].await_offsets[ch] = off,
                            ![o].inbox_offsets[ch] = off]
      BY <1>2, <2>1 DEF join
  <2>3. o \in Holder /\ o \in Conn
      BY <1>0, <2>1, <2>2, OwnerHolds
  <2>4. /\ \A d \in Conn \ {o} : st'[d] = st[d]
        /\ st'[o].name = st[o].name /\ st'[o].joined = J
        /\ st'[o].inbox_offsets[ch] = off
        /\ \A k \in Channel \ {ch} : st'[o].inbox_offsets[k] = st[o].inbox_offsets[k]
      BY SMTT(60), <1>0, <2>2, <2>3 DEF TypeOK, ClientState
  <2>5. /\ \A d \in Conn \ {o} : inboxed'[d] = inboxed[d]
        /\ inboxed'[o] = inboxed[o] \cup ids
      BY <1>0, <2>2, <2>3 DEF TypeOK
  <2>6. /\ off = Len(file[ch])
        /\ \A i \in 1 .. Len(file[ch]) : file[ch][i].ok => file[ch][i].id \in ids
        /\ \A x \in ids : \E i \in 1 .. Len(file[ch]) : file[ch][i].ok /\ file[ch][i].id = x
      BY <1>0, <2>1, WholeFile
  <2>7. Mail(ch)' = file[ch]
      BY <1>0, ReadyMail DEF SameMail
  <2>8. Len(file[ch]) \in Nat
      BY SMTT(60), <1>0 DEF TypeOK
  <2>9. off <= Len(Mail(ch)')
      BY SMTT(60), <2>6, <2>7, <2>8
  <2>10. PollMoved(o, ch)
      BY <2>4, <2>5, <2>6, <2>7, <2>9 DEF PollMoved
  <2>11. \A k \in J : \/ k \in st[o].joined /\ st'[o].inbox_offsets[k] = st[o].inbox_offsets[k]
                      \/ PollMoved(o, k)
    <3>1. st[o].joined \subseteq Channel
        BY <1>0, <2>3 DEF TypeOK, ClientState
    <3> QED
        BY <2>1, <2>4, <2>10, <3>1
  <2>12. \A x \in ids : Polled(o, x)'
    <3>1. ch \in st'[o].joined
        BY <2>1, <2>4
    <3>2. \A x \in ids : \E i \in 1 .. st'[o].inbox_offsets[ch] :
             Mail(ch)'[i].ok /\ Mail(ch)'[i].id = x
        BY <2>4, <2>6, <2>7
    <3> QED
        BY <3>1, <3>2 DEF Polled
  <2> QED
      BY <1>0, <2>2, <2>3, <2>4, <2>5, <2>11, <2>12, OwnPoll
<1> QED
    BY <1>1, <1>2

(* What an inbox poll does: every joined channel gives its share.          *)
PollShape(c, o, offs, mine) ==
    /\ Resolves(c) /\ o = Owner(c) /\ clients' = clients /\ delivered' = delivered
    /\ mine = UNION {InboxWalk(o, ch).ids : ch \in st[o].joined}
    /\ offs = [ch \in Channel |-> IF ch \in st[o].joined
                                  THEN InboxWalk(o, ch).next_offset
                                  ELSE st[o].inbox_offsets[ch]]
    /\ st' = [st EXCEPT ![o].inbox_offsets = offs]
    /\ inboxed' = [inboxed EXCEPT ![o] = @ \cup mine]
    /\ outs' = <<Reply(c, "InboxOk", mine)>>

LEMMA InboxShape ==
    ASSUME NEW c, NEW since, inbox(c, since), ~Refuse
    PROVE  \E o, offs, mine : PollShape(c, o, offs, mine)
<1>1. PICK o : o = Owner(c)
    OBVIOUS
<1>2. PICK mine : mine = UNION {InboxWalk(o, ch).ids : ch \in st[o].joined}
    OBVIOUS
<1>3. PICK offs : offs = [ch \in Channel |-> IF ch \in st[o].joined
                                             THEN InboxWalk(o, ch).next_offset
                                             ELSE st[o].inbox_offsets[ch]]
    OBVIOUS
<1>4. PollShape(c, o, offs, mine)
    BY <1>1, <1>2, <1>3 DEF inbox, PollShape
<1> QED
    BY <1>4

(* What is given is not behind the cursor of its channel.                  *)
LEMMA PollShares ==
    ASSUME Sound, PollInv, outs = <<>>, NEW c \in Conn, NEW o, NEW offs, NEW mine,
           PollShape(c, o, offs, mine), NEW ch \in st[o].joined,
           NEW since, since = st[o].inbox_offsets[ch]
    PROVE  /\ o \in Holder /\ o \in Conn /\ ch \in Mailbox /\ ch \in Channel
           /\ Mail(ch) = file[ch] /\ Len(file[ch]) \in Nat
           /\ since \in Nat /\ offs[ch] \in since .. Len(file[ch])
           /\ \A i \in since + 1 .. offs[ch] :
                 file[ch][i].ok /\ file[ch][i].from # st[o].name
                     => file[ch][i].id \in mine
           /\ \A x \in InboxWalk(o, ch).ids : \E i \in since + 1 .. offs[ch] :
                 file[ch][i].ok /\ file[ch][i].id = x
<1>1. TypeOK /\ OneHolder /\ exists = Mailbox
    BY DEF Sound
<1>2. o \in Holder /\ o \in Conn
    BY <1>1, OwnerHolds DEF PollShape
<1>3. ch \in Channel /\ ch \in Mailbox /\ ch \in exists
    BY <1>1, <1>2 DEF TypeOK, ClientState, Mailbox
<1>4. Mail(ch) = file[ch] /\ since <= Len(file[ch])
    BY <1>2, <1>3, ReadyMail DEF PollInv
<1>5. PICK b : b = InboxWalk(o, ch)
    OBVIOUS
<1>6. offs[ch] = b.next_offset /\ b.ids \subseteq mine
    BY <1>3, <1>5 DEF PollShape
<1>7. /\ since \in Nat /\ b.next_offset \in since .. Len(file[ch])
      /\ \A i \in since + 1 .. b.next_offset :
            file[ch][i].ok /\ file[ch][i].from # st[o].name => file[ch][i].id \in b.ids
      /\ \A x \in b.ids : \E i \in since + 1 .. b.next_offset :
            file[ch][i].ok /\ file[ch][i].id = x
    BY SMTT(60), <1>1, <1>2, <1>3, <1>4, <1>5, InboxShare
<1>8. Len(file[ch]) \in Nat
    BY SMTT(60), <1>1, <1>3 DEF TypeOK
<1> QED
    BY <1>2, <1>3, <1>4, <1>5, <1>6, <1>7, <1>8

LEMMA InboxPoll ==
    ASSUME Sound, PollInv, MailGrows, SameMail, outs = <<>>,
           NEW c \in Conn, NEW since, inbox(c, since)
    PROVE  PollAdvance
<1>0. TypeOK /\ OneHolder
    BY DEF Sound
<1>1. CASE Refuse
    BY <1>0, <1>1, SamePoll, KeepsPoll DEF Refuse, vars, actorVars, history
<1>2. CASE ~Refuse
  <2>1. PICK o, offs, mine : PollShape(c, o, offs, mine)
      BY <1>2, InboxShape
  <2>2. /\ clients' = clients /\ o \in Holder /\ o \in Conn
        /\ st' = [st EXCEPT ![o].inbox_offsets = offs]
        /\ inboxed' = [inboxed EXCEPT ![o] = @ \cup mine]
      BY <1>0, <2>1, OwnerHolds DEF PollShape
  <2>3. /\ \A d \in Conn \ {o} : st'[d] = st[d]
        /\ st'[o].name = st[o].name /\ st'[o].joined = st[o].joined
        /\ st'[o].inbox_offsets = offs
      BY <1>0, <2>2, InboxEffect
  <2>4. /\ \A d \in Conn \ {o} : inboxed'[d] = inboxed[d]
        /\ inboxed'[o] = inboxed[o] \cup mine
      BY <1>0, <2>2 DEF TypeOK
  <2>5. ASSUME NEW ch \in st[o].joined
        PROVE  /\ PollMoved(o, ch)
               /\ \A x \in InboxWalk(o, ch).ids : \E i \in 1 .. offs[ch] :
                     Mail(ch)'[i].ok /\ Mail(ch)'[i].id = x
    <3>1. PICK from : from = st[o].inbox_offsets[ch]
        OBVIOUS
    <3>2. /\ ch \in Mailbox /\ Mail(ch) = file[ch] /\ Len(file[ch]) \in Nat
          /\ from \in Nat /\ offs[ch] \in from .. Len(file[ch])
          /\ \A i \in from + 1 .. offs[ch] :
                file[ch][i].ok /\ file[ch][i].from # st[o].name
                    => file[ch][i].id \in mine
          /\ \A x \in InboxWalk(o, ch).ids : \E i \in from + 1 .. offs[ch] :
                file[ch][i].ok /\ file[ch][i].id = x
        BY SMTT(60), <2>1, <2>5, <3>1, PollShares
    <3>3. Mail(ch)' = file[ch]
        BY <3>2 DEF SameMail
    <3>4. /\ from <= offs[ch] /\ offs[ch] <= Len(file[ch])
          /\ \A i \in from + 1 .. offs[ch] : i \in 1 .. offs[ch]
        BY SMTT(60), <3>2
    <3>5. \A i \in from + 1 .. st'[o].inbox_offsets[ch] :
             Mail(ch)'[i].ok /\ Mail(ch)'[i].from # st[o].name
                 => Mail(ch)'[i].id \in inboxed'[o]
        BY <2>3, <2>4, <3>2, <3>3
    <3>6. PollMoved(o, ch)
        BY <2>2, <2>3, <2>5, <3>1, <3>3, <3>4, <3>5 DEF PollMoved
    <3> QED
        BY <3>2, <3>3, <3>4, <3>6
  <2>6. ASSUME NEW x \in mine
        PROVE  Polled(o, x)'
    <3>1. PICK ch \in st[o].joined : x \in InboxWalk(o, ch).ids
        BY <2>1 DEF PollShape
    <3>2. PICK i \in 1 .. offs[ch] : Mail(ch)'[i].ok /\ Mail(ch)'[i].id = x
        BY <2>5, <3>1
    <3> QED
        BY <2>3, <3>1, <3>2 DEF Polled
  <2>7. inboxed[o] \subseteq inboxed'[o] /\ \A x \in inboxed'[o] \ inboxed[o] : Polled(o, x)'
      BY <2>4, <2>6
  <2> QED
      BY <1>0, <2>2, <2>3, <2>4, <2>5, <2>7, OwnPoll
<1> QED
    BY <1>1, <1>2

LEMMA QuietPoll ==
    ASSUME TypeOK, NEW c \in clients,
           \/ \E l \in Flags : set_listen(c, l) \/ set_wake_addr(c, l)
           \/ \E m \in Mailbox, t \in Task : send(c, m, t)
           \/ \E f \in Filter : await_envelope(c, f)
    PROVE  PollKeeps
<1>0. c \in Conn /\ Owner(c) \in Conn
    BY OwnerIsClient DEF TypeOK
<1>1. CASE UNCHANGED <<clients, st, inboxed>>
    BY <1>1, SamePoll
<1>2. CASE /\ clients' = clients /\ inboxed' = inboxed
           /\ \E l : \/ st' = [st EXCEPT ![c].listen_mode = l]
                     \/ st' = [st EXCEPT ![c].wake_addr = l]
  <2>1. \A d \in Conn : /\ st'[d].name = st[d].name
                        /\ st'[d].joined = st[d].joined
                        /\ st'[d].inbox_offsets = st[d].inbox_offsets
      BY <1>0, <1>2, FlagEffect
  <2> QED
      BY <1>2, <2>1, SamePoll
<1>3. CASE /\ clients' = clients /\ inboxed' = inboxed
           /\ \E offs : st' = [st EXCEPT ![Owner(c)].await_offsets = offs]
  <2>1. \A d \in Conn : /\ st'[d].name = st[d].name
                        /\ st'[d].joined = st[d].joined
                        /\ st'[d].inbox_offsets = st[d].inbox_offsets
      BY <1>0, <1>3, AwaitEffect
  <2> QED
      BY <1>3, <2>1, SamePoll
<1>4. CASE Refuse
    BY <1>1, <1>4 DEF Refuse, vars, actorVars, history
<1>5. CASE \E l \in Flags : set_listen(c, l) \/ set_wake_addr(c, l)
    BY <1>2, <1>4, <1>5 DEF set_listen, set_wake_addr, history
<1>6. CASE \E m \in Mailbox, t \in Task : send(c, m, t)
    BY <1>1, <1>4, <1>6 DEF send, send_agent, send_channel, Sending, actorVars, history
<1>7. CASE \E f \in Filter : await_envelope(c, f)
    BY <1>3, <1>4, <1>7 DEF await_envelope
<1> QED
    BY <1>5, <1>6, <1>7

LEMMA StepPoll ==
    ASSUME Settled, Sound, TypeOK', PollInv, Next, ~Crash
    PROVE  PollAdvance
<1>0. TypeOK /\ OneHolder /\ NoOrphans /\ Rosters /\ ~Rebind
    BY DEF Sound, Settled
<1>1. MailGrows
    BY <1>0, StepMail, StepGrows
<1>2. CASE PollKeeps
    BY <1>0, <1>1, <1>2, KeepsPoll
<1>3. ASSUME UNCHANGED <<clients, st, inboxed>>
      PROVE  PollKeeps
    BY <1>0, <1>3, SamePoll
<1>4. CASE \E c \in Conn : Wire(c)
  <2>1. PICK c \in Conn : Wire(c)
      BY <1>4
  <2>2. CASE \E bound \in Name \cup {None} : Hello(c, bound)
      BY <1>0, <1>2, <2>2, HelloPoll
  <2>3. CASE Refuse
      BY <1>2, <1>3, <2>3 DEF Refuse, vars, actorVars, history
  <2>4. ASSUME c \in clients, ~Refuse,
               \E n \in Name, o \in Origins, l \in Flags :
                  st[c].name \in {None, n} /\ register(c, n, o, l)
        PROVE  PollKeeps
    <3>1. PICK n \in Name, o \in Origins, l \in Flags :
             st[c].name \in {None, n} /\ register(c, n, o, l)
        BY <2>4
    <3> QED
        BY SMTT(60), <1>0, <2>4, <3>1, RegisterPoll
  <2>5. ASSUME c \in clients, \E ch \in Channel : leave(c, ch)
        PROVE  PollKeeps
      BY <1>0, <2>5, LeavePoll
  <2>6. ASSUME c \in clients, ~Refuse,
               \/ \E ch \in Channel, role \in Flags : join(c, ch, role)
               \/ \E since \in 0 .. MaxMsg : inbox(c, since)
        PROVE  PollAdvance
    <3>1. outs = <<>> /\ UNCHANGED <<nmsg, file>>
        BY <2>1, <2>6, WireFiles DEF Wire, Ready, join, inbox, envVars
    <3>2. outs' # <<>> /\ outs'[1].kind # "Append"
      <4>1. \/ \E m, off : outs' = <<AdvanceCursor(m, off)>>
            \/ \E what, ids : outs' = <<Reply(c, what, ids)>>
          BY <2>6 DEF join, inbox
      <4> QED
          BY SMTT(60), <4>1 DEF AdvanceCursor, Reply
    <3>3. SameMail
        BY <3>1, <3>2, SameFront DEF SameMail
    <3> QED
        BY <1>1, <2>1, <2>6, <3>1, <3>3, JoinPoll, InboxPoll
  <2> QED
      BY <1>0, <1>2, <2>1, <2>2, <2>3, <2>4, <2>5, <2>6, QuietPoll DEF Wire, handle_wire
<1>5. CASE WakeOne
  <2>1. PICK w \in job.todo :
          /\ clients' = clients /\ inboxed' = inboxed
          /\ \/ UNCHANGED st
             \/ \E off : st' = [st EXCEPT ![Owner(w)].await_offsets[job.mbox] = off]
      BY <1>5 DEF WakeOne
  <2>2. job.mbox \in Mailbox
      BY <1>0, <1>5 DEF WakeOne, TypeOK, SendJob, TickJob
  <2>3. Owner(w) \in Conn
      BY <1>0, <1>5, OwnerIsClient DEF WakeOne, NoOrphans
  <2>4. CASE \E off : st' = [st EXCEPT ![Owner(w)].await_offsets[job.mbox] = off]
    <3>1. \A d \in Conn : /\ st'[d].name = st[d].name
                          /\ st'[d].joined = st[d].joined
                          /\ st'[d].inbox_offsets = st[d].inbox_offsets
        BY <1>0, <2>2, <2>3, <2>4, WakeEffect
    <3> QED
        BY <1>0, <1>2, <2>1, <3>1, SamePoll
  <2> QED
      BY <1>2, <1>3, <2>1, <2>4
<1>6. CASE \E c \in Conn : Disconnect(c)
    BY <1>0, <1>2, <1>6, DisconnectPoll DEF Disconnect
<1>7. CASE tick
  <2>1. PICK S \in SUBSET clients : disconnect(S)
      BY <1>7 DEF tick
  <2> QED
      BY <1>0, <1>2, <2>1, DisconnectPoll
<1> QED
    BY <1>2, <1>3, <1>4, <1>5, <1>6, <1>7
       DEF Next, Work, NextMember, SendDone, ExpireOne, execute_outs,
           Deadline, Die, Truncate, actorVars, history

LEMMA AlwaysPoll ==
    ASSUME Settled, Blank
    PROVE  Spec => []PollInv
<1>1. Init => PollInv
    BY DEF Init, PollInv, Holder
<1>2. Sound /\ Sound' /\ MailIds' /\ PollInv /\ [Next]_vars => PollInv'
  <2> SUFFICES ASSUME Sound, Sound', MailIds', PollInv, [Next]_vars
               PROVE  PollInv'
      OBVIOUS
  <2>0. TypeOK /\ TypeOK'
      BY DEF Sound
  <2>1. CASE Next /\ ~Crash
    <3>1. SameMail \/ \E k \in Mailbox : \E r : Sent(k, r)
        BY <2>0, <2>1, StepMail
    <3>2. MailGrows /\ PollAdvance /\ StrangersKeep
        BY <2>0, <2>1, <3>1, StepGrows, StepPoll, StrangersStep
    <3> QED
        BY <2>0, <3>1, <3>2, PollStep
  <2>2. CASE Crash
      BY <2>2 DEF Crash, PollInv, Holder
  <2>3. CASE UNCHANGED vars
    <3>1. /\ Holder' = Holder /\ UNCHANGED <<st, inboxed, nmsg>>
          /\ \A m : Mail(m)' = Mail(m)
        BY <2>3, SameFront DEF vars, actorVars, diskVars, envVars, history, Holder
    <3> QED
        BY <3>1 DEF PollInv
  <2> QED
      BY <2>1, <2>2, <2>3
<1>3. (Spec => []Sound) /\ (Spec => []MailIds)
    BY AlwaysSound, AlwaysIds
<1> QED
    BY <1>1, <1>2, <1>3, PTL DEF Spec

-----------------------------------------------------------------------------
(* The replies of await and of inbox.                                      *)

LEMMA AwaitGivesNew ==
    ASSUME Settled, Sound, CursorInv, FreshInv, outs = <<>>, outs' # <<>>,
           NEW c \in Conn, NEW f \in Filter, await_envelope(c, f),
           NEW o, o = Owner(c)
    PROVE  \E G : outs' = <<Reply(c, "AwaitOk", G)>> /\ G \cap delivered[o] = {}
<1>0. TypeOK /\ exists = Mailbox /\ AwaitBatchCap <= FrameCap
    BY DEF Sound, Settled
<1>1. ~Refuse
    BY DEF Refuse, vars
<1>2. c \in clients
    BY <1>1 DEF await_envelope, Resolves
<1>3. PICK S, G : AwaitShape(c, f, o, S, G)
    BY <1>1, <1>2, AwaitShapes
<1>4. outs' = <<Reply(c, "AwaitOk", G)>> /\ o \in Holder /\ S \subseteq Boxes(o)
    BY <1>3 DEF AwaitShape
<1>5. ASSUME NEW x \in G
      PROVE  x \notin delivered[o]
  <2>1. PICK m \in S : x \in drain_await_batch(o, m, f, None).ids
      BY <1>3 DEF AwaitShape
  <2>2. PICK b : b = drain_await_batch(o, m, f, None)
      OBVIOUS
  <2>3. PICK since : since = st[o].await_offsets[m]
      OBVIOUS
  <2>4. m \in Boxes(o) /\ m \in Mailbox /\ m \in exists
      BY <1>0, <1>4, BoxesType
  <2>5. Mail(m) = file[m] /\ since <= Len(file[m])
      BY <1>4, <2>3, <2>4, ReadyMail DEF CursorInv
  <2>6. /\ since \in Nat /\ b.next_offset \in since .. Len(file[m])
        /\ \A y \in b.ids : \E i \in since + 1 .. b.next_offset :
              ForAwait(o, m, file[m][i]) /\ file[m][i].id = y
      BY SMTT(60), <1>0, <1>4, <2>2, <2>3, <2>4, <2>5, Batch
  <2>7. PICK i \in since + 1 .. b.next_offset :
           ForAwait(o, m, file[m][i]) /\ file[m][i].id = x
      BY <2>1, <2>2, <2>6
  <2>8. file[m] \in Seq(Record)
      BY <1>0, <2>4 DEF TypeOK
  <2>9. i \in DOMAIN file[m] /\ i > since
      BY SMTT(60), <2>6, <2>7, <2>8
  <2> QED
      BY <1>4, <2>3, <2>4, <2>5, <2>7, <2>9 DEF FreshInv, ForAwait
<1> QED
    BY <1>4, <1>5

LEMMA InboxGivesNew ==
    ASSUME Sound, PollInv, outs = <<>>, outs' # <<>>,
           NEW c \in Conn, NEW since, inbox(c, since),
           NEW o, o = Owner(c)
    PROVE  \E G : outs' = <<Reply(c, "InboxOk", G)>> /\ G \cap inboxed[o] = {}
<1>1. ~Refuse
    BY DEF Refuse, vars
<1>2. PICK offs, mine : PollShape(c, o, offs, mine)
  <2>1. PICK p, offs, mine : PollShape(c, p, offs, mine)
      BY <1>1, InboxShape
  <2>2. p = o
      BY <2>1 DEF PollShape
  <2> QED
      BY <2>1, <2>2
<1>3. outs' = <<Reply(c, "InboxOk", mine)>>
    BY <1>2 DEF PollShape
<1>4. ASSUME NEW x \in mine
      PROVE  x \notin inboxed[o]
  <2>1. PICK ch \in st[o].joined : x \in InboxWalk(o, ch).ids
      BY <1>2 DEF PollShape
  <2>2. PICK from : from = st[o].inbox_offsets[ch]
      OBVIOUS
  <2>3. /\ o \in Holder /\ ch \in Mailbox
        /\ Mail(ch) = file[ch] /\ Len(file[ch]) \in Nat
        /\ from \in Nat /\ offs[ch] \in from .. Len(file[ch])
        /\ \A y \in InboxWalk(o, ch).ids : \E i \in from + 1 .. offs[ch] :
              file[ch][i].ok /\ file[ch][i].id = y
      BY SMTT(60), <1>2, <2>1, <2>2, PollShares
  <2>4. PICK i \in from + 1 .. offs[ch] : file[ch][i].ok /\ file[ch][i].id = x
      BY <2>1, <2>3
  <2>5. file[ch] \in Seq(Record)
      BY <2>3 DEF Sound, TypeOK
  <2>6. i \in DOMAIN file[ch] /\ i > from
      BY SMTT(60), <2>3, <2>4, <2>5
  <2> QED
      BY <2>1, <2>2, <2>3, <2>4, <2>6 DEF PollInv
<1> QED
    BY <1>3, <1>4

(* Only an await and a poll answer at once.                                *)
LEMMA Answers ==
    ASSUME Next, Ready, outs' # <<>>, outs'[1].kind = "Reply"
    PROVE  \E c \in Conn : \/ \E f \in Filter : await_envelope(c, f)
                           \/ \E since \in 0 .. MaxMsg : inbox(c, since)
<1>0. outs = <<>> /\ job = None /\ outs' # outs
    BY DEF Ready
<1>1. PICK c \in Conn : Wire(c)
    BY <1>0 DEF Next, Work, NextMember, WakeOne, SendDone, ExpireOne, execute_outs,
                Disconnect, tick, Deadline, Die, Truncate, Crash
<1>2. ASSUME \/ \E m, off : outs' = <<AdvanceCursor(m, off)>>
             \/ \E m, r : outs' = <<AppendMailbox(m, r)>>
      PROVE  FALSE
    BY SMTT(60), <1>2 DEF AdvanceCursor, AppendMailbox
<1>3. ~Refuse
    BY <1>0 DEF Refuse, vars
<1>4. ASSUME \/ \E bound \in Name \cup {None} : Hello(c, bound)
             \/ \E l \in Flags : set_listen(c, l) \/ set_wake_addr(c, l)
             \/ \E ch \in Channel : leave(c, ch)
      PROVE  FALSE
    BY <1>0, <1>3, <1>4 DEF Hello, set_listen, set_wake_addr, leave
<1>5. ASSUME \/ \E n \in Name, o \in Origins, l \in Flags : register(c, n, o, l)
             \/ \E ch \in Channel, role \in Flags : join(c, ch, role)
      PROVE  FALSE
    BY <1>2, <1>3, <1>5 DEF register, join
<1>6. ASSUME \E m \in Mailbox, t \in Task : send(c, m, t)
      PROVE  FALSE
    BY <1>2, <1>3, <1>6 DEF send, send_agent, send_channel, Sending
<1> QED
    BY <1>1, <1>3, <1>4, <1>5, <1>6 DEF Wire, handle_wire

(* What an await is given, the envelope that wakes it apart, lies behind   *)
(* the cursor in the file.                                                 *)
LEMMA WokenIds ==
    ASSUME NEW o, NEW m, NEW f, NEW t, NEW b, b = drain_await_batch(o, m, f, t),
           NEW x \in b.ids, x # t.id
    PROVE  \E i \in DOMAIN file[m] :
              i > st[o].await_offsets[m] /\ file[m][i].ok /\ file[m][i].id = x
<1>1. PICK since, self : /\ since = st[o].await_offsets[m]
                         /\ self = IF m \in Channel THEN effective_identity(o) ELSE None
    OBVIOUS
<1>2. PICK w : w = walk(m, since, Drained(m, since), f, self, TRUE, AwaitBatchCap)
    OBVIOUS
<1>3. x \in w.ids
  <2> DEFINE fold  == w.fully_drained /\ t # None
             pass  == fold /\ (t.origin # "Local" \/ t.from = self)
             give  == fold /\ ~pass /\ filter_matches(f, t)
  <2>1. b = [ids           |-> w.ids \cup (IF give THEN {t.id} ELSE {}),
             next_offset   |-> w.next_offset + (IF pass \/ give THEN 1 ELSE 0),
             fully_drained |-> w.fully_drained]
      BY <1>1, <1>2 DEF drain_await_batch
  <2> HIDE DEF pass, give
  <2> QED
      BY SMTT(60), <2>1
<1>4. PICK i \in Drained(m, since) : file[m][i].ok /\ file[m][i].id = x
    BY <1>2, <1>3 DEF walk
<1> QED
    BY <1>1, <1>4 DEF Drained

(* An await that a send wakes is given nothing but the envelope and what   *)
(* nobody was given.                                                       *)
LEMMA WakeGivesNew ==
    ASSUME Sound, FreshInv, Next, job # None, job.kind = "send", Len(outs') > Len(outs),
           NEW out, out = outs'[Len(outs')], out.kind = "Reply", out.what = "AwaitOk",
           NEW o, o = Owner(out.to)
    PROVE  out.ids \cap delivered[o] \subseteq {job.rec.id}
<1>0. /\ TypeOK /\ OneHolder /\ Durable /\ Addressed
      /\ job \in SendJob /\ outs \in Seq(Out) /\ Len(outs) \in Nat
  <2>1. TypeOK /\ OneHolder /\ Durable /\ Addressed
      BY DEF Sound
  <2>2. job \in SendJob /\ outs \in Seq(Out)
      BY <2>1 DEF TypeOK, TickJob
  <2>3. Len(outs) \in Nat
      BY SMTT(60), <2>2
  <2> QED
      BY <2>1, <2>2, <2>3
<1>1. outs' # outs /\ outs' # <<>>
    BY SMTT(60), <1>0
<1>2. WakeOne \/ SendDone
    BY <1>1 DEF Next, Wire, Ready, Disconnect, Deadline, Die, Truncate, tick, Work,
                NextMember, ExpireOne, execute_outs, Crash
<1>3. ASSUME NEW e, outs' = Append(outs, e)
      PROVE  out = e
    BY SMTT(60), <1>0, <1>3
<1>4. WakeOne
  <2> SUFFICES ASSUME SendDone PROVE FALSE
      BY <1>2
  <2>1. out = SendOk(job.from, job.rec.id, job.flags)
      BY <1>3 DEF SendDone
  <2> QED
      BY SMTT(60), <2>1 DEF SendOk
<1>5. PICK m, t : m = job.mbox /\ t = job.rec
    OBVIOUS
<1>6. PICK w \in job.todo :
         \/ outs' = Append(outs, Reply(w, "Err", {}))
         \/ /\ Resolves(w)
            /\ \E what : outs' = Append(outs, Reply(w, what,
                             drain_await_batch(Owner(w), m, pending[w], t).ids))
    BY <1>4, <1>5 DEF WakeOne
<1>7. PICK f : f = pending[w]
    OBVIOUS
<1>8. Resolves(w) /\ out.to = w /\ out.ids = drain_await_batch(Owner(w), m, f, t).ids
  <2>1. out # Reply(w, "Err", {})
      BY SMTT(60) DEF Reply
  <2>2. PICK what : Resolves(w) /\ outs' = Append(outs, Reply(w, what,
                       drain_await_batch(Owner(w), m, pending[w], t).ids))
      BY <1>3, <1>6, <2>1
  <2>3. PICK G : G = drain_await_batch(Owner(w), m, f, t).ids
      OBVIOUS
  <2>4. out = Reply(w, what, G)
      BY <1>3, <1>7, <2>2, <2>3
  <2>5. out.to = w /\ out.ids = G
      BY SMTT(60), <2>4 DEF Reply
  <2> QED
      BY <2>2, <2>3, <2>5
<1>9. w \in Conn /\ m \in Mailbox /\ t \in Record
    BY <1>0, <1>5 DEF SendJob
<1>10. o = Owner(w) /\ o \in Holder /\ m \in Boxes(o)
  <2>1. o = Owner(w) /\ o \in Holder /\ st[o].name = effective_identity(w)
      BY <1>0, <1>8, <1>9, OwnerHolds
  <2> QED
      BY <1>0, <1>5, <2>1 DEF Addressed
<1>11. Mail(m) = Append(file[m], t)
  <2>1. outs # <<>> /\ outs[1] = AppendMailbox(m, t)
      BY <1>0, <1>5 DEF Durable, SendBegun
  <2>2. Ahead(m) /\ outs[1].rec = t
      BY SMTT(60), <2>1 DEF Ahead, AppendMailbox
  <2> QED
      BY <2>2 DEF Mail
<1>12. ASSUME NEW x \in out.ids, x # t.id
       PROVE  x \notin delivered[o]
  <2>0. PICK b : b = drain_await_batch(o, m, f, t) /\ x \in b.ids
      BY <1>8, <1>10, <1>12
  <2>1. PICK i \in DOMAIN file[m] :
           i > st[o].await_offsets[m] /\ file[m][i].ok /\ file[m][i].id = x
      BY SMTT(60), <1>12, <2>0, WokenIds
  <2>2. file[m] \in Seq(Record)
      BY <1>0, <1>9 DEF TypeOK
  <2>3. i \in DOMAIN Mail(m) /\ Mail(m)[i] = file[m][i]
      BY SMTT(60), <1>9, <1>11, <2>2
  <2> QED
      BY <1>10, <2>1, <2>3 DEF FreshInv
<1> QED
    BY <1>5, <1>12

(* Nothing that was given is given again by a later await or inbox poll,   *)
(* for every number of members, channels, proxies and posts and with every *)
(* cap, whatever the other does meanwhile and however often a member       *)
(* leaves and joins again; the awaits that one send answers share what is  *)
(* sent, and nothing older.                                                *)
THEOREM NothingTwice ==
    ASSUME Settled, Blank
    PROVE  Spec => NoReplay
<1> DEFINE GivesNew == Ready /\ Len(outs') = 1 /\ outs'[1].kind = "Reply" =>
              LET o == Owner(outs'[1].to)
              IN  /\ outs'[1].what = "AwaitOk" => outs'[1].ids \cap delivered[o] = {}
                  /\ outs'[1].what = "InboxOk" =>
                       \A ch \in st[o].joined : \A i \in DOMAIN file[ch] :
                          file[ch][i].id \in inboxed[o]
                              => file[ch][i].id \notin outs'[1].ids
           WakesNew == job # None /\ job.kind = "send" /\ Len(outs') > Len(outs) =>
              LET out == outs'[Len(outs')]
              IN  out.kind = "Reply" /\ out.what = "AwaitOk" =>
                     out.ids \cap delivered[Owner(out.to)] \subseteq {job.rec.id}
<1>1. Sound /\ CursorInv /\ FreshInv /\ PollInv /\ [Next]_vars => [GivesNew]_vars
  <2> SUFFICES ASSUME Sound, CursorInv, FreshInv, PollInv, Next,
                      Ready, Len(outs') = 1, outs'[1].kind = "Reply",
                      NEW o, o = Owner(outs'[1].to)
               PROVE  /\ outs'[1].what = "AwaitOk" => outs'[1].ids \cap delivered[o] = {}
                      /\ outs'[1].what = "InboxOk" =>
                           \A ch \in st[o].joined : \A i \in DOMAIN file[ch] :
                              file[ch][i].id \in inboxed[o]
                                  => file[ch][i].id \notin outs'[1].ids
      OBVIOUS
  <2>1. outs' # <<>>
      BY SMTT(60)
  <2>2. outs = <<>>
      BY DEF Ready
  <2>3. PICK c \in Conn : \/ \E f \in Filter : await_envelope(c, f)
                          \/ \E since \in 0 .. MaxMsg : inbox(c, since)
      BY <2>1, Answers
  <2>4. ASSUME NEW what, NEW G, outs' = <<Reply(c, what, G)>>
        PROVE  /\ outs'[1].to = c /\ outs'[1].ids = G /\ outs'[1].what = what
      BY SMTT(60), <2>4 DEF Reply
  <2>5. PICK p : p = Owner(c)
      OBVIOUS
  <2>6. CASE \E f \in Filter : await_envelope(c, f)
    <3>1. PICK G : outs' = <<Reply(c, "AwaitOk", G)>> /\ G \cap delivered[p] = {}
        BY <2>1, <2>2, <2>5, <2>6, AwaitGivesNew
    <3>2. outs'[1].to = c /\ outs'[1].ids = G /\ outs'[1].what = "AwaitOk"
        BY <2>4, <3>1
    <3> QED
        BY <2>5, <3>1, <3>2
  <2>7. CASE \E since \in 0 .. MaxMsg : inbox(c, since)
    <3>1. PICK G : outs' = <<Reply(c, "InboxOk", G)>> /\ G \cap inboxed[p] = {}
        BY <2>1, <2>2, <2>5, <2>7, InboxGivesNew
    <3>2. outs'[1].to = c /\ outs'[1].ids = G /\ outs'[1].what = "InboxOk"
        BY <2>4, <3>1
    <3> QED
        BY <2>5, <3>1, <3>2
  <2> QED
      BY <2>3, <2>6, <2>7
<1>2. Sound /\ FreshInv /\ [Next]_vars => [WakesNew]_vars
  <2> SUFFICES ASSUME Sound, FreshInv, Next, job # None, job.kind = "send",
                      Len(outs') > Len(outs), NEW out, out = outs'[Len(outs')],
                      out.kind = "Reply", out.what = "AwaitOk"
               PROVE  out.ids \cap delivered[Owner(out.to)] \subseteq {job.rec.id}
      OBVIOUS
  <2> QED
      BY WakeGivesNew
<1>3. (Spec => []Sound) /\ (Spec => []CursorInv) /\ (Spec => []FreshInv) /\ (Spec => []PollInv)
    BY AlwaysSound, AlwaysCursor, AlwaysFresh, AlwaysPoll
<1>4. (Spec => [][GivesNew]_vars) /\ (Spec => [][WakesNew]_vars)
  <2> HIDE DEF GivesNew, WakesNew
  <2> QED
      BY <1>1, <1>2, <1>3, PTL DEF Spec
<1> QED
    BY <1>4, PTL DEF NoReplay

(* A channel delivers to each member through two cursors, for every number *)
(* of members, channels, proxies and posts and with every cap: no await    *)
(* and no inbox poll passes over a post or repeats what it gave before,    *)
(* whatever the other does meanwhile, and nobody sleeps on a post.         *)
THEOREM ChannelsDeliver ==
    ASSUME Settled, OneTask, Blank
    PROVE  Spec => ChannelDelivers
<1>1. Sound /\ PollInv => InboxSkipsNothing
  <2> SUFFICES ASSUME Sound, PollInv, NEW o \in Holder, NEW ch \in st[o].joined,
                      NEW i \in DOMAIN file[ch], i <= st[o].inbox_offsets[ch],
                      file[ch][i].ok, file[ch][i].from # st[o].name
               PROVE  file[ch][i].id \in inboxed[o]
      BY DEF InboxSkipsNothing
  <2>1. TypeOK
      BY DEF Sound
  <2>2. ch \in Mailbox
      BY <2>1 DEF TypeOK, ClientState, Holder, Mailbox
  <2>3. file[ch] \in Seq(Record) /\ Mail(ch) \in Seq(Record)
      BY <2>1, <2>2, MailType DEF TypeOK
  <2>4. i \in DOMAIN Mail(ch) /\ Mail(ch)[i] = file[ch][i]
      BY SMTT(60), <2>3 DEF Mail
  <2> QED
      BY <2>4 DEF PollInv
<1>2. (Spec => []Sound) /\ (Spec => []PollInv)
    BY AlwaysSound, AlwaysPoll
<1>3. (Spec => []AwaitSkipsNothing) /\ (Spec => []NoLostWakeup)
    BY NothingSkipped, NobodySleeps
<1>4. Spec => [](AwaitSkipsNothing /\ InboxSkipsNothing /\ NoLostWakeup)
    BY <1>1, <1>2, <1>3, PTL
<1> QED
    BY <1>4, NothingTwice, PTL DEF ChannelDelivers

=============================================================================
