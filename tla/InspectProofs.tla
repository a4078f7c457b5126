---------------------------- MODULE InspectProofs ----------------------------
(***************************************************************************)
(* Proofs about the files beside the broker and about the inspector, for   *)
(* every set of processes, updaters, mailboxes and clients and every       *)
(* scenario: the inbox lock excludes, a task update is lost only to an     *)
(* overlapping one, the pages of a channel are whole, and the inspect      *)
(* permit is neither lost nor doubled.                                     *)
(***************************************************************************)
EXTENDS Inspect, FiniteSetTheorems, SequenceTheorems, TLAPS

(* Zenon proves a leaf unless the leaf asks for arithmetic (SMTT).         *)
USE ZenonT(60)

-----------------------------------------------------------------------------
(* What a step of the whole system is to the lock, the task directory and  *)
(* the reader of the channel.                                              *)

SideStep ==
    \/ LockNext /\ UNCHANGED <<storeVars, log>>
    \/ StoreNext /\ UNCHANGED sideVars
    \/ UNCHANGED <<lockVars, storeVars>>

LEMMA SideView == [Next]_vars => SideStep
<1> SUFFICES ASSUME [Next]_vars PROVE SideStep
    OBVIOUS
<1>1. CASE UNCHANGED vars
    BY <1>1 DEF vars, sideVars, SideStep
<1>2. ASSUME UNCHANGED <<sideVars, storeVars>> PROVE SideStep
    BY <1>2 DEF sideVars, SideStep
<1>3. ASSUME NEW h \in DOMAIN clock, Tick(h) PROVE SideStep
    BY <1>2, <1>3 DEF Tick
<1>4. ASSUME NEW a \in Agents, Send(a) \/ Rebind(a) PROVE SideStep
    BY <1>2, <1>4 DEF Send, Rebind
<1>5. ASSUME NEW m \in Boxes, Ack(m) PROVE SideStep
    BY <1>2, <1>5 DEF Ack
<1>6. ASSUME NEW r \in Reqs, Handle(r) \/ Reply(r) \/ Timeout(r) PROVE SideStep
    BY <1>2, <1>6 DEF Handle, Reply, Timeout
<1>7. ASSUME NEW t \in threads, ReadStep(t) \/ ThreadEnds(t) \/ Panic(t) PROVE SideStep
    BY <1>2, <1>7 DEF ReadStep, ThreadEnds, Panic
<1>8. ASSUME NEW c \in Clients, Disconnect(c) \/ WriteLoopEnds(c) PROVE SideStep
    BY <1>2, <1>8 DEF Disconnect, WriteLoopEnds
<1>9. ASSUME NEW c \in Clients, call(c) \/ Recv(c) \/ CallFails(c) \/ Connect(c) \/ Leave(c)
      PROVE  SideStep
    BY <1>2, <1>9 DEF call, Recv, CallFails, Connect, Leave
<1>10. CASE Store \/ Crash \/ Restart
    BY <1>2, <1>10 DEF Store, Crash, Restart
<1>11. CASE Wake
    BY <1>2, <1>11 DEF Wake, fetch_identity, fetch_parked, WakeReport, wakeRest
<1>12. CASE Lock
    BY <1>12 DEF Lock, SideStep
<1>13. CASE Update
    BY <1>13 DEF Update, SideStep
<1>14. CASE LogPage
    BY <1>14 DEF LogPage, SideStep
<1> QED
    BY <1>1, <1>3, <1>4, <1>5, <1>6, <1>7, <1>8, <1>9, <1>10, <1>11, <1>12, <1>13, <1>14
    DEF Next, Broker

-----------------------------------------------------------------------------
(* The inbox lock.                                                         *)

LockFile == [by : Procs, pid : Procs \cup {NoPid}]

LockPc == {"start", "create", "read", "refused", "reap", "write", "held", "dead"}

LockFiles == {<<>>} \cup {<<f>> : f \in LockFile}

LockType == lk \in [Procs -> [pc : LockPc, saw : LockFiles]] /\ lockfile \in LockFiles

(* A lock file names its maker or nobody.                                  *)
Signed(f) == f = <<>> \/ f[1].pid \in {NoPid, f[1].by}

(* While no lock was removed that was not stale, whoever made a lock and   *)
(* has not dropped it finds its own file in place; and what a process is   *)
(* about to remove as stale is a file of one that died.                    *)
ReapInv ==
    \A p \in Procs :
        /\ Signed(lk[p].saw)
        /\ AtLock(p, "reap") => ~(lk[p].saw # <<>> /\ is_alive(lk[p].saw[1].pid))

OwnerInv ==
    ~stolen => \A p \in Procs : lk[p].pc \in {"write", "held"} => lockfile # <<>> /\ lockfile[1].by = p

LockInv == LockType /\ Signed(lockfile) /\ ReapInv /\ OwnerInv

(* A process that goes on, and does not decide to remove a lock, changes   *)
(* nothing about the others, and kills or wakes nobody else.               *)
LEMMA LockMoves ==
    ASSUME LockInv, NEW p \in Procs, NEW pc \in LockPc \ {"reap"}, LockTo(p, pc), ~AtLock(p, "dead"),
           lockfile' \in LockFiles
    PROVE  /\ LockType' /\ ReapInv'
           /\ lk'[p].pc = pc /\ \A q \in Procs : q # p => lk'[q] = lk[q]
<1>1. LockType'
  <2> DEFINE v == [pc |-> pc, saw |-> <<>>]
  <2>1. v \in [pc : LockPc, saw : LockFiles]
      BY DEF LockFiles
  <2>2. lk' = [lk EXCEPT ![p] = v]
      BY DEF LockTo
  <2> HIDE DEF v
  <2> QED
      BY <2>1, <2>2 DEF LockInv, LockType
<1>2. lk'[p].pc = pc /\ lk'[p].saw = <<>> /\ \A q \in Procs : q # p => lk'[q] = lk[q]
    BY SMTT(60) DEF LockInv, LockType, LockTo
<1>3. \A q : is_alive(q)' => is_alive(q)
    BY SMTT(60) DEF is_alive, LockInv, LockType, LockTo, AtLock
<1>4. \A q \in Procs : lk'[q].saw \in {lk[q].saw, <<>>} /\ (AtLock(q, "reap")' => AtLock(q, "reap") /\ lk'[q].saw = lk[q].saw)
    BY SMTT(60), <1>2 DEF AtLock
<1>5. ReapInv'
    BY <1>3, <1>4 DEF LockInv, ReapInv, Signed
<1> QED
    BY <1>1, <1>2, <1>5

LEMMA LockInvNext == LockInv /\ [Next]_vars => LockInv'
<1> SUFFICES ASSUME LockInv, [Next]_vars PROVE LockInv'
    OBVIOUS
<1> USE DEF AtLock
<1>0. lockfile \in LockFiles /\ <<>> \in LockFiles
    BY DEF LockInv, LockType, LockFiles
<1>1. CASE UNCHANGED lockVars
    BY <1>1 DEF lockVars, LockInv, LockType, ReapInv, OwnerInv, is_alive
<1>2. ASSUME NEW p \in Procs, LockCheck(p) PROVE LockInv'
  <2>1. PICK pc \in {"create", "read"} : LockTo(p, pc) /\ lk[p].pc = "start" /\ UNCHANGED <<lockfile, stolen>>
      BY <1>2 DEF LockCheck
  <2>2. pc \in LockPc \ {"reap"} /\ pc \notin {"write", "held"} /\ lk[p].pc # "dead"
      BY SMTT(60), <2>1 DEF LockPc
  <2> QED
      BY <1>0, <2>1, <2>2, LockMoves DEF LockInv, OwnerInv
<1>3. ASSUME NEW p \in Procs, LockRead(p) PROVE LockInv'
  <2>1. PICK pc \in {"refused", "reap"} :
            /\ lk' = [lk EXCEPT ![p] = [pc |-> pc, saw |-> lockfile]]
            /\ pc = "reap" => ~(lockfile # <<>> /\ is_alive(lockfile[1].pid))
      BY <1>3 DEF LockRead
  <2>2. lk[p].pc = "read" /\ UNCHANGED <<lockfile, stolen>>
      BY <1>3 DEF LockRead
  <2>3. LockType'
      BY SMTT(60), <2>1, <2>2 DEF LockInv, LockType, LockPc
  <2>4. lk'[p].pc = pc /\ lk'[p].saw = lockfile /\ \A q \in Procs : q # p => lk'[q] = lk[q]
      BY SMTT(60), <2>1 DEF LockInv, LockType
  <2>5. \A q : is_alive(q)' => is_alive(q)
      BY SMTT(60), <2>1, <2>2 DEF is_alive, LockInv, LockType
  <2>6. ASSUME NEW q \in Procs
        PROVE  /\ Signed(lk'[q].saw)
               /\ lk'[q].pc = "reap" => ~(lk'[q].saw # <<>> /\ is_alive(lk[q].saw[1].pid)')
    <3>1. CASE q = p
        BY <2>1, <2>2, <2>4, <2>5, <3>1 DEF LockInv
    <3>2. CASE q # p
        BY <2>4, <2>5, <3>2 DEF LockInv, ReapInv
    <3> QED
        BY <3>1, <3>2
  <2>7. \A q \in Procs : lk'[q].pc \in {"write", "held"} => lk[q].pc \in {"write", "held"}
      BY SMTT(60), <2>1, <2>4
  <2>8. ReapInv'
      BY <2>6 DEF ReapInv
  <2> QED
      BY <2>2, <2>3, <2>7, <2>8 DEF LockInv, OwnerInv, Signed
<1>4. ASSUME NEW p \in Procs, LockReap(p) PROVE LockInv'
  <2>1. /\ lk[p].pc = "reap" /\ LockTo(p, "create") /\ lockfile' = <<>>
        /\ stolen' = (stolen \/ (/\ lockfile # <<>> /\ lk[lockfile[1].by].pc # "dead"
                                  /\ (lockfile # lk[p].saw \/ lockfile[1].pid = NoPid)))
      BY <1>4 DEF LockReap
  <2>2. "create" \in LockPc \ {"reap"} /\ "create" \notin {"write", "held"} /\ lk[p].pc # "dead"
      BY SMTT(60), <2>1 DEF LockPc
  <2>3. ASSUME ~stolen', NEW q \in Procs, lk[q].pc \in {"write", "held"} PROVE FALSE
    <3>0. lockfile # <<>> /\ lockfile[1].by = q
        BY <2>1, <2>3 DEF LockInv, OwnerInv
    <3>1. lockfile # <<>> /\ lockfile[1].by = q /\ lockfile = lk[p].saw /\ lockfile[1].pid # NoPid
      <4>1. lk[q].pc # "dead"
          BY SMTT(60), <2>3
      <4> QED
          BY <2>1, <2>3, <3>0, <4>1
    <3>2. lockfile[1].pid = q
        BY <3>1 DEF LockInv, Signed
    <3>3. ~is_alive(q)
        BY <2>1, <3>1, <3>2 DEF LockInv, ReapInv
    <3> QED
        BY <2>3, <3>1, <3>2, <3>3 DEF is_alive
  <2> QED
      BY <1>0, <2>1, <2>2, <2>3, LockMoves DEF LockInv, OwnerInv, Signed
<1>5. ASSUME NEW p \in Procs, LockCreate(p) PROVE LockInv'
  <2>1. CASE lockfile # <<>>
    <3>1. LockTo(p, "refused") /\ lk[p].pc = "create" /\ UNCHANGED <<lockfile, stolen>>
        BY <1>5, <2>1 DEF LockCreate
    <3>2. "refused" \in LockPc \ {"reap"} /\ "refused" \notin {"write", "held"} /\ lk[p].pc # "dead"
        BY SMTT(60), <3>1 DEF LockPc
    <3> QED
        BY <1>0, <3>1, <3>2, LockMoves DEF LockInv, OwnerInv
  <2>2. CASE lockfile = <<>>
    <3> DEFINE f == <<[by |-> p, pid |-> NoPid]>>
    <3>1. LockTo(p, "write") /\ lk[p].pc = "create" /\ lockfile' = f /\ UNCHANGED stolen
        BY <1>5, <2>2 DEF LockCreate
    <3>2. "write" \in LockPc \ {"reap"} /\ lk[p].pc # "dead"
        BY SMTT(60), <3>1 DEF LockPc
    <3>3. f \in LockFiles /\ f # <<>> /\ f[1].by = p /\ f[1].pid = NoPid
        BY SMTT(60) DEF LockFiles, LockFile
    <3> HIDE DEF f
    <3> QED
        BY <2>2, <3>1, <3>2, <3>3, LockMoves DEF LockInv, OwnerInv, Signed
  <2> QED
      BY <2>1, <2>2
<1>6. ASSUME NEW p \in Procs, LockWrite(p) PROVE LockInv'
  <2> DEFINE f == <<[by |-> p, pid |-> p]>>
  <2>1. /\ lk[p].pc = "write" /\ LockTo(p, "held") /\ UNCHANGED stolen
        /\ lockfile' = IF lockfile # <<>> /\ lockfile[1].by = p THEN f ELSE lockfile
      BY <1>6 DEF LockWrite
  <2>2. "held" \in LockPc \ {"reap"} /\ lk[p].pc # "dead"
      BY SMTT(60), <2>1 DEF LockPc
  <2>3. f \in LockFiles /\ f # <<>> /\ f[1].by = p /\ f[1].pid = p
      BY SMTT(60) DEF LockFiles, LockFile
  <2> HIDE DEF f
  <2>4. /\ lockfile' \in LockFiles /\ Signed(lockfile')
        /\ lockfile # <<>> => lockfile' # <<>> /\ lockfile'[1].by = lockfile[1].by
      BY <1>0, <2>1, <2>3 DEF LockInv, Signed
  <2> QED
      BY <2>1, <2>2, <2>4, LockMoves DEF LockInv, OwnerInv, Signed
<1>7. ASSUME NEW p \in Procs, LockDrop(p) PROVE LockInv'
  <2>1. /\ lk[p].pc = "held" /\ LockTo(p, "start") /\ lockfile' = <<>>
        /\ UNCHANGED stolen
      BY <1>7 DEF LockDrop
  <2>2. "start" \in LockPc \ {"reap"} /\ "start" \notin {"write", "held"} /\ lk[p].pc # "dead"
      BY SMTT(60), <2>1 DEF LockPc
  <2>3. \A q \in Procs : ~stolen /\ lk[q].pc \in {"write", "held"} => q = p
      BY <2>1 DEF LockInv, OwnerInv
  <2> QED
      BY <1>0, <2>1, <2>2, <2>3, LockMoves DEF LockInv, OwnerInv, Signed
<1>8. ASSUME NEW p \in Procs, LockDie(p) PROVE LockInv'
  <2>1. lk[p].pc # "dead" /\ LockTo(p, "dead") /\ UNCHANGED <<lockfile, stolen>>
      BY <1>8 DEF LockDie
  <2>2. "dead" \in LockPc \ {"reap"} /\ "dead" \notin {"write", "held"}
      BY SMTT(60) DEF LockPc
  <2> QED
      BY <1>0, <2>1, <2>2, LockMoves DEF LockInv, OwnerInv
<1> QED
    BY SideView, <1>1, <1>2, <1>3, <1>4, <1>5, <1>6, <1>7, <1>8 DEF SideStep, LockNext, sideVars

(* InboxLock: two processes hold the lock only after a live one has lost   *)
(* its file to a process that had found an older, stale one in its place,  *)
(* or had found this one before the process id was in it.                  *)
THEOREM LockExcludes == Spec => []LockIsExclusive
<1>1. Init => LockInv
    BY SMTT(60) DEF Init, InboxInit, LockInv, LockType, LockPc, LockFiles, ReapInv, OwnerInv, AtLock, Signed
<1>2. LockInv => LockIsExclusive
    BY DEF LockInv, OwnerInv, LockIsExclusive, AtLock
<1> QED
    BY <1>1, <1>2, LockInvNext, PTL DEF Spec

-----------------------------------------------------------------------------
(* The task directory.                                                     *)

(* What an updater is about to write builds on every call that is kept,    *)
(* except those that finished since it read the record.                    *)
StoreInv ==
    /\ td = [u \in Updaters |-> td[u]]
    /\ UpdatesKept
    /\ \A u \in Updaters : td[u].pc = "write" =>
          /\ td[u] = [pc |-> td[u].pc, id |-> td[u].id, next |-> td[u].next, during |-> td[u].during]
          /\ td[u].id \in td[u].next.has
          /\ kept \ td[u].during \subseteq td[u].next.has

(* A call that begins builds on all that is kept, because it read it.      *)
LEMMA BeginKeeps ==
    ASSUME StoreInv, NEW u \in Updaters, NEW r, NEW s, NEW b, r = Record(s, b),
           NEW had, Begin(u, r, had), kept \subseteq had
    PROVE  StoreInv'
<1> DEFINE v == [pc |-> "write", id |-> calls', during |-> {}, next |-> [r EXCEPT !.has = had \cup {calls'}]]
<1>1. td' = [td EXCEPT ![u] = v] /\ UNCHANGED <<rec, kept>>
    BY DEF Begin
<1>2. /\ v.during = {} /\ v.next.has = had \cup {calls'} /\ v.id = calls'
      /\ v = [pc |-> v.pc, id |-> v.id, next |-> v.next, during |-> v.during]
    BY SMTT(60) DEF Record
<1> HIDE DEF v
<1>3. UpdatesKept'
    BY <1>1 DEF StoreInv, UpdatesKept, Exists
<1>4. ASSUME NEW w \in Updaters, td'[w].pc = "write"
      PROVE  /\ td'[w] = [pc |-> td'[w].pc, id |-> td'[w].id, next |-> td'[w].next, during |-> td'[w].during]
             /\ td'[w].id \in td'[w].next.has
             /\ kept' \ td'[w].during \subseteq td'[w].next.has
  <2>1. CASE w = u
      BY <1>1, <1>2, <2>1 DEF StoreInv
  <2>2. CASE w # u
      BY <1>1, <1>4, <2>2 DEF StoreInv
  <2> QED
      BY <2>1, <2>2
<1>5. td' = [w \in Updaters |-> td'[w]]
    BY <1>1 DEF StoreInv
<1> QED
    BY <1>3, <1>4, <1>5 DEF StoreInv

LEMMA StoreInvNext == StoreInv /\ [Next]_vars => StoreInv'
<1> SUFFICES ASSUME StoreInv, [Next]_vars PROVE StoreInv'
    OBVIOUS
<1>0. Idle.pc # "write"
    BY SMTT(60) DEF Idle
<1>1. CASE UNCHANGED storeVars
    BY <1>1 DEF storeVars, StoreInv, UpdatesKept, Exists
<1>2. ASSUME NEW u \in Updaters, Create(u) PROVE StoreInv'
  <2>1. PICK r \in {new_requested, new_committed} : Begin(u, r, {})
      BY <1>2 DEF Create
  <2>2. kept \subseteq {}
      BY <1>2 DEF Create, StoreInv, UpdatesKept
  <2>3. r = Record("REQUESTED", FALSE) \/ r = Record("COMMITTED", FALSE)
      BY <2>1 DEF new_requested, new_committed
  <2> QED
      BY <2>1, <2>2, <2>3, BeginKeeps
<1>3. ASSUME NEW u \in Updaters, update(u) PROVE StoreInv'
  <2>1. PICK r \in Mutated : Begin(u, r, rec[Task].has)
      BY <1>3 DEF update
  <2>2. kept \subseteq rec[Task].has
      BY <1>3 DEF update, StoreInv, UpdatesKept
  <2>3. r = Record("COMPLETED", TRUE) \/ r = Record("REQUESTED", TRUE)
      BY <2>1 DEF Mutated
  <2> QED
      BY <2>1, <2>2, <2>3, BeginKeeps
<1>4. ASSUME NEW u \in Updaters, write_atomic_file(u) PROVE StoreInv'
  <2>1. PICK ok \in BOOLEAN : kept' = (kept \ td[u].during) \cup {i \in {td[u].id} : ok}
      BY <1>4 DEF write_atomic_file
  <2>2. td' = [v \in Updaters |-> IF v = u THEN Idle ELSE [td[v] EXCEPT !.during = @ \cup {td[u].id}]]
      BY <1>4 DEF write_atomic_file
  <2>3. Exists' /\ rec'[Task] = td[u].next
      BY <1>4 DEF write_atomic_file, Exists
  <2>4. kept' \subseteq td[u].next.has
      BY <1>4, <2>1 DEF write_atomic_file, StoreInv
  <2>5. UpdatesKept'
      BY <2>3, <2>4 DEF UpdatesKept
  <2>6. ASSUME NEW w \in Updaters, td'[w].pc = "write"
        PROVE  /\ td'[w] = [pc |-> td'[w].pc, id |-> td'[w].id, next |-> td'[w].next, during |-> td'[w].during]
               /\ td'[w].id \in td'[w].next.has
               /\ kept' \ td'[w].during \subseteq td'[w].next.has
    <3>1. w # u
        BY <1>0, <2>2, <2>6
    <3> DEFINE x == [td[w] EXCEPT !.during = @ \cup {td[u].id}]
    <3>2. td'[w] = x
        BY <2>2, <3>1
    <3>2a. td[w].pc = x.pc
        BY SMTT(60)
    <3>3. td[w].pc = "write"
        BY <2>6, <3>2, <3>2a
    <3>4. td[w] = [pc |-> td[w].pc, id |-> td[w].id, next |-> td[w].next, during |-> td[w].during]
        BY <3>3 DEF StoreInv
    <3>5. /\ x.id = td[w].id /\ x.next = td[w].next /\ x.during = td[w].during \cup {td[u].id}
          /\ x = [pc |-> x.pc, id |-> x.id, next |-> x.next, during |-> x.during]
        BY SMTT(60), <3>4
    <3> HIDE DEF x
    <3>6. td[w].id \in td[w].next.has /\ kept \ td[w].during \subseteq td[w].next.has
        BY <3>3 DEF StoreInv
    <3> QED
        BY <2>1, <3>2, <3>5, <3>6
  <2>7. td' = [w \in Updaters |-> td'[w]]
      BY <2>2
  <2> QED
      BY <2>5, <2>6, <2>7 DEF StoreInv
<1>5. ASSUME NEW u \in Updaters, UpdaterDies(u) PROVE StoreInv'
    BY <1>0, <1>5 DEF UpdaterDies, StoreInv, UpdatesKept, Exists
<1> QED
    BY SideView, <1>1, <1>2, <1>3, <1>4, <1>5 DEF SideStep, StoreNext, storeVars

(* famp-taskdir: a create or an update that returned Ok is lost only to a  *)
(* call that had begun before its rename and finished after it, whatever   *)
(* number of updaters run side by side and wherever they die.              *)
THEOREM UpdatesStay == Spec => []UpdatesKept
<1>1. Init => StoreInv
  <2>1. Idle.pc # "write"
      BY SMTT(60) DEF Idle
  <2> QED
      BY <2>1 DEF Init, StoreInit, StoreInv, UpdatesKept
<1>2. StoreInv => UpdatesKept
    BY DEF StoreInv
<1> QED
    BY <1>1, <1>2, StoreInvNext, PTL DEF Spec

-----------------------------------------------------------------------------
(* The inspect permit.                                                     *)

IsReq(v) == v = [pc |-> v.pc, pay |-> v.pay, at |-> v.at, end |-> v.end]

IsThread(t) ==
    t = [r |-> t.r, view |-> t.view, todo |-> t.todo, cursor |-> t.cursor, meta |-> t.meta,
         recs |-> t.recs, snap |-> t.snap]

AskShape ==
    /\ req = [r \in Reqs |-> req[r]] /\ \A r \in Reqs : IsReq(req[r])
    /\ \A t \in threads : IsThread(t) /\ t.r \in Reqs

Hands == {r \in Reqs : At(r, "hand")}

(* One holder: nobody, a thread, or a reply that is handed over.           *)
OneHolder ==
    \/ permits = 1 /\ threads = {} /\ Hands = {}
    \/ permits = 0 /\ Hands = {} /\ \E t : threads = {t}
    \/ permits = 0 /\ threads = {} /\ \E r : Hands = {r}

PermitInv == AskShape /\ OneHolder

LEMMA FieldsMove ==
    ASSUME NEW q, IsReq(q), NEW x, NEW y
    PROVE  /\ [q EXCEPT !.pc = x, !.at = y] = [pc |-> x, pay |-> q.pay, at |-> y, end |-> q.end]
           /\ [q EXCEPT !.pc = x, !.pay = y] = [pc |-> x, pay |-> y, at |-> q.at, end |-> q.end]
<1> DEFINE q1 == [q EXCEPT !.pc = x]
<1>1. q1 = [pc |-> x, pay |-> q.pay, at |-> q.at, end |-> q.end]
    BY SMTT(60) DEF IsReq
<1> HIDE DEF q1
<1>2. IsReq(q1) /\ q1.pc = x /\ q1.pay = q.pay /\ q1.at = q.at /\ q1.end = q.end
    BY SMTT(60), <1>1 DEF IsReq
<1>3. [q1 EXCEPT !.pay = y] = [pc |-> x, pay |-> y, at |-> q.at, end |-> q.end]
    BY SMTT(60), <1>2 DEF IsReq
<1>4. [q1 EXCEPT !.at = y] = [pc |-> x, pay |-> q.pay, at |-> y, end |-> q.end]
    BY SMTT(60), <1>2 DEF IsReq
<1> QED
    BY <1>3, <1>4 DEF q1

(* What a change of one request does to the requests that hand over.       *)
LEMMA RequestMoves ==
    ASSUME AskShape, NEW r \in Reqs, NEW v, IsReq(v), req' = [req EXCEPT ![r] = v]
    PROVE  /\ req' = [q \in Reqs |-> req'[q]] /\ \A q \in Reqs : IsReq(req'[q])
           /\ req'[r] = v /\ \A q \in Reqs : q # r => req'[q] = req[q]
           /\ v.pc = "hand" => Hands' = Hands \cup {r}
           /\ v.pc # "hand" => Hands' = Hands \ {r}
<1>1. DOMAIN req = Reqs /\ DOMAIN req' = Reqs
    BY DEF AskShape
<1>2. req'[r] = v /\ \A q \in Reqs : q # r => req'[q] = req[q]
    BY <1>1
<1>3. req' = [q \in Reqs |-> req'[q]]
    BY <1>1
<1>4. \A q \in Reqs : IsReq(req'[q])
    BY <1>2 DEF AskShape
<1>5. v.pc = "hand" => Hands' = Hands \cup {r}
    BY <1>2 DEF Hands, At
<1>6. v.pc # "hand" => Hands' = Hands \ {r}
    BY <1>2 DEF Hands, At
<1> QED
    BY <1>2, <1>3, <1>4, <1>5, <1>6

LEMMA ToMoves ==
    ASSUME AskShape, NEW r \in Reqs, NEW pc, NEW pay, To(r, pc, pay)
    PROVE  /\ req' = [q \in Reqs |-> req'[q]] /\ \A q \in Reqs : IsReq(req'[q])
           /\ req'[r].pc = pc /\ req'[r].pay = pay /\ \A q \in Reqs : q # r => req'[q] = req[q]
           /\ pc = "hand" => Hands' = Hands \cup {r}
           /\ pc # "hand" => Hands' = Hands \ {r}
<1> DEFINE v == [pc |-> pc, pay |-> pay, at |-> req[r].at, end |-> req[r].end]
<1>1. req' = [req EXCEPT ![r] = v]
    BY DEF To
<1>2. IsReq(v) /\ v.pc = pc /\ v.pay = pay
    BY SMTT(60) DEF IsReq
<1> HIDE DEF v
<1> QED
    BY <1>1, <1>2, RequestMoves

(* The read step of a thread is the thread's own.                          *)
ReadBy(t) ==
    LET h == Head(t.todo)
        u == [t EXCEPT !.todo = Tail(@)]
    IN  CASE h.op = "tasks" -> walk_taskdir(u)
          [] h.op = "snap" -> read_message_snapshot(u, h)
          [] OTHER -> read_mailbox_meta_for(u, h)

LEMMA ReadKeeps ==
    ASSUME NEW t, IsThread(t)
    PROVE  IsThread(ReadBy(t)) /\ ReadBy(t).r = t.r /\ ReadBy(t).view = t.view
<1> DEFINE h == Head(t.todo)
           u == [t EXCEPT !.todo = Tail(@)]
           Good(x) == IsThread(x) /\ x.r = t.r /\ x.view = t.view
<1>0. \A x : Good([t EXCEPT !.todo = x])
    BY SMTT(60) DEF IsThread
<1>1. Good(u)
    BY <1>0
<1> HIDE DEF u, h
<1>2. \A x : Good([u EXCEPT !.recs = x])
    BY SMTT(60), <1>1 DEF IsThread
<1>3. \A x : Good([u EXCEPT !.snap = x])
    BY SMTT(60), <1>1 DEF IsThread
<1>4. \A x : Good([u EXCEPT !.cursor = x])
    BY SMTT(60), <1>1 DEF IsThread
<1>5. \A x : Good([u EXCEPT !.meta = x])
    BY SMTT(60), <1>1 DEF IsThread
<1> HIDE DEF Good
<1>6. Good(walk_taskdir(u))
    BY <1>2 DEF walk_taskdir
<1>7. Good(read_message_snapshot(u, h))
    BY <1>3 DEF read_message_snapshot
<1>8. Good(read_mailbox_meta_for(u, h))
  <2>1. \A x : Good([u EXCEPT !.cursor[h.n] = x])
      BY <1>4
  <2>2. \A x : Good([u EXCEPT !.meta[h.n] = x]) /\ Good([u EXCEPT !.meta[h.n].unread = x])
      BY <1>5
  <2> QED
      BY <1>1, <2>1, <2>2 DEF read_mailbox_meta_for
<1> QED
    BY <1>6, <1>7, <1>8 DEF ReadBy, Good, h, u

LEMMA PermitInvNext == PermitInv /\ [Next]_vars => PermitInv'
<1> SUFFICES ASSUME PermitInv, [Next]_vars PROVE PermitInv'
    OBVIOUS
<1> USE DEF At
<1>0. AskShape /\ OneHolder
    BY DEF PermitInv
<1>1. ASSUME UNCHANGED <<permits, req, threads>> PROVE PermitInv'
    BY <1>1 DEF PermitInv, AskShape, OneHolder, Hands
<1>2. CASE UNCHANGED vars
    BY <1>1, <1>2 DEF vars, askVars
<1>3. ASSUME NEW r \in Reqs, NEW pc \in {"done", "dropped", "late", "asked"}, NEW pay, To(r, pc, pay),
             ~At(r, "hand"), UNCHANGED <<permits, threads>>
      PROVE  PermitInv'
  <2>1. pc # "hand"
      BY <1>3
  <2>2. Hands' = Hands /\ AskShape'
      BY <1>0, <1>3, <2>1, ToMoves DEF AskShape, Hands
  <2> QED
      BY <1>0, <1>3, <2>2 DEF PermitInv, OneHolder
<1>4. ASSUME NEW r \in Reqs, Handle(r) PROVE PermitInv'
  <2>0. ~At(r, "hand") /\ ~At(r, "waiting") /\ At(r, "asked")
      BY <1>4 DEF Handle
  <2>1. CASE To(r, "dropped", None) /\ UNCHANGED <<permits, threads>>
      BY <1>3, <2>0, <2>1
  <2>2. CASE To(r, "done", None) /\ UNCHANGED <<permits, threads>>
      BY <1>3, <2>0, <2>2
  <2>3. ASSUME NEW n, NEW w, NEW d, permits > 0, permits' = permits - 1,
               req' = [req EXCEPT ![r].pc = "waiting", ![r].at = n],
               threads' = threads \cup
                 {[r |-> r, view |-> w, todo |-> d, cursor |-> [a \in Agents |-> 0],
                   meta |-> [a \in Agents |-> MailboxMeta], recs |-> <<>>, snap |-> <<>>]}
        PROVE  PermitInv'
    <3>1. permits = 1 /\ threads = {} /\ Hands = {} /\ permits' = 0
        BY SMTT(60), <1>0, <2>3 DEF OneHolder
    <3> DEFINE v == [pc |-> "waiting", pay |-> req[r].pay, at |-> n, end |-> req[r].end]
    <3>2. IsReq(v) /\ v.pc # "hand"
        BY SMTT(60) DEF IsReq
    <3>3. IsReq(req[r]) /\ DOMAIN req = Reqs
        BY <1>0 DEF AskShape
    <3>4. req' = [req EXCEPT ![r] = v]
      <4>1. [req[r] EXCEPT !.pc = "waiting", !.at = n] = v
          BY <3>3, FieldsMove
      <4>2. req' = [req EXCEPT ![r] = [req[r] EXCEPT !.pc = "waiting", !.at = n]]
          BY <2>3, <3>3
      <4> QED
          BY <4>1, <4>2
    <3> HIDE DEF v
    <3>5. Hands' = {} /\ req' = [q \in Reqs |-> req'[q]] /\ \A q \in Reqs : IsReq(req'[q])
        BY <1>0, <3>1, <3>2, <3>4, RequestMoves
    <3>6. ASSUME NEW m
          PROVE LET t == [r |-> r, view |-> w, todo |-> d, cursor |-> [a \in Agents |-> 0],
                          meta |-> m, recs |-> <<>>, snap |-> <<>>]
                IN  IsThread(t) /\ t.r = r
        BY SMTT(60) DEF IsThread
    <3>7. \E t : threads' = {t} /\ IsThread(t) /\ t.r = r
        BY <2>3, <3>1, <3>6
    <3> QED
        BY <3>1, <3>5, <3>7 DEF PermitInv, AskShape, OneHolder
  <2> QED
      BY <1>4, <2>1, <2>2, <2>3 DEF Handle
<1>5. ASSUME NEW t \in threads, ReadStep(t) PROVE PermitInv'
  <2>1. threads' = (threads \ {t}) \cup {ReadBy(t)} /\ UNCHANGED <<permits, req>>
      BY <1>5 DEF ReadStep, ReadBy
  <2>2. threads = {t} /\ IsThread(t) /\ t.r \in Reqs
      BY <1>0 DEF OneHolder, AskShape
  <2>3. threads' = {ReadBy(t)} /\ IsThread(ReadBy(t)) /\ ReadBy(t).r \in Reqs
      BY <2>1, <2>2, ReadKeeps
  <2>4. Hands' = Hands
      BY <2>1 DEF Hands
  <2> QED
      BY <1>0, <2>1, <2>2, <2>3, <2>4 DEF PermitInv, AskShape, OneHolder
<1>6. ASSUME NEW t \in threads, threads' = threads \ {t} PROVE threads = {t} /\ threads' = {} /\ permits = 0 /\ Hands = {} /\ t.r \in Reqs
    BY <1>0, <1>6 DEF OneHolder, AskShape
<1>7. ASSUME NEW t \in threads, ThreadEnds(t) PROVE PermitInv'
  <2>0. threads' = {} /\ permits = 0 /\ Hands = {} /\ t.r \in Reqs
      BY <1>6, <1>7 DEF ThreadEnds
  <2>1. CASE ~At(t.r, "waiting")
    <3>1. permits' = 1 /\ UNCHANGED req
        BY SMTT(60), <1>7, <2>0, <2>1 DEF ThreadEnds
    <3>2. Hands' = {}
        BY <2>0, <3>1 DEF Hands
    <3> QED
        BY <1>0, <2>0, <3>1, <3>2 DEF PermitInv, AskShape, OneHolder
  <2>2. CASE At(t.r, "waiting")
    <3>1. PICK p, n : req' = [req EXCEPT ![t.r].pc = "hand", ![t.r].pay = p, ![t.r].end = n]
        BY <1>7, <2>2 DEF ThreadEnds
    <3> DEFINE v == [pc |-> "hand", pay |-> p, at |-> req[t.r].at, end |-> n]
    <3>2. IsReq(v) /\ v.pc = "hand"
        BY SMTT(60) DEF IsReq
    <3>3. IsReq(req[t.r]) /\ DOMAIN req = Reqs
        BY <1>0, <2>0 DEF AskShape
    <3>4. req' = [req EXCEPT ![t.r] = v]
      <4>1. [req[t.r] EXCEPT !.pc = "hand", !.pay = p, !.end = n] = v
        <5> DEFINE q == req[t.r]
        <5> SUFFICES [q EXCEPT !.pc = "hand", !.pay = p, !.end = n]
                        = [pc |-> "hand", pay |-> p, at |-> q.at, end |-> n]
            OBVIOUS
        <5>1. IsReq(q)
            BY <3>3
        <5> HIDE DEF q
        <5> DEFINE q2 == [q EXCEPT !.pc = "hand", !.pay = p]
        <5>2. q2 = [pc |-> "hand", pay |-> p, at |-> q.at, end |-> q.end]
            BY <5>1, FieldsMove
        <5> HIDE DEF q2
        <5>3. [q2 EXCEPT !.end = n] = [pc |-> "hand", pay |-> p, at |-> q.at, end |-> n]
            BY SMTT(60), <5>2
        <5> QED
            BY <5>3 DEF q2
      <4>2. req' = [req EXCEPT ![t.r] = [req[t.r] EXCEPT !.pc = "hand", !.pay = p, !.end = n]]
          BY <2>0, <3>1, <3>3
      <4> QED
          BY <4>1, <4>2
    <3> HIDE DEF v
    <3>5. Hands' = {t.r} /\ req' = [q \in Reqs |-> req'[q]] /\ \A q \in Reqs : IsReq(req'[q])
        BY <1>0, <2>0, <3>2, <3>4, RequestMoves
    <3>6. permits' = 0
        BY <1>7, <2>0, <2>2 DEF ThreadEnds
    <3> QED
        BY <2>0, <3>5, <3>6 DEF PermitInv, AskShape, OneHolder
  <2> QED
      BY <2>1, <2>2
<1>8. ASSUME NEW t \in threads, Panic(t) PROVE PermitInv'
  <2>0. threads' = {} /\ permits = 0 /\ Hands = {} /\ t.r \in Reqs
      BY <1>6, <1>8 DEF Panic
  <2>1. permits' = 1
      BY SMTT(60), <1>8, <2>0 DEF Panic
  <2>2. CASE UNCHANGED req
    <3>1. Hands' = {}
        BY <2>0, <2>2 DEF Hands
    <3> QED
        BY <1>0, <2>0, <2>1, <2>2, <3>1 DEF PermitInv, AskShape, OneHolder
  <2>3. CASE To(t.r, "late", Budget)
    <3>0. "late" # "hand"
        OBVIOUS
    <3>1. Hands' = {} /\ req' = [q \in Reqs |-> req'[q]] /\ \A q \in Reqs : IsReq(req'[q])
      <4>1. PICK b : To(t.r, "late", b)
          BY <2>3
      <4> QED
          BY <1>0, <2>0, <3>0, <4>1, ToMoves
    <3> QED
        BY <2>0, <2>1, <3>1 DEF PermitInv, AskShape, OneHolder
  <2> QED
      BY <1>8, <2>2, <2>3 DEF Panic
<1>9. ASSUME NEW r \in Reqs, Timeout(r) PROVE PermitInv'
  <2>1. ~At(r, "hand")
      BY <1>9 DEF Timeout
  <2> QED
      BY <1>3, <1>9, <2>1 DEF Timeout
<1>10. ASSUME NEW r \in Reqs, Reply(r) PROVE PermitInv'
  <2>1. CASE At(r, "hand")
    <3>1. Hands = {r} /\ threads = {} /\ permits = 0
        BY <1>0, <2>1 DEF OneHolder, Hands
    <3>2. permits' = 1 /\ threads' = {}
        BY SMTT(60), <1>10, <2>1, <3>1 DEF Reply
    <3>3. Hands' = {} /\ req' = [q \in Reqs |-> req'[q]] /\ \A q \in Reqs : IsReq(req'[q])
        BY <1>0, <1>10, <3>1, ToMoves DEF Reply
    <3> QED
        BY <3>2, <3>3 DEF PermitInv, AskShape, OneHolder
  <2>2. CASE ~At(r, "hand")
      BY <1>3, <1>10, <2>2 DEF Reply
  <2> QED
      BY <2>1, <2>2
<1>11. CASE Crash
  <2>1. \A r \in Reqs : req'[r] = IF req[r].pc = "none" THEN req[r] ELSE [req[r] EXCEPT !.pc = "done", !.pay = None]
      BY <1>11 DEF Crash
  <2>2. \A r \in Reqs : IsReq(req'[r]) /\ req'[r].pc # "hand"
    <3> TAKE r \in Reqs
    <3>1. IsReq(req[r])
        BY <1>0 DEF AskShape
    <3>2. [req[r] EXCEPT !.pc = "done", !.pay = None] = [pc |-> "done", pay |-> None, at |-> req[r].at, end |-> req[r].end]
        BY <3>1, FieldsMove
    <3>3. \A x, y : IsReq([pc |-> "done", pay |-> None, at |-> x, end |-> y])
        BY SMTT(60) DEF IsReq
    <3>4. \A x, y : [pc |-> "done", pay |-> None, at |-> x, end |-> y].pc # "hand"
        BY SMTT(60)
    <3>5. CASE req[r].pc = "none"
      <4>1. req'[r] = req[r] /\ req[r].pc # "hand"
          BY <2>1, <3>5
      <4> QED
          BY <3>1, <4>1
    <3>6. CASE req[r].pc # "none"
      <4>1. req'[r] = [pc |-> "done", pay |-> None, at |-> req[r].at, end |-> req[r].end]
          BY <2>1, <3>2, <3>6
      <4> QED
          BY <3>3, <3>4, <4>1
    <3> QED
        BY <3>5, <3>6
  <2>3. permits' = 1 /\ threads' = {} /\ req' = [r \in Reqs |-> req'[r]]
      BY <1>11 DEF Crash
  <2>4. Hands' = {}
      BY <2>2 DEF Hands
  <2> QED
      BY <2>2, <2>3, <2>4 DEF PermitInv, AskShape, OneHolder
<1>12. ASSUME NEW c \in Clients, call(c) PROVE PermitInv'
  <2>1. PICK k \in DOMAIN Plan.kinds[c] : Asked(c) = 1 .. k - 1 /\ To(<<c, k>>, "asked", None)
      BY <1>12 DEF call
  <2>2. UNCHANGED <<permits, threads>>
      BY <1>12 DEF call
  <2>3. CASE <<c, k>> \in Reqs
    <3>1. k \in 1 .. MaxAsk /\ k \notin 1 .. k - 1
        BY SMTT(60), <2>3 DEF Reqs
    <3>2. At(<<c, k>>, "none")
        BY <2>1, <3>1 DEF Asked
    <3> QED
        BY <1>3, <2>1, <2>2, <2>3, <3>2
  <2>4. CASE <<c, k>> \notin Reqs
    <3>1. DOMAIN req = Reqs /\ req = [r \in Reqs |-> req[r]]
        BY <1>0 DEF AskShape
    <3>2. req' = req
        BY <2>1, <2>4, <3>1 DEF To
    <3> QED
        BY <1>1, <2>2, <3>2
  <2> QED
      BY <2>3, <2>4
<1>13. ASSUME NEW h \in DOMAIN clock, Tick(h) PROVE PermitInv'
    BY <1>1, <1>13 DEF Tick, askVars
<1>14. ASSUME NEW a \in Agents, Send(a) \/ Rebind(a) PROVE PermitInv'
    BY <1>1, <1>14 DEF Send, Rebind, askVars
<1>15. ASSUME NEW m \in Boxes, Ack(m) PROVE PermitInv'
    BY <1>1, <1>15 DEF Ack, askVars
<1>16. ASSUME NEW c \in Clients,
              Disconnect(c) \/ WriteLoopEnds(c) \/ Recv(c) \/ CallFails(c) \/ Connect(c) \/ Leave(c)
       PROVE  PermitInv'
    BY <1>1, <1>16 DEF Disconnect, WriteLoopEnds, Recv, CallFails, Connect, Leave
<1>17. CASE Store \/ Restart
    BY <1>1, <1>17 DEF Store, Restart, askVars
<1>18. CASE Wake
    BY <1>1, <1>18 DEF Wake, fetch_identity, fetch_parked, WakeReport, wakeRest
<1>19. CASE Lock \/ Update \/ LogPage
    BY <1>1, <1>19 DEF Lock, Update, LogPage, OthersUnchanged, askVars
<1> QED
    BY <1>2, <1>4, <1>5, <1>7, <1>8, <1>9, <1>10, <1>11, <1>12, <1>13, <1>14, <1>15, <1>16, <1>17, <1>18, <1>19
    DEF Next, Broker

LEMMA PermitInvInit == Init => PermitInv
<1> SUFFICES ASSUME Init PROVE PermitInv
    OBVIOUS
<1>1. \A r \in Reqs : IsReq(req[r]) /\ req[r].pc # "hand"
  <2>1. \A x : IsReq([pc |-> "none", pay |-> x, at |-> x, end |-> x])
      BY SMTT(60) DEF IsReq
  <2> QED
      BY <2>1 DEF Init
<1>2. permits = 1 /\ threads = {} /\ req = [r \in Reqs |-> req[r]]
    BY DEF Init
<1> QED
    BY <1>1, <1>2 DEF PermitInv, AskShape, OneHolder, Hands, At

(* MAX_CONCURRENT_INSPECT_REQUESTS: the one permit is free, with the one   *)
(* thread that walks the files, or with the one reply that is handed over: *)
(* a request that timed out, panicked or lost its client neither keeps it  *)
(* nor gives it back twice.                                                *)
THEOREM PermitIsOne == Spec => []PermitIsHeldOnce
<1>2. PermitInv => PermitIsHeldOnce
  <2>1. Cardinality({}) = 0 /\ \A x : Cardinality({x}) = 1
      BY FS_EmptySet, FS_Singleton
  <2>2. ASSUME OneHolder PROVE permits + Cardinality(threads) + Cardinality(Hands) = 1
    <3>1. CASE permits = 1 /\ threads = {} /\ Hands = {}
        BY SMTT(60), <2>1, <3>1
    <3>2. ASSUME NEW t, permits = 0, Hands = {}, threads = {t}
          PROVE  permits + Cardinality(threads) + Cardinality(Hands) = 1
      <4>1. Cardinality(threads) = 1 /\ Cardinality(Hands) = 0
          BY <2>1, <3>2
      <4> QED
          BY SMTT(60), <3>2, <4>1
    <3>3. ASSUME NEW r, permits = 0, threads = {}, Hands = {r}
          PROVE  permits + Cardinality(threads) + Cardinality(Hands) = 1
      <4>1. Cardinality(threads) = 0 /\ Cardinality(Hands) = 1
          BY <2>1, <3>3
      <4> QED
          BY SMTT(60), <3>3, <4>1
    <3> QED
        BY <2>2, <3>1, <3>2, <3>3 DEF OneHolder
  <2> QED
      BY <2>2 DEF PermitInv, PermitIsHeldOnce, Hands
<1> QED
    BY <1>2, PermitInvInit, PermitInvNext, PTL DEF Spec

-----------------------------------------------------------------------------
(* `famp inspect wake'.                                                    *)

IsWake(w) == w = [pc |-> w.pc, listen |-> w.listen, parked |-> w.parked, verdict |-> w.verdict, saw |-> w.saw]

(* A reply that shows the name asked about with listening off.             *)
Blames(p, n) == p.kind = "identities" /\ \E w \in p.rows : w.name = n /\ ~w.listen

Clean(s, n) == s \in Seq({s[i] : i \in DOMAIN s}) /\ \A i \in DOMAIN s : ~Blames(s[i], n)

(* On no stage of its way has an answer found listening off.               *)
Spotless ==
    /\ \A t \in threads : Plan.target \in t.view.reg => Plan.target \in t.view.listen
    /\ \A r \in Reqs : req[r].pc \in {"hand", "late"} => ~Blames(req[r].pay, Plan.target)
    /\ \A c \in Clients : Clean(chan[c], Plan.target) /\ Clean(got[c], Plan.target)
    /\ wake.pc \in {"waiters", "sessions"} => wake.listen

SawInv ==
    /\ IsWake(wake)
    /\ chan = [c \in Clients |-> chan[c]] /\ got = [c \in Clients |-> got[c]]
    /\ Faults(reg, listen, holder) \subseteq wake.saw
    /\ WakeRefusalIsTrue
    /\ "listen off" \in wake.saw \/ Spotless

LEMMA CleanEmpty == \A x : Clean(<<>>, x)
BY SMTT(60) DEF Clean

LEMMA CleanAppend ==
    ASSUME NEW x, NEW s, Clean(s, x), NEW p, ~Blames(p, x) PROVE Clean(Append(s, p), x)
<1> DEFINE S == {s[i] : i \in DOMAIN s}
           n == Append(s, p)
           N == {n[i] : i \in DOMAIN n}
<1>1. s \in Seq(S)
    BY DEF Clean
<1> HIDE DEF S
<1>2. /\ Len(s) \in Nat /\ DOMAIN s = 1 .. Len(s) /\ n \in Seq(S \cup {p})
      /\ DOMAIN n = 1 .. Len(s) + 1 /\ Len(n) = Len(s) + 1
      /\ n[Len(s) + 1] = p /\ \A i \in DOMAIN s : n[i] = s[i]
    BY SMTT(60), <1>1
<1> HIDE DEF n
<1>3. n \in Seq(N)
    BY SMTT(60), <1>2
<1>4. \A i \in DOMAIN n : i = Len(s) + 1 \/ i \in DOMAIN s
    BY SMTT(60), <1>2
<1>5. \A i \in DOMAIN n : ~Blames(n[i], x)
    BY <1>2, <1>4 DEF Clean
<1> QED
    BY <1>3, <1>5 DEF Clean, n

LEMMA CleanTail ==
    ASSUME NEW x, NEW s, Clean(s, x), s # <<>> PROVE Clean(Tail(s), x) /\ ~Blames(Head(s), x)
<1> DEFINE S == {s[i] : i \in DOMAIN s}
           n == Tail(s)
           N == {n[i] : i \in DOMAIN n}
<1>1. s \in Seq(S)
    BY DEF Clean
<1> HIDE DEF S
<1>2. /\ n \in Seq(S) /\ \A i \in DOMAIN n : i + 1 \in DOMAIN s /\ n[i] = s[i + 1]
      /\ 1 \in DOMAIN s /\ Head(s) = s[1]
    BY SMTT(60), <1>1
<1> HIDE DEF n
<1>3. n \in Seq(N)
    BY SMTT(60), <1>2
<1>4. \A i \in DOMAIN n : ~Blames(n[i], x)
    BY <1>2 DEF Clean
<1> QED
    BY <1>2, <1>3, <1>4 DEF Clean, n

(* Answers that are not rows blame nobody.                                 *)
LEMMA OthersDoNotBlame ==
    /\ \A x : ~Blames(Budget, x) /\ ~Blames([kind |-> "failed"], x)
    /\ \A x, c, p : ~Blames(p, x) => ~Blames(Shown(c, p), x)
<1>1. \A x : ~Blames(Budget, x) /\ ~Blames([kind |-> "failed"], x)
    BY SMTT(60) DEF Blames, Budget
<1>2. ASSUME NEW x, NEW p PROVE ~Blames(run_broker(p), x)
  <2>1. run_broker(p).kind \in {"ORPHAN_HOLDER", "BUSY", "HEALTHY"}
      BY SMTT(60) DEF run_broker, orphan_holder
  <2> QED
      BY SMTT(60), <2>1 DEF Blames
<1> QED
    BY <1>1, <1>2 DEF Shown

(* The rows of a thread blame a name only if the view it was given did.    *)
LEMMA RowsAreTheView ==
    ASSUME NEW t, Plan.target \in t.view.reg => Plan.target \in t.view.listen
    PROVE  ~Blames(dispatch(t), Plan.target)
<1> SUFFICES ASSUME Blames(dispatch(t), Plan.target) PROVE FALSE
    OBVIOUS
<1>1. dispatch(t).kind = Kind(t.r)
    BY SMTT(60) DEF dispatch
<1>2. Kind(t.r) = "identities"
    BY <1>1 DEF Blames
<1>3. dispatch(t).rows = inspect_identities(t)
    BY SMTT(60), <1>2 DEF dispatch
<1>4. PICK w \in inspect_identities(t) : w.name = Plan.target /\ ~w.listen
    BY <1>3 DEF Blames
<1>5. PICK n \in t.view.reg : w.name = n /\ w.listen = (n \in t.view.listen)
    BY SMTT(60), <1>4 DEF inspect_identities
<1> QED
    BY <1>4, <1>5

LEMMA ReadinessBlames ==
    ASSUME NEW on, NEW by, NEW hook, NEW is_parked
    PROVE  /\ readiness(on, by, hook, is_parked) = "listen off" => ~on
           /\ readiness(on, by, hook, is_parked) = "cli holder" => by = "CliRegister"
BY DEF readiness

LEMMA FaultsFound ==
    /\ \A names, on, by : Faults(names, on, by) \subseteq {"listen off", "cli holder"}
    /\ \A names, on, by : Plan.target \in names /\ Plan.target \notin on => "listen off" \in Faults(names, on, by)
    /\ \A names, on, by : Plan.target \in names /\ by[Plan.target] = "register" => "cli holder" \in Faults(names, on, by)
    /\ \A on, by : Faults({}, on, by) = {}
BY DEF Faults

LEMMA SawInvNext == PermitInv /\ SawInv /\ [Next]_vars => SawInv'
<1> SUFFICES ASSUME PermitInv, SawInv, [Next]_vars PROVE SawInv'
    OBVIOUS
<1> DEFINE sameView == <<plan, reg, listen, holder>>
<1>0. AskShape
    BY DEF PermitInv
<1>1. ASSUME UNCHANGED <<sameView, wake>>, Spotless => Spotless',
             chan' = [c \in Clients |-> chan'[c]], got' = [c \in Clients |-> got'[c]]
      PROVE  SawInv'
    BY <1>1 DEF SawInv, WakeRefusalIsTrue, Faults, Plan
<1>2. ASSUME UNCHANGED <<sameView, wake, threads, req, chan, got>> PROVE SawInv'
  <2>1. Spotless => Spotless'
      BY <1>2 DEF Spotless, Plan
  <2> QED
      BY <1>1, <1>2, <2>1 DEF SawInv
<1>3. CASE UNCHANGED vars
    BY <1>2, <1>3 DEF vars, envVars, viewVars, askVars
<1>4. ASSUME NEW h \in DOMAIN clock, Tick(h) PROVE SawInv'
    BY <1>2, <1>4 DEF Tick, viewVars, askVars
<1>5. ASSUME NEW a \in Agents, Send(a) PROVE SawInv'
    BY <1>2, <1>5 DEF Send, viewVars, askVars
<1>6. ASSUME NEW m \in Boxes, Ack(m) PROVE SawInv'
    BY <1>2, <1>6 DEF Ack, envVars, viewVars, askVars
<1>7. CASE Store \/ Restart
    BY <1>2, <1>7 DEF Store, Restart, envVars, viewVars, askVars
<1>8. ASSUME NEW c \in Clients, WriteLoopEnds(c) \/ Connect(c) \/ Leave(c) PROVE SawInv'
    BY <1>2, <1>8 DEF WriteLoopEnds, Connect, Leave, envVars, viewVars
<1>9. CASE Lock \/ Update \/ LogPage
    BY <1>2, <1>9 DEF Lock, Update, LogPage, OthersUnchanged, envVars, viewVars, askVars
<1>10. ASSUME UNCHANGED <<sameView, wake, got>>, chan' = [c \in Clients |-> chan'[c]],
              Spotless => /\ \A t \in threads' : Plan.target \in t.view.reg => Plan.target \in t.view.listen
                          /\ \A r \in Reqs : req'[r].pc \in {"hand", "late"} => ~Blames(req'[r].pay, Plan.target)
                          /\ \A c \in Clients : Clean(chan'[c], Plan.target)
       PROVE  SawInv'
  <2>1. Spotless => Spotless'
      BY <1>10 DEF Spotless, Plan
  <2> QED
      BY <1>1, <1>10, <2>1 DEF SawInv
<1>11. ASSUME NEW r \in Reqs, NEW pc, NEW pay, To(r, pc, pay), pc \in {"hand", "late"} => ~Blames(pay, Plan.target), Spotless
       PROVE  \A q \in Reqs : req'[q].pc \in {"hand", "late"} => ~Blames(req'[q].pay, Plan.target)
  <2>1. req'[r].pc = pc /\ req'[r].pay = pay /\ \A q \in Reqs : q # r => req'[q] = req[q]
      BY <1>0, <1>11, ToMoves
  <2>2. \A q \in Reqs : req[q].pc \in {"hand", "late"} => ~Blames(req[q].pay, Plan.target)
      BY <1>11 DEF Spotless
  <2> QED
      BY <1>11, <2>1, <2>2
<1>12. ASSUME NEW r \in Reqs, Handle(r) PROVE SawInv'
  <2>1. UNCHANGED <<sameView, wake, got>>
      BY <1>12 DEF Handle, envVars, viewVars
  <2>2. ASSUME NEW pc \in {"done", "dropped"}, To(r, pc, None), UNCHANGED threads,
               chan' = chan \/ chan' = [chan EXCEPT ![r[1]] = Append(@, Budget)]
        PROVE  SawInv'
    <3>1. pc \notin {"hand", "late"}
        BY <2>2
    <3>2. chan' = [c \in Clients |-> chan'[c]]
        BY <2>2 DEF SawInv
    <3>3. ASSUME Spotless, NEW c \in Clients PROVE Clean(chan'[c], Plan.target)
      <4>1. chan'[c] = chan[c] \/ chan'[c] = Append(chan[c], Budget)
          BY <2>2 DEF SawInv
      <4> QED
          BY <3>3, <4>1, CleanAppend, OthersDoNotBlame DEF Spotless
    <3> QED
        BY <1>10, <1>11, <2>1, <2>2, <3>1, <3>2, <3>3 DEF Spotless
  <2>3. ASSUME NEW n, NEW d, NEW k, NEW m, UNCHANGED chan,
               req' = [req EXCEPT ![r].pc = "waiting", ![r].at = n],
               threads' = threads \cup
                 {[r |-> r, view |-> [reg |-> reg, listen |-> listen, parked |-> parked], todo |-> d,
                   cursor |-> k, meta |-> m, recs |-> <<>>, snap |-> <<>>]}
        PROVE  SawInv'
    <3>1. \A q \in Reqs : req'[q].pc \in {"hand", "late"} => req'[q] = req[q]
      <4>1. DOMAIN req = Reqs /\ IsReq(req[r])
          BY <1>0 DEF AskShape
      <4>2. [req[r] EXCEPT !.pc = "waiting", !.at = n] = [pc |-> "waiting", pay |-> req[r].pay, at |-> n, end |-> req[r].end]
          BY <4>1, FieldsMove
      <4>3. req'[r] = [req[r] EXCEPT !.pc = "waiting", !.at = n] /\ \A q \in Reqs : q # r => req'[q] = req[q]
          BY <2>3, <4>1
      <4>4. req'[r].pc = "waiting"
          BY SMTT(60), <4>2, <4>3
      <4> QED
          BY <4>3, <4>4
    <3>2. \A t \in threads' : t \in threads \/ (t.view.reg = reg /\ t.view.listen = listen)
        BY SMTT(60), <2>3
    <3>3. CASE "listen off" \in wake.saw
        BY <2>1, <2>3, <3>3 DEF SawInv, WakeRefusalIsTrue, Faults, Plan
    <3>4. CASE "listen off" \notin wake.saw
      <4>1. Plan.target \in reg => Plan.target \in listen
          BY <3>4, FaultsFound DEF SawInv
      <4> QED
          BY <1>10, <2>1, <2>3, <3>1, <3>2, <4>1 DEF Spotless, SawInv
    <3> QED
        BY <3>3, <3>4
  <2> QED
      BY <1>12, <2>2, <2>3 DEF Handle
<1>13. ASSUME NEW t \in threads, ReadStep(t) PROVE SawInv'
  <2>1. threads' = (threads \ {t}) \cup {ReadBy(t)} /\ UNCHANGED <<sameView, wake, got, req, chan>>
      BY <1>13 DEF ReadStep, ReadBy, envVars, viewVars
  <2>2. ReadBy(t).view = t.view
      BY <1>0, ReadKeeps DEF AskShape
  <2> QED
      BY <1>10, <2>1, <2>2 DEF Spotless, SawInv
<1>14. ASSUME NEW t \in threads, ThreadEnds(t) PROVE SawInv'
  <2>1. threads' = threads \ {t} /\ UNCHANGED <<sameView, wake, got, chan>>
      BY <1>14 DEF ThreadEnds, envVars, viewVars
  <2>2. ASSUME Spotless PROVE \A q \in Reqs : req'[q].pc \in {"hand", "late"} => ~Blames(req'[q].pay, Plan.target)
    <3>1. CASE UNCHANGED req
        BY <2>2, <3>1 DEF Spotless
    <3>2. ASSUME NEW n, req' = [req EXCEPT ![t.r].pc = "hand", ![t.r].pay = dispatch(t), ![t.r].end = n]
          PROVE  \A q \in Reqs : req'[q].pc \in {"hand", "late"} => ~Blames(req'[q].pay, Plan.target)
      <4>1. PICK p : p = dispatch(t)
          OBVIOUS
      <4>2. ~Blames(p, Plan.target)
          BY <2>2, <4>1, RowsAreTheView DEF Spotless
      <4>3. DOMAIN req = Reqs /\ IsReq(req[t.r]) /\ t.r \in Reqs
          BY <1>0 DEF AskShape
      <4>4. req' = [req EXCEPT ![t.r].pc = "hand", ![t.r].pay = p, ![t.r].end = n]
          BY <3>2, <4>1
      <4>5. req'[t.r].pay = p /\ \A q \in Reqs : q # t.r => req'[q] = req[q]
          BY SMTT(60), <4>3, <4>4 DEF IsReq
      <4> QED
          BY <2>2, <4>2, <4>5 DEF Spotless
    <3> QED
        BY <1>14, <3>1, <3>2 DEF ThreadEnds
  <2> QED
      BY <1>10, <2>1, <2>2 DEF Spotless, SawInv
<1>15. ASSUME NEW t \in threads, Panic(t) PROVE SawInv'
  <2>1. threads' = threads \ {t} /\ UNCHANGED <<sameView, wake, got, chan>> /\ t.r \in Reqs
      BY <1>0, <1>15 DEF Panic, envVars, viewVars, AskShape
  <2>2. UNCHANGED req \/ To(t.r, "late", Budget)
      BY <1>15 DEF Panic
  <2>3. Spotless => \A q \in Reqs : req'[q].pc \in {"hand", "late"} => ~Blames(req'[q].pay, Plan.target)
      BY <1>11, <2>1, <2>2, OthersDoNotBlame DEF Spotless
  <2> QED
      BY <1>10, <2>1, <2>3 DEF Spotless, SawInv
<1>16. ASSUME NEW r \in Reqs, Timeout(r) PROVE SawInv'
  <2>1. UNCHANGED <<sameView, wake, got, chan, threads>> /\ To(r, "late", Budget)
      BY <1>16 DEF Timeout, envVars, viewVars
  <2> QED
      BY <1>10, <1>11, <2>1, OthersDoNotBlame DEF Spotless, SawInv
<1>17. ASSUME NEW r \in Reqs, Reply(r) PROVE SawInv'
  <2>1. UNCHANGED <<sameView, wake, got, threads>> /\ To(r, "done", None) /\ req[r].pc \in {"hand", "late"}
      BY <1>17 DEF Reply, envVars, viewVars
  <2>2. chan' = chan \/ chan' = [chan EXCEPT ![r[1]] = Append(@, req[r].pay)]
      BY <1>17 DEF Reply
  <2>3. chan' = [c \in Clients |-> chan'[c]]
      BY <2>2 DEF SawInv
  <2>4. ASSUME Spotless, NEW c \in Clients PROVE Clean(chan'[c], Plan.target)
    <3>1. chan'[c] = chan[c] \/ chan'[c] = Append(chan[c], req[r].pay)
        BY <2>2 DEF SawInv
    <3>2. ~Blames(req[r].pay, Plan.target)
        BY <2>1, <2>4 DEF Spotless
    <3> QED
        BY <2>4, <3>1, <3>2, CleanAppend DEF Spotless
  <2>5. "done" \notin {"hand", "late"}
      OBVIOUS
  <2> QED
      BY <1>10, <1>11, <2>1, <2>3, <2>4, <2>5 DEF Spotless
<1>18. ASSUME NEW c \in Clients, Disconnect(c) PROVE SawInv'
  <2>1. UNCHANGED <<sameView, wake, got, threads, req>> /\ chan' = [chan EXCEPT ![c] = <<>>]
      BY <1>18 DEF Disconnect, envVars, viewVars
  <2>2. chan' = [b \in Clients |-> chan'[b]] /\ \A b \in Clients : chan'[b] = chan[b] \/ chan'[b] = <<>>
      BY <2>1 DEF SawInv
  <2> QED
      BY <1>10, <2>1, <2>2, CleanEmpty DEF Spotless
<1>19. CASE Crash
  <2>1. /\ UNCHANGED <<plan, wake, got>> /\ reg' = {} /\ threads' = {}
        /\ chan' = [c \in Clients |-> <<>>]
      BY <1>19 DEF Crash, envVars
  <2>2. \A r \in Reqs : req'[r].pc \notin {"hand", "late"}
    <3> TAKE r \in Reqs
    <3>1. CASE req[r].pc = "none"
      <4>1. req'[r] = req[r]
          BY <1>19, <3>1 DEF Crash
      <4> QED
          BY <3>1, <4>1
    <3>2. CASE req[r].pc # "none"
      <4>1. req'[r] = [req[r] EXCEPT !.pc = "done", !.pay = None]
          BY <1>19, <3>2 DEF Crash
      <4>2. IsReq(req[r])
          BY <1>0 DEF AskShape
      <4>3. req'[r] = [pc |-> "done", pay |-> None, at |-> req[r].at, end |-> req[r].end]
          BY <4>1, <4>2, FieldsMove
      <4> QED
          BY SMTT(60), <4>3
    <3> QED
        BY <3>1, <3>2
  <2>3. Spotless => Spotless'
      BY <2>1, <2>2, CleanEmpty DEF Spotless, Plan
  <2>4. Faults(reg, listen, holder)' = {}
      BY <2>1 DEF Faults
  <2> QED
      BY <2>1, <2>3, <2>4 DEF SawInv, WakeRefusalIsTrue
<1>20. ASSUME NEW c \in Clients, call(c) PROVE SawInv'
  <2>1. UNCHANGED <<sameView, wake, got, chan, threads>>
      BY <1>20 DEF call, envVars, viewVars
  <2>2. PICK k \in DOMAIN Plan.kinds[c] : To(<<c, k>>, "asked", None)
      BY <1>20 DEF call
  <2>3. CASE <<c, k>> \in Reqs
    <3>1. "asked" \notin {"hand", "late"}
        OBVIOUS
    <3> QED
        BY <1>10, <1>11, <2>1, <2>2, <2>3, <3>1 DEF Spotless, SawInv
  <2>4. CASE <<c, k>> \notin Reqs
    <3>1. DOMAIN req = Reqs /\ req = [r \in Reqs |-> req[r]]
        BY <1>0 DEF AskShape
    <3>2. req' = req
        BY <2>2, <2>4, <3>1 DEF To
    <3> QED
        BY <1>2, <2>1, <3>2
  <2> QED
      BY <2>3, <2>4
<1>21. ASSUME NEW c \in Clients, NEW p, Spotless => ~Blames(p, Plan.target), got' = [got EXCEPT ![c] = Append(@, Shown(c, p))],
              UNCHANGED <<sameView, wake, threads, req>>,
              chan' = [b \in Clients |-> chan'[b]], Spotless => \A b \in Clients : Clean(chan'[b], Plan.target)
       PROVE  SawInv'
  <2>1. got' = [b \in Clients |-> got'[b]] /\ \A b \in Clients : got'[b] = got[b] \/ got'[b] = Append(got[b], Shown(c, p))
      BY <1>21 DEF SawInv
  <2>2. Spotless => \A b \in Clients : Clean(got'[b], Plan.target)
      BY <1>21, <2>1, CleanAppend, OthersDoNotBlame DEF Spotless
  <2> QED
      BY <1>1, <1>21, <2>1, <2>2 DEF Spotless, Plan
<1>22. ASSUME NEW c \in Clients, Recv(c) PROVE SawInv'
  <2>1. /\ UNCHANGED <<sameView, wake, threads, req>> /\ chan[c] # <<>>
        /\ got' = [got EXCEPT ![c] = Append(@, Shown(c, Head(chan[c])))]
        /\ chan' = [chan EXCEPT ![c] = Tail(@)]
      BY <1>22 DEF Recv, envVars, viewVars
  <2>2. chan' = [b \in Clients |-> chan'[b]] /\ chan'[c] = Tail(chan[c]) /\ \A b \in Clients : b # c => chan'[b] = chan[b]
      BY <2>1 DEF SawInv
  <2>3. Spotless => ~Blames(Head(chan[c]), Plan.target) /\ Clean(Tail(chan[c]), Plan.target)
      BY <2>1, CleanTail DEF Spotless
  <2>4. Spotless => \A b \in Clients : Clean(chan'[b], Plan.target)
      BY <2>2, <2>3 DEF Spotless
  <2> QED
      BY <1>21, <2>1, <2>2, <2>3, <2>4
<1>23. ASSUME NEW c \in Clients, CallFails(c) PROVE SawInv'
  <2>1. /\ UNCHANGED <<sameView, wake, threads, req, chan>>
        /\ got' = [got EXCEPT ![c] = Append(@, Shown(c, [kind |-> "failed"]))]
      BY <1>23 DEF CallFails, envVars, viewVars
  <2> QED
      BY <1>21, <2>1, OthersDoNotBlame DEF Spotless, SawInv
<1>24. ASSUME NEW a \in Agents, Rebind(a) PROVE SawInv'
  <2>1. /\ UNCHANGED <<plan, threads, req, chan, got>>
        /\ wake' = [wake EXCEPT !.saw = @ \cup Faults(reg', listen', holder')]
      BY <1>24 DEF Rebind, envVars
  <2>2. PICK F : F = Faults(reg', listen', holder')
      OBVIOUS
  <2>3. /\ IsWake(wake') /\ wake'.saw = wake.saw \cup F
        /\ wake'.pc = wake.pc /\ wake'.listen = wake.listen /\ wake'.verdict = wake.verdict
    <3>1. IsWake(wake) /\ wake' = [wake EXCEPT !.saw = wake.saw \cup F]
        BY <2>1, <2>2 DEF SawInv
    <3> QED
        BY SMTT(60), <3>1 DEF IsWake
  <2>4. Faults(reg, listen, holder)' = F
      BY <2>1, <2>2 DEF Faults, Plan
  <2>5. Spotless => Spotless'
      BY <2>1, <2>3 DEF Spotless, Plan
  <2> QED
      BY <2>1, <2>3, <2>4, <2>5 DEF SawInv, WakeRefusalIsTrue
<1>25. ASSUME UNCHANGED <<sameView, threads, req, chan, got>>, IsWake(wake'), wake'.saw = wake.saw, WakeRefusalIsTrue',
              Spotless => (wake'.pc \in {"waiters", "sessions"} => wake'.listen)
       PROVE  SawInv'
  <2>1. Spotless => Spotless'
      BY <1>25 DEF Spotless, Plan
  <2>2. Faults(reg, listen, holder)' = Faults(reg, listen, holder)
      BY <1>25 DEF Faults, Plan
  <2> QED
      BY <1>25, <2>1, <2>2 DEF SawInv
<1>26. ASSUME NEW c \in Clients, fetch_identity(c) PROVE SawInv'
  <2>1. UNCHANGED <<sameView, threads, req, chan, got>> /\ Len(got[c]) >= 1
      BY <1>26 DEF fetch_identity, wakeRest, envVars, viewVars
  <2>2. IsWake(wake)
      BY DEF SawInv
  <2>3. CASE wake' = [wake EXCEPT !.pc = "failed"]
    <3>1. IsWake(wake') /\ wake'.saw = wake.saw /\ wake'.verdict = wake.verdict /\ wake'.pc = "failed"
        BY SMTT(60), <2>2, <2>3 DEF IsWake
    <3> QED
        BY <1>25, <2>1, <3>1 DEF SawInv, WakeRefusalIsTrue
  <2>4. ASSUME got[c][1].kind = "identities",
               NEW mine, mine = {w \in got[c][1].rows : w.name = Plan.target}, mine # {},
               wake' = [wake EXCEPT !.pc = "waiters", !.listen = \E w \in mine : w.listen]
        PROVE  SawInv'
    <3>1. PICK b \in BOOLEAN : b = \E w \in mine : w.listen
        OBVIOUS
    <3>2. wake' = [wake EXCEPT !.pc = "waiters", !.listen = b]
        BY <2>4, <3>1
    <3>3. IsWake(wake') /\ wake'.saw = wake.saw /\ wake'.verdict = wake.verdict /\ wake'.listen = b
      <4>1. PICK v : v = [wake EXCEPT !.pc = "waiters"]
          OBVIOUS
      <4>2. wake' = [v EXCEPT !.listen = b]
          BY <3>2, <4>1
      <4>3. IsWake(v) /\ v.saw = wake.saw /\ v.verdict = wake.verdict
          BY SMTT(60), <2>2, <4>1 DEF IsWake
      <4> QED
          BY SMTT(60), <4>2, <4>3 DEF IsWake
    <3>4. ASSUME Spotless PROVE b
      <4>1. Clean(got[c], Plan.target)
          BY <3>4 DEF Spotless
      <4>2. 1 \in DOMAIN got[c]
          BY SMTT(60), <2>1, <4>1 DEF Clean
      <4>3. ~Blames(got[c][1], Plan.target)
          BY <4>1, <4>2 DEF Clean
      <4> QED
          BY <2>4, <3>1, <4>3 DEF Blames
    <3> QED
        BY <1>25, <2>1, <3>3, <3>4 DEF SawInv, WakeRefusalIsTrue
  <2> QED
      BY <1>26, <2>3, <2>4 DEF fetch_identity
<1>27. ASSUME NEW c \in Clients, fetch_parked(c) PROVE SawInv'
  <2>1. UNCHANGED <<sameView, threads, req, chan, got>> /\ wake.pc = "waiters"
      BY <1>27 DEF fetch_parked, wakeRest, envVars, viewVars
  <2>2. IsWake(wake)
      BY DEF SawInv
  <2>3. PICK x, b : wake' = [wake EXCEPT !.pc = x] \/ wake' = [wake EXCEPT !.pc = x, !.parked = b]
      BY <1>27 DEF fetch_parked
  <2>4. IsWake(wake') /\ wake'.saw = wake.saw /\ wake'.verdict = wake.verdict /\ wake'.listen = wake.listen
    <3>1. PICK v : v = [wake EXCEPT !.pc = x]
        OBVIOUS
    <3>2. wake' = v \/ wake' = [v EXCEPT !.parked = b]
        BY <2>3, <3>1
    <3>3. IsWake(v) /\ v.saw = wake.saw /\ v.verdict = wake.verdict /\ v.listen = wake.listen
        BY SMTT(60), <2>2, <3>1 DEF IsWake
    <3> QED
        BY SMTT(60), <3>2, <3>3 DEF IsWake
  <2> QED
      BY <1>25, <2>1, <2>4 DEF SawInv, WakeRefusalIsTrue, Spotless
<1>28. CASE WakeReport
  <2>1. UNCHANGED <<sameView, threads, req, chan, got>> /\ wake.pc = "sessions"
      BY <1>28 DEF WakeReport, wakeRest, envVars, viewVars
  <2>2. IsWake(wake)
      BY DEF SawInv
  <2>3. CASE wake' = [wake EXCEPT !.pc = "failed"]
    <3>1. IsWake(wake') /\ wake'.saw = wake.saw /\ wake'.verdict = wake.verdict /\ wake'.pc = "failed"
        BY SMTT(60), <2>2, <2>3 DEF IsWake
    <3> QED
        BY <1>25, <2>1, <3>1 DEF SawInv, WakeRefusalIsTrue
  <2>4. ASSUME NEW by, by = classify_holder(session_row(Plan.target)), NEW hook, NEW v,
               v = readiness(wake.listen, by, hook, wake.parked),
               wake' = [wake EXCEPT !.pc = "report", !.verdict = v]
        PROVE  SawInv'
    <3>1. IsWake(wake') /\ wake'.saw = wake.saw /\ wake'.verdict = v /\ wake'.pc = "report"
      <4>1. PICK u : u = [wake EXCEPT !.pc = "report"]
          OBVIOUS
      <4>2. wake' = [u EXCEPT !.verdict = v]
          BY <2>4, <4>1
      <4>3. IsWake(u) /\ u.saw = wake.saw /\ u.pc = "report"
          BY SMTT(60), <2>2, <4>1 DEF IsWake
      <4> QED
          BY SMTT(60), <4>2, <4>3 DEF IsWake
    <3>2. (v = "listen off" => ~wake.listen) /\ (v = "cli holder" => by = "CliRegister")
        BY <2>4, ReadinessBlames
    <3>4. by = "CliRegister" => Plan.target \in reg /\ holder[Plan.target] = "register"
        BY SMTT(60), <2>4 DEF classify_holder, classify_cmdline, session_row
    <3>5. v = "listen off" => v \in wake.saw
        BY <2>1, <3>2 DEF SawInv, Spotless
    <3>6. v = "cli holder" => v \in wake.saw
        BY <3>2, <3>4, FaultsFound DEF SawInv
    <3>7. WakeRefusalIsTrue'
        BY <3>1, <3>5, <3>6 DEF WakeRefusalIsTrue
    <3> QED
        BY <1>25, <2>1, <3>1, <3>7
  <2> QED
      BY <1>28, <2>3, <2>4 DEF WakeReport, WakeTo
<1> QED
    BY <1>3, <1>4, <1>5, <1>6, <1>7, <1>8, <1>9, <1>12, <1>13, <1>14, <1>15, <1>16, <1>17, <1>18, <1>19, <1>20,
       <1>22, <1>23, <1>24, <1>26, <1>27, <1>28
    DEF Next, Broker, Wake

(* famp inspect wake: a verdict that blames the listen flag or the holder  *)
(* is about something that was so while the command ran, although it was   *)
(* read by a thread, handed over, queued and fetched in several steps      *)
(* while registrations came and went.                                      *)
THEOREM RefusalsAreTrue == Spec => []WakeRefusalIsTrue
<1>1. Init => SawInv
  <2> SUFFICES ASSUME Init PROVE SawInv
      OBVIOUS
  <2>1. PICK F : F = Faults(Plan.reg, Plan.listen, [a \in Agents |-> "mcp"])
      OBVIOUS
  <2>2. wake = [pc |-> "identity", listen |-> FALSE, parked |-> FALSE, verdict |-> None, saw |-> F]
      BY <2>1 DEF Init
  <2>3. IsWake(wake) /\ wake.verdict = None /\ wake.saw = F /\ wake.pc = "identity"
      BY SMTT(60), <2>2 DEF IsWake
  <2>4. /\ chan = [c \in Clients |-> <<>>] /\ got = [c \in Clients |-> <<>>] /\ threads = {}
        /\ \A r \in Reqs : req[r].pc = "none"
      BY DEF Init
  <2>5. Spotless
      BY <2>3, <2>4, CleanEmpty DEF Spotless
  <2>6. Faults(reg, listen, holder) = F
      BY <2>1 DEF Init
  <2> QED
      BY <2>3, <2>4, <2>5, <2>6, WakeAssumption DEF SawInv, WakeRefusalIsTrue
<1>2. SawInv => WakeRefusalIsTrue
    BY DEF SawInv
<1> QED
    BY <1>1, <1>2, PermitInvInit, PermitInvNext, SawInvNext, PTL DEF Spec

-----------------------------------------------------------------------------
(* The mailbox files and a reader of the channel.                          *)

FileStep ==
    \/ \E m \in Boxes : \E r : AppendBegin(m, r) /\ sent' = Append(sent, r) /\ UNCHANGED <<plan, log>>
    \/ (AppendBody \/ AppendNewline \/ AppendSync \/ AppendTorn) /\ UNCHANGED <<plan, sent, log>>
    \/ LogPage
    \/ UNCHANGED <<plan, sent, box, wr, confirmed, log>>

LEMMA FileView == [Next]_vars => FileStep
<1> SUFFICES ASSUME [Next]_vars PROVE FileStep
    OBVIOUS
<1> USE DEF envVars, inboxVars, sideVars
<1>1. ASSUME UNCHANGED <<plan, sent, box, wr, confirmed, log>> PROVE FileStep
    BY <1>1 DEF FileStep
<1>2. CASE UNCHANGED vars
    BY <1>1, <1>2 DEF vars
<1>3. ASSUME NEW h \in DOMAIN clock, Tick(h) PROVE FileStep
    BY <1>1, <1>3 DEF Tick
<1>4. ASSUME NEW a \in Agents, Send(a) PROVE FileStep
  <2>1. PICK m \in Boxes : \E r : AppendBegin(m, r) /\ sent' = Append(sent, r)
      BY <1>4 DEF Send
  <2>2. UNCHANGED <<plan, log>>
      BY <1>4 DEF Send
  <2> QED
      BY <2>1, <2>2 DEF FileStep
<1>5. ASSUME NEW a \in Agents, Rebind(a) PROVE FileStep
    BY <1>1, <1>5 DEF Rebind
<1>6. ASSUME NEW m \in Boxes, Ack(m) PROVE FileStep
    BY <1>1, <1>6 DEF Ack, advance
<1>7. ASSUME NEW r \in Reqs, Handle(r) \/ Reply(r) \/ Timeout(r) PROVE FileStep
    BY <1>1, <1>7 DEF Handle, Reply, Timeout
<1>8. ASSUME NEW t \in threads, ReadStep(t) \/ ThreadEnds(t) \/ Panic(t) PROVE FileStep
    BY <1>1, <1>8 DEF ReadStep, ThreadEnds, Panic
<1>9. ASSUME NEW c \in Clients, Disconnect(c) \/ WriteLoopEnds(c) PROVE FileStep
    BY <1>1, <1>9 DEF Disconnect, WriteLoopEnds
<1>10. ASSUME NEW c \in Clients, call(c) \/ Recv(c) \/ CallFails(c) \/ Connect(c) \/ Leave(c)
       PROVE  FileStep
    BY <1>1, <1>10 DEF call, Recv, CallFails, Connect, Leave
<1>11. CASE Store
    BY <1>11 DEF Store, FileStep
<1>12. CASE Crash
    BY <1>12 DEF Crash, FileStep
<1>13. CASE Restart
    BY <1>1, <1>13 DEF Restart
<1>14. CASE Wake
    BY <1>1, <1>14 DEF Wake, fetch_identity, fetch_parked, WakeReport, wakeRest
<1>15. CASE Lock \/ Update
    BY <1>1, <1>15 DEF Lock, Update, OthersUnchanged
<1>16. CASE LogPage
    BY <1>16 DEF FileStep
<1> QED
    BY <1>2, <1>3, <1>4, <1>5, <1>6, <1>7, <1>8, <1>9, <1>10, <1>11, <1>12, <1>13, <1>14, <1>15, <1>16
    DEF Next, Broker

(* What is ever written into a mailbox.                                    *)
Pieces == {Torn} \cup {sent[i] : i \in DOMAIN sent}

File(P) == [lines : Seq(Seq(P)), tail : Seq(P)]

Has(l, r) == \E k \in DOMAIN l : l[k] = r

Kept(f, r) == \E j \in DOMAIN f.lines : Has(f.lines[j], r)

(* Complete lines are never touched again.                                 *)
Grows(f, g) == Len(f.lines) <= Len(g.lines) /\ \A i \in DOMAIN f.lines : g.lines[i] = f.lines[i]

WriterInv ==
    wr = <<>> \/ \E m \in Boxes, r \in Pieces, pc \in {"body", "newline", "sync"} :
        /\ wr = <<[m |-> m, r |-> r, pc |-> pc]>>
        /\ pc = "newline" => Has(box[m].tail, r)
        /\ pc = "sync" => Kept(box[m], r)

(* A confirmed record is in a complete line.                               *)
FileInv ==
    /\ sent \in Seq({sent[i] : i \in DOMAIN sent})
    /\ box \in [Boxes -> File(Pieces)] /\ confirmed \in [Boxes -> Seq(Pieces)]
    /\ WriterInv
    /\ \A m \in Boxes : \A i \in DOMAIN confirmed[m] : Kept(box[m], confirmed[m][i])

(* The reader has had exactly the lines before its offset.                 *)
PageInv ==
    /\ log \in [since : Nat, seen : Seq(Pieces), end : Seq(Pieces)]
    /\ log.since = Len(log.seen) /\ log.since <= Len(box[Chan].lines)
    /\ LogPagesAreWhole

LEMMA SeqGrows == ASSUME NEW P, NEW Q, P \subseteq Q PROVE Seq(P) \subseteq Seq(Q)
BY SMTT(60)

LEMMA FileGrows == ASSUME NEW P, NEW Q, P \subseteq Q PROVE File(P) \subseteq File(Q)
<1>1. Seq(P) \subseteq Seq(Q)
    BY SeqGrows
<1>2. Seq(Seq(P)) \subseteq Seq(Seq(Q))
    BY <1>1, SeqGrows
<1> QED
    BY SMTT(60), <1>1, <1>2 DEF File

LEMMA KeptGrows ==
    ASSUME NEW P, NEW f \in File(P), NEW g \in File(P), Grows(f, g), NEW r, Kept(f, r) PROVE Kept(g, r)
<1>1. DOMAIN f.lines \subseteq DOMAIN g.lines
    BY SMTT(60) DEF File, Grows
<1> QED
    BY <1>1 DEF Kept, Grows

LEMMA GrowsSame == ASSUME NEW P, NEW f \in File(P) PROVE Grows(f, f)
BY SMTT(60) DEF File, Grows

(* The three ways a file changes.                                          *)
LEMMA TailChanges ==
    ASSUME NEW P, NEW f \in File(P), NEW r \in P
    PROVE  LET g == [f EXCEPT !.tail = Append(@, r)] IN g \in File(P) /\ Grows(f, g) /\ Has(g.tail, r)
<1> DEFINE g == [f EXCEPT !.tail = Append(@, r)]
<1>1. f.lines \in Seq(Seq(P)) /\ f.tail \in Seq(P)
    BY SMTT(60) DEF File
<1>2. g \in File(P) /\ g.lines = f.lines /\ g.tail = Append(f.tail, r)
    BY SMTT(60) DEF File
<1> HIDE DEF g
<1>3. Grows(f, g)
    BY SMTT(60), <1>1, <1>2 DEF Grows
<1>4. Len(f.tail) + 1 \in DOMAIN g.tail /\ g.tail[Len(f.tail) + 1] = r
    BY SMTT(60), <1>1, <1>2
<1>5. Has(g.tail, r)
    BY <1>4 DEF Has
<1> QED
    BY <1>2, <1>3, <1>5 DEF g

LEMMA LineEnds ==
    ASSUME NEW P, NEW f \in File(P), NEW g, g = [lines |-> Append(f.lines, f.tail), tail |-> <<>>]
    PROVE  g \in File(P) /\ Grows(f, g) /\ \A r : Has(f.tail, r) => Kept(g, r)
<1>1. f.lines \in Seq(Seq(P)) /\ f.tail \in Seq(P)
    BY SMTT(60) DEF File
<1>2. g.lines = Append(f.lines, f.tail) /\ g.tail = <<>>
    BY SMTT(60)
<1>3. g \in File(P)
  <2>1. g.lines \in Seq(Seq(P)) /\ g.tail \in Seq(P)
      BY SMTT(60), <1>1, <1>2
  <2> QED
      BY SMTT(60), <1>2, <2>1 DEF File
<1>4. Grows(f, g)
    BY SMTT(60), <1>1, <1>2 DEF Grows
<1>5. Len(f.lines) + 1 \in DOMAIN g.lines /\ g.lines[Len(f.lines) + 1] = f.tail
    BY SMTT(60), <1>1, <1>2
<1> QED
    BY <1>3, <1>4, <1>5 DEF Kept

LEMMA FileInvNext ==
    ASSUME FileInv, FileStep
    PROVE  FileInv' /\ Pieces \subseteq Pieces' /\ \A m \in Boxes : Grows(box[m], box'[m])
<1>0. \A m \in Boxes : box[m] \in File(Pieces) /\ Grows(box[m], box[m])
    BY GrowsSame DEF FileInv
<1>1. ASSUME NEW x \in Boxes, NEW r, AppendBegin(x, r), sent' = Append(sent, r)
      PROVE  FileInv' /\ Pieces \subseteq Pieces' /\ \A m \in Boxes : Grows(box[m], box'[m])
  <2> DEFINE S == {sent[i] : i \in DOMAIN sent}
             n == Append(sent, r)
             N == {n[i] : i \in DOMAIN n}
  <2>1. sent \in Seq(S)
      BY DEF FileInv
  <2> HIDE DEF S
  <2>2. /\ n \in Seq(S \cup {r}) /\ DOMAIN sent \subseteq DOMAIN n /\ Len(sent) + 1 \in DOMAIN n
        /\ n[Len(sent) + 1] = r /\ \A i \in DOMAIN sent : n[i] = sent[i]
      BY SMTT(60), <2>1
  <2> HIDE DEF n
  <2>3. n \in Seq(N)
      BY SMTT(60), <2>2
  <2>4. sent' = n /\ sent' \in Seq({sent'[i] : i \in DOMAIN sent'})
      BY <1>1, <2>3 DEF n
  <2>5. Pieces \subseteq Pieces' /\ r \in Pieces'
      BY <2>2, <2>4 DEF Pieces
  <2>6. /\ UNCHANGED <<box, confirmed>> /\ wr' = <<[m |-> x, r |-> r, pc |-> "body"]>>
      BY <1>1 DEF AppendBegin
  <2>7. box' \in [Boxes -> File(Pieces')] /\ confirmed' \in [Boxes -> Seq(Pieces')]
    <3>1. File(Pieces) \subseteq File(Pieces') /\ Seq(Pieces) \subseteq Seq(Pieces')
        BY <2>5, FileGrows, SeqGrows
    <3> QED
        BY SMTT(60), <2>6, <3>1 DEF FileInv
  <2>8. WriterInv'
      BY <2>5, <2>6 DEF WriterInv
  <2> QED
      BY <1>0, <2>4, <2>5, <2>6, <2>7, <2>8 DEF FileInv
<1>2. ASSUME UNCHANGED sent, box' \in [Boxes -> File(Pieces)], \A m \in Boxes : Grows(box[m], box'[m]),
             WriterInv', UNCHANGED confirmed
      PROVE  FileInv' /\ Pieces \subseteq Pieces' /\ \A m \in Boxes : Grows(box[m], box'[m])
  <2>1. Pieces' = Pieces
      BY <1>2 DEF Pieces
  <2>2. \A m \in Boxes : \A i \in DOMAIN confirmed[m] : Kept(box'[m], confirmed[m][i])
      BY <1>0, <1>2, KeptGrows DEF FileInv
  <2> QED
      BY <1>2, <2>1, <2>2 DEF FileInv
<1>3. ASSUME NEW m \in Boxes, NEW g \in File(Pieces), Grows(box[m], g), box' = [box EXCEPT ![m] = g]
      PROVE  box'[m] = g /\ box' \in [Boxes -> File(Pieces)] /\ \A b \in Boxes : Grows(box[b], box'[b])
    BY <1>0, <1>3 DEF FileInv
<1>4. CASE AppendBody /\ UNCHANGED sent
  <2>1. PICK m \in Boxes, r \in Pieces : wr = <<[m |-> m, r |-> r, pc |-> "body"]>>
    <3>1. PICK m \in Boxes, r \in Pieces, pc \in {"body", "newline", "sync"} : wr = <<[m |-> m, r |-> r, pc |-> pc]>>
        BY <1>4 DEF AppendBody, FileInv, WriterInv
    <3>2. pc = "body"
        BY SMTT(60), <1>4, <3>1 DEF AppendBody
    <3> QED
        BY <3>1, <3>2
  <2>2. wr[1].m = m /\ wr[1].r = r /\ [wr[1] EXCEPT !.pc = "newline"] = [m |-> m, r |-> r, pc |-> "newline"]
      BY SMTT(60), <2>1
  <2>3. PICK g : g = [box[m] EXCEPT !.tail = Append(@, r)]
      OBVIOUS
  <2>4. g \in File(Pieces) /\ Grows(box[m], g) /\ Has(g.tail, r)
      BY <1>0, <2>3, TailChanges
  <2>5. box' = [box EXCEPT ![m] = g] /\ wr' = <<[m |-> m, r |-> r, pc |-> "newline"]>> /\ UNCHANGED confirmed
      BY <1>4, <2>2, <2>3 DEF AppendBody
  <2>6. box'[m] = g /\ box' \in [Boxes -> File(Pieces)] /\ \A b \in Boxes : Grows(box[b], box'[b])
      BY <1>3, <2>4, <2>5
  <2>7. WriterInv'
      BY <1>4, <2>4, <2>5, <2>6 DEF WriterInv, Pieces
  <2> QED
      BY <1>2, <1>4, <2>5, <2>6, <2>7
<1>5. CASE AppendNewline /\ UNCHANGED sent
  <2>1. PICK m \in Boxes, r \in Pieces : wr = <<[m |-> m, r |-> r, pc |-> "newline"]>> /\ Has(box[m].tail, r)
    <3>1. PICK m \in Boxes, r \in Pieces, pc \in {"body", "newline", "sync"} :
              wr = <<[m |-> m, r |-> r, pc |-> pc]>> /\ (pc = "newline" => Has(box[m].tail, r))
        BY <1>5 DEF AppendNewline, FileInv, WriterInv
    <3>2. pc = "newline"
        BY SMTT(60), <1>5, <3>1 DEF AppendNewline
    <3> QED
        BY <3>1, <3>2
  <2>2. wr[1].m = m /\ [wr[1] EXCEPT !.pc = "sync"] = [m |-> m, r |-> r, pc |-> "sync"]
      BY SMTT(60), <2>1
  <2>3. PICK g : g = [lines |-> Append(box[m].lines, box[m].tail), tail |-> <<>>]
      OBVIOUS
  <2>4. g \in File(Pieces) /\ Grows(box[m], g) /\ Kept(g, r)
      BY <1>0, <2>1, <2>3, LineEnds
  <2>5. box' = [box EXCEPT ![m] = g] /\ wr' = <<[m |-> m, r |-> r, pc |-> "sync"]>> /\ UNCHANGED confirmed
      BY <1>5, <2>2, <2>3 DEF AppendNewline
  <2>6. box'[m] = g /\ box' \in [Boxes -> File(Pieces)] /\ \A b \in Boxes : Grows(box[b], box'[b])
      BY <1>3, <2>4, <2>5
  <2>7. WriterInv'
      BY <1>5, <2>4, <2>5, <2>6 DEF WriterInv, Pieces
  <2> QED
      BY <1>2, <1>5, <2>5, <2>6, <2>7
<1>6. CASE AppendSync /\ UNCHANGED sent
  <2>1. PICK m \in Boxes, r \in Pieces : wr = <<[m |-> m, r |-> r, pc |-> "sync"]>> /\ Kept(box[m], r)
    <3>1. PICK m \in Boxes, r \in Pieces, pc \in {"body", "newline", "sync"} :
              wr = <<[m |-> m, r |-> r, pc |-> pc]>> /\ (pc = "sync" => Kept(box[m], r))
        BY <1>6 DEF AppendSync, FileInv, WriterInv
    <3>2. pc = "sync"
        BY SMTT(60), <1>6, <3>1 DEF AppendSync
    <3> QED
        BY <3>1, <3>2
  <2>2. wr[1].m = m /\ wr[1].r = r
      BY SMTT(60), <2>1
  <2>3. UNCHANGED box /\ wr' = <<>> /\ confirmed' = [confirmed EXCEPT ![m] = Append(confirmed[m], r)]
      BY <1>6, <2>2 DEF AppendSync
  <2>4. Pieces' = Pieces
      BY <1>6 DEF Pieces
  <2>5. confirmed' \in [Boxes -> Seq(Pieces)]
      BY SMTT(60), <2>3 DEF FileInv
  <2>6. confirmed'[m] = Append(confirmed[m], r) /\ \A b \in Boxes : b # m => confirmed'[b] = confirmed[b]
      BY <2>3 DEF FileInv
  <2>7. \A i \in DOMAIN confirmed'[m] : confirmed'[m][i] = r \/ (i \in DOMAIN confirmed[m] /\ confirmed'[m][i] = confirmed[m][i])
    <3>1. PICK q : q = confirmed[m]
        OBVIOUS
    <3>2. q \in Seq(Pieces)
        BY <3>1 DEF FileInv
    <3>3. \A i \in DOMAIN Append(q, r) : Append(q, r)[i] = r \/ (i \in DOMAIN q /\ Append(q, r)[i] = q[i])
        BY SMTT(60), <3>2
    <3> QED
        BY <2>6, <3>1, <3>3
  <2>8. \A b \in Boxes : \A i \in DOMAIN confirmed'[b] : Kept(box[b], confirmed'[b][i])
      BY <2>1, <2>6, <2>7 DEF FileInv
  <2>9. WriterInv'
      BY <2>3 DEF WriterInv
  <2> QED
      BY <1>0, <1>6, <2>3, <2>4, <2>5, <2>8, <2>9 DEF FileInv
<1>7. CASE AppendTorn /\ UNCHANGED sent
  <2>1. wr' = <<>> /\ UNCHANGED confirmed
      BY <1>7 DEF AppendTorn
  <2>2. WriterInv'
      BY <2>1 DEF WriterInv
  <2>3. CASE box' = box
      BY <1>0, <1>2, <1>7, <2>1, <2>2, <2>3 DEF FileInv
  <2>4. CASE wr # <<>> /\ box' = [box EXCEPT ![wr[1].m].tail = Append(@, Torn)]
    <3>1. PICK m \in Boxes : wr[1].m = m
      <4>1. PICK m \in Boxes, r \in Pieces, pc \in {"body", "newline", "sync"} : wr = <<[m |-> m, r |-> r, pc |-> pc]>>
          BY <2>4 DEF FileInv, WriterInv
      <4> QED
          BY SMTT(60), <4>1
    <3>2. PICK g : g = [box[m] EXCEPT !.tail = Append(@, Torn)]
        OBVIOUS
    <3>3. Torn \in Pieces
        BY DEF Pieces
    <3>4. g \in File(Pieces) /\ Grows(box[m], g)
        BY <1>0, <3>2, <3>3, TailChanges
    <3>5. box' = [box EXCEPT ![m] = g]
        BY <2>4, <3>1, <3>2
    <3>6. box' \in [Boxes -> File(Pieces)] /\ \A b \in Boxes : Grows(box[b], box'[b])
        BY <1>3, <3>4, <3>5
    <3> QED
        BY <1>2, <1>7, <2>1, <2>2, <3>6
  <2> QED
      BY <1>7, <2>3, <2>4 DEF AppendTorn
<1>8. ASSUME UNCHANGED <<sent, box, wr, confirmed>>
      PROVE  FileInv' /\ Pieces \subseteq Pieces' /\ \A m \in Boxes : Grows(box[m], box'[m])
  <2>1. WriterInv'
      BY <1>8 DEF FileInv, WriterInv, Pieces
  <2> QED
      BY <1>0, <1>2, <1>8, <2>1 DEF FileInv
<1> QED
    BY <1>1, <1>4, <1>5, <1>6, <1>7, <1>8 DEF FileStep, LogPage, OthersUnchanged, envVars, inboxVars

LEMMA PrefixOf ==
    ASSUME NEW P, NEW s \in Seq(P), NEW n \in 1 .. Len(s)
    PROVE  /\ SubSeq(s, 1, n) \in Seq(P) /\ Len(SubSeq(s, 1, n)) = n
           /\ \A i \in 1 .. n : SubSeq(s, 1, n)[i] = s[i]
BY SMTT(60)

LEMMA LengthOf == ASSUME NEW a \in Nat, NEW b \in Nat, 1 .. a = 1 .. b PROVE a = b
<1>1. a > 0 => a \in 1 .. b
    BY SMTT(60)
<1>2. b > 0 => b \in 1 .. a
    BY SMTT(60)
<1> QED
    BY SMTT(60), <1>1, <1>2

(* The next lines of the file, each one record, and all of them if none.   *)
NextLines(P, f, k, page) ==
    /\ page.envelopes \in Seq(P) /\ page.next_offset = k + Len(page.envelopes)
    /\ page.next_offset <= Len(f.lines)
    /\ \A i \in DOMAIN page.envelopes : f.lines[k + i] = <<page.envelopes[i]>>
    /\ page.envelopes = <<>> => k = Len(f.lines)

LEMMA PageIsNext ==
    ASSUME NEW P, NEW f \in File(P), NEW k \in Nat, k <= Len(f.lines), NEW limit \in Nat \ {0},
           NEW page, page = read_channel_mailbox(f, k, limit), page # Corrupt
    PROVE  NextLines(P, f, k, page)
<1> USE DEF NextLines
<1> DEFINE es == read_from(f, k)
           rest == SubSeq(f.lines, k + 1, Len(f.lines))
<1>1. f.lines \in Seq(Seq(P)) /\ Len(f.lines) \in Nat
    BY SMTT(60) DEF File
<1>2. PICK n : /\ n = IF es # Corrupt /\ Len(es) < limit THEN Len(es) ELSE limit
               /\ es # Corrupt /\ page = [envelopes |-> SubSeq(es, 1, n), next_offset |-> k + n]
    BY DEF read_channel_mailbox
<1>3. page.envelopes = SubSeq(es, 1, n) /\ page.next_offset = k + n
    BY SMTT(60), <1>2
<1>4. CASE k >= Len(f.lines)
  <2>1. es = <<>> /\ k = Len(f.lines)
      BY SMTT(60), <1>1, <1>4 DEF read_from
  <2> HIDE DEF es
  <2>2. n = 0
      BY SMTT(60), <1>2, <2>1
  <2>3. page.envelopes = <<>> /\ page.next_offset = k
      BY SMTT(60), <1>3, <2>1, <2>2
  <2>4. <<>> \in Seq(P) /\ Len(<<>>) = 0 /\ DOMAIN <<>> = {} /\ k + 0 = k /\ k <= Len(f.lines)
      BY SMTT(60), <1>1
  <2> QED
      BY <2>1, <2>3, <2>4
<1>5. CASE k < Len(f.lines)
  <2>1. /\ rest \in Seq(Seq(P)) /\ Len(rest) = Len(f.lines) - k
        /\ \A i \in 1 .. Len(f.lines) - k : rest[i] = f.lines[k + i]
      BY SMTT(60), <1>1, <1>5
  <2>2. ~(k >= Len(f.lines))
      BY SMTT(60), <1>1, <1>5
  <2>3. es = Records(rest) /\ \A i \in DOMAIN rest : Parses(rest[i])
      BY <1>2, <2>2 DEF read_from
  <2> HIDE DEF es, rest
  <2>4. \A i \in DOMAIN rest : rest[i] = <<rest[i][1]>> /\ rest[i][1] \in P
    <3> TAKE i \in DOMAIN rest
    <3>1. PICK l : l = rest[i]
        OBVIOUS
    <3>2. l \in Seq(P) /\ Len(l) = 1
        BY SMTT(60), <2>1, <2>3, <3>1 DEF Parses
    <3>3. 1 \in 1 .. Len(l)
        BY SMTT(60), <3>2
    <3>4. l[1] \in P
        BY <3>2, <3>3, ElementOfSeq
    <3>5. PICK x \in P : x = l[1]
        BY <3>4
    <3>6. <<x>> \in Seq(P) /\ Len(<<x>>) = 1 /\ <<x>>[1] = x
        BY SMTT(60)
    <3>7. \A j \in 1 .. Len(l) : l[j] = <<x>>[j]
        BY SMTT(60), <3>2, <3>5
    <3>8. l = <<x>>
        BY <3>2, <3>6, <3>7, SeqEqual
    <3> QED
        BY <3>1, <3>5, <3>8
  <2>5. DOMAIN rest = 1 .. Len(f.lines) - k
      BY SMTT(60), <2>1
  <2>6. PICK m \in Nat : m = Len(f.lines) - k /\ m > 0
    <3>1. PICK l \in Nat : l = Len(f.lines)
        BY <1>1
    <3>2. l - k \in Nat /\ l - k > 0
        BY SMTT(60), <1>5, <3>1
    <3> QED
        BY <3>1, <3>2
  <2>7. es = [i \in 1 .. m |-> rest[i][1]]
      BY <2>3, <2>5, <2>6 DEF Records
  <2>8. es \in Seq(P) /\ Len(es) = m /\ \A i \in 1 .. m : es[i] = rest[i][1]
    <3>1. \A i \in 1 .. m : rest[i][1] \in P
        BY <2>4, <2>5, <2>6
    <3>2. DOMAIN es = 1 .. m /\ \A i \in 1 .. m : es[i] = rest[i][1]
        BY <2>7
    <3>3. es \in [1 .. m -> P]
        BY <2>7, <3>1
    <3>4. es \in Seq(P)
        BY <2>6, <3>3, SeqDef
    <3>5. Len(es) \in Nat /\ DOMAIN es = 1 .. Len(es)
        BY <3>4, LenProperties
    <3>6. Len(es) = m
        BY <2>6, <3>2, <3>5, LengthOf
    <3> QED
        BY <3>2, <3>4, <3>6
  <2>9. n \in 1 .. m
      BY SMTT(60), <1>2, <2>6, <2>8
  <2>10. /\ page.envelopes \in Seq(P) /\ Len(page.envelopes) = n /\ DOMAIN page.envelopes = 1 .. n
         /\ \A i \in 1 .. n : page.envelopes[i] = es[i]
    <3>1. /\ SubSeq(es, 1, n) \in Seq(P) /\ Len(SubSeq(es, 1, n)) = n
          /\ \A i \in 1 .. n : SubSeq(es, 1, n)[i] = es[i]
        BY <2>8, <2>9, PrefixOf
    <3> QED
        BY <1>3, <3>1, LenProperties
  <2>11. ASSUME NEW i \in DOMAIN page.envelopes PROVE f.lines[k + i] = <<page.envelopes[i]>>
    <3>1. i \in 1 .. m /\ i \in 1 .. Len(f.lines) - k /\ i \in DOMAIN rest
        BY SMTT(60), <2>5, <2>6, <2>9, <2>10
    <3>2. f.lines[k + i] = rest[i] /\ page.envelopes[i] = rest[i][1]
        BY <2>1, <2>8, <2>10, <2>11, <3>1
    <3> QED
        BY <2>4, <3>1, <3>2
  <2>12. page.next_offset = k + Len(page.envelopes) /\ page.next_offset <= Len(f.lines) /\ page.envelopes # <<>>
    <3>1. k + n <= Len(f.lines) /\ n # 0 /\ Len(<<>>) = 0
        BY SMTT(60), <1>1, <2>6, <2>9
    <3> QED
        BY <1>3, <2>10, <3>1
  <2> QED
      BY <2>10, <2>11, <2>12
<1> QED
    BY SMTT(60), <1>1, <1>4, <1>5

LEMMA PageInvNext ==
    ASSUME FileInv, PageInv, FileStep, plan \in DOMAIN Plans
    PROVE  PageInv'
<1>0. /\ FileInv' /\ Pieces \subseteq Pieces' /\ Grows(box[Chan], box'[Chan])
      /\ box[Chan] \in File(Pieces) /\ box'[Chan] \in File(Pieces')
    BY FileInvNext, PageAssumption DEF FileInv
<1>1. PICK f, g : f = box[Chan] /\ g = box'[Chan]
    OBVIOUS
<1>2. CASE UNCHANGED log
  <2>1. Seq(Pieces) \subseteq Seq(Pieces')
      BY <1>0, SeqGrows
  <2>2. log' \in [since : Nat, seen : Seq(Pieces'), end : Seq(Pieces')]
      BY SMTT(60), <1>2, <2>1 DEF PageInv
  <2>3. log.since <= Len(g.lines) /\ \A i \in DOMAIN log.seen : g.lines[i] = <<log.seen[i]>>
    <3>1. log.since \in Nat /\ log.seen \in Seq(Pieces) /\ log.since = Len(log.seen) /\ log.since <= Len(f.lines)
        BY SMTT(60), <1>1 DEF PageInv
    <3>2. f.lines \in Seq(Seq(Pieces)) /\ g.lines \in Seq(Seq(Pieces'))
        BY SMTT(60), <1>0, <1>1 DEF File
    <3>3. Len(f.lines) <= Len(g.lines) /\ \A i \in DOMAIN f.lines : g.lines[i] = f.lines[i]
        BY <1>0, <1>1 DEF Grows
    <3>4. log.since <= Len(g.lines) /\ DOMAIN log.seen \subseteq DOMAIN f.lines
        BY SMTT(60), <3>1, <3>2, <3>3
    <3> QED
        BY <1>1, <3>3, <3>4 DEF PageInv, LogPagesAreWhole
  <2> QED
      BY <1>1, <1>2, <2>2, <2>3 DEF PageInv, LogPagesAreWhole
<1>3. CASE LogPage
  <2>1. UNCHANGED <<sent, box, confirmed>>
      BY <1>3 DEF LogPage, OthersUnchanged, envVars, inboxVars
  <2>2. PICK page : /\ page = read_channel_mailbox(f, log.since, Plan.tail) /\ page # Corrupt
                    /\ log' = [since |-> page.next_offset, seen |-> log.seen \o page.envelopes,
                               end |-> IF page.envelopes = <<>> THEN confirmed[Chan] ELSE log.end]
      BY <1>1, <1>3 DEF LogPage
  <2>3. /\ log.since \in Nat /\ log.seen \in Seq(Pieces) /\ log.end \in Seq(Pieces)
        /\ log.since = Len(log.seen) /\ log.since <= Len(f.lines) /\ f \in File(Pieces)
      BY SMTT(60), <1>0, <1>1 DEF PageInv
  <2>4. Plan.tail \in Nat \ {0}
      BY PageAssumption DEF Plan
  <2>5. /\ page.envelopes \in Seq(Pieces) /\ page.next_offset = log.since + Len(page.envelopes)
        /\ page.next_offset <= Len(f.lines)
        /\ \A i \in DOMAIN page.envelopes : f.lines[log.since + i] = <<page.envelopes[i]>>
        /\ page.envelopes = <<>> => log.since = Len(f.lines)
    <3>1. PICK since \in Nat, limit \in Nat \ {0} : since = log.since /\ limit = Plan.tail
        BY <2>3, <2>4
    <3>2. since <= Len(f.lines) /\ page = read_channel_mailbox(f, since, limit)
        BY <2>2, <2>3, <3>1
    <3>3. NextLines(Pieces, f, since, page)
        BY <2>2, <2>3, <3>2, PageIsNext
    <3> QED
        BY <3>1, <3>3 DEF NextLines
  <2>6. PICK es, k, sn : es = page.envelopes /\ k = log.since /\ sn = log.seen
      OBVIOUS
  <2>7. /\ log'.since = k + Len(es) /\ log'.seen = sn \o es
        /\ log'.end = IF es = <<>> THEN confirmed[Chan] ELSE log.end
    <3>1. PICK o, e : o = page.next_offset /\ e = IF es = <<>> THEN confirmed[Chan] ELSE log.end
        OBVIOUS
    <3>2. log' = [since |-> o, seen |-> sn \o es, end |-> e]
        BY <2>2, <2>6, <3>1
    <3>3. log'.since = o /\ log'.seen = sn \o es /\ log'.end = e
        BY <3>2
    <3> QED
        BY <2>5, <2>6, <3>1, <3>3
  <2>8. /\ sn \o es \in Seq(Pieces) /\ Len(sn \o es) = k + Len(es)
        /\ \A i \in DOMAIN (sn \o es) :
              \/ i \in DOMAIN sn /\ (sn \o es)[i] = sn[i]
              \/ \E j \in DOMAIN es : i = k + j /\ (sn \o es)[i] = es[j]
        /\ DOMAIN sn \subseteq DOMAIN (sn \o es) /\ \A i \in DOMAIN sn : (sn \o es)[i] = sn[i]
    <3>1. sn \in Seq(Pieces) /\ es \in Seq(Pieces) /\ k = Len(sn) /\ k \in Nat
        BY <2>3, <2>5, <2>6
    <3>2. /\ sn \o es \in Seq(Pieces) /\ Len(sn \o es) = k + Len(es)
          /\ DOMAIN sn \subseteq DOMAIN (sn \o es) /\ \A i \in DOMAIN sn : (sn \o es)[i] = sn[i]
        BY SMTT(60), <3>1
    <3>3. ASSUME NEW i \in DOMAIN (sn \o es), i \notin DOMAIN sn
          PROVE  i - k \in DOMAIN es /\ i = k + (i - k) /\ (sn \o es)[i] = es[i - k]
        BY SMTT(60), <3>1, <3>3
    <3> QED
        BY <3>2, <3>3
  <2>9. confirmed[Chan] \in Seq(Pieces)
      BY PageAssumption DEF FileInv
  <2>10. log' \in [since : Nat, seen : Seq(Pieces'), end : Seq(Pieces')]
    <3>1. Pieces' = Pieces
        BY <2>1 DEF Pieces
    <3>2. page.next_offset \in Nat /\ page.envelopes \in Seq(Pieces)
      <4>1. Len(page.envelopes) \in Nat
          BY <2>5, LenProperties
      <4>2. PICK o \in Nat, l \in Nat : o = log.since /\ l = Len(page.envelopes)
          BY <2>3, <4>1
      <4>3. o + l \in Nat
          BY SMTT(60)
      <4> QED
          BY <2>5, <4>2, <4>3
    <3> QED
      <4>1. PICK o \in Nat, e \in Seq(Pieces), q \in Seq(Pieces) :
                /\ o = page.next_offset /\ q = sn \o es
                /\ e = IF page.envelopes = <<>> THEN confirmed[Chan] ELSE log.end
          BY <2>3, <2>8, <2>9, <3>2
      <4>2. log' = [since |-> o, seen |-> q, end |-> e]
          BY <2>2, <2>6, <4>1
      <4> QED
          BY <3>1, <4>2
  <2>11. \A i \in DOMAIN log'.seen : f.lines[i] = <<log'.seen[i]>>
    <3>1. \A i \in DOMAIN sn : f.lines[i] = <<sn[i]>>
        BY <1>1, <2>6 DEF PageInv, LogPagesAreWhole
    <3>2. \A j \in DOMAIN es : f.lines[k + j] = <<es[j]>>
        BY <2>5, <2>6
    <3> QED
        BY <2>7, <2>8, <3>1, <3>2
  <2>12. \A i \in DOMAIN log'.end : \E j \in DOMAIN log'.seen : log'.seen[j] = log'.end[i]
    <3>1. CASE es # <<>>
      <4>1. \A i \in DOMAIN log.end : \E j \in DOMAIN sn : sn[j] = log.end[i]
          BY <2>6 DEF PageInv, LogPagesAreWhole
      <4>2. log'.end = log.end
          BY <2>7, <3>1
      <4>3. \A j \in DOMAIN sn : j \in DOMAIN log'.seen /\ log'.seen[j] = sn[j]
          BY <2>7, <2>8
      <4> QED
          BY <4>1, <4>2, <4>3
    <3>2. ASSUME es = <<>>, NEW i \in DOMAIN confirmed[Chan]
          PROVE  \E j \in DOMAIN log'.seen : log'.seen[j] = confirmed[Chan][i]
      <4>1. PICK j \in DOMAIN f.lines : Has(f.lines[j], confirmed[Chan][i])
          BY <1>1, <3>2, PageAssumption DEF FileInv, Kept
      <4>2. DOMAIN f.lines = DOMAIN sn
        <5>1. f.lines \in Seq(Seq(Pieces)) /\ Len(f.lines) = Len(sn) /\ sn \in Seq(Pieces)
            BY SMTT(60), <2>3, <2>5, <2>6, <3>2 DEF File
        <5> QED
            BY SMTT(60), <5>1
      <4>3. f.lines[j] = <<sn[j]>>
          BY <1>1, <2>6, <4>2 DEF PageInv, LogPagesAreWhole
      <4>4. confirmed[Chan][i] = sn[j]
          BY SMTT(60), <4>1, <4>3 DEF Has
      <4> QED
          BY <2>7, <2>8, <4>2, <4>4
    <3> QED
        BY <2>7, <3>1, <3>2
  <2>13. log'.since = Len(log'.seen) /\ log'.since <= Len(f.lines)
      BY <2>5, <2>6, <2>7, <2>8
  <2> QED
      BY <1>1, <2>1, <2>10, <2>11, <2>12, <2>13 DEF PageInv, LogPagesAreWhole
<1> QED
    BY <1>2, <1>3 DEF FileStep

(* famp_channel_log: the pages, each from the next_offset of the one       *)
(* before, are the lines of the mailbox in order, none left out and none   *)
(* twice, while the broker appends, fails and dies; and when a page is     *)
(* empty, every post that had been confirmed by then is on one of them.    *)
THEOREM PagesAreWhole == Spec => []LogPagesAreWhole
<1> DEFINE Inv == plan \in DOMAIN Plans /\ FileInv /\ PageInv
<1>1. Init => Inv
  <2> SUFFICES ASSUME Init PROVE Inv
      OBVIOUS
  <2>1. /\ plan \in DOMAIN Plans /\ sent = <<>> /\ wr = <<>>
        /\ box = [m \in Boxes |-> Empty] /\ confirmed = [m \in Boxes |-> <<>>]
        /\ log = [since |-> 0, seen |-> <<>>, end |-> <<>>]
      BY DEF Init, InboxInit
  <2>2. <<>> \in Seq({sent[i] : i \in DOMAIN sent}) /\ DOMAIN <<>> = {}
      BY SMTT(60)
  <2>3. \A P : Empty \in File(P) /\ Empty.lines = <<>> /\ <<>> \in Seq(P) /\ Len(<<>>) = 0
      BY SMTT(60) DEF Empty, File
  <2>4. FileInv
      BY <2>1, <2>2, <2>3 DEF FileInv, WriterInv
  <2>5. log.since = 0 /\ log.seen = <<>> /\ log.end = <<>> /\ box[Chan].lines = <<>>
      BY SMTT(60), <2>1, <2>3, PageAssumption
  <2>6. PageInv
    <3>1. log \in [since : Nat, seen : Seq(Pieces), end : Seq(Pieces)]
        BY SMTT(60), <2>1
    <3>2. log.since = Len(log.seen) /\ log.since <= Len(box[Chan].lines)
        BY SMTT(60), <2>5
    <3> QED
        BY <2>2, <2>5, <3>1, <3>2 DEF PageInv, LogPagesAreWhole
  <2> QED
      BY <2>1, <2>4, <2>6
<1>2. Inv /\ [Next]_vars => Inv'
  <2> SUFFICES ASSUME Inv, [Next]_vars PROVE Inv'
      OBVIOUS
  <2>1. FileStep
      BY FileView
  <2>2. UNCHANGED plan
      BY <2>1 DEF FileStep, LogPage, OthersUnchanged, envVars
  <2> QED
      BY <2>1, <2>2, FileInvNext, PageInvNext
<1>3. Inv => LogPagesAreWhole
    BY DEF PageInv
<1> QED
    BY <1>1, <1>2, <1>3, PTL DEF Spec

=============================================================================
