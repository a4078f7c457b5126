------------------------------ MODULE HostProofs ------------------------------
(***************************************************************************)
(* Proofs about broker processes, clients and the platform service, for    *)
(* every number of processes and clients and every scenario: exclusion on  *)
(* the socket, and what `famp daemon restart' reports.                     *)
(***************************************************************************)
EXTENDS Daemon, FiniteSetTheorems, TLAPS

(* Zenon proves a leaf unless the leaf asks for arithmetic (SMTT).         *)
USE ZenonT(60)

ProcState == {"gone", "start", "probe", "unlink", "rebind", "bound", "serve"}

Process ==
    [st : ProcState, managed : BOOLEAN, build : Nat, idle : BOOLEAN,
     backlog : SUBSET Clients, accepted : SUBSET Clients]

Command ==
    [kind : {"none", "install", "uninstall", "restart"},
     st : {"none", "write", "load", "unfile", "bootstrap", "wait", "ok", "orphan",
           "timeout", "not_installed", "refused", "sandboxed"},
     orphan : Procs \cup {None}, want : Nat]

Service ==
    [file : BOOLEAN, loaded : BOOLEAN, job : Procs \cup {None}, starts : Nat, failed : BOOLEAN]

HostType ==
    /\ plan \in Scenario
    /\ path \in Procs \cup {None}
    /\ proc \in [Procs -> Process]
    /\ svc \in Service
    /\ adm \in Command
    /\ raced \in BOOLEAN

(* While no start-up was about to remove the file of another, a broker     *)
(* that is bound or serves has the socket file, and one that is about to   *)
(* remove the file is the only one that got past its probe.                *)
SocketInv ==
    ~raced =>
      /\ \A p \in Procs : proc[p].st \in {"bound", "serve"} => path = p
      /\ \A p, q \in Procs : proc[p].st = "unlink" /\ p # q
            => proc[q].st \notin {"unlink", "rebind", "bound", "serve"}

(* The only managed broker is the service's job, and during a restart it   *)
(* is of the wanted build or a newer one.                                  *)
ServiceInv ==
    /\ \A p \in Procs : proc[p].managed => svc.job = p /\ proc[p].st # "gone"
    /\ adm.st \in {"bootstrap", "wait"} =>
          /\ svc.file /\ adm.want <= plan.build
          /\ \A p \in Procs : proc[p].managed => proc[p].build >= adm.want
    /\ adm.st = "wait" => svc.loaded

HostInv == HostType /\ SocketInv /\ ServiceInv

-----------------------------------------------------------------------------
LEMMA GoneType ==
    Gone \in Process /\ Gone.st = "gone" /\ ~Gone.managed
BY DEF Gone, Process, ProcState

(* One process changes.                                                    *)
LEMMA OneChanges ==
    ASSUME HostType, NEW p \in Procs, NEW v \in Process,
           proc' = [proc EXCEPT ![p] = v]
    PROVE  /\ proc' \in [Procs -> Process] /\ proc'[p] = v
           /\ \A q \in Procs \ {p} : proc'[q] = proc[q]
BY DEF HostType

(* A process goes on to another state and keeps the rest.                  *)
LEMMA StateChanges ==
    ASSUME HostType, NEW p \in Procs, NEW s \in ProcState,
           proc' = [proc EXCEPT ![p].st = s]
    PROVE  /\ proc' \in [Procs -> Process]
           /\ proc'[p].st = s
           /\ proc'[p].managed = proc[p].managed /\ proc'[p].build = proc[p].build
           /\ \A q \in Procs \ {p} : proc'[q] = proc[q]
BY DEF HostType, Process

(* What a start-up or an exit that leaves the service and the plan alone   *)
(* has to keep.                                                            *)
LEMMA ServiceKept ==
    ASSUME ServiceInv, UNCHANGED <<plan, svc, adm>>,
           \A q \in Procs : \/ proc'[q] = Gone
                            \/ /\ proc'[q].st # "gone" \/ proc'[q].st = proc[q].st
                               /\ proc'[q].managed = proc[q].managed
                               /\ proc'[q].build = proc[q].build
    PROVE  ServiceInv'
BY SMTT(60), GoneType DEF ServiceInv

(* A process goes away; a serving one may take the socket file with it.    *)
LEMMA Exits ==
    ASSUME HostType, SocketInv, NEW p \in Procs,
           proc' = [proc EXCEPT ![p] = Gone], raced' \in BOOLEAN, raced => raced',
           path' = path \/ (Serving(p) /\ path' = None)
    PROVE  /\ proc' \in [Procs -> Process] /\ path' \in Procs \cup {None}
           /\ \A q \in Procs : proc'[q] = Gone \/ proc'[q] = proc[q]
           /\ proc'[p] = Gone
           /\ SocketInv'
<1>1. /\ proc' \in [Procs -> Process] /\ proc'[p] = Gone
      /\ \A q \in Procs \ {p} : proc'[q] = proc[q]
    BY OneChanges, GoneType
<1>2. path' \in Procs \cup {None}
    BY DEF HostType
<1>3. \A q \in Procs : proc'[q].st = "gone" \/ (proc'[q] = proc[q] /\ q # p)
    BY <1>1, GoneType
<1>4. SocketInv'
  <2> SUFFICES ASSUME ~raced' PROVE SocketInv!2'
      BY DEF SocketInv
  <2>1. ~raced
      OBVIOUS
  <2>2. ASSUME NEW q \in Procs, proc'[q].st \in {"bound", "serve"} PROVE path' = q
      BY <1>3, <2>1, <2>2 DEF SocketInv, Serving
  <2>3. ASSUME NEW q \in Procs, NEW r \in Procs, proc'[q].st = "unlink", q # r
        PROVE  proc'[r].st \notin {"unlink", "rebind", "bound", "serve"}
      BY <1>3, <2>1, <2>3 DEF SocketInv
  <2> QED
      BY <2>2, <2>3
<1> QED
    BY <1>1, <1>2, <1>4

LEMMA StepBind ==
    ASSUME HostInv, NEW p \in Procs, bind_exclusive(p)
    PROVE  HostInv'
<1>0. HostType /\ SocketInv /\ ServiceInv
    BY DEF HostInv
<1>1. /\ UNCHANGED <<plan, svc, adm>> /\ proc[p].st \in {"start", "rebind"}
      /\ raced' = (raced \/ Overlap')
    BY DEF bind_exclusive
<1>2. raced' \in BOOLEAN /\ (raced => raced') /\ (~raced' => ~Overlap')
    BY <1>0, <1>1 DEF HostType
<1>3. CASE path = None /\ path' = p /\ proc' = [proc EXCEPT ![p].st = "bound"]
  <2>1. /\ proc' \in [Procs -> Process] /\ proc'[p].st = "bound"
        /\ \A q \in Procs \ {p} : proc'[q] = proc[q]
      BY <1>0, <1>3, StateChanges DEF ProcState
  <2>2. HostType'
      BY <1>0, <1>1, <1>2, <1>3, <2>1 DEF HostType
  <2>3. SocketInv'
    <3> SUFFICES ASSUME ~raced' PROVE SocketInv!2'
        BY DEF SocketInv
    <3>1. ~raced /\ ~Overlap'
        BY <1>2
    <3>2. \A q \in Procs : proc[q].st \notin {"bound", "serve"}
        BY <1>0, <1>3, <3>1, HostAssumption DEF SocketInv
    <3>3. ASSUME NEW q \in Procs, NEW r \in Procs, proc'[q].st = "unlink", q # r
          PROVE  proc'[r].st \notin {"unlink", "rebind", "bound", "serve"}
        BY <2>1, <3>1, <3>2, <3>3 DEF Overlap
    <3> QED
        BY <1>3, <2>1, <3>2, <3>3
  <2>4. ServiceInv'
      BY <1>0, <1>1, <1>3, StateChanges, ServiceKept DEF ProcState
  <2> QED
      BY <2>2, <2>3, <2>4 DEF HostInv
<1>4. CASE proc[p].st = "start" /\ proc' = [proc EXCEPT ![p].st = "probe"] /\ path' = path
  <2>1. /\ proc' \in [Procs -> Process] /\ proc'[p].st = "probe"
        /\ \A q \in Procs \ {p} : proc'[q] = proc[q]
      BY <1>0, <1>4, StateChanges DEF ProcState
  <2>2. HostType'
      BY <1>0, <1>1, <1>2, <1>4, <2>1 DEF HostType
  <2>3. SocketInv'
      BY <1>0, <1>2, <1>4, <2>1 DEF SocketInv
  <2>4. ServiceInv'
      BY <1>0, <1>1, <1>4, StateChanges, ServiceKept DEF ProcState
  <2> QED
      BY <2>2, <2>3, <2>4 DEF HostInv
<1>5. CASE proc' = [proc EXCEPT ![p] = Gone] /\ path' = path
    BY <1>0, <1>1, <1>2, <1>5, Exits, ServiceKept DEF HostInv, HostType
<1> QED
    BY <1>3, <1>4, <1>5 DEF bind_exclusive

LEMMA StepProbe ==
    ASSUME HostInv, NEW p \in Procs, BindProbe(p)
    PROVE  HostInv'
<1>0. HostType /\ SocketInv /\ ServiceInv
    BY DEF HostInv
<1>1. /\ UNCHANGED <<plan, path, svc, adm>> /\ proc[p].st = "probe"
      /\ raced' = (raced \/ Overlap')
    BY DEF BindProbe
<1>2. raced' \in BOOLEAN /\ (raced => raced') /\ (~raced' => ~Overlap')
    BY <1>0, <1>1 DEF HostType
<1>3. CASE Answered
  <2>1. proc' = [proc EXCEPT ![p] = Gone]
      BY <1>3 DEF BindProbe
  <2> QED
      BY <1>0, <1>1, <1>2, <2>1, Exits, ServiceKept DEF HostInv, HostType
<1>4. CASE ~Answered
  <2>0. proc' = [proc EXCEPT ![p].st = "unlink"]
      BY <1>4 DEF BindProbe
  <2>1. /\ proc' \in [Procs -> Process] /\ proc'[p].st = "unlink"
        /\ \A q \in Procs \ {p} : proc'[q] = proc[q]
      BY <1>0, <2>0, StateChanges DEF ProcState
  <2>2. HostType'
      BY <1>0, <1>1, <1>2, <2>1 DEF HostType
  <2>3. ~raced => \A q \in Procs : proc[q].st # "serve"
      BY <1>0, <1>4 DEF SocketInv, Answered, Answering, Serving
  <2>4. SocketInv'
    <3> SUFFICES ASSUME ~raced' PROVE SocketInv!2'
        BY DEF SocketInv
    <3>1. ~raced /\ ~Overlap'
        BY <1>2
    <3>2. ASSUME NEW q \in Procs, proc'[q].st \in {"bound", "serve"} PROVE path' = q
        BY <1>0, <1>1, <2>1, <3>1, <3>2 DEF SocketInv
    <3>3. \A q \in Procs : proc'[q].st # "serve"
        BY <2>1, <2>3, <3>1
    <3>4. ASSUME NEW q \in Procs, NEW r \in Procs, proc'[q].st = "unlink", q # r
          PROVE  proc'[r].st \notin {"unlink", "rebind", "bound", "serve"}
        BY <3>1, <3>3, <3>4 DEF Overlap
    <3> QED
        BY <3>2, <3>4
  <2>5. ServiceInv'
      BY <1>0, <1>1, <2>0, StateChanges, ServiceKept DEF ProcState
  <2> QED
      BY <2>2, <2>4, <2>5 DEF HostInv
<1> QED
    BY <1>3, <1>4

LEMMA StepUnlink ==
    ASSUME HostInv, NEW p \in Procs, BindUnlink(p)
    PROVE  HostInv'
<1>0. HostType /\ SocketInv /\ ServiceInv
    BY DEF HostInv
<1>1. UNCHANGED <<plan, svc, adm, raced>> /\ proc[p].st = "unlink" /\ path' = None
    BY DEF BindUnlink
<1>2. CASE path = None
  <2>1. proc' = [proc EXCEPT ![p] = Gone]
      BY <1>2 DEF BindUnlink
  <2> QED
      BY <1>0, <1>1, <1>2, <2>1, Exits, ServiceKept DEF HostInv, HostType
<1>3. CASE path # None
  <2>0. proc' = [proc EXCEPT ![p].st = "rebind"]
      BY <1>3 DEF BindUnlink
  <2>1. /\ proc' \in [Procs -> Process] /\ proc'[p].st = "rebind"
        /\ \A q \in Procs \ {p} : proc'[q] = proc[q]
      BY <1>0, <2>0, StateChanges DEF ProcState
  <2>2. HostType'
      BY <1>0, <1>1, <2>1 DEF HostType
  <2>3. SocketInv'
      BY <1>0, <1>1, <2>1 DEF SocketInv
  <2>4. ServiceInv'
      BY <1>0, <1>1, <2>0, StateChanges, ServiceKept DEF ProcState
  <2> QED
      BY <2>2, <2>3, <2>4 DEF HostInv
<1> QED
    BY <1>2, <1>3

LEMMA StepListen ==
    ASSUME HostInv, NEW p \in Procs, Listen(p)
    PROVE  HostInv'
<1>0. HostType /\ SocketInv /\ ServiceInv
    BY DEF HostInv
<1>1. /\ UNCHANGED <<plan, path, svc, adm, raced>> /\ proc[p].st = "bound"
      /\ proc' = [proc EXCEPT ![p].st = "serve"]
    BY DEF Listen
<1>2. /\ proc' \in [Procs -> Process] /\ proc'[p].st = "serve"
      /\ \A q \in Procs \ {p} : proc'[q] = proc[q]
    BY <1>0, <1>1, StateChanges DEF ProcState
<1>3. HostType'
    BY <1>0, <1>1, <1>2 DEF HostType
<1>4. SocketInv'
    BY <1>0, <1>1, <1>2 DEF SocketInv
<1>5. ServiceInv'
    BY <1>0, <1>1, StateChanges, ServiceKept DEF ProcState
<1> QED
    BY <1>3, <1>4, <1>5 DEF HostInv

(* Accepting, closing and connecting change no process's state.            *)
LEMMA StepTraffic ==
    ASSUME HostInv, UNCHANGED <<plan, path, svc, adm, raced>>,
           proc' \in [Procs -> Process],
           \A q \in Procs : /\ proc'[q].st = proc[q].st
                            /\ proc'[q].managed = proc[q].managed
                            /\ proc'[q].build = proc[q].build
    PROVE  HostInv'
<1>1. HostType'
    BY DEF HostInv, HostType
<1>2. SocketInv'
    BY DEF HostInv, SocketInv
<1>3. ServiceInv'
    BY DEF HostInv, ServiceInv
<1> QED
    BY <1>1, <1>2, <1>3 DEF HostInv

LEMMA StepAccept ==
    ASSUME HostInv, NEW p \in Procs, AcceptArm(p) \/ DisconnectArm(p)
    PROVE  HostInv'
<1>0. HostType
    BY DEF HostInv
<1>1. UNCHANGED <<plan, path, svc, adm, raced>>
    BY DEF AcceptArm, DisconnectArm
<1>2. PICK v : /\ proc' = [proc EXCEPT ![p] = v] /\ v \in Process
               /\ v.st = proc[p].st /\ v.managed = proc[p].managed
               /\ v.build = proc[p].build
  <2>1. CASE AcceptArm(p)
    <3>1. PICK c \in proc[p].backlog :
             proc' = [proc EXCEPT ![p].backlog = @ \ {c}, ![p].accepted = @ \cup {c},
                                  ![p].idle = FALSE]
        BY <2>1 DEF AcceptArm
    <3> DEFINE v == [proc[p] EXCEPT !.backlog = @ \ {c}, !.accepted = @ \cup {c}, !.idle = FALSE]
    <3>2. v \in Process /\ v.st = proc[p].st /\ v.managed = proc[p].managed
          /\ v.build = proc[p].build
        BY <1>0 DEF HostType, Process
    <3>3. proc' = [proc EXCEPT ![p] = v]
        BY <1>0, <3>1 DEF HostType, Process
    <3> QED
        BY <3>2, <3>3
  <2>2. CASE DisconnectArm(p)
    <3>1. PICK c \in proc[p].accepted :
             proc' = [proc EXCEPT ![p].accepted = @ \ {c},
                        ![p].idle = proc[p].accepted = {c} /\ ~proc[p].managed]
        BY <2>2 DEF DisconnectArm
    <3> DEFINE idle1 == proc[p].accepted = {c} /\ ~proc[p].managed
               v == [proc[p] EXCEPT !.accepted = @ \ {c}, !.idle = idle1]
    <3>2. idle1 \in BOOLEAN
        OBVIOUS
    <3>3. proc' = [proc EXCEPT ![p] = v]
        BY <1>0, <3>1 DEF HostType, Process
    <3> HIDE DEF idle1
    <3>5. v \in Process /\ v.st = proc[p].st /\ v.managed = proc[p].managed
          /\ v.build = proc[p].build
        BY <1>0, <3>2 DEF HostType, Process
    <3> QED
        BY <3>3, <3>5
  <2> QED
      BY <2>1, <2>2
<1> QED
    BY <1>0, <1>1, <1>2, OneChanges, StepTraffic

LEMMA StepExit ==
    ASSUME HostInv, NEW p \in Procs, IdleArm(p) \/ Kill(p)
    PROVE  HostInv'
<1>0. HostType /\ SocketInv /\ ServiceInv
    BY DEF HostInv
<1>1. /\ UNCHANGED <<svc, adm, raced>> /\ proc' = [proc EXCEPT ![p] = Gone]
      /\ path' = path \/ (Serving(p) /\ path' = None)
    BY DEF IdleArm, Leave, Kill
<1>2. plan' \in Scenario /\ plan'.build = plan.build
  <2>1. CASE IdleArm(p)
      BY <1>0, <2>1 DEF IdleArm, HostType
  <2>2. CASE Kill(p)
      BY SMTT(60), <1>0, <2>2 DEF Kill, HostType, Scenario
  <2> QED
      BY <2>1, <2>2
<1>3. /\ proc' \in [Procs -> Process] /\ path' \in Procs \cup {None}
      /\ \A q \in Procs : proc'[q] = Gone \/ proc'[q] = proc[q]
      /\ SocketInv'
    BY <1>0, <1>1, Exits DEF HostType
<1>4. HostType'
    BY <1>0, <1>1, <1>2, <1>3 DEF HostType
<1>5. ServiceInv'
    BY <1>0, <1>1, <1>2, <1>3, GoneType DEF ServiceInv
<1> QED
    BY <1>3, <1>4, <1>5 DEF HostInv

(* A new process starts with no client, on the build that is on disk.      *)
LEMMA Launches ==
    ASSUME HostType, SocketInv, NEW p \in Procs, NEW m \in BOOLEAN,
           Launch(p, m), path' = path, raced' = raced
    PROVE  /\ proc' \in [Procs -> Process]
           /\ proc'[p].managed = m /\ proc'[p].build = plan.build /\ proc'[p].st = "start"
           /\ \A q \in Procs \ {p} : proc'[q] = proc[q]
           /\ SocketInv'
<1> DEFINE v == Started(m)
<1>1. v \in Process /\ v.st = "start" /\ v.managed = m /\ v.build = plan.build
    BY DEF HostType, Scenario, Started, Gone, Process, ProcState
<1>2. proc' = [proc EXCEPT ![p] = v]
    BY DEF Launch
<1> HIDE DEF v
<1>3. /\ proc' \in [Procs -> Process] /\ proc'[p] = v
      /\ \A q \in Procs \ {p} : proc'[q] = proc[q]
    BY <1>1, <1>2, OneChanges
<1>4. SocketInv'
    BY <1>1, <1>3 DEF SocketInv
<1> QED
    BY <1>1, <1>3, <1>4

LEMMA StepSpawn ==
    ASSUME HostInv, NEW c \in Clients, spawn_broker_if_absent(c)
    PROVE  HostInv'
<1>0. HostType /\ SocketInv /\ ServiceInv
    BY DEF HostInv
<1>1. /\ plan' = [plan EXCEPT !.connects = @ - 1] /\ plan.connects > 0
      /\ UNCHANGED <<path, svc, adm, raced>>
    BY DEF spawn_broker_if_absent
<1>2. plan' \in Scenario /\ plan'.build = plan.build
    BY SMTT(60), <1>0, <1>1 DEF HostType, Scenario
<1>3. CASE UNCHANGED proc
  <2>1. HostType' /\ ServiceInv'
      BY <1>0, <1>1, <1>2, <1>3 DEF HostType, ServiceInv
  <2>2. SocketInv'
      BY <1>0, <1>1, <1>3 DEF SocketInv
  <2> QED
      BY <2>1, <2>2 DEF HostInv
<1>4. ASSUME NEW p \in Procs, Launch(p, FALSE)
      PROVE  HostInv'
  <2>1. /\ proc' \in [Procs -> Process]
        /\ proc'[p].managed = FALSE
        /\ \A q \in Procs \ {p} : proc'[q] = proc[q]
        /\ SocketInv'
      BY <1>0, <1>1, <1>4, Launches
  <2>2. HostType' /\ ServiceInv'
      BY SMTT(60), <1>0, <1>1, <1>2, <2>1 DEF HostType, ServiceInv
  <2> QED
      BY <2>1, <2>2 DEF HostInv
<1> QED
    BY <1>3, <1>4 DEF spawn_broker_if_absent

LEMMA StepKeepAlive ==
    ASSUME HostInv, KeepAlive
    PROVE  HostInv'
<1>0. HostType /\ SocketInv /\ ServiceInv
    BY DEF HostInv
<1>1. PICK p \in Procs :
          /\ Launch(p, TRUE)
          /\ svc' = [svc EXCEPT !.job = p,
                        !.starts = IF plan.platform = "linux" THEN @ + 1 ELSE @]
    BY DEF KeepAlive
<1>2. UNCHANGED <<plan, path, adm, raced>> /\ svc.job \notin Alive
    BY DEF KeepAlive
<1>3. /\ proc' \in [Procs -> Process]
      /\ proc'[p].build = plan.build /\ proc'[p].st = "start"
      /\ \A q \in Procs \ {p} : proc'[q] = proc[q]
      /\ SocketInv'
    BY <1>0, <1>1, <1>2, Launches
<1>4. /\ svc' \in Service
      /\ svc'.job = p /\ svc'.file = svc.file /\ svc'.loaded = svc.loaded
  <2> DEFINE k == IF plan.platform = "linux" THEN svc.starts + 1 ELSE svc.starts
  <2>1. svc \in Service /\ svc.starts \in Nat
      BY <1>0 DEF HostType, Service
  <2>2. k \in Nat
      BY SMTT(60), <2>1
  <2>3. svc' = [svc EXCEPT !.job = p, !.starts = k]
      BY <1>1
  <2> HIDE DEF k
  <2> QED
      BY <2>1, <2>2, <2>3 DEF Service
<1>5. HostType'
    BY <1>0, <1>2, <1>3, <1>4 DEF HostType
<1>6. \A q \in Procs : ~proc[q].managed
    BY <1>0, <1>2 DEF ServiceInv, Alive
<1>7. ServiceInv'
    BY <1>0, <1>2, <1>3, <1>4, <1>6 DEF ServiceInv, HostType, Scenario
<1> QED
    BY <1>3, <1>5, <1>7 DEF HostInv

LEMMA StepConnect ==
    ASSUME HostInv, NEW c \in Clients, connect(c)
    PROVE  HostInv'
<1>0. HostType
    BY DEF HostInv
<1>1. UNCHANGED <<plan, path, svc, adm, raced>>
    BY DEF connect
<1>2. CASE Answered /\ proc' = [proc EXCEPT ![path].backlog = @ \cup {c}]
  <2>1. path \in Procs
      BY <1>2 DEF Answered, Answering
  <2> DEFINE v == [proc[path] EXCEPT !.backlog = @ \cup {c}]
  <2>2. /\ v \in Process /\ v.st = proc[path].st /\ v.managed = proc[path].managed
        /\ v.build = proc[path].build
      BY <1>0, <2>1 DEF HostType, Process
  <2>3. proc' = [proc EXCEPT ![path] = v]
      BY <1>0, <1>2, <2>1 DEF HostType, Process
  <2> HIDE DEF v
  <2>4. /\ proc' \in [Procs -> Process] /\ proc'[path] = v
        /\ \A q \in Procs \ {path} : proc'[q] = proc[q]
      BY <1>0, <2>1, <2>2, <2>3, OneChanges
  <2> QED
      BY <1>0, <1>1, <2>2, <2>4, StepTraffic
<1>3. CASE UNCHANGED proc
    BY <1>0, <1>1, <1>3, StepTraffic DEF HostType
<1> QED
    BY <1>2, <1>3 DEF connect

(* The service manager stops its job: no managed broker is left.           *)
LEMMA JobStops ==
    ASSUME HostInv, StopJob, raced' = raced
    PROVE  /\ proc' \in [Procs -> Process] /\ path' \in Procs \cup {None}
           /\ SocketInv' /\ \A q \in Procs : ~proc'[q].managed
<1>0. HostType /\ SocketInv /\ ServiceInv
    BY DEF HostInv
<1>1. CASE svc.job \notin Alive
  <2>1. UNCHANGED <<path, proc>>
      BY <1>1 DEF StopJob
  <2>2. \A q \in Procs : ~proc[q].managed
      BY <1>0, <1>1 DEF ServiceInv, Alive
  <2>3. SocketInv'
      BY <1>0, <2>1 DEF SocketInv
  <2> QED
      BY <1>0, <2>1, <2>2, <2>3 DEF HostType
<1>2. CASE svc.job \in Alive
  <2>1. PICK p \in Procs : p = svc.job
      BY <1>2 DEF Alive
  <2>2. /\ proc' = [proc EXCEPT ![p] = Gone]
        /\ path' = path \/ (Serving(p) /\ path' = None)
      BY <1>2, <2>1 DEF StopJob, Leave
  <2>3. /\ proc' \in [Procs -> Process] /\ path' \in Procs \cup {None}
        /\ \A q \in Procs : proc'[q] = Gone \/ proc'[q] = proc[q]
        /\ proc'[p] = Gone /\ SocketInv'
      BY <1>0, <2>2, Exits DEF HostType
  <2> QED
      BY <1>0, <2>1, <2>3, GoneType DEF ServiceInv
<1> QED
    BY <1>1, <1>2

(* A command begins: its budget shrinks and no other is being run.         *)
LEMMA Begins ==
    ASSUME HostType, NEW kind \in {"install", "uninstall", "restart"}, Begin(kind)
    PROVE  /\ plan' \in Scenario /\ plan'.build = plan.build /\ plan' # plan
<1> DEFINE a == [plan.admin EXCEPT ![kind] = @ - 1]
<1>1. plan.admin \in [{"install", "uninstall", "restart"} -> Nat] /\ plan.admin[kind] > 0
    BY DEF HostType, Scenario, Begin
<1>2. a \in [{"install", "uninstall", "restart"} -> Nat] /\ a # plan.admin
    BY SMTT(60), <1>1
<1>3. plan' = [plan EXCEPT !.admin = a]
    BY DEF Begin
<1> HIDE DEF a
<1> QED
    BY <1>2, <1>3 DEF HostType, Scenario

LEMMA StepUninstall ==
    ASSUME HostInv, UninstallStop
    PROVE  HostInv'
<1>0. HostType
    BY DEF HostInv
<1>1. /\ Begin("uninstall") /\ StopJob /\ raced' = raced
      /\ svc' = ToStart(FALSE)
      /\ adm' = [NoCmd EXCEPT !.kind = "uninstall", !.st = "unfile"]
    BY DEF UninstallStop
<1>2. plan' \in Scenario
    BY <1>0, <1>1, Begins
<1>3. svc' \in Service
    BY <1>0, <1>1 DEF ToStart, HostType, Service
<1>4. adm' \in Command /\ adm'.st = "unfile"
    BY <1>1 DEF NoCmd, Command
<1>5. /\ proc' \in [Procs -> Process] /\ path' \in Procs \cup {None}
      /\ SocketInv' /\ \A q \in Procs : ~proc'[q].managed
    BY <1>1, JobStops
<1>6. HostType'
    BY <1>0, <1>1, <1>2, <1>3, <1>4, <1>5 DEF HostType
<1>7. ServiceInv'
    BY <1>4, <1>5 DEF ServiceInv
<1> QED
    BY <1>5, <1>6, <1>7 DEF HostInv

LEMMA StepRestart ==
    ASSUME HostInv, Restart
    PROVE  HostInv'
<1>0. HostType /\ SocketInv /\ ServiceInv
    BY DEF HostInv
<1>1. Begin("restart") /\ raced' = raced
    BY DEF Restart
<1>2. plan' \in Scenario /\ plan'.build = plan.build
    BY <1>0, <1>1, Begins
<1>3. CASE /\ adm' = [NoCmd EXCEPT !.kind = "restart", !.st = "not_installed"]
           /\ UNCHANGED <<path, proc, svc>>
  <2>1. adm' \in Command /\ adm'.st = "not_installed"
      BY <1>3 DEF NoCmd, Command
  <2>2. HostType' /\ ServiceInv'
      BY <1>0, <1>1, <1>2, <1>3, <2>1 DEF HostType, ServiceInv
  <2>3. SocketInv'
      BY <1>0, <1>1, <1>3 DEF SocketInv
  <2> QED
      BY <2>2, <2>3 DEF HostInv
<1>4. ASSUME NEW s \in {"bootstrap", "wait"}, NEW l \in BOOLEAN, s = "wait" => l,
             svc.file, StopJob, svc' = ToStart(l),
             adm' = [NoCmd EXCEPT !.kind = "restart", !.st = s, !.want = plan.build]
      PROVE  HostInv'
  <2>1. /\ svc' \in Service
        /\ svc'.file = svc.file /\ svc'.loaded = l
      BY <1>0, <1>4 DEF ToStart, HostType, Service
  <2>2. adm' \in Command /\ adm'.st = s /\ adm'.want = plan.build
      BY <1>0, <1>4 DEF NoCmd, Command, HostType, Scenario
  <2>3. /\ proc' \in [Procs -> Process] /\ path' \in Procs \cup {None}
        /\ SocketInv' /\ \A q \in Procs : ~proc'[q].managed
      BY <1>1, <1>4, JobStops
  <2>4. HostType'
      BY <1>0, <1>1, <1>2, <2>1, <2>2, <2>3 DEF HostType
  <2>5. ServiceInv'
      BY SMTT(60), <1>0, <1>2, <1>4, <2>1, <2>2, <2>3 DEF ServiceInv, HostType, Scenario
  <2> QED
      BY <2>3, <2>4, <2>5 DEF HostInv
<1>5. ASSUME StopJob, svc' = GivenUp,
             adm' = [NoCmd EXCEPT !.kind = "restart", !.st = "refused"]
      PROVE  HostInv'
  <2>1. svc' \in Service
      BY <1>0, <1>5 DEF GivenUp, HostType, Service
  <2>2. adm' \in Command /\ adm'.st = "refused"
      BY <1>5 DEF NoCmd, Command
  <2>3. /\ proc' \in [Procs -> Process] /\ path' \in Procs \cup {None}
        /\ SocketInv' /\ \A q \in Procs : ~proc'[q].managed
      BY <1>1, <1>5, JobStops
  <2>4. HostType'
      BY <1>0, <1>1, <1>2, <2>1, <2>2, <2>3 DEF HostType
  <2>5. ServiceInv'
      BY <2>2, <2>3 DEF ServiceInv
  <2> QED
      BY <2>3, <2>4, <2>5 DEF HostInv
<1>6. CASE restart_macos
  <2>1. CASE ~launchctl_is_registered \/ ~svc.file
      BY <1>3, <1>6, <2>1 DEF restart_macos
  <2>2. CASE ~(~launchctl_is_registered \/ ~svc.file)
      BY <1>4, <1>6, <2>2 DEF restart_macos
  <2> QED
      BY <2>1, <2>2
<1>7. CASE restart_linux
  <2>1. CASE ~svc.file
      BY <1>3, <1>7, <2>1 DEF restart_linux
  <2>2. CASE svc.file /\ StartLimitHit
      BY <1>5, <1>7, <2>2 DEF restart_linux
  <2>3. CASE svc.file /\ ~StartLimitHit
      BY <1>4, <1>7, <2>3 DEF restart_linux
  <2> QED
      BY <2>1, <2>2, <2>3
<1> QED
    BY <1>6, <1>7 DEF Restart

(* Steps that change no process and not the socket.                        *)
LEMMA StepElsewhere ==
    ASSUME HostInv, UNCHANGED <<path, proc, raced>>,
           plan' \in Scenario, plan'.build >= plan.build,
           svc' \in Service,
           svc'.job = svc.job \/ svc.job \notin Alive, adm' \in Command,
           adm'.st \in {"bootstrap", "wait"} =>
              adm.st \in {"bootstrap", "wait"} /\ adm'.want = adm.want /\ svc'.file,
           adm'.st = "wait" => svc'.loaded
    PROVE  HostInv'
<1>1. HostType'
    BY DEF HostInv, HostType
<1>2. SocketInv'
    BY DEF HostInv, SocketInv
<1>3. ServiceInv'
  <2>1. plan.build \in Nat /\ plan'.build \in Nat /\ adm.want \in Nat
      BY DEF HostInv, HostType, Scenario, Command
  <2>2. \A p \in Procs : proc[p].managed => svc'.job = p
      BY DEF HostInv, ServiceInv, Alive
  <2> QED
      BY SMTT(60), <2>1, <2>2 DEF HostInv, ServiceInv
<1> QED
    BY <1>1, <1>2, <1>3 DEF HostInv

LEMMA StepAdmin ==
    ASSUME HostInv, Admin
    PROVE  HostInv'
<1>0. HostType /\ ServiceInv
    BY DEF HostInv
<1>1. CASE check_not_sandboxed
  <2>1. plan' \in Scenario /\ plan'.build = plan.build
      BY <1>0, <1>1, Begins DEF check_not_sandboxed
  <2>2. UNCHANGED <<path, proc, raced, svc>>
      BY <1>1 DEF check_not_sandboxed
  <2>3. adm' \in Command /\ adm'.st \in {"sandboxed", "write"}
      BY <1>1 DEF check_not_sandboxed, NoCmd, Command
  <2>4. plan'.build >= plan.build
      BY SMTT(60), <1>0, <2>1 DEF HostType, Scenario
  <2> QED
      BY <1>0, <2>1, <2>2, <2>3, <2>4, StepElsewhere DEF HostType
<1>2. CASE WriteServiceFile \/ load_service
  <2>1. UNCHANGED <<plan, path, proc, raced>> /\ plan.build >= plan.build
      BY SMTT(60), <1>0, <1>2 DEF WriteServiceFile, load_service, HostType, Scenario
  <2>2. svc' \in Service /\ (svc'.job = svc.job \/ svc.job \notin Alive)
      BY <1>0, <1>2 DEF WriteServiceFile, load_service, GivenUp, HostType, Service
  <2>3. adm' \in Command /\ adm'.st \in {"load", "ok", "refused"}
    <3>1. CASE WriteServiceFile
        BY <1>0, <3>1 DEF WriteServiceFile, HostType, Command
    <3>2. CASE load_service
      <4>1. adm' = Say("ok") \/ adm' = Say("refused")
          BY <3>2 DEF load_service
      <4>2. adm.kind \in {"none", "install", "uninstall", "restart"}
          BY <1>0 DEF HostType, Command
      <4>3. CASE adm' = Say("ok")
          BY <4>2, <4>3 DEF Say, NoCmd, Command
      <4>4. CASE adm' = Say("refused")
          BY <4>2, <4>4 DEF Say, NoCmd, Command
      <4> QED
          BY <4>1, <4>3, <4>4
    <3> QED
        BY <1>2, <3>1, <3>2
  <2> QED
      BY <1>0, <2>1, <2>2, <2>3, StepElsewhere DEF HostType
<1>3. CASE UninstallFile
  <2>1. UNCHANGED <<plan, path, proc, raced>> /\ plan.build >= plan.build
      BY SMTT(60), <1>0, <1>3 DEF UninstallFile, HostType, Scenario
  <2>2. /\ svc' \in Service
        /\ svc'.job = svc.job
      BY <1>0, <1>3 DEF UninstallFile, HostType, Service
  <2>3. adm' \in Command /\ adm'.st = "ok"
      BY <1>0, <1>3 DEF UninstallFile, Say, NoCmd, HostType, Command
  <2> QED
      BY <1>0, <2>1, <2>2, <2>3, StepElsewhere DEF HostType
<1>4. CASE Bootstrap
  <2>1. UNCHANGED <<plan, path, proc, raced>> /\ plan.build >= plan.build
      BY SMTT(60), <1>0, <1>4 DEF Bootstrap, HostType, Scenario
  <2>2. /\ svc' \in Service
        /\ svc'.job = svc.job /\ svc'.loaded /\ svc'.file = svc.file
      BY <1>0, <1>4 DEF Bootstrap, HostType, Service
  <2>3. adm' \in Command /\ adm'.st = "wait" /\ adm'.want = adm.want /\ adm.st = "bootstrap"
      BY <1>0, <1>4 DEF Bootstrap, HostType, Command
  <2> QED
      BY <1>0, <2>1, <2>2, <2>3, StepElsewhere DEF HostType, ServiceInv
<1>5. CASE wait_until_healthy \/ RestartTimedOut
  <2>1. UNCHANGED <<plan, path, proc, raced, svc>> /\ plan.build >= plan.build
      BY SMTT(60), <1>0, <1>5 DEF wait_until_healthy, RestartTimedOut, HostType,
         Scenario
  <2>2. adm' \in Command /\ adm.st = "wait" /\ adm'.want = adm.want
    <3>1. CASE wait_until_healthy
        BY <1>0, <3>1 DEF wait_until_healthy, HostType, Command
    <3>2. CASE RestartTimedOut
        BY <1>0, <3>2 DEF RestartTimedOut, HostType, Command
    <3> QED
        BY <1>5, <3>1, <3>2
  <2> QED
      BY <1>0, <2>1, <2>2, StepElsewhere DEF HostType, ServiceInv
<1> QED
    BY <1>1, <1>2, <1>3, <1>4, <1>5, StepUninstall, StepRestart DEF Admin

(* The start limit, and the interval that ends it.                         *)
LEMMA StepLimit ==
    ASSUME HostInv, StartLimit \/ IntervalPasses
    PROVE  HostInv'
<1>0. HostType /\ ServiceInv
    BY DEF HostInv
<1>1. UNCHANGED <<plan, path, proc, adm, raced>> /\ plan.build >= plan.build
    BY SMTT(60), <1>0 DEF StartLimit, IntervalPasses, HostType, Scenario
<1>2. CASE StartLimit
  <2>1. svc' \in Service /\ svc'.file = svc.file /\ svc'.loaded /\ svc.job \notin Alive
      BY <1>0, <1>2 DEF StartLimit, GivenUp, HostType, Service
  <2> QED
      BY <1>0, <1>1, <2>1, StepElsewhere DEF HostType, ServiceInv
<1>3. CASE IntervalPasses
  <2>1. /\ svc' \in Service /\ svc'.file = svc.file /\ svc'.loaded = svc.loaded
        /\ svc'.job = svc.job
      BY SMTT(60), <1>0, <1>3 DEF IntervalPasses, HostType, Service
  <2> QED
      BY <1>0, <1>1, <2>1, StepElsewhere DEF HostType, ServiceInv
<1> QED
    BY <1>2, <1>3

LEMMA HostInvInit == Init => HostInv
<1> SUFFICES ASSUME Init PROVE HostInv
    OBVIOUS
<1>1. \A p \in Procs : proc[p] = Gone
    BY DEF Init
<1>2. HostType
  <2>1. plan \in Scenario
      BY HostAssumption DEF Init
  <2>2. adm \in Command /\ svc \in Service
      BY SMTT(60), <2>1 DEF Init, NoCmd, Command, Scenario, Service
  <2> QED
      BY <2>1, <2>2, GoneType DEF Init, HostType
<1>3. SocketInv
    BY <1>1, GoneType DEF SocketInv
<1>4. ServiceInv
    BY <1>1, GoneType DEF Init, NoCmd, ServiceInv
<1> QED
    BY <1>2, <1>3, <1>4 DEF HostInv

LEMMA HostInvNext == HostInv /\ [Next]_vars => HostInv'
<1> SUFFICES ASSUME HostInv, [Next]_vars PROVE HostInv'
    OBVIOUS
<1>0. HostType /\ ServiceInv
    BY DEF HostInv
<1>1. ASSUME UNCHANGED <<plan, path, proc, svc, adm, raced>>
      PROVE  HostInv'
  <2>1. plan.build >= plan.build
      BY SMTT(60), <1>0 DEF HostType, Scenario
  <2> QED
      BY <1>0, <1>1, <2>1, StepElsewhere DEF HostType, ServiceInv
<1>2. ASSUME NEW p \in Procs, Broker(p) \/ IdleArm(p) \/ Kill(p)
      PROVE  HostInv'
    BY <1>2, StepBind, StepProbe, StepUnlink, StepListen, StepAccept, StepExit
       DEF Broker
<1>3. ASSUME NEW c \in Clients, Connecting(c) \/ spawn_broker_if_absent(c) \/ shutdown(c)
      PROVE  HostInv'
  <2>1. CASE SpawnPoll(c) \/ classify_hello_reply(c) \/ wait_for_disconnect(c) \/ shutdown(c)
    <3>1. UNCHANGED <<plan, path, proc, svc, adm, raced>>
      <4>1. CASE SpawnPoll(c)
          BY <4>1 DEF SpawnPoll
      <4>2. CASE classify_hello_reply(c)
          BY <4>2 DEF classify_hello_reply
      <4>3. CASE wait_for_disconnect(c) \/ shutdown(c)
          BY <4>3 DEF wait_for_disconnect, shutdown
      <4> QED
          BY <2>1, <4>1, <4>2, <4>3
    <3> QED
        BY <1>1, <3>1
  <2> QED
      BY <1>3, <2>1, StepConnect, StepSpawn DEF Connecting
<1>4. CASE Upgrade
  <2>1. plan' \in Scenario /\ plan'.build >= plan.build
    <3>1. plan.upgrades - 1 \in Nat /\ plan.build \in Nat
        BY SMTT(60), <1>0, <1>4 DEF Upgrade, HostType, Scenario
    <3> DEFINE u == plan.upgrades - 1
               b == plan.build + 1
    <3>2. u \in Nat /\ b \in Nat /\ b >= plan.build
        BY SMTT(60), <3>1
    <3>3. plan' = [plan EXCEPT !.upgrades = u, !.build = b] /\ plan \in Scenario
        BY <1>0, <1>4 DEF Upgrade, HostType
    <3> HIDE DEF u, b
    <3>4. plan' \in Scenario /\ plan'.build = b
        BY <3>2, <3>3 DEF Scenario
    <3> QED
        BY <3>2, <3>4
  <2>2. UNCHANGED <<path, proc, svc, adm, raced>>
      BY <1>4 DEF Upgrade
  <2> QED
      BY <1>0, <2>1, <2>2, StepElsewhere DEF HostType, ServiceInv
<1>5. CASE UNCHANGED vars
    BY <1>1, <1>5 DEF vars
<1> QED
    BY <1>2, <1>3, <1>4, <1>5, StepAdmin, StepKeepAlive, StepLimit DEF Next

-----------------------------------------------------------------------------
(* At most one broker serves (bind_exclusive), through idle exits, kills   *)
(* that leave the socket file, restarts and client-started brokers, for    *)
(* every number of each and however their start-ups interleave, unless one *)
(* had found the file stale and, before it removed it, another was between *)
(* the same finding and listen().                                          *)
THEOREM Exclusion == Spec => []ExclusiveUnlessRaced
<1>1. HostInv => ExclusiveUnlessRaced
  <2> SUFFICES ASSUME HostInv, ~raced
               PROVE  Cardinality({p \in Procs : Serving(p)}) <= 1
      BY DEF ExclusiveUnlessRaced
  <2> DEFINE S == {p \in Procs : Serving(p)}
  <2>1. \A p, q \in S : p = q
      BY DEF HostInv, SocketInv, Serving
  <2>2. CASE S = {}
      BY SMTT(60), <2>2, FS_EmptySet
  <2>3. CASE S # {}
    <3>1. PICK p \in S : S = {p}
        BY <2>1, <2>3
    <3> QED
        BY SMTT(60), <3>1, FS_Singleton
  <2> QED
      BY <2>2, <2>3
<1> QED
    BY <1>1, HostInvInit, HostInvNext, PTL DEF Spec

(* `famp daemon restart' says "broker restarted" only of the service's own *)
(* broker, of the wanted build or a newer one, while `status' would say    *)
(* RUNNING: whatever brokers clients start, and whenever processes die.    *)
THEOREM RestartReportsTruth == Spec => RestartTruthful
<1> DEFINE Truth == adm.st = "wait" /\ adm'.st = "ok" =>
                       /\ adm'.orphan = svc.job
                       /\ proc[svc.job].build >= adm.want
                       /\ daemon_status(adm.want) = "RUNNING"
<1>1. HostInv /\ [Next]_vars => [Truth]_vars
  <2> SUFFICES ASSUME HostInv, Next, adm.st = "wait", adm'.st = "ok"
               PROVE  /\ adm'.orphan = svc.job
                      /\ proc[svc.job].build >= adm.want
                      /\ daemon_status(adm.want) = "RUNNING"
      OBVIOUS
  <2>0. HostType /\ ServiceInv
      BY DEF HostInv
  <2>1. wait_until_healthy
    <3>1. adm' # adm
        OBVIOUS
    <3>2. ASSUME NEW kind, Begin(kind) PROVE FALSE
        BY <3>2 DEF Begin, AdmIdle
    <3>3. ASSUME NEW p \in Procs, Broker(p) \/ IdleArm(p) \/ Kill(p) PROVE FALSE
        BY <3>1, <3>3 DEF Broker, bind_exclusive, BindProbe, BindUnlink, Listen,
           AcceptArm,
                          DisconnectArm, IdleArm, Kill
    <3>4. ASSUME NEW c \in Clients, Connecting(c) \/ spawn_broker_if_absent(c) \/ shutdown(c)
          PROVE  FALSE
      <4>1. CASE SpawnPoll(c)
          BY <3>1, <4>1 DEF SpawnPoll
      <4>2. CASE connect(c) \/ classify_hello_reply(c)
          BY <3>1, <4>2 DEF connect, classify_hello_reply
      <4>3. CASE wait_for_disconnect(c) \/ shutdown(c)
          BY <3>1, <4>3 DEF wait_for_disconnect, shutdown
      <4>4. CASE spawn_broker_if_absent(c)
          BY <3>1, <4>4 DEF spawn_broker_if_absent
      <4> QED
          BY <3>4, <4>1, <4>2, <4>3, <4>4 DEF Connecting
    <3>5. ~KeepAlive /\ ~StartLimit /\ ~IntervalPasses /\ ~Upgrade
        BY <3>1 DEF KeepAlive, StartLimit, IntervalPasses, Upgrade
    <3>6. ~check_not_sandboxed /\ ~UninstallStop /\ ~Restart
        BY <3>2 DEF check_not_sandboxed, UninstallStop, Restart
    <3>7. ~WriteServiceFile /\ ~load_service /\ ~UninstallFile /\ ~Bootstrap
        BY DEF WriteServiceFile, load_service, UninstallFile, Bootstrap
    <3>8. ~RestartTimedOut
        BY <2>0 DEF RestartTimedOut, HostType, Command
    <3> QED
        BY <3>3, <3>4, <3>5, <3>6, <3>7, <3>8 DEF Next, Admin
  <2>2. raw_connect_probe(adm.want) = "Healthy" /\ is_daemon_managed_pid(path)
        /\ adm'.orphan = path
      BY <2>0, <2>1 DEF wait_until_healthy, HostType, Command
  <2>3. path \in Procs /\ proc[path].st = "serve"
      BY <2>2 DEF raw_connect_probe, Answered, Answering, Serving
  <2>4. svc.job = path /\ proc[path].build >= adm.want /\ svc.file /\ svc.loaded
      BY <2>0, <2>2, <2>3 DEF is_daemon_managed_pid, ServiceInv
  <2>5. svc.job \in Alive
      BY <2>3, <2>4 DEF Alive
  <2> QED
      BY <2>2, <2>4, <2>5 DEF daemon_status, launchctl_is_registered,
         systemctl_is_active
<1> QED
    BY <1>1, HostInvInit, HostInvNext, PTL DEF Spec, RestartTruthful
=============================================================================
