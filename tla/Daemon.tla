------------------------------- MODULE Daemon --------------------------------
(***************************************************************************)
(* The platform service of the broker: launchd (macOS) or systemd --user    *)
(* (Linux) as src/ uses them, and the `famp daemon` commands that drive     *)
(* them, composed with the broker processes and clients of Host.            *)
(***************************************************************************)
EXTENDS Host

NoCmd == [kind |-> "none", st |-> "none", orphan |-> None, want |-> 0]

Say(answer) == [NoCmd EXCEPT !.kind = adm.kind, !.st = answer]

-----------------------------------------------------------------------------
(* The service manager (external). *)

Alive == {p \in Procs : proc[p].st # "gone"}

\* Stopping a job is SIGTERM: a broker in its run loop unlinks the socket, one
\* still starting just dies.
StopJob ==
    IF svc.job \notin Alive THEN UNCHANGED <<path, proc>>
    ELSE IF Serving(svc.job) THEN Leave(svc.job)
    ELSE proc' = [proc EXCEPT ![svc.job] = Gone] /\ UNCHANGED path

launchctl_is_registered == svc.loaded

systemctl_is_active == svc.loaded /\ svc.job \in Alive

\* The unit has used up its starts of this interval (launchd knows no such limit).
StartLimitHit == plan.platform = "linux" /\ svc.starts = StartLimitBurst

\* No job runs; a loaded one is the manager's to start.
ToStart(loaded) == [svc EXCEPT !.loaded = loaded, !.job = None, !.failed = FALSE]

\* The unit is `failed'.
GivenUp == [svc EXCEPT !.loaded = TRUE, !.job = None, !.failed = TRUE]

\* KeepAlive / Restart=always: a registered job that is not running is started,
\* whatever status it exited with, as long as the start limit allows.
KeepAlive ==
    /\ svc.loaded /\ ~svc.failed /\ svc.job \notin Alive /\ ~StartLimitHit
    /\ \E p \in Procs :
          /\ Launch(p, TRUE)
          /\ svc' = [svc EXCEPT !.job = p,
                        !.starts = IF plan.platform = "linux" THEN @ + 1 ELSE @]
    /\ UNCHANGED <<plan, path, client, adm, raced>>

\* A start past the limit leaves the unit `failed': it is not tried again.
StartLimit ==
    /\ svc.loaded /\ ~svc.failed /\ svc.job \notin Alive /\ StartLimitHit
    /\ svc' = GivenUp
    /\ UNCHANGED <<plan, path, proc, client, adm, raced>>

\* StartLimitIntervalSec passes: the starts are counted afresh, but a unit that
\* was given up stays so.
IntervalPasses ==
    /\ svc.starts > 0
    /\ svc' = [svc EXCEPT !.starts = 0]
    /\ UNCHANGED <<plan, path, proc, client, adm, raced>>

-----------------------------------------------------------------------------
(* famp daemon install. *)

AdmIdle == adm.st \in {"none", "ok", "orphan", "timeout", "not_installed", "refused", "sandboxed"}

Begin(kind) ==
    /\ AdmIdle /\ kind \in DOMAIN plan.admin /\ plan.admin[kind] > 0
    /\ plan' = [plan EXCEPT !.admin[kind] = @ - 1]

\* The strict bind probe comes before anything is written.
check_not_sandboxed ==
    /\ Begin("install")
    /\ adm' = [NoCmd EXCEPT !.kind = "install", !.st = IF plan.admsandbox THEN "sandboxed" ELSE "write"]
    /\ UNCHANGED <<path, proc, client, svc, raced>>

\* The unit file is (over)written whether or not the service runs.
WriteServiceFile ==
    /\ adm.kind = "install" /\ adm.st = "write"
    /\ svc' = [svc EXCEPT !.file = TRUE]
    /\ adm' = [adm EXCEPT !.st = "load"]
    /\ UNCHANGED <<plan, path, proc, client, raced>>

\* launchctl bootstrap unless already registered; systemctl enable --now, which
\* fails when the unit does not run and may not be started.  A running broker is
\* not restarted.
load_service ==
    /\ adm.kind = "install" /\ adm.st = "load"
    /\ IF svc.job \notin Alive /\ StartLimitHit
       THEN svc' = GivenUp /\ adm' = Say("refused")
       ELSE svc' = [svc EXCEPT !.loaded = TRUE, !.failed = FALSE] /\ adm' = Say("ok")
    /\ UNCHANGED <<plan, path, proc, client, raced>>

-----------------------------------------------------------------------------
(* famp daemon uninstall. *)

\* bootout / disable --now; that nothing was loaded is fine.
UninstallStop ==
    /\ Begin("uninstall")
    /\ StopJob
    /\ svc' = ToStart(FALSE)
    /\ adm' = [NoCmd EXCEPT !.kind = "uninstall", !.st = "unfile"]
    /\ UNCHANGED <<client, raced>>

UninstallFile ==
    /\ adm.kind = "uninstall" /\ adm.st = "unfile"
    /\ svc' = [svc EXCEPT !.file = FALSE]
    /\ adm' = Say("ok")
    /\ UNCHANGED <<plan, path, proc, client, raced>>

-----------------------------------------------------------------------------
(* famp daemon restart. *)

\* launchd: not registered, or no plist, is an error; bootout then bootstrap.
restart_macos ==
    /\ plan.platform = "macos"
    /\ IF ~launchctl_is_registered \/ ~svc.file
       THEN /\ adm' = [NoCmd EXCEPT !.kind = "restart", !.st = "not_installed"]
            /\ UNCHANGED <<path, proc, svc>>
       ELSE /\ StopJob
            /\ svc' = ToStart(FALSE)
            /\ adm' = [NoCmd EXCEPT !.kind = "restart", !.st = "bootstrap", !.want = plan.build]

\* systemctl restart: the job is stopped and, by the manager, started again.  An
\* unknown unit is an error, and so is a start past the limit, which leaves the
\* unit stopped.
restart_linux ==
    /\ plan.platform = "linux"
    /\ IF ~svc.file
       THEN /\ adm' = [NoCmd EXCEPT !.kind = "restart", !.st = "not_installed"]
            /\ UNCHANGED <<path, proc, svc>>
       ELSE /\ StopJob
            /\ IF StartLimitHit
               THEN svc' = GivenUp /\ adm' = [NoCmd EXCEPT !.kind = "restart", !.st = "refused"]
               ELSE /\ svc' = ToStart(TRUE)
                    /\ adm' = [NoCmd EXCEPT !.kind = "restart", !.st = "wait", !.want = plan.build]

Restart ==
    /\ Begin("restart")
    /\ restart_macos \/ restart_linux
    /\ UNCHANGED <<client, raced>>

Bootstrap ==
    /\ adm.st = "bootstrap"
    /\ svc' = [svc EXCEPT !.loaded = TRUE]
    /\ adm' = [adm EXCEPT !.st = "wait"]
    /\ UNCHANGED <<plan, path, proc, client, raced>>

\* What the socket says to a command of this build, without starting anything.
raw_connect_probe(build) ==
    CASE path = None -> "DownClean"
      [] path # None /\ ~Answered -> "StaleSocket"
      [] OTHER -> IF Speaks(path, build) THEN "Healthy" ELSE "OrphanHolder"

M_is_daemon_managed_pid(p) == TRUE

\* The broker's command line has --no-idle-exit.
is_daemon_managed_pid(p) == proc[p].managed

\* One poll of wait_until_healthy: a managed broker that answers ends it; any
\* other broker is remembered.
wait_until_healthy ==
    /\ adm.st = "wait"
    /\ raw_connect_probe(adm.want) = "Healthy"
    /\ adm' = IF is_daemon_managed_pid(path)
              THEN [adm EXCEPT !.st = "ok", !.orphan = path]
              ELSE [adm EXCEPT !.orphan = path]
    /\ UNCHANGED <<plan, path, proc, client, svc, raced>>

\* The five-second budget is spent.
RestartTimedOut ==
    /\ adm.st = "wait"
    /\ adm' = [adm EXCEPT !.st = IF adm.orphan # None THEN "orphan" ELSE "timeout"]
    /\ UNCHANGED <<plan, path, proc, client, svc, raced>>

\* famp daemon status, as one look at the system.
daemon_status(build) ==
    CASE ~svc.file -> "NOT_INSTALLED"
      [] svc.file /\ (IF plan.platform = "macos" THEN launchctl_is_registered ELSE systemctl_is_active)
            /\ raw_connect_probe(build) = "Healthy" -> "RUNNING"
      [] OTHER -> "INSTALLED_DOWN"

\* `cargo install` replaces the binary on disk.
Upgrade ==
    /\ plan.upgrades > 0
    /\ plan' = [plan EXCEPT !.upgrades = @ - 1, !.build = @ + 1]
    /\ UNCHANGED <<path, proc, client, svc, adm, raced>>

-----------------------------------------------------------------------------
Init ==
    /\ plan \in Plans
    /\ path = None
    /\ proc = [p \in Procs |-> Gone]
    /\ client = [c \in Clients |-> [st |-> "idle", tries |-> 0, at |-> None, build |-> 0]]
    /\ svc = [file |-> plan.service, loaded |-> plan.service, job |-> None,
              starts |-> 0, failed |-> FALSE]
    /\ adm = NoCmd
    /\ raced = FALSE

Broker(p) == bind_exclusive(p) \/ BindProbe(p) \/ BindUnlink(p) \/ Listen(p)
                \/ AcceptArm(p) \/ DisconnectArm(p)

Connecting(c) == SpawnPoll(c) \/ connect(c) \/ classify_hello_reply(c) \/ wait_for_disconnect(c)

Admin == check_not_sandboxed \/ WriteServiceFile \/ load_service \/ UninstallStop \/ UninstallFile
            \/ Restart \/ Bootstrap \/ wait_until_healthy \/ RestartTimedOut

Next ==
    \/ \E p \in Procs : Broker(p) \/ IdleArm(p) \/ Kill(p)
    \/ \E c \in Clients : Connecting(c) \/ spawn_broker_if_absent(c) \/ shutdown(c)
    \/ Admin \/ KeepAlive \/ StartLimit \/ IntervalPasses \/ Upgrade

Spec == Init /\ [][Next]_vars

\* The run loop, a client's own polling and the service manager's restarts keep
\* going; kills, user commands and the idle timer are nobody's duty.
FairSpec == /\ Spec
            /\ \A p \in Procs : WF_vars(bind_exclusive(p)) /\ WF_vars(BindProbe(p))
                                /\ WF_vars(BindUnlink(p)) /\ WF_vars(Listen(p)) /\ WF_vars(AcceptArm(p))
            /\ \A c \in Clients : WF_vars(Connecting(c))
            /\ WF_vars(KeepAlive) /\ WF_vars(StartLimit)

-----------------------------------------------------------------------------
(* Properties. *)

\* bind_exclusive lets at most one broker serve, through idle exits, kills that
\* leave the socket file behind, restarts and client-started brokers, however
\* their start-ups interleave; only when one has found the file stale and, before
\* it removes it, another is on its way from the same finding to listen(), may
\* the first remove the second's file.
ExclusiveUnlessRaced ==
    ~raced => Cardinality({p \in Procs : Serving(p)}) <= 1

\* `famp daemon restart` says "broker restarted" only of the service's own
\* broker, running the binary that was on disk when the command began (or a
\* newer one), never of a broker some client started meanwhile.
RestartTruthful ==
    [][adm.st = "wait" /\ adm'.st = "ok" =>
          /\ adm'.orphan = svc.job
          /\ proc[svc.job].build >= adm.want
          /\ daemon_status(adm.want) = "RUNNING"]_vars

\* A client that needs the bus ends up connected or reports a failure, whatever
\* happens to the brokers it meets on the way.
ClientSettles ==
    \A c \in Clients : client[c].st \in {"poll", "connect", "hello"} ~>
                          client[c].st \in {"up", "failed", "idle", "done"}

\* While the service is loaded the bus keeps being answered, after every kill
\* and every exit, until systemd has counted StartLimitBurst starts in one
\* interval and gives the unit up; a start-up that removed another's file
\* is the other way the bus can stay silent.
ServiceAnswers == []<>(~svc.loaded \/ svc.failed \/ raced \/ Answered)

=============================================================================
