-------------------------------- MODULE Host ---------------------------------
(***************************************************************************)
(* The processes around the broker: how a broker takes the bus socket and   *)
(* gives it up, how a client that finds no broker starts one, and how the   *)
(* platform service (`famp daemon install | restart | uninstall | status`)  *)
(* runs one that never exits by itself.  Every system call is a step of its *)
(* own, so start-ups, exits, kills and restarts interleave.                 *)
(*                                                                          *)
(* The socket file is named by the process that bound it; a process that    *)
(* died without unlinking leaves its name behind.                           *)
(***************************************************************************)
EXTENDS Naturals, FiniteSets

CONSTANTS
    Procs,          \* broker processes
    Clients,        \* `famp` commands and MCP servers that use the bus
    None,
    Polls,          \* attempts of spawn_broker_if_absent, connect, wait_until_healthy
    StartLimitBurst,\* starts of the unit that systemd allows in an interval
    Plans           \* the scenarios

\* A scenario: the platform and whether the service is installed, who runs in a
\* sandbox and who closes its connection when done, how many connects, kills,
\* commands and upgrades there are, and whether an upgrade bumps the protocol.
Scenario ==
    [platform : {"macos", "linux"}, service : BOOLEAN, connects : Nat, kills : Nat,
     sandboxed : SUBSET Clients, admsandbox : BOOLEAN, oneshot : SUBSET Clients,
     admin : [{"install", "uninstall", "restart"} -> Nat],
     upgrades : Nat, bump : BOOLEAN, build : Nat]

ASSUME HostAssumption == /\ None \notin Procs /\ \A p \in Plans : p \in Scenario
                         /\ StartLimitBurst \in Nat

VARIABLES
    plan,           \* platform, who is sandboxed, and what is left of each budget
    path,           \* who bound the socket file that is there
    proc,           \* the broker processes
    client,         \* the clients
    svc,            \* the service manager: unit file, registration, the job, its
                    \* starts in this interval, whether it was given up
    adm,            \* the `famp daemon` command being run
    raced           \* history: a start-up was about to remove the socket file while
                    \* another was on its way from its own probe to listen()

vars == <<plan, path, proc, client, svc, adm, raced>>

-----------------------------------------------------------------------------
(* Broker processes. *)

Serving(p) == proc[p].st = "serve"

\* connect() succeeds only on a socket somebody listens on.
Answering(p) == path = p /\ Serving(p)

Answered == \E p \in Procs : Answering(p)

Gone == [st |-> "gone", managed |-> FALSE, build |-> 0, idle |-> FALSE,
         backlog |-> {}, accepted |-> {}]

\* A process number is used again once nothing refers to it.
Free(p) == /\ proc[p].st = "gone" /\ path # p /\ svc.job # p
           /\ \A c \in Clients : client[c].at # p

Started(managed) ==
    [Gone EXCEPT !.st = "start", !.managed = managed, !.build = plan.build, !.idle = ~managed]

Launch(p, managed) ==
    /\ Free(p) /\ p = CHOOSE q \in Procs : Free(q)
    /\ proc' = [proc EXCEPT ![p] = Started(managed)]

\* One broker has found the socket file stale and not yet removed it; another is
\* between the same finding and listen(), and the file may be, or become, its own.
Overlap ==
    \E p, q \in Procs : /\ p # q /\ proc[p].st = "unlink"
                        /\ proc[q].st \in {"unlink", "rebind", "bound"}

\* bind() succeeds only when nothing is at the path; a second failure, after
\* the unlink, ends the process.
bind_exclusive(p) ==
    /\ proc[p].st \in {"start", "rebind"}
    /\ \/ path = None /\ path' = p /\ proc' = [proc EXCEPT ![p].st = "bound"]
       \/ /\ path # None /\ proc[p].st = "start"
          /\ proc' = [proc EXCEPT ![p].st = "probe"] /\ UNCHANGED path
       \/ /\ path # None /\ proc[p].st = "rebind"
          /\ proc' = [proc EXCEPT ![p] = Gone] /\ UNCHANGED path
    /\ raced' = (raced \/ Overlap')
    /\ UNCHANGED <<plan, client, svc, adm>>

M_BindProbe(p) ==
    /\ proc[p].st = "probe"
    /\ proc' = [proc EXCEPT ![p].st = "unlink"]
    /\ raced' = (raced \/ Overlap')
    /\ UNCHANGED <<plan, path, client, svc, adm>>

N_BindProbe(p) ==
    /\ proc[p].st = "probe"
    /\ proc' = [proc EXCEPT ![p] = Gone]
    /\ raced' = (raced \/ Overlap')
    /\ UNCHANGED <<plan, path, client, svc, adm>>

\* The path is taken: a broker that answers there is deferred to, anything else
\* counts as a stale file.
BindProbe(p) ==
    /\ proc[p].st = "probe"
    /\ proc' = IF Answered THEN [proc EXCEPT ![p] = Gone] ELSE [proc EXCEPT ![p].st = "unlink"]
    /\ raced' = (raced \/ Overlap')
    /\ UNCHANGED <<plan, path, client, svc, adm>>

\* remove_file takes away whatever is at the path now; finding nothing is an error.
BindUnlink(p) ==
    /\ proc[p].st = "unlink"
    /\ path' = None
    /\ proc' = IF path = None THEN [proc EXCEPT ![p] = Gone] ELSE [proc EXCEPT ![p].st = "rebind"]
    /\ UNCHANGED <<plan, client, svc, adm, raced>>

\* UnixListener::bind is bind() and then listen().
Listen(p) ==
    /\ proc[p].st = "bound"
    /\ proc' = [proc EXCEPT ![p].st = "serve"]
    /\ UNCHANGED <<plan, path, client, svc, adm, raced>>

\* Arm 1 of the run loop: a new connection cancels the idle timer.
AcceptArm(p) ==
    /\ Serving(p)
    /\ \E c \in proc[p].backlog :
          proc' = [proc EXCEPT ![p].backlog = @ \ {c}, ![p].accepted = @ \cup {c},
                               ![p].idle = FALSE]
    /\ UNCHANGED <<plan, path, client, svc, adm, raced>>

\* Arm 2: the last connection to close arms the timer again.
DisconnectArm(p) ==
    /\ Serving(p)
    /\ \E c \in proc[p].accepted :
          /\ client[c].at # p
          /\ proc' = [proc EXCEPT ![p].accepted = @ \ {c},
                        ![p].idle = proc[p].accepted = {c} /\ ~proc[p].managed]
    /\ UNCHANGED <<plan, path, client, svc, adm, raced>>

\* Arms 4 and 5: the socket file is unlinked, whoever bound it.
Leave(p) ==
    /\ path' = None
    /\ proc' = [proc EXCEPT ![p] = Gone]

IdleArm(p) ==
    /\ Serving(p) /\ proc[p].idle
    /\ Leave(p)
    /\ UNCHANGED <<plan, client, svc, adm, raced>>

\* SIGKILL, a power cut of the session, a panic: the file stays.
Kill(p) ==
    /\ proc[p].st # "gone" /\ plan.kills > 0
    /\ plan' = [plan EXCEPT !.kills = @ - 1]
    /\ proc' = [proc EXCEPT ![p] = Gone]
    /\ UNCHANGED <<path, client, svc, adm, raced>>

-----------------------------------------------------------------------------
(* Clients: spawn_broker_if_absent, then connect, then Hello. *)

At(c, st, tries) == [client[c] EXCEPT !.st = st, !.tries = tries]

Detached(c, st) == [client[c] EXCEPT !.st = st, !.tries = 0, !.at = None]

\* A program keeps the build it was started from.
BuildOf(c) == IF client[c].build = 0 THEN plan.build ELSE client[c].build

\* A broker that answers is used; a sandboxed process may not bind and reports
\* so; otherwise a child is started without --no-idle-exit.
spawn_broker_if_absent(c) ==
    /\ client[c].st = "idle" /\ plan.connects > 0
    /\ plan' = [plan EXCEPT !.connects = @ - 1]
    /\ \/ /\ Answered \/ c \in plan.sandboxed
          /\ client' = [client EXCEPT ![c] =
                [At(c, IF Answered THEN "connect" ELSE "failed", Polls) EXCEPT !.build = BuildOf(c)]]
          /\ UNCHANGED proc
       \/ /\ ~Answered /\ c \notin plan.sandboxed
          /\ \E p \in Procs : Launch(p, FALSE)
          /\ client' = [client EXCEPT ![c] = [At(c, "poll", Polls) EXCEPT !.build = BuildOf(c)]]
    /\ UNCHANGED <<path, svc, adm, raced>>

M_SpawnPoll(c) ==
    /\ client[c].st = "poll"
    /\ client' = [client EXCEPT ![c] = IF Answered THEN At(c, "connect", Polls) ELSE @]
    /\ UNCHANGED <<plan, path, proc, svc, adm, raced>>

\* The child is given ten polls to come up.
SpawnPoll(c) ==
    /\ client[c].st = "poll"
    /\ client' = [client EXCEPT ![c] =
            CASE Answered -> At(c, "connect", Polls)
              [] ~Answered /\ @.tries > 0 -> At(c, "poll", @.tries - 1)
              [] OTHER -> At(c, "failed", 0)]
    /\ UNCHANGED <<plan, path, proc, svc, adm, raced>>

connect(c) ==
    /\ client[c].st = "connect"
    /\ \/ /\ Answered
          /\ client' = [client EXCEPT ![c] = [At(c, "hello", 0) EXCEPT !.at = path]]
          /\ proc' = [proc EXCEPT ![path].backlog = @ \cup {c}]
       \/ /\ ~Answered
          /\ client' = [client EXCEPT ![c] = IF @.tries > 0 THEN At(c, "connect", @.tries - 1)
                                                            ELSE At(c, "failed", 0)]
          /\ UNCHANGED proc
    /\ UNCHANGED <<plan, path, svc, adm, raced>>

\* Two builds speak the same bus protocol unless the upgrade between them bumped it.
Speaks(p, build) == plan.bump => proc[p].build = build

\* HelloOk, or a protocol mismatch.
classify_hello_reply(c) ==
    /\ client[c].st = "hello" /\ c \in proc[client[c].at].accepted
    /\ client' = [client EXCEPT ![c] =
            IF Speaks(@.at, @.build) THEN At(c, "up", 0) ELSE Detached(c, "failed")]
    /\ UNCHANGED <<plan, path, proc, svc, adm, raced>>

\* End of file: a handshake fails; `famp register` notices and connects again.
wait_for_disconnect(c) ==
    /\ client[c].st \in {"hello", "up"}
    /\ c \notin proc[client[c].at].backlog \cup proc[client[c].at].accepted
    /\ client' = [client EXCEPT ![c] =
            Detached(c, IF @.st = "up" THEN "idle" ELSE "failed")]
    /\ UNCHANGED <<plan, path, proc, svc, adm, raced>>

\* The command finishes and closes its connection.
shutdown(c) ==
    /\ client[c].st = "up" /\ c \in plan.oneshot
    /\ client' = [client EXCEPT ![c] = Detached(c, "done")]
    /\ UNCHANGED <<plan, path, proc, svc, adm, raced>>

=============================================================================
