------------------------------- MODULE Window --------------------------------
(***************************************************************************)
(* An agent's window as a whole: the MCP server, the Stop hooks, the        *)
(* commands of the same user, a broker that may die at any moment and be    *)
(* started again by the next client, and mail from other windows.           *)
(***************************************************************************)
EXTENDS Hook, Commands

vars == <<sessionVars, hookVars, commandVars>>

Init ==
    /\ plan \in Plans
    /\ bk = [up |-> TRUE, gen |-> 1]
    /\ hold = [n \in Names |-> None]
    /\ box = [n \in Names |-> <<>>] /\ tail = [n \in Names |-> None]
    /\ ao = [n \in Names |-> 0]
    /\ cursor = [n \in Names |-> 0]
    /\ aw = [w \in Waiters |-> NoAwait]
    /\ mcp = FreshSession
    /\ tx = <<>>
    /\ told = [n \in Names |-> {}]
    /\ turn = "run" /\ cut = 0 /\ queued = FALSE /\ raced = FALSE
    /\ hk = [h \in Hooks |-> NoHook]
    /\ lockf = [n \in Names |-> NoLock]
    /\ reg = NoRegister /\ wr = NoWaitReply
    /\ lw = [w \in Wakers |-> NoWaker]
    /\ pidf = None /\ wakes = {} /\ overlap = FALSE

Refs == {ref \in plan.refs : ref = None \/ ref \in 1 .. Mail}

Tool ==
    \/ \E n \in plan.names, listen \in plan.listen, rebind \in plan.rebind : register(n, listen, rebind)
    \/ \E listen \in BOOLEAN : set_listen(listen)
    \/ whoami
    \/ peers
    \/ \E n \in plan.to, ref \in Refs : send(n, ref)
    \/ \E since \in {None} \cup 0 .. MaxMail : inbox(since)
    \/ \E t \in Refs : await(t)
    \/ join
    \/ leave

Agent == turn = "run" /\ Tool /\ UNCHANGED <<hookVars, commandVars>>

ServerStep == inbox_write_through \/ await_done

Around ==
    \/ BrokerDies
    \/ ServerRestart
    \/ \E n \in plan.to, ref \in Refs : Arrive(n, ref)
    \/ \E w \in Waiters : AwaitDeadline(w)

HostStep == EndTurn \/ HooksDone

Next ==
    \/ Agent
    \/ (ServerStep \/ Around) /\ UNCHANGED <<hookVars, commandVars>>
    \/ /\ \/ HostStep \/ Prompt \/ Enqueue \/ Interrupt \/ Compact \/ LockAges \/ SiblingRegisters
          \/ \E h \in Hooks : HookStep(h) \/ send_recv_abortable(h)
       /\ UNCHANGED commandVars
    \/ /\ \/ RegisterStarts \/ RegisterStep \/ shutdown_signal \/ inbox_ack
          \/ WaitStarts \/ wait_inbox \/ wait_await \/ wait_done
          \/ \E w \in Wakers : WakerStarts(w) \/ ensure_supervised_inner(w) \/ WakerStep(w)
       /\ UNCHANGED hookVars

Spec == Init /\ [][Next]_vars

\* Every process that can go on does; the agent, its user and the faults need not.
Fairness ==
    /\ WF_vars(ServerStep /\ UNCHANGED <<hookVars, commandVars>>)
    /\ WF_vars(HostStep /\ UNCHANGED commandVars)
    /\ \A h \in Hooks : WF_vars(HookStep(h) /\ UNCHANGED commandVars)
    /\ WF_vars(RegisterStep /\ UNCHANGED hookVars)
    /\ \A w \in Wakers : WF_vars(WakerStep(w) /\ UNCHANGED hookVars)

FairSpec == Spec /\ Fairness

-----------------------------------------------------------------------------
(* What is claimed. *)

(* Everything that decodes and that the cursor file counts as read was      *)
(* shown to the user of the name, or reported to them as a number when they *)
(* registered, or lies before a `since' or an ack that they themselves      *)
(* named: the offset famp_inbox and `famp register --tail` write is the one *)
(* the broker returned with the records, so mail that lands before the      *)
(* write stays unread.  (`famp register` without --tail marks the backlog   *)
(* read and says nothing of it.)                                            *)
ReadWasTold ==
    \A n \in Names :
        (hold[n] # None /\ (hold[n].by = Register => reg.tail))
            => \A k \in 1 .. cursor[n] : box[n][k].ok => box[n][k].id \in told[n]

(* famp_verify says "not delivered", which invites a second send, of what   *)
(* famp_whoami reports as the last send only when no line of the            *)
(* recipient's mailbox has it: not with the recipient gone, not after       *)
(* crashes that left an unfinished line to which the record was glued, for  *)
(* replies and for new tasks.  SendOk alone does not say that it is there:  *)
(* the broker answers so although the append failed.                        *)
VerifyIsTrue ==
    mcp.last_send # None /\ verify = "not delivered" =>
        LET n == mcp.last_send.to_peer
        IN  \A k \in DOMAIN box[n] : box[n][k].id # mcp.last_send.task_id

(* A hook waits for a name only when the last successful register or        *)
(* set_listen call of the agent, over the whole conversation, turned        *)
(* listening on for that name, also when the tail of the transcript the     *)
(* hook reads no longer has those calls; unless the host process also runs  *)
(* another window's server and the broker knows no name of this window's,   *)
(* when the hook takes that other name.                                     *)
HookFollowsAgent ==
    \A h \in Hooks : Running(h) /\ ~At(h, "start") =>
        \/ replay_actions(scan_transcript(tx)).active = hk[h].id
        \/ hk[h].via = Sibling

(* Of the hooks that run at the same time one at most waits, unless a lock  *)
(* was replaced between being found stale and being removed.                *)
Waiting(h) == hk[h].pc \in {"await", "wait", "emit", "drop"}

OneHookWaits ==
    ~raced => \A g, h \in Hooks : Waiting(g) /\ Waiting(h) /\ hk[g].id = hk[h].id => g = h

(* Of the listen-wake processes one at most waits, unless one has read the  *)
(* pid file after another had read it and before that one had written it.   *)
OneWakerWaits ==
    ~overlap => \A v, w \in Wakers : lw[v].pc \in {"await", "wait"} /\ lw[w].pc \in {"await", "wait"} => v = w

(* Of the processes that wait for one name's mail, one of a kind at most    *)
(* waits at a time: two would share what the window is to be woken for.     *)
OneWaits == OneHookWaits /\ OneWakerWaits

(* `famp wait-reply` does not sleep while the reply is there: the inbox was  *)
(* looked at first, so what it has not seen arrived later, and then it was   *)
(* handed to another await of the name, or is behind other unread mail.      *)
WaitReplyMissesNothing ==
    (wr.pc = "wait" /\ aw[WaitReply].st = "parked" /\ hold[Me] # None) =>
        \A k \in DOMAIN box[Me] :
            box[Me][k].ok /\ is_reply_for_task(box[Me][k], wr.task) =>
                /\ k > wr.seen
                /\ \/ k <= ao[Me]
                   \/ \E i \in ao[Me] + 1 .. k : box[Me][i].ok /\ ~task_matches(wr.task, box[Me][i])

(* Mail that reaches a parked hook starts the agent's next turn, when        *)
(* nothing is killed: the hook counts what the cursor file has not, and the  *)
(* await cursor, which has already passed the mail, plays no part.  (With    *)
(* two hooks per stop the second, if it is late enough, parks after the      *)
(* first has given its answer, and the host waits for both.)                 *)
Calm == Cardinality(plan.hooks) = 1 /\ plan.kills = 0 /\ plan.deaths = 0 /\ plan.restarts = 0 /\ ~May("ack")

ParkedIsWoken ==
    \A h \in Hooks :
        (Calm /\ hk[h].parked /\ aw[h].st = "answered") ~> (turn = "run")

(* `famp register` takes its name back after every broker it loses, unless  *)
(* it was told not to, was interrupted, or somebody else has the name.      *)
NameIsTakenBack ==
    (/\ reg.pc \in {"hold", "write"} /\ LinkLost
     /\ ~May("signal") /\ ~May("no_reconnect")) ~> (\E n \in Names : n = reg.name /\ hold[n] # None)

=============================================================================
