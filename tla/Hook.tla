-------------------------------- MODULE Hook ---------------------------------
(***************************************************************************)
(* The Stop hook of a window: `famp hook codex-stop' and the await shim     *)
(* famp-await.sh, which does the same with an abort on queued input.  When  *)
(* the agent's turn ends the host runs the hooks and waits for them; a hook *)
(* that prints a block decision starts the next turn.  A host that loads    *)
(* the configuration of two others runs two of them.                        *)
(***************************************************************************)
EXTENDS Session

CONSTANTS
    Hooks,          \* hook processes
    Sibling         \* the MCP server of another window that the same host runs

VARIABLES
    turn,           \* the agent: "run", "stop" (hooks are running), "idle"
    cut,            \* lines that are no longer in the tail of the transcript
    hk,             \* the hook processes
    lockf,          \* the lock file of each name's hooks
    queued,         \* the user has typed something while the hooks ran
    raced           \* history: a lock was removed that is not the one found stale

hookVars == <<turn, cut, hk, lockf, queued, raced>>

NoHook == [pc |-> "off", id |-> None, via |-> None, saw |-> None, parked |-> FALSE, block |-> FALSE]

Running(h) == hk[h].pc \notin {"off", "done"}

-----------------------------------------------------------------------------
(* Which name, if any, the hook is to wait for. *)

\* What the lines read so far give: the calls, and those that succeeded.
NothingRead == [calls |-> <<>>, ok |-> {}]

WithCall(p, c) == [p EXCEPT !.calls = Append(@, c)]

WithResult(p, r) == [p EXCEPT !.ok = IF r.ok THEN @ \cup {r.no} ELSE @]

parse_claude_format(p, l) ==
    CASE l.line = "call" -> WithCall(p, l)
      [] l.line = "result" -> WithResult(p, l)
      [] OTHER -> p

parse_codex_format(p, l) ==
    IF l.line = "call_end" THEN WithResult(WithCall(p, l.call), l.result) ELSE p

\* The last two megabytes of the transcript, line by line; a call and its
\* result may end up on the two sides of where that begins.
scan_transcript(lines) ==
    LET read[i \in 0 .. Len(lines)] ==
            IF i = 0 THEN NothingRead
            ELSE parse_codex_format(parse_claude_format(read[i - 1], lines[i]), lines[i])
    IN  read[Len(lines)]

Replay(s, a) ==
    CASE a.listen = FALSE ->
            [active |-> None, off |-> TRUE, last |-> IF a.kind = "register" THEN a.id ELSE s.last]
      [] a.listen /\ a.kind = "register" -> [active |-> a.id, off |-> FALSE, last |-> a.id]
      [] OTHER -> IF s.last = None THEN s ELSE [s EXCEPT !.active = s.last, !.off = FALSE]

\* Only calls that are known to have succeeded count; the last one decides.
replay_actions(p) ==
    LET good(c) == c.no \in p.ok
        calls   == SelectSeq(p.calls, good)
        state[i \in 0 .. Len(calls)] ==
            IF i = 0 THEN [active |-> None, off |-> FALSE, last |-> None] ELSE Replay(state[i - 1], calls[i])
    IN  state[Len(calls)]

\* The files of the session under CODEX_HOME/sessions, whatever their names.
walk_sessions == plan.rollout.files

allowed_rollout_path(p) == \E f \in walk_sessions : f.path = p

\* The first row of the databases that names such a file.
rollout_from_sqlite ==
    LET rows == SelectSeq(plan.rollout.rows, allowed_rollout_path)
    IN  IF rows = <<>> THEN None ELSE Head(rows)

rollout_from_glob ==
    LET newest(f) == \A g \in walk_sessions : g.mtime <= f.mtime
    IN  IF walk_sessions = {} THEN None ELSE (CHOOSE f \in walk_sessions : newest(f)).path

resolve_rollout_path == IF rollout_from_sqlite # None THEN rollout_from_sqlite ELSE rollout_from_glob

\* The transcript is the one the host names, or is looked up; there may be none.
resolve_transcript ==
    IF plan.rollout = None \/ resolve_rollout_path = "live" THEN SubSeq(tx, cut + 1, Len(tx)) ELSE <<>>

Heard == replay_actions(scan_transcript(resolve_transcript))

extract_listen_state ==
    IF Heard.active # None THEN "Active" ELSE IF Heard.off THEN "ExplicitlyOff" ELSE "Unresolved"

\* The `famp mcp' children of the hook's ancestors: this window's server, and
\* that of another window when the same host process runs both.
sibling_mcp_pids == {Server} \cup {w \in {Sibling} : plan.sibling # "none"}

\* The names the broker has for them.
unique_session_name_for_pids(pids) == {n \in Names : hold[n] # None /\ hold[n].by \in pids}

identity_is_listen(n) == hold[n].listen

M_resolve_via_pid ==
    LET mine == unique_session_name_for_pids(sibling_mcp_pids)
    IN  IF Cardinality(mine) = 1 THEN CHOOSE n \in mine : TRUE ELSE None

resolve_via_pid ==
    LET mine == unique_session_name_for_pids(sibling_mcp_pids)
        n    == CHOOSE m \in mine : TRUE
    IN  IF Cardinality(mine) = 1 /\ identity_is_listen(n) THEN n ELSE None

\* An explicit opt-out is final; only a transcript that says nothing is
\* completed by what the broker says.
Resolved ==
    CASE extract_listen_state = "Active" -> Heard.active
      [] extract_listen_state = "ExplicitlyOff" -> None
      [] OTHER -> resolve_via_pid

-----------------------------------------------------------------------------
(* The host. *)

\* The other window registers a name, listening.
SiblingRegisters ==
    /\ plan.sibling = "idle" /\ bk.up /\ hold[Peer] = None
    /\ plan' = [plan EXCEPT !.sibling = "up"]
    /\ RegisterOk(Peer, Sibling, TRUE)
    /\ told' = [told EXCEPT ![Peer] = @ \cup Ids(Peer, 0)]
    /\ UNCHANGED <<bk, box, tail, aw, mcp, tx, turn, cut, hk, lockf, queued, raced>>

EndTurn ==
    /\ turn = "run" /\ Idle /\ plan.hooks # {}
    /\ turn' = "stop"
    /\ hk' = [h \in Hooks |-> IF h \in plan.hooks THEN [NoHook EXCEPT !.pc = "start"] ELSE NoHook]
    /\ UNCHANGED <<sessionVars, cut, lockf, queued, raced>>

\* The hooks have ended: a lock that is left names a process that is no more, also
\* when hooks are started again.
Orphaned == [n \in Names |-> [lockf[n] EXCEPT !.by = None]]

\* Every hook has exited: a block decision, or queued input, starts a turn.
HooksDone ==
    /\ turn = "stop" /\ \A h \in Hooks : ~Running(h)
    /\ turn' = IF queued \/ \E h \in Hooks : hk[h].block THEN "run" ELSE "idle"
    /\ hk' = [h \in Hooks |-> NoHook] /\ lockf' = Orphaned
    /\ queued' = FALSE
    /\ UNCHANGED <<sessionVars, cut, raced>>

Prompt ==
    /\ turn = "idle" /\ plan.prompts > 0
    /\ turn' = "run"
    /\ plan' = [plan EXCEPT !.prompts = @ - 1]
    /\ UNCHANGED <<brokerVars, mcp, tx, told, cut, hk, lockf, queued, raced>>

Enqueue ==
    /\ turn = "stop" /\ ~queued /\ May("queue")
    /\ queued' = TRUE
    /\ UNCHANGED <<sessionVars, turn, cut, hk, lockf, raced>>

\* Interrupted: the hooks are killed where they are, the lock stays.
Interrupt ==
    /\ turn = "stop" /\ plan.kills > 0
    /\ turn' = "run"
    /\ hk' = [h \in Hooks |-> NoHook] /\ lockf' = Orphaned
    /\ aw' = [w \in Waiters |-> IF w \in Hooks THEN NoAwait ELSE aw[w]]
    /\ plan' = [plan EXCEPT !.kills = @ - 1]
    /\ UNCHANGED <<bk, hold, box, tail, ao, cursor, mcp, tx, told, cut, queued, raced>>

\* The transcript grows past the tail that is scanned.
Compact ==
    /\ cut < Len(tx) /\ May("compact") /\ turn = "run"
    /\ cut' = cut + 1
    /\ UNCHANGED <<sessionVars, turn, hk, lockf, queued, raced>>

-----------------------------------------------------------------------------
(* A hook process. *)

At(h, pc) == hk[h].pc = pc

Goto(h, pc) == hk' = [hk EXCEPT ![h].pc = pc]

\* An end_turn hook that finds a name goes on to the lock; everything else,
\* errors too, exits 0 without a decision.
HookStart(h) ==
    /\ At(h, "start")
    /\ hk' = [hk EXCEPT ![h].pc = IF Resolved = None THEN "done" ELSE "create", ![h].id = Resolved,
                        ![h].via = IF extract_listen_state = "Unresolved" /\ Resolved # None
                                   THEN hold[Resolved].by ELSE None]
    /\ UNCHANGED <<sessionVars, turn, cut, lockf, queued, raced>>

NoLock == [st |-> "none", by |-> None, aged |-> FALSE]

Lock(h) == lockf[hk[h].id]

SetLock(h, l) == lockf' = [lockf EXCEPT ![hk[h].id] = l]

\* The file names a process that is still there.
Held(h) == Lock(h).st = "pid" /\ Lock(h).by # None /\ Running(Lock(h).by)

\* O_EXCL: the file is there, empty, before the pid is written into it.
create_and_claim(h) ==
    /\ At(h, "create") \/ At(h, "again")
    /\ IF Lock(h).st = "none"
       THEN SetLock(h, [NoLock EXCEPT !.st = "empty", !.by = h]) /\ Goto(h, "claim")
       ELSE lockf' = lockf /\ Goto(h, IF At(h, "create") THEN "look" ELSE "done")
    /\ UNCHANGED <<sessionVars, turn, cut, queued, raced>>

\* The pid goes to the file that was created, whether it still has its name or not.
WritePid(h) ==
    /\ At(h, "claim")
    /\ SetLock(h, IF Lock(h).by = h THEN [Lock(h) EXCEPT !.st = "pid"] ELSE Lock(h))
    /\ Goto(h, "await")
    /\ UNCHANGED <<sessionVars, turn, cut, queued, raced>>

M_lock_is_within_grace(h) == FALSE

lock_is_within_grace(h) == ~Lock(h).aged

\* A live holder, or a file so new that its holder may not have written its
\* pid yet, is left alone.
try_acquire(h) ==
    /\ At(h, "look")
    /\ hk' = [hk EXCEPT ![h].saw = Lock(h),
                        ![h].pc = IF Held(h) \/ (Lock(h).st = "empty" /\ lock_is_within_grace(h))
                                  THEN "done" ELSE "reclaim"]
    /\ UNCHANGED <<sessionVars, turn, cut, lockf, queued, raced>>

\* remove_file takes away what is there now.
Reclaim(h) ==
    /\ At(h, "reclaim")
    /\ raced' = (raced \/ (Lock(h).st # "none" /\ Lock(h) # hk[h].saw))
    /\ SetLock(h, NoLock)
    /\ Goto(h, "again")
    /\ UNCHANGED <<sessionVars, turn, cut, queued>>

\* Thirty seconds are far more than the two system calls of a live process.
LockAges ==
    /\ ~\E h \in Hooks : At(h, "claim")
    /\ \E n \in Names : /\ lockf[n].st = "empty" /\ ~lockf[n].aged
                        /\ lockf' = [lockf EXCEPT ![n].aged = TRUE]
    /\ UNCHANGED <<sessionVars, turn, cut, hk, queued, raced>>

HookAwait(h) ==
    /\ At(h, "await")
    /\ await_envelope(h, hk[h].id, None)
    /\ bk' = Connected
    /\ hk' = [hk EXCEPT ![h].pc = "wait", ![h].parked = (aw'[h].st = "parked")]
    /\ UNCHANGED <<plan, hold, box, tail, cursor, mcp, tx, told, turn, cut, lockf, queued, raced>>

\* An error, a timeout and an empty answer end the hook without a decision.
HookAnswer(h) ==
    /\ At(h, "wait") /\ aw[h].st \notin {"no", "parked"}
    /\ Goto(h, IF aw[h].st = "answered" THEN "emit" ELSE "drop")
    /\ UNCHANGED <<sessionVars, turn, cut, lockf, queued, raced>>

\* send_recv_abortable: input that was queued ends the await, unless the
\* answer is there, or comes within the grace; the connection closes later.
send_recv_abortable(h) ==
    /\ At(h, "wait") /\ queued /\ aw[h].st = "parked"
    /\ Goto(h, "drop")
    /\ UNCHANGED <<sessionVars, turn, cut, lockf, queued, raced>>

M_actionable_unread(n) == Len(box[n]) - ao[n]

\* Unread is what is behind the cursor file, not behind the await cursor.
actionable_unread(n) == Len(box[n]) - cursor[n]

\* What has been read by another way since it was sent is no reason to wake;
\* when the broker cannot say, the hook wakes.
emit_block_decision(h) ==
    /\ At(h, "emit")
    /\ hk' = [hk EXCEPT ![h].pc = "drop",
                        ![h].block = \/ ~bk.up
                                     \/ hold[hk[h].id] = None
                                     \/ actionable_unread(hk[h].id) > 0]
    /\ UNCHANGED <<sessionVars, turn, cut, lockf, queued, raced>>

\* The lock file is removed, whoever's it is by now, and the process ends.
DropLock(h) ==
    /\ At(h, "drop")
    /\ SetLock(h, NoLock)
    /\ aw' = [aw EXCEPT ![h] = NoAwait]
    /\ Goto(h, "done")
    /\ UNCHANGED <<plan, bk, hold, box, tail, ao, cursor, mcp, tx, told, turn, cut, queued, raced>>

HookStep(h) ==
    \/ HookStart(h)
    \/ create_and_claim(h)
    \/ WritePid(h)
    \/ try_acquire(h)
    \/ Reclaim(h)
    \/ HookAwait(h)
    \/ HookAnswer(h)
    \/ emit_block_decision(h)
    \/ DropLock(h)

=============================================================================
