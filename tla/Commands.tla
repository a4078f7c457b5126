------------------------------ MODULE Commands ------------------------------
(***************************************************************************)
(* The `famp' commands that stay with the bus for a while: `famp register`  *)
(* (with and without --tail), `famp wait-reply` and `famp listen-wake`; and *)
(* `famp inbox ack`, which only writes a cursor file.                       *)
(***************************************************************************)
EXTENDS Session

CONSTANTS
    Register,       \* the `famp register` process
    WaitReply,      \* the `famp wait-reply` process
    Wakers,         \* `famp listen-wake` processes
    ReconnectCap,   \* RECONNECT_CAP, in units of RECONNECT_INITIAL
    MaxFailures     \* MAX_CONSECUTIVE_FAILURES

VARIABLES
    reg,            \* `famp register`
    wr,             \* `famp wait-reply`
    lw,             \* the `famp listen-wake` processes
    pidf,           \* the pid file of listen-wake
    wakes,          \* lines of the wake file
    overlap         \* history: a listen-wake read the pid file while another was between
                    \* its own reading and writing

commandVars == <<reg, wr, lw, pidf, wakes, overlap>>

-----------------------------------------------------------------------------
(* famp register: hold a name until told to stop. *)

NoRegister == [pc |-> "off", name |-> None, tail |-> FALSE, gen |-> 0, pos |-> 0, next |-> 0, delay |-> 1]

RegisterStarts ==
    /\ reg.pc = "off"
    /\ \E s \in plan.register : reg' = [NoRegister EXCEPT !.pc = "connect", !.name = s.name, !.tail = s.tail]
    /\ UNCHANGED <<sessionVars, wr, lw, pidf, wakes, overlap>>

\* A name somebody holds ends the command.  With --tail the mailbox is printed
\* when the name is taken, and again by the first poll, which starts at 0.
run_one_session ==
    /\ reg.pc = "connect"
    /\ bk' = Connected
    /\ IF name_taken(reg.name, Register)
       THEN /\ reg' = [reg EXCEPT !.pc = "exit"]
            /\ UNCHANGED <<hold, ao, cursor, told>>
       ELSE /\ RegisterOk(reg.name, Register, reg.tail)
            /\ told' = IF reg.tail THEN [told EXCEPT ![reg.name] = @ \cup Ids(reg.name, 0)] ELSE told
            /\ reg' = [reg EXCEPT !.pc = "hold", !.gen = bk'.gen, !.pos = 0]
    /\ UNCHANGED <<plan, box, tail, aw, mcp, tx, wr, lw, pidf, wakes, overlap>>

LinkLost == ~bk.up \/ reg.gen # bk.gen

M_Disconnected ==
    /\ reg.pc = "hold" /\ LinkLost
    /\ reg' = [reg EXCEPT !.pc = "exit"]
    /\ UNCHANGED <<sessionVars, wr, lw, pidf, wakes, overlap>>

\* The end of the connection is waited for, or met by a poll; the pause before
\* the next attempt doubles each time and is never reset.
Disconnected ==
    /\ reg.pc = "hold" /\ LinkLost
    /\ reg' = [reg EXCEPT !.pc = IF May("no_reconnect") THEN "exit" ELSE "sleep"]
    /\ UNCHANGED <<sessionVars, wr, lw, pidf, wakes, overlap>>

Reconnect ==
    /\ reg.pc = "sleep"
    /\ reg' = [reg EXCEPT !.pc = "connect", !.delay = Smaller(2 * @, ReconnectCap)]
    /\ UNCHANGED <<sessionVars, wr, lw, pidf, wakes, overlap>>

\* One poll of --tail prints what is behind its own position...
tail_loop ==
    /\ reg.pc = "hold" /\ reg.tail /\ ~LinkLost /\ Len(box[reg.name]) > reg.pos
    /\ told' = [told EXCEPT ![reg.name] = @ \cup Ids(reg.name, reg.pos)]
    /\ reg' = [reg EXCEPT !.pc = "write", !.next = Len(box[reg.name])]
    /\ UNCHANGED <<plan, brokerVars, mcp, tx, wr, lw, pidf, wakes, overlap>>

\* ...and then writes the cursor file, with or without a broker.
tail_cursor ==
    /\ reg.pc = "write"
    /\ cursor' = [cursor EXCEPT ![reg.name] = reg.next]
    /\ reg' = [reg EXCEPT !.pc = "hold", !.pos = reg.next]
    /\ UNCHANGED <<plan, bk, hold, box, tail, ao, aw, mcp, tx, told, wr, lw, pidf, wakes, overlap>>

\* Ctrl-C: the connection closes and the name is free.  It is not listened for
\* while the cursor file is written.
shutdown_signal ==
    /\ reg.pc \in {"hold", "sleep"} /\ May("signal")
    /\ reg' = [reg EXCEPT !.pc = "exit"]
    /\ hold' = [n \in Names |-> IF hold[n] # None /\ hold[n].by = Register THEN None ELSE hold[n]]
    /\ UNCHANGED <<plan, bk, box, tail, ao, cursor, aw, mcp, tx, told, wr, lw, pidf, wakes, overlap>>

RegisterStep ==
    run_one_session \/ Disconnected \/ Reconnect \/ tail_loop \/ tail_cursor

\* famp inbox ack: any offset the user gives, without the broker.
inbox_ack ==
    /\ May("ack")
    /\ \E to \in 0 .. Len(box[Me]) :
          /\ cursor' = [cursor EXCEPT ![Me] = to]
          /\ told' = [told EXCEPT ![Me] = @ \cup {box[Me][k].id : k \in 1 .. to}]
    /\ UNCHANGED <<plan, bk, hold, box, tail, ao, aw, mcp, tx, commandVars>>

-----------------------------------------------------------------------------
(* famp wait-reply: look into the inbox first, then wait. *)

NoWaitReply == [pc |-> "off", task |-> None, seen |-> 0]

WaitStarts ==
    /\ wr.pc = "off" /\ May("wait_reply")
    /\ \E t \in plan.refs \ {None} : wr' = [NoWaitReply EXCEPT !.pc = "inbox", !.task = t]
    /\ UNCHANGED <<sessionVars, reg, lw, pidf, wakes, overlap>>

is_reply_for_task(r, t) == r.ref = t

M_wait_inbox ==
    /\ wr.pc = "inbox"
    /\ bk' = Connected
    /\ wr' = [wr EXCEPT !.pc = IF hold[Me] = None THEN "done" ELSE "await", !.seen = Len(box[Me])]
    /\ UNCHANGED <<plan, hold, box, tail, ao, cursor, aw, mcp, tx, told, reg, lw, pidf, wakes, overlap>>

\* The whole mailbox is looked at, also what is behind the await cursor.
wait_inbox ==
    /\ wr.pc = "inbox"
    /\ bk' = Connected
    /\ wr' = [wr EXCEPT !.seen = Len(box[Me]),
                        !.pc = IF \/ hold[Me] = None
                                  \/ \E k \in DOMAIN box[Me] : box[Me][k].ok /\ is_reply_for_task(box[Me][k], wr.task)
                               THEN "done" ELSE "await"]
    /\ UNCHANGED <<plan, hold, box, tail, ao, cursor, aw, mcp, tx, told, reg, lw, pidf, wakes, overlap>>

wait_await ==
    /\ wr.pc = "await"
    /\ IF bk.up
       THEN await_envelope(WaitReply, Me, wr.task)
       ELSE aw' = [aw EXCEPT ![WaitReply] = [NoAwait EXCEPT !.st = "failed"]] /\ UNCHANGED ao
    /\ wr' = [wr EXCEPT !.pc = "wait"]
    /\ UNCHANGED <<plan, bk, hold, box, tail, cursor, mcp, tx, told, reg, lw, pidf, wakes, overlap>>

wait_done ==
    /\ wr.pc = "wait" /\ aw[WaitReply].st \notin {"no", "parked"}
    /\ aw' = [aw EXCEPT ![WaitReply] = NoAwait]
    /\ wr' = [wr EXCEPT !.pc = "done"]
    /\ UNCHANGED <<plan, bk, hold, box, tail, ao, cursor, mcp, tx, told, reg, lw, pidf, wakes, overlap>>

-----------------------------------------------------------------------------
(* famp listen-wake --loop: one per name, kept apart by a pid file. *)

NoWaker == [pc |-> "off", force |-> FALSE, failures |-> 0, old |-> None]

WakerAt(w, pc) == lw[w].pc = pc

\* Its command line says so as long as it runs.
is_listen_wake_alive(w) == w \in Wakers /\ lw[w].pc \notin {"off", "exit"}

\* It has read the pid file and not yet written its own pid.
Between(w) == lw[w].pc \in {"kill", "remove", "open", "write"}

Live == pidf # None /\ is_listen_wake_alive(pidf)

Spawned(w, force) == lw' = [lw EXCEPT ![w] = [NoWaker EXCEPT !.pc = "read", !.force = force]]

WakerStarts(w) ==
    /\ WakerAt(w, "off") /\ May("listen_wake")
    /\ \E force \in BOOLEAN : Spawned(w, force)
    /\ UNCHANGED <<sessionVars, reg, wr, pidf, wakes, overlap>>

\* --daemon: nothing is started next to one that runs, unless forced to.
ensure_supervised_inner(w) ==
    /\ WakerAt(w, "off") /\ May("daemon")
    /\ \E force \in BOOLEAN : (force \/ ~Live) /\ Spawned(w, force)
    /\ UNCHANGED <<sessionVars, reg, wr, pidf, wakes, overlap>>

\* A live one is left alone, or killed when forced to; the file of a dead one is
\* removed, and one that holds no pid is as good as none.
acquire_pidfile(w) ==
    /\ WakerAt(w, "read")
    /\ lw' = [lw EXCEPT ![w].old = pidf,
                        ![w].pc = CASE Live -> IF lw[w].force THEN "kill" ELSE "exit"
                                    [] ~Live /\ pidf # None -> "remove"
                                    [] OTHER -> "open"]
    /\ overlap' = (overlap \/ (Between(w)' /\ \E v \in Wakers \ {w} : Between(v)))
    /\ UNCHANGED <<sessionVars, reg, wr, pidf, wakes>>

\* The process that was read is killed, without cleaning up, and waited for; its
\* connection goes with it.
force_kill_pid(w) ==
    /\ WakerAt(w, "kill")
    /\ lw' = [lw EXCEPT ![w].pc = "remove", ![lw[w].old].pc = "exit"]
    /\ aw' = [aw EXCEPT ![lw[w].old] = NoAwait]
    /\ UNCHANGED <<plan, bk, hold, box, tail, ao, cursor, mcp, tx, told, reg, wr, pidf, wakes, overlap>>

\* The file is removed, whatever it says by now.
RemovePidfile(w) ==
    /\ WakerAt(w, "remove")
    /\ pidf' = None
    /\ lw' = [lw EXCEPT ![w].pc = "open"]
    /\ UNCHANGED <<sessionVars, reg, wr, wakes, overlap>>

\* Opened with truncation, then written.
write_pidfile(w) ==
    /\ lw[w].pc \in {"open", "write"}
    /\ pidf' = IF WakerAt(w, "open") THEN None ELSE w
    /\ lw' = [lw EXCEPT ![w].pc = IF WakerAt(w, "open") THEN "write" ELSE "await"]
    /\ UNCHANGED <<sessionVars, reg, wr, wakes, overlap>>

waker_await(w) ==
    /\ WakerAt(w, "await")
    /\ await_envelope(w, Me, None)
    /\ bk' = Connected
    /\ lw' = [lw EXCEPT ![w].pc = "wait"]
    /\ UNCHANGED <<plan, hold, box, tail, cursor, mcp, tx, told, reg, wr, pidf, wakes, overlap>>

\* release_pidfile_if_ours, at the end of the process.
Released(w) == IF pidf = w THEN None ELSE pidf

\* One line per answer in the wake file; a timeout writes none.
write_wake_outcome(w) == IF aw[w].st = "answered" THEN wakes \cup aw[w].got ELSE wakes

\* Round again after an answer or a timeout, and after an error as long as there
\* have not been too many in a row.
run_await_loop(w) ==
    LET bad  == aw[w].st \in {"refused", "failed"}
        last == bad /\ lw[w].failures + 1 >= MaxFailures
    IN
    /\ WakerAt(w, "wait") /\ aw[w].st \notin {"no", "parked"}
    /\ lw' = [lw EXCEPT ![w].pc = IF last THEN "exit" ELSE "await",
                        ![w].failures = IF bad THEN @ + 1 ELSE 0]
    /\ wakes' = write_wake_outcome(w)
    /\ pidf' = IF last THEN Released(w) ELSE pidf
    /\ aw' = [aw EXCEPT ![w] = NoAwait]
    /\ UNCHANGED <<plan, bk, hold, box, tail, ao, cursor, mcp, tx, told, reg, wr, overlap>>

WakerStep(w) == acquire_pidfile(w) \/ force_kill_pid(w) \/ RemovePidfile(w) \/ write_pidfile(w)
                   \/ waker_await(w) \/ run_await_loop(w)

=============================================================================
