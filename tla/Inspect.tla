------------------------------ MODULE Inspect --------------------------------
(***************************************************************************)
(* `famp inspect' against a broker that goes on appending: the dispatch     *)
(* under one permit and a time budget, the walk of the mailbox files in a   *)
(* blocking thread, the commands that ask, and the agents whose threads     *)
(* they look at.                                                            *)
(***************************************************************************)
EXTENDS TaskStore, Inbox

CONSTANTS
    Clients,       \* connections that ask the inspector
    MaxAsk,        \* requests per connection
    ReplyCap,      \* room in a connection's reply channel (64 in the code)
    Plans          \* the scenarios, a sequence of records

\* The absent verdict is no verdict; a reader of the channel asks for something.
ASSUME WakeAssumption == None \notin {"listen off", "cli holder"}
ASSUME PageAssumption == Chan \in Boxes /\ \A i \in DOMAIN Plans : Plans[i].tail \in Nat \ {0}

VARIABLES
    plan,          \* the scenario, chosen once: an index of Plans
    clock,         \* the clocks of this host and of the other one, in seconds
    sent,          \* history: the envelopes in the order they were stored
    up,            \* the broker runs
    reg, listen, parked, holder,   \* the broker's view of its clients
    permits,       \* free inspect permits
    req,           \* the requests, by connection and number
    threads,       \* blocking threads that walk the files
    open,          \* connections whose reply sender the broker holds
    chan,          \* the reply channels
    got,           \* the replies a connection has read
    gone,          \* connections that ended, with requests unanswered or not
    wake,          \* the report of `famp inspect wake'
    log            \* a reader that pages through the channel with famp_channel_log

envVars == <<plan, clock, sent>>
viewVars == <<reg, listen, parked, holder>>
askVars == <<permits, req, threads, open, chan, got, gone, wake>>
sideVars == <<lockVars, log>>
vars == <<envVars, up, viewVars, askVars, inboxVars, sideVars, storeVars>>

Agents == {NameOrder[i] : i \in DOMAIN NameOrder} \ {Chan}
Reqs == Clients \X (1 .. MaxAsk)

Plan == Plans[plan]

May(x) == x \in Plan.can
Kind(r) == Plan.kinds[r[1]][r[2]]
Budget == [kind |-> "budget_exceeded"]

-----------------------------------------------------------------------------
(* The agents.  The host of an agent is where its clock is. *)

HostOf(a) == IF a \in Plan.remote THEN "there" ELSE "here"

\* A bound: the agents write until the last planned answer is there.
Writing == Len(sent) < Plan.sends /\ (May("log") \/ \E c \in Clients : Len(got[c]) < Len(Plan.kinds[c]))

Tick(h) ==
    /\ May("tick") /\ Writing /\ h \in {HostOf(a) : a \in Agents} /\ clock[h] < Plan.time
    /\ clock' = [clock EXCEPT ![h] = @ + 1]
    /\ UNCHANGED <<plan, sent, up, viewVars, askVars, inboxVars, sideVars, storeVars>>

\* fresh_ts: seconds, the fraction is cut off.
fresh_ts(a) == clock[HostOf(a)]

\* The broker is busy with a send until the append is done.
Send(a) ==
    /\ up /\ wr = <<>> /\ Writing
    /\ \E i \in Plan.inputs[a] :
         LET args == parse_input(i)
             out == IF args = Refused THEN Refused ELSE run_at_structured(args, Plan.env[a])
         IN  /\ out # Refused /\ out.mailbox \in Boxes
             /\ i.task_id \notin {None, Odd} => i.task_id <= Len(sent)
             /\ LET e == out.env
                    env == [k \in DOMAIN e \cup {"id", "ts", "mailbox"} |->
                              IF k = "id" THEN Len(sent) + 1 ELSE IF k = "ts" THEN fresh_ts(a)
                              ELSE IF k = "mailbox" THEN out.mailbox ELSE e[k]]
                IN  AppendBegin(out.mailbox, env) /\ sent' = Append(sent, env)
    /\ UNCHANGED <<plan, clock, up, viewVars, askVars, sideVars, storeVars>>

Store ==
    /\ up
    /\ AppendBody \/ AppendNewline \/ AppendSync \/ (May("fail") /\ AppendTorn)
    /\ UNCHANGED <<envVars, up, viewVars, askVars, sideVars, storeVars>>

Ack(m) ==
    /\ May("ack") /\ up /\ wr = <<>> /\ advance(m)
    /\ UNCHANGED <<envVars, up, viewVars, askVars, sideVars, storeVars>>

\* What is wrong with the name `famp inspect wake' was asked about.
Faults(names, on, by) ==
    {f \in {"listen off", "cli holder"} :
        /\ Plan.target \in names
        /\ f = "listen off" => Plan.target \notin on
        /\ f = "cli holder" => by[Plan.target] = "register"}

\* Registrations come and go, with the process that makes them.
Rebind(a) ==
    /\ May("rebind") /\ a \in Plan.reg /\ up /\ wr = <<>>
    /\ \/ /\ a \in reg /\ reg' = reg \ {a} /\ listen' = listen \ {a} /\ parked' = parked \ {a}
          /\ UNCHANGED holder
       \/ /\ a \notin reg /\ reg' = reg \cup {a} /\ UNCHANGED parked
          /\ \E h \in {"mcp", "register", "other"} : holder' = [holder EXCEPT ![a] = h]
          /\ \E on \in BOOLEAN : listen' = IF on THEN listen \cup {a} ELSE listen
       \/ /\ a \in reg /\ parked' = IF a \in parked THEN parked \ {a} ELSE parked \cup {a}
          /\ UNCHANGED <<reg, listen, holder>>
    /\ wake' = [wake EXCEPT !.saw = @ \cup Faults(reg', listen', holder')]
    /\ UNCHANGED <<envVars, up, permits, req, threads, open, chan, got, gone, inboxVars, sideVars, storeVars>>

-----------------------------------------------------------------------------
(* The blocking thread.  It reads the cursor file, the whole mailbox and the *)
(* part past the cursor of each client in the view it was given; for tasks   *)
(* the task directory; for tasks and messages the mailboxes, whole.  A read  *)
(* whose result the handler of the kind does not use is left out.            *)

Ordered(names) == SelectSeq(NameOrder, LAMBDA n : n \in names)

\* build_inspect_ctx_blocking, as the reads it makes.
build_inspect_ctx_blocking(names, kind) ==
    LET ns == Ordered(names)
        op == <<"cursor", "all", "from">>
        each(what, xs) == [i \in DOMAIN xs |-> [op |-> what, n |-> xs[i]]]
    IN  CASE kind = "identities" ->
                [i \in 1 .. 3 * Len(ns) |-> [op |-> op[((i - 1) % 3) + 1], n |-> ns[((i - 1) \div 3) + 1]]]
          [] kind = "tasks" -> each("tasks", <<None>>) \o each("snap", ns \o Ordered({Chan}))
          [] kind \in {"detail", "messages"} -> each("snap", ns \o Ordered({Chan}))
          [] OTHER -> <<>>

MailboxMeta == [ok |-> FALSE, total |-> 0, unread |-> 0, last_sender |-> None]

read_cursor_file(n) == cur[n]

\* A mailbox that cannot be read counts as an empty one, from either read.
read_mailbox_meta_for(t, h) ==
    LET s == read_all(box[h.n])
        u == read_from(box[h.n], t.cursor[h.n])
    IN  CASE h.op = "cursor" -> [t EXCEPT !.cursor[h.n] = read_cursor_file(h.n)]
          [] h.op = "all" /\ s # Corrupt ->
                [t EXCEPT !.meta[h.n] = [ok |-> TRUE, total |-> Len(s), unread |-> 0,
                                         last_sender |-> IF s = <<>> THEN None ELSE s[Len(s)].from]]
          [] h.op = "from" /\ t.meta[h.n].ok /\ u # Corrupt -> [t EXCEPT !.meta[h.n].unread = Len(u)]
          [] OTHER -> t

walk_taskdir(t) == [t EXCEPT !.recs = list]

read_all_unwrapped(f) == IF read_all(f) = Corrupt THEN <<>> ELSE read_all(f)

read_message_snapshot(t, h) ==
    [t EXCEPT !.snap = [n \in DOMAIN @ \cup {h.n} |-> IF n = h.n THEN read_all_unwrapped(box[n]) ELSE @[n]]]

ReadStep(t) ==
    /\ up /\ t.todo # <<>>
    /\ LET h == Head(t.todo)
           u == [t EXCEPT !.todo = Tail(@)]
       IN  threads' = (threads \ {t}) \cup
               {CASE h.op = "tasks" -> walk_taskdir(u)
                  [] h.op = "snap" -> read_message_snapshot(u, h)
                  [] OTHER -> read_mailbox_meta_for(u, h)}
    /\ UNCHANGED <<envVars, up, viewVars, permits, req, open, chan, got, gone, wake,
                   inboxVars, sideVars, storeVars>>

inspect_identities(t) ==
    {[name |-> n, listen |-> n \in t.view.listen, total |-> t.meta[n].total,
      unread |-> t.meta[n].unread, last_sender |-> t.meta[n].last_sender] : n \in t.view.reg}

inspect_waiters(t) == t.view.parked

\* famp_inspect_server::dispatch
dispatch(t) ==
    LET k == Kind(t.r) IN
    [kind |-> k,
     rows |-> CASE k = "identities" -> inspect_identities(t)
                [] k = "waiters" -> inspect_waiters(t)
                [] k = "tasks" -> inspect_tasks(t.snap, t.recs)
                [] k = "detail" -> inspect_tasks_by_id(t.snap, 1)
                [] k = "messages" -> inspect_messages(t.snap, None, Plan.tail)
                [] OTHER -> {}]

-----------------------------------------------------------------------------
(* The broker's side of a request. *)

At(r, pc) == req[r].pc = pc

To(r, pc, pay) == req' = [req EXCEPT ![r] = [pc |-> pc, pay |-> pay, at |-> @.at, end |-> @.end]]

\* What the files held, to compare a reply with.
Now == [sent |-> Len(sent), lines |-> [n \in Boxes |-> Len(box[n].lines)], cur |-> cur, reg |-> reg]

\* Out::InspectRequest: requests of one connection are taken in order.
Handle(r) ==
    LET c == r[1] IN
    /\ up /\ wr = <<>> /\ At(r, "asked")
    /\ \A k \in 1 .. r[2] - 1 : ~ At(<<c, k>>, "asked")
    /\ \/ /\ c \notin open
          /\ To(r, "dropped", None)
          /\ UNCHANGED <<permits, threads, open, chan>>
       \/ /\ c \in open /\ permits = 0
          /\ IF Len(chan[c]) < ReplyCap
             THEN To(r, "done", None) /\ chan' = [chan EXCEPT ![c] = Append(@, Budget)] /\ UNCHANGED open
             ELSE To(r, "dropped", None) /\ open' = open \ {c} /\ UNCHANGED chan
          /\ UNCHANGED <<permits, threads>>
       \/ /\ c \in open /\ permits > 0
          /\ permits' = permits - 1
          /\ req' = [req EXCEPT ![r].pc = "waiting", ![r].at = Now]
          /\ threads' = threads \cup
               {[r |-> r, view |-> [reg |-> reg, listen |-> listen, parked |-> parked],
                 todo |-> build_inspect_ctx_blocking(reg, Kind(r)),
                 cursor |-> [n \in Agents |-> 0], meta |-> [n \in Agents |-> MailboxMeta],
                 recs |-> <<>>, snap |-> <<>>]}
          /\ UNCHANGED <<open, chan>>
    /\ UNCHANGED <<envVars, up, viewVars, got, gone, wake, inboxVars, sideVars, storeVars>>

\* The thread ends.  Nobody waits for a result that is late; its permit goes with it.
ThreadEnds(t) ==
    /\ up /\ t.todo = <<>>
    /\ threads' = threads \ {t}
    /\ IF At(t.r, "waiting")
       THEN /\ req' = [req EXCEPT ![t.r].pc = "hand", ![t.r].pay = dispatch(t), ![t.r].end = Now]
            /\ UNCHANGED permits
       ELSE permits' = permits + 1 /\ UNCHANGED req
    /\ UNCHANGED <<envVars, up, viewVars, open, chan, got, gone, wake, inboxVars, sideVars, storeVars>>

Panic(t) ==
    /\ up /\ May("panic")
    /\ threads' = threads \ {t}
    /\ permits' = permits + 1
    /\ IF At(t.r, "waiting") THEN To(t.r, "late", Budget) ELSE UNCHANGED req
    /\ UNCHANGED <<envVars, up, viewVars, open, chan, got, gone, wake, inboxVars, sideVars, storeVars>>

\* 500 ms: the asker is answered, the thread and its permit stay.
Timeout(r) ==
    /\ up /\ May("timeout") /\ At(r, "waiting")
    /\ To(r, "late", Budget)
    /\ UNCHANGED <<envVars, up, viewVars, permits, threads, open, chan, got, gone, wake,
                   inboxVars, sideVars, storeVars>>

ReplyToTheLiving(r) ==
    LET c == r[1] IN
    /\ up /\ req[r].pc \in {"hand", "late"}
    /\ c \notin gone /\ Len(chan[c]) < ReplyCap
    /\ chan' = [chan EXCEPT ![c] = Append(@, req[r].pay)]
    /\ permits' = IF At(r, "hand") THEN permits + 1 ELSE permits
    /\ To(r, "done", None)
    /\ UNCHANGED <<envVars, up, viewVars, threads, open, got, gone, wake, inboxVars, sideVars, storeVars>>

\* It waits for room; what nobody reads any more is thrown away.
Reply(r) ==
    LET c == r[1] IN
    /\ up /\ req[r].pc \in {"hand", "late"}
    /\ c \in gone \/ Len(chan[c]) < ReplyCap
    /\ chan' = IF c \in gone THEN chan ELSE [chan EXCEPT ![c] = Append(@, req[r].pay)]
    /\ permits' = IF At(r, "hand") THEN permits + 1 ELSE permits
    /\ To(r, "done", None)
    /\ UNCHANGED <<envVars, up, viewVars, threads, open, got, gone, wake, inboxVars, sideVars, storeVars>>

\* BrokerMsg::Disconnect
Disconnect(c) ==
    /\ up /\ wr = <<>> /\ c \in gone \cap open
    /\ open' = open \ {c} /\ chan' = [chan EXCEPT ![c] = <<>>]
    /\ UNCHANGED <<envVars, up, viewVars, permits, req, threads, got, gone, wake,
                   inboxVars, sideVars, storeVars>>

\* The last sender of a connection is dropped: its write half closes.
WriteLoopEnds(c) ==
    /\ up /\ c \notin open \cup gone /\ chan[c] = <<>>
    /\ \A k \in 1 .. MaxAsk : req[<<c, k>>].pc \notin {"waiting", "hand", "late"}
    /\ gone' = gone \cup {c}
    /\ UNCHANGED <<envVars, up, viewVars, permits, req, threads, open, chan, got, wake,
                   inboxVars, sideVars, storeVars>>

Crash ==
    /\ up /\ May("crash") /\ AppendTorn
    /\ up' = FALSE
    /\ reg' = {} /\ listen' = {} /\ parked' = {} /\ UNCHANGED holder
    /\ permits' = 1 /\ threads' = {} /\ open' = {} /\ gone' = Clients
    /\ req' = [r \in Reqs |-> IF req[r].pc = "none" THEN req[r] ELSE [req[r] EXCEPT !.pc = "done", !.pay = None]]
    /\ chan' = [c \in Clients |-> <<>>]
    /\ UNCHANGED <<envVars, got, wake, sideVars, storeVars>>

Restart ==
    /\ ~up /\ up' = TRUE
    /\ UNCHANGED <<envVars, viewVars, askVars, inboxVars, sideVars, storeVars>>

-----------------------------------------------------------------------------
(* famp-inspect-client and the commands. *)

Asked(c) == {k \in 1 .. MaxAsk : ~ At(<<c, k>>, "none")}

Unread(c) == Cardinality(Asked(c)) > Len(got[c])

\* call: a frame is written, a frame is read; an eager client writes ahead.
call(c) ==
    /\ up /\ c \in open \ gone
    /\ c \in Plan.eager \/ ~ Unread(c)
    /\ \E k \in DOMAIN Plan.kinds[c] :
         /\ Asked(c) = 1 .. k - 1
         /\ To(<<c, k>>, "asked", None)
    /\ UNCHANGED <<envVars, up, viewVars, permits, threads, open, chan, got, gone, wake,
                   inboxVars, sideVars, storeVars>>

\* A connection that ends is taken for one whose holder is no broker.
orphan_holder == [kind |-> "ORPHAN_HOLDER"]

\* What `famp inspect broker' makes of its answer.
run_broker(p) ==
    CASE p.kind = "failed" -> orphan_holder
      [] p.kind = "budget_exceeded" -> [kind |-> "BUSY"]
      [] OTHER -> [kind |-> "HEALTHY"]

Shown(c, p) == IF Plan.kinds[c][Len(got[c]) + 1] = "broker" THEN run_broker(p) ELSE p

Recv(c) ==
    /\ up /\ c \notin Plan.deaf \cup gone /\ chan[c] # <<>>
    /\ got' = [got EXCEPT ![c] = Append(@, Shown(c, Head(chan[c])))]
    /\ chan' = [chan EXCEPT ![c] = Tail(@)]
    /\ UNCHANGED <<envVars, up, viewVars, permits, req, threads, open, gone, wake,
                   inboxVars, sideVars, storeVars>>

\* The frame cannot be read: the connection is closed.
CallFails(c) ==
    /\ c \in gone /\ Unread(c)
    /\ got' = [got EXCEPT ![c] = Append(@, Shown(c, [kind |-> "failed"]))]
    /\ UNCHANGED <<envVars, up, viewVars, permits, req, threads, open, chan, gone, wake,
                   inboxVars, sideVars, storeVars>>

\* raw_connect_probe of the next command.
Connect(c) ==
    /\ up /\ c \in gone \ open /\ ~ Unread(c)
    /\ \A k \in 1 .. MaxAsk : req[<<c, k>>].pc \in {"none", "done", "dropped"}
    /\ gone' = gone \ {c} /\ open' = open \cup {c}
    /\ UNCHANGED <<envVars, up, viewVars, permits, req, threads, chan, got, wake,
                   inboxVars, sideVars, storeVars>>

\* A command is interrupted.
Leave(c) ==
    /\ May("leave") /\ c \notin gone /\ Unread(c)
    /\ gone' = gone \cup {c}
    /\ UNCHANGED <<envVars, up, viewVars, permits, req, threads, open, chan, got, wake,
                   inboxVars, sideVars, storeVars>>

-----------------------------------------------------------------------------
(* `famp inspect wake': two requests, a `famp sessions', then the files of   *)
(* the Codex project.                                                        *)

WakeTo(pc) == wake' = [wake EXCEPT !.pc = pc]

wakeRest == <<envVars, up, viewVars, permits, req, threads, open, chan, got, gone,
              inboxVars, sideVars, storeVars>>

fetch_identity(c) ==
    /\ wake.pc = "identity" /\ Len(got[c]) >= 1
    /\ LET p == got[c][1]
           mine == IF p.kind = "identities" THEN {w \in p.rows : w.name = Plan.target} ELSE {}
       IN  wake' = IF mine = {} THEN [wake EXCEPT !.pc = "failed"]
                   ELSE [wake EXCEPT !.pc = "waiters", !.listen = \E w \in mine : w.listen]
    /\ UNCHANGED wakeRest

fetch_parked(c) ==
    /\ wake.pc = "waiters" /\ Len(got[c]) >= 2
    /\ LET p == got[c][2] IN
       wake' = IF p.kind # "waiters" THEN [wake EXCEPT !.pc = "failed"]
               ELSE [wake EXCEPT !.pc = "sessions", !.parked = Plan.target \in p.rows]
    /\ UNCHANGED wakeRest

\* The first handler that runs `famp hook codex-stop'; groups of handlers.
find_native_hook(groups) ==
    LET at == {p \in (DOMAIN groups) \X (1 .. 2) : p[2] \in DOMAIN groups[p[1]] /\ groups[p[1]][p[2]].ours}
        first(p) == \A q \in at : p[1] < q[1] \/ (p[1] = q[1] /\ p[2] <= q[2])
    IN  IF at = {} THEN None ELSE CHOOSE p \in at : first(p)

\* The trust entry is found by the position of the handler.
inspect_trust(config, at, handler) ==
    at \in DOMAIN config /\ config[at].enabled /\ config[at].hash = handler.hash

inspect_hook(project) ==
    LET at == find_native_hook(project.hooks) IN
    IF at = None THEN [present |-> FALSE, trusted |-> FALSE]
    ELSE [present |-> TRUE, trusted |-> inspect_trust(project.config, at, project.hooks[at[1]][at[2]])]

classify_cmdline(h) == CASE h = "mcp" -> "Mcp" [] h = "register" -> "CliRegister" [] OTHER -> "Other"

\* None has no row among the sessions, or no command line.
classify_holder(h) == IF h = None THEN "Unknown" ELSE classify_cmdline(h)

\* The verdict is never "ready": a waiter does not say who it is.
readiness(on, by, hook, is_parked) ==
    CASE ~on -> "listen off"
      [] on /\ by = "CliRegister" -> "cli holder"
      [] on /\ by # "CliRegister" /\ ~hook.present -> "no hook"
      [] on /\ by # "CliRegister" /\ hook.present /\ ~hook.trusted -> "no trust"
      [] OTHER -> IF by = "Mcp" /\ is_parked THEN "waiter unknown" ELSE "unknown"

\* The row of `famp sessions'.
session_row(n) == IF n \in reg THEN holder[n] ELSE None

\* famp sessions, answered by the broker, and the report.
WakeReport ==
    /\ wake.pc = "sessions"
    /\ IF ~up THEN WakeTo("failed")
       ELSE /\ wr = <<>>
            /\ LET by == classify_holder(session_row(Plan.target)) IN
               wake' = [wake EXCEPT !.pc = "report",
                            !.verdict = readiness(wake.listen, by, inspect_hook(Plan.project), wake.parked)]
    /\ UNCHANGED wakeRest

Wake == \E c \in Clients : c = Plan.waker /\ (fetch_identity(c) \/ fetch_parked(c) \/ WakeReport)

-----------------------------------------------------------------------------
OthersUnchanged == UNCHANGED <<envVars, up, viewVars, askVars>>

Lock == May("lock") /\ LockNext /\ OthersUnchanged /\ UNCHANGED <<inboxVars, storeVars, log>>

Update == May("store") /\ StoreNext /\ OthersUnchanged /\ UNCHANGED <<inboxVars, sideVars>>

\* famp_channel_log, from the offset the page before it gave; no broker is asked.
LogPage ==
    /\ May("log")
    /\ LET page == read_channel_mailbox(box[Chan], log.since, Plan.tail) IN
       /\ page # Corrupt
       /\ log' = [since |-> page.next_offset, seen |-> log.seen \o page.envelopes,
                   end |-> IF page.envelopes = <<>> THEN confirmed[Chan] ELSE log.end]
    /\ OthersUnchanged /\ UNCHANGED <<inboxVars, lockVars, storeVars>>

Broker == Store \/ (\E r \in Reqs : Handle(r) \/ Reply(r))
              \/ (\E t \in threads : ReadStep(t) \/ ThreadEnds(t))
              \/ (\E c \in Clients : Disconnect(c) \/ WriteLoopEnds(c))

Next ==
    \/ \E h \in DOMAIN clock : Tick(h)
    \/ \E a \in Agents : Send(a) \/ Rebind(a)
    \/ \E m \in Boxes : Ack(m)
    \/ Broker \/ Crash \/ Restart
    \/ \E r \in Reqs : Timeout(r)
    \/ \E t \in threads : Panic(t)
    \/ \E c \in Clients : call(c) \/ Recv(c) \/ CallFails(c) \/ Connect(c) \/ Leave(c)
    \/ Wake \/ Lock \/ Update \/ LogPage

Init ==
    /\ plan \in DOMAIN Plans
    /\ clock = [h \in {"here", "there"} |-> 0]
    /\ sent = <<>>
    /\ up = TRUE
    /\ reg = Plan.reg /\ listen = Plan.listen /\ parked = {}
    /\ holder = [a \in Agents |-> "mcp"]
    /\ permits = 1 /\ threads = {}
    /\ req = [r \in Reqs |-> [pc |-> "none", pay |-> None, at |-> None, end |-> None]]
    /\ open = Clients /\ gone = {}
    /\ chan = [c \in Clients |-> <<>>] /\ got = [c \in Clients |-> <<>>]
    /\ wake = [pc |-> "identity", listen |-> FALSE, parked |-> FALSE, verdict |-> None,
               saw |-> Faults(Plan.reg, Plan.listen, [a \in Agents |-> "mcp"])]
    /\ log = [since |-> 0, seen |-> <<>>, end |-> <<>>]
    /\ InboxInit /\ StoreInit(<<>>)

Spec == Init /\ [][Next]_vars

\* tokio runs what is runnable; threads end; a client that reads goes on reading.
FairSpec ==
    /\ Spec
    /\ WF_vars(Broker \/ \E c \in Clients : Recv(c) \/ CallFails(c))

-----------------------------------------------------------------------------
\* MAX_CONCURRENT_INSPECT_REQUESTS: the permit is free, with the one thread that
\* walks the files, or with the one reply that is being handed over; a request
\* that timed out or panicked neither keeps it nor gives it back twice.
PermitIsHeldOnce ==
    up => permits + Cardinality(threads) + Cardinality({r \in Reqs : At(r, "hand")}) = 1

\* inspect_identities while the broker appends: the unread count of a mailbox is
\* no less than what was unread when the request came and still is, and no more
\* than what was unread when it came and what has come since.  It may be more than
\* was ever unread at one time: the cursor is read first, and what is acknowledged
\* between that and the read of the mailbox is counted still.
UnreadIsTrue ==
    \A r \in Reqs : (At(r, "hand") /\ Kind(r) = "identities") =>
        \A w \in req[r].pay.rows : w.name \notin glued =>
            /\ w.unread + req[r].end.cur[w.name] >= req[r].at.lines[w.name]
            /\ w.unread + req[r].at.cur[w.name] <= req[r].end.lines[w.name]

OnTaskId(t, k) == SelectSeq(SubSeq(sent, 1, k), LAMBDA e : task_id(e) = t)

LabelAt(t, k) == final_label(Fold(OnTaskId(t, k)))

\* The stamps of a task's envelopes tell their order.
InStampOrder(t) ==
    LET es == OnTaskId(t, Len(sent)) IN
    \A i, j \in DOMAIN es : i < j =>
        es[i].ts < es[j].ts \/ (es[i].ts = es[j].ts /\ es[i].mailbox = es[j].mailbox)

\* The tasks a reply is about, and their labels.
LabelsOf(p) ==
    CASE p.kind = "tasks" -> {[task |-> w.task, state |-> w.state] : w \in p.rows}
      [] p.kind = "detail" /\ p.rows # <<>> -> {[task |-> 1, state |-> p.rows[Len(p.rows)].state]}
      [] OTHER -> {}

\* inspect_tasks walks the mailboxes one after the other while agents go on: the
\* label of a task is one it had between the request and the end of the walk,
\* when the stamps tell the order and the mailboxes are of registered names.
LabelIsCurrent ==
    \A r \in Reqs : (At(r, "hand") /\ Plan.can \cap {"fail", "crash"} = {}) =>
        \A w \in LabelsOf(req[r].pay) :
            (/\ w.task # Task /\ InStampOrder(w.task)
             /\ \A i \in DOMAIN sent : task_id(sent[i]) = w.task =>
                    sent[i].mailbox \in req[r].at.reg \cup {Chan})
            => \E k \in req[r].at.sent .. req[r].end.sent : w.state = LabelAt(w.task, k)

\* inspect_messages: an envelope stored before the request is shown, unless as
\* many as were asked for are shown that are not older.
MessagesAreNewest ==
    \A r \in Reqs : (At(r, "hand") /\ Kind(r) = "messages" /\ Plan.can \cap {"fail", "crash"} = {}) =>
        LET rows == req[r].pay.rows IN
        \A i \in 1 .. req[r].at.sent :
            \/ sent[i].mailbox \notin req[r].at.reg \cup {Chan}
            \/ \E k \in DOMAIN rows : rows[k] = message_row(sent[i])
            \/ Cardinality({k \in DOMAIN rows : rows[k].ts >= sent[i].ts}) >= Plan.tail

\* send/mod.rs on the envelope it builds: the broker's decoder "accepts the line
\* on drain".
DrainAcceptsSent ==
    \A i \in DOMAIN sent :
        {sent[i].from, sent[i].to} \subseteq Legal \cup {Chan} => decode_bus(sent[i])

\* famp_channel_log: the pages, each from the next_offset of the one before, are
\* the lines of the mailbox in order, none left out and none twice, while the
\* broker appends, fails and dies; and when a page is empty, every post that had
\* been confirmed by then is on one of them.
LogPagesAreWhole ==
    /\ \A i \in DOMAIN log.seen : box[Chan].lines[i] = <<log.seen[i]>>
    /\ \A i \in DOMAIN log.end : \E k \in DOMAIN log.seen : log.seen[k] = log.end[i]

\* famp inspect wake: a verdict that blames the listen flag or the holder is about
\* something that was so while the command ran.
WakeRefusalIsTrue == wake.verdict \in {"listen off", "cli holder"} => wake.verdict \in wake.saw

\* What an inspection says lies between what was so at its start and what was so
\* at its end, although it reads one file after the other while the system goes on.
InspectionIsTrue == UnreadIsTrue /\ LabelIsCurrent /\ MessagesAreNewest /\ WakeRefusalIsTrue

\* What was confirmed is read back, by every reader: as a whole file, from an
\* offset, and page by page.
FilesAreRead == ConfirmedIsRead /\ LogPagesAreWhole

\* Every request of a client that reads is answered: by rows, by "budget
\* exceeded", or by the end of the connection.
InspectAnswered == \A c \in Clients : (c \notin Plan.deaf /\ Unread(c)) ~> ~ Unread(c)

\* The permit comes back whatever becomes of the client, if it reads or leaves.
PermitReturns == (permits = 0 /\ Plan.deaf = {}) ~> (permits = 1)

\* An inspection ends for the client and for the broker, however it ends: one
\* answer, and the one permit back, once.
InspectionEnds == InspectAnswered /\ PermitReturns /\ []PermitIsHeldOnce

=============================================================================
