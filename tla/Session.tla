------------------------------ MODULE Session -------------------------------
(***************************************************************************)
(* One window of the bus: the `famp mcp` server with its session, and what  *)
(* it sees of the broker.  The broker is reduced to what a client can tell  *)
(* apart (who holds a name, the mailboxes, the await cursor of a name, the  *)
(* cursor file, the parked awaits); module Broker has it in full.           *)
(*                                                                          *)
(* The server reads one request, answers it and reads the next, so a tool   *)
(* call is one step, except famp_inbox, which writes the cursor file after  *)
(* the broker has answered, and famp_await, which parks.                    *)
(***************************************************************************)
EXTENDS Naturals, Sequences, FiniteSets

CONSTANTS
    Me, Peer,       \* the name this window uses, and another one
    None,
    Waiters,        \* processes that send Await: the Stop hooks, commands, the server
    Server,         \* the waiter that is the MCP server itself
    MaxMail,        \* records sent altogether
    Plans           \* the scenarios: what can happen, and how often

VARIABLES
    plan,           \* the scenario, and what is left of it
    bk,             \* the broker: is it up, and which one is it
    hold,           \* the holder of each name
    box,            \* the mailbox files, line by line
    tail,           \* an unfinished last line of each
    ao,             \* the await cursor of each name's holder
    cursor,         \* the cursor files: what counts as read
    aw,             \* the Await of each waiter
    mcp,            \* the SessionState of the server
    tx,             \* the host's transcript of register and set_listen calls
    told            \* history: what the user of a name was shown, told the number of, or
                    \* said themself to have

brokerVars  == <<bk, hold, box, tail, ao, cursor, aw>>
sessionVars == <<plan, bk, hold, box, tail, ao, cursor, aw, mcp, tx, told>>

Names == {Me, Peer}

Smaller(a, b) == IF a <= b THEN a ELSE b

-----------------------------------------------------------------------------
(* The broker, as its clients see it. *)

NoAwait == [st |-> "no", name |-> None, task |-> None, got |-> {}]

\* A line that does not decode is given to nobody.
Ids(n, since) == {box[n][i].id : i \in {k \in DOMAIN box[n] : k > since /\ box[n][k].ok}}

\* Records sent so far, stored or not.
Mail == plan.sent

Sent(p) == [p EXCEPT !.sent = @ + 1]

May(what) == what \in plan.can

\* BusClient::connect starts a broker when none answers.
Connected == IF bk.up THEN bk ELSE [up |-> TRUE, gen |-> bk.gen + 1]

Deadly == plan.deaths > 0

\* Everything the broker has in memory is gone; a reply already written stays
\* in the socket of its client.
Died(b, p) ==
    /\ Deadly
    /\ bk' = [b EXCEPT !.up = FALSE]
    /\ hold' = [n \in Names |-> None]
    /\ ao' = [n \in Names |-> 0]
    /\ aw' = [w \in Waiters |-> IF aw[w].st = "parked" THEN [aw[w] EXCEPT !.st = "failed"] ELSE aw[w]]
    /\ plan' = [p EXCEPT !.deaths = @ - 1]

BrokerDies ==
    /\ bk.up
    /\ Died(bk, plan)
    /\ UNCHANGED <<box, tail, cursor, mcp, tx, told>>

Joined(by) == \E n \in Names : hold[n] # None /\ hold[n].by = by /\ hold[n].joined

name_taken(n, by) == hold[n] # None /\ hold[n].by # by

\* A connection holds one name: registering another one frees the first, and
\* the channels the connection has joined stay joined.
RegisterOk(n, by, listen) ==
    /\ hold' = [m \in Names |-> IF m = n THEN [by |-> by, listen |-> listen, joined |-> Joined(by)]
                                ELSE IF hold[m] # None /\ hold[m].by = by THEN None ELSE hold[m]]
    /\ ao' = [ao EXCEPT ![n] = Len(box[n])]
    /\ cursor' = [cursor EXCEPT ![n] = Len(box[n])]

task_matches(t, r) == t = None \/ r.ref = t

\* The lines behind the cursor up to the first record that does not match; those
\* among them that decode are handed out.
Walked(n, t) ==
    {k \in DOMAIN box[n] : k > ao[n] /\ \A i \in ao[n] + 1 .. k : box[n][i].ok => task_matches(t, box[n][i])}

Batch(n, t) == {box[n][k].id : k \in {i \in Walked(n, t) : box[n][i].ok}}

await_envelope(w, n, t) ==
    /\ aw' = [aw EXCEPT ![w] = [st |-> IF hold[n] = None THEN "refused"
                                       ELSE IF Batch(n, t) = {} THEN "parked" ELSE "answered",
                                name |-> n, task |-> t, got |-> Batch(n, t)]]
    /\ ao' = [ao EXCEPT ![n] = IF hold[n] = None THEN @
                               ELSE Smaller(@, Len(box[n])) + Cardinality(Walked(n, t))]

\* How far an append gets: a whole line, nothing, part of the record, or the
\* record without its terminator.  What follows an unfinished line is glued to it.
Write(n, r, how) ==
    /\ box' = IF how = "line" THEN [box EXCEPT ![n] = Append(@, [r EXCEPT !.ok = tail[n] = None])]
              ELSE box
    /\ tail' = CASE how = "line" -> [tail EXCEPT ![n] = None]
                 [] how = "none" -> tail
                 [] OTHER -> [tail EXCEPT ![n] = [rec |-> r, whole |-> how = "whole" /\ @ = None]]

\* The record is appended, or the failure is logged, and every parked await it
\* matches is answered: with AwaitOk when nothing else is in the way, with
\* AwaitTimeout otherwise.
send_agent(n, r, how) ==
    LET woken   == {w \in Waiters : /\ aw[w].st = "parked" /\ aw[w].name = n /\ hold[n] # None
                                    /\ task_matches(aw[w].task, r)}
        clear(t) == \A k \in DOMAIN box[n] : k > ao[n] /\ box[n][k].ok => task_matches(t, box[n][k])
        given   == {w \in woken : clear(aw[w].task)}
    IN
    /\ Write(n, r, how)
    /\ aw' = [w \in Waiters |-> IF w \notin woken THEN aw[w]
                                ELSE [aw[w] EXCEPT !.st = IF w \in given THEN "answered" ELSE "timeout",
                                                   !.got = {r.id}]]
    /\ ao' = [ao EXCEPT ![n] = IF given = {} THEN @ ELSE Len(box[n]) + 1]

Record(ref) == [id |-> Mail + 1, ref |-> ref, ok |-> TRUE]

\* The deadline of a parked await.
AwaitDeadline(w) ==
    /\ aw[w].st = "parked" /\ May("deadline")
    /\ aw' = [aw EXCEPT ![w].st = "timeout"]
    /\ UNCHANGED <<plan, bk, hold, box, tail, ao, cursor, mcp, tx, told>>

\* A record some other window sends.
Arrive(n, ref) ==
    /\ bk.up /\ plan.mail > 0 /\ Mail < MaxMail
    /\ send_agent(n, Record(ref), "line")
    /\ plan' = Sent([plan EXCEPT !.mail = @ - 1])
    /\ UNCHANGED <<bk, hold, cursor, mcp, tx, told>>

-----------------------------------------------------------------------------
(* The session of the MCP server. *)

FreshSession == [bus |-> None, active_identity |-> None, last_send |-> None, inbox_offset |-> None,
                 listen_mode |-> None, write |-> None]

Idle == mcp.write = None /\ aw[Server].st = "no"

\* A tool call is taken up when the one before it is answered.
dispatch_tool(tool) == Idle /\ May(tool) /\ plan.calls > 0

\* All tools but register, whoami, verify, channel_log and inspect_waiters.
Gate == mcp.active_identity # None

Called == [plan EXCEPT !.calls = @ - 1]

\* A connection is opened only when there is none; whether the one there is
\* still works is not looked at.
ensure_bus == IF mcp.bus = None THEN Connected.gen ELSE mcp.bus

AfterEnsure == IF mcp.bus = None THEN Connected ELSE bk

Works == AfterEnsure.up /\ AfterEnsure.gen = ensure_bus

\* The lines the host writes: a call and its result apart, or both in one.
Noted(kind, n, listen, ok) ==
    LET call   == [line |-> "call", no |-> Len(tx), kind |-> kind, id |-> n, listen |-> listen]
        result == [line |-> "result", no |-> Len(tx), ok |-> ok]
    IN  tx' = tx \o IF May("codex") THEN <<[call |-> call, result |-> result, line |-> "call_end"]>>
                                    ELSE <<call, result>>

\* Registers under another name only when asked to with `rebind'.
rebind_rejection(n, rebind) == mcp.active_identity \notin {None, n} /\ ~rebind

\* The connection is given up, so that the next call opens one; the name stays.
register_round_trip_error(n, listen) ==
    /\ mcp' = [mcp EXCEPT !.bus = None]
    /\ Noted("register", n, listen, FALSE)

\* The call fails: the answer to Register, or to the SetWakeAddr that follows
\* it, is lost with the broker, before or after the cursor file is written.
RegisterLost(n, listen) ==
    /\ Died(AfterEnsure, Called)
    /\ \E end \in {cursor[n], Len(box[n])} : cursor' = [cursor EXCEPT ![n] = end]
    /\ mcp' = [mcp EXCEPT !.bus = None]
    /\ Noted("register", n, listen, FALSE)
    /\ UNCHANGED <<box, tail, told>>

\* The inbox offset belongs to the mailbox of the old name, and starts again.
Bound(n, listen) ==
    [mcp EXCEPT !.bus = ensure_bus, !.active_identity = n, !.inbox_offset = None,
                !.listen_mode = listen]

register(n, listen, rebind) ==
    /\ dispatch_tool("register")
    /\ IF rebind_rejection(n, rebind) \/ (Works /\ name_taken(n, Server))
       THEN /\ mcp' = [mcp EXCEPT !.bus = ensure_bus]
            /\ bk' = AfterEnsure /\ plan' = Called
            /\ Noted("register", n, listen, FALSE)
            /\ UNCHANGED <<hold, box, tail, ao, cursor, aw, told>>
       ELSE IF ~Works
       THEN /\ register_round_trip_error(n, listen)
            /\ bk' = AfterEnsure /\ plan' = Called
            /\ UNCHANGED <<hold, box, tail, ao, cursor, aw, told>>
       ELSE \/ /\ RegisterOk(n, Server, listen)
               /\ told' = [told EXCEPT ![n] = @ \cup Ids(n, 0)]
               /\ mcp' = Bound(n, listen)
               /\ bk' = AfterEnsure /\ plan' = Called
               /\ Noted("register", n, listen, TRUE)
               /\ UNCHANGED <<box, tail, aw>>
            \/ RegisterLost(n, listen)

\* The connection that fails is kept.
set_listen(listen) ==
    LET ok == Works /\ \E n \in Names : hold[n] # None /\ hold[n].by = Server
        n  == CHOOSE m \in Names : hold[m] # None /\ hold[m].by = Server
    IN
    /\ dispatch_tool("set_listen") /\ Gate
    /\ bk' = AfterEnsure /\ plan' = Called
    /\ mcp' = [mcp EXCEPT !.bus = ensure_bus, !.listen_mode = IF ok THEN listen ELSE @]
    /\ hold' = IF ok THEN [hold EXCEPT ![n].listen = listen] ELSE hold
    /\ Noted("set_listen", None, listen, ok)
    /\ UNCHANGED <<box, tail, ao, cursor, aw, told>>

\* Both ask over the session's connection, and keep it when it fails.
SessionCall(tool) ==
    /\ dispatch_tool(tool) /\ mcp.bus = None
    /\ bk' = AfterEnsure /\ plan' = Called
    /\ mcp' = [mcp EXCEPT !.bus = ensure_bus]
    /\ UNCHANGED <<hold, box, tail, ao, cursor, aw, tx, told>>

whoami == SessionCall("whoami")

peers == Gate /\ SessionCall("peers")

-----------------------------------------------------------------------------
(* The tools that work through a connection of their own, bound to the name. *)

\* Hello with bind_as: refused unless somebody holds the name.
connect_bound(n) == hold[n] # None

\* LastSend: how famp_verify is to find what was sent.
LastSend(n, r) == [task_id |-> r.id, thread_task_id |-> r.ref, to_peer |-> n]

\* What a send ends in: refused at Hello; SendOk, although the append may have
\* failed; or an error, because the broker died before, while or after it stored
\* the record.
send_round_trip(n, r, outcome, how) ==
    CASE outcome = "refused" ->
            /\ ~connect_bound(mcp.active_identity)
            /\ bk' = Connected /\ plan' = Called
            /\ UNCHANGED <<hold, box, tail, ao, aw>>
      [] outcome = "SendOk" ->
            /\ connect_bound(mcp.active_identity)
            /\ how # "line" => May("lose")
            /\ send_agent(n, r, how)
            /\ plan' = Sent(Called)
            /\ UNCHANGED <<bk, hold>>
      [] OTHER ->
            /\ connect_bound(mcp.active_identity)
            /\ Died(bk, Sent(Called))
            /\ Write(n, r, how)

\* What was sent is on record only when the broker has said SendOk.
send(n, ref) ==
    \E outcome \in {"refused", "SendOk", "lost"}, how \in {"line", "none", "part", "whole"} :
        /\ dispatch_tool("send") /\ Gate /\ Mail < MaxMail
        /\ send_round_trip(n, Record(ref), outcome, how)
        /\ mcp' = IF outcome = "SendOk" THEN [mcp EXCEPT !.last_send = LastSend(n, Record(ref))]
                  ELSE mcp
        /\ UNCHANGED <<cursor, tx, told>>

envelope_matches(r, task, id) == (r.ref = task \/ r.id = task) /\ r.id = id

\* The records read_all returns: the lines, and an unfinished last one that parses.
read_all(n) ==
    {box[n][k] : k \in {i \in DOMAIN box[n] : box[n][i].ok}}
        \cup {r \in {IF tail[n] # None /\ tail[n].whole THEN tail[n].rec ELSE None} : r # None}

M_scan_files(task, id, n) ==
    IF \E r \in read_all(n) : envelope_matches(r, task, id) THEN "delivered" ELSE "not delivered"

\* famp_verify reads the mailbox file itself, whoever holds the name; a file with
\* a line that does not parse, like one that cannot be read, is an error.
scan_files(task, id, n) ==
    IF \E k \in DOMAIN box[n] : ~box[n][k].ok THEN "error"
    ELSE IF \E r \in read_all(n) : envelope_matches(r, task, id) THEN "delivered"
    ELSE "not delivered"

\* The arguments famp_whoami hands to famp_verify.
verify == LET s == mcp.last_send
          IN  scan_files(IF s.thread_task_id = None THEN s.task_id ELSE s.thread_task_id, s.task_id, s.to_peer)

\* list::run_at_structured: refused at Hello, or what lies behind `from' and the
\* end of the mailbox.
inbox_round_trip(n, from) ==
    IF connect_bound(n) THEN [ok |-> TRUE, ids |-> Ids(n, from), next_offset |-> Len(box[n])]
    ELSE [ok |-> FALSE, ids |-> {}, next_offset |-> 0]

\* `since' is the caller's, whatever it is, or what the last call of this session
\* returned.
inbox(since) ==
    LET n     == mcp.active_identity
        reply == inbox_round_trip(n, IF since # None THEN since
                                     ELSE IF mcp.inbox_offset = None THEN 0 ELSE mcp.inbox_offset)
    IN
    /\ dispatch_tool("inbox") /\ Gate
    /\ bk' = Connected /\ plan' = Called
    /\ IF ~reply.ok THEN UNCHANGED <<mcp, told>>
       ELSE /\ told' = [told EXCEPT ![n] = @ \cup reply.ids \cup
                            IF since = None THEN {} ELSE Ids(n, 0) \ Ids(n, since)]
            /\ mcp' = [mcp EXCEPT !.inbox_offset = reply.next_offset,
                                  !.write = [name |-> n, to |-> reply.next_offset]]
    /\ UNCHANGED <<hold, box, tail, ao, cursor, aw, tx>>

M_inbox_write_through ==
    /\ mcp.write # None
    /\ cursor' = [cursor EXCEPT ![mcp.write.name] = Len(box[mcp.write.name])]
    /\ mcp' = [mcp EXCEPT !.write = None]
    /\ UNCHANGED <<plan, bk, hold, box, tail, ao, aw, tx, told>>

\* The cursor file takes the offset the broker returned, also when that is
\* less than what is there.
inbox_write_through ==
    /\ mcp.write # None
    /\ cursor' = [cursor EXCEPT ![mcp.write.name] = mcp.write.to]
    /\ mcp' = [mcp EXCEPT !.write = None]
    /\ UNCHANGED <<plan, bk, hold, box, tail, ao, aw, tx, told>>

await(task) ==
    /\ dispatch_tool("await") /\ Gate
    /\ await_envelope(Server, mcp.active_identity, task)
    /\ bk' = Connected /\ plan' = Called
    /\ UNCHANGED <<hold, box, tail, cursor, mcp, tx, told>>

\* The answer of an await shows the records, and leaves the cursor file alone.
await_done ==
    /\ aw[Server].st \notin {"no", "parked"}
    /\ told' = IF aw[Server].st = "answered"
               THEN [told EXCEPT ![aw[Server].name] = @ \cup aw[Server].got]
               ELSE told
    /\ aw' = [aw EXCEPT ![Server] = NoAwait]
    /\ UNCHANGED <<plan, bk, hold, box, tail, ao, cursor, mcp, tx>>

\* Both are done for the holder of the name, and last as long as it does.
join_round_trip(n) ==
    hold' = IF connect_bound(n) THEN [hold EXCEPT ![n].joined = TRUE] ELSE hold

leave_round_trip(n) ==
    hold' = IF connect_bound(n) THEN [hold EXCEPT ![n].joined = FALSE] ELSE hold

join ==
    /\ dispatch_tool("join") /\ Gate
    /\ bk' = Connected /\ plan' = Called
    /\ join_round_trip(mcp.active_identity)
    /\ UNCHANGED <<box, tail, ao, cursor, aw, mcp, tx, told>>

leave ==
    /\ dispatch_tool("leave") /\ Gate
    /\ bk' = Connected /\ plan' = Called
    /\ leave_round_trip(mcp.active_identity)
    /\ UNCHANGED <<box, tail, ao, cursor, aw, mcp, tx, told>>

\* The host ends the server and starts another one.
ServerRestart ==
    /\ plan.restarts > 0
    /\ plan' = [plan EXCEPT !.restarts = @ - 1]
    /\ mcp' = FreshSession
    /\ aw' = [aw EXCEPT ![Server] = NoAwait]
    /\ hold' = [n \in Names |-> IF hold[n] # None /\ hold[n].by = Server THEN None ELSE hold[n]]
    /\ ao' = [n \in Names |-> IF hold'[n] = None THEN 0 ELSE ao[n]]
    /\ UNCHANGED <<bk, box, tail, cursor, tx, told>>

=============================================================================
