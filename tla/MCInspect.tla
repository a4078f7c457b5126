------------------------------ MODULE MCInspect ------------------------------
(* Instances of Inspect for TLC: one plan for each question. *)
EXTENDS Inspect, TLC

MCNameOrder == <<"#c", "amy", "bob">>

To_(kind, name) == [kind |-> kind, name |-> name]

In(mode, peer, channel, task, expect_reply) ==
    [mode |-> mode, peer |-> peer, channel |-> channel, task_id |-> task,
     more_coming |-> None, expect_reply |-> expect_reply]

Env(name) == [act_as |-> None, env |-> name, wires |-> <<>>, cwd |-> "/", domain_env |-> "a.example", domain_file |-> None]

Quiet == [a \in Agents |-> {}]

Base == [can |-> {}, kinds |-> [c \in Clients |-> <<>>], eager |-> {}, deaf |-> {}, sends |-> 3, time |-> 2, remote |-> {},
         inputs |-> Quiet, env |-> [a \in Agents |-> Env(a)], tail |-> 1, reg |-> Agents,
         listen |-> {"amy"}, target |-> "amy", waker |-> None,
         project |-> [hooks |-> <<>>, config |-> <<>>]]

Only(s) == [c \in Clients |-> IF c = "c1" THEN s ELSE <<>>]

Remote == [a \in Agents |->
    IF a = "amy" THEN {In("open", To_("principal", "bob"), None, None, None),
                       In("reply", To_("principal", "bob"), None, 1, None)}
    ELSE {In("deliver", To_("principal", "amy"), None, 1, None)}]

Local == [a \in Agents |->
    IF a = "amy" THEN {In("open", To_("bare", "bob"), None, None, None)}
    ELSE {In("terminal", To_("bare", "amy"), None, 1, None), In("reply", To_("bare", "amy"), None, Odd, None),
          In("yield", To_("malformed", "amy"), None, None, None), In("reply", None, "#c", None, TRUE)}]

Plain == [a \in Agents |-> IF a = "bob" THEN {In("open", To_("bare", "amy"), None, None, None)} ELSE {}]

Posts == [a \in Agents |-> IF a = "bob" THEN {In("reply", None, "#c", None, TRUE)} ELSE {}]

Hooks == <<<<[ours |-> FALSE, hash |-> "u"]>>, <<[ours |-> TRUE, hash |-> "f"]>>>>
Trusted == (<<2, 1>> :> [enabled |-> TRUE, hash |-> "f"])

MCPlans == <<
    [Base EXCEPT !.can = {"tick"}, !.inputs = Remote, !.kinds = Only(<<"tasks">>)],
    [Base EXCEPT !.can = {"tick"}, !.inputs = Remote, !.sends = 2, !.time = 1, !.kinds = Only(<<"detail">>)],
    [Base EXCEPT !.can = {"tick"}, !.inputs = Local, !.remote = {"bob"}, !.sends = 2, !.time = 1, !.kinds = Only(<<"messages">>)],
    [Base EXCEPT !.can = {"ack", "crash"}, !.inputs = Plain, !.sends = 2, !.reg = {"amy"}, !.kinds = Only(<<"identities">>)],
    [Base EXCEPT !.can = {"timeout", "panic", "leave"}, !.reg = {"amy"},
                 !.kinds = [c1 |-> <<"broker">>, c2 |-> <<"identities">>]],
    [Base EXCEPT !.can = {"timeout"}, !.kinds = [c1 |-> <<"broker", "waiters">>, c2 |-> <<"broker", "waiters", "broker">>],
                 !.eager = {"c2"}, !.deaf = {"c2"}],
    [Base EXCEPT !.can = {"timeout"}, !.kinds = [c1 |-> <<"broker">>, c2 |-> <<"broker", "waiters", "broker">>],
                 !.eager = {"c2"}],
    [Base EXCEPT !.can = {"rebind"}, !.kinds = Only(<<"identities", "waiters">>), !.waker = "c1",
                 !.reg = {"amy"}, !.project = [hooks |-> Hooks, config |-> Trusted]],
    [Base EXCEPT !.can = {"lock"}],
    [Base EXCEPT !.can = {"log", "fail", "crash"}, !.inputs = Posts, !.reg = {}, !.tail = 2],
    [Base EXCEPT !.can = {"store"}, !.reg = {}, !.kinds = Only(<<"tasks">>)] >>

=============================================================================
