------------------------------ MODULE MCWindow -------------------------------
(* Instances of Window for TLC. *)
EXTENDS Window

CONSTANTS h1, h2, w1, w2

On == {TRUE}

Plan(can, calls, mail) ==
    [can |-> can, calls |-> calls, mail |-> mail, deaths |-> 0, restarts |-> 0, kills |-> 0,
     prompts |-> 0, sent |-> 0, sibling |-> "none", hooks |-> {}, register |-> {}, names |-> {Me}, to |-> {Me},
     listen |-> On, rebind |-> On, refs |-> {None}, rollout |-> None]

\* What Codex has of a session: nothing that may be read; two files, after a resume.
Lost == [rows |-> <<"outside">>, files |-> {}]
Resumed == [rows |-> <<"outside">>, files |-> {[path |-> "old", mtime |-> 1], [path |-> "live", mtime |-> 2]}]

\* Mail for a window that listens.
Listening == [Plan({"register", "inbox", "await", "queue"}, 4, 3) EXCEPT !.hooks = {h1}, !.prompts = 1]

WindowPlans ==
    { \* the session against a broker that dies
      [Plan({"register", "whoami", "send"}, 5, 1) EXCEPT !.deaths = 2, !.to = Names, !.refs = {None, 1}],
      [Plan({"register", "send", "lose"}, 4, 1) EXCEPT !.deaths = 1, !.to = Names, !.refs = {None, 1}],
      [Plan({"register", "inbox", "peers"}, 4, 3) EXCEPT !.deaths = 1, !.names = Names, !.rebind = BOOLEAN],
      [Plan({"register", "set_listen", "join", "leave", "await", "deadline", "ack"}, 3, 1) EXCEPT !.deaths = 1],
      \* the hook over a transcript that is cut and a server that is restarted
      [Plan({"register", "set_listen", "compact"}, 3, 1)
          EXCEPT !.hooks = {h1}, !.prompts = 1, !.restarts = 1, !.listen = BOOLEAN],
      [Plan({"register", "set_listen", "compact", "codex"}, 3, 0)
          EXCEPT !.hooks = {h1}, !.names = Names, !.listen = BOOLEAN, !.rebind = BOOLEAN, !.rollout = Resumed],
      [Plan({"register", "set_listen"}, 3, 0) EXCEPT !.hooks = {h1}, !.deaths = 1, !.restarts = 1, !.rollout = Lost],
      [Plan({"register", "compact"}, 2, 0)
          EXCEPT !.hooks = {h1}, !.deaths = 1, !.names = Names, !.listen = BOOLEAN, !.sibling = "idle"],
      \* two hooks per stop
      [Plan({"register", "queue"}, 1, 1) EXCEPT !.hooks = {h1, h2}, !.kills = 1, !.deaths = 1],
      Listening,
      \* famp register
      [Plan({"register"}, 1, 2) EXCEPT !.deaths = 2, !.names = {Peer}, !.to = {Peer},
          !.register = {[name |-> Peer, tail |-> TRUE], [name |-> Peer, tail |-> FALSE]}],
      [Plan({"signal", "no_reconnect"}, 0, 1) EXCEPT !.deaths = 1, !.to = {Peer},
          !.register = {[name |-> Peer, tail |-> TRUE]}],
      \* famp wait-reply next to a hook
      [Plan({"register", "wait_reply"}, 1, 3) EXCEPT !.hooks = {h1}, !.refs = {None, 1}],
      \* famp listen-wake
      [Plan({"register", "listen_wake"}, 1, 1) EXCEPT !.deaths = 1],
      Plan({"register", "listen_wake", "daemon"}, 1, 1) }

=============================================================================
