------------------------------- MODULE MCSetup -------------------------------
(* Instances of Install for TLC. *)
EXTENDS Install

CONSTANTS p1, p2, b1, b2

Env(explicit, current, path) == [explicit |-> explicit, current |-> current, path |-> path]

Envs == {Env(None, b1, None), Env(b2, b1, None)}

OddEnvs == {Env(Blank, b1, b1), Env(Torn, b1, b1), Env(None, None, b1), Env(None, None, None)}

Plan(host, envs, cmds, kills, edits) ==
    [host |-> host, envs |-> envs, cmds |-> cmds, kills |-> kills, edits |-> edits,
     joins |-> FALSE, broken |-> FALSE, probefails |-> FALSE]

SetupPlans ==
    {Plan("claude", Envs, 3, 1, 1), Plan("grok", Envs, 3, 1, 1),
     [Plan("codex", Envs, 3, 1, 1) EXCEPT !.joins = TRUE],
     \* a user who approves a hook, or shares FAMP's groups
     Plan("codex", {Env(None, b1, None)}, 2, 0, 2),
     [Plan("claude", {Env(None, b1, None)}, 2, 0, 2) EXCEPT !.joins = TRUE],
     [Plan("codex", OddEnvs, 2, 0, 0) EXCEPT !.broken = TRUE, !.probefails = TRUE],
     [Plan("claude", OddEnvs, 2, 0, 1) EXCEPT !.broken = TRUE]}

=============================================================================
