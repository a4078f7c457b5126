------------------------------- MODULE MCHost --------------------------------
(* Instances of Daemon for TLC. *)
EXTENDS Daemon

CONSTANTS q1, q2, q3, c1, c2

Quiet == [install |-> 0, uninstall |-> 0, restart |-> 0]

Plan(platform, service, connects, kills) ==
    [platform |-> platform, service |-> service, connects |-> connects, kills |-> kills,
     sandboxed |-> {}, admsandbox |-> FALSE, oneshot |-> {c1}, admin |-> Quiet,
     upgrades |-> 0, bump |-> FALSE, build |-> 1]

HostPlans ==
    {[Plan("linux", FALSE, 2, 0) EXCEPT !.sandboxed = {c2}],
     Plan("linux", FALSE, 3, 1),
     [Plan("macos", TRUE, 1, 0) EXCEPT !.admin.restart = 1, !.upgrades = 1],
     [Plan("macos", TRUE, 0, 1) EXCEPT !.admin.restart = 1, !.upgrades = 1],
     Plan("macos", TRUE, 1, 1),
     [Plan("linux", TRUE, 1, 0) EXCEPT !.admin.restart = 1, !.upgrades = 1, !.bump = TRUE],
     [Plan("linux", TRUE, 1, 0) EXCEPT !.admin.restart = 1, !.admin.uninstall = 1],
     Plan("linux", TRUE, 1, 1),
     [Plan("linux", TRUE, 0, 2) EXCEPT !.admin.restart = 1, !.admin.install = 1],
     [Plan("macos", FALSE, 1, 0) EXCEPT !.admin.install = 1, !.admin.restart = 1],
     [Plan("linux", FALSE, 0, 0) EXCEPT !.admin.install = 1, !.admsandbox = TRUE]}

=============================================================================
