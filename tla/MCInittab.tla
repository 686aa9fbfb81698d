----------------------------- MODULE MCInittab -----------------------------
(* The instance of Inittab that TLC checks: a daemon, a console that is      *)
(* respawned and a program whose end switches the system off.                *)
EXTENDS Inittab

Console == <<"sysinit", "wait", "respawn", "poweroff", "shutdown", "restart">>

Circumstances(s, p, k) == [spawnFails |-> s, phaseFails |-> p, stuck |-> k, exitWhenIdle |-> FALSE]
Failures == {Circumstances(TRUE, FALSE, FALSE), Circumstances(FALSE, TRUE, TRUE)}
=============================================================================
