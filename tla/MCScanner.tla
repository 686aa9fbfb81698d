----------------------------- MODULE MCScanner -----------------------------
(* The instance of Scanner that TLC checks: a unit that becomes ready in    *)
(* steps and is respawned with a growing delay, a second one with a stop()  *)
(* hook that needs it, and a oneshot that uses it.                          *)
EXTENDS Scanner

NeedFirst == <<{}, {1}, {}>>
UseFirst == <<{}, {}, {1}>>
Modes3 == <<"always", "on_failure", "always">>
FirstOne == <<1, 0, 0>>
FirstTwo == <<2, 0, 0>>
AskFirst == <<{"down", "up"}, {}, {}>>
=============================================================================
