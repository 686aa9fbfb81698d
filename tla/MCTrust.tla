------------------------------ MODULE MCTrust ------------------------------
(* The instance of Trust that TLC checks. *)
EXTENDS Trust

Release(g, i, e) == [gen |-> g, issued |-> i, expires |-> e]
Circumstances(f, n, j, i) == [faults |-> f, crashes |-> n, jumps |-> j, installed |-> i]

\* Generation 2 expires, is issued again, and is followed by generation 3.
Reissued == {Release(2, 1, 2), Release(2, 2, 9), Release(3, 2, 9)}

\* Two kills or two power failures with a clock that jumps, a store that is not
\* seeded, a single kill with a clock that goes on, and crashes of both kinds.
FiveWorlds ==
  {Circumstances({"kill"}, 2, TRUE, TRUE), Circumstances({"power"}, 2, TRUE, TRUE),
   Circumstances({"kill"}, 2, TRUE, FALSE), Circumstances({"kill"}, 1, FALSE, TRUE),
   Circumstances({"kill", "power"}, 2, FALSE, TRUE)}
=============================================================================
