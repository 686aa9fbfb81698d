----------------------------- MODULE MCControl -----------------------------
(* Instance of Control for TLC. *)
EXTENDS Control, TLC

\* Service 2 needs service 1.
PairNeed == <<{}, {1}>>
PairPlan == <<<<1>>, <<1, 2>>>>
PairBoot == <<1, 2>>

\* Commands one at a time without a scanner, beside one that may be killed (also
\* while it starts a service), and with one that comes up; two at once, alone
\* and beside a scanner.
Circumstances ==
  LET Direct == {"start", "stop", "restart"}
      Case(scanner, moves, verbs, busy) ==
        [scanner |-> scanner, moves |-> moves, verbs |-> verbs, busy |-> busy]
  IN {Case(FALSE, {}, Direct \cup {"boot"}, 1), Case(TRUE, {"kill"}, Direct, 1),
      Case(TRUE, {"killStarting"}, {"start", "stop"}, 1), Case(FALSE, {"up"}, {"start", "stop"}, 1),
      Case(FALSE, {}, {"start", "stop"}, 2), Case(TRUE, {}, {"start", "boot"}, 2)}

\* The commands are alike.
Alike == Permutations(Clients)
=============================================================================
