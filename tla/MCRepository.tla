---------------------------- MODULE MCRepository ----------------------------
(* Instance of Repository for TLC. *)
EXTENDS Repository, Sequences

\* Two stores that differ in the bytes they have for a key.
OwnBytes == [p \in Publishers |-> IF p = "p" THEN 1 ELSE 2]

\* A version, a rebuild of it and a newer version.
Rebuilt == <<1, 1, 2>>

Case(packages, publishers, atOnce, clients, life, keys, gens, time, max) ==
  [packages |-> packages, publishers |-> publishers, atOnce |-> atOnce, clients |-> clients,
   life |-> life, keys |-> keys, gens |-> gens, time |-> time, faults |-> max]

\* Publications of several packages, of a rebuild, and by publishers that take
\* turns or not; clients that plan at the same time with snapshots that expire;
\* snapshots issued out of order; and a client that follows one publisher.
Circumstances ==
  {Case({"a", "b"}, {"p", "q"}, 1, {}, 3, {1, 3}, 0, 1, 1),
   Case({"a"}, {"p", "q"}, 1, {}, 3, {1, 2, 3}, 2, 1, 1),
   Case({"a"}, {"p", "q"}, 2, {}, 3, {1}, 1, 1, 0),
   Case({"a"}, {"p"}, 1, {"c", "d"}, 1, {1}, 2, 1, 1),
   Case({"a"}, {"p"}, 1, {"c"}, 2, {1}, 1, 3, 1),
   Case({"a"}, {"p"}, 1, {"c"}, 3, {1}, 2, 2, 1),
   Case({"a"}, {"p"}, 1, {"c"}, 3, {1, 3}, 2, 1, 1)}
=============================================================================
