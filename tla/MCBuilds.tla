------------------------------ MODULE MCBuilds ------------------------------
(* Instance of Builds for TLC. *)
EXTENDS Builds

\* A toolchain "t" with a runtime library "l" and a package "p" that needs it;
\* nodes that need nothing, and "j", which needs two of them.
SomeDeps == [l |-> {}, r |-> {}, q |-> {}, t |-> {"l"}, p |-> {"t"}, j |-> {"l", "r"}]
SomeRuntime == [l |-> {}, r |-> {}, q |-> {}, t |-> {"l"}, p |-> {}, j |-> {"l"}]

Case(order, local, keep, builders, collects, kills, max) ==
  [order |-> order, local |-> local, keep |-> keep, builders |-> builders,
   collects |-> collects, kills |-> kills, faults |-> max]

\* Two builds of a chain; builds and collections in turn; a wide plan and every
\* kind of failure.
Circumstances ==
  {Case(<<"l", "t", "p">>, {"t", "p"}, {}, {1, 2}, FALSE, {"build"}, 1),
   Case(<<"l", "r", "j">>, {"l", "j"}, {"j"}, {1, 2}, TRUE, {"build"}, 1),
   Case(<<"l", "r", "q", "j">>, {"l", "r", "q", "j"}, {"l"}, {1}, TRUE, {"build", "gc", "power"}, 1)}
=============================================================================
