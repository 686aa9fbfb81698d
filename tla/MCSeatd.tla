------------------------------ MODULE MCSeatd ------------------------------
(* Instances of Seatd for TLC. *)
EXTENDS Seatd, TLC

NoFault == [tty |-> {}, revoke |-> {}, open |-> {}]
RevokesFail == {NoFault, [NoFault EXCEPT !.revoke = Paths, !.open = Input]}
TtysFail == {[NoFault EXCEPT !.tty = t] : t \in {{}, Vts \cup {0}}}

Case(bound, slots, paths, targets, faults, slow, answer) ==
  [vtBound |-> bound, slots |-> slots, paths |-> paths, targets |-> targets,
   faults |-> faults, slow |-> slow, answer |-> answer]

\* Sessions without terminals or devices; peers that stop reading; a card handed
\* on; devices with opens and revokes that fail; terminals with ioctls that fail.
Circumstances ==
  {Case(FALSE, 3, {}, {1, 2, 3}, {NoFault}, FALSE, FALSE),
   Case(FALSE, 2, {}, {0, 1, 2}, {NoFault}, TRUE, FALSE),
   Case(FALSE, 2, Drm, {1, 2}, {NoFault}, FALSE, FALSE),
   Case(FALSE, 2, Paths, {1, 2}, RevokesFail, FALSE, FALSE),
   Case(TRUE, 2, {}, {2, 3}, TtysFail, FALSE, FALSE)}

\* Clients that answer take turns, and one that does not sits on a terminal.
TakingTurns ==
  {Case(FALSE, 2, {}, {1, 2}, {NoFault}, FALSE, TRUE),
   Case(TRUE, 1, {}, {2, 4}, {NoFault}, FALSE, FALSE)}

ClientSymmetry == Permutations(Clients)
=============================================================================
