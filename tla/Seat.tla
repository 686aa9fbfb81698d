-------------------------------- MODULE Seat --------------------------------
(***************************************************************************)
(* What a seat promises its sessions, without saying how: one holder at a  *)
(* time; a holder that is still connected loses the seat only when it was  *)
(* asked for it and with its own answer; only a member can hold it.  Seatd *)
(* implements this specification (Seatd!Broker).                           *)
(***************************************************************************)
EXTENDS FiniteSets

CONSTANTS Sessions, Nobody

VARIABLES
  members,  \* sessions that opened the seat
  holder,   \* the session that may use the devices, or Nobody
  asked,    \* the holder was told to give the seat up and has not answered
  answer    \* the session that answered in the last step, or Nobody

vars == <<members, holder, asked, answer>>

Init == members = {} /\ holder = Nobody /\ asked = FALSE /\ answer = Nobody

\* Answers may come at any time, and from anyone.
Heard == answer' \in Sessions \cup {Nobody}

\* The daemon asks the holder to give up the seat.
Ask ==
  /\ holder # Nobody /\ ~asked /\ Heard
  /\ asked' = TRUE
  /\ UNCHANGED <<members, holder>>

\* Sessions join and leave.  The seat passes, to a member or to nobody, when
\* it was free, with the answer of the holder that was asked for it, or when
\* its holder leaves.
Pass ==
  /\ Heard
  /\ members' \in SUBSET Sessions
  /\ holder' \in members' \cup {Nobody}
  /\ asked' = FALSE
  /\ holder = Nobody \/ (asked /\ answer' = holder) \/ holder \notin members'

\* Sessions join and leave around a holder that keeps the seat.
Attend ==
  /\ Heard
  /\ members' \in SUBSET Sessions
  /\ holder = Nobody \/ holder \in members'
  /\ UNCHANGED <<holder, asked>>

Next == Ask \/ Pass \/ Attend

Spec == Init /\ [][Next]_vars
=============================================================================
