---------------------------- MODULE MCApplyLock ----------------------------
(* Instance of ApplyLock for TLC. *)
EXTENDS ApplyLock

TwoHosts == <<"h", "k">>

\* Runs 1 and 2 are root, 3 and 4 an ordinary user without an elevator.
ByUser == [r \in Runs |-> [h \in Hosts |-> IF r <= 2 THEN "run" ELSE "home"]]

\* Runs that share locks in /run or in a home directory, or that do not share
\* any, are killed and lose sessions; and everything that may happen to a lock.
Circumstances ==
  [runs : {{1, 2}, {3, 4}, {1, 3}}, stealing : {{}}, faults : {{"kill", "reboot", "lost", "rm"}}, max : {2}]
  \cup [runs : {{3, 4}}, stealing : {{4}}, faults : {{"kill", "reboot", "lost", "write", "rm", "force"}}, max : {2}]
=============================================================================
