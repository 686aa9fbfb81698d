--------------------------- MODULE ScannerProofs ---------------------------
(***************************************************************************)
(* Proofs about Scanner for every number of units, every dependency graph  *)
(* in plan order, all settings, and any number of processes.               *)
(***************************************************************************)
EXTENDS Scanner, WellFoundedInduction, TLAPS

-----------------------------------------------------------------------------
(* The deadline of the wait *)

\* A set of deadlines has a least one.
LEMMA LeastDeadline ==
  ASSUME NEW T \in SUBSET Nat, T # {}
  PROVE  \E c \in T : \A d \in T : c <= d
<1>1. \E c \in T : \A d \in T : ~(<<d, c>> \in OpToRel(<, Nat))
    BY WFMin, NatLessThanWellFounded
<1>2. \A c, d \in Nat : d < c => <<d, c>> \in OpToRel(<, Nat)
    BY DEF OpToRel
<1>3. PICK c \in T : \A d \in T : ~(<<d, c>> \in OpToRel(<, Nat))
    BY <1>1
<1>4. \A d \in T : ~(d < c)
    BY <1>2, <1>3
<1> QED
    BY <1>4

\* next_wait_ms is a duration, and no later than what any unit waits for.
LEMMA NextWaitBound ==
  ASSUME TypeOK
  PROVE  /\ NextWait \in Nat
         /\ \A u \in Units : Startable(u) => NextWait <= unit[u].due
         /\ \A u \in Units : unit[u].state = "starting" => NextWait <= Poll
<1> DEFINE starts == {unit[u].due : u \in {v \in Units : Startable(v)}}
           polls == {Poll : u \in {v \in Units : unit[v].state = "starting"}}
           candidates == starts \cup polls
<1>1. candidates \in SUBSET Nat
    BY DEF TypeOK, ServiceUnit, Poll
<1>2. /\ \A u \in Units : Startable(u) => unit[u].due \in candidates
      /\ \A u \in Units : unit[u].state = "starting" => Poll \in candidates
    OBVIOUS
<1>3. NextWait = IF candidates = {} THEN Idle ELSE CHOOSE c \in candidates : \A d \in candidates : c <= d
    BY DEF NextWait
<1> HIDE DEF candidates
<1>4. CASE candidates = {}
    BY <1>2, <1>3, <1>4, ServicesAssumption
<1>5. CASE candidates # {}
    <2>1. \E c \in candidates : \A d \in candidates : c <= d
        BY <1>1, <1>5, LeastDeadline
    <2>2. NextWait \in candidates /\ \A d \in candidates : NextWait <= d
        BY <2>1, <1>3, <1>5
    <2> QED
        BY <2>2, <1>1, <1>2
<1> QED
    BY <1>4, <1>5
-----------------------------------------------------------------------------
(* Type correctness and the places of the loop *)

\* The shutdown is going through the units.
Closing == pc = "shutdown" \/ (pc = "grace" /\ req = "shutdown")

\* What the control state says of the rest: a stop works on a unit that is up,
\* the units behind the shutdown are stopped, and so are all of them after it.
PlaceInv ==
  /\ queue # {} => pc \in {"reap", "failed"}
  /\ todo # {} => pc \in {"drain", "remove", "failed"} \/ (pc = "grace" /\ req # "shutdown")
  /\ pc = "grace" => Active(cur) /\ req \in {"down", "restart", "shutdown"}
  /\ pc = "reconcile" => idx \in 1 .. (N + 1)
  /\ Closing => idx \in 1 .. (N + 1)
  /\ (pc = "grace" /\ req = "shutdown") => idx \in Units /\ cur = N + 1 - idx
  /\ Closing => \A u \in Units : u > N + 1 - idx => unit[u].state = "stopped"
  /\ pc = "done" => shutting
  /\ shutting => AllUnitsStopped /\ todo = {} /\ pc \in {"top", "drain", "reconcile", "done", "failed"}
  /\ \A u \in Units : unit[u].pid # NoPid => Active(u)

\* Units that a step puts back, or marks dead, are units.
LEMMA NewUnits ==
  ASSUME TypeOK, NEW u \in Units
  PROVE  /\ UnitInit(u, "up", "pending") \in ServiceUnit
         /\ UnitInit(u, "down", "stopped") \in ServiceUnit
         /\ \A ok \in BOOLEAN :
              /\ MarkUnitDead(u, ok) \in ServiceUnit
              /\ MarkUnitDead(u, ok).pid = NoPid
              /\ MarkUnitDead(u, ok).state \in {"dead", "stopped"}
BY ServicesAssumption
   DEF TypeOK, UnitInit, ServiceUnit, States, MarkUnitDead, RestartDelay, EscalateDelay

\* Groups stay groups when they are reaped, killed or cleaned up.
LEMMA NewGroups ==
  ASSUME TypeOK
  PROVE  /\ NoGroup \in Group
         /\ \A S \in SUBSET Pids : Reap(proc, S) \in [Pids -> Group]
         /\ \A G, S \in SUBSET Pids : ShutdownProcessGroups(G, S) \in [Pids -> Group]
         /\ \A p \in Pids : KillGroup(p) \in [Pids -> Group]
<1>1. NoGroup \in Group
    BY DEF NoGroup, Group
<1>2. ASSUME NEW S \in SUBSET Pids PROVE Reap(proc, S) \in [Pids -> Group]
    <2>1. \A g \in Group : [g EXCEPT !.leader = "reaped"] \in Group
        BY DEF Group
    <2> QED
        BY <1>1, <2>1 DEF Reap, TypeOK
<1>3. ASSUME NEW G \in SUBSET Pids, NEW S \in SUBSET Pids
      PROVE  ShutdownProcessGroups(G, S) \in [Pids -> Group]
    BY <1>1, <1>2 DEF ShutdownProcessGroups
<1>4. ASSUME NEW p \in Pids PROVE KillGroup(p) \in [Pids -> Group]
    <2> DEFINE g == [proc[p] EXCEPT !.leader = IF @ = "live" THEN "zombie" ELSE @, !.tail = FALSE]
    <2>1. g \in Group
        BY DEF TypeOK, Group
    <2>2. KillGroup(p) = [proc EXCEPT ![p] = g]
        BY DEF KillGroup, TypeOK
    <2> QED
        BY <2>1, <2>2 DEF TypeOK
<1> QED
    BY <1>1, <1>2, <1>3, <1>4

\* unit_state_label knows every state.
LEMMA LabelsTyped == \A state \in States : UnitStateLabel(state) \in Labels
BY DEF States, Labels, UnitStateLabel

\* scan_units starts with typed state.
LEMMA InitTyped == Init => TypeOK
<1> SUFFICES ASSUME Init PROVE TypeOK
    OBVIOUS
<1>1. unit \in [Units -> ServiceUnit]
    BY ServicesAssumption DEF Init, UnitInit, ServiceUnit, States
<1>2. proc \in [Pids -> Group]
    BY DEF Init, NoGroup, Group
<1>3. cur \in Units /\ idx \in 0 .. (N + 1)
    BY UnitsAssumption DEF Init, Units
<1>4. /\ status \in [Units -> Labels]
      /\ inbox \in [Units -> AllRequests \cup {NoRequest}]
      /\ snap \in [Units -> States]
      /\ owed \in [Units -> Int]
    BY DEF Init, NoSnapshot, States, Labels
<1> QED
    BY <1>1, <1>2, <1>3, <1>4 DEF Init, TypeOK, NoRequest, NoSnapshot, States, Labels, Places

\* Types are kept by every step; a stop inside the shutdown needs to know where
\* the shutdown is.
LEMMA NextTyped ==
  ASSUME TypeOK, PlaceInv, Next
  PROVE  TypeOK'
<1> USE LabelsTyped DEF Places
<1>1. ASSUME DrainInbox PROVE TypeOK'
    BY <1>1 DEF DrainInbox, TypeOK
<1>2. ASSUME NEW u \in Units, ApplyOne(u) PROVE TypeOK'
    BY <1>2, NewUnits DEF ApplyOne, TypeOK, WriteStatus, States, AllRequests, NoRequest
<1>3. ASSUME StopUnit PROVE TypeOK'
    <2>1. unit' \in [Units -> ServiceUnit]
        BY <1>3, NewUnits DEF StopUnit, TypeOK
    <2>2. proc' \in [Pids -> Group]
        BY <1>3, NewGroups DEF StopUnit, TypeOK, ServiceUnit
    <2>3. idx' \in 0 .. (N + 1)
        BY <1>3, UnitsAssumption DEF StopUnit, TypeOK, PlaceInv, Units
    <2>4. cur' \in Units
        BY <1>3, UnitsAssumption DEF StopUnit, TypeOK, Units
    <2> QED
        BY <1>3, <2>1, <2>2, <2>3, <2>4 DEF StopUnit, TypeOK, WriteStatus, States, NoRequest
<1>4. ASSUME RemoveRequest PROVE TypeOK'
    BY <1>4, UnitsAssumption DEF RemoveRequest, TypeOK, Units, NoRequest
<1>5. ASSUME ReconcileAll PROVE TypeOK'
    BY <1>5, UnitsAssumption DEF ReconcileAll, TypeOK, UnitStates, ServiceUnit
<1>6. ASSUME NEW u \in Units, ReconcileOne(u) PROVE TypeOK'
    <2>1. idx' \in 0 .. (N + 1)
        BY <1>6, UnitsAssumption DEF ReconcileOne, Units
    <2>2. CASE AdvanceReadiness(u)
        <3> DEFINE x == [unit[u] EXCEPT !.state = "running"]
        <3>1. x \in ServiceUnit
            BY DEF TypeOK, ServiceUnit, States
        <3>2. /\ unit' = [unit EXCEPT ![u] = x] \/ unit' = unit
              /\ status' = [status EXCEPT ![u] = "running"] \/ status' = status
            BY <2>2 DEF AdvanceReadiness, WriteStatus, UnitStateLabel, Labels, TypeOK
        <3> HIDE DEF x
        <3>3. unit' \in [Units -> ServiceUnit] /\ status' \in [Units -> Labels]
            BY <3>1, <3>2 DEF TypeOK, Labels
        <3> QED
            BY <1>6, <2>1, <2>2, <3>3 DEF ReconcileOne, AdvanceReadiness, TypeOK
    <2>3. CASE SpawnLongrun(u)
        <3> DEFINE state == IF u \in Gradual THEN "starting" ELSE "running"
        <3>1. PICK p \in Pids :
                 /\ proc' = [proc EXCEPT ![p] = [leader |-> "live", unit |-> u, tail |-> FALSE]]
                 /\ unit' = [unit EXCEPT ![u] = [unit[u] EXCEPT !.state = state, !.pid = p, !.age = 0]]
                 /\ status' = [status EXCEPT ![u] = state]
            BY <2>3 DEF SpawnLongrun, TypeOK, WriteStatus, UnitStateLabel, Labels
        <3> DEFINE x == [unit[u] EXCEPT !.state = state, !.pid = p, !.age = 0]
                   g == [leader |-> "live", unit |-> u, tail |-> FALSE]
        <3>0. unit[u] \in ServiceUnit
            BY DEF TypeOK
        <3>2. x \in ServiceUnit /\ g \in Group
            BY <3>0 DEF ServiceUnit, States, Group
        <3> HIDE DEF x, g
        <3>3. /\ unit' \in [Units -> ServiceUnit]
              /\ status' \in [Units -> Labels]
              /\ proc' \in [Pids -> Group]
            BY <3>1, <3>2 DEF TypeOK, Labels, x, g
        <3>4. owed' \in [Units -> Int]
            BY <2>3 DEF SpawnLongrun, TypeOK
        <3> QED
            BY <1>6, <2>1, <3>3, <3>4 DEF ReconcileOne, TypeOK
    <2>4. CASE RunOneshot(u)
        <3> DEFINE x == [unit[u] EXCEPT !.state = "running", !.age = 0]
        <3>0. unit[u] \in ServiceUnit
            BY DEF TypeOK
        <3>1. x \in ServiceUnit
            BY <3>0 DEF ServiceUnit, States
        <3>2. unit' = [unit EXCEPT ![u] = x] /\ status' = [status EXCEPT ![u] = "running"]
            BY <2>4 DEF RunOneshot, WriteStatus, UnitStateLabel, Labels, TypeOK
        <3> HIDE DEF x
        <3>3. unit' \in [Units -> ServiceUnit] /\ status' \in [Units -> Labels]
            BY <3>1, <3>2 DEF TypeOK, Labels
        <3> QED
            BY <1>6, <2>1, <2>4, <3>3 DEF ReconcileOne, RunOneshot, TypeOK
    <2>5. CASE LeaveAlone(u)
        BY <1>6, <2>1, <2>5 DEF ReconcileOne, LeaveAlone, TypeOK
    <2> QED
        BY <1>6, <2>2, <2>3, <2>4, <2>5 DEF ReconcileOne
<1>7. ASSUME EndPass PROVE TypeOK'
    BY <1>7, NextWaitBound, UnitsAssumption DEF EndPass, TypeOK, NoSnapshot, States
<1>8. ASSUME WaitTimeout PROVE TypeOK'
    BY <1>8 DEF WaitTimeout, TypeOK
<1>9. ASSUME WaitHup PROVE TypeOK'
    BY <1>9 DEF WaitHup, TypeOK
<1>10. ASSUME WaitChildren PROVE TypeOK'
    BY <1>10, NewGroups DEF WaitChildren, TypeOK, Zombies
<1>11. ASSUME NEW p \in Pids, ReconcileChildExit(p) PROVE TypeOK'
    <2>1. PICK u \in Units, S \in SUBSET Zombies, ok \in BOOLEAN :
                 /\ proc' = ShutdownProcessGroups(CrashedGroups(p), S)
                 /\ queue' = ExitsLeft(p, S)
                 /\ unit' = [unit EXCEPT ![u] = MarkUnitDead(u, ok)]
                 /\ WriteStatus(u, MarkUnitDead(u, ok).state)
                 /\ owed' = [owed EXCEPT ![u] = @ - 1]
        BY <1>11 DEF ReconcileChildExit
    <2>2. S \in SUBSET Pids /\ CrashedGroups(p) \in SUBSET Pids
        BY DEF Zombies, CrashedGroups
    <2>3. proc' \in [Pids -> Group] /\ queue' \subseteq Pids
        BY <2>1, <2>2, NewGroups DEF TypeOK, ExitsLeft
    <2>4. unit' \in [Units -> ServiceUnit]
        BY <2>1, NewUnits DEF TypeOK
    <2>5. status' \in [Units -> Labels] /\ owed' \in [Units -> Int]
        BY <2>1, NewUnits DEF TypeOK, WriteStatus, States
    <2> QED
        BY <1>11, <2>3, <2>4, <2>5 DEF ReconcileChildExit, TypeOK
<1>12. ASSUME NEW p \in Pids, IgnoreChildExit(p) PROVE TypeOK'
    BY <1>12 DEF IgnoreChildExit, TypeOK
<1>13. ASSUME ChildExitsDone PROVE TypeOK'
    BY <1>13 DEF ChildExitsDone, TypeOK
<1>14. ASSUME WaitTerm PROVE TypeOK'
    <2>1. OwnedGroups \subseteq Pids
        BY DEF OwnedGroups, TypeOK, ServiceUnit
    <2>2. 1 \in 0 .. (N + 1)
        BY UnitsAssumption
    <2>3. groups' \subseteq Pids
        BY <1>14, <2>1 DEF WaitTerm
    <2> QED
        BY <1>14, <2>2, <2>3 DEF WaitTerm, TypeOK
<1>15. ASSUME NEW u \in Units, ShutdownOne(u) PROVE TypeOK'
    <2>1. idx + 1 \in 0 .. (N + 1)
        BY <1>15, UnitsAssumption DEF ShutdownOne, Units
    <2>2. unit' \in [Units -> ServiceUnit]
        BY <1>15, NewUnits DEF ShutdownOne, TypeOK
    <2>3. status' \in [Units -> Labels]
        BY <1>15 DEF ShutdownOne, TypeOK, WriteStatus, States
    <2> QED
        BY <1>15, <2>1, <2>2, <2>3 DEF ShutdownOne, TypeOK
<1>16. ASSUME CleanupGroups PROVE TypeOK'
    <2>1. PICK S \in SUBSET Zombies : proc' = ShutdownProcessGroups(groups, S)
        BY <1>16 DEF CleanupGroups
    <2>2. S \in SUBSET Pids /\ groups \in SUBSET Pids
        BY DEF Zombies, TypeOK
    <2>3. proc' \in [Pids -> Group]
        BY <2>1, <2>2, NewGroups
    <2> QED
        BY <1>16, <2>3, UnitsAssumption DEF CleanupGroups, TypeOK
<1>17. ASSUME Abort PROVE TypeOK'
    BY <1>17 DEF Abort, TypeOK
<1>18. ASSUME NEW u \in Units, NEW r \in Requests[u], RequestDesired(u, r) PROVE TypeOK'
    BY <1>18, ServicesAssumption DEF RequestDesired, TypeOK
<1>19. ASSUME NEW p \in Pids, Exit(p) PROVE TypeOK'
    <2> DEFINE g == [proc[p] EXCEPT !.leader = "zombie"]
    <2>1. g \in Group
        BY DEF TypeOK, Group
    <2>2. proc' = [proc EXCEPT ![p] = g]
        BY <1>19 DEF Exit, SetProc, TypeOK
    <2> HIDE DEF g
    <2>3. proc' \in [Pids -> Group]
        BY <2>1, <2>2 DEF TypeOK
    <2> QED
        BY <1>19, <2>3 DEF Exit, SetProc, TypeOK
<1>20. ASSUME NEW p \in Pids, Fork(p) PROVE TypeOK'
    <2> DEFINE g == [proc[p] EXCEPT !.tail = TRUE]
    <2>1. g \in Group
        BY DEF TypeOK, Group
    <2>2. proc' = [proc EXCEPT ![p] = g]
        BY <1>20 DEF Fork, SetProc, TypeOK
    <2> HIDE DEF g
    <2>3. proc' \in [Pids -> Group]
        BY <2>1, <2>2 DEF TypeOK
    <2> QED
        BY <1>20, <2>3 DEF Fork, SetProc, TypeOK
<1>21. ASSUME NEW p \in Pids, TailExit(p) PROVE TypeOK'
    <2> DEFINE g == [proc[p] EXCEPT !.tail = FALSE]
    <2>1. g \in Group
        BY DEF TypeOK, Group
    <2>2. proc' \in {[proc EXCEPT ![p] = g], [proc EXCEPT ![p] = NoGroup]}
        BY <1>21 DEF TailExit, SetProc, TypeOK
    <2> HIDE DEF g
    <2>3. proc' \in [Pids -> Group]
        BY <2>1, <2>2, NewGroups DEF TypeOK
    <2> QED
        BY <1>21, <2>3 DEF TailExit, SetProc, TypeOK
<1>22. ASSUME SendTerm PROVE TypeOK'
    BY <1>22 DEF SendTerm, TypeOK
<1>23. ASSUME Tick PROVE TypeOK'
    <2>1. \A n \in Nat : Down(n) \in Nat
        BY DEF Down
    <2> DEFINE x(u) == [unit[u] EXCEPT !.due = Down(@), !.age = IF Active(u) /\ @ < AgeCap THEN @ + 1 ELSE @]
    <2>2. ASSUME NEW u \in Units PROVE x(u) \in ServiceUnit
        <3> DEFINE d == Down(unit[u].due)
                   a == IF Active(u) /\ unit[u].age < AgeCap THEN unit[u].age + 1 ELSE unit[u].age
        <3>1. unit[u] \in ServiceUnit
            BY DEF TypeOK
        <3>2. d \in Nat /\ a \in Nat
            BY <2>1, <3>1 DEF ServiceUnit
        <3>3. x(u) = [unit[u] EXCEPT !.due = d, !.age = a]
            BY <3>1 DEF ServiceUnit
        <3> HIDE DEF a, d, x
        <3> QED
            BY <3>1, <3>2, <3>3 DEF ServiceUnit
    <2>3. unit' = [u \in Units |-> x(u)]
        BY <1>23 DEF Tick
    <2> HIDE DEF x
    <2>4. unit' \in [Units -> ServiceUnit]
        BY <2>2, <2>3
    <2> QED
        BY <1>23, <2>1, <2>4 DEF Tick, TypeOK
<1>24. ASSUME Returned PROVE TypeOK'
    BY <1>24 DEF Returned, vars, TypeOK
<1> QED
    BY <1>1, <1>2, <1>3, <1>4, <1>5, <1>6, <1>7, <1>8, <1>9, <1>10, <1>11, <1>12,
       <1>13, <1>14, <1>15, <1>16, <1>17, <1>18, <1>19, <1>20, <1>21, <1>22, <1>23, <1>24
       DEF Next, ScannerStep


\* scan_units starts at the top of its loop, with nothing up.
LEMMA InitPlaces == Init => PlaceInv
BY DEF Init, PlaceInv, Closing, UnitInit, AllUnitsStopped

\* Every step keeps to the places.
LEMMA NextPlaces ==
  ASSUME TypeOK, PlaceInv, Next
  PROVE  PlaceInv'
<1> USE DEF PlaceInv, Closing, Active, AllUnitsStopped
<1>1. ASSUME DrainInbox PROVE PlaceInv'
    BY <1>1, UnitsAssumption DEF DrainInbox, TypeOK
<1>2. ASSUME NEW u \in Units, ApplyOne(u) PROVE PlaceInv'
    BY <1>2, UnitsAssumption DEF ApplyOne, TypeOK, NeedsKill, UnitInit, WriteStatus, NoRequest
<1>3. ASSUME StopUnit PROVE PlaceInv'
    BY <1>3, UnitsAssumption DEF StopUnit, TypeOK, UnitInit, Units
<1>4. ASSUME RemoveRequest PROVE PlaceInv'
    BY <1>4, UnitsAssumption DEF RemoveRequest, TypeOK
<1>5. ASSUME ReconcileAll PROVE PlaceInv'
    BY <1>5, UnitsAssumption DEF ReconcileAll, TypeOK
<1>6. ASSUME NEW u \in Units, ReconcileOne(u) PROVE PlaceInv'
    <2>1. pc = "reconcile" /\ pc' = pc /\ idx' \in 1 .. (N + 1) /\ queue' = {} /\ shutting' = shutting /\ todo' = todo
        BY <1>6, UnitsAssumption DEF ReconcileOne, Units
    <2>2. ASSUME NEW v \in Units
          PROVE  /\ unit'[v].pid # NoPid => unit'[v].state \in {"running", "starting"}
                 /\ unit[v].state = "stopped" => unit'[v].state = "stopped"
        <3>1. CASE AdvanceReadiness(u)
            BY <3>1 DEF AdvanceReadiness, TypeOK, ServiceUnit
        <3>2. CASE SpawnLongrun(u)
            BY <3>2 DEF SpawnLongrun, MustSpawn, TypeOK, ServiceUnit
        <3>3. CASE RunOneshot(u)
            BY <3>3 DEF RunOneshot, MustSpawn, TypeOK, ServiceUnit
        <3>4. CASE LeaveAlone(u)
            BY <3>4 DEF LeaveAlone
        <3> QED
            BY <1>6, <3>1, <3>2, <3>3, <3>4 DEF ReconcileOne
    <2> QED
        BY <2>1, <2>2
<1>7. ASSUME EndPass PROVE PlaceInv'
    BY <1>7, UnitsAssumption DEF EndPass, TypeOK
<1>8. ASSUME WaitTimeout PROVE PlaceInv'
    BY <1>8, UnitsAssumption DEF WaitTimeout, TypeOK
<1>9. ASSUME WaitHup PROVE PlaceInv'
    BY <1>9, UnitsAssumption DEF WaitHup, TypeOK
<1>10. ASSUME WaitChildren PROVE PlaceInv'
    BY <1>10, UnitsAssumption DEF WaitChildren, TypeOK
<1>11. ASSUME NEW p \in Pids, ReconcileChildExit(p) PROVE PlaceInv'
    <2>1. PICK u \in Units, ok \in BOOLEAN : unit' = [unit EXCEPT ![u] = MarkUnitDead(u, ok)]
        BY <1>11 DEF ReconcileChildExit
    <2>2. \A v \in Units : unit'[v].pid # NoPid => unit'[v].state \in {"running", "starting"}
        BY <2>1, NewUnits DEF TypeOK
    <2> QED
        BY <1>11, <2>2 DEF ReconcileChildExit
<1>12. ASSUME NEW p \in Pids, IgnoreChildExit(p) PROVE PlaceInv'
    BY <1>12, UnitsAssumption DEF IgnoreChildExit, TypeOK
<1>13. ASSUME ChildExitsDone PROVE PlaceInv'
    BY <1>13, UnitsAssumption DEF ChildExitsDone, TypeOK
<1>14. ASSUME WaitTerm PROVE PlaceInv'
    <2>1. pc' = "shutdown" /\ idx' = 1 /\ ~shutting' /\ unit' = unit /\ queue' = {} /\ todo' = {}
        BY <1>14 DEF WaitTerm
    <2>2. \A u \in Units : ~(u > N + 1 - 1)
        BY UnitsAssumption DEF Units
    <2> QED
        BY <2>1, <2>2, UnitsAssumption
<1>15. ASSUME NEW u \in Units, ShutdownOne(u) PROVE PlaceInv'
    <2>1. pc = "shutdown" /\ idx \in Units /\ u = N + 1 - idx /\ ~shutting /\ ~shutting' /\ queue' = {} /\ todo' = {}
        BY <1>15 DEF ShutdownOne, ReverseUnits
    <2>2. CASE NeedsKill(u)
        BY <1>15, <2>1, <2>2 DEF ShutdownOne, NeedsKill
    <2>3. CASE ~NeedsKill(u)
        <3>1. /\ pc' = "shutdown" /\ idx' = idx + 1 /\ idx' \in 1 .. (N + 1)
              /\ unit' = [unit EXCEPT ![u] = UnitInit(u, "down", "stopped")]
            BY <1>15, <2>1, <2>3, UnitsAssumption DEF ShutdownOne, Units
        <3>2. \A v \in Units : v > N + 1 - idx' => v = u \/ v > N + 1 - idx
            BY <2>1, <3>1, UnitsAssumption DEF Units
        <3>3. \A v \in Units : v > N + 1 - idx' => unit'[v].state = "stopped"
            BY <2>1, <3>1, <3>2 DEF UnitInit, TypeOK
        <3>4. \A v \in Units : unit'[v].pid # NoPid => unit'[v].state \in {"running", "starting"}
            BY <3>1 DEF UnitInit, TypeOK
        <3> QED
            BY <2>1, <3>1, <3>3, <3>4
    <2> QED
        BY <2>2, <2>3
<1>16. ASSUME CleanupGroups PROVE PlaceInv'
    <2>1. pc = "shutdown" /\ idx = N + 1 /\ pc' = "top" /\ unit' = unit /\ queue' = {} /\ todo' = todo
        BY <1>16 DEF CleanupGroups
    <2>2. \A u \in Units : u > N + 1 - (N + 1)
        BY UnitsAssumption DEF Units
    <2>3. \A u \in Units : unit[u].state = "stopped"
        BY <2>1, <2>2
    <2> QED
        BY <2>1, <2>3
<1>17. ASSUME Abort PROVE PlaceInv'
    BY <1>17, UnitsAssumption DEF Abort, TypeOK
<1>18. ASSUME NEW u \in Units, NEW r \in Requests[u], RequestDesired(u, r) PROVE PlaceInv'
    BY <1>18, UnitsAssumption DEF RequestDesired, TypeOK
<1>19. ASSUME NEW p \in Pids, Exit(p) PROVE PlaceInv'
    BY <1>19, UnitsAssumption DEF Exit, TypeOK, SetProc
<1>20. ASSUME NEW p \in Pids, Fork(p) PROVE PlaceInv'
    BY <1>20, UnitsAssumption DEF Fork, TypeOK, SetProc
<1>21. ASSUME NEW p \in Pids, TailExit(p) PROVE PlaceInv'
    BY <1>21, UnitsAssumption DEF TailExit, TypeOK, SetProc
<1>22. ASSUME SendTerm PROVE PlaceInv'
    BY <1>22, UnitsAssumption DEF SendTerm, TypeOK
<1>23. ASSUME Tick PROVE PlaceInv'
    <2>1. \A u \in Units : unit'[u].state = unit[u].state /\ unit'[u].pid = unit[u].pid
        BY <1>23 DEF Tick, TypeOK, ServiceUnit
    <2> QED
        BY <1>23, <2>1 DEF Tick, TypeOK
<1>24. ASSUME Returned PROVE PlaceInv'
    BY <1>24, UnitsAssumption DEF Returned, TypeOK, vars
<1> QED
    BY <1>1, <1>2, <1>3, <1>4, <1>5, <1>6, <1>7, <1>8, <1>9, <1>10, <1>11, <1>12,
       <1>13, <1>14, <1>15, <1>16, <1>17, <1>18, <1>19, <1>20, <1>21, <1>22, <1>23, <1>24
       DEF Next, ScannerStep

-----------------------------------------------------------------------------
(* The life of a unit *)

Same(v) == unit'[v] = unit[v] /\ status'[v] = status[v] /\ owed'[v] = owed[v]

\* A request changes what is wanted of a unit that is not up.
Rewanted(v) ==
  /\ ~Active(v) /\ unit[v].pid = NoPid
  /\ unit'[v] \in {UnitInit(v, "up", "pending"), UnitInit(v, "down", "stopped")}
  /\ status'[v] \in {status[v], "down"}
  /\ owed'[v] = owed[v]

\* kill_unit, and the unit it leaves.
Stopped(v) ==
  /\ Active(v)
  /\ unit'[v] \in {UnitInit(v, "up", "pending"), UnitInit(v, "down", "stopped")}
  /\ status'[v] = "down"
  /\ owed'[v] = owed[v] - 1

Started(v) ==
  /\ MustSpawn(v) /\ pc = "reconcile"
  /\ unit'[v].state \in {"starting", "running"}
  /\ unit'[v].delay = unit[v].delay /\ unit'[v].due = unit[v].due
  /\ status'[v] = unit'[v].state
  /\ owed'[v] = owed[v] + 1

Readied(v) ==
  /\ unit[v].state = "starting"
  /\ unit'[v] = [unit[v] EXCEPT !.state = "running"]
  /\ status'[v] = "running"
  /\ owed'[v] = owed[v]

Crashed(v) ==
  /\ Active(v)
  /\ \E ok \in BOOLEAN : /\ unit'[v] = MarkUnitDead(v, ok)
                         /\ status'[v] = UnitStateLabel(MarkUnitDead(v, ok).state)
  /\ owed'[v] = owed[v] - 1

Ticked(v) ==
  /\ unit'[v].state = unit[v].state /\ unit'[v].pid = unit[v].pid
  /\ unit'[v].desired = unit[v].desired
  /\ unit'[v].delay = unit[v].delay
  /\ unit'[v].due = Down(unit[v].due)
  /\ status'[v] = status[v] /\ owed'[v] = owed[v]

UnitStep(v) ==
  Same(v) \/ Rewanted(v) \/ Stopped(v) \/ Started(v) \/ Readied(v) \/ Crashed(v) \/ Ticked(v)

\* Whatever the scanner and the world do, to one unit it is one of these.
LEMMA UnitSteps ==
  ASSUME TypeOK, PlaceInv, Next, NEW v \in Units
  PROVE  UnitStep(v)
<1>1. ASSUME DrainInbox PROVE UnitStep(v)
    BY <1>1 DEF DrainInbox, UnitStep, Same
<1>2. ASSUME NEW u \in Units, ApplyOne(u) PROVE UnitStep(v)
    <2>1. CASE v # u
        BY <1>2, <2>1 DEF ApplyOne, UnitStep, Same, WriteStatus, TypeOK
    <2>2. CASE v = u /\ unit' = unit
        BY <1>2, <2>2 DEF ApplyOne, UnitStep, Same, Rewanted, NeedsKill, WriteStatus, UnitStateLabel, Labels, TypeOK
    <2>3. CASE v = u /\ unit' # unit
        <3>1. ~Active(u) /\ unit[u].pid = NoPid
            BY <1>2, <2>3 DEF ApplyOne, NeedsKill, PlaceInv
        <3>2. /\ unit'[u] \in {UnitInit(u, "up", "pending"), UnitInit(u, "down", "stopped")}
              /\ status'[u] \in {status[u], "down"}
              /\ owed' = owed
            BY <1>2, <2>3 DEF ApplyOne, WriteStatus, UnitStateLabel, Labels, TypeOK
        <3> QED
            BY <2>3, <3>1, <3>2 DEF UnitStep, Rewanted
    <2> QED
        BY <2>1, <2>2, <2>3
<1>3. ASSUME StopUnit PROVE UnitStep(v)
    <2>1. CASE v = cur
        BY <1>3, <2>1 DEF StopUnit, UnitStep, Stopped, PlaceInv, WriteStatus, UnitStateLabel, Labels, TypeOK
    <2>2. CASE v # cur
        BY <1>3, <2>2 DEF StopUnit, UnitStep, Same, WriteStatus, TypeOK
    <2> QED
        BY <2>1, <2>2
<1>4. ASSUME RemoveRequest PROVE UnitStep(v)
    BY <1>4 DEF RemoveRequest, UnitStep, Same
<1>5. ASSUME ReconcileAll PROVE UnitStep(v)
    BY <1>5 DEF ReconcileAll, UnitStep, Same
<1>6. ASSUME NEW u \in Units, ReconcileOne(u) PROVE UnitStep(v)
    <2>1. CASE v # u
        BY <1>6, <2>1 DEF ReconcileOne, AdvanceReadiness, SpawnLongrun, RunOneshot, LeaveAlone, UnitStep, Same,
            WriteStatus, TypeOK
    <2>2. CASE v = u /\ AdvanceReadiness(u)
        BY <1>6, <2>2 DEF AdvanceReadiness, UnitStep, Same, Readied, WriteStatus, UnitStateLabel, Labels, TypeOK
    <2>3. CASE v = u /\ SpawnLongrun(u)
        <3>1. PICK p \in Pids, state \in {"starting", "running"} :
                 /\ unit' = [unit EXCEPT ![u] = [unit[u] EXCEPT !.state = state, !.pid = p, !.age = 0]]
                 /\ status' = [status EXCEPT ![u] = state]
            BY <2>3 DEF SpawnLongrun, TypeOK, WriteStatus, UnitStateLabel, Labels
        <3>2. unit[u] \in ServiceUnit
            BY DEF TypeOK
        <3>3. /\ unit'[u].state = state /\ status'[u] = state
              /\ unit'[u].delay = unit[u].delay /\ unit'[u].due = unit[u].due
            BY <3>1, <3>2 DEF TypeOK, ServiceUnit
        <3>4. MustSpawn(u) /\ owed'[u] = owed[u] + 1
            BY <2>3 DEF SpawnLongrun, TypeOK
        <3> QED
            BY <1>6, <2>3, <3>3, <3>4 DEF ReconcileOne, UnitStep, Started
    <2>4. CASE v = u /\ RunOneshot(u)
        BY <1>6, <2>4 DEF ReconcileOne, RunOneshot, UnitStep, Started, WriteStatus, UnitStateLabel, Labels, TypeOK, ServiceUnit
    <2>5. CASE LeaveAlone(u)
        BY <1>6, <2>5 DEF LeaveAlone, UnitStep, Same
    <2> QED
        BY <1>6, <2>1, <2>2, <2>3, <2>4, <2>5 DEF ReconcileOne
<1>7. ASSUME EndPass PROVE UnitStep(v)
    BY <1>7 DEF EndPass, UnitStep, Same
<1>8. ASSUME WaitTimeout PROVE UnitStep(v)
    BY <1>8 DEF WaitTimeout, UnitStep, Same
<1>9. ASSUME WaitHup PROVE UnitStep(v)
    BY <1>9 DEF WaitHup, UnitStep, Same
<1>10. ASSUME WaitChildren PROVE UnitStep(v)
    BY <1>10 DEF WaitChildren, UnitStep, Same
<1>11. ASSUME NEW p \in Pids, ReconcileChildExit(p) PROVE UnitStep(v)
    <2>1. PICK u \in Units, ok \in BOOLEAN :
                 /\ Tracks(u, p)
                 /\ unit' = [unit EXCEPT ![u] = MarkUnitDead(u, ok)]
                 /\ WriteStatus(u, MarkUnitDead(u, ok).state)
                 /\ owed' = [owed EXCEPT ![u] = @ - 1]
        BY <1>11 DEF ReconcileChildExit
    <2> QED
        BY <2>1 DEF UnitStep, Same, Crashed, Tracks, WriteStatus, TypeOK
<1>12. ASSUME NEW p \in Pids, IgnoreChildExit(p) PROVE UnitStep(v)
    BY <1>12 DEF IgnoreChildExit, UnitStep, Same
<1>13. ASSUME ChildExitsDone PROVE UnitStep(v)
    BY <1>13 DEF ChildExitsDone, UnitStep, Same
<1>14. ASSUME WaitTerm PROVE UnitStep(v)
    BY <1>14 DEF WaitTerm, UnitStep, Same
<1>15. ASSUME NEW u \in Units, ShutdownOne(u) PROVE UnitStep(v)
    BY <1>15 DEF ShutdownOne, UnitStep, Same, Rewanted, NeedsKill, Active, WriteStatus, UnitStateLabel, Labels, TypeOK
<1>16. ASSUME CleanupGroups PROVE UnitStep(v)
    BY <1>16 DEF CleanupGroups, UnitStep, Same
<1>17. ASSUME Abort PROVE UnitStep(v)
    BY <1>17 DEF Abort, UnitStep, Same
<1>18. ASSUME NEW u \in Units, NEW r \in Requests[u], RequestDesired(u, r) PROVE UnitStep(v)
    BY <1>18 DEF RequestDesired, UnitStep, Same
<1>19. ASSUME NEW p \in Pids, Exit(p) PROVE UnitStep(v)
    BY <1>19 DEF Exit, UnitStep, Same, SetProc
<1>20. ASSUME NEW p \in Pids, Fork(p) PROVE UnitStep(v)
    BY <1>20 DEF Fork, UnitStep, Same, SetProc
<1>21. ASSUME NEW p \in Pids, TailExit(p) PROVE UnitStep(v)
    BY <1>21 DEF TailExit, UnitStep, Same, SetProc
<1>22. ASSUME SendTerm PROVE UnitStep(v)
    BY <1>22 DEF SendTerm, UnitStep, Same
<1>23. ASSUME Tick PROVE UnitStep(v)
    BY <1>23 DEF Tick, UnitStep, Ticked, TypeOK, ServiceUnit
<1>24. ASSUME Returned PROVE UnitStep(v)
    BY <1>24 DEF Returned, UnitStep, Same, vars
<1> QED
    BY <1>1, <1>2, <1>3, <1>4, <1>5, <1>6, <1>7, <1>8, <1>9, <1>10, <1>11, <1>12,
       <1>13, <1>14, <1>15, <1>16, <1>17, <1>18, <1>19, <1>20, <1>21, <1>22, <1>23, <1>24
       DEF Next, ScannerStep

-----------------------------------------------------------------------------
(* What holds of each unit *)

UnitInv == FinishOncePerStart /\ StatusHonest /\ BackoffCapped

\* The delay after a crash, and the next one, stay between the limits.
LEMMA DelaysBounded ==
  ASSUME TypeOK, NEW u \in Units, MaxDelay[u] > 0,
         unit[u].delay \in Delay[u] .. MaxDelay[u]
  PROVE  /\ RestartDelay(u) \in Delay[u] .. MaxDelay[u]
         /\ EscalateDelay(RestartDelay(u), MaxDelay[u]) \in Delay[u] .. MaxDelay[u]
<1>1. Delay[u] \in Nat /\ MaxDelay[u] \in Nat /\ Delay[u] <= MaxDelay[u]
    BY ServicesAssumption
<1>2. RestartDelay(u) \in Delay[u] .. MaxDelay[u]
    BY <1>1 DEF RestartDelay
<1>3. ASSUME NEW d \in Delay[u] .. MaxDelay[u]
      PROVE  EscalateDelay(d, MaxDelay[u]) \in Delay[u] .. MaxDelay[u]
    <2>1. CASE d > MaxDelay[u] \div 2
        BY <1>1, <2>1 DEF EscalateDelay
    <2>2. CASE ~(d > MaxDelay[u] \div 2)
        <3>1. d \in Nat /\ MaxDelay[u] \div 2 \in Nat
            BY <1>1
        <3>2. 2 * (MaxDelay[u] \div 2) <= MaxDelay[u]
            BY <1>1
        <3>3. d * 2 <= MaxDelay[u] /\ d * 2 >= Delay[u] /\ d * 2 \in Nat
            BY <1>1, <2>2, <3>1, <3>2
        <3> QED
            BY <1>1, <2>2, <3>3 DEF EscalateDelay
    <2> QED
        BY <2>1, <2>2
<1> QED
    BY <1>2, <1>3

\* Fresh units owe no finish(), show as down and have their first delay.
LEMMA InitUnits == Init => UnitInv
BY ServicesAssumption
   DEF Init, UnitInv, FinishOncePerStart, StatusHonest, BackoffCapped, UnitInit, Active, Units

\* Each of the three properties of a unit is kept by each kind of unit step.
LEMMA NextUnits ==
  ASSUME TypeOK, PlaceInv, UnitInv, Next
  PROVE  UnitInv'
<1>1. \A v \in Units : UnitStep(v)
    BY UnitSteps
<1>2. TypeOK'
    BY NextTyped
<1>3. FinishOncePerStart'
    <2> SUFFICES ASSUME NEW v \in Units
                 PROVE  owed'[v] = IF unit'[v].state \in {"running", "starting"} THEN 1 ELSE 0
        BY DEF FinishOncePerStart, Active
    <2>1. owed[v] = IF Active(v) THEN 1 ELSE 0
        BY DEF UnitInv, FinishOncePerStart
    <2>2. CASE Crashed(v)
        BY <2>1, <2>2, NewUnits DEF Crashed
    <2>3. CASE Rewanted(v) \/ Stopped(v)
        BY <2>1, <2>3 DEF Rewanted, Stopped, UnitInit
    <2>4. CASE Same(v) \/ Started(v) \/ Readied(v) \/ Ticked(v)
        BY <2>1, <2>4 DEF Same, Started, Readied, Ticked, MustSpawn, Active, TypeOK, ServiceUnit
    <2> QED
        BY <1>1, <2>2, <2>3, <2>4 DEF UnitStep
<1>4. StatusHonest'
    <2> SUFFICES ASSUME NEW v \in Units
                 PROVE  (unit'[v].state \in {"running", "starting"} \/ status'[v] \in {"running", "starting"})
                           => status'[v] = unit'[v].state
        BY DEF StatusHonest, Active
    <2>1. (Active(v) \/ status[v] \in {"running", "starting"}) => status[v] = unit[v].state
        BY DEF UnitInv, StatusHonest
    <2>2. CASE Crashed(v)
        BY <2>1, <2>2, NewUnits DEF Crashed, UnitStateLabel, Labels
    <2>3. CASE Rewanted(v) \/ Stopped(v)
        BY <2>1, <2>3 DEF Rewanted, Stopped, UnitInit, Active
    <2>4. CASE Same(v) \/ Started(v) \/ Readied(v) \/ Ticked(v)
        BY <2>1, <2>4 DEF Same, Started, Readied, Ticked, Active, TypeOK, ServiceUnit
    <2> QED
        BY <1>1, <2>2, <2>3, <2>4 DEF UnitStep
<1>5. BackoffCapped'
    <2> SUFFICES ASSUME NEW v \in Units, MaxDelay[v] > 0
                 PROVE  unit'[v].due <= MaxDelay[v] /\ unit'[v].delay \in Delay[v] .. MaxDelay[v]
        BY DEF BackoffCapped
    <2>1. unit[v].due <= MaxDelay[v] /\ unit[v].delay \in Delay[v] .. MaxDelay[v]
        BY DEF UnitInv, BackoffCapped
    <2>2. /\ Delay[v] \in Nat /\ MaxDelay[v] \in Nat /\ Delay[v] <= MaxDelay[v]
          /\ unit[v].due \in Nat
        BY ServicesAssumption DEF TypeOK, ServiceUnit
    <2>3. CASE Crashed(v)
        <3>1. PICK ok \in BOOLEAN : unit'[v] = MarkUnitDead(v, ok)
            BY <2>3 DEF Crashed
        <3>2. /\ RestartDelay(v) \in Delay[v] .. MaxDelay[v]
              /\ EscalateDelay(RestartDelay(v), MaxDelay[v]) \in Delay[v] .. MaxDelay[v]
            BY <2>1, DelaysBounded
        <3>3. \/ /\ unit'[v].due = RestartDelay(v)
                 /\ unit'[v].delay = EscalateDelay(RestartDelay(v), MaxDelay[v])
              \/ unit'[v].due = 0 /\ unit'[v].delay = Delay[v]
            BY <3>1 DEF MarkUnitDead, UnitInit
        <3> QED
            BY <2>2, <3>2, <3>3
    <2>4. CASE Rewanted(v) \/ Stopped(v)
        BY <2>2, <2>4 DEF Rewanted, Stopped, UnitInit
    <2>5. CASE Ticked(v)
        BY <2>1, <2>2, <2>5 DEF Ticked, Down
    <2>6. CASE Same(v) \/ Started(v) \/ Readied(v)
        BY <2>1, <2>6 DEF Same, Started, Readied, TypeOK, ServiceUnit
    <2> QED
        BY <1>1, <2>3, <2>4, <2>5, <2>6 DEF UnitStep
<1> QED
    BY <1>3, <1>4, <1>5 DEF UnitInv
-----------------------------------------------------------------------------
(* Who owns which process *)

PidsDistinct ==
  \A u, v \in Units : (unit[u].pid = unit[v].pid /\ unit[u].pid # NoPid) => u = v

\* A group in which something runs has a leader entry and a unit.
GroupsFormed == \A p \in Pids : (Alive(p) \/ proc[p].leader # "none") =>
                   proc[p].leader # "none" /\ proc[p].unit \in Units

\* Nobody asks the unit to stop before the scanner shuts down.
LeftAlone(u) == Requests[u] \cap {"down", "restart"} = {}

\* A group in which something runs is the current one of its unit.  Only a stop()
\* hook can leave another one behind: after a request, or during the shutdown,
\* which still remembers it.
GroupsOwned ==
  \A p \in Pids : Alive(p) =>
     /\ proc[p].unit \notin StopHook => unit[proc[p].unit].pid = p
     /\ LeftAlone(proc[p].unit) =>
          \/ unit[proc[p].unit].pid = p
          \/ p \in groups /\ (Closing \/ pc = "failed")

ShutdownHolds ==
  Closing => \A u \in Units : unit[u].pid # NoPid => unit[u].pid \in groups

\* The scanner stops a unit because a client asked for it.
RequestsKnown ==
  /\ \A u \in Units : inbox[u] \in Requests[u] \cup {NoRequest}
  /\ (pc = "grace" /\ req # "shutdown") => req \in Requests[cur]

OwnInv ==
  NoExitLost /\ PidsDistinct /\ GroupsFormed /\ GroupsOwned /\ ShutdownHolds /\ RequestsKnown

\* Before the first start there is no process.
LEMMA InitOwned == Init => OwnInv
BY DEF Init, OwnInv, NoExitLost, PidsDistinct, GroupsFormed, GroupsOwned, ShutdownHolds, RequestsKnown,
       UnitInit, NoGroup, Alive, Closing

\* A step that leaves the processes alone and only clears pids that nobody has
\* keeps the ownership.
LEMMA OwnershipKept ==
  ASSUME TypeOK, PlaceInv, OwnInv, proc' = proc,
         \A v \in Units : unit'[v].pid = unit[v].pid,
         queue' = queue, pc' = "failed" \/ queue = {} \/ pc' = pc,
         Closing' => Closing /\ groups' = groups,
         (Closing /\ ~Closing') => pc' = "failed" /\ groups' = groups,
         pc = "failed" => pc' = "failed" /\ groups' = groups
  PROVE  (NoExitLost /\ PidsDistinct /\ GroupsFormed /\ GroupsOwned /\ ShutdownHolds)'
<1>1. NoExitLost'
    BY DEF OwnInv, NoExitLost
<1>2. PidsDistinct'
    BY DEF OwnInv, PidsDistinct
<1>3. GroupsFormed'
    BY DEF OwnInv, GroupsFormed, Alive
<1>4. GroupsOwned'
    BY DEF OwnInv, GroupsFormed, GroupsOwned, Alive
<1>5. ShutdownHolds'
    BY DEF OwnInv, ShutdownHolds
<1> QED
    BY <1>1, <1>2, <1>3, <1>4, <1>5

\* No group comes back to life or changes hands.
Pruned ==
  \A p \in Pids :
     /\ (proc'[p].leader = "live" \/ proc'[p].tail) => Alive(p) /\ proc'[p].leader # "none"
     /\ proc'[p].leader # "none" => proc[p].leader # "none" /\ proc'[p].unit = proc[p].unit

\* Groups that only lose processes stay well formed.
LEMMA PrunedFormed ==
  ASSUME GroupsFormed, Pruned
  PROVE  GroupsFormed'
BY DEF GroupsFormed, Pruned, Alive

\* What waiting for the zombies S and cleaning up the groups G leaves of a group.
LEMMA CleanedUp ==
  ASSUME TypeOK, GroupsFormed, NEW G \in SUBSET Pids, NEW S \in SUBSET Zombies,
         proc' = ShutdownProcessGroups(G, S)
  PROVE  /\ Pruned
         /\ \A p \in G : ~(proc'[p].leader = "live" \/ proc'[p].tail)
         /\ \A p \in Pids : p \notin G \cup S => proc'[p] = proc[p]
<1>1. \A p \in Pids : p \notin G \cup S => proc'[p] = proc[p]
    BY DEF ShutdownProcessGroups, Reap
<1>2. \A p \in G : proc'[p] = NoGroup
    BY DEF ShutdownProcessGroups
<1>3. ASSUME NEW p \in S, p \notin G
      PROVE  /\ proc'[p].leader \in {"none", "reaped"}
             /\ proc'[p].tail => proc[p].tail /\ proc'[p].leader = "reaped"
             /\ proc'[p].leader = "reaped" => proc'[p].unit = proc[p].unit
    <2>1. p \in Pids /\ proc[p] \in Group
        BY DEF Zombies, TypeOK
    <2>2. proc'[p] = IF proc[p].tail THEN [proc[p] EXCEPT !.leader = "reaped"] ELSE NoGroup
        BY <1>3, <2>1 DEF ShutdownProcessGroups, Reap
    <2> QED
        BY <2>1, <2>2 DEF Group, NoGroup
<1>4. ~NoGroup.tail /\ NoGroup.leader = "none"
    BY DEF NoGroup
<1>5. \A p \in S : p \in Pids /\ proc[p].leader = "zombie"
    BY DEF Zombies
<1>6. ASSUME NEW p \in Pids
      PROVE  /\ (proc'[p].leader = "live" \/ proc'[p].tail) => Alive(p) /\ proc'[p].leader # "none"
             /\ proc'[p].leader # "none" => proc[p].leader # "none" /\ proc'[p].unit = proc[p].unit
    <2>1. CASE p \in G
        BY <1>2, <1>4, <2>1
    <2>2. CASE p \in S /\ p \notin G
        BY <1>3, <1>5, <2>2 DEF Alive
    <2>3. CASE p \notin G \cup S
        BY <1>1, <2>3 DEF Alive, GroupsFormed
    <2> QED
        BY <2>1, <2>2, <2>3
<1> QED
    BY <1>1, <1>2, <1>4, <1>6 DEF Pruned

\* A process of its own accord only does what changes no owner.
LEMMA ProcessOwned ==
  ASSUME TypeOK, OwnInv, NEW p \in Pids, Exit(p) \/ Fork(p) \/ TailExit(p)
  PROVE  OwnInv'
<1>2. /\ \A q \in Pids : q # p => proc'[q] = proc[q]
      /\ UNCHANGED <<unit, inbox, pc, cur, req, queue, groups>>
    BY DEF Exit, Fork, TailExit, SetProc, TypeOK
<1>1. proc[p] \in Group
    BY DEF TypeOK
<1>3. /\ Exit(p) => proc'[p] = [proc[p] EXCEPT !.leader = "zombie"]
      /\ Fork(p) => proc'[p] = [proc[p] EXCEPT !.tail = TRUE]
      /\ TailExit(p) => proc'[p] = IF proc[p].leader = "reaped" THEN NoGroup ELSE [proc[p] EXCEPT !.tail = FALSE]
    BY DEF Exit, Fork, TailExit, SetProc, TypeOK
<1>4. /\ (proc'[p].leader = "live" \/ proc'[p].tail) => Alive(p) /\ proc'[p].leader # "none"
      /\ proc'[p].leader # "none" => proc[p].leader # "none" /\ proc'[p].unit = proc[p].unit
      /\ proc[p].leader \in {"live", "zombie"} => proc'[p].leader \in {"live", "zombie"}
    <2>1. CASE Exit(p)
        BY <1>1, <1>3, <2>1 DEF Exit, Group, Alive
    <2>2. CASE Fork(p)
        BY <1>1, <1>3, <2>2 DEF Fork, Group, Alive
    <2>3. CASE TailExit(p)
        <3>1. Alive(p) /\ proc[p].leader # "none"
            BY <2>3 DEF TailExit, Alive, OwnInv, GroupsFormed
        <3> QED
            BY <1>1, <1>3, <2>3, <3>1 DEF Group, Alive, NoGroup
    <2> QED
        BY <2>1, <2>2, <2>3
<1>5. Pruned
    BY <1>2, <1>4 DEF Pruned, OwnInv, GroupsFormed, Alive
<1>6. GroupsFormed'
    BY <1>5, PrunedFormed DEF OwnInv
<1>7. NoExitLost'
    BY <1>2, <1>4 DEF OwnInv, NoExitLost, TypeOK, ServiceUnit
<1>8. PidsDistinct' /\ ShutdownHolds' /\ RequestsKnown'
    BY <1>2 DEF OwnInv, PidsDistinct, ShutdownHolds, RequestsKnown, Closing
<1>9. GroupsOwned'
    BY <1>2, <1>5 DEF OwnInv, GroupsOwned, Pruned, Alive, Closing
<1> QED
    BY <1>6, <1>7, <1>8, <1>9 DEF OwnInv

\* Ownership is kept by every step.
LEMMA NextOwned ==
  ASSUME TypeOK, PlaceInv, OwnInv, Next
  PROVE  OwnInv'
<1> USE DEF Places
<1>1. ASSUME DrainInbox PROVE OwnInv'
    <2>1. \A v \in Units : unit'[v].pid = unit[v].pid
        BY <1>1 DEF DrainInbox
    <2>2. NoExitLost' /\ PidsDistinct' /\ GroupsFormed' /\ GroupsOwned' /\ ShutdownHolds'
        BY <1>1, <2>1, OwnershipKept DEF DrainInbox, PlaceInv, Closing
    <2>3. RequestsKnown'
        BY <1>1 DEF DrainInbox, OwnInv, RequestsKnown, TypeOK
    <2> QED
        BY <2>2, <2>3 DEF OwnInv
<1>2. ASSUME NEW u \in Units, ApplyOne(u) PROVE OwnInv'
    <2>1. \A v \in Units : unit'[v].pid = unit[v].pid
        BY <1>2 DEF ApplyOne, NeedsKill, UnitInit, TypeOK, PlaceInv
    <2>2. NoExitLost' /\ PidsDistinct' /\ GroupsFormed' /\ GroupsOwned' /\ ShutdownHolds'
        BY <1>2, <2>1, OwnershipKept DEF ApplyOne, PlaceInv, Closing, TypeOK, AllRequests, NoRequest
    <2>3. RequestsKnown'
        BY <1>2 DEF ApplyOne, OwnInv, RequestsKnown, TypeOK, NoRequest
    <2> QED
        BY <2>2, <2>3 DEF OwnInv
<1>3. ASSUME StopUnit PROVE OwnInv'
    <2>1. /\ unit'[cur].pid = NoPid
          /\ \A v \in Units : v # cur => unit'[v] = unit[v]
        BY <1>3 DEF StopUnit, TypeOK, UnitInit
    <2>2. /\ inbox' = inbox /\ groups' = groups /\ pc = "grace" /\ pc' \in {"shutdown", "remove"} /\ queue = {}
          /\ Closing <=> req = "shutdown"
          /\ Closing' <=> req = "shutdown"
        BY <1>3 DEF StopUnit, Closing, PlaceInv
    <2>3. /\ Pruned
          /\ \A p \in Pids : p # unit[cur].pid => proc'[p] = proc[p]
          /\ (cur \notin StopHook /\ unit[cur].pid # NoPid) =>
                ~(proc'[unit[cur].pid].leader = "live" \/ proc'[unit[cur].pid].tail)
        <3>1. CASE proc' = proc /\ (cur \in StopHook \/ unit[cur].pid = NoPid)
            BY <3>1 DEF Pruned, Alive, OwnInv, GroupsFormed
        <3>2. CASE proc' = KillGroup(unit[cur].pid) /\ unit[cur].pid # NoPid
            <4> DEFINE p == unit[cur].pid
            <4>1. p \in Pids /\ proc[p] \in Group
                BY <3>2 DEF TypeOK, ServiceUnit
            <4>2. \A q \in Pids : q # p => proc'[q] = proc[q]
                BY <3>2, <4>1 DEF KillGroup, TypeOK
            <4>3. /\ proc'[p].leader = IF proc[p].leader = "live" THEN "zombie" ELSE proc[p].leader
                  /\ proc'[p].tail = FALSE
                  /\ proc'[p].unit = proc[p].unit
                BY <3>2, <4>1 DEF KillGroup, TypeOK, Group
            <4> HIDE DEF p
            <4>4. Pruned
                BY <4>2, <4>3 DEF Pruned, Alive, OwnInv, GroupsFormed
            <4>5. ~(proc'[p].leader = "live" \/ proc'[p].tail)
                BY <4>3
            <4> QED
                BY <4>2, <4>4, <4>5 DEF p
        <3> QED
            BY <1>3, <3>1, <3>2 DEF StopUnit
    <2>4. NoExitLost'
        BY <2>1, <2>2, <2>3 DEF OwnInv, NoExitLost, PidsDistinct, TypeOK, ServiceUnit
    <2>5. PidsDistinct' /\ ShutdownHolds'
        BY <2>1, <2>2 DEF OwnInv, PidsDistinct, ShutdownHolds
    <2>6. RequestsKnown'
        BY <2>2 DEF OwnInv, RequestsKnown
    <2>7. GroupsFormed'
        BY <2>3, PrunedFormed DEF OwnInv
    <2>8. req # "shutdown" => ~LeftAlone(cur)
        BY <2>2 DEF OwnInv, RequestsKnown, PlaceInv, LeftAlone
    <2>9. ASSUME NEW p \in Pids, proc'[p].leader = "live" \/ proc'[p].tail
          PROVE  /\ proc'[p].unit \notin StopHook => unit'[proc'[p].unit].pid = p
                 /\ LeftAlone(proc'[p].unit) =>
                      \/ unit'[proc'[p].unit].pid = p
                      \/ p \in groups' /\ (Closing' \/ pc' = "failed")
        <3>1. Alive(p) /\ proc'[p].unit = proc[p].unit /\ proc[p].unit \in Units
            BY <2>3, <2>9 DEF Pruned, OwnInv, GroupsFormed
        <3>2. CASE proc[p].unit # cur
            BY <2>1, <2>2, <3>1, <3>2 DEF OwnInv, GroupsOwned
        <3>3. CASE proc[p].unit = cur
            <4>1. cur \in StopHook
                BY <2>3, <2>9, <3>1, <3>3, UnitsAssumption DEF OwnInv, GroupsOwned
            <4>2. ASSUME LeftAlone(cur) PROVE p \in groups /\ Closing
                BY <2>2, <2>8, <3>1, <3>3, <4>2, UnitsAssumption DEF OwnInv, GroupsOwned, ShutdownHolds
            <4> QED
                BY <2>2, <3>1, <3>3, <4>1, <4>2
        <3> QED
            BY <3>2, <3>3
    <2>10. GroupsOwned'
        BY <2>9 DEF GroupsOwned, Alive, LeftAlone
    <2> QED
        BY <2>4, <2>5, <2>6, <2>7, <2>10 DEF OwnInv
<1>4. ASSUME RemoveRequest PROVE OwnInv'
    <2>1. \A v \in Units : unit'[v].pid = unit[v].pid
        BY <1>4 DEF RemoveRequest
    <2>2. NoExitLost' /\ PidsDistinct' /\ GroupsFormed' /\ GroupsOwned' /\ ShutdownHolds'
        BY <1>4, <2>1, OwnershipKept DEF RemoveRequest, PlaceInv, Closing
    <2>3. RequestsKnown'
        BY <1>4 DEF RemoveRequest, OwnInv, RequestsKnown, TypeOK
    <2> QED
        BY <2>2, <2>3 DEF OwnInv
<1>5. ASSUME ReconcileAll PROVE OwnInv'
    <2>1. \A v \in Units : unit'[v].pid = unit[v].pid
        BY <1>5 DEF ReconcileAll
    <2>2. NoExitLost' /\ PidsDistinct' /\ GroupsFormed' /\ GroupsOwned' /\ ShutdownHolds'
        BY <1>5, <2>1, OwnershipKept DEF ReconcileAll, PlaceInv, Closing
    <2>3. RequestsKnown'
        BY <1>5 DEF ReconcileAll, OwnInv, RequestsKnown, TypeOK
    <2> QED
        BY <2>2, <2>3 DEF OwnInv
<1>6. ASSUME NEW u \in Units, ReconcileOne(u) PROVE OwnInv'
    <2>1. /\ UNCHANGED <<inbox, pc, cur, req, queue, groups>>
          /\ pc = "reconcile" /\ queue = {} /\ ~Closing /\ ~Closing'
        BY <1>6 DEF ReconcileOne, PlaceInv, Closing
    <2>2. RequestsKnown'
        BY <2>1 DEF OwnInv, RequestsKnown
    <2>3. CASE AdvanceReadiness(u) \/ RunOneshot(u) \/ LeaveAlone(u)
        <3>1. \A v \in Units : unit'[v].pid = unit[v].pid
            BY <2>3 DEF AdvanceReadiness, RunOneshot, LeaveAlone, TypeOK, ServiceUnit
        <3>2. proc' = proc
            BY <2>3 DEF AdvanceReadiness, RunOneshot, LeaveAlone
        <3> QED
            BY <2>1, <2>2, <3>1, <3>2, OwnershipKept DEF OwnInv
    <2>4. CASE SpawnLongrun(u)
        <3>1. PICK p \in Pids :
                 /\ proc[p].leader = "none"
                 /\ proc' = [proc EXCEPT ![p] = [leader |-> "live", unit |-> u, tail |-> FALSE]]
                 /\ \E state \in {"starting", "running"} :
                      unit' = [unit EXCEPT ![u] = [unit[u] EXCEPT !.state = state, !.pid = p, !.age = 0]]
            BY <2>4 DEF SpawnLongrun
        <3>2. unit[u].pid = NoPid
            BY <2>4 DEF SpawnLongrun, MustSpawn, SpawnDue
        <3>3. unit[u] \in ServiceUnit
            BY DEF TypeOK
        <3>4. unit'[u].pid = p /\ \A v \in Units : v # u => unit'[v] = unit[v]
            BY <3>1, <3>3 DEF TypeOK, ServiceUnit
        <3>5. /\ \A q \in Pids : q # p => proc'[q] = proc[q]
              /\ proc'[p].leader = "live" /\ proc'[p].unit = u
            BY <3>1 DEF TypeOK
        <3>6. ~Alive(p) /\ p # NoPid
            BY <3>1, UnitsAssumption DEF OwnInv, GroupsFormed
        <3>7. \A v \in Units : unit[v].pid # p
            BY <2>1, <3>1, <3>6 DEF OwnInv, NoExitLost
        <3>8. NoExitLost'
            BY <2>1, <3>4, <3>5, <3>7 DEF OwnInv, NoExitLost, TypeOK, ServiceUnit
        <3>9. PidsDistinct' /\ ShutdownHolds'
            BY <2>1, <3>4, <3>7 DEF OwnInv, PidsDistinct, ShutdownHolds
        <3>10. GroupsFormed'
            BY <3>5 DEF OwnInv, GroupsFormed, Alive
        <3>11. ASSUME NEW q \in Pids, proc'[q].leader = "live" \/ proc'[q].tail
               PROVE  /\ proc'[q].unit \notin StopHook => unit'[proc'[q].unit].pid = q
                      /\ LeftAlone(proc'[q].unit) => unit'[proc'[q].unit].pid = q
            <4>1. CASE q = p
                BY <3>4, <3>5, <4>1
            <4>2. CASE q # p
                <5>1. Alive(q) /\ proc'[q] = proc[q] /\ proc[q].unit \in Units /\ q # NoPid
                    BY <3>5, <3>11, <4>2, UnitsAssumption DEF Alive, OwnInv, GroupsFormed
                <5>2. /\ proc[q].unit \notin StopHook => unit[proc[q].unit].pid = q
                      /\ LeftAlone(proc[q].unit) => unit[proc[q].unit].pid = q
                    BY <2>1, <5>1 DEF OwnInv, GroupsOwned
                <5> QED
                    BY <3>2, <3>4, <5>1, <5>2
            <4> QED
                BY <4>1, <4>2
        <3>12. GroupsOwned'
            BY <3>11 DEF GroupsOwned, Alive, LeftAlone
        <3> QED
            BY <2>2, <3>8, <3>9, <3>10, <3>12 DEF OwnInv
    <2> QED
        BY <1>6, <2>3, <2>4 DEF ReconcileOne
<1>7. ASSUME EndPass PROVE OwnInv'
    <2>1. \A v \in Units : unit'[v].pid = unit[v].pid
        BY <1>7 DEF EndPass
    <2>2. NoExitLost' /\ PidsDistinct' /\ GroupsFormed' /\ GroupsOwned' /\ ShutdownHolds'
        BY <1>7, <2>1, OwnershipKept DEF EndPass, PlaceInv, Closing
    <2>3. RequestsKnown'
        BY <1>7 DEF EndPass, OwnInv, RequestsKnown, TypeOK
    <2> QED
        BY <2>2, <2>3 DEF OwnInv
<1>8. ASSUME WaitTimeout PROVE OwnInv'
    <2>1. \A v \in Units : unit'[v].pid = unit[v].pid
        BY <1>8 DEF WaitTimeout
    <2>2. NoExitLost' /\ PidsDistinct' /\ GroupsFormed' /\ GroupsOwned' /\ ShutdownHolds'
        BY <1>8, <2>1, OwnershipKept DEF WaitTimeout, PlaceInv, Closing
    <2>3. RequestsKnown'
        BY <1>8 DEF WaitTimeout, OwnInv, RequestsKnown, TypeOK
    <2> QED
        BY <2>2, <2>3 DEF OwnInv
<1>9. ASSUME WaitHup PROVE OwnInv'
    <2>1. \A v \in Units : unit'[v].pid = unit[v].pid
        BY <1>9 DEF WaitHup
    <2>2. NoExitLost' /\ PidsDistinct' /\ GroupsFormed' /\ GroupsOwned' /\ ShutdownHolds'
        BY <1>9, <2>1, OwnershipKept DEF WaitHup, PlaceInv, Closing
    <2>3. RequestsKnown'
        BY <1>9 DEF WaitHup, OwnInv, RequestsKnown, TypeOK
    <2> QED
        BY <2>2, <2>3 DEF OwnInv
<1>10. ASSUME WaitChildren PROVE OwnInv'
    <2>1. PICK S \in SUBSET Zombies : queue' = S /\ proc' = Reap(proc, S)
        BY <1>10 DEF WaitChildren
    <2>2. proc' = ShutdownProcessGroups({}, S)
        BY <2>1 DEF ShutdownProcessGroups, Reap
    <2>3. Pruned /\ \A p \in Pids : p \notin S => proc'[p] = proc[p]
        <3>1. {} \in SUBSET Pids
            OBVIOUS
        <3>2. Pruned /\ \A p \in Pids : p \notin {} \cup S => proc'[p] = proc[p]
            BY <2>2, <3>1, CleanedUp DEF OwnInv
        <3> QED
            BY <3>2
    <2>4. unit' = unit /\ inbox' = inbox /\ pc' = "reap" /\ queue = {} /\ ~Closing /\ ~Closing' /\ pc # "failed"
        BY <1>10 DEF WaitChildren, PlaceInv, Closing
    <2>5. NoExitLost'
        BY <2>1, <2>3, <2>4 DEF OwnInv, NoExitLost, TypeOK, ServiceUnit
    <2>6. PidsDistinct' /\ ShutdownHolds' /\ RequestsKnown'
        BY <2>4 DEF OwnInv, PidsDistinct, ShutdownHolds, RequestsKnown
    <2>7. GroupsFormed'
        BY <2>3, PrunedFormed DEF OwnInv
    <2>8. GroupsOwned'
        BY <2>3, <2>4 DEF OwnInv, GroupsOwned, Pruned, Alive
    <2> QED
        BY <2>5, <2>6, <2>7, <2>8 DEF OwnInv
<1>11. ASSUME NEW p \in Pids, ReconcileChildExit(p) PROVE OwnInv'
    <2>1. PICK u \in Units, S \in SUBSET Zombies, ok \in BOOLEAN :
                 /\ Tracks(u, p)
                 /\ proc' = ShutdownProcessGroups({p}, S)
                 /\ queue' = (queue \ {p}) \cup S
                 /\ unit' = [unit EXCEPT ![u] = MarkUnitDead(u, ok)]
        BY <1>11 DEF ReconcileChildExit, CrashedGroups, ExitsLeft
    <2>2. /\ Pruned
          /\ ~(proc'[p].leader = "live" \/ proc'[p].tail)
          /\ \A q \in Pids : q \notin {p} \cup S => proc'[q] = proc[q]
        BY <2>1, CleanedUp DEF OwnInv
    <2>3. /\ unit'[u].pid = NoPid /\ unit[u].pid = p /\ p # NoPid
          /\ \A v \in Units : v # u => unit'[v] = unit[v]
        BY <2>1, NewUnits, UnitsAssumption DEF Tracks, TypeOK
    <2>4. inbox' = inbox /\ pc' = "reap" /\ pc = "reap" /\ ~Closing /\ ~Closing'
        BY <1>11 DEF ReconcileChildExit, Closing
    <2>5. \A v \in Units : v # u => unit[v].pid # p
        BY <2>3 DEF OwnInv, PidsDistinct
    <2>6. NoExitLost'
        <3> SUFFICES ASSUME NEW v \in Units, unit'[v].pid # NoPid
                     PROVE  \/ proc'[unit'[v].pid].unit = v /\ proc'[unit'[v].pid].leader \in {"live", "zombie"}
                            \/ pc' \in {"reap", "failed"} /\ unit'[v].pid \in queue'
            BY DEF NoExitLost
        <3>1. v # u /\ unit'[v] = unit[v] /\ unit[v].pid # p
            BY <2>3, <2>5
        <3>2. unit[v].pid \in Pids
            BY <3>1 DEF TypeOK, ServiceUnit
        <3>3. \/ proc[unit[v].pid].unit = v /\ proc[unit[v].pid].leader \in {"live", "zombie"}
              \/ unit[v].pid \in queue
            BY <3>1 DEF OwnInv, NoExitLost
        <3>4. CASE unit[v].pid \in S \cup queue
            BY <2>1, <2>4, <3>1, <3>4
        <3>5. CASE unit[v].pid \notin S \cup queue
            BY <2>2, <3>1, <3>2, <3>3, <3>5
        <3> QED
            BY <3>4, <3>5
    <2>7. PidsDistinct' /\ ShutdownHolds' /\ RequestsKnown'
        BY <2>3, <2>4 DEF OwnInv, PidsDistinct, ShutdownHolds, RequestsKnown
    <2>8. GroupsFormed'
        BY <2>2, PrunedFormed DEF OwnInv
    <2>9. GroupsOwned'
        BY <2>2, <2>3, <2>4 DEF OwnInv, GroupsFormed, GroupsOwned, Pruned, Alive
    <2> QED
        BY <2>6, <2>7, <2>8, <2>9 DEF OwnInv
<1>12. ASSUME NEW p \in Pids, IgnoreChildExit(p) PROVE OwnInv'
    <2>1. \A u \in Units : unit[u].pid # p
        BY <1>12, UnitsAssumption DEF IgnoreChildExit, Tracks, PlaceInv
    <2>2. NoExitLost'
        BY <1>12, <2>1 DEF IgnoreChildExit, OwnInv, NoExitLost
    <2> QED
        BY <1>12, <2>2 DEF IgnoreChildExit, OwnInv, PidsDistinct, GroupsFormed, GroupsOwned, ShutdownHolds,
            RequestsKnown, Closing, Alive
<1>13. ASSUME ChildExitsDone PROVE OwnInv'
    <2>1. \A v \in Units : unit'[v].pid = unit[v].pid
        BY <1>13 DEF ChildExitsDone
    <2>2. NoExitLost' /\ PidsDistinct' /\ GroupsFormed' /\ GroupsOwned' /\ ShutdownHolds'
        BY <1>13, <2>1, OwnershipKept DEF ChildExitsDone, PlaceInv, Closing
    <2>3. RequestsKnown'
        BY <1>13 DEF ChildExitsDone, OwnInv, RequestsKnown, TypeOK
    <2> QED
        BY <2>2, <2>3 DEF OwnInv
<1>14. ASSUME WaitTerm PROVE OwnInv'
    <2>1. groups' = {unit[u].pid : u \in Units} \ {NoPid} /\ queue = {} /\ ~Closing
        BY <1>14 DEF WaitTerm, OwnedGroups, PlaceInv, Closing
    <2>2. NoExitLost' /\ PidsDistinct' /\ GroupsFormed' /\ RequestsKnown'
        BY <1>14, <2>1 DEF WaitTerm, OwnInv, NoExitLost, PidsDistinct, GroupsFormed, RequestsKnown, Alive
    <2>3. GroupsOwned'
        BY <1>14, <2>1 DEF WaitTerm, OwnInv, GroupsOwned, Alive
    <2>4. ShutdownHolds'
        BY <1>14, <2>1 DEF WaitTerm, ShutdownHolds
    <2> QED
        BY <2>2, <2>3, <2>4 DEF OwnInv
<1>15. ASSUME NEW u \in Units, ShutdownOne(u) PROVE OwnInv'
    <2>1. \A v \in Units : unit'[v].pid = unit[v].pid
        BY <1>15 DEF ShutdownOne, NeedsKill, UnitInit, TypeOK
    <2>2. NoExitLost' /\ PidsDistinct' /\ GroupsFormed' /\ GroupsOwned' /\ ShutdownHolds'
        BY <1>15, <2>1, OwnershipKept DEF ShutdownOne, PlaceInv, Closing
    <2>3. RequestsKnown'
        BY <1>15 DEF ShutdownOne, OwnInv, RequestsKnown, TypeOK
    <2> QED
        BY <2>2, <2>3 DEF OwnInv
<1>16. ASSUME CleanupGroups PROVE OwnInv'
    <2>1. PICK S \in SUBSET Zombies : proc' = ShutdownProcessGroups(groups, S)
        BY <1>16 DEF CleanupGroups
    <2>2. /\ Pruned
          /\ \A p \in groups : ~(proc'[p].leader = "live" \/ proc'[p].tail)
        BY <2>1, CleanedUp DEF OwnInv, TypeOK
    <2>3. \A u \in Units : unit[u].state = "stopped"
        BY <1>16, UnitsAssumption DEF CleanupGroups, PlaceInv, Closing, Units
    <2>4. \A u \in Units : unit[u].pid = NoPid
        BY <2>3 DEF PlaceInv, Active
    <2>5. unit' = unit /\ inbox' = inbox /\ pc' = "top" /\ ~Closing'
        BY <1>16 DEF CleanupGroups, Closing
    <2>6. NoExitLost' /\ PidsDistinct' /\ ShutdownHolds'
        BY <2>4, <2>5 DEF NoExitLost, PidsDistinct, ShutdownHolds
    <2>7. GroupsFormed'
        BY <2>2, PrunedFormed DEF OwnInv
    <2>8. GroupsOwned'
        BY <2>2, <2>4, <2>5, UnitsAssumption DEF OwnInv, GroupsOwned, GroupsFormed, Pruned, Alive, Closing
    <2>9. RequestsKnown'
        BY <2>5 DEF OwnInv, RequestsKnown
    <2> QED
        BY <2>6, <2>7, <2>8, <2>9 DEF OwnInv
<1>17. ASSUME Abort PROVE OwnInv'
    <2>1. \A v \in Units : unit'[v].pid = unit[v].pid
        BY <1>17 DEF Abort
    <2>2. NoExitLost' /\ PidsDistinct' /\ GroupsFormed' /\ GroupsOwned' /\ ShutdownHolds'
        BY <1>17, <2>1, OwnershipKept DEF Abort, PlaceInv, Closing
    <2>3. RequestsKnown'
        BY <1>17 DEF Abort, OwnInv, RequestsKnown, TypeOK
    <2> QED
        BY <2>2, <2>3 DEF OwnInv
<1>18. ASSUME NEW u \in Units, NEW r \in Requests[u], RequestDesired(u, r) PROVE OwnInv'
    <2>1. \A v \in Units : unit'[v].pid = unit[v].pid
        BY <1>18 DEF RequestDesired
    <2>2. NoExitLost' /\ PidsDistinct' /\ GroupsFormed' /\ GroupsOwned' /\ ShutdownHolds'
        BY <1>18, <2>1, OwnershipKept DEF RequestDesired, PlaceInv, Closing
    <2>3. RequestsKnown'
        BY <1>18 DEF RequestDesired, OwnInv, RequestsKnown, TypeOK
    <2> QED
        BY <2>2, <2>3 DEF OwnInv
<1>19. ASSUME NEW p \in Pids, Exit(p) PROVE OwnInv'
    BY <1>19, ProcessOwned
<1>20. ASSUME NEW p \in Pids, Fork(p) PROVE OwnInv'
    BY <1>20, ProcessOwned
<1>21. ASSUME NEW p \in Pids, TailExit(p) PROVE OwnInv'
    BY <1>21, ProcessOwned
<1>22. ASSUME SendTerm PROVE OwnInv'
    <2>1. \A v \in Units : unit'[v].pid = unit[v].pid
        BY <1>22 DEF SendTerm
    <2>2. NoExitLost' /\ PidsDistinct' /\ GroupsFormed' /\ GroupsOwned' /\ ShutdownHolds'
        BY <1>22, <2>1, OwnershipKept DEF SendTerm, PlaceInv, Closing
    <2>3. RequestsKnown'
        BY <1>22 DEF SendTerm, OwnInv, RequestsKnown, TypeOK
    <2> QED
        BY <2>2, <2>3 DEF OwnInv
<1>23. ASSUME Tick PROVE OwnInv'
    <2>1. \A v \in Units : unit'[v].pid = unit[v].pid
        BY <1>23 DEF Tick, TypeOK, ServiceUnit
    <2>2. NoExitLost' /\ PidsDistinct' /\ GroupsFormed' /\ GroupsOwned' /\ ShutdownHolds'
        BY <1>23, <2>1, OwnershipKept DEF Tick, PlaceInv, Closing
    <2>3. RequestsKnown'
        BY <1>23 DEF Tick, OwnInv, RequestsKnown, TypeOK
    <2> QED
        BY <2>2, <2>3 DEF OwnInv
<1>24. ASSUME Returned PROVE OwnInv'
    <2>1. \A v \in Units : unit'[v].pid = unit[v].pid
        BY <1>24 DEF Returned, vars
    <2>2. NoExitLost' /\ PidsDistinct' /\ GroupsFormed' /\ GroupsOwned' /\ ShutdownHolds'
        BY <1>24, <2>1, OwnershipKept DEF Returned, PlaceInv, Closing, vars
    <2>3. RequestsKnown'
        BY <1>24 DEF Returned, OwnInv, RequestsKnown, TypeOK, vars
    <2> QED
        BY <2>2, <2>3 DEF OwnInv
<1> QED
    BY <1>1, <1>2, <1>3, <1>4, <1>5, <1>6, <1>7, <1>8, <1>9, <1>10, <1>11, <1>12,
       <1>13, <1>14, <1>15, <1>16, <1>17, <1>18, <1>19, <1>20, <1>21, <1>22, <1>23, <1>24
       DEF Next, ScannerStep

-----------------------------------------------------------------------------
(* The snapshot of the pass and the deadline of the wait *)

\* A unit that was running when the pass began still is: nothing but the pass
\* itself changes units before the pass ends.
SnapInv == pc = "reconcile" => \A u \in Units : snap[u] = "running" => unit[u].state = "running"

TimeInv == SnapInv /\ WakesOnTime

\* scan_units starts neither in a pass nor asleep.
LEMMA InitTimed == Init => TimeInv
BY DEF Init, TimeInv, SnapInv, WakesOnTime

\* A step that is neither in a pass nor in a wait afterwards owes nothing; one
\* that leaves units, snapshot and timeout alone changes nothing.
LEMMA TimeKept ==
  ASSUME TimeInv, \/ pc' \notin {"reconcile", "wait"}
                  \/ pc' = pc /\ unit' = unit /\ snap' = snap /\ sleep' = sleep
  PROVE  TimeInv'
BY DEF TimeInv, SnapInv, WakesOnTime, UnitStates, GateSatisfied

\* The snapshot and the deadline hold after every step.
LEMMA NextTimed ==
  ASSUME TypeOK, PlaceInv, TimeInv, Next
  PROVE  TimeInv'
<1>1. ASSUME DrainInbox PROVE TimeInv'
    BY <1>1, TimeKept DEF DrainInbox
<1>2. ASSUME NEW u \in Units, ApplyOne(u) PROVE TimeInv'
    BY <1>2, TimeKept DEF ApplyOne
<1>3. ASSUME StopUnit PROVE TimeInv'
    BY <1>3, TimeKept DEF StopUnit
<1>4. ASSUME RemoveRequest PROVE TimeInv'
    BY <1>4, TimeKept DEF RemoveRequest
<1>5. ASSUME ReconcileAll PROVE TimeInv'
    BY <1>5 DEF ReconcileAll, TimeInv, SnapInv, WakesOnTime, UnitStates
<1>6. ASSUME NEW u \in Units, ReconcileOne(u) PROVE TimeInv'
    <2>1. pc = "reconcile" /\ pc' = "reconcile" /\ snap' = snap
        BY <1>6 DEF ReconcileOne
    <2>2. UnitStep(u) /\ \A v \in Units : v # u => unit'[v] = unit[v]
        BY <1>6, UnitSteps DEF ReconcileOne, AdvanceReadiness, SpawnLongrun, RunOneshot, LeaveAlone, TypeOK
    <2>3. unit[u].state = "running" => unit'[u].state = "running"
        BY <1>6 DEF ReconcileOne, AdvanceReadiness, SpawnLongrun, RunOneshot, LeaveAlone, MustSpawn, TypeOK, ServiceUnit
    <2> QED
        BY <2>1, <2>2, <2>3 DEF TimeInv, SnapInv, WakesOnTime
<1>7. ASSUME EndPass PROVE TimeInv'
    <2>1. CASE pc' = "done"
        BY <2>1, TimeKept
    <2>2. CASE pc' = "wait" /\ sleep' = NextWait
        <3>1. unit' = unit
            BY <1>7 DEF EndPass
        <3>2. ASSUME NEW u \in Units, unit[u].desired = "up",
                     \/ unit[u].state = "dead"
                     \/ unit[u].state = "pending" /\ GateSatisfied(UnitStates, u)
              PROVE  sleep' <= unit[u].due
            BY <2>2, <3>2, NextWaitBound DEF Startable, UnitBlocked
        <3>3. \A u \in Units : unit[u].state = "starting" => sleep' <= Poll
            BY <2>2, NextWaitBound
        <3>4. \A u \in Units : GateSatisfied(UnitStates, u)' <=> GateSatisfied(UnitStates, u)
            BY <3>1 DEF GateSatisfied, UnitStates
        <3>5. WakesOnTime'
            BY <3>1, <3>3, <3>2, <3>4 DEF WakesOnTime, Poll
        <3>6. SnapInv'
            BY <2>2 DEF SnapInv
        <3> QED
            BY <3>5, <3>6 DEF TimeInv
    <2> QED
        BY <1>7, <2>1, <2>2 DEF EndPass
<1>8. ASSUME WaitTimeout PROVE TimeInv'
    BY <1>8, TimeKept DEF WaitTimeout
<1>9. ASSUME WaitHup PROVE TimeInv'
    BY <1>9, TimeKept DEF WaitHup
<1>10. ASSUME WaitChildren PROVE TimeInv'
    BY <1>10, TimeKept DEF WaitChildren
<1>11. ASSUME NEW p \in Pids, ReconcileChildExit(p) PROVE TimeInv'
    BY <1>11, TimeKept DEF ReconcileChildExit
<1>12. ASSUME NEW p \in Pids, IgnoreChildExit(p) PROVE TimeInv'
    BY <1>12, TimeKept DEF IgnoreChildExit
<1>13. ASSUME ChildExitsDone PROVE TimeInv'
    BY <1>13, TimeKept DEF ChildExitsDone
<1>14. ASSUME WaitTerm PROVE TimeInv'
    BY <1>14, TimeKept DEF WaitTerm
<1>15. ASSUME NEW u \in Units, ShutdownOne(u) PROVE TimeInv'
    BY <1>15, TimeKept DEF ShutdownOne
<1>16. ASSUME CleanupGroups PROVE TimeInv'
    BY <1>16, TimeKept DEF CleanupGroups
<1>17. ASSUME Abort PROVE TimeInv'
    BY <1>17, TimeKept DEF Abort
<1>18. ASSUME NEW u \in Units, NEW r \in Requests[u], RequestDesired(u, r) PROVE TimeInv'
    BY <1>18, TimeKept DEF RequestDesired
<1>19. ASSUME NEW p \in Pids, Exit(p) PROVE TimeInv'
    BY <1>19, TimeKept DEF Exit, SetProc
<1>20. ASSUME NEW p \in Pids, Fork(p) PROVE TimeInv'
    BY <1>20, TimeKept DEF Fork, SetProc
<1>21. ASSUME NEW p \in Pids, TailExit(p) PROVE TimeInv'
    BY <1>21, TimeKept DEF TailExit, SetProc
<1>22. ASSUME SendTerm PROVE TimeInv'
    BY <1>22, TimeKept DEF SendTerm
<1>23. ASSUME Tick PROVE TimeInv'
    <2>1. CASE pc = "grace"
        BY <1>23, <2>1, TimeKept DEF Tick
    <2>2. CASE pc = "wait"
        <3>1. \A u \in Units : /\ unit'[u].state = unit[u].state
                               /\ unit'[u].desired = unit[u].desired
                               /\ unit'[u].due = Down(unit[u].due)
                               /\ unit[u].due \in Nat
            BY <1>23 DEF Tick, TypeOK, ServiceUnit
        <3>2. pc' = "wait" /\ sleep' = Down(sleep) /\ sleep \in Nat
            BY <1>23, <2>2 DEF Tick, TypeOK
        <3>3. UnitStates' = UnitStates
            BY <3>1 DEF UnitStates
        <3>4. \A u \in Units : GateSatisfied(UnitStates, u)' <=> GateSatisfied(UnitStates, u)
            BY <3>3 DEF GateSatisfied
        <3>5. \A m, n \in Nat : m <= n => Down(m) <= Down(n)
            BY DEF Down
        <3>6. sleep <= Poll => sleep' <= Poll
            BY <3>2 DEF Down, Poll
        <3>7. WakesOnTime'
            BY <2>2, <3>1, <3>2, <3>4, <3>5, <3>6 DEF TimeInv, WakesOnTime
        <3>8. SnapInv'
            BY <3>2 DEF SnapInv
        <3> QED
            BY <3>7, <3>8 DEF TimeInv
    <2> QED
        BY <1>23, <2>1, <2>2 DEF Tick
<1>24. ASSUME Returned PROVE TimeInv'
    BY <1>24, TimeKept DEF Returned, vars
<1> QED
    BY <1>1, <1>2, <1>3, <1>4, <1>5, <1>6, <1>7, <1>8, <1>9, <1>10, <1>11, <1>12,
       <1>13, <1>14, <1>15, <1>16, <1>17, <1>18, <1>19, <1>20, <1>21, <1>22, <1>23, <1>24
       DEF Next, ScannerStep

-----------------------------------------------------------------------------
(* Theorems *)

\* The inductive invariant.
Inv == TypeOK /\ PlaceInv /\ UnitInv /\ OwnInv /\ TimeInv

\* It holds at the start,
LEMMA InitInv == Init => Inv
BY InitTyped, InitPlaces, InitUnits, InitOwned, InitTimed DEF Inv

\* and every step keeps it.
LEMMA StepInv == Inv /\ [Next]_vars => Inv'
<1> SUFFICES ASSUME Inv, [Next]_vars PROVE Inv'
    OBVIOUS
<1>1. CASE Next
    BY <1>1, NextTyped, NextPlaces, NextUnits, NextOwned, NextTimed DEF Inv
<1>2. CASE UNCHANGED vars
    <2> USE <1>2 DEF vars
    <2>1. TypeOK'
        BY DEF Inv, TypeOK
    <2>2. PlaceInv'
        BY DEF Inv, PlaceInv, Closing, Active, AllUnitsStopped
    <2>3. UnitInv'
        BY DEF Inv, UnitInv, FinishOncePerStart, StatusHonest, BackoffCapped, Active
    <2>4. OwnInv'
        BY DEF Inv, OwnInv, NoExitLost, PidsDistinct, GroupsFormed, GroupsOwned, ShutdownHolds, RequestsKnown,
            Closing, Alive, LeftAlone
    <2>5. TimeInv'
        BY TimeKept DEF Inv
    <2> QED
        BY <2>1, <2>2, <2>3, <2>4, <2>5 DEF Inv
<1> QED
    BY <1>1, <1>2

\* The inductive invariant holds in every reachable state.
THEOREM Invariance == Spec => []Inv
<1> QED
    BY InitInv, StepInv, PTL DEF Spec

\* Every variable of the scanner keeps its type; in particular no countdown is
\* ever negative and the pass and the shutdown never run past the last unit.
THEOREM TypeCorrect == Spec => []TypeOK
<1>1. Inv => TypeOK
    BY DEF Inv
<1> QED
    BY <1>1, Invariance, PTL

\* The pid the scanner keeps for a unit is its own unreaped child, or one whose
\* exit is about to be reconciled (reconcile_child_exits): no exit is lost,
\* whichever children the cleanup of another unit's group reaps.
THEOREM ExitsNeverLost == Spec => []NoExitLost
<1>1. Inv => NoExitLost
    BY DEF Inv, OwnInv
<1> QED
    BY <1>1, Invariance, PTL

\* spawn_service never starts a service next to processes of its previous
\* instance, unless that one was left to its own stop() hook.
THEOREM InstancesExclusive == Spec => []OneInstance
<1>1. Inv => OneInstance
    BY DEF Inv, OwnInv, GroupsOwned, OneInstance
<1> QED
    BY <1>1, Invariance, PTL

\* finish() runs exactly once for each start (kill_unit and mark_unit_dead
\* exclude each other).
THEOREM FinishRunsOnce == Spec => []FinishOncePerStart
<1>1. Inv => FinishOncePerStart
    BY DEF Inv, UnitInv
<1> QED
    BY <1>1, Invariance, PTL

\* write_status never leaves a running service behind in the status JSON that
\* the scanner has given up, and never hides one that is up.
THEOREM StatusTrue == Spec => []StatusHonest
<1>1. Inv => StatusHonest
    BY DEF Inv, UnitInv
<1> QED
    BY <1>1, Invariance, PTL

\* escalate_delay and mark_unit_dead keep both the gate and the next delay
\* within max_delay_ms, for every delay and every cap.
THEOREM BackoffBounded == Spec => []BackoffCapped
<1>1. Inv => BackoffCapped
    BY DEF Inv, UnitInv
<1> QED
    BY <1>1, Invariance, PTL

\* next_wait_ms never lets the scanner sleep past a unit it could start.
THEOREM NeverOversleeps == Spec => []WakesOnTime
<1>1. Inv => WakesOnTime
    BY DEF Inv, TimeInv
<1> QED
    BY <1>1, Invariance, PTL

\* When the shutdown ends the loop, every unit is stopped and nothing runs on
\* but what a stop() hook was trusted with on a client's request.
THEOREM ExitsClean == Spec => []CleanExit
<1>1. ASSUME Inv PROVE CleanExit
    <2> SUFFICES ASSUME pc = "done"
                 PROVE  /\ AllUnitsStopped
                        /\ \A p \in Pids : Alive(p) =>
                             proc[p].unit \in StopHook /\ Requests[proc[p].unit] \cap {"down", "restart"} # {}
        BY DEF CleanExit
    <2>1. AllUnitsStopped
        BY <1>1 DEF Inv, PlaceInv
    <2>2. \A u \in Units : unit[u].pid = NoPid
        BY <1>1, <2>1 DEF Inv, PlaceInv, AllUnitsStopped, Active
    <2>3. ~Closing /\ pc # "failed"
        BY DEF Closing
    <2>4. \A p \in Pids : Alive(p) => proc[p].unit \in Units /\ p # NoPid
        BY <1>1, UnitsAssumption DEF Inv, OwnInv, GroupsFormed
    <2> QED
        BY <1>1, <2>1, <2>2, <2>3, <2>4 DEF Inv, OwnInv, GroupsOwned, LeftAlone
<1> QED
    BY <1>1, Invariance, PTL

\* reconcile_one starts a unit for the first time only while everything it
\* needs is running, although it looks at a snapshot of the pass.
THEOREM NeedsComeFirst == Spec => NeedsFirst
<1> DEFINE A == \A u \in Units :
                   (unit[u].state = "pending" /\ unit'[u].state \in {"starting", "running"}) =>
                      \A d \in Need[u] : unit[d].state = "running"
<1>1. ASSUME Inv, Next PROVE A
    <2> SUFFICES ASSUME NEW u \in Units, unit[u].state = "pending", unit'[u].state \in {"starting", "running"},
                        NEW d \in Need[u]
                 PROVE  unit[d].state = "running"
        OBVIOUS
    <2>1. UnitStep(u)
        BY <1>1, UnitSteps DEF Inv
    <2>2. ~(Same(u) \/ Rewanted(u) \/ Stopped(u) \/ Readied(u) \/ Crashed(u) \/ Ticked(u))
        BY DEF Same, Rewanted, Stopped, Readied, Crashed, Ticked, Active, UnitInit
    <2>3. pc = "reconcile" /\ MustSpawn(u)
        BY <2>1, <2>2 DEF UnitStep, Started
    <2>4. d \in Units /\ snap[d] = "running"
        BY <2>3, ServicesAssumption DEF MustSpawn, GateSatisfied
    <2> QED
        BY <1>1, <2>3, <2>4 DEF Inv, TimeInv, SnapInv
<1>2. Inv /\ [Next]_vars => [A]_vars
    BY <1>1
<1> QED
    BY <1>2, Invariance, PTL DEF Spec, NeedsFirst

\* shutdown_all stops a unit only after everything that needs it.
THEOREM DependentsGoFirst == Spec => DependentsStopFirst
<1> DEFINE A == (pc = "grace" /\ pc' = "shutdown") =>
                   \A v \in Units : cur \in Need[v] => unit[v].state = "stopped"
<1>1. ASSUME Inv, Next PROVE A
    <2> SUFFICES ASSUME pc = "grace", pc' = "shutdown", NEW v \in Units, cur \in Need[v]
                 PROVE  unit[v].state = "stopped"
        OBVIOUS
    <2>1. req = "shutdown"
        BY <1>1 DEF Next, ScannerStep, StopUnit, DrainInbox, ApplyOne, RemoveRequest, ReconcileAll, ReconcileOne,
            EndPass, WaitTimeout, WaitHup, WaitChildren, ReconcileChildExit, IgnoreChildExit, ChildExitsDone,
            WaitTerm, ShutdownOne, CleanupGroups, Abort, RequestDesired, Exit, Fork, TailExit, SetProc, SendTerm,
            Tick, Returned, vars, Ended
    <2>2. Closing /\ idx \in Units /\ cur = N + 1 - idx
        BY <1>1, <2>1 DEF Inv, PlaceInv, Closing
    <2>3. cur \in 1 .. (v - 1)
        BY ServicesAssumption
    <2>4. v > N + 1 - idx
        BY <2>2, <2>3, UnitsAssumption DEF Units
    <2> QED
        BY <1>1, <2>2, <2>4 DEF Inv, PlaceInv
<1>2. Inv /\ [Next]_vars => [A]_vars
    BY <1>1
<1> QED
    BY <1>2, Invariance, PTL DEF Spec, DependentsStopFirst

\* What scan_units keeps of every unit agrees with what it did for it.
THEOREM UnitsAreSound == Spec => []UnitsSound
    BY TypeCorrect, FinishRunsOnce, StatusTrue, BackoffBounded, NeverOversleeps, PTL DEF UnitsSound

\* The scanner loses no exit, doubles no instance and leaves nothing running.
THEOREM ProcessesAreOwned == Spec => []ProcessesOwned
    BY ExitsNeverLost, InstancesExclusive, ExitsClean, PTL DEF ProcessesOwned

\* First starts and the shutdown follow the dependencies.
THEOREM OrderIsKept == Spec => OrderKept
    BY NeedsComeFirst, DependentsGoFirst, PTL DEF OrderKept
=============================================================================
