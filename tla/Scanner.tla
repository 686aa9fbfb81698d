------------------------------ MODULE Scanner ------------------------------
(***************************************************************************)
(* The xinit service scanner: the loop of `xinit scan` / `xinit supervise` *)
(* that drains the request inbox, reconciles every unit towards its        *)
(* desired state, sleeps until the soonest deadline, and handles signals   *)
(* and the exits of its children (src/xinit/xinit.xsh, scan_units).        *)
(*                                                                         *)
(* Four actors interleave: the scanner, command-line clients that write    *)
(* requests into the inbox, the service processes (a group is a leader and *)
(* perhaps descendants), and the clock.                                    *)
(*                                                                         *)
(* Abstractions.                                                           *)
(*  - Units are 1 .. N in the plan order that plan_service_start computes. *)
(*  - The monotonic clock is kept as a countdown per unit: due is          *)
(*    next_ms - now (never below 0), age is now - started_at, capped at    *)
(*    AgeCap.  Time passes only where the scanner blocks: in the wait for  *)
(*    an event and in the grace period of a stop.  One tick is the         *)
(*    readiness poll period.                                               *)
(*  - Inbox entries are applied in any order; the code sorts them by name. *)
(*  - A child's exit code is looked at only when the child is reaped, and  *)
(*    is chosen there.  ready, restarts and cgroup_path are reported and   *)
(*    never read back, so they are left out.                               *)
(*  - A request, hook, spawn or group cleanup that fails ends the scanner  *)
(*    (Abort).                                                             *)
(*  - No earlier scanner has left status files or processes; what a killed *)
(*    one leaves is the subject of Control.                                *)
(***************************************************************************)
EXTENDS Integers, FiniteSets

CONSTANTS
  N,             \* number of scanned units
  Pids, NoPid,   \* process ids; NoPid stands for the code's pid 0
  Need,          \* [Units -> SUBSET Units]: service.need
  Wants,         \* [Units -> SUBSET Units]: service.uses and service.after
  Oneshot,       \* units of kind oneshot or scripted
  Gradual,       \* longruns with readiness "notify" or a ready() hook
  StopHook,      \* units that export stop()
  Mode,          \* [Units -> Modes]: restart.mode
  Delay, MaxDelay, StableAfter, ReadyTimeout,  \* [Units -> Nat], in ticks
  AgeCap,        \* bound of the age counter
  Idle,          \* next_wait_ms when no unit has a deadline (3600000 ms)
  Requests,      \* [Units -> SUBSET AllRequests]: what clients ask of a unit
  Forking        \* units whose leader starts descendants

Units == 1 .. N
Modes == {"always", "on_failure", "never"}
AllRequests == {"up", "down", "restart", "reload"}
NoRequest == "none"
Poll == 1

ASSUME UnitsAssumption == N \in Nat \ {0} /\ NoPid \notin Pids

\* The plan order puts what a unit needs before the unit;
\* service_from_record accepts a delay cap of zero or of at least the delay.
ASSUME ServicesAssumption ==
  /\ Need \in [Units -> SUBSET Units] /\ Wants \in [Units -> SUBSET Units]
  /\ \A u \in Units : Need[u] \subseteq 1 .. (u - 1)
  /\ Oneshot \subseteq Units /\ Gradual \subseteq Units /\ StopHook \subseteq Units
  /\ Oneshot \cap Gradual = {}
  /\ Mode \in [Units -> Modes]
  /\ {Delay, MaxDelay, StableAfter, ReadyTimeout} \subseteq [Units -> Nat]
  /\ \A u \in Units : MaxDelay[u] = 0 \/ MaxDelay[u] >= Delay[u]
  /\ AgeCap \in Nat /\ \A u \in Units : StableAfter[u] <= AgeCap /\ ReadyTimeout[u] <= AgeCap
  /\ Idle \in Nat \ {0}
  /\ Requests \in [Units -> SUBSET AllRequests]
  /\ Forking \subseteq Units

VARIABLES
  unit,      \* the scanner's units: [Units -> ServiceUnit]
  status,    \* state field of each unit's status JSON
  inbox,     \* inbox/SERVICE: a request, or NoRequest where there is no file
  proc,      \* process groups: [Pids -> Group]
  pc,        \* where the scanner is in its loop
  todo,      \* inbox entries of the current drain still to apply
  cur, req,  \* the unit being acted on, and what for
  snap,      \* unit states at the start of the reconcile pass
  idx,       \* next unit of the reconcile pass or of the shutdown
  queue,     \* reaped children still to reconcile
  groups,    \* the groups owned when the shutdown began
  shutting,  \* shutting_down
  term,      \* a TERM or INT is pending
  sleep,     \* what is left of the wait timeout
  owed       \* ghost: starts of a unit minus finish() runs

vars == <<unit, status, inbox, proc, pc, todo, cur, req, snap, idx, queue,
          groups, shutting, term, sleep, owed>>

States == {"pending", "starting", "running", "dead", "stopped"}
Labels == {"down", "starting", "running", "dead"}
Places == {"top", "drain", "grace", "remove", "reconcile", "wait", "reap",
           "shutdown", "done", "failed"}
Ended == {"done", "failed"}

ServiceUnit == [desired : {"up", "down"}, state : States, pid : Pids \cup {NoPid},
                due : Nat, delay : Nat, age : Nat]
Group == [leader : {"none", "live", "zombie", "reaped"}, unit : Units \cup {0}, tail : BOOLEAN]

TypeOK ==
  /\ unit \in [Units -> ServiceUnit]
  /\ status \in [Units -> Labels]
  /\ inbox \in [Units -> AllRequests \cup {NoRequest}]
  /\ proc \in [Pids -> Group]
  /\ pc \in Places
  /\ todo \subseteq Units
  /\ cur \in Units
  /\ req \in {"down", "restart", "shutdown", "up", "reload", NoRequest}
  /\ snap \in [Units -> States]
  /\ idx \in 0 .. (N + 1)
  /\ queue \subseteq Pids
  /\ groups \subseteq Pids
  /\ shutting \in BOOLEAN /\ term \in BOOLEAN
  /\ sleep \in Nat
  /\ owed \in [Units -> Int]
-----------------------------------------------------------------------------
(* Units *)

Active(u) == unit[u].state \in {"running", "starting"}

\* unit_init, and every reset: stopped, restarted and requested-up units
\* differ from it only in desired and state.
UnitInit(u, desired, state) ==
  [desired |-> desired, state |-> state, pid |-> NoPid, due |-> 0, delay |-> Delay[u], age |-> 0]

UnitStateLabel(state) == IF state \in Labels THEN state ELSE "down"

\* Every place that calls write_status(unit_saved_status(...)).
WriteStatus(u, state) == status' = [status EXCEPT ![u] = UnitStateLabel(state)]

EscalateDelay(used, max) == IF max > 0 /\ used > max \div 2 THEN max ELSE used * 2

RestartDelay(u) == IF unit[u].age >= StableAfter[u] THEN Delay[u] ELSE unit[u].delay

\* Mutant: a needed unit may be stopped.
GateNeedsStopped(states, u) == \A d \in Need[u] \cup Wants[u] : states[d] \in {"running", "stopped"}
\* Mutant: a used unit must be running.
GateWantsRunning(states, u) == \A d \in Need[u] \cup Wants[u] : states[d] = "running"
GateSatisfied(states, u) ==
  /\ \A d \in Need[u] : states[d] = "running"
  /\ \A d \in Wants[u] : states[d] \in {"running", "stopped"}

\* snap outside of a reconcile pass: local variables are reset where they go
\* out of scope.
NoSnapshot == [u \in Units |-> "pending"]

UnitStates == [u \in Units |-> unit[u].state]

UnitBlocked(u) ==
  unit[u].desired = "up" /\ unit[u].state = "pending" /\ ~GateSatisfied(UnitStates, u)

SpawnDue(u) == unit[u].pid = NoPid /\ unit[u].due = 0

\* A unit that next_wait_ms counts with its deadline.
Startable(u) ==
  /\ unit[u].desired = "up"
  /\ unit[u].state = "dead" \/ (unit[u].state = "pending" /\ ~UnitBlocked(u))

AllUnitsStopped == \A u \in Units : unit[u].state = "stopped"

NextWait ==
  LET candidates == {unit[u].due : u \in {v \in Units : Startable(v)}}
                      \cup {Poll : u \in {v \in Units : unit[v].state = "starting"}}
  IN  IF candidates = {} THEN Idle ELSE CHOOSE c \in candidates : \A d \in candidates : c <= d
-----------------------------------------------------------------------------
(* Process groups: the kernel and the unix.* calls of the runtime *)

NoGroup == [leader |-> "none", unit |-> 0, tail |-> FALSE]

Alive(p) == proc[p].leader = "live" \/ proc[p].tail

Zombies == {p \in Pids : proc[p].leader = "zombie"}

\* The leaders in S are waited for.
Reap(groups0, S) ==
  [p \in Pids |-> IF p \notin S THEN groups0[p]
                  ELSE IF groups0[p].tail THEN [groups0[p] EXCEPT !.leader = "reaped"]
                  ELSE NoGroup]

\* shutdown_process_groups(G, ...): the groups in G are killed and reaped, and
\* so are the exited children S that the call happens to wait for.
ShutdownProcessGroups(G, S) == [p \in Pids |-> IF p \in G THEN NoGroup ELSE Reap(proc, S)[p]]

\* kill_process_group(p, "KILL"): nothing of the group runs on.
KillGroup(p) ==
  [proc EXCEPT ![p].leader = IF @ = "live" THEN "zombie" ELSE @, ![p].tail = FALSE]
-----------------------------------------------------------------------------
(* Clients, processes, the clock and the kernel's signals *)

\* request_desired: write_atomic replaces whatever request is in the file.
RequestDesired(u, r) ==
  /\ pc \notin Ended
  /\ inbox' = [inbox EXCEPT ![u] = r]
  /\ UNCHANGED <<unit, status, proc, pc, todo, cur, req, snap, idx, queue, groups,
                 shutting, term, sleep, owed>>

SetProc(new) ==
  /\ pc \notin Ended
  /\ proc' = new
  /\ UNCHANGED <<unit, status, inbox, pc, todo, cur, req, snap, idx, queue, groups,
                 shutting, term, sleep, owed>>

\* A leader exits, whatever it was asked; its descendants stay.
Exit(p) == proc[p].leader = "live" /\ SetProc([proc EXCEPT ![p].leader = "zombie"])

\* A leader starts a descendant in its own group.
Fork(p) ==
  /\ proc[p].leader = "live" /\ proc[p].unit \in Forking /\ ~proc[p].tail
  /\ SetProc([proc EXCEPT ![p].tail = TRUE])

\* The last descendant of a group exits.
TailExit(p) ==
  /\ proc[p].tail
  /\ SetProc([proc EXCEPT ![p] = IF @.leader = "reaped" THEN NoGroup ELSE [@ EXCEPT !.tail = FALSE]])

\* TERM or INT is sent to the scanner.
SendTerm ==
  /\ pc \notin Ended /\ ~term /\ ~shutting
  /\ term' = TRUE
  /\ UNCHANGED <<unit, status, inbox, proc, pc, todo, cur, req, snap, idx, queue,
                 groups, shutting, sleep, owed>>

\* A countdown stops at zero.
Down(n) == IF n > 0 THEN n - 1 ELSE 0

Tick ==
  /\ pc \in {"wait", "grace"}
  /\ sleep' = Down(sleep)
  /\ unit' = [u \in Units |-> [unit[u] EXCEPT !.due = Down(@),
                !.age = IF Active(u) /\ @ < AgeCap THEN @ + 1 ELSE @]]
  /\ UNCHANGED <<status, inbox, proc, pc, todo, cur, req, snap, idx, queue, groups,
                 shutting, term, owed>>
-----------------------------------------------------------------------------
(* The inbox *)

\* The top of the loop: list the inbox, unless the scanner is shutting down.
DrainInbox ==
  /\ pc = "top"
  /\ todo' = IF shutting THEN {} ELSE {u \in Units : inbox[u] # NoRequest}
  /\ pc' = "drain"
  /\ UNCHANGED <<unit, status, inbox, proc, cur, req, snap, idx, queue, groups,
                 shutting, term, sleep, owed>>

\* kill_unit does something, rather than return at once.
\* Mutant: units that never started, or whose crash was handled, are stopped too.
KillAlways(u) == TRUE
NeedsKill(u) == unit[u].pid # NoPid \/ Active(u)

\* read_text and apply_one, as far as the first blocking call.  A stop runs
\* on in StopUnit.
ApplyOne(u) ==
  /\ pc = "drain" /\ u \in todo
  /\ cur' = u /\ req' = inbox[u]
  /\ \/ /\ inbox[u] \in {"down", "restart"} /\ NeedsKill(u)
        /\ pc' = "grace"
        /\ UNCHANGED <<unit, status>>
     \/ /\ inbox[u] = "down" /\ ~NeedsKill(u)
        /\ unit' = [unit EXCEPT ![u] = UnitInit(u, "down", "stopped")]
        /\ pc' = "remove"
        /\ UNCHANGED status
     \/ /\ inbox[u] = "restart" /\ ~NeedsKill(u)
        /\ unit' = [unit EXCEPT ![u] = UnitInit(u, "up", "pending")]
        /\ WriteStatus(u, "pending")
        /\ pc' = "remove"
     \/ /\ inbox[u] = "up" /\ ~Active(u)
        /\ unit' = [unit EXCEPT ![u] = UnitInit(u, "up", "pending")]
        /\ pc' = "remove"
        /\ UNCHANGED status
     \/ /\ inbox[u] = "reload" \/ (inbox[u] = "up" /\ Active(u))
        /\ pc' = "remove"
        /\ UNCHANGED <<unit, status>>
  /\ UNCHANGED <<inbox, proc, todo, snap, idx, queue, groups, shutting, term, sleep, owed>>

\* The rest of kill_unit after the grace period (KILL, or a stop() hook
\* instead of both signals; then finish()), and the new unit.
StopUnit ==
  /\ pc = "grace"
  /\ proc' = IF cur \in StopHook \/ unit[cur].pid = NoPid THEN proc ELSE KillGroup(unit[cur].pid)
  /\ owed' = [owed EXCEPT ![cur] = @ - 1]
  /\ unit' = [unit EXCEPT ![cur] = IF req = "restart" THEN UnitInit(cur, "up", "pending")
                                   ELSE UnitInit(cur, "down", "stopped")]
  /\ WriteStatus(cur, "stopped")
  /\ pc' = IF req = "shutdown" THEN "shutdown" ELSE "remove"
  /\ idx' = IF req = "shutdown" THEN idx + 1 ELSE idx
  /\ IF req = "shutdown" THEN cur' = 1 /\ req' = NoRequest ELSE UNCHANGED <<cur, req>>
  /\ UNCHANGED <<inbox, todo, snap, queue, groups, shutting, term, sleep>>

\* entry.path.remove, whatever the file holds by now.
RemoveRequest ==
  /\ pc = "remove"
  /\ inbox' = [inbox EXCEPT ![cur] = NoRequest]
  /\ todo' = todo \ {cur}
  /\ pc' = "drain"
  /\ cur' = 1 /\ req' = NoRequest
  /\ UNCHANGED <<unit, status, proc, snap, idx, queue, groups, shutting, term, sleep, owed>>
-----------------------------------------------------------------------------
(* The reconcile pass *)

\* reconcile_all: every unit sees the states of the start of the pass.
ReconcileAll ==
  /\ pc = "drain" /\ todo = {}
  /\ snap' = UnitStates
  /\ idx' = 1
  /\ pc' = "reconcile"
  /\ UNCHANGED <<unit, status, inbox, proc, todo, cur, req, queue, groups, shutting,
                 term, sleep, owed>>

\* The guards of reconcile_one before its spawn.
MustSpawn(u) ==
  /\ unit[u].desired = "up"
  /\ \/ unit[u].state = "pending" /\ GateSatisfied(snap, u)
     \/ unit[u].state = "dead"
  /\ SpawnDue(u)

\* advance_readiness: a notify byte or a hook that answers true at any time,
\* or the timeout.
AdvanceReadiness(u) ==
  /\ unit[u].state = "starting"
  /\ \/ /\ unit' = [unit EXCEPT ![u].state = "running"]
        /\ WriteStatus(u, "running")
     \/ unit[u].age < ReadyTimeout[u] /\ UNCHANGED <<unit, status>>
  /\ UNCHANGED <<proc, owed>>

\* spawn_service of a longrun.  The kernel may hand out any id that neither
\* a process nor a process group still has.
SpawnLongrun(u) ==
  /\ MustSpawn(u) /\ u \notin Oneshot
  /\ \E p \in Pids :
       /\ proc[p].leader = "none"
       /\ proc' = [proc EXCEPT ![p] = [leader |-> "live", unit |-> u, tail |-> FALSE]]
       /\ LET state == IF u \in Gradual THEN "starting" ELSE "running" IN
            /\ unit' = [unit EXCEPT ![u] = [@ EXCEPT !.state = state, !.pid = p, !.age = 0]]
            /\ WriteStatus(u, state)
  /\ owed' = [owed EXCEPT ![u] = @ + 1]

\* spawn_service of a oneshot runs it to its end; its unit has no process.
RunOneshot(u) ==
  /\ MustSpawn(u) /\ u \in Oneshot
  /\ unit' = [unit EXCEPT ![u].state = "running", ![u].age = 0]
  /\ WriteStatus(u, "running")
  /\ owed' = [owed EXCEPT ![u] = @ + 1]
  /\ UNCHANGED proc

LeaveAlone(u) ==
  /\ unit[u].state # "starting" /\ ~MustSpawn(u)
  /\ UNCHANGED <<unit, status, proc, owed>>

ReconcileOne(u) ==
  /\ pc = "reconcile" /\ idx = u
  /\ AdvanceReadiness(u) \/ SpawnLongrun(u) \/ RunOneshot(u) \/ LeaveAlone(u)
  /\ idx' = idx + 1
  /\ UNCHANGED <<inbox, pc, todo, cur, req, snap, queue, groups, shutting, term, sleep>>

\* The end of the pass: return when shut down, else wait for an event.
EndPass ==
  /\ pc = "reconcile" /\ idx = N + 1
  /\ \/ shutting /\ AllUnitsStopped /\ pc' = "done" /\ UNCHANGED sleep
     \/ ~(shutting /\ AllUnitsStopped) /\ pc' = "wait" /\ sleep' = NextWait
  /\ snap' = NoSnapshot /\ idx' = 0
  /\ UNCHANGED <<unit, status, inbox, proc, todo, cur, req, queue, groups, shutting, term, owed>>
-----------------------------------------------------------------------------
(* Events *)

\* The wait times out.
WaitTimeout ==
  /\ pc = "wait" /\ sleep = 0
  /\ pc' = "top"
  /\ UNCHANGED <<unit, status, inbox, proc, todo, cur, req, snap, idx, queue, groups,
                 shutting, term, sleep, owed>>

\* A HUP that somebody sends ends the wait early.
WaitHup ==
  /\ pc = "wait"
  /\ pc' = "top"
  /\ sleep' = 0
  /\ UNCHANGED <<unit, status, inbox, proc, todo, cur, req, snap, idx, queue, groups,
                 shutting, term, owed>>

\* The wait reaps exited children and returns them.
WaitChildren ==
  /\ pc = "wait"
  /\ \E S \in SUBSET Zombies :
       /\ S # {}
       /\ queue' = S
       /\ proc' = Reap(proc, S)
  /\ pc' = "reap"
  /\ sleep' = 0
  /\ UNCHANGED <<unit, status, inbox, todo, cur, req, snap, idx, groups, shutting,
                 term, owed>>

\* mark_unit_dead: the restart policy, the backoff and its escalation.
MarkUnitDead(u, ok) ==
  IF Mode[u] = "always" \/ (Mode[u] = "on_failure" /\ ~ok)
  THEN [desired |-> "up", state |-> "dead", pid |-> NoPid, due |-> RestartDelay(u),
        delay |-> EscalateDelay(RestartDelay(u), MaxDelay[u]), age |-> 0]
  ELSE UnitInit(u, "down", "stopped")

Tracks(u, p) == unit[u].pid = p /\ Active(u)

\* The groups to clean up after the exit of a leader.
CrashedGroups(p) == {p}

\* The exits to reconcile after p's: those the cleanup reaped come last.
\* Mutant: the exits reaped by the cleanup are forgotten.
ExitsLeftUnqueued(p, S) == queue \ {p}
ExitsLeft(p, S) == (queue \ {p}) \cup S

\* One round of reconcile_child_exits for a unit's own child: clean its group
\* up, queue whatever else that reaped, run finish(), mark the unit.
ReconcileChildExit(p) ==
  /\ pc = "reap" /\ p \in queue
  /\ \E u \in Units, S \in SUBSET Zombies, ok \in BOOLEAN :
       /\ Tracks(u, p)
       /\ proc' = ShutdownProcessGroups(CrashedGroups(p), S)
       /\ queue' = ExitsLeft(p, S)
       /\ unit' = [unit EXCEPT ![u] = MarkUnitDead(u, ok)]
       /\ WriteStatus(u, MarkUnitDead(u, ok).state)
       /\ owed' = [owed EXCEPT ![u] = @ - 1]
  /\ UNCHANGED <<inbox, pc, todo, cur, req, snap, idx, groups, shutting, term, sleep>>

\* A child that is no unit's: one that was stopped before, or an adopted orphan.
IgnoreChildExit(p) ==
  /\ pc = "reap" /\ p \in queue
  /\ \A u \in Units : ~Tracks(u, p)
  /\ queue' = queue \ {p}
  /\ UNCHANGED <<unit, status, inbox, proc, pc, todo, cur, req, snap, idx, groups,
                 shutting, term, sleep, owed>>

ChildExitsDone ==
  /\ pc = "reap" /\ queue = {}
  /\ pc' = "top"
  /\ UNCHANGED <<unit, status, inbox, proc, todo, cur, req, snap, idx, queue, groups,
                 shutting, term, sleep, owed>>

OwnedGroups == {unit[u].pid : u \in Units} \ {NoPid}

\* TERM or INT: remember the owned groups and start stopping the units.
WaitTerm ==
  /\ pc = "wait" /\ term
  /\ groups' = OwnedGroups
  /\ idx' = 1
  /\ term' = FALSE
  /\ pc' = "shutdown"
  /\ sleep' = 0
  /\ UNCHANGED <<unit, status, inbox, proc, todo, cur, req, snap, queue, shutting, owed>>

\* The i-th unit of reverse_units.
ReverseUnits(i) == N + 1 - i

\* shutdown_all: stop_unit for one unit after the other, as far as its first
\* blocking call.
\* Mutant: a unit without a process is passed over.
ShutdownRunning(u) ==
  /\ pc = "shutdown" /\ idx \in Units /\ u = ReverseUnits(idx)
  /\ \/ /\ NeedsKill(u)
        /\ cur' = u /\ req' = "shutdown" /\ pc' = "grace"
        /\ UNCHANGED <<unit, status, idx>>
     \/ /\ ~NeedsKill(u)
        /\ idx' = idx + 1
        /\ UNCHANGED <<unit, status, cur, req, pc>>
  /\ UNCHANGED <<inbox, proc, todo, snap, queue, groups, shutting, term, sleep, owed>>
ShutdownOne(u) ==
  /\ pc = "shutdown" /\ idx \in Units /\ u = ReverseUnits(idx)
  /\ \/ /\ NeedsKill(u)
        /\ cur' = u /\ req' = "shutdown" /\ pc' = "grace"
        /\ UNCHANGED <<unit, status, idx>>
     \/ /\ ~NeedsKill(u)
        /\ unit' = [unit EXCEPT ![u] = UnitInit(u, "down", "stopped")]
        /\ WriteStatus(u, "stopped")
        /\ idx' = idx + 1
        /\ UNCHANGED <<cur, req, pc>>
  /\ UNCHANGED <<inbox, proc, todo, snap, queue, groups, shutting, term, sleep, owed>>

\* shutdown_process_groups(groups, ...) kills and reaps the remembered groups,
\* and perhaps other exited children.
CleanupGroups ==
  /\ pc = "shutdown" /\ idx = N + 1
  /\ \E S \in SUBSET Zombies : proc' = ShutdownProcessGroups(groups, S)
  /\ shutting' = TRUE
  /\ pc' = "top"
  /\ groups' = {} /\ idx' = 0
  /\ UNCHANGED <<unit, status, inbox, todo, cur, req, snap, queue, term, sleep, owed>>

\* A request that cannot be read or removed, a failed spawn or oneshot, a failed
\* hook or a group that survives its cleanup: the error leaves scan_units.
Abort ==
  /\ \/ (pc = "drain" /\ todo # {}) \/ pc = "remove"
     \/ pc = "reconcile" /\ idx \in Units /\ MustSpawn(idx)
     \/ pc = "grace"
     \/ pc = "reap" /\ \E u \in Units, p \in queue : Tracks(u, p)
     \/ pc = "shutdown" /\ idx = N + 1 /\ groups # {}
  /\ pc' = "failed"
  /\ UNCHANGED <<unit, status, inbox, proc, todo, cur, req, snap, idx, queue, groups,
                 shutting, term, sleep, owed>>
-----------------------------------------------------------------------------
Init ==
  /\ unit = [u \in Units |-> UnitInit(u, "up", "pending")]
  /\ status = [u \in Units |-> "down"]
  /\ inbox = [u \in Units |-> NoRequest]
  /\ proc = [p \in Pids |-> NoGroup]
  /\ pc = "top"
  /\ todo = {} /\ queue = {} /\ groups = {}
  /\ cur = 1 /\ req = NoRequest /\ idx = 0
  /\ snap = NoSnapshot
  /\ shutting = FALSE /\ term = FALSE
  /\ sleep = 0
  /\ owed = [u \in Units |-> 0]

ScannerStep ==
  \/ DrainInbox
  \/ \E u \in Units : ApplyOne(u)
  \/ StopUnit
  \/ RemoveRequest
  \/ ReconcileAll
  \/ \E u \in Units : ReconcileOne(u)
  \/ EndPass
  \/ WaitTimeout
  \/ WaitChildren
  \/ \E p \in Pids : ReconcileChildExit(p)
  \/ \E p \in Pids : IgnoreChildExit(p)
  \/ ChildExitsDone
  \/ WaitTerm
  \/ \E u \in Units : ShutdownOne(u)
  \/ CleanupGroups
  \/ Abort

\* The scanner has returned: nothing is left to happen.
Returned == pc \in Ended /\ UNCHANGED vars

Next ==
  \/ ScannerStep
  \/ \E u \in Units : \E r \in Requests[u] : RequestDesired(u, r)
  \/ \E p \in Pids : Exit(p) \/ Fork(p) \/ TailExit(p)
  \/ SendTerm
  \/ WaitHup
  \/ Tick
  \/ Returned

Spec == Init /\ [][Next]_vars

\* The scanner runs on; time passes whenever the scanner blocks; a pending
\* signal is the event that some later wait returns.
FairSpec == Spec /\ WF_vars(ScannerStep) /\ SF_vars(Tick) /\ SF_vars(WaitTerm)
-----------------------------------------------------------------------------
(* Properties *)

\* "Group cleanup can reap other units' children.  The scanner reconciles those
\* exits before starting replacements, so no sibling exit is lost"
\* (SUPERVISION.md): the pid of a unit is always that of its own running or
\* unreaped child, or of a child whose exit is about to be reconciled.  So the
\* scanner never signals a recycled pid.
NoExitLost ==
  \A u \in Units : unit[u].pid # NoPid =>
     \/ proc[unit[u].pid].unit = u /\ proc[unit[u].pid].leader \in {"live", "zombie"}
     \/ pc \in {"reap", "failed"} /\ unit[u].pid \in queue

\* A replacement is never started next to something of the previous instance:
\* "the scanner stops and reaps its remaining process group before finish()
\* and respawn" (INIT.md).  A stop() hook takes that over for its own unit.
OneInstance ==
  \A p, q \in Pids :
     (p # q /\ Alive(p) /\ Alive(q) /\ proc[p].unit = proc[q].unit) => proc[p].unit \in StopHook

\* finish() runs once for every start, before the next one, and never for a unit
\* that did not start or whose crash was already handled (INIT.md).
FinishOncePerStart ==
  \A u \in Units : owed[u] = IF Active(u) THEN 1 ELSE 0

\* What the status JSON says of a unit that is up, or that it says is up, is
\* true: no one is told of a running service the scanner has given up.
StatusHonest ==
  \A u \in Units : (Active(u) \/ status[u] \in {"running", "starting"}) => status[u] = unit[u].state

\* "The scanner sleeps ... until the soonest gate" (SUPERVISION.md): it is never
\* asleep past the deadline of a unit it could start, also of one that became
\* startable through the last start of the pass, nor past a readiness poll.
WakesOnTime ==
  pc = "wait" =>
     \A u \in Units :
        /\ (/\ unit[u].desired = "up"
            /\ \/ unit[u].state = "dead"
               \/ unit[u].state = "pending" /\ GateSatisfied(UnitStates, u)) => sleep <= unit[u].due
        /\ unit[u].state = "starting" => sleep <= Poll

\* Backoff: "doubles the delay on each further crash up to max_delay_ms"
\* (INIT.md); neither the gate nor the next delay ever exceeds the cap.
BackoffCapped ==
  \A u \in Units : MaxDelay[u] > 0 =>
     unit[u].due <= MaxDelay[u] /\ unit[u].delay \in Delay[u] .. MaxDelay[u]

\* "A need dependency must be running" for the first start (INIT.md), at the
\* moment of the start and not only in the snapshot of the pass.
NeedsFirst ==
  [][\A u \in Units :
        (unit[u].state = "pending" /\ unit'[u].state \in {"starting", "running"}) =>
           \A d \in Need[u] : unit[d].state = "running"]_vars

\* "Stops its units in reverse dependency order" (SUPERVISION.md): when the
\* shutdown stops a unit, nothing that needs it is still up.
DependentsStopFirst ==
  [][(pc = "grace" /\ pc' = "shutdown") =>
        \A v \in Units : cur \in Need[v] => unit[v].state = "stopped"]_vars

\* "Scanner shutdown reaps owned groups before returning" (INIT.md): nothing the
\* scanner started outlives it, except what a stop() hook was trusted with
\* on a request.
CleanExit ==
  pc = "done" =>
     /\ AllUnitsStopped
     /\ \A p \in Pids : Alive(p) =>
          proc[p].unit \in StopHook /\ Requests[proc[p].unit] \cap {"down", "restart"} # {}

\* A unit awaiting its respawn leaves that state.
Respawns == \A u \in Units : unit[u].state = "dead" ~> (unit[u].state # "dead" \/ pc = "failed")

\* What INIT.md says a first start waits for, whatever gate_satisfied does.
GateOpen(u) ==
  /\ \A d \in Need[u] : unit[d].state = "running"
  /\ \A d \in Wants[u] : unit[d].state \in {"running", "stopped"}

\* A unit whose gate is open starts, unless the gate closes first or the unit is
\* told to stop.
StartsOnceUnblocked ==
  \A u \in Units :
     (unit[u].state = "pending" /\ GateOpen(u))
     ~> (unit[u].state # "pending" \/ ~GateOpen(u) \/ pc = "failed")

\* TERM or INT ends the scanner.
ShutsDown == term ~> pc \in Ended

-----------------------------------------------------------------------------
(* What the runs check. *)

\* What the scanner keeps of its units agrees with what it did for them: hooks
\* paired with starts, the status others read, the backoff, the next deadline.
UnitsSound == TypeOK /\ FinishOncePerStart /\ StatusHonest /\ BackoffCapped /\ WakesOnTime

\* Processes and units belong together: no exit is lost, no instance doubled,
\* and nothing outlives the scanner.
ProcessesOwned == NoExitLost /\ OneInstance /\ CleanExit

\* Dependencies order the starts and the shutdown.
OrderKept == NeedsFirst /\ DependentsStopFirst

\* No unit waits for ever: a dead one respawns, one whose gate is open starts.
UnitsStart == Respawns /\ StartsOnceUnblocked
=============================================================================
