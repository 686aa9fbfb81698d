------------------------------ MODULE Inittab ------------------------------
(***************************************************************************)
(* PID 1 on an inittab: run_pid1 of src/xinit/xinit.xsh.  Boot phases, the *)
(* launch and relaunch of entries, lifecycle signals and children that     *)
(* exit, and the way down.                                                 *)
(*                                                                         *)
(* Abstractions.                                                           *)
(*  - An entry is its action; terminals and command lines are left out.    *)
(*  - next_ms is the time that is left until it; time passes while PID 1   *)
(*    waits for an event, and a wait without a timeout ends with an event. *)
(*  - A process of the table is the leader of its group; it may be a       *)
(*    zombie.  Its descendants in the group are one more bit, tails; they   *)
(*    may outlive it, and a group's number is not given away before.       *)
(*  - A process may be stuck in the kernel (World) and survive a KILL; what *)
(*    shutdown_process_groups says about those is not looked at.           *)
(*  - A spawn and a synchronous command may fail (World): implicit         *)
(*    propagation then ends run_pid1.                                      *)
(***************************************************************************)
EXTENDS Integers, Sequences, FiniteSets

CONSTANTS
  Action,       \* the entries' actions, in the order of the file
  DelayMs,      \* flat delay between two launches
  LaunchLimit,  \* launches of a respawn entry, 0 for no limit
  MaxLaunches,  \* bound on the launches that are explored
  MaxStrays,    \* bound on adopted processes and groups with descendants at a time
  Pids,         \* process ids
  Signals,      \* lifecycle signals that may arrive
  Worlds        \* circumstances a behaviour may have, see World

Entries == 1 .. Len(Action)
Actions == {"sysinit", "wait", "once", "respawn", "poweroff", "restart", "shutdown"}
AllSignals == {"HUP", "TERM", "USR1", "USR2", "INT"}

\* Whether a spawn may fail, whether a synchronous command may fail, whether
\* processes may survive a KILL, and the test flag that lets an idle engine
\* return.
World == [spawnFails : BOOLEAN, phaseFails : BOOLEAN, stuck : BOOLEAN, exitWhenIdle : BOOLEAN]

ASSUME InittabAssumption ==
  /\ Action \in Seq(Actions)
  /\ DelayMs \in Nat /\ LaunchLimit \in Nat /\ MaxLaunches \in Nat /\ MaxStrays \in Nat
  /\ Pids \subseteq Nat \ {0}
  /\ Signals \subseteq AllSignals
  /\ Worlds \subseteq World

VARIABLES
  world,    \* the circumstances of this behaviour
  pc,       \* where run_pid1 is
  idx,      \* entry it looks at
  runtime,  \* what it knows of each entry: pid, launches, due
  event,    \* lifecycle event, or "none"
  queue,    \* children of the current event that are not marked yet
  proc,     \* process table: state and entry of each process
  tails,    \* groups in which descendants of the leader run
  sigs      \* signals that have arrived

vars == <<pc, idx, runtime, event, queue, proc, tails, sigs>>

NoPid == 0
NoProcess == [st |-> "none", entry |-> 0]
Dead == [pid |-> NoPid, launches |-> 0, due |-> 0]

Ended == {"exec", "returned", "failed", "off"}

EntrySpawns(e) == Action[e] \in {"once", "respawn", "poweroff"}
Spawning == {e \in Entries : EntrySpawns(e)}

UnusedPids == {p \in Pids : proc[p].st = "none" /\ p \notin tails}
Zombies == {p \in Pids : proc[p].st = "zombie"}

-----------------------------------------------------------------------------
(* run_phase: the commands of an action, one after another. *)

Phase(action, label, next) ==
  /\ pc = label
  /\ \/ /\ idx > Len(Action)
        /\ pc' = next /\ idx' = 1
     \/ /\ idx \in Entries
        /\ \/ idx' = idx + 1 /\ UNCHANGED pc
           \/ world.phaseFails /\ Action[idx] = action /\ pc' = "failed" /\ UNCHANGED idx
  /\ UNCHANGED <<runtime, event, queue, proc, tails, sigs>>

Sysinit == Phase("sysinit", "sysinit", "wait")
Wait == Phase("wait", "wait", "spawn")

-----------------------------------------------------------------------------
(* spawn_entries *)

\* Mutant: every entry is launched once.
LaunchedOnce(e) == runtime[e].launches < MaxLaunches /\ runtime[e].launches = 0

LaunchAllowed(e) ==
  /\ runtime[e].launches < MaxLaunches
  /\ IF Action[e] = "respawn" THEN LaunchLimit = 0 \/ runtime[e].launches < LaunchLimit
     ELSE runtime[e].launches = 0

SpawnDue(e) ==
  EntrySpawns(e) /\ runtime[e].pid = NoPid /\ runtime[e].due = 0 /\ LaunchAllowed(e)

Launch(e) ==
  /\ \E p \in UnusedPids :
       /\ proc' = [proc EXCEPT ![p] = [st |-> "live", entry |-> e]]
       /\ runtime' = [runtime EXCEPT
            ![e] = [pid |-> p, launches |-> @.launches + 1, due |-> DelayMs]]
  /\ idx' = idx + 1
  /\ UNCHANGED <<pc, event, queue, tails, sigs>>

SpawnFailed ==
  /\ world.spawnFails /\ pc' = "failed"
  /\ UNCHANGED <<idx, runtime, event, queue, proc, tails, sigs>>

SpawnEntry ==
  /\ pc = "spawn" /\ idx \in Entries
  /\ \/ SpawnDue(idx) /\ (Launch(idx) \/ SpawnFailed)
     \/ ~SpawnDue(idx) /\ idx' = idx + 1 /\ UNCHANGED <<pc, runtime, event, queue, proc, tails, sigs>>

ShouldExitIdle ==
  /\ world.exitWhenIdle
  /\ \A e \in Entries : Action[e] = "respawn" =>
       /\ runtime[e].pid = NoPid
       /\ LaunchLimit # 0 /\ runtime[e].launches >= LaunchLimit

SpawnDone ==
  /\ pc = "spawn" /\ idx > Len(Action)
  /\ pc' = IF ShouldExitIdle THEN "returned" ELSE "block"
  /\ idx' = 1
  /\ UNCHANGED <<runtime, event, queue, proc, tails, sigs>>

-----------------------------------------------------------------------------
(* wait_pid1_event, without a timeout: children first, then signals. *)

WaitChildren ==
  /\ pc = "block" /\ Zombies # {}
  /\ queue' = Zombies
  /\ proc' = [p \in Pids |-> IF p \in Zombies THEN NoProcess ELSE proc[p]]
  /\ pc' = "mark"
  /\ UNCHANGED <<idx, runtime, event, tails, sigs>>

EventOf(s) ==
  CASE s = "HUP" -> "restart"
    [] s = "USR1" -> "halt"
    [] s \in {"USR2", "INT"} -> "poweroff"
    [] s = "TERM" -> "reboot"

WaitSignal ==
  /\ pc = "block" /\ Zombies = {}
  /\ \E s \in sigs : event' = EventOf(s) /\ sigs' = sigs \ {s}
  /\ pc' = "down" /\ idx' = 1
  /\ UNCHANGED <<runtime, queue, proc, tails>>

\* Mutants: the pid of an exit is kept; the exit of a poweroff entry is like
\* any other.
MarkKept(p) ==
  /\ runtime' = runtime
  /\ event' = IF \E e \in Spawning : runtime[e].pid = p /\ Action[e] = "poweroff"
              THEN "poweroff" ELSE event

MarkQuietly(p) ==
  /\ runtime' = [e \in Entries |-> IF runtime[e].pid = p THEN [runtime[e] EXCEPT !.pid = NoPid]
                                   ELSE runtime[e]]
  /\ UNCHANGED event

\* mark_dead
MarkDead(p) ==
  /\ runtime' = [e \in Entries |-> IF runtime[e].pid = p THEN [runtime[e] EXCEPT !.pid = NoPid]
                                   ELSE runtime[e]]
  /\ event' = IF \E e \in Spawning : runtime[e].pid = p /\ Action[e] = "poweroff"
              THEN "poweroff" ELSE event

MarkChild ==
  /\ pc = "mark"
  /\ \E p \in queue :
       /\ \A q \in queue : p <= q
       /\ MarkDead(p) /\ queue' = queue \ {p}
  /\ UNCHANGED <<pc, idx, proc, tails, sigs>>

MarksDone ==
  /\ pc = "mark" /\ queue = {}
  /\ pc' = IF event = "none" THEN "spawn" ELSE "down"
  /\ idx' = 1
  /\ UNCHANGED <<runtime, event, queue, proc, tails, sigs>>

-----------------------------------------------------------------------------
(* The way down. *)

\* The groups that shutdown_runtime collects.
Stopped == {runtime[e].pid : e \in Spawning} \ {NoPid}

\* TERM and, after the grace, KILL to every group that an entry still names.
\* The descendants of a leader that was marked are in none of them, and what
\* remains of a group is not looked at.
ShutdownRuntime ==
  /\ pc = "down"
  /\ \E leaders \in SUBSET Stopped :
       /\ ~world.stuck => leaders = Stopped
       /\ proc' = [p \in Pids |-> IF p \in leaders THEN NoProcess ELSE proc[p]]
  /\ \E groups \in SUBSET Stopped :
       /\ ~world.stuck => groups = Stopped
       /\ tails' = tails \ groups
  /\ pc' = IF event = "restart" THEN "restart" ELSE "shutdown"
  /\ UNCHANGED <<idx, runtime, event, queue, sigs>>

\* exec of the first restart entry; without one, run_pid1 returns.
Restart ==
  /\ pc = "restart"
  /\ pc' = IF \E e \in Entries : Action[e] = "restart" THEN "exec" ELSE "returned"
  /\ UNCHANGED <<idx, runtime, event, queue, proc, tails, sigs>>

Shutdown == Phase("shutdown", "shutdown", "finalize")

\* Everything else is killed, and the kernel is called.
Finalize ==
  /\ pc = "finalize"
  /\ proc' = [p \in Pids |-> NoProcess] /\ tails' = {}
  /\ pc' = "off"
  /\ UNCHANGED <<idx, runtime, event, queue, sigs>>

-----------------------------------------------------------------------------
(* Processes, time and signals. *)

Exit(p) ==
  /\ pc \notin Ended /\ proc[p].st = "live"
  /\ proc' = [proc EXCEPT ![p].st = "zombie"]
  /\ UNCHANGED <<pc, idx, runtime, event, queue, tails, sigs>>

Strays == tails \cup {p \in Pids : proc[p].st # "none" /\ proc[p].entry = 0}

\* A leader starts something in its group.
Fork(p) ==
  /\ pc \notin Ended /\ proc[p].st = "live" /\ proc[p].entry # 0
  /\ p \notin tails /\ Cardinality(Strays) < MaxStrays
  /\ tails' = tails \cup {p}
  /\ UNCHANGED <<pc, idx, runtime, event, queue, proc, sigs>>

\* The last descendant ends.
TailExit(p) ==
  /\ pc \notin Ended /\ p \in tails
  /\ tails' = tails \ {p}
  /\ UNCHANGED <<pc, idx, runtime, event, queue, proc, sigs>>

\* A daemon that lost its parent becomes a child of PID 1.
Adopt(p) ==
  /\ pc = "block" /\ p \in UnusedPids
  /\ Cardinality(Strays) < MaxStrays
  /\ proc' = [proc EXCEPT ![p] = [st |-> "live", entry |-> 0]]
  /\ UNCHANGED <<pc, idx, runtime, event, queue, tails, sigs>>

Tick ==
  /\ pc = "block" /\ \E e \in Entries : runtime[e].due > 0
  /\ runtime' = [e \in Entries |-> [runtime[e] EXCEPT !.due = IF @ > 0 THEN @ - 1 ELSE 0]]
  /\ UNCHANGED <<pc, idx, event, queue, proc, tails, sigs>>

Signal(s) ==
  /\ pc \notin Ended /\ event = "none" /\ s \notin sigs
  /\ sigs' = sigs \cup {s}
  /\ UNCHANGED <<pc, idx, runtime, event, queue, proc, tails>>

Init ==
  /\ world \in Worlds
  /\ pc = "sysinit" /\ idx = 1
  /\ runtime = [e \in Entries |-> Dead]
  /\ event = "none" /\ queue = {} /\ sigs = {}
  /\ proc = [p \in Pids |-> NoProcess] /\ tails = {}

EngineStep ==
  \/ Sysinit \/ Wait \/ SpawnEntry \/ SpawnDone
  \/ WaitChildren \/ WaitSignal \/ MarkChild \/ MarksDone
  \/ ShutdownRuntime \/ Restart \/ Shutdown \/ Finalize

Gone == pc \in Ended /\ UNCHANGED vars

Next ==
  /\ \/ EngineStep \/ Tick \/ Gone
     \/ \E p \in Pids : Exit(p) \/ Fork(p) \/ TailExit(p) \/ Adopt(p)
     \/ \E s \in Signals : Signal(s)
  /\ UNCHANGED world

Spec == Init /\ [][Next]_<<vars, world>>

\* PID 1 goes on when it can, time passes while it waits, and children do not
\* exit one after another for ever.
FairSpec == Spec /\ WF_vars(EngineStep) /\ SF_vars(Tick) /\ SF_vars(WaitSignal)

-----------------------------------------------------------------------------
(* Properties. *)

\* Everything has its type.
TypeOK ==
  /\ pc \in {"sysinit", "wait", "spawn", "block", "mark", "down", "restart", "shutdown",
             "finalize"} \cup Ended
  /\ idx \in 1 .. Len(Action) + 1
  /\ runtime \in [Entries -> [pid : Pids \cup {NoPid}, launches : 0 .. MaxLaunches, due : 0 .. DelayMs]]
  /\ event \in {"none", "restart", "halt", "poweroff", "reboot"}
  /\ queue \subseteq Pids /\ tails \subseteq Pids /\ sigs \subseteq Signals
  /\ proc \in [Pids -> [st : {"none", "live", "zombie"}, entry : Entries \cup {0}]]

\* Every process PID 1 launched is the one its entry names, until it is marked:
\* no entry runs twice and no process is forgotten.
OneProcessEach ==
  \A p \in Pids : proc[p].st # "none" /\ proc[p].entry # 0 =>
     pc = "failed" \/ pc \in {"shutdown", "restart", "finalize"} \cup Ended
       \/ runtime[proc[p].entry].pid = p

\* A pid the engine remembers is its own child or an exit it has yet to mark:
\* what it signals on the way down is never somebody else's group.
PidsAreOurs ==
  pc \notin {"restart", "shutdown", "finalize"} \cup Ended =>
    \A e \in Spawning : runtime[e].pid # NoPid =>
      \/ proc[runtime[e].pid] \in {[st |-> s, entry |-> e] : s \in {"live", "zombie"}}
      \/ runtime[e].pid \in queue /\ proc[runtime[e].pid].st = "none"

\* Shutdown commands, the restart and the kernel call find no process that PID 1
\* launched, and no descendant of one that it still named.  (Excluded are the
\* processes that survive a KILL, of the groups that were signalled; descendants
\* whose leader was marked before may run on, see shutdown_runtime.)
DownClean ==
  pc \in {"restart", "shutdown", "finalize", "exec", "off"} => \A p \in Pids :
    /\ proc[p].st # "none" /\ proc[p].entry # 0 => world.stuck /\ p \in Stopped
    /\ p \in tails => world.stuck \/ p \notin Stopped

\* The exit of a poweroff entry, and every lifecycle signal, end the system.
EndsWhenAsked ==
  /\ \A s \in Signals : s \in sigs ~> pc \in Ended
  /\ \A e \in Entries : Action[e] = "poweroff" =>
       (runtime[e].launches > 0 /\ \A p \in Pids : proc[p] # [st |-> "live", entry |-> e])
         ~> pc \in Ended

\* What ends the system ends it in the power state that was asked for.  (A
\* shutdown command that fails is excluded: PID 1 ends with its error instead.)
PowersOff == ~world.phaseFails => (event \in {"halt", "poweroff", "reboot"} ~> pc = "off")

\* An entry that is due when PID 1 wakes up for an exit is launched again.  (One
\* whose delay ends later is not until the next event: the wait has no timeout.)
Respawns ==
  \A e \in Entries : Action[e] = "respawn" /\ LaunchLimit = 0 =>
    (pc = "mark" /\ queue = {} /\ runtime[e].pid = NoPid /\ runtime[e].due = 0)
      ~> (runtime[e].pid # NoPid \/ pc \in Ended \/ runtime[e].launches = MaxLaunches)

-----------------------------------------------------------------------------
(* What the runs check. *)

\* PID 1 and its processes agree: no entry runs twice, no process is forgotten,
\* none of somebody else's is signalled, and the way down finds none that could
\* be stopped.
ProcessesOwned == TypeOK /\ OneProcessEach /\ PidsAreOurs /\ DownClean

\* The system ends when it is asked to, in the way that was asked for.
EndsAsAsked == EndsWhenAsked /\ PowersOff
=============================================================================
