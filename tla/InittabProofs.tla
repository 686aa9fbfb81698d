--------------------------- MODULE InittabProofs ---------------------------
(***************************************************************************)
(* Proofs about xinit beside its scanner.  PID 1 never loses, doubles or   *)
(* confuses a process, for every inittab, every number of pids and every   *)
(* sequence of exits and signals.  Then its commands: one instance of a    *)
(* service, no signal to a process of something else, and no live          *)
(* process left by a finished stop, for every plan and number of commands. *)
(***************************************************************************)
EXTENDS Inittab, Control, FiniteSetTheorems, TLAPS

Late == {"restart", "shutdown", "finalize"} \cup Ended

\* Exits that are waiting to be marked are out of the process table, and there
\* are none outside of the marking: a pid is not used again before that.
QueueReaped ==
  /\ pc # "mark" => queue = {}
  /\ \A p \in queue : proc[p].st = "none"

\* Only entries that are spawned have processes.
ProcessesSpawned ==
  \A p \in Pids : proc[p].st # "none" /\ proc[p].entry # 0 => proc[p].entry \in Spawning

Owned == OneProcessEach /\ PidsAreOurs /\ DownClean /\ QueueReaped /\ ProcessesSpawned

-----------------------------------------------------------------------------
Pcs == {"sysinit", "wait", "spawn", "block", "mark", "down", "restart", "shutdown", "finalize"} \cup Ended
Runtimes == [pid : Pids \cup {NoPid}, launches : 0 .. MaxLaunches, due : 0 .. DelayMs]
Procs == [st : {"none", "live", "zombie"}, entry : Entries \cup {0}]

LEMMA LenIsNat == Len(Action) \in Nat /\ Entries = 1 .. Len(Action)
  BY InittabAssumption DEF Entries

LEMMA TypedUnchanged == TypeOK /\ UNCHANGED vars => TypeOK'
  BY DEF TypeOK, vars

\* A phase moves along the entries or ends.
LEMMA PhaseTyped ==
  ASSUME NEW action, NEW label, NEW next \in Pcs, TypeOK, Phase(action, label, next)
  PROVE  TypeOK'
<1>1. idx' \in 1 .. Len(Action) + 1
  BY LenIsNat DEF TypeOK, Phase, Entries
<1>2. pc' \in Pcs
  BY DEF TypeOK, Phase, Pcs, Ended
<1> QED  BY <1>1, <1>2 DEF TypeOK, Phase, Pcs

LEMMA LaunchTyped ==
  ASSUME TypeOK, NEW e \in Entries, idx = e, LaunchAllowed(e), Launch(e)
  PROVE  TypeOK'
<1>1. idx' \in 1 .. Len(Action) + 1
  BY LenIsNat DEF TypeOK, Launch, Entries
<1>2. PICK p \in UnusedPids :
        /\ proc' = [proc EXCEPT ![p] = [st |-> "live", entry |-> e]]
        /\ runtime' = [runtime EXCEPT ![e] = [pid |-> p, launches |-> runtime[e].launches + 1, due |-> DelayMs]]
  BY DEF Launch
<1> DEFINE x == [pid |-> p, launches |-> runtime[e].launches + 1, due |-> DelayMs]
           y == [st |-> "live", entry |-> e]
<1>3. runtime[e].launches + 1 \in 0 .. MaxLaunches
  BY InittabAssumption DEF TypeOK, LaunchAllowed
<1>4. x \in Runtimes
  BY <1>3, InittabAssumption DEF Runtimes, UnusedPids
<1>5. y \in Procs /\ p \in Pids
  BY DEF Procs, UnusedPids
<1>6. runtime' = [runtime EXCEPT ![e] = x] /\ proc' = [proc EXCEPT ![p] = y]
  BY <1>2
<1> HIDE DEF x, y
<1>7. runtime' \in [Entries -> Runtimes] /\ proc' \in [Pids -> Procs]
  BY <1>4, <1>5, <1>6 DEF TypeOK, Runtimes, Procs
<1> QED  BY <1>1, <1>7 DEF TypeOK, Launch, Runtimes, Procs

LEMMA MarkedTyped ==
  ASSUME TypeOK, MarkChild
  PROVE  TypeOK'
<1>1. PICK p \in queue : MarkDead(p) /\ queue' = queue \ {p}
  BY DEF MarkChild
<1>2. \A e \in Entries : [runtime[e] EXCEPT !.pid = NoPid] \in Runtimes
  BY DEF TypeOK, Runtimes
<1>3. runtime' \in [Entries -> Runtimes]
  BY <1>1, <1>2 DEF MarkDead, TypeOK, Runtimes
<1> QED  BY <1>1, <1>3 DEF MarkDead, MarkChild, TypeOK, Runtimes

LEMMA TickTyped ==
  ASSUME TypeOK, Tick
  PROVE  TypeOK'
<1>1. ASSUME NEW e \in Entries
      PROVE  [runtime[e] EXCEPT !.due = IF @ > 0 THEN @ - 1 ELSE 0] \in Runtimes
  <2> DEFINE d == IF runtime[e].due > 0 THEN runtime[e].due - 1 ELSE 0
  <2>1. runtime[e] \in Runtimes  BY DEF TypeOK, Runtimes
  <2>2. runtime[e].due \in 0 .. DelayMs  BY <2>1 DEF Runtimes
  <2>3. d \in 0 .. DelayMs  BY <2>2, InittabAssumption
  <2> HIDE DEF d
  <2>4. [runtime[e] EXCEPT !.due = d] \in Runtimes  BY <2>1, <2>3 DEF Runtimes
  <2> QED  BY <2>4 DEF d
<1>2. runtime' \in [Entries -> Runtimes]
  BY <1>1 DEF Tick
<1> QED  BY <1>2 DEF Tick, TypeOK, Runtimes

LEMMA TypeStep == TypeOK /\ [Next]_<<vars, world>> => TypeOK'
<1> SUFFICES ASSUME TypeOK, [Next]_<<vars, world>> PROVE TypeOK'
  OBVIOUS
<1> USE DEF Pcs, Ended
<1>1. CASE UNCHANGED vars
  BY <1>1, TypedUnchanged
<1>2. CASE Sysinit
  BY <1>2, PhaseTyped DEF Sysinit
<1>3. CASE Wait
  BY <1>3, PhaseTyped DEF Wait
<1>4. CASE Shutdown
  BY <1>4, PhaseTyped DEF Shutdown
<1>5. CASE SpawnEntry
  <2>1. CASE SpawnDue(idx) /\ Launch(idx)
    BY <1>5, <2>1, LaunchTyped DEF SpawnEntry, SpawnDue
  <2>2. CASE SpawnFailed
    BY <2>2 DEF SpawnFailed, TypeOK
  <2>3. CASE idx' = idx + 1 /\ UNCHANGED <<pc, runtime, event, queue, proc, tails, sigs>>
    <3>1. idx' \in 1 .. Len(Action) + 1
      BY <1>5, <2>3, LenIsNat DEF SpawnEntry, TypeOK
    <3> QED  BY <2>3, <3>1 DEF TypeOK
  <2> QED  BY <1>5, <2>1, <2>2, <2>3 DEF SpawnEntry
<1>6. CASE SpawnDone
  BY <1>6, LenIsNat DEF SpawnDone, TypeOK
<1>7. CASE WaitChildren
  BY <1>7 DEF WaitChildren, TypeOK, Zombies, NoProcess
<1>8. CASE WaitSignal
  BY <1>8, LenIsNat, InittabAssumption DEF WaitSignal, EventOf, AllSignals, TypeOK
<1>9. CASE MarkChild
  BY <1>9, MarkedTyped
<1>10. CASE MarksDone
  BY <1>10, LenIsNat DEF MarksDone, TypeOK
<1>11. CASE ShutdownRuntime
  BY <1>11 DEF ShutdownRuntime, TypeOK, NoProcess
<1>12. CASE Restart
  BY <1>12 DEF Restart, TypeOK
<1>13. CASE Finalize
  BY <1>13 DEF Finalize, TypeOK, NoProcess
<1>14. CASE Tick
  BY <1>14, TickTyped
<1>15. ASSUME NEW p \in Pids, Exit(p) PROVE TypeOK'
  BY <1>15 DEF Exit, TypeOK
<1>18. ASSUME NEW p \in Pids, Fork(p) \/ TailExit(p) PROVE TypeOK'
  BY <1>18 DEF Fork, TailExit, TypeOK
<1>16. ASSUME NEW p \in Pids, Adopt(p) PROVE TypeOK'
  BY <1>16 DEF Adopt, TypeOK
<1>17. ASSUME NEW s \in Signals, Signal(s) PROVE TypeOK'
  BY <1>17 DEF Signal, TypeOK
<1> QED
  BY <1>1, <1>2, <1>3, <1>4, <1>5, <1>6, <1>7, <1>8, <1>9, <1>10, <1>11, <1>12, <1>13, <1>14, <1>15,
     <1>16, <1>17, <1>18 DEF Next, EngineStep, Gone

-----------------------------------------------------------------------------
(* Who owns which process. *)

IInv == TypeOK /\ Owned

LEMMA InitIInv == Init => IInv
<1> SUFFICES ASSUME Init PROVE IInv
  OBVIOUS
<1>1. TypeOK
  BY InittabAssumption, LenIsNat DEF Init, TypeOK, Dead, NoPid, NoProcess
<1>2. Owned
  BY DEF Init, Owned, OneProcessEach, PidsAreOurs, DownClean, QueueReaped, ProcessesSpawned, Dead, NoProcess,
         Ended, NoPid, Spawning
<1> QED  BY <1>1, <1>2 DEF IInv

\* A step that moves the engine only: it does not come back from the way down,
\* and finds no owned process there.
LEMMA MovesOwned ==
  ASSUME IInv, UNCHANGED <<runtime, queue, proc, tails, world>>,
         pc' = "mark" \/ queue = {},
         pc \in Late => pc' \in Late,
         pc' \in {"restart", "shutdown", "finalize", "exec", "off"} =>
           pc \in {"restart", "shutdown", "finalize", "exec", "off"}
  PROVE  Owned'
<1> USE DEF IInv, Owned
<1>1. OneProcessEach'
  BY DEF OneProcessEach, Late, Ended
<1>2. PidsAreOurs'
  BY DEF PidsAreOurs, Late
<1>3. DownClean'
  BY DEF DownClean, Stopped
<1>4. QueueReaped' /\ ProcessesSpawned'
  BY DEF QueueReaped, ProcessesSpawned
<1> QED  BY <1>1, <1>2, <1>3, <1>4

\* A phase starts no process; the way down is entered by shutdown_runtime only.
LEMMA PhaseOwned ==
  ASSUME IInv, UNCHANGED world, NEW action, NEW label, NEW next,
         <<label, next>> \in {<<"sysinit", "wait">>, <<"wait", "spawn">>, <<"shutdown", "finalize">>},
         Phase(action, label, next)
  PROVE  Owned'
<1>1. queue = {}
  BY DEF IInv, Owned, QueueReaped, Phase
<1>2. pc = label /\ pc' \in {label, next, "failed"}
  BY DEF Phase
<1> QED  BY <1>1, <1>2, MovesOwned DEF Phase, Late, Ended

\* A launch takes a free pid for an entry that has none.
LEMMA LaunchOwned ==
  ASSUME IInv, UNCHANGED world, pc = "spawn", NEW e \in Entries, SpawnDue(e), Launch(e)
  PROVE  Owned'
<1> USE DEF IInv, Owned
<1>1. PICK p \in UnusedPids :
        /\ proc' = [proc EXCEPT ![p] = [st |-> "live", entry |-> e]]
        /\ runtime' = [runtime EXCEPT ![e] = [pid |-> p, launches |-> runtime[e].launches + 1, due |-> DelayMs]]
  BY DEF Launch
<1>2. queue = {} /\ UNCHANGED <<pc, queue>>
  BY DEF Launch, QueueReaped
<1>3. e \in Spawning /\ e # 0 /\ p # NoPid /\ p \in Pids /\ proc[p].st = "none"
  BY LenIsNat, InittabAssumption DEF SpawnDue, Spawning, NoPid, UnusedPids
<1>4. runtime'[e].pid = p /\ \A x \in Entries \ {e} : runtime'[x] = runtime[x]
  BY <1>1, <1>3 DEF TypeOK
<1>5. proc'[p] = [st |-> "live", entry |-> e] /\ \A q \in Pids \ {p} : proc'[q] = proc[q]
  BY <1>1, <1>3 DEF TypeOK
<1>6. OneProcessEach'
  <2> SUFFICES ASSUME NEW q \in Pids, proc'[q].st # "none", proc'[q].entry # 0
               PROVE  runtime'[proc'[q].entry].pid = q
    BY DEF OneProcessEach
  <2>1. CASE q = p
    BY <2>1, <1>4, <1>5
  <2>2. CASE q # p
    <3>1. runtime[proc[q].entry].pid = q /\ proc[q].entry \in Entries
      BY <2>2, <1>5 DEF OneProcessEach, ProcessesSpawned, Spawning, Ended
    <3>2. proc[q].entry # e
      BY <3>1, InittabAssumption DEF SpawnDue, NoPid
    <3> QED  BY <2>2, <3>1, <3>2, <1>4, <1>5
  <2> QED  BY <2>1, <2>2
<1>7. PidsAreOurs'
  <2> SUFFICES ASSUME NEW x \in Spawning, runtime'[x].pid # NoPid
               PROVE  proc'[runtime'[x].pid] \in {[st |-> s, entry |-> x] : s \in {"live", "zombie"}}
    BY DEF PidsAreOurs
  <2>1. CASE x = e
    BY <2>1, <1>4, <1>5
  <2>2. CASE x # e
    <3>1. x \in Entries /\ runtime'[x] = runtime[x]
      BY <2>2, <1>4 DEF Spawning
    <3>2. runtime[x].pid \in Pids
      BY <3>1 DEF TypeOK
    <3>3. proc[runtime[x].pid] \in {[st |-> s, entry |-> x] : s \in {"live", "zombie"}}
      BY <3>1, <1>2 DEF PidsAreOurs, Ended
    <3>4. runtime[x].pid # p
      BY <3>3, <1>3
    <3> QED  BY <3>1, <3>2, <3>3, <3>4, <1>5
  <2> QED  BY <2>1, <2>2
<1>8. DownClean' /\ QueueReaped' /\ ProcessesSpawned'
  BY <1>1, <1>2, <1>3, <1>5 DEF DownClean, QueueReaped, ProcessesSpawned
<1> QED  BY <1>6, <1>7, <1>8

\* Children are taken out of the process table and into the queue together.
LEMMA ChildrenOwned ==
  ASSUME IInv, UNCHANGED world, WaitChildren
  PROVE  Owned'
<1> USE DEF IInv, Owned, WaitChildren
<1>1. queue = {} /\ pc = "block" /\ pc' = "mark"
  BY DEF QueueReaped
<1>2. \A p \in Pids : proc'[p] = IF p \in Zombies THEN NoProcess ELSE proc[p]
  OBVIOUS
<1>3. Zombies \subseteq Pids
  BY DEF Zombies
<1>4. OneProcessEach'
  BY <1>1, <1>2 DEF OneProcessEach, NoProcess, Ended
<1>5. PidsAreOurs'
  <2> SUFFICES ASSUME NEW e \in Spawning, runtime[e].pid # NoPid
               PROVE  \/ proc'[runtime[e].pid] \in {[st |-> s, entry |-> e] : s \in {"live", "zombie"}}
                      \/ runtime[e].pid \in queue' /\ proc'[runtime[e].pid].st = "none"
    BY DEF PidsAreOurs
  <2>1. runtime[e].pid \in Pids
    BY DEF TypeOK, Spawning
  <2>2. proc[runtime[e].pid] \in {[st |-> s, entry |-> e] : s \in {"live", "zombie"}}
    BY <1>1 DEF PidsAreOurs, Ended
  <2> QED  BY <2>1, <2>2, <1>2 DEF NoProcess
<1>6. DownClean' /\ QueueReaped' /\ ProcessesSpawned'
  BY <1>1, <1>2, <1>3 DEF DownClean, QueueReaped, ProcessesSpawned, NoProcess
<1> QED  BY <1>4, <1>5, <1>6

\* mark_dead forgets the pid of an exit, which belongs to nobody by then.
LEMMA MarkOwned ==
  ASSUME IInv, UNCHANGED world, MarkChild
  PROVE  Owned'
<1> USE DEF IInv, Owned
<1>1. PICK p \in queue : MarkDead(p) /\ queue' = queue \ {p}
  BY DEF MarkChild
<1>2. p \in Pids /\ proc[p].st = "none" /\ pc = "mark" /\ UNCHANGED <<pc, proc>> /\ p # NoPid
  BY InittabAssumption DEF TypeOK, QueueReaped, MarkChild, NoPid
<1>3. \A e \in Entries : runtime'[e].pid = IF runtime[e].pid = p THEN NoPid ELSE runtime[e].pid
  BY <1>1 DEF MarkDead, TypeOK
<1>4. OneProcessEach'
  <2> SUFFICES ASSUME NEW q \in Pids, proc[q].st # "none", proc[q].entry # 0
               PROVE  runtime'[proc[q].entry].pid = q
    BY <1>2 DEF OneProcessEach
  <2>1. proc[q].entry \in Entries /\ runtime[proc[q].entry].pid = q
    BY <1>2 DEF OneProcessEach, ProcessesSpawned, Spawning, Ended
  <2>2. q # p
    BY <1>2
  <2> QED  BY <2>1, <2>2, <1>3
<1>5. PidsAreOurs'
  BY <1>1, <1>2, <1>3 DEF PidsAreOurs, Spawning, Ended
<1>6. DownClean' /\ QueueReaped' /\ ProcessesSpawned'
  BY <1>1, <1>2 DEF DownClean, QueueReaped, ProcessesSpawned, Ended
<1> QED  BY <1>4, <1>5, <1>6

\* shutdown_runtime stops the group of every entry, and no leader is in another.
LEMMA DownOwned ==
  ASSUME IInv, UNCHANGED world, ShutdownRuntime
  PROVE  Owned'
<1> USE DEF IInv, Owned, ShutdownRuntime
<1>1. queue = {} /\ pc' \in {"restart", "shutdown"}
  BY DEF QueueReaped
<1>2. ASSUME NEW p \in Pids, proc[p].st # "none", proc[p].entry # 0
      PROVE  p \in Stopped
  <2>1. runtime[proc[p].entry].pid = p /\ proc[p].entry \in Spawning
    BY <1>2 DEF OneProcessEach, ProcessesSpawned, Ended
  <2>2. p # NoPid
    BY InittabAssumption DEF NoPid
  <2> QED  BY <2>1, <2>2 DEF Stopped
<1>3. Stopped' = Stopped
  BY DEF Stopped
<1>4. PICK leaders \in SUBSET Stopped :
        /\ ~world.stuck => leaders = Stopped
        /\ proc' = [p \in Pids |-> IF p \in leaders THEN NoProcess ELSE proc[p]]
  OBVIOUS
<1>5. PICK groups \in SUBSET Stopped :
        /\ ~world.stuck => groups = Stopped
        /\ tails' = tails \ groups
  OBVIOUS
<1>6. ASSUME NEW p \in Pids, proc'[p].st # "none", proc'[p].entry # 0
      PROVE  world.stuck /\ p \in Stopped /\ proc[p].entry \in Spawning /\ proc'[p] = proc[p]
  <2>1. p \notin leaders /\ proc'[p] = proc[p]
    BY <1>4, <1>6 DEF NoProcess
  <2> QED  BY <2>1, <1>2, <1>4, <1>6 DEF ProcessesSpawned
<1>7. DownClean'
  BY <1>3, <1>5, <1>6 DEF DownClean
<1>8. ProcessesSpawned'
  BY <1>6 DEF ProcessesSpawned
<1> QED
  BY <1>1, <1>7, <1>8 DEF OneProcessEach, PidsAreOurs, QueueReaped, Ended

\* The kernel call follows when everybody has been killed.
LEMMA FinalizeOwned ==
  ASSUME IInv, UNCHANGED world, Finalize
  PROVE  Owned'
<1> USE DEF IInv, Owned, Finalize
<1>1. (\A p \in Pids : proc'[p].st = "none") /\ tails' = {}
  BY DEF NoProcess
<1>2. queue = {}
  BY DEF QueueReaped
<1> QED
  BY <1>1, <1>2 DEF OneProcessEach, PidsAreOurs, DownClean, QueueReaped, ProcessesSpawned, Ended

\* A process that exits keeps its entry until it is reaped.
LEMMA ExitOwned ==
  ASSUME IInv, UNCHANGED world, NEW p \in Pids, Exit(p)
  PROVE  Owned'
<1> USE DEF IInv, Owned, Exit
<1>1. proc[p] \in Procs /\ proc \in [Pids -> Procs]
  BY DEF TypeOK, Procs
<1>2. proc'[p] = [st |-> "zombie", entry |-> proc[p].entry] /\ \A q \in Pids \ {p} : proc'[q] = proc[q]
  BY <1>1 DEF Procs
<1>3. p \notin queue
  BY DEF QueueReaped
<1>4. OneProcessEach'
  BY <1>2 DEF OneProcessEach
<1>5. PidsAreOurs'
  <2> SUFFICES ASSUME pc \notin Late, NEW e \in Spawning, runtime[e].pid # NoPid
               PROVE  \/ proc'[runtime[e].pid] \in {[st |-> s, entry |-> e] : s \in {"live", "zombie"}}
                      \/ runtime[e].pid \in queue /\ proc'[runtime[e].pid].st = "none"
    BY DEF PidsAreOurs, Late
  <2>1. runtime[e].pid \in Pids
    BY DEF TypeOK, Spawning
  <2>2. \/ proc[runtime[e].pid] \in {[st |-> s, entry |-> e] : s \in {"live", "zombie"}}
        \/ runtime[e].pid \in queue /\ proc[runtime[e].pid].st = "none"
    BY DEF PidsAreOurs, Late
  <2>3. CASE runtime[e].pid = p
    BY <2>2, <2>3, <1>2, <1>3
  <2>4. CASE runtime[e].pid # p
    BY <2>1, <2>2, <2>4, <1>2
  <2> QED  BY <2>3, <2>4
<1>6. DownClean'
  BY <1>2 DEF DownClean, Stopped
<1>7. QueueReaped' /\ ProcessesSpawned'
  BY <1>2, <1>3 DEF QueueReaped, ProcessesSpawned, TypeOK
<1> QED  BY <1>4, <1>5, <1>6, <1>7

\* Descendants come only where the leader is there, and change no leader.
LEMMA TailsOwned ==
  ASSUME IInv, UNCHANGED world, NEW p \in Pids, Fork(p) \/ TailExit(p)
  PROVE  Owned'
<1> USE DEF IInv, Owned, Fork, TailExit
<1>1. OneProcessEach' /\ PidsAreOurs' /\ QueueReaped' /\ ProcessesSpawned'
  BY DEF OneProcessEach, PidsAreOurs, QueueReaped, ProcessesSpawned
<1>2. DownClean'
  BY DEF DownClean, Stopped
<1> QED  BY <1>1, <1>2

\* An adopted process takes a pid that no entry names.
LEMMA AdoptOwned ==
  ASSUME IInv, UNCHANGED world, NEW p \in Pids, Adopt(p)
  PROVE  Owned'
<1> USE DEF IInv, Owned, Adopt
<1>1. queue = {} /\ proc[p].st = "none"
  BY DEF QueueReaped, UnusedPids
<1>2. proc'[p] = [st |-> "live", entry |-> 0] /\ \A q \in Pids \ {p} : proc'[q] = proc[q]
  BY DEF TypeOK
<1>3. OneProcessEach'
  BY <1>2 DEF OneProcessEach
<1>4. PidsAreOurs'
  <2> SUFFICES ASSUME NEW e \in Spawning, runtime[e].pid # NoPid
               PROVE  proc'[runtime[e].pid] \in {[st |-> s, entry |-> e] : s \in {"live", "zombie"}}
    BY DEF PidsAreOurs
  <2>1. runtime[e].pid \in Pids
    BY DEF TypeOK, Spawning
  <2>2. proc[runtime[e].pid] \in {[st |-> s, entry |-> e] : s \in {"live", "zombie"}}
    BY <1>1 DEF PidsAreOurs, Ended
  <2>3. runtime[e].pid # p
    BY <2>2, <1>1
  <2> QED  BY <2>1, <2>2, <2>3, <1>2
<1>5. DownClean' /\ QueueReaped' /\ ProcessesSpawned'
  BY <1>1, <1>2 DEF DownClean, QueueReaped, ProcessesSpawned
<1> QED  BY <1>3, <1>4, <1>5

\* Time changes no pid.
LEMMA TickOwned ==
  ASSUME IInv, UNCHANGED world, Tick
  PROVE  Owned'
<1>1. \A e \in Entries : runtime'[e].pid = runtime[e].pid
  BY DEF Tick, IInv, TypeOK
<1> QED
  BY <1>1 DEF Tick, IInv, Owned, OneProcessEach, PidsAreOurs, DownClean, QueueReaped, ProcessesSpawned, Spawning, Ended

LEMMA OwnedStep == IInv /\ [Next]_<<vars, world>> => Owned'
<1> SUFFICES ASSUME IInv, [Next]_<<vars, world>> PROVE Owned'
  OBVIOUS
<1>0. (pc # "mark" => queue = {}) /\ UNCHANGED world
  BY DEF IInv, Owned, QueueReaped, Next
<1>1. CASE UNCHANGED vars
  BY <1>0, <1>1, MovesOwned DEF vars
<1>2. CASE Sysinit
  BY <1>0, <1>2, PhaseOwned DEF Sysinit
<1>3. CASE Wait
  BY <1>0, <1>3, PhaseOwned DEF Wait
<1>4. CASE Shutdown
  BY <1>0, <1>4, PhaseOwned DEF Shutdown
<1>5. CASE SpawnEntry
  <2>1. CASE SpawnDue(idx) /\ Launch(idx)
    BY <1>0, <1>5, <2>1, LaunchOwned DEF SpawnEntry
  <2>2. CASE SpawnFailed \/ UNCHANGED <<pc, runtime, event, queue, proc, tails, sigs>>
    BY <1>0, <1>5, <2>2, MovesOwned DEF SpawnEntry, SpawnFailed, Late, Ended
  <2> QED  BY <1>5, <2>1, <2>2 DEF SpawnEntry
<1>6. CASE SpawnDone \/ MarksDone
  BY <1>0, <1>6, MovesOwned DEF SpawnDone, MarksDone, Late, Ended
<1>7. CASE WaitChildren
  BY <1>0, <1>7, ChildrenOwned
<1>8. CASE WaitSignal
  BY <1>0, <1>8, MovesOwned DEF WaitSignal, Late, Ended
<1>9. CASE MarkChild
  BY <1>0, <1>9, MarkOwned
<1>11. CASE ShutdownRuntime
  BY <1>0, <1>11, DownOwned
<1>12. CASE Restart
  BY <1>0, <1>12, MovesOwned DEF Restart, Late, Ended
<1>13. CASE Finalize
  BY <1>0, <1>13, FinalizeOwned
<1>14. CASE Tick
  BY <1>0, <1>14, TickOwned
<1>15. ASSUME NEW p \in Pids, Exit(p) \/ Fork(p) \/ TailExit(p) \/ Adopt(p) PROVE Owned'
  BY <1>0, <1>15, ExitOwned, TailsOwned, AdoptOwned
<1>16. ASSUME NEW s \in Signals, Signal(s) PROVE Owned'
  BY <1>0, <1>16, MovesOwned DEF Signal
<1> QED
  BY <1>1, <1>2, <1>3, <1>4, <1>5, <1>6, <1>7, <1>8, <1>9, <1>11, <1>12, <1>13, <1>14, <1>15, <1>16
  DEF Next, EngineStep, Gone, vars

-----------------------------------------------------------------------------
\* Type correctness and the ownership of processes, for every inittab.
THEOREM Invariant == Spec => []IInv
<1>1. IInv /\ [Next]_<<vars, world>> => IInv'
  BY TypeStep, OwnedStep DEF IInv
<1> QED  BY <1>1, InitIInv, PTL DEF Spec

\* run_pid1's variables keep their types.
THEOREM TypeCorrect == Spec => []TypeOK
  BY Invariant, PTL DEF IInv

\* No inittab entry runs twice and no launched process is forgotten.
THEOREM OneProcess == Spec => []OneProcessEach
  BY Invariant, PTL DEF IInv, Owned

\* What shutdown_runtime signals is a child of PID 1's own.
THEOREM SignalsOwn == Spec => []PidsAreOurs
  BY Invariant, PTL DEF IInv, Owned

\* Shutdown commands, the restart entry and the kernel call come after the last
\* process that could be stopped, and after the groups that entries still name.
THEOREM DownIsClean == Spec => []DownClean
  BY Invariant, PTL DEF IInv, Owned

\* PID 1 and its processes agree, whatever exits, fails or is signalled.
THEOREM ProcessesAreOwned == Spec => []ProcessesOwned
  BY TypeCorrect, OneProcess, SignalsOwn, DownIsClean, PTL DEF ProcessesOwned


-----------------------------------------------------------------------------
(* xinit's commands.  The invariant: types. *)

Labels == {"idle", "check", "post", "recheck", "stop", "read", "term", "kill", "down", "next", "spawn", "write"}
Verbs == {"start", "stop", "restart", "boot"}
Statuses == [state : {"down", "starting", "running", "dead"}, pid : PidSpace \cup {Unset}, start : 0 .. MaxBorn]
Processes ==
  [kind : {"none", "service", "scanner", "stranger"}, svc : Services \cup {0}, born : 0 .. MaxBorn]
Commands ==
  [pc : Labels, verb : Verbs \cup {"none"}, svc : Services \cup {0}, plan : Seq(Services),
   pid : PidSpace \cup {Unset}, start : 0 .. MaxBorn, seen : 0 .. MaxBorn]
Units ==
  [desired : {"up", "down"}, pid : PidSpace \cup {Unset}, st : {"none", "spawned", "starting", "running"}]

CmdOK(x) ==
  /\ x.pc = "idle" => x = Ready
  /\ x.pc # "idle" => x.svc \in Services /\ x.verb \in setting.verbs
  /\ x.pc \in {"spawn", "write"} => x.plan # <<>>
  /\ x.pc = "write" => x.pid \in PidSpace /\ x.start # 0
  /\ x.pc \in {"term", "kill"} => x.pid \in PidSpace
StatusOK(x) ==
  /\ IF x.state \in {"starting", "running"} THEN x.pid \in PidSpace ELSE x.pid = Unset
  /\ x.state # "running" => x.start = 0
UnitOK(x) == x.st # "none" => x.pid \in PidSpace

ControlTyped ==
  /\ status \in [Services -> Statuses] /\ table \in [PidSpace -> Processes] /\ cmd \in [Clients -> Commands]
  /\ unit \in [Services -> Units] /\ inbox \in [Services -> {"none", "up", "down", "restart"}]
  /\ marker \in PidSpace \cup {Unset} /\ born \in 1 .. MaxBorn
  /\ \A c \in Clients : CmdOK(cmd[c])
  /\ \A s \in Services : StatusOK(status[s]) /\ UnitOK(unit[s])

-----------------------------------------------------------------------------
(* Whose process is whose. *)

\* What has started at time b, if it is still there, is a process of service s.
Dated(b, s) == b <= born /\ \A p \in PidSpace : table[p].kind # "none" /\ table[p].born = b => Runs(p, s)

\* What a stop that is x signals, if it knows a start time, is its service or was
\* started after it had looked.
AimedBy(x) ==
  /\ x.seen <= born
  /\ x.pc \in {"term", "kill"} /\ x.start # 0 /\ table[x.pid].kind # "none" =>
       Runs(x.pid, x.svc) \/ table[x.pid].born > x.seen

\* Start times tell processes apart; the scanner's children keep their pids.
Ledger ==
  /\ \A p \in PidSpace : /\ table[p].kind # "none" => table[p].born \in 1 .. born
                         /\ table[p].kind = "service" => table[p].svc \in Services
  /\ \A s \in Services : status[s].start # 0 => Dated(status[s].start, s)
  /\ \A c \in Clients : cmd[c].pc = "write" => Dated(cmd[c].start, Head(cmd[c].plan))
  /\ \A c \in Clients : AimedBy(cmd[c])
  /\ \A s \in Services : unit[s].pid # Unset /\ table[unit[s].pid].kind # "none" => Runs(unit[s].pid, s)

\* The marker names the scanner, and where none comes up later, what has looked
\* for it has found it.
Marked ==
  /\ \A p \in PidSpace : table[p].kind = "scanner" => p = marker
  /\ Scanning /\ "up" \notin setting.moves =>
       \A c \in Clients : cmd[c].pc \in {"idle", "check", "post"} \/ cmd[c].verb = "boot"
  /\ Scanning => setting.scanner \/ "up" \in setting.moves

\* A process is in the status file of its service or is about to be.
Filed(p, s) == status[s].state = "running" /\ status[s].pid = p /\ status[s].start \in {0, table[p].born}
AboutToFile(c, p, s) ==
  cmd[c].pc = "write" /\ cmd[c].pid = p /\ cmd[c].start = table[p].born /\ Head(cmd[c].plan) = s

\* The scanner is about to write that a child runs.
Tended(s) == Scanning /\ unit[s].st \in {"spawned", "starting"}

\* What a command x knows about the processes of its service and of those that
\* need it.
HeldBy(x) ==
  \A p \in PidSpace :
    /\ x.pc = "spawn" => ~Runs(p, Head(x.plan))
    /\ x.pc = "write" /\ Runs(p, Head(x.plan)) => p = x.pid /\ x.start = table[p].born
    /\ x.pc \in {"term", "kill"} /\ Runs(p, x.svc) => p = x.pid
    /\ x.pc = "down" => ~Runs(p, x.svc)
    /\ x.pc \in {"read", "term", "kill", "down"} =>
         \A d \in Services : d # x.svc /\ x.svc \in Need[d] => ~Runs(p, d)

Alone ==
  /\ \A c, d \in Clients : cmd[c] # Ready /\ cmd[d] # Ready => c = d
  /\ \A p \in PidSpace, s \in Services : Runs(p, s) =>
       /\ Filed(p, s) \/ Tended(s) \/ \E c \in Clients : AboutToFile(c, p, s)
       /\ Scanning => unit[s].pid = p
  /\ \A c \in Clients : HeldBy(cmd[c])

LoneInv == Lone => Alone

ControlInv == ControlTyped /\ Ledger /\ Marked /\ LoneInv

-----------------------------------------------------------------------------
(* Facts about states. *)

LEMMA PidsAreNumbers == Unset \notin PidSpace /\ 0 \notin PidSpace
  BY ControlAssumption DEF Unset

LEMMA CommandIs ==
  ASSUME ControlTyped, NEW c \in Clients
  PROVE  /\ cmd[c] \in Commands /\ CmdOK(cmd[c]) /\ cmd[c].plan \in Seq(Services)
         /\ cmd[c].pid \in PidSpace \cup {Unset} /\ cmd[c].start \in 0 .. MaxBorn /\ cmd[c].seen \in 0 .. MaxBorn
<1>1. cmd[c] \in Commands
  BY DEF ControlTyped
<1> QED  BY <1>1 DEF ControlTyped, Commands

LEMMA ReadyIs ==
  /\ Ready \in Commands /\ Ready.pc = "idle"
  /\ \A x : x = Ready => x.pc = "idle"
<1>1. <<>> \in Seq(Services)
  OBVIOUS
<1> QED  BY <1>1, ControlAssumption DEF Ready, Commands, Labels

\* One command goes on, the others stay where they are.
LEMMA CommandMoves ==
  ASSUME ControlTyped, UNCHANGED setting, NEW c \in Clients, NEW x \in Commands, CmdOK(x),
         cmd' = [cmd EXCEPT ![c] = x]
  PROVE  /\ cmd' \in [Clients -> Commands] /\ \A d \in Clients : CmdOK(cmd[d])'
         /\ cmd'[c] = x /\ \A d \in Clients \ {c} : cmd'[d] = cmd[d]
<1>1. cmd' \in [Clients -> Commands] /\ cmd'[c] = x /\ \A d \in Clients \ {c} : cmd'[d] = cmd[d]
  BY DEF ControlTyped
<1>2. \A d \in Clients : CmdOK(cmd[d])
  BY DEF ControlTyped
<1> QED  BY <1>1, <1>2 DEF CmdOK

\* Processes end, files and units forget them.
LEMMA LedgerKept ==
  ASSUME ControlTyped, Ledger, born' = born,
         \A p \in PidSpace : table'[p] = table[p] \/ table'[p].kind = "none",
         \A s \in Services : \/ status'[s].start \in {0, status[s].start}
                             \/ \E c \in Clients : /\ cmd[c].pc = "write" /\ s = Head(cmd[c].plan)
                                                   /\ status'[s].start = cmd[c].start,
         \A c \in Clients : cmd'[c] = cmd[c] \/ (cmd'[c].pc # "write" /\ AimedBy(cmd[c])'),
         \A s \in Services : unit'[s].pid \in {Unset, unit[s].pid}
  PROVE  Ledger'
<1>1. ASSUME NEW b, NEW s, Dated(b, s)
      PROVE  /\ b <= born'
             /\ \A p \in PidSpace : table'[p].kind # "none" /\ table'[p].born = b =>
                                      table'[p].kind = "service" /\ table'[p].svc = s
  BY <1>1 DEF Dated, Runs
<1>2. \A p \in PidSpace : /\ table'[p].kind # "none" => table'[p].born \in 1 .. born'
                          /\ table'[p].kind = "service" => table'[p].svc \in Services
  BY DEF Ledger
<1>3. ASSUME NEW s \in Services, status'[s].start # 0 PROVE Dated(status[s].start, s)'
  BY <1>1, <1>3 DEF Ledger, Dated, Runs
<1>4. ASSUME NEW c \in Clients, cmd'[c].pc = "write" PROVE Dated(cmd[c].start, Head(cmd[c].plan))'
  BY <1>1, <1>4 DEF Ledger, Dated, Runs
<1>5. ASSUME NEW s \in Services, unit'[s].pid # Unset, table'[unit'[s].pid].kind # "none"
      PROVE  Runs(unit[s].pid, s)'
  <2>1. unit'[s].pid = unit[s].pid /\ unit[s].pid \in PidSpace
    BY <1>5 DEF ControlTyped, Units
  <2> QED  BY <1>5, <2>1 DEF Ledger, Runs
<1>6. ASSUME NEW c \in Clients PROVE AimedBy(cmd[c])'
  <2>1. CASE cmd'[c] = cmd[c]
    <3>1. AimedBy(cmd[c]) /\ (cmd[c].pc \in {"term", "kill"} => cmd[c].pid \in PidSpace)
      BY DEF Ledger, ControlTyped, CmdOK
    <3> QED  BY <2>1, <3>1 DEF AimedBy, Runs
  <2> QED  BY <2>1
<1> QED  BY <1>2, <1>3, <1>4, <1>5, <1>6 DEF Ledger

\* A process starts with a pid that is free.
LEMMA LedgerGrows ==
  ASSUME ControlTyped, Ledger, NEW p \in FreePids, NEW k \in {"service", "scanner", "stranger"},
         NEW s \in Services \cup {0}, k = "service" => s \in Services, born' = born + 1,
         table' = [table EXCEPT ![p] = [kind |-> k, svc |-> s, born |-> born + 1]],
         \A t \in Services : status'[t].start \in {0, status[t].start},
         \A c \in Clients :
           \/ cmd'[c] = cmd[c]
           \/ /\ k = "service" /\ cmd'[c].pc = "write" /\ cmd'[c].start = born + 1 /\ Head(cmd'[c].plan) = s
              /\ cmd'[c].seen = cmd[c].seen,
         \A t \in Services : unit'[t].pid \in {Unset, unit[t].pid} \/ (unit'[t].pid = p /\ t = s /\ k = "service")
  PROVE  Ledger'
<1>0. p \in PidSpace /\ table[p].kind = "none" /\ \A t \in Services : unit[t].pid # p
  BY PidsAreNumbers DEF FreePids, Alive
<1>1. /\ table'[p].kind = k /\ table'[p].svc = s /\ table'[p].born = born + 1
      /\ \A q \in PidSpace \ {p} : table'[q] = table[q]
  BY <1>0 DEF ControlTyped
<1>a. /\ born \in Nat /\ born >= 1
      /\ \A q \in PidSpace : table[q].kind # "none" => table[q].born \in Nat /\ table[q].born <= born
  BY DEF ControlTyped, Ledger
<1>2. \A q \in PidSpace : /\ table'[q].kind # "none" => table'[q].born \in 1 .. born'
                          /\ table'[q].kind = "service" => table'[q].svc \in Services
  BY <1>1, <1>a DEF Ledger
<1> DEFINE After(b, t) == b <= born' /\ \A q \in PidSpace : table'[q].kind # "none" /\ table'[q].born = b =>
                                                 table'[q].kind = "service" /\ table'[q].svc = t
<1>3. ASSUME NEW b \in Nat, NEW t, Dated(b, t) PROVE After(b, t)
  BY <1>1, <1>3, <1>a DEF Dated, Runs
<1>4. k = "service" => After(born + 1, s)
  BY <1>1, <1>a
<1>5. ASSUME NEW t \in Services, status'[t].start # 0 PROVE Dated(status[t].start, t)'
  <2>1. status[t].start \in Nat
    BY ControlAssumption DEF ControlTyped, Statuses
  <2>2. After(status'[t].start, t)
    BY <1>3, <1>5, <2>1 DEF Ledger
  <2> QED  BY <2>2 DEF Dated, Runs
<1>6. ASSUME NEW c \in Clients, cmd'[c].pc = "write" PROVE Dated(cmd[c].start, Head(cmd[c].plan))'
  <2>1. CASE cmd'[c] = cmd[c]
    <3>1. cmd[c].start \in Nat
      BY ControlAssumption DEF ControlTyped, Commands
    <3>2. After(cmd'[c].start, Head(cmd'[c].plan))
      BY <1>3, <1>6, <2>1, <3>1 DEF Ledger
    <3> QED  BY <3>2 DEF Dated, Runs
  <2>2. CASE k = "service" /\ cmd'[c].start = born + 1 /\ Head(cmd'[c].plan) = s
    BY <1>4, <2>2 DEF Dated, Runs
  <2> QED  BY <1>6, <2>1, <2>2
<1>7. ASSUME NEW t \in Services, unit'[t].pid # Unset, table'[unit'[t].pid].kind # "none"
      PROVE  Runs(unit[t].pid, t)'
  <2>1. unit[t].pid \in PidSpace \cup {Unset}
    BY DEF ControlTyped, Units
  <2> QED  BY <1>0, <1>1, <1>7, <2>1 DEF Ledger, Runs
<1>8. ASSUME NEW c \in Clients PROVE AimedBy(cmd[c])'
  <2>1. /\ AimedBy(cmd[c]) /\ (cmd[c].pc \in {"term", "kill"} => cmd[c].pid \in PidSpace) /\ cmd[c].seen \in Nat
    BY ControlAssumption DEF Ledger, ControlTyped, CmdOK, Commands
  <2>2. CASE cmd'[c] = cmd[c]
    <3>1. cmd'[c].seen <= born' /\ cmd'[c].seen < born + 1
      BY <1>a, <2>1, <2>2 DEF AimedBy
    <3>2. ASSUME cmd'[c].pc \in {"term", "kill"}, cmd'[c].start # 0, table'[cmd'[c].pid].kind # "none"
          PROVE  \/ table'[cmd'[c].pid].kind = "service" /\ table'[cmd'[c].pid].svc = cmd'[c].svc
                 \/ table'[cmd'[c].pid].born > cmd'[c].seen
      <4>1. CASE cmd[c].pid = p
        BY <1>1, <1>a, <2>2, <3>1, <4>1
      <4>2. CASE cmd[c].pid # p
        BY <1>1, <2>1, <2>2, <3>2, <4>2 DEF AimedBy, Runs
      <4> QED  BY <4>1, <4>2
    <3> QED  BY <3>1, <3>2 DEF AimedBy, Runs
  <2>3. CASE cmd'[c].pc = "write" /\ cmd'[c].seen = cmd[c].seen
    BY <1>a, <2>1, <2>3 DEF AimedBy
  <2> QED  BY <2>2, <2>3
<1> QED  BY <1>2, <1>5, <1>6, <1>7, <1>8 DEF Ledger

\* Where no scanner comes up, a command that found none goes on without one.
LEMMA Unwatched ==
  ASSUME ControlInv, Lone, NEW c \in Clients, cmd[c].pc \notin {"idle", "check", "post"}
  PROVE  ~Scanning
<1>1. cmd[c].verb \in setting.verbs
  BY DEF ControlInv, ControlTyped, CmdOK
<1> QED  BY <1>1 DEF ControlInv, Marked, Lone

\* To a command that found no scanner, and is not about to write one itself, status
\* files show what runs.
LEMMA Visible ==
  ASSUME ControlInv, Lone, NEW c \in Clients, cmd[c].pc \notin {"idle", "check", "post", "write"},
         NEW p \in PidSpace, NEW s \in Services, Runs(p, s)
  PROVE  Filed(p, s) /\ ReadStatus(s) = status[s] /\ Up(s) /\ status[s].pid = p /\ p # Unset
<1>1. ASSUME NEW d \in Clients PROVE ~AboutToFile(d, p, s)
  <2>1. cmd[d].pc = "write" => cmd[d] # Ready /\ cmd[c] # Ready
    BY ReadyIs
  <2> QED  BY <2>1 DEF ControlInv, LoneInv, Alone, AboutToFile
<1>2. Filed(p, s)
  BY <1>1, Unwatched DEF ControlInv, LoneInv, Alone, Tended
<1>3. LiveAndOurs(p, status[s].start)
  BY <1>2, PidsAreNumbers DEF Filed, LiveAndOurs, Alive, Runs
<1> QED  BY <1>2, <1>3, PidsAreNumbers DEF ReadStatus, Up, Filed

\* A command that is before or between its deeds knows nothing.
LEMMA HeldFree ==
  ASSUME NEW x, x.pc \in {"idle", "check", "post", "recheck", "stop", "next"}, x.seen <= born
  PROVE  HeldBy(x) /\ AimedBy(x)
  BY DEF HeldBy, AimedBy

\* What it knows stays true while processes only end.
LEMMA HeldKept ==
  ASSUME NEW x, HeldBy(x), \A p \in PidSpace : table'[p] = table[p] \/ table'[p].kind # "service"
  PROVE  \A y : y = x => HeldBy(y)'
<1>1. \A p \in PidSpace : \A s : (table'[p].kind = "service" /\ table'[p].svc = s) => Runs(p, s) /\ table'[p] = table[p]
  BY DEF Runs
<1> QED  BY <1>1 DEF HeldBy, Runs

\* A step of a command that leaves processes, files and units alone.
LEMMA AloneQuiet ==
  ASSUME ControlInv, UNCHANGED <<setting, table, status, unit>>, NEW c \in Clients, NEW x, cmd'[c] = x,
         \A d \in Clients \ {c} : cmd'[d] = cmd[d],
         cmd[c].pc # "write", x.pc # "write", AimedBy(x), Lone => HeldBy(x),
         Lone /\ cmd[c] = Ready => \A d \in Clients : cmd[d] = Ready
  PROVE  LoneInv'
<1> SUFFICES ASSUME Lone PROVE Alone'
  BY DEF LoneInv, Lone
<1>1. Alone
  BY DEF ControlInv, LoneInv
<1>2. \A d, e \in Clients : cmd'[d] # Ready /\ cmd'[e] # Ready => d = e
  BY <1>1 DEF Alone
<1>3. ASSUME NEW p \in PidSpace, NEW s \in Services, Runs(p, s)'
      PROVE  /\ Filed(p, s)' \/ Tended(s)' \/ \E d \in Clients : AboutToFile(d, p, s)'
             /\ Scanning' => unit'[s].pid = p
  <2>1. Runs(p, s) /\ (Scanning' <=> Scanning)
    BY <1>3 DEF Runs, Scanning
  <2>2. CASE Filed(p, s) \/ Tended(s)
    BY <1>1, <2>1, <2>2 DEF Alone, Filed, Tended
  <2>3. ASSUME NEW d \in Clients, AboutToFile(d, p, s) PROVE AboutToFile(d, p, s)'
    BY <2>3 DEF AboutToFile
  <2> QED  BY <1>1, <2>1, <2>2, <2>3 DEF Alone
<1>4. ASSUME NEW d \in Clients PROVE HeldBy(cmd[d])'
  <2>1. CASE d = c
    BY <2>1 DEF HeldBy, Runs
  <2>2. CASE d # c
    BY <1>1, <2>2 DEF Alone, HeldBy, Runs
  <2> QED  BY <2>1, <2>2
<1> QED  BY <1>2, <1>3, <1>4 DEF Alone

\* Such a step, whole.
LEMMA QuietStep ==
  ASSUME ControlInv, UNCHANGED <<setting, status, table, marker, unit, born>>,
         inbox' \in [Services -> {"none", "up", "down", "restart"}],
         NEW c \in Clients, NEW x \in Commands, CmdOK(x), cmd' = [cmd EXCEPT ![c] = x],
         cmd[c].pc # "write", x.pc # "write", AimedBy(x), Lone => HeldBy(x),
         Lone /\ cmd[c] = Ready => \A d \in Clients : cmd[d] = Ready,
         Scanning /\ "up" \notin setting.moves => x.pc \in {"idle", "check", "post"} \/ x.verb = "boot"
  PROVE  ControlInv'
<1>0. ControlTyped /\ Ledger /\ Marked
  BY DEF ControlInv
<1>1. /\ cmd' \in [Clients -> Commands] /\ \A d \in Clients : CmdOK(cmd[d])'
      /\ cmd'[c] = x /\ \A d \in Clients \ {c} : cmd'[d] = cmd[d]
  BY <1>0, CommandMoves
<1>2. ControlTyped'
  BY <1>0, <1>1 DEF ControlTyped, StatusOK, UnitOK
<1>3. Ledger'
  <2>1. \A d \in Clients : cmd'[d] = cmd[d] \/ (cmd'[d].pc # "write" /\ AimedBy(cmd[d])')
    BY <1>1 DEF AimedBy, Runs
  <2> QED  BY <1>0, <2>1, LedgerKept
<1>4. Marked'
  BY <1>0, <1>1 DEF Marked, Scanning
<1>5. LoneInv'
  BY <1>1, AloneQuiet
<1> QED  BY <1>2, <1>3, <1>4, <1>5 DEF ControlInv

LEMMA ReadyOK == CmdOK(Ready) /\ Ready.seen = 0
  BY DEF CmdOK, Ready

LEMMA ReadyHeld ==
  ASSUME ControlInv
  PROVE  HeldBy(Ready) /\ AimedBy(Ready)
<1>1. 0 <= born
  BY DEF ControlInv, ControlTyped
<1> QED  BY <1>1, ReadyIs, ReadyOK, HeldFree

LEMMA SeenIs ==
  ASSUME ControlInv, NEW c \in Clients
  PROVE  cmd[c].seen <= born
  BY DEF ControlInv, Ledger, AimedBy

LEMMA IssueStep ==
  ASSUME ControlInv, UNCHANGED setting, setting \in Settings, NEW c \in Clients, NEW v \in setting.verbs, NEW s \in Services,
         Issue(c, v, s)
  PROVE  ControlInv'
<1> DEFINE plan == CASE v = "boot" -> BootPlan [] v = "start" -> Plan[s] [] OTHER -> <<>>
           x == [pc |-> IF v = "boot" THEN "next" ELSE "check", verb |-> v, svc |-> s, plan |-> plan,
                 pid |-> Unset, start |-> 0, seen |-> 0]
<1>1. v \in Verbs
  BY ControlAssumption DEF Setting, Verbs
<1>2. plan \in Seq(Services)
  <2>1. BootPlan \in Seq(Services) /\ Plan[s] \in Seq(Services) /\ <<>> \in Seq(Services)
    BY ControlAssumption
  <2> QED  BY <2>1
<1>3. /\ cmd[c] = Ready /\ Cardinality({d \in Clients : cmd[d] # Ready}) < setting.busy
      /\ cmd' = [cmd EXCEPT ![c] = x] /\ UNCHANGED <<status, table, marker, unit, inbox, born>>
  BY DEF Issue, Untouched
<1> HIDE DEF plan
<1>4. /\ x \in Commands /\ CmdOK(x) /\ x.pc \in {"next", "check"} /\ (x.pc = "next" => x.verb = "boot")
      /\ x.seen = 0
  BY <1>1, <1>2, ControlAssumption DEF Commands, CmdOK, Labels
<1> HIDE DEF x
<1>5. cmd[c].pc = "idle"
  BY <1>3, ReadyIs
<1>6. ASSUME Lone PROVE \A d \in Clients : cmd[d] = Ready
  <2> DEFINE B == {d \in Clients : cmd[d] # Ready}
  <2>1. IsFiniteSet(B)
    <3>1. B \subseteq Clients
      OBVIOUS
    <3> QED  BY <3>1, ControlAssumption, FS_Subset
  <2>2. Cardinality(B) \in Nat /\ Cardinality(B) < 1
    BY <1>3, <1>6, <2>1, FS_CardinalityType DEF Lone
  <2>3. B = {}
    BY <2>1, <2>2, FS_EmptySet
  <2> QED  BY <2>3
<1>7. inbox' \in [Services -> {"none", "up", "down", "restart"}]
  BY <1>3 DEF ControlInv, ControlTyped
<1>8. HeldBy(x) /\ AimedBy(x)
  <2>1. x.seen <= born
    BY <1>4 DEF ControlInv, ControlTyped
  <2> QED  BY <1>4, <2>1, HeldFree
<1> QED  BY <1>3, <1>4, <1>5, <1>6, <1>7, <1>8, QuietStep

LEMMA CheckStep ==
  ASSUME ControlInv, UNCHANGED setting, NEW c \in Clients, Check(c)
  PROVE  ControlInv'
<1> DEFINE l == IF ScannerActive THEN "post"
                ELSE CASE cmd[c].verb = "start" -> "next" [] cmd[c].verb = "stop" -> "stop" [] OTHER -> "recheck"
           x == [cmd[c] EXCEPT !.pc = l]
<1>1. cmd[c].pc = "check" /\ cmd' = [cmd EXCEPT ![c] = x] /\ UNCHANGED <<status, table, marker, unit, inbox, born>>
  BY DEF Check, Continue, Untouched
<1>2. l \in {"post", "next", "stop", "recheck"} /\ (ScannerActive => l = "post")
  OBVIOUS
<1> HIDE DEF l
<1>3. cmd[c] \in Commands /\ CmdOK(cmd[c])
  BY CommandIs DEF ControlInv
<1>4. x \in Commands /\ x.pc = l /\ x.verb = cmd[c].verb /\ x.svc = cmd[c].svc /\ x.seen = cmd[c].seen
  BY <1>2, <1>3 DEF Commands, Labels
<1> HIDE DEF x
<1>5. CmdOK(x)
  BY <1>1, <1>2, <1>3, <1>4 DEF CmdOK
<1>6. Scanning => ScannerActive
  BY PidsAreNumbers DEF Scanning, ScannerActive, Alive, ControlInv, Marked
<1>7. inbox' \in [Services -> {"none", "up", "down", "restart"}]
  BY <1>1 DEF ControlInv, ControlTyped
<1>8. cmd[c] # Ready
  BY <1>1, ReadyIs
<1>9. HeldBy(x) /\ AimedBy(x)
  BY <1>2, <1>4, SeenIs, HeldFree
<1> QED  BY <1>1, <1>2, <1>4, <1>5, <1>6, <1>7, <1>8, <1>9, QuietStep

LEMMA PostStep ==
  ASSUME ControlInv, UNCHANGED setting, NEW c \in Clients, Post(c)
  PROVE  ControlInv'
<1>1. /\ cmd[c].pc = "post" /\ cmd' = [cmd EXCEPT ![c] = Ready] /\ UNCHANGED <<status, table, marker, unit, born>>
      /\ inbox' = [inbox EXCEPT ![cmd[c].svc] = Request(cmd[c].verb)]
  BY DEF Post, Finish
<1>2. Request(cmd[c].verb) \in {"up", "down", "restart"}
  BY DEF Request
<1>3. inbox' \in [Services -> {"none", "up", "down", "restart"}]
  BY <1>1, <1>2 DEF ControlInv, ControlTyped
<1>4. cmd[c] # Ready
  BY <1>1, ReadyIs
<1> QED  BY <1>1, <1>3, <1>4, ReadyIs, ReadyOK, ReadyHeld, QuietStep

\* A command that goes on where the marker is not looked at.
LEMMA GoesOn ==
  ASSUME ControlInv, UNCHANGED setting, NEW c \in Clients, cmd[c].pc \notin {"idle", "check", "post"}
  PROVE  Scanning /\ "up" \notin setting.moves => cmd[c].verb = "boot"
  BY DEF ControlInv, Marked

LEMMA RecheckStep ==
  ASSUME ControlInv, UNCHANGED setting, NEW c \in Clients, Recheck(c)
  PROVE  ControlInv'
<1> DEFINE y == [cmd[c] EXCEPT !.pc = "next", !.plan = <<cmd[c].svc>>]
           z == [cmd[c] EXCEPT !.pc = "stop"]
<1>1. cmd[c].pc = "recheck" /\ UNCHANGED <<status, table, marker, unit, born>>
  BY DEF Recheck
<1>2. cmd[c] \in Commands /\ CmdOK(cmd[c]) /\ cmd[c].svc \in Services /\ cmd[c] # Ready
  BY <1>1, CommandIs, ReadyIs DEF ControlInv, CmdOK
<1>3. <<cmd[c].svc>> \in Seq(Services)
  BY <1>2
<1>4. y \in Commands /\ y.pc = "next" /\ y.verb = cmd[c].verb /\ y.svc = cmd[c].svc /\ y.seen = cmd[c].seen
  BY <1>2, <1>3 DEF Commands, Labels
<1>5. z \in Commands /\ z.pc = "stop" /\ z.verb = cmd[c].verb /\ z.svc = cmd[c].svc /\ z.seen = cmd[c].seen
  BY <1>2 DEF Commands, Labels
<1>6. inbox' \in [Services -> {"none", "up", "down", "restart"}]
  BY <1>2 DEF Recheck, ControlInv, ControlTyped
<1>7. cmd' = [cmd EXCEPT ![c] = y] \/ cmd' = [cmd EXCEPT ![c] = z]
  BY DEF Recheck, Continue
<1> HIDE DEF y, z
<1>8. CmdOK(y) /\ CmdOK(z)
  BY <1>1, <1>2, <1>4, <1>5 DEF CmdOK
<1>11. HeldBy(y) /\ AimedBy(y) /\ HeldBy(z) /\ AimedBy(z)
  BY <1>4, <1>5, SeenIs, HeldFree
<1>9. CASE cmd' = [cmd EXCEPT ![c] = y]
  BY <1>1, <1>2, <1>4, <1>6, <1>8, <1>9, <1>11, GoesOn, QuietStep
<1>10. CASE cmd' = [cmd EXCEPT ![c] = z]
  BY <1>1, <1>2, <1>5, <1>6, <1>8, <1>10, <1>11, GoesOn, QuietStep
<1> QED  BY <1>7, <1>9, <1>10

LEMMA FinishStepQuiet ==
  ASSUME ControlInv, UNCHANGED <<setting, status, table, marker, unit, inbox, born>>, NEW c \in Clients, Finish(c),
         cmd[c].pc \notin {"idle", "write"}
  PROVE  ControlInv'
<1>1. inbox' \in [Services -> {"none", "up", "down", "restart"}]
  BY DEF ControlInv, ControlTyped
<1>2. cmd[c] # Ready
  BY ReadyIs
<1> QED  BY <1>1, <1>2, ReadyIs, ReadyOK, ReadyHeld, QuietStep DEF Finish

\* The next service of the plan is looked at.
LEMMA PassStep ==
  ASSUME ControlInv, UNCHANGED <<setting, status, table, marker, unit, inbox, born>>, NEW c \in Clients,
         cmd[c].pc \in {"next", "spawn"}, cmd[c].plan # <<>>,
         cmd' = [cmd EXCEPT ![c] = [cmd[c] EXCEPT !.pc = "next", !.plan = Tail(cmd[c].plan)]]
  PROVE  ControlInv'
<1> DEFINE x == [cmd[c] EXCEPT !.pc = "next", !.plan = Tail(cmd[c].plan)]
<1>1. cmd[c] \in Commands /\ CmdOK(cmd[c]) /\ cmd[c] # Ready /\ cmd[c].plan \in Seq(Services)
  BY CommandIs, ReadyIs DEF ControlInv
<1>2. Tail(cmd[c].plan) \in Seq(Services)
  BY <1>1
<1>3. x \in Commands /\ x.pc = "next" /\ x.verb = cmd[c].verb /\ x.svc = cmd[c].svc /\ x.seen = cmd[c].seen
  BY <1>1, <1>2 DEF Commands, Labels
<1> HIDE DEF x
<1>4. CmdOK(x)
  BY <1>1, <1>3 DEF CmdOK
<1>5. cmd' = [cmd EXCEPT ![c] = x]
  BY DEF x
<1>6. inbox' \in [Services -> {"none", "up", "down", "restart"}]
  BY DEF ControlInv, ControlTyped
<1>7. HeldBy(x) /\ AimedBy(x)
  BY <1>3, SeenIs, HeldFree
<1> QED  BY <1>1, <1>3, <1>4, <1>5, <1>6, <1>7, GoesOn, QuietStep

LEMMA StartNextStep ==
  ASSUME ControlInv, UNCHANGED setting, NEW c \in Clients, StartNext(c)
  PROVE  ControlInv'
<1>1. cmd[c].pc = "next" /\ UNCHANGED <<status, table, marker, unit, inbox, born>>
  BY DEF StartNext, Untouched
<1>2. CASE cmd[c].plan = <<>> /\ Finish(c)
  BY <1>1, <1>2, FinishStepQuiet
<1>3. CASE cmd[c].plan # <<>> /\ MustStart(Head(cmd[c].plan)) /\ Continue(c, "spawn")
  <2> DEFINE x == [cmd[c] EXCEPT !.pc = "spawn"]
  <2>1. cmd[c] \in Commands /\ CmdOK(cmd[c]) /\ cmd[c] # Ready /\ cmd[c].plan \in Seq(Services)
    BY <1>1, CommandIs, ReadyIs DEF ControlInv
  <2>2. /\ x \in Commands /\ x.pc = "spawn" /\ x.verb = cmd[c].verb /\ x.plan = cmd[c].plan
        /\ x.seen = cmd[c].seen /\ x.svc = cmd[c].svc
    BY <2>1 DEF Commands, Labels
  <2>3. cmd' = [cmd EXCEPT ![c] = x]
    BY <1>3 DEF Continue
  <2> HIDE DEF x
  <2>4. CmdOK(x)
    BY <1>1, <1>3, <2>1, <2>2 DEF CmdOK
  <2>5. Head(cmd[c].plan) \in Services
    BY <1>3, <2>1
  <2>6. Lone => \A p \in PidSpace : ~Runs(p, Head(x.plan))
    BY <1>1, <1>3, <2>2, <2>5, Visible DEF MustStart
  <2>8. (Lone => HeldBy(x)) /\ AimedBy(x)
    BY <2>2, <2>6, SeenIs DEF HeldBy, AimedBy
  <2>7. inbox' \in [Services -> {"none", "up", "down", "restart"}]
    BY <1>1 DEF ControlInv, ControlTyped
  <2> QED  BY <1>1, <2>1, <2>2, <2>3, <2>4, <2>7, <2>8, GoesOn, QuietStep
<1>4. CASE cmd[c].plan # <<>> /\ cmd' = [cmd EXCEPT ![c].plan = Tail(@)]
  <2>1. [cmd[c] EXCEPT !.plan = Tail(cmd[c].plan)] = [cmd[c] EXCEPT !.pc = "next", !.plan = Tail(cmd[c].plan)]
    <3>1. cmd[c] \in Commands
      BY CommandIs DEF ControlInv
    <3> QED  BY <1>1, <3>1 DEF Commands
  <2>2. cmd' = [cmd EXCEPT ![c] = [cmd[c] EXCEPT !.pc = "next", !.plan = Tail(cmd[c].plan)]]
    BY <1>4, <2>1
  <2> QED  BY <1>1, <1>4, <2>2, PassStep
<1> QED  BY <1>2, <1>3, <1>4 DEF StartNext

\* running_dependents sees every service that runs.
LEMMA DependentsStep ==
  ASSUME ControlInv, UNCHANGED setting, NEW c \in Clients, Dependents(c)
  PROVE  ControlInv'
<1> DEFINE x == [cmd[c] EXCEPT !.pc = "read"]
<1>1. cmd[c].pc = "stop" /\ UNCHANGED <<status, table, marker, unit, inbox, born>>
  BY DEF Dependents, Untouched
<1>2. CASE Finish(c)
  BY <1>1, <1>2, FinishStepQuiet
<1>3. CASE ~RunningDependents(cmd[c].svc) /\ Continue(c, "read")
  <2>1. cmd[c] \in Commands /\ CmdOK(cmd[c]) /\ cmd[c] # Ready
    BY <1>1, CommandIs, ReadyIs DEF ControlInv
  <2>2. /\ x \in Commands /\ x.pc = "read" /\ x.verb = cmd[c].verb /\ x.svc = cmd[c].svc
        /\ x.seen = cmd[c].seen
    BY <2>1 DEF Commands, Labels
  <2>3. cmd' = [cmd EXCEPT ![c] = x]
    BY <1>3 DEF Continue
  <2> HIDE DEF x
  <2>4. CmdOK(x)
    BY <1>1, <2>1, <2>2 DEF CmdOK
  <2>5. ASSUME Lone, NEW p \in PidSpace, NEW d \in Services, d # cmd[c].svc, cmd[c].svc \in Need[d] PROVE ~Runs(p, d)
    <3>1. Runs(p, d) => Up(d)
      BY <1>1, <2>5, Visible
    <3> QED  BY <1>3, <2>5, <3>1 DEF RunningDependents
  <2>6. (Lone => HeldBy(x)) /\ AimedBy(x)
    BY <2>2, <2>5, SeenIs DEF HeldBy, AimedBy
  <2>7. inbox' \in [Services -> {"none", "up", "down", "restart"}]
    BY <1>1 DEF ControlInv, ControlTyped
  <2> QED  BY <1>1, <2>1, <2>2, <2>3, <2>4, <2>6, <2>7, GoesOn, QuietStep
<1> QED  BY <1>2, <1>3 DEF Dependents

\* read_status finds the process of the service, by its start time if it has one.
LEMMA ReadIs ==
  ASSUME ControlInv, NEW s \in Services
  PROVE  /\ ReadStatus(s).pid \in PidSpace \cup {Unset} /\ ReadStatus(s).start \in 0 .. MaxBorn
         /\ ReadStatus(s).pid # Unset /\ ReadStatus(s).start # 0 => Runs(ReadStatus(s).pid, s)
<1>1. status[s] \in Statuses /\ StatusOK(status[s]) /\ (status[s].start # 0 => Dated(status[s].start, s))
  BY DEF ControlInv, ControlTyped, Ledger
<1>2. CASE ReadStatus(s) = [state |-> "dead", pid |-> Unset, start |-> 0]
  BY <1>2, ControlAssumption
<1>3. CASE ReadStatus(s) = status[s] /\ ~(/\ status[s].state = "running" /\ status[s].pid # Unset
                                         /\ ~LiveAndOurs(status[s].pid, status[s].start))
  <2>1. status[s].pid \in PidSpace \cup {Unset} /\ status[s].start \in 0 .. MaxBorn
    BY <1>1 DEF Statuses
  <2>2. ASSUME status[s].pid # Unset, status[s].start # 0 PROVE Runs(status[s].pid, s)
    <3>1. status[s].state = "running" /\ status[s].pid \in PidSpace
      BY <1>1, <2>1, <2>2 DEF StatusOK
    <3>2. LiveAndOurs(status[s].pid, status[s].start)
      BY <1>3, <2>2, <3>1
    <3> QED  BY <1>1, <2>2, <3>1, <3>2 DEF LiveAndOurs, Alive, Dated
  <2> QED  BY <1>3, <2>1, <2>2
<1> QED  BY <1>2, <1>3 DEF ReadStatus

LEMMA ReadStep ==
  ASSUME ControlInv, UNCHANGED setting, NEW c \in Clients, Read(c)
  PROVE  ControlInv'
<1> DEFINE current == ReadStatus(cmd[c].svc)
           pid == current.pid
           start == current.start
           label == IF pid = Unset THEN "down" ELSE "term"
           x == [cmd[c] EXCEPT !.pc = label, !.pid = pid, !.start = start, !.seen = born]
<1>1. cmd[c].pc = "read" /\ UNCHANGED <<status, table, marker, unit, inbox, born>> /\ cmd' = [cmd EXCEPT ![c] = x]
  BY DEF Read, Untouched
<1>2. cmd[c] \in Commands /\ CmdOK(cmd[c]) /\ cmd[c].svc \in Services /\ cmd[c] # Ready
  BY <1>1, CommandIs, ReadyIs DEF ControlInv, CmdOK
<1>3. /\ pid \in PidSpace \cup {Unset} /\ start \in 0 .. MaxBorn
      /\ pid # Unset /\ start # 0 => Runs(pid, cmd[c].svc)
  BY <1>2, ReadIs
<1>4. ASSUME Lone, NEW p \in PidSpace, Runs(p, cmd[c].svc) PROVE pid = p /\ p # Unset
  BY <1>1, <1>2, <1>4, Visible
<1>5. born \in 0 .. MaxBorn /\ born <= born
  BY ControlAssumption DEF ControlInv, ControlTyped
<1>6. label \in {"down", "term"} /\ (label = "down" <=> pid = Unset)
  OBVIOUS
<1> HIDE DEF pid, start, label
<1>7. /\ x \in Commands /\ x.pc = label /\ x.pid = pid /\ x.start = start /\ x.seen = born
      /\ x.verb = cmd[c].verb /\ x.svc = cmd[c].svc
  BY <1>2, <1>3, <1>5, <1>6 DEF Commands, Labels
<1> HIDE DEF x
<1>8. CmdOK(x)
  BY <1>1, <1>2, <1>3, <1>6, <1>7 DEF CmdOK
<1>9. AimedBy(x)
  BY <1>3, <1>5, <1>6, <1>7 DEF AimedBy
<1>10. ASSUME Lone PROVE HeldBy(x)
  <2>1. HeldBy(cmd[c])
    BY <1>10 DEF ControlInv, LoneInv, Alone
  <2>2. \A p \in PidSpace, d \in Services : d # x.svc /\ x.svc \in Need[d] => ~Runs(p, d)
    BY <1>1, <1>7, <2>1 DEF HeldBy
  <2>3. \A p \in PidSpace : Runs(p, x.svc) => x.pc = "term" /\ p = x.pid
    BY <1>4, <1>6, <1>7, <1>10
  <2> QED  BY <1>6, <1>7, <2>2, <2>3 DEF HeldBy
<1>11. inbox' \in [Services -> {"none", "up", "down", "restart"}]
  BY <1>1 DEF ControlInv, ControlTyped
<1> QED  BY <1>1, <1>2, <1>6, <1>7, <1>8, <1>9, <1>10, <1>11, GoesOn, QuietStep

-----------------------------------------------------------------------------
(* Steps that end or start processes. *)

\* Where no scanner comes, the marker still names the one there is.
LEMMA MarkedKept ==
  ASSUME ControlInv, UNCHANGED <<setting, marker>>,
         \A p \in PidSpace : table'[p] = table[p] \/ table'[p].kind # "scanner",
         \A d \in Clients : \/ cmd'[d] = cmd[d] \/ cmd'[d] = Ready
                            \/ cmd[d].pc \notin {"idle", "check", "post"} /\ cmd'[d].verb = cmd[d].verb
  PROVE  Marked' /\ (Scanning' => Scanning)
<1>1. Scanning' => Scanning
  BY DEF Scanning
<1>2. \A p \in PidSpace : table'[p].kind = "scanner" => p = marker'
  BY DEF ControlInv, Marked
<1>3. ASSUME Scanning', "up" \notin setting'.moves, NEW d \in Clients
      PROVE  cmd'[d].pc \in {"idle", "check", "post"} \/ cmd'[d].verb = "boot"
  <2>1. cmd[d].pc \in {"idle", "check", "post"} \/ cmd[d].verb = "boot"
    BY <1>1, <1>3 DEF ControlInv, Marked
  <2> QED  BY <2>1, ReadyIs
<1>4. Scanning' => setting'.scanner \/ "up" \in setting'.moves
  BY <1>1 DEF ControlInv, Marked
<1> QED  BY <1>1, <1>2, <1>3, <1>4 DEF Marked

\* The other commands have not been given.
LEMMA OthersReady ==
  ASSUME ControlInv, Lone, NEW c \in Clients, cmd[c].pc # "idle", NEW d \in Clients, d # c
  PROVE  cmd[d] = Ready /\ cmd[d].pc = "idle"
  BY ReadyIs DEF ControlInv, LoneInv, Alone

\* A step of a direct stop: processes end, its service's file is written.
LEMMA DirectStep ==
  ASSUME ControlInv, UNCHANGED <<setting, marker, inbox, born>>, NEW c \in Clients, NEW x \in Commands, CmdOK(x),
         cmd' = [cmd EXCEPT ![c] = x], cmd[c].pc \in {"term", "kill", "down"},
         x.pc \in {"idle", "kill", "down", "next"}, x = Ready \/ x.verb = cmd[c].verb,
         \/ x.pc # "kill" /\ x.seen <= born
         \/ x.pid = cmd[c].pid /\ x.start = cmd[c].start /\ x.seen = cmd[c].seen /\ cmd[c].pc = "term",
         x.pc \in {"kill", "down"} => x.svc = cmd[c].svc,
         table' \in [PidSpace -> Processes], \A p \in PidSpace : table'[p] = table[p] \/ table'[p].kind = "none",
         status' \in [Services -> Statuses], \A s \in Services : StatusOK(status'[s]),
         \A s \in Services : status'[s] = status[s] \/ (status'[s].start = 0 /\ s = cmd[c].svc /\ cmd[c].pc = "down"),
         unit' \in [Services -> Units],
         \A s \in Services : UnitOK(unit'[s]) /\ unit'[s].pid \in {Unset, unit[s].pid},
         Lone => \A p \in PidSpace : table'[p].kind = "service" /\ table'[p].svc = x.svc =>
                   x.pc # "down" /\ (x.pc = "kill" => p = x.pid)
  PROVE  ControlInv'
<1>0. ControlTyped /\ Ledger /\ Marked
  BY DEF ControlInv
<1>1. /\ cmd' \in [Clients -> Commands] /\ \A d \in Clients : CmdOK(cmd[d])'
      /\ cmd'[c] = x /\ \A d \in Clients \ {c} : cmd'[d] = cmd[d]
  BY <1>0, CommandMoves
<1>2. ControlTyped'
  BY <1>0, <1>1 DEF ControlTyped, StatusOK, UnitOK
<1>3. Ledger'
  <2>1. AimedBy(cmd[c])'
    <3>1. AimedBy(cmd[c]) /\ (x.pc = "kill" => x.pid \in PidSpace)
      BY <1>0 DEF Ledger, CmdOK
    <3>2. CASE x.pc # "kill" /\ x.seen <= born
      BY <1>1, <3>2 DEF AimedBy
    <3>3. CASE x.pc = "kill"
      BY <1>1, <3>1, <3>3 DEF AimedBy, Runs
    <3> QED  BY <3>1, <3>2, <3>3 DEF AimedBy
  <2>2. \A d \in Clients : cmd'[d] = cmd[d] \/ (cmd'[d].pc # "write" /\ AimedBy(cmd[d])')
    BY <1>1, <2>1
  <2> QED  BY <1>0, <2>2, LedgerKept
<1>4. Marked' /\ (Scanning' => Scanning)
  BY <1>1, MarkedKept
<1>5. ASSUME Lone PROVE Alone'
  <2>0. HeldBy(cmd[c])
    BY <1>5 DEF ControlInv, LoneInv, Alone
  <2>1. ~Scanning'
    BY <1>4, <1>5, Unwatched
  <2>2. \A d \in Clients \ {c} : cmd'[d] = Ready /\ cmd'[d].pc = "idle"
    BY <1>1, <1>5, OthersReady
  <2>3. ASSUME NEW p \in PidSpace, NEW s \in Services, Runs(p, s)' PROVE Filed(p, s)'
    <3>1. table'[p] = table[p] /\ Runs(p, s)
      BY <2>3 DEF Runs
    <3>2. Filed(p, s)
      BY <1>5, <3>1, Visible
    <3>3. status'[s] = status[s]
      BY <2>0, <3>1 DEF HeldBy
    <3> QED  BY <3>1, <3>2, <3>3 DEF Filed
  <2>4. HeldBy(cmd[c])'
    <3>1. \A p \in PidSpace, s \in Services : table'[p].kind = "service" /\ table'[p].svc = s => Runs(p, s)
      BY DEF Runs
    <3>2. x.pc \in {"kill", "down"} =>
            \A p \in PidSpace, d \in Services : d # x.svc /\ x.svc \in Need[d] =>
               ~(table'[p].kind = "service" /\ table'[p].svc = d)
      BY <2>0, <3>1 DEF HeldBy
    <3> QED  BY <1>1, <1>5, <3>2 DEF HeldBy, Runs
  <2>5. ASSUME NEW d \in Clients PROVE HeldBy(cmd[d])'
    BY <2>2, <2>4 DEF HeldBy
  <2> QED  BY <2>1, <2>2, <2>3, <2>5 DEF Alone
<1> QED  BY <1>2, <1>3, <1>4, <1>5 DEF ControlInv, LoneInv, Lone

LEMMA UnitsShrink ==
  ASSUME ControlTyped, NEW p
  PROVE  /\ UnitsWithout(p) \in [Services -> Units]
         /\ \A s \in Services : UnitOK(UnitsWithout(p)[s]) /\ UnitsWithout(p)[s].pid \in {Unset, unit[s].pid}
  BY DEF UnitsWithout, NoUnit, Units, UnitOK, ControlTyped

LEMMA ProcessEnds ==
  ASSUME ControlTyped, NEW p \in PidSpace, table' = [table EXCEPT ![p] = Vacant]
  PROVE  /\ table' \in [PidSpace -> Processes] /\ table'[p].kind = "none"
         /\ \A q \in PidSpace : table'[q] = table[q] \/ table'[q].kind = "none"
<1>1. Vacant \in Processes /\ Vacant.kind = "none"
  BY ControlAssumption DEF Vacant, Processes
<1> QED  BY <1>1 DEF ControlTyped

LEMMA TermStep ==
  ASSUME ControlInv, UNCHANGED setting, NEW c \in Clients, Term(c)
  PROVE  ControlInv'
<1> DEFINE x == [cmd[c] EXCEPT !.pc = "kill"]
<1>0. ControlTyped
  BY DEF ControlInv
<1>1. cmd[c].pc = "term" /\ UNCHANGED <<status, marker, inbox, born>>
  BY DEF Term
<1>2. cmd[c] \in Commands /\ CmdOK(cmd[c]) /\ cmd[c].svc \in Services /\ cmd[c].pid \in PidSpace
  BY <1>0, <1>1, CommandIs DEF CmdOK
<1>3. CASE Finish(c) /\ UNCHANGED <<table, unit>>
  BY <1>1, <1>3, FinishStepQuiet
<1>4. CASE Continue(c, "kill") /\ (EndOf(cmd[c].pid) \/ UNCHANGED <<table, unit>>)
  <2>1. /\ x \in Commands /\ x.pc = "kill" /\ x.pid = cmd[c].pid /\ x.start = cmd[c].start /\ x.seen = cmd[c].seen
        /\ x.verb = cmd[c].verb /\ x.svc = cmd[c].svc
    BY <1>2 DEF Commands, Labels
  <2>2. cmd' = [cmd EXCEPT ![c] = x]
    BY <1>4 DEF Continue
  <2> HIDE DEF x
  <2>3. CmdOK(x)
    BY <1>1, <1>2, <2>1 DEF CmdOK
  <2>4. /\ table' \in [PidSpace -> Processes] /\ \A p \in PidSpace : table'[p] = table[p] \/ table'[p].kind = "none"
        /\ unit' \in [Services -> Units]
        /\ \A s \in Services : UnitOK(unit'[s]) /\ unit'[s].pid \in {Unset, unit[s].pid}
    <3>1. CASE UNCHANGED <<table, unit>>
      BY <1>0, <3>1 DEF ControlTyped
    <3>2. CASE EndOf(cmd[c].pid)
      BY <1>0, <1>2, <3>2, UnitsShrink, ProcessEnds DEF EndOf
    <3> QED  BY <1>4, <3>1, <3>2
  <2>5. status' \in [Services -> Statuses] /\ \A s \in Services : StatusOK(status'[s]) /\ status'[s] = status[s]
    BY <1>0, <1>1 DEF ControlTyped
  <2>6. Lone => \A p \in PidSpace : table'[p].kind = "service" /\ table'[p].svc = x.svc =>
                   x.pc # "down" /\ (x.pc = "kill" => p = x.pid)
    <3>1. Lone => HeldBy(cmd[c])
      BY DEF ControlInv, LoneInv, Alone
    <3> QED  BY <1>1, <2>1, <2>4, <3>1 DEF HeldBy, Runs
  <2> QED  BY <1>1, <2>1, <2>2, <2>3, <2>4, <2>5, <2>6, DirectStep
<1> QED  BY <1>3, <1>4 DEF Term

LEMMA KillStep ==
  ASSUME ControlInv, UNCHANGED setting, NEW c \in Clients, Kill(c)
  PROVE  ControlInv'
<1> DEFINE x == [cmd[c] EXCEPT !.pc = "down"]
<1>0. ControlTyped
  BY DEF ControlInv
<1>1. cmd[c].pc = "kill" /\ UNCHANGED <<status, marker, inbox, born>> /\ cmd' = [cmd EXCEPT ![c] = x]
  BY DEF Kill, Continue
<1>2. cmd[c] \in Commands /\ CmdOK(cmd[c]) /\ cmd[c].svc \in Services /\ cmd[c].pid \in PidSpace
  BY <1>0, <1>1, CommandIs DEF CmdOK
<1>3. x \in Commands /\ x.pc = "down" /\ x.verb = cmd[c].verb /\ x.svc = cmd[c].svc /\ x.seen <= born
  <2>1. x.seen = cmd[c].seen
    BY <1>2 DEF Commands
  <2> QED  BY <1>2, <2>1, SeenIs DEF Commands, Labels
<1> HIDE DEF x
<1>4. CmdOK(x)
  BY <1>1, <1>2, <1>3 DEF CmdOK
<1>5. /\ table' \in [PidSpace -> Processes] /\ \A p \in PidSpace : table'[p] = table[p] \/ table'[p].kind = "none"
      /\ unit' \in [Services -> Units]
      /\ \A s \in Services : UnitOK(unit'[s]) /\ unit'[s].pid \in {Unset, unit[s].pid}
      /\ table'[cmd[c].pid].kind = "none"
  <2>1. CASE Alive(cmd[c].pid)
    BY <1>0, <1>2, <2>1, UnitsShrink, ProcessEnds DEF Kill, EndOf
  <2>2. CASE ~Alive(cmd[c].pid)
    BY <1>0, <1>2, <2>2, PidsAreNumbers DEF Kill, Alive, ControlTyped
  <2> QED  BY <2>1, <2>2
<1>6. status' \in [Services -> Statuses] /\ \A s \in Services : StatusOK(status'[s]) /\ status'[s] = status[s]
  BY <1>0, <1>1 DEF ControlTyped
<1>7. Lone => \A p \in PidSpace : ~(table'[p].kind = "service" /\ table'[p].svc = x.svc)
  <2>1. Lone => HeldBy(cmd[c])
    BY DEF ControlInv, LoneInv, Alone
  <2> QED  BY <1>1, <1>3, <1>5, <2>1 DEF HeldBy, Runs
<1> QED  BY <1>1, <1>3, <1>4, <1>5, <1>6, <1>7, DirectStep

LEMMA WriteDownStep ==
  ASSUME ControlInv, UNCHANGED setting, NEW c \in Clients, WriteDown(c)
  PROVE  ControlInv'
<1> DEFINE y == [cmd[c] EXCEPT !.pc = "next", !.plan = <<cmd[c].svc>>]
<1>0. ControlTyped
  BY DEF ControlInv
<1>1. /\ cmd[c].pc = "down" /\ UNCHANGED <<table, marker, unit, inbox, born>>
      /\ status' = [status EXCEPT ![cmd[c].svc] = DefaultStatus]
      /\ cmd' = [cmd EXCEPT ![c] = y] \/ cmd' = [cmd EXCEPT ![c] = Ready]
  BY DEF WriteDown, Finish
<1>2. cmd[c] \in Commands /\ CmdOK(cmd[c]) /\ cmd[c].svc \in Services
  BY <1>0, <1>1, CommandIs DEF CmdOK
<1>3. <<cmd[c].svc>> \in Seq(Services)
  BY <1>2
<1>4. y \in Commands /\ y.pc = "next" /\ y.verb = cmd[c].verb /\ y.svc = cmd[c].svc /\ y.seen <= born
  <2>1. y.seen = cmd[c].seen
    BY <1>2 DEF Commands
  <2> QED  BY <1>2, <1>3, <2>1, SeenIs DEF Commands, Labels
<1> HIDE DEF y
<1>5. CmdOK(y)
  BY <1>1, <1>2, <1>4 DEF CmdOK
<1>6. /\ status' \in [Services -> Statuses] /\ \A s \in Services : StatusOK(status'[s])
      /\ \A s \in Services : status'[s] = status[s] \/ (status'[s].start = 0 /\ s = cmd[c].svc)
  <2>1. DefaultStatus \in Statuses /\ StatusOK(DefaultStatus) /\ DefaultStatus.start = 0
    BY ControlAssumption DEF DefaultStatus, Statuses, StatusOK
  <2> QED  BY <1>0, <1>1, <2>1 DEF ControlTyped
<1>7. /\ table' \in [PidSpace -> Processes] /\ \A p \in PidSpace : table'[p] = table[p]
      /\ unit' \in [Services -> Units] /\ \A s \in Services : UnitOK(unit'[s]) /\ unit'[s].pid = unit[s].pid
  BY <1>0, <1>1 DEF ControlTyped
<1>8. CASE cmd' = [cmd EXCEPT ![c] = y]
  BY <1>1, <1>4, <1>5, <1>6, <1>7, <1>8, DirectStep
<1>10. Ready.seen <= born
  BY ReadyOK, <1>0 DEF ControlTyped
<1>9. CASE cmd' = [cmd EXCEPT ![c] = Ready]
  BY <1>1, <1>6, <1>7, <1>9, <1>10, ReadyIs, ReadyOK, DirectStep
<1> QED  BY <1>1, <1>8, <1>9

\* A process starts with a pid that is free.
LEMMA ProcessStarts ==
  ASSUME ControlTyped, NEW p \in FreePids, NEW k \in {"service", "scanner", "stranger"}, NEW s \in Services \cup {0},
         table' = [table EXCEPT ![p] = [kind |-> k, svc |-> s, born |-> born + 1]], born < MaxBorn, born' = born + 1
  PROVE  /\ p \in PidSpace /\ table[p].kind = "none" /\ \A t \in Services : unit[t].pid # p
         /\ table' \in [PidSpace -> Processes] /\ table'[p].kind = k /\ table'[p].svc = s /\ table'[p].born = born + 1
         /\ \A q \in PidSpace \ {p} : table'[q] = table[q]
         /\ born' \in 1 .. MaxBorn /\ born + 1 \in 1 .. MaxBorn
<1>1. p \in PidSpace /\ table[p].kind = "none" /\ \A t \in Services : unit[t].pid # p
  BY PidsAreNumbers DEF FreePids, Alive
<1>2. born + 1 \in 1 .. MaxBorn
  BY ControlAssumption DEF ControlTyped
<1>3. [kind |-> k, svc |-> s, born |-> born + 1] \in Processes
  BY <1>2 DEF Processes
<1> QED  BY <1>1, <1>2, <1>3 DEF ControlTyped

LEMMA SpawnStep ==
  ASSUME ControlInv, UNCHANGED setting, NEW c \in Clients, Spawn(c)
  PROVE  ControlInv'
<1> DEFINE s == Head(cmd[c].plan)
<1>0. ControlTyped /\ Ledger
  BY DEF ControlInv
<1>1. cmd[c].pc = "spawn" /\ UNCHANGED <<status, marker, unit, inbox>>
  BY DEF Spawn
<1>2. cmd[c] \in Commands /\ CmdOK(cmd[c]) /\ cmd[c].plan \in Seq(Services) /\ cmd[c].plan # <<>>
  BY <1>0, <1>1, CommandIs DEF CmdOK
<1>3. s \in Services
  BY <1>2
<1> HIDE DEF s
<1>4. ASSUME born < MaxBorn, born' = born + 1, NEW p \in FreePids, table' = NewProcess(p, s),
             cmd' = [cmd EXCEPT ![c].pc = "write", ![c].pid = p, ![c].start = born + 1]
      PROVE  ControlInv'
  <2> DEFINE x == [cmd[c] EXCEPT !.pc = "write", !.pid = p, !.start = born + 1]
  <2>0. table' = [table EXCEPT ![p] = [kind |-> "service", svc |-> s, born |-> born + 1]]
    BY <1>4 DEF NewProcess
  <2>1. /\ p \in PidSpace /\ table[p].kind = "none" /\ \A t \in Services : unit[t].pid # p
        /\ table' \in [PidSpace -> Processes] /\ table'[p].kind = "service" /\ table'[p].svc = s /\ table'[p].born = born + 1
        /\ \A q \in PidSpace \ {p} : table'[q] = table[q]
        /\ born' \in 1 .. MaxBorn /\ born + 1 \in 1 .. MaxBorn
    BY <1>0, <1>3, <1>4, <2>0, ProcessStarts
  <2>2. /\ x \in Commands /\ x.pc = "write" /\ x.pid = p /\ x.start = born + 1 /\ x.plan = cmd[c].plan
        /\ x.verb = cmd[c].verb /\ x.svc = cmd[c].svc /\ x.seen = cmd[c].seen
    <3>1. born + 1 \in 0 .. MaxBorn
      BY <2>1, ControlAssumption DEF ControlTyped
    <3> QED  BY <1>2, <2>1, <3>1 DEF Commands, Labels
  <2>3. cmd' = [cmd EXCEPT ![c] = x]
    BY <1>4
  <2> HIDE DEF x
  <2>4. CmdOK(x)
    BY <1>1, <1>2, <2>1, <2>2 DEF CmdOK
  <2>5. /\ cmd' \in [Clients -> Commands] /\ \A d \in Clients : CmdOK(cmd[d])'
        /\ cmd'[c] = x /\ \A d \in Clients \ {c} : cmd'[d] = cmd[d]
    BY <1>0, <2>2, <2>3, <2>4, CommandMoves
  <2>6. ControlTyped'
    BY <1>0, <1>1, <2>1, <2>5 DEF ControlTyped, StatusOK, UnitOK
  <2>7. Ledger'
    <3>1. \A t \in Services : status'[t].start \in {0, status[t].start} /\ unit'[t].pid \in {Unset, unit[t].pid}
      BY <1>1
    <3>2. \A d \in Clients :
            \/ cmd'[d] = cmd[d]
            \/ /\ "service" = "service" /\ cmd'[d].pc = "write" /\ cmd'[d].start = born + 1 /\ Head(cmd'[d].plan) = s
               /\ cmd'[d].seen = cmd[d].seen
      BY <2>2, <2>5 DEF s
    <3> QED  BY <1>0, <1>3, <1>4, <2>0, <3>1, <3>2, LedgerGrows
  <2>8. Marked' /\ (Scanning' => Scanning)
    BY <1>1, <2>1, <2>2, <2>5, MarkedKept
  <2>8a. Head(cmd'[c].plan) = s
    BY <2>2, <2>5 DEF s
  <2>9. ASSUME Lone PROVE Alone'
    <3>1. ~Scanning'
      BY <1>1, <2>8, <2>9, Unwatched
    <3>2. \A d \in Clients \ {c} : cmd'[d] = Ready /\ cmd'[d].pc = "idle"
      BY <1>1, <2>5, <2>9, OthersReady
    <3>3. ASSUME NEW q \in PidSpace, NEW t \in Services, Runs(q, t)'
          PROVE  Filed(q, t)' \/ \E d \in Clients : AboutToFile(d, q, t)'
      <4>1. CASE q = p
        <5>1. AboutToFile(c, q, t)'
          BY <2>1, <2>2, <2>5, <3>3, <4>1 DEF AboutToFile, Runs, s
        <5> QED  BY <5>1
      <4>2. CASE q # p
        <5>1. table'[q] = table[q] /\ Runs(q, t)
          BY <2>1, <3>3, <4>2 DEF Runs
        <5>2. Filed(q, t)
          BY <1>1, <2>9, <5>1, Visible
        <5> QED  BY <1>1, <5>1, <5>2 DEF Filed
      <4> QED  BY <4>1, <4>2
    <3>4. ASSUME NEW q \in PidSpace, table'[q].kind = "service", table'[q].svc = s
          PROVE  q = p
      <4>1. HeldBy(cmd[c])
        BY <2>9 DEF ControlInv, LoneInv, Alone
      <4> QED  BY <1>1, <2>1, <3>4, <4>1 DEF HeldBy, Runs, s
    <3>5. ASSUME NEW d \in Clients PROVE HeldBy(cmd[d])'
      <4>1. CASE d = c
        BY <2>1, <2>2, <2>5, <2>8a, <3>4, <4>1 DEF HeldBy, Runs
      <4>2. CASE d # c
        BY <3>2, <4>2 DEF HeldBy
      <4> QED  BY <4>1, <4>2
    <3> QED  BY <3>1, <3>2, <3>3, <3>5 DEF Alone
  <2> QED  BY <2>6, <2>7, <2>8, <2>9 DEF ControlInv, LoneInv, Lone
<1>5. CASE Finish(c) /\ UNCHANGED <<table, born>>
  BY <1>1, <1>5, FinishStepQuiet
<1>6. CASE cmd' = [cmd EXCEPT ![c] = [cmd[c] EXCEPT !.pc = "next", !.plan = Tail(cmd[c].plan)]] /\ UNCHANGED <<table, born>>
  BY <1>1, <1>2, <1>6, PassStep
<1> QED  BY <1>4, <1>5, <1>6 DEF Spawn, s

LEMMA WriteRunningStep ==
  ASSUME ControlInv, UNCHANGED setting, NEW c \in Clients, WriteRunning(c)
  PROVE  ControlInv'
<1> DEFINE s == Head(cmd[c].plan)
           new == [state |-> "running", pid |-> cmd[c].pid, start |-> cmd[c].start]
           rest == Tail(cmd[c].plan)
           x == [cmd[c] EXCEPT !.pc = "next", !.plan = rest, !.pid = Unset, !.start = 0]
<1>0. ControlTyped /\ Ledger
  BY DEF ControlInv
<1>1. /\ cmd[c].pc = "write" /\ UNCHANGED <<table, marker, unit, inbox, born>>
      /\ status' = [status EXCEPT ![s] = new] /\ cmd' = [cmd EXCEPT ![c] = x]
  BY DEF WriteRunning
<1>2. /\ cmd[c] \in Commands /\ CmdOK(cmd[c]) /\ cmd[c].plan \in Seq(Services) /\ cmd[c].plan # <<>>
      /\ cmd[c].pid \in PidSpace /\ cmd[c].start \in 0 .. MaxBorn
  BY <1>0, <1>1, CommandIs DEF CmdOK
<1>3. s \in Services /\ rest \in Seq(Services)
  BY <1>2
<1> HIDE DEF rest
<1>4. x \in Commands /\ x.pc = "next" /\ x.verb = cmd[c].verb /\ x.svc = cmd[c].svc /\ x.seen = cmd[c].seen
  <2>1. 0 \in 0 .. MaxBorn /\ Unset \in PidSpace \cup {Unset}
    BY ControlAssumption
  <2> QED  BY <1>2, <1>3, <2>1 DEF Commands, Labels
<1>5. new \in Statuses /\ StatusOK(new) /\ new.state = "running" /\ new.pid = cmd[c].pid /\ new.start = cmd[c].start
  BY <1>2 DEF Statuses, StatusOK
<1> HIDE DEF s, x, new
<1>6. CmdOK(x)
  BY <1>1, <1>2, <1>4 DEF CmdOK
<1>7. /\ cmd' \in [Clients -> Commands] /\ \A d \in Clients : CmdOK(cmd[d])'
      /\ cmd'[c] = x /\ \A d \in Clients \ {c} : cmd'[d] = cmd[d]
  BY <1>0, <1>1, <1>4, <1>6, CommandMoves
<1>8. status' \in [Services -> Statuses] /\ status'[s] = new /\ \A t \in Services \ {s} : status'[t] = status[t]
  BY <1>0, <1>1, <1>3, <1>5 DEF ControlTyped
<1>9. ControlTyped'
  BY <1>0, <1>1, <1>5, <1>7, <1>8 DEF ControlTyped, StatusOK, UnitOK
<1>10. Ledger'
  <2>1. \A t \in Services : \/ status'[t].start \in {0, status[t].start}
                            \/ \E d \in Clients : /\ cmd[d].pc = "write" /\ t = Head(cmd[d].plan)
                                                  /\ status'[t].start = cmd[d].start
    BY <1>1, <1>5, <1>8 DEF s
  <2>2. \A d \in Clients : cmd'[d] = cmd[d] \/ (cmd'[d].pc # "write" /\ AimedBy(cmd[d])')
    BY <1>1, <1>4, <1>7, SeenIs DEF AimedBy
  <2> QED  BY <1>0, <1>1, <1>4, <1>7, <2>1, <2>2, LedgerKept
<1>11. Marked' /\ (Scanning' => Scanning)
  BY <1>1, <1>4, <1>7, MarkedKept
<1>12. ASSUME Lone PROVE Alone'
  <2>1. ~Scanning'
    BY <1>1, <1>11, <1>12, Unwatched
  <2>2. \A d \in Clients \ {c} : cmd[d] = Ready /\ cmd'[d] = Ready /\ cmd[d].pc = "idle"
    BY <1>1, <1>7, <1>12, OthersReady
  <2>3. ASSUME NEW p \in PidSpace, NEW t \in Services, Runs(p, t)' PROVE Filed(p, t)'
    <3>1. table' = table /\ Runs(p, t)
      BY <1>1, <2>3 DEF Runs
    <3>2. CASE t = s
      <4>1. p = cmd[c].pid /\ cmd[c].start = table[p].born
        BY <1>1, <1>12, <3>1, <3>2 DEF ControlInv, LoneInv, Alone, HeldBy, s
      <4> QED  BY <1>5, <1>8, <3>1, <3>2, <4>1 DEF Filed
    <3>3. CASE t # s
      <4>1. Filed(p, t)
        BY <1>1, <1>12, <2>2, <3>1, <3>3, Unwatched DEF ControlInv, LoneInv, Alone, AboutToFile, Tended, s
      <4> QED  BY <1>8, <3>1, <3>3, <4>1 DEF Filed
    <3> QED  BY <3>2, <3>3
  <2>4. \A d \in Clients : cmd'[d].pc \in {"idle", "next"}
    BY <1>4, <1>7, <2>2
  <2>5. \A d \in Clients : HeldBy(cmd[d])'
    BY <2>4 DEF HeldBy
  <2> QED  BY <2>1, <2>2, <2>3, <2>5 DEF Alone
<1> QED  BY <1>9, <1>10, <1>11, <1>12 DEF ControlInv, LoneInv, Lone

-----------------------------------------------------------------------------
(* Steps of the scanner and of other processes. *)

\* Processes end and the files stay; a scanner that lives keeps its units, and one
\* that does not had none to tell of.
LEMMA EndStep ==
  ASSUME ControlInv, UNCHANGED <<setting, cmd, marker, born, status, inbox>>,
         table' \in [PidSpace -> Processes], \A p \in PidSpace : table'[p] = table[p] \/ table'[p].kind = "none",
         unit' \in [Services -> Units],
         \A s \in Services : UnitOK(unit'[s]) /\ unit'[s].pid \in {Unset, unit[s].pid},
         Scanning' => unit' = unit,
         Scanning' \/ (Lone => \A s \in Services : ~Tended(s))
  PROVE  ControlInv'
<1>0. ControlTyped /\ Ledger
  BY DEF ControlInv
<1>1. ControlTyped'
  BY <1>0 DEF ControlTyped, StatusOK, CmdOK, UnitOK
<1>2. Ledger'
  BY <1>0, LedgerKept
<1>3. Marked' /\ (Scanning' => Scanning)
  BY MarkedKept
<1>4. ASSUME Lone PROVE Alone'
  <2>0. Alone
    BY <1>4 DEF ControlInv, LoneInv
  <2>1. \A p \in PidSpace : \A s : Runs(p, s)' => Runs(p, s) /\ table'[p] = table[p]
    BY DEF Runs
  <2>2. ASSUME NEW p \in PidSpace, NEW s \in Services, Runs(p, s)'
        PROVE  /\ Filed(p, s)' \/ Tended(s)' \/ \E c \in Clients : AboutToFile(c, p, s)'
               /\ Scanning' => unit'[s].pid = p
    <3>1. /\ Filed(p, s) \/ Tended(s) \/ \E c \in Clients : AboutToFile(c, p, s)
          /\ Scanning => unit[s].pid = p
      BY <2>0, <2>1, <2>2 DEF Alone
    <3>2. Filed(p, s) => Filed(p, s)'
      BY <2>1, <2>2 DEF Filed
    <3>3. \A c \in Clients : AboutToFile(c, p, s) => AboutToFile(c, p, s)'
      BY <2>1, <2>2 DEF AboutToFile
    <3>4. Tended(s) => Tended(s)'
      BY <1>4 DEF Tended
    <3> QED  BY <1>3, <3>1, <3>2, <3>3, <3>4
  <2>3. \A d, e \in Clients : cmd'[d] # Ready /\ cmd'[e] # Ready => d = e
    BY <2>0 DEF Alone
  <2>4. ASSUME NEW d \in Clients PROVE HeldBy(cmd[d])'
    <3>1. HeldBy(cmd[d]) /\ cmd'[d] = cmd[d]
      BY <2>0 DEF Alone
    <3> QED  BY <3>1 DEF HeldBy, Runs
  <2> QED  BY <2>2, <2>3, <2>4 DEF Alone
<1> QED  BY <1>1, <1>2, <1>3, <1>4 DEF ControlInv, LoneInv, Lone

LEMMA ExitStep ==
  ASSUME ControlInv, UNCHANGED setting, NEW p \in PidSpace, Exits(p)
  PROVE  ControlInv'
<1>1. ControlTyped /\ UNCHANGED <<cmd, marker, born, status, inbox, unit>> /\ table' = [table EXCEPT ![p] = Vacant]
  BY DEF Exits, ControlInv
<1>2. table' \in [PidSpace -> Processes] /\ \A q \in PidSpace : table'[q] = table[q] \/ table'[q].kind = "none"
  BY <1>1, ProcessEnds
<1>3. unit' \in [Services -> Units] /\ \A s \in Services : UnitOK(unit'[s])
  BY <1>1 DEF ControlTyped
<1>4. Scanning' \/ ~Scanning
  <2>1. table[p].kind = "service" /\ table \in [PidSpace -> Processes]
    BY DEF Exits, ControlInv, ControlTyped
  <2>2. \A q \in PidSpace : table[q].kind = "scanner" => table'[q] = table[q]
    BY <1>1, <2>1
  <2> QED  BY <2>2 DEF Scanning
<1> QED  BY <1>1, <1>2, <1>3, <1>4, EndStep DEF Tended

LEMMA ScannerKilledStep ==
  ASSUME ControlInv, UNCHANGED setting, ScannerKilled
  PROVE  ControlInv'
<1>1. /\ ControlTyped /\ UNCHANGED <<cmd, marker, born, status, inbox>>
      /\ table' = [p \in PidSpace |-> IF table[p].kind = "scanner" THEN Vacant ELSE table[p]]
      /\ unit' = [s \in Services |-> NoUnit]
  BY DEF ScannerKilled, ControlInv
<1>2. Vacant \in Processes /\ Vacant.kind = "none"
  BY ControlAssumption DEF Vacant, Processes
<1>3. /\ table' \in [PidSpace -> Processes] /\ \A q \in PidSpace : table'[q] = table[q] \/ table'[q].kind = "none"
      /\ \A q \in PidSpace : table'[q].kind # "scanner"
  BY <1>1, <1>2 DEF ControlTyped
<1>4. unit' \in [Services -> Units] /\ \A s \in Services : UnitOK(unit'[s]) /\ unit'[s].pid = Unset
  BY <1>1 DEF NoUnit, Units, UnitOK
<1>5. ~Scanning'
  BY <1>3 DEF Scanning
<1>6. Lone => \A s \in Services : ~Tended(s)
  BY DEF Lone, ScannerKilled, Tended
<1> QED  BY <1>1, <1>3, <1>4, <1>5, <1>6, EndStep

\* A scanner's step on one unit, whose child is gone, is left as it is or is told of.
LEMMA UnitStep ==
  ASSUME ControlInv, UNCHANGED <<setting, cmd, marker, born>>, Scanning, NEW s \in Services,
         table' \in [PidSpace -> Processes], \A p \in PidSpace : table'[p] = table[p] \/ table'[p].kind = "none",
         \A p \in PidSpace : table[p].kind = "scanner" => table'[p] = table[p],
         status' \in [Services -> Statuses], StatusOK(status'[s]), status'[s].start \in {0, status[s].start},
         unit' \in [Services -> Units], UnitOK(unit'[s]), unit'[s].pid \in {Unset, unit[s].pid},
         inbox' \in [Services -> {"none", "up", "down", "restart"}],
         \A t \in Services \ {s} : status'[t] = status[t] /\ unit'[t] = unit[t],
         \/ status'[s] = status[s] /\ unit'[s].pid = unit[s].pid /\ unit'[s].st = unit[s].st
         \/ unit[s].pid # Unset => table'[unit[s].pid].kind = "none"
         \/ /\ unit'[s].pid = unit[s].pid
            /\ \/ unit'[s].st = "starting"
               \/ status'[s].state = "running" /\ status'[s].pid = unit[s].pid /\ status'[s].start = 0
  PROVE  ControlInv'
<1>0. ControlTyped /\ Ledger
  BY DEF ControlInv
<1>1. ControlTyped'
  BY <1>0 DEF ControlTyped, StatusOK, CmdOK, UnitOK
<1>2. Ledger'
  BY <1>0, LedgerKept
<1>3. Marked' /\ Scanning'
  BY MarkedKept DEF Scanning
<1>4. ASSUME Lone PROVE Alone'
  <2>0. Alone
    BY <1>4 DEF ControlInv, LoneInv
  <2>1. \A c \in Clients : cmd'[c].pc \in {"idle", "check", "post"} /\ cmd[c].pc # "write"
    BY <1>4, Unwatched
  <2>2. ASSUME NEW p \in PidSpace, NEW t \in Services, Runs(p, t)'
        PROVE  (Filed(p, t)' \/ Tended(t)') /\ unit'[t].pid = p
    <3>1. Runs(p, t) /\ table'[p] = table[p] /\ table'[p].kind # "none"
      BY <2>2 DEF Runs
    <3>2. unit[t].pid = p /\ (Filed(p, t) \/ Tended(t))
      BY <2>0, <2>1, <3>1 DEF Alone, AboutToFile
    <3>3. CASE status'[t] = status[t] /\ unit'[t].pid = p /\ unit'[t].st = unit[t].st
      BY <1>3, <3>1, <3>2, <3>3 DEF Filed, Tended
    <3>4. CASE /\ unit'[t].pid = p
               /\ \/ unit'[t].st = "starting"
                  \/ status'[t].state = "running" /\ status'[t].pid = p /\ status'[t].start = 0
      BY <1>3, <3>4 DEF Filed, Tended
    <3> QED  BY <3>1, <3>2, <3>3, <3>4, PidsAreNumbers
  <2>3. \A d, e \in Clients : cmd'[d] # Ready /\ cmd'[e] # Ready => d = e
    BY <2>0 DEF Alone
  <2>4. \A d \in Clients : HeldBy(cmd[d])'
    BY <2>1 DEF HeldBy
  <2> QED  BY <2>2, <2>3, <2>4 DEF Alone
<1> QED  BY <1>1, <1>2, <1>3, <1>4 DEF ControlInv, LoneInv, Lone

\* A scanner is none of its own units.
LEMMA UnitIsNoScanner ==
  ASSUME ControlInv, NEW s \in Services, unit[s].pid \in PidSpace,
         table' = [table EXCEPT ![unit[s].pid] = Vacant]
  PROVE  \A p \in PidSpace : table[p].kind = "scanner" => table'[p] = table[p]
<1>1. table[unit[s].pid].kind # "scanner" /\ table \in [PidSpace -> Processes]
  BY PidsAreNumbers DEF ControlInv, ControlTyped, Ledger, Runs
<1> QED  BY <1>1

LEMMA ScannerReapStep ==
  ASSUME ControlInv, UNCHANGED setting, NEW s \in Services, ScannerReap(s)
  PROVE  ControlInv'
<1> DEFINE dead == [state |-> "dead", pid |-> Unset, start |-> 0]
<1>1. /\ ControlTyped /\ Scanning /\ unit[s].pid # Unset /\ UNCHANGED <<cmd, marker, inbox, born>>
      /\ table' = [table EXCEPT ![unit[s].pid] = Vacant] /\ unit' = [unit EXCEPT ![s].pid = Unset, ![s].st = "none"]
      /\ status' = [status EXCEPT ![s] = dead]
  BY DEF ScannerReap, ControlInv
<1>2. unit[s].pid \in PidSpace
  BY <1>1 DEF ControlTyped, Units
<1>3. /\ table' \in [PidSpace -> Processes] /\ table'[unit[s].pid].kind = "none"
      /\ \A q \in PidSpace : table'[q] = table[q] \/ table'[q].kind = "none"
  BY <1>1, <1>2, ProcessEnds
<1>4. dead \in Statuses /\ StatusOK(dead) /\ dead.start = 0
  BY ControlAssumption DEF Statuses, StatusOK
<1>5. status' \in [Services -> Statuses] /\ status'[s] = dead /\ \A t \in Services \ {s} : status'[t] = status[t]
  BY <1>1, <1>4 DEF ControlTyped
<1>6. /\ unit' \in [Services -> Units] /\ unit'[s].pid = Unset /\ UnitOK(unit'[s])
      /\ \A t \in Services \ {s} : unit'[t] = unit[t]
  BY <1>1 DEF ControlTyped, Units, UnitOK
<1>8. \A p \in PidSpace : table[p].kind = "scanner" => table'[p] = table[p]
  BY <1>1, <1>2, UnitIsNoScanner
<1>7. inbox' \in [Services -> {"none", "up", "down", "restart"}]
  BY <1>1 DEF ControlTyped
<1> HIDE DEF dead
<1> QED  BY <1>1, <1>3, <1>4, <1>5, <1>6, <1>7, <1>8, UnitStep

LEMMA ScannerDrainStep ==
  ASSUME ControlInv, UNCHANGED setting, NEW s \in Services, ScannerDrain(s)
  PROVE  ControlInv'
<1> DEFINE p == unit[s].pid
           ends == inbox[s] \in {"down", "restart"}
           new == [desired |-> IF inbox[s] = "down" THEN "down" ELSE "up", pid |-> IF ends THEN Unset ELSE p,
                   st |-> IF ends THEN "none" ELSE unit[s].st]
<1>1. /\ ControlTyped /\ Scanning /\ UNCHANGED <<cmd, marker, born>> /\ inbox' = [inbox EXCEPT ![s] = "none"]
      /\ table' = IF ends /\ Alive(p) THEN [table EXCEPT ![p] = Vacant] ELSE table
      /\ unit' = [unit EXCEPT ![s] = new]
      /\ status' = IF inbox[s] = "restart" \/ (inbox[s] = "down" /\ p # Unset)
                   THEN [status EXCEPT ![s] = DefaultStatus] ELSE status
  BY DEF ScannerDrain, ControlInv
<1>2. p \in PidSpace \cup {Unset}
  BY <1>1 DEF ControlTyped, Units
<1>3. /\ new \in Units /\ new.pid = (IF ends THEN Unset ELSE p) /\ new.st = (IF ends THEN "none" ELSE unit[s].st)
      /\ UnitOK(new)
  <2>1. unit[s].st \in {"none", "spawned", "starting", "running"} /\ UnitOK(unit[s])
    BY <1>1 DEF ControlTyped, Units
  <2> QED  BY <1>2, <2>1 DEF Units, UnitOK
<1>4. unit' \in [Services -> Units] /\ unit'[s] = new /\ \A t \in Services \ {s} : unit'[t] = unit[t]
  BY <1>1, <1>3 DEF ControlTyped
<1>5. DefaultStatus \in Statuses /\ StatusOK(DefaultStatus) /\ DefaultStatus.start = 0
  BY ControlAssumption DEF DefaultStatus, Statuses, StatusOK
<1>6. /\ status' \in [Services -> Statuses] /\ StatusOK(status'[s]) /\ status'[s].start \in {0, status[s].start}
      /\ \A t \in Services \ {s} : status'[t] = status[t]
      /\ ~ends => status'[s] = status[s]
  BY <1>1, <1>5 DEF ControlTyped
<1>7. /\ table' \in [PidSpace -> Processes] /\ \A q \in PidSpace : table'[q] = table[q] \/ table'[q].kind = "none"
      /\ ends /\ p # Unset => table'[p].kind = "none"
  <2>1. CASE ends /\ Alive(p)
    BY <1>1, <1>2, <2>1, ProcessEnds DEF Alive
  <2>2. CASE ~(ends /\ Alive(p))
    BY <1>1, <2>2 DEF Alive, ControlTyped
  <2> QED  BY <2>1, <2>2
<1>8. inbox' \in [Services -> {"none", "up", "down", "restart"}]
  BY <1>1 DEF ControlTyped
<1>9. /\ unit'[s].pid = (IF ends THEN Unset ELSE unit[s].pid) /\ UnitOK(unit'[s])
      /\ unit'[s].st = (IF ends THEN "none" ELSE unit[s].st)
  BY <1>3, <1>4
<1>13. \A q \in PidSpace : table[q].kind = "scanner" => table'[q] = table[q]
  <2>1. CASE ends /\ Alive(p)
    BY <1>1, <1>2, <2>1, UnitIsNoScanner DEF Alive
  <2>2. CASE ~(ends /\ Alive(p))
    BY <1>1, <2>2
  <2> QED  BY <2>1, <2>2
<1>10. ends /\ unit[s].pid # Unset => table'[unit[s].pid].kind = "none"
  BY <1>7
<1> HIDE DEF p, ends, new
<1>11. unit'[s].pid \in {Unset, unit[s].pid}
  BY <1>9
<1>12. \/ status'[s] = status[s] /\ unit'[s].pid = unit[s].pid /\ unit'[s].st = unit[s].st
       \/ unit[s].pid # Unset => table'[unit[s].pid].kind = "none"
  BY <1>6, <1>9, <1>10
<1> QED  BY <1>1, <1>4, <1>6, <1>7, <1>8, <1>9, <1>11, <1>12, <1>13, UnitStep

\* The scanner writes that a child starts or runs.
LEMMA ScannerFileStep ==
  ASSUME ControlInv, UNCHANGED setting, NEW s \in Services, ScannerFile(s)
  PROVE  ControlInv'
<1>1. /\ ControlTyped /\ Scanning /\ UNCHANGED <<table, cmd, marker, inbox, born>> /\ unit[s].st # "none"
  BY DEF ScannerFile, ControlInv
<1>2. PICK state \in {"starting", "running"} :
        /\ unit' = [unit EXCEPT ![s].st = state]
        /\ status' = [status EXCEPT ![s] = [state |-> state, pid |-> unit[s].pid, start |-> 0]]
  BY DEF ScannerFile
<1>3. unit[s] \in Units /\ unit[s].pid \in PidSpace
  BY <1>1 DEF ControlTyped, UnitOK
<1> DEFINE new == [state |-> state, pid |-> unit[s].pid, start |-> 0]
<1>4. new \in Statuses /\ StatusOK(new) /\ new.start = 0 /\ new.state = state /\ new.pid = unit[s].pid
  BY <1>3, ControlAssumption DEF Statuses, StatusOK
<1>5. status' \in [Services -> Statuses] /\ status'[s] = new /\ \A t \in Services \ {s} : status'[t] = status[t]
  BY <1>1, <1>2, <1>4 DEF ControlTyped
<1>6. /\ unit' \in [Services -> Units] /\ unit'[s].pid = unit[s].pid /\ unit'[s].st = state /\ UnitOK(unit'[s])
      /\ \A t \in Services \ {s} : unit'[t] = unit[t]
  BY <1>1, <1>2, <1>3 DEF ControlTyped, Units, UnitOK
<1>7. table' \in [PidSpace -> Processes] /\ inbox' \in [Services -> {"none", "up", "down", "restart"}]
  BY <1>1 DEF ControlTyped
<1> HIDE DEF new
<1> QED  BY <1>1, <1>4, <1>5, <1>6, <1>7, UnitStep

LEMMA ScannerSpawnStep ==
  ASSUME ControlInv, UNCHANGED setting, NEW s \in Services, ScannerSpawn(s)
  PROVE  ControlInv'
<1>1. /\ ControlTyped /\ Ledger /\ Scanning /\ unit[s] = Pending /\ unit[s].pid = Unset /\ born < MaxBorn /\ born' = born + 1
      /\ UNCHANGED <<status, cmd, marker, inbox>>
  BY DEF ScannerSpawn, ControlInv, Pending
<1>2. PICK p \in FreePids :
        /\ table' = [table EXCEPT ![p] = [kind |-> "service", svc |-> s, born |-> born + 1]]
        /\ unit' = [unit EXCEPT ![s] = [desired |-> "up", pid |-> p, st |-> "spawned"]]
  BY DEF ScannerSpawn, NewProcess
<1>3. /\ p \in PidSpace /\ table[p].kind = "none" /\ \A t \in Services : unit[t].pid # p
      /\ table' \in [PidSpace -> Processes] /\ table'[p].kind = "service" /\ table'[p].svc = s /\ table'[p].born = born + 1
      /\ \A q \in PidSpace \ {p} : table'[q] = table[q]
      /\ born' \in 1 .. MaxBorn /\ born + 1 \in 1 .. MaxBorn
  BY <1>1, <1>2, ProcessStarts
<1> DEFINE new == [desired |-> "up", pid |-> p, st |-> "spawned"]
<1>4. new \in Units /\ UnitOK(new) /\ new.pid = p /\ new.st = "spawned"
  BY <1>3 DEF Units, UnitOK
<1>6. /\ unit' \in [Services -> Units] /\ unit'[s] = new /\ \A t \in Services \ {s} : unit'[t] = unit[t]
  BY <1>1, <1>2, <1>4 DEF ControlTyped
<1> HIDE DEF new
<1>7. ControlTyped'
  BY <1>1, <1>3, <1>4, <1>6 DEF ControlTyped, StatusOK, CmdOK, UnitOK
<1>8. Ledger'
  <2> DEFINE k == "service"
  <2>1. \A t \in Services : status'[t].start \in {0, status[t].start}
    BY <1>1
  <2>2. \A c \in Clients :
          \/ cmd'[c] = cmd[c]
          \/ /\ k = "service" /\ cmd'[c].pc = "write" /\ cmd'[c].start = born + 1 /\ Head(cmd'[c].plan) = s
             /\ cmd'[c].seen = cmd[c].seen
    BY <1>1
  <2>3. k \in {"service", "scanner", "stranger"} /\ k = "service" /\ s \in Services \cup {0}
    OBVIOUS
  <2>4. table' = [table EXCEPT ![p] = [kind |-> k, svc |-> s, born |-> born + 1]]
    BY <1>2
  <2> HIDE DEF k
  <2>5. \A t \in Services : unit'[t].pid \in {Unset, unit[t].pid} \/ (unit'[t].pid = p /\ t = s /\ k = "service")
    BY <1>4, <1>6, <2>3
  <2>6. ControlTyped /\ Ledger /\ p \in FreePids /\ born' = born + 1 /\ (k = "service" => s \in Services)
    BY <1>1
  <2> QED  BY <2>1, <2>2, <2>3, <2>4, <2>5, <2>6, LedgerGrows, ZenonT(120)
<1>9. Marked' /\ Scanning'
  <2>1. Marked'
    BY <1>1, <1>3, MarkedKept
  <2>2. Scanning'
    BY <1>1, <1>3 DEF Scanning
  <2> QED  BY <2>1, <2>2
<1>10. ASSUME Lone PROVE Alone'
  <2>0. Alone
    BY <1>10 DEF ControlInv, LoneInv
  <2>1. \A c \in Clients : cmd'[c].pc \in {"idle", "check", "post"} /\ cmd[c].pc # "write"
    BY <1>1, <1>10, Unwatched
  <2>2. ASSUME NEW q \in PidSpace, NEW t \in Services, Runs(q, t)'
        PROVE  (Filed(q, t)' \/ Tended(t)') /\ unit'[t].pid = q
    <3>1. CASE q = p
      BY <1>3, <1>4, <1>6, <1>9, <2>2, <3>1 DEF Runs, Tended
    <3>2. CASE q # p
      <4>1. Runs(q, t) /\ table'[q] = table[q]
        BY <1>3, <2>2, <3>2 DEF Runs
      <4>2. unit[t].pid = q /\ (Filed(q, t) \/ Tended(t))
        BY <1>1, <2>0, <2>1, <4>1 DEF Alone, AboutToFile
      <4>3. t # s
        BY <1>1, <4>2, PidsAreNumbers
      <4> QED  BY <1>1, <1>6, <1>9, <4>1, <4>2, <4>3 DEF Filed, Tended
    <3> QED  BY <3>1, <3>2
  <2>3. \A d, e \in Clients : cmd'[d] # Ready /\ cmd'[e] # Ready => d = e
    BY <1>1, <2>0 DEF Alone
  <2>4. \A d \in Clients : HeldBy(cmd[d])'
    BY <2>1 DEF HeldBy
  <2> QED  BY <2>2, <2>3, <2>4 DEF Alone
<1> QED  BY <1>7, <1>8, <1>9, <1>10 DEF ControlInv, LoneInv, Lone

LEMMA ScannerUpStep ==
  ASSUME ControlInv, UNCHANGED setting, ScannerUp
  PROVE  ControlInv'
<1>1. /\ ControlTyped /\ Ledger /\ ~Scanning /\ "up" \in setting.moves /\ born < MaxBorn /\ born' = born + 1
      /\ UNCHANGED <<status, cmd, inbox>> /\ unit' = [s \in Services |-> Pending]
  BY DEF ScannerUp, ControlInv
<1>2. PICK p \in FreePids :
        /\ table' = [table EXCEPT ![p] = [kind |-> "scanner", svc |-> 0, born |-> born + 1]] /\ marker' = p
  BY DEF ScannerUp
<1>3. /\ p \in PidSpace /\ table[p].kind = "none" /\ \A t \in Services : unit[t].pid # p
      /\ table' \in [PidSpace -> Processes] /\ table'[p].kind = "scanner" /\ table'[p].svc = 0 /\ table'[p].born = born + 1
      /\ \A q \in PidSpace \ {p} : table'[q] = table[q]
      /\ born' \in 1 .. MaxBorn /\ born + 1 \in 1 .. MaxBorn
  BY <1>1, <1>2, ProcessStarts
<1>4. unit' \in [Services -> Units] /\ \A s \in Services : UnitOK(unit'[s]) /\ unit'[s].pid = Unset
  BY <1>1 DEF Units, UnitOK, Pending
<1>5. ControlTyped'
  BY <1>1, <1>2, <1>3, <1>4 DEF ControlTyped, StatusOK, CmdOK, UnitOK
<1>6. Ledger'
  <2>1. \A t \in Services : status'[t].start = status[t].start
    BY <1>1
  <2>2. \A c \in Clients : cmd'[c] = cmd[c]
    BY <1>1
  <2>3. \A t \in Services : status'[t].start \in {0, status[t].start} /\ unit'[t].pid \in {Unset, unit[t].pid}
    BY <1>4, <2>1
  <2> QED  BY <1>1, <1>2, <2>2, <2>3, LedgerGrows
<1>7. Marked'
  BY <1>1, <1>2, <1>3 DEF Marked, Scanning
<1>8. LoneInv'
  BY <1>1 DEF LoneInv, Lone
<1> QED  BY <1>5, <1>6, <1>7, <1>8 DEF ControlInv

LEMMA StrangerStep ==
  ASSUME ControlInv, UNCHANGED setting, NEW p \in PidSpace, Stranger(p)
  PROVE  ControlInv'
<1>1. /\ ControlTyped /\ Ledger /\ p \in FreePids /\ born < MaxBorn /\ born' = born + 1
      /\ table' = [table EXCEPT ![p] = [kind |-> "stranger", svc |-> 0, born |-> born + 1]]
      /\ UNCHANGED <<status, cmd, marker, unit, inbox>>
  BY DEF Stranger, ControlInv
<1>2. /\ table[p].kind = "none" /\ table' \in [PidSpace -> Processes] /\ table'[p].kind = "stranger"
      /\ \A q \in PidSpace \ {p} : table'[q] = table[q]
      /\ born' \in 1 .. MaxBorn
  BY <1>1, ProcessStarts
<1>3. ControlTyped'
  BY <1>1, <1>2 DEF ControlTyped, StatusOK, CmdOK, UnitOK
<1>4. Ledger'
  <2>1. \A t \in Services : status'[t].start = status[t].start /\ unit'[t].pid = unit[t].pid
    BY <1>1
  <2>2. \A c \in Clients : cmd'[c] = cmd[c]
    BY <1>1
  <2> QED  BY <1>1, <2>1, <2>2, LedgerGrows
<1>5. Marked' /\ (Scanning' => Scanning)
  BY <1>1, <1>2, MarkedKept
<1>6. ASSUME Lone PROVE Alone'
  <2>0. Alone
    BY <1>6 DEF ControlInv, LoneInv
  <2>1. ASSUME NEW q \in PidSpace, NEW s, Runs(q, s)' PROVE Runs(q, s) /\ table'[q] = table[q]
    BY <1>2, <2>1 DEF Runs
  <2>2. ASSUME NEW q \in PidSpace, NEW s \in Services, Runs(q, s)'
        PROVE  /\ Filed(q, s)' \/ Tended(s)' \/ \E c \in Clients : AboutToFile(c, q, s)'
               /\ Scanning' => unit'[s].pid = q
    <3>1. /\ Filed(q, s) \/ Tended(s) \/ \E c \in Clients : AboutToFile(c, q, s)
          /\ Scanning => unit[s].pid = q
      BY <2>0, <2>1, <2>2 DEF Alone
    <3>2. Filed(q, s) => Filed(q, s)'
      BY <1>1, <2>1, <2>2 DEF Filed
    <3>3. \A c \in Clients : AboutToFile(c, q, s) => AboutToFile(c, q, s)'
      BY <1>1, <2>1, <2>2 DEF AboutToFile
    <3>4. Tended(s) => Tended(s)'
      BY <1>1, <1>2 DEF Tended, Scanning
    <3> QED  BY <1>1, <1>5, <3>1, <3>2, <3>3, <3>4
  <2>3. \A d, e \in Clients : cmd'[d] # Ready /\ cmd'[e] # Ready => d = e
    BY <1>1, <2>0 DEF Alone
  <2>4. ASSUME NEW d \in Clients PROVE HeldBy(cmd[d])'
    <3>1. HeldBy(cmd[d]) /\ cmd'[d] = cmd[d]
      BY <1>1, <2>0 DEF Alone
    <3> QED  BY <1>2, <3>1 DEF HeldBy, Runs
  <2> QED  BY <2>2, <2>3, <2>4 DEF Alone
<1> QED  BY <1>3, <1>4, <1>5, <1>6 DEF ControlInv, LoneInv, Lone

-----------------------------------------------------------------------------
(* The invariant. *)

LEMMA ControlStarts ==
  ASSUME ControlInit
  PROVE  ControlInv /\ setting \in Settings
<1>0. FirstPid \in PidSpace
  BY ControlAssumption DEF FirstPid
<1>1. /\ status = [s \in Services |-> DefaultStatus] /\ inbox = [s \in Services |-> "none"]
      /\ cmd = [c \in Clients |-> Ready] /\ born = 1 /\ setting \in Settings
      /\ marker = IF setting.scanner THEN FirstPid ELSE Unset
  BY DEF ControlInit
<1>2. /\ \A s \in Services : unit[s].pid = Unset /\ UnitOK(unit[s])
      /\ unit \in [Services -> Units]
  BY DEF ControlInit, NoUnit, Pending, Units, UnitOK
<1>3. /\ table \in [PidSpace -> Processes]
      /\ \A p \in PidSpace : \/ table[p].kind = "none"
                             \/ table[p].kind = "scanner" /\ table[p].born = 1 /\ setting.scanner /\ p = FirstPid
  <2>1. Vacant \in Processes /\ Vacant.kind = "none"
    BY ControlAssumption DEF Vacant, Processes
  <2> DEFINE first == [kind |-> "scanner", svc |-> 0, born |-> 1]
  <2>2. first \in Processes /\ first.kind = "scanner" /\ first.born = 1
    BY ControlAssumption DEF Processes
  <2>3. table = [p \in PidSpace |-> IF setting.scanner /\ p = FirstPid THEN first ELSE Vacant]
    BY DEF ControlInit
  <2> HIDE DEF first
  <2> QED  BY <2>1, <2>2, <2>3
<1>4. DefaultStatus \in Statuses /\ StatusOK(DefaultStatus) /\ DefaultStatus.start = 0
  BY ControlAssumption DEF DefaultStatus, Statuses, StatusOK
<1>5. marker \in PidSpace \cup {Unset} /\ born \in 1 .. MaxBorn
  BY <1>0, <1>1, ControlAssumption
<1>6. ControlTyped
  BY <1>1, <1>2, <1>3, <1>4, <1>5, ReadyIs, ReadyOK DEF ControlTyped
<1>7. Ledger
  BY <1>1, <1>2, <1>3, <1>4, ReadyIs, ReadyOK DEF Ledger, AimedBy
<1>8. Marked
  BY <1>1, <1>3, ReadyIs DEF Marked, Scanning
<1>9. Alone
  BY <1>1, <1>3, ReadyIs DEF Alone, Runs, HeldBy
<1> QED  BY <1>1, <1>6, <1>7, <1>8, <1>9 DEF ControlInv, LoneInv

LEMMA ControlKept ==
  ASSUME ControlInv, setting \in Settings, ControlNext
  PROVE  ControlInv' /\ setting' \in Settings
<1>0. UNCHANGED setting
  BY DEF ControlNext
<1>1. ASSUME NEW c \in Clients, Command(c) PROVE ControlInv'
  BY <1>0, <1>1, CheckStep, PostStep, RecheckStep, DependentsStep, ReadStep, TermStep, KillStep, WriteDownStep, StartNextStep, SpawnStep,
     WriteRunningStep DEF Command
<1>2. ASSUME NEW c \in Clients, NEW v \in setting.verbs, NEW s \in Services, Issue(c, v, s) PROVE ControlInv'
  BY <1>0, <1>2, IssueStep
<1>3. CASE ScannerUp \/ ScannerKilled
  BY <1>0, <1>3, ScannerUpStep, ScannerKilledStep
<1>4. ASSUME NEW s \in Services, ScannerSpawn(s) \/ ScannerFile(s) \/ ScannerDrain(s) \/ ScannerReap(s)
      PROVE  ControlInv'
  BY <1>0, <1>4, ScannerSpawnStep, ScannerFileStep, ScannerDrainStep, ScannerReapStep
<1>5. ASSUME NEW p \in PidSpace, Exits(p) \/ Stranger(p) PROVE ControlInv'
  BY <1>0, <1>5, ExitStep, StrangerStep
<1> QED  BY <1>0, <1>1, <1>2, <1>3, <1>4, <1>5 DEF ControlNext

LEMMA ControlRests ==
  ASSUME ControlInv, setting \in Settings, UNCHANGED <<controlVars, setting>>
  PROVE  ControlInv' /\ setting' \in Settings
<1>1. ControlTyped'
  BY DEF ControlInv, ControlTyped, StatusOK, CmdOK, UnitOK, controlVars
<1>2. Ledger'
  BY DEF ControlInv, Ledger, Dated, AimedBy, Runs, controlVars
<1>3. Marked'
  BY DEF ControlInv, Marked, Scanning, controlVars
<1>4. LoneInv'
  BY DEF ControlInv, LoneInv, Lone, Alone, HeldBy, Runs, Filed, AboutToFile, Tended, Scanning, controlVars
<1> QED  BY <1>1, <1>2, <1>3, <1>4 DEF ControlInv

\* The state of commands, status files, marker, units and processes
\* (src/xinit/xinit.xsh): typed, every start time belongs to one process, the
\* marker names the scanner, and a lone command finds what it has started.
THEOREM ControlInvariant == ControlSpec => [](ControlInv /\ setting \in Settings)
<1>1. ControlInit => ControlInv /\ setting \in Settings
  BY ControlStarts
<1>2. ControlInv /\ setting \in Settings /\ [ControlNext]_<<controlVars, setting>> => (ControlInv /\ setting \in Settings)'
  BY ControlKept, ControlRests
<1> QED  BY <1>1, <1>2, PTL DEF ControlSpec

-----------------------------------------------------------------------------
(* What follows from it. *)

\* Two processes of one service are the same: start_one_service reads the status
\* file first, and the file of a running service names its process.
THEOREM ServicesAreSound == ControlSpec => []ServicesSound
<1>1. ASSUME ControlInv PROVE ControlTypeOK
  <2>1. \A c \in Clients : cmd[c].pc \in Labels
    BY <1>1 DEF ControlInv, ControlTyped, Commands
  <2> QED  BY <1>1, <2>1, ControlAssumption DEF ControlInv, ControlTyped, ControlTypeOK, Statuses, Processes, Labels
<1>2. ASSUME ControlInv PROVE OneInstance
  <2> SUFFICES ASSUME Lone, NEW s \in Services, NEW p \in PidSpace, NEW q \in PidSpace, Runs(p, s), Runs(q, s)
               PROVE  p = q
    BY DEF OneInstance
  <2>1. Alone
    BY <1>2 DEF ControlInv, LoneInv
  <2>2. ASSUME NEW c \in Clients, AboutToFile(c, p, s) \/ AboutToFile(c, q, s) PROVE p = q
    BY <2>1, <2>2 DEF Alone, HeldBy, AboutToFile
  <2>3. CASE Filed(p, s) /\ Filed(q, s)
    BY <2>3 DEF Filed
  <2>4. CASE Tended(s)
    BY <2>1, <2>4 DEF Alone, Tended
  <2> QED  BY <2>1, <2>2, <2>3, <2>4 DEF Alone
<1> QED  BY <1>1, <1>2, ControlInvariant, PTL DEF ServicesSound

\* stop_service signals the group its status file names: a process of that
\* service, by its start time, or one that took the pid after the file was read;
\* and not while a running service needs it, which running_dependents reads first.
THEOREM StopSparesOthers == ControlSpec => []StopSpares
<1>1. ASSUME ControlInv PROVE SignalsSpare
  <2> SUFFICES ASSUME NEW c \in Clients, cmd[c].pc \in {"term", "kill"}, cmd[c].start # 0, Alive(cmd[c].pid)
               PROVE  Runs(cmd[c].pid, cmd[c].svc) \/ table[cmd[c].pid].born > cmd[c].seen
    BY DEF SignalsSpare
  <2> QED  BY <1>1 DEF ControlInv, Ledger, AimedBy, Alive
<1>2. ASSUME ControlInv PROVE StopRefusesNeeded
  BY <1>2 DEF StopRefusesNeeded, ControlInv, LoneInv, Alone, HeldBy
<1> QED  BY <1>1, <1>2, ControlInvariant, PTL DEF StopSpares

\* A stop writes "down", and a restart starts again, when no process of the
\* service is left: what the pid it read stood for was the only one.
THEOREM StopsEnd == ControlSpec => []StopEnds
<1>1. ASSUME ControlInv PROVE StopEnds
  BY <1>1 DEF StopEnds, ControlInv, LoneInv, Alone, HeldBy
<1> QED  BY <1>1, ControlInvariant, PTL
=============================================================================
