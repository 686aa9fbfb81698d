------------------------------- MODULE Builds -------------------------------
(***************************************************************************)
(* pm repo build: the scheduler that runs the nodes of a plan as child     *)
(* processes, and the artifact store they commit to, which several builds  *)
(* and a garbage collection share (src/pm/execute.xsh, src/pm/store.xsh).  *)
(*                                                                         *)
(* Abstractions.                                                           *)
(*  - What is in an artifact is whose it is: the build that staged the     *)
(*    payload and the build that wrote the receipt.                        *)
(*  - A node is built, or imported from a remote when it is not local;    *)
(*    either may fail.  Proof-only reruns and the sequential -j 1 loop are *)
(*    left out.                                                            *)
(***************************************************************************)
EXTENDS Integers, Sequences, FiniteSets

CONSTANTS
  Deps,       \* what each node waits for
  Runtime,    \* the runtime dependencies among them, which receipts record
  Builders,   \* builds, each a scheduler and its children
  Jobs,       \* bound on children, at least two
  Worlds      \* circumstances to look at

Nodes == DOMAIN Deps

\* Circumstances: the nodes in plan order, those to be built and those a garbage
\* collection keeps, the builds, whether garbage is collected, what may be killed,
\* and a bound on failing nodes, kills and power losses.
World ==
  [order : Seq(Nodes), local : SUBSET Nodes, keep : SUBSET Nodes, builders : SUBSET Builders,
   collects : BOOLEAN, kills : SUBSET {"build", "gc", "power"}, faults : Nat]

Planned(order) == {order[i] : i \in 1 .. Len(order)}

ASSUME BuildsAssumption ==
  /\ Deps \in [Nodes -> SUBSET Nodes] /\ Runtime \in [Nodes -> SUBSET Nodes]
  /\ \A n \in Nodes : Runtime[n] \subseteq Deps[n]
  /\ IsFiniteSet(Nodes) /\ "none" \notin Nodes
  /\ Builders \subseteq Nat \ {0} /\ Jobs \in Nat \ {0, 1} /\ Worlds \subseteq World
  /\ \A w \in Worlds : \A i \in 1 .. Len(w.order) :
       /\ Deps[w.order[i]] \subseteq Planned(SubSeq(w.order, 1, i - 1))
       /\ w.order[i] \notin Planned(SubSeq(w.order, 1, i - 1))

VARIABLES
  world,   \* circumstances of this behaviour
  final,   \* final directory of each node
  tmp,     \* temporary directory of each node
  lock,    \* who holds the lock of each node, 0 for nobody
  build,   \* state of each scheduler
  work,    \* state of each build's process for each node
  gc,      \* node whose directory a garbage collection is removing
  unsynced,\* final directories that are not on the disk yet
  faults   \* faults so far

vars == <<final, tmp, lock, build, work, gc, unsynced, faults>>

Absent == [there |-> FALSE, payload |-> 0, receipt |-> 0]
Torn == -1   \* an empty or incomplete file
Whole(dir) == dir.there /\ dir.payload # 0 /\ dir.payload = dir.receipt
Idle == [pc |-> "idle", pending |-> <<>>, waiting |-> <<>>, own |-> "none",
         done |-> {}, failed |-> FALSE, end |-> "none"]

-----------------------------------------------------------------------------
(* A node's process: execute_node. *)

\* read_receipt: the receipt can be read and the payload exists; nothing is hashed.
Readable(dir) == dir.there /\ dir.receipt \notin {0, Torn} /\ dir.payload # 0

At(b, n, label) == work' = [work EXCEPT ![b][n] = label]

\* execute_receipt_closure: what is composed into the root of n, its dependencies
\* and, transitively, the runtime dependencies their receipts record.
Closure(n) ==
  {m \in Nodes : \A S \in SUBSET Nodes :
     Deps[n] \subseteq S /\ (\A k \in S : Runtime[k] \subseteq S) => m \in S}

\* A stored artifact is taken as it is; a node to be built composes its root.
\* What goes wrong here ends the process: a missing or broken dependency, or
\* the build or its proof.
Begin(b, n) ==
  /\ work[b][n] = "start"
  /\ \/ /\ final[n].there
        /\ At(b, n, IF Readable(final[n]) THEN "ok" ELSE "failed")
        /\ UNCHANGED faults
     \/ /\ ~final[n].there
        /\ At(b, n, IF n \in world.local /\ ~(\A m \in Closure(n) : Readable(final[m])) THEN "failed" ELSE "lock")
        /\ UNCHANGED faults
     \/ /\ ~final[n].there /\ faults < world.faults /\ faults' = faults + 1
        /\ At(b, n, "failed")
  /\ UNCHANGED <<final, tmp, lock, build, gc, unsynced>>

\* Mutant: nobody waits for the lock.
AcquireAnyway(b, n) ==
  /\ work[b][n] = "lock"
  /\ lock' = [lock EXCEPT ![n] = b]
  /\ At(b, n, "commit")
  /\ UNCHANGED <<final, tmp, build, gc, unsynced, faults>>

\* commit_staged waits for the lock of the key.
Acquire(b, n) ==
  /\ work[b][n] = "lock" /\ lock[n] = 0
  /\ lock' = [lock EXCEPT ![n] = b]
  /\ At(b, n, "commit")
  /\ UNCHANGED <<final, tmp, build, gc, unsynced, faults>>

Release(b, n) == lock' = [lock EXCEPT ![n] = IF @ = b THEN 0 ELSE @]

\* Mutant: what another build has committed is replaced.
CommitReplaces(b, n) ==
  /\ work[b][n] = "commit"
  /\ At(b, n, "payload") /\ tmp' = [tmp EXCEPT ![n] = [Absent EXCEPT !.there = TRUE]]
  /\ final' = [final EXCEPT ![n] = Absent]
  /\ UNCHANGED <<lock, build, gc, unsynced, faults>>

\* Mutant: the temporary directory must not be there.
CommitFresh(b, n) ==
  /\ work[b][n] = "commit"
  /\ IF final[n].there \/ tmp[n].there
     THEN /\ At(b, n, IF Readable(final[n]) THEN "ok" ELSE "failed") /\ Release(b, n)
          /\ UNCHANGED tmp
     ELSE /\ At(b, n, "payload") /\ tmp' = [tmp EXCEPT ![n] = [Absent EXCEPT !.there = TRUE]]
          /\ UNCHANGED lock
  /\ UNCHANGED <<final, build, gc, unsynced, faults>>

\* commit_locked: an artifact that is there wins; otherwise what a killed
\* process has left in the temporary directory is removed.
Commit(b, n) ==
  /\ work[b][n] = "commit"
  /\ IF final[n].there
     THEN /\ At(b, n, IF Readable(final[n]) THEN "ok" ELSE "failed") /\ Release(b, n)
          /\ UNCHANGED tmp
     ELSE /\ At(b, n, "payload") /\ tmp' = [tmp EXCEPT ![n] = [Absent EXCEPT !.there = TRUE]]
          /\ UNCHANGED lock
  /\ UNCHANGED <<final, build, gc, unsynced, faults>>

\* copy_staged, then write_receipt; a directory that has been removed fails both.
Stage(b, n, from, part, to) ==
  /\ work[b][n] = from
  /\ IF tmp[n].there THEN At(b, n, to) /\ tmp' = [tmp EXCEPT ![n][part] = b] /\ UNCHANGED lock
     ELSE At(b, n, "failed") /\ Release(b, n) /\ UNCHANGED tmp
  /\ UNCHANGED <<final, build, gc, unsynced, faults>>

\* The rename publishes the directory; when it fails the temporary one is removed.
Rename(b, n) ==
  /\ work[b][n] = "rename"
  /\ IF tmp[n].there /\ ~final[n].there
     THEN /\ final' = [final EXCEPT ![n] = tmp[n]]
          /\ unsynced' = IF "power" \in world.kills THEN unsynced \cup {n} ELSE {}
          /\ At(b, n, "ok")
     ELSE At(b, n, "failed") /\ UNCHANGED <<final, unsynced>>
  /\ tmp' = [tmp EXCEPT ![n] = Absent]
  /\ Release(b, n)
  /\ UNCHANGED <<build, gc, faults>>

\* A copy, the receipt or the rename fails, on a full file system for one.
StageFails(b, n) ==
  /\ work[b][n] \in {"payload", "receipt", "rename"}
  /\ faults < world.faults /\ faults' = faults + 1
  /\ tmp' = [tmp EXCEPT ![n] = Absent]
  /\ At(b, n, "failed") /\ Release(b, n)
  /\ UNCHANGED <<final, build, gc, unsynced>>

Process(b, n) ==
  \/ Begin(b, n) \/ Acquire(b, n) \/ Commit(b, n) \/ Rename(b, n)
  \/ Stage(b, n, "payload", "payload", "receipt") \/ Stage(b, n, "receipt", "receipt", "rename")
  \/ StageFails(b, n)

-----------------------------------------------------------------------------
(* execute_scheduled. *)

Ended == {"ok", "failed"}
Running(b) == {n \in Nodes : work[b][n] # "none"}
Store == <<final, tmp, lock, gc, unsynced, faults>>

\* A build begins when nothing of an earlier one is left.
Start(b) ==
  /\ b \in world.builders /\ build[b].pc = "idle" /\ Running(b) = {} /\ gc = {}
  /\ build' = [build EXCEPT ![b] = [Idle EXCEPT !.pc = "scan", !.pending = world.order]]
  /\ UNCHANGED work /\ UNCHANGED Store

\* execute_wait_keys are all done.
Ready(b, n) == Deps[n] \subseteq build[b].done

Room(b) == Cardinality(Running(b)) < Jobs

\* The node's receipt is in the map of what is done.
Finished(state, n) == [state EXCEPT !.own = "none", !.pc = "scan", !.done = @ \cup {n}]

\* The next pending node waits, or starts as a child, or, when it is stored or
\* remote, is executed by the scheduler itself.
Scan(b) ==
  /\ build[b].pc = "scan" /\ build[b].own = "none" /\ build[b].pending # <<>>
  /\ LET n == Head(build[b].pending)
         rest == Tail(build[b].pending)
     IN IF build[b].failed \/ ~Ready(b, n) \/ ~Room(b)
        THEN /\ build' = [build EXCEPT ![b].pending = rest, ![b].waiting = Append(@, n)]
             /\ UNCHANGED work
        ELSE /\ build' = [build EXCEPT ![b].pending = rest,
                                       ![b].own = IF final[n].there \/ n \notin world.local THEN n ELSE "none"]
             /\ At(b, n, "start")
  /\ UNCHANGED Store

\* The scheduler's own node is done; an error ends the build at once and leaves
\* the children alone.
Inline(b) ==
  LET n == build[b].own
  IN /\ n # "none" /\ work[b][n] \in Ended
     /\ build' = [build EXCEPT ![b] =
          IF work[b][n] = "ok"
          THEN Finished(@, n)
          ELSE [Idle EXCEPT !.end = "failed"]]
     /\ At(b, n, "none")
     /\ UNCHANGED Store

\* All pending nodes have been looked at: wait for children or end.
Scanned(b) ==
  /\ build[b].pc = "scan" /\ build[b].own = "none" /\ build[b].pending = <<>>
  /\ build' = [build EXCEPT ![b] =
       IF Running(b) # {} THEN [@ EXCEPT !.pc = "wait", !.pending = build[b].waiting, !.waiting = <<>>]
       ELSE [Idle EXCEPT !.end = IF build[b].failed THEN "failed"
                                 ELSE IF build[b].waiting # <<>> THEN "stuck" ELSE "done",
                         !.done = build[b].done]]
  /\ UNCHANGED work /\ UNCHANGED Store

\* A child has exited well: its receipt is looked up, and one that cannot be
\* read ends the build as Inline does.
ChildOk(b, n) ==
  /\ build[b].pc = "wait" /\ work[b][n] = "ok"
  /\ build' = [build EXCEPT ![b] = IF Readable(final[n]) THEN Finished(@, n) ELSE [Idle EXCEPT !.end = "failed"]]
  /\ At(b, n, "none")
  /\ UNCHANGED Store

\* One has failed: the others are cancelled, which releases their locks.
ChildFailed(b, n) ==
  /\ build[b].pc = "wait" /\ work[b][n] = "failed"
  /\ build' = [build EXCEPT ![b].pc = "scan", ![b].failed = TRUE]
  /\ work' = [work EXCEPT ![b] = [m \in Nodes |-> "none"]]
  /\ lock' = [m \in Nodes |-> IF lock[m] = b THEN 0 ELSE lock[m]]
  /\ UNCHANGED <<final, tmp, gc, unsynced, faults>>

Scheduler(b) == Scan(b) \/ Inline(b) \/ Scanned(b) \/ \E n \in Nodes : ChildOk(b, n) \/ ChildFailed(b, n)

\* The scheduler is killed; its children go on.
KillBuild(b) ==
  /\ "build" \in world.kills /\ build[b].pc # "idle" /\ faults < world.faults /\ faults' = faults + 1
  /\ build' = [build EXCEPT ![b] = [Idle EXCEPT !.end = "killed"]]
  /\ IF build[b].own # "none"
     THEN At(b, build[b].own, "none") /\ Release(b, build[b].own)
     ELSE UNCHANGED <<work, lock>>
  /\ UNCHANGED <<final, tmp, gc, unsynced>>

\* A child is killed: its temporary directory stays, its lock does not.
KillChild(b, n) ==
  /\ "build" \in world.kills /\ work[b][n] \notin {"none"} \cup Ended
  /\ build[b].own # n
  /\ faults < world.faults /\ faults' = faults + 1
  /\ At(b, n, "failed") /\ Release(b, n)
  /\ UNCHANGED <<final, tmp, build, gc, unsynced>>

\* A child nobody waits for is gone.
Orphan(b, n) ==
  /\ build[b].pc = "idle" /\ work[b][n] \in Ended
  /\ At(b, n, "none")
  /\ UNCHANGED <<final, tmp, lock, build, gc, unsynced, faults>>

-----------------------------------------------------------------------------
(* pm store gc, documented to run between builds, never during one: a child  *)
(* that outlives a killed scheduler is still building.                       *)

Quiet == \A b \in Builders : build[b].pc = "idle" /\ Running(b) = {}

\* Files of an artifact that is not kept are removed one after the other.
GcRemove(n) ==
  /\ world.collects /\ Quiet
  /\ gc = {} /\ final[n].there /\ n \notin world.keep
  /\ gc' = {n}
  /\ final' = [final EXCEPT ![n].payload = 0]
  /\ UNCHANGED <<tmp, lock, build, work, unsynced, faults>>

GcRemoved(n) ==
  /\ n \in gc /\ gc' = {}
  /\ final' = [final EXCEPT ![n] = Absent]
  /\ lock' = [lock EXCEPT ![n] = 0]
  /\ unsynced' = unsynced \ {n}
  /\ UNCHANGED <<tmp, build, work, faults>>

GcTemporary(n) ==
  /\ world.collects /\ Quiet
  /\ gc = {} /\ tmp[n].there
  /\ tmp' = [tmp EXCEPT ![n] = Absent]
  /\ UNCHANGED <<final, lock, build, work, gc, unsynced, faults>>

KillGc ==
  /\ "gc" \in world.kills /\ gc # {} /\ faults < world.faults /\ faults' = faults + 1
  /\ gc' = {}
  /\ UNCHANGED <<final, tmp, lock, build, work, unsynced>>

\* Nothing in the store is synced: the rename may reach the disk before the files.
PowerLoss ==
  /\ "power" \in world.kills /\ faults < world.faults /\ faults' = faults + 1
  /\ \E lost \in SUBSET unsynced :
       final' = [n \in Nodes |-> IF n \in lost THEN [final[n] EXCEPT !.payload = Torn] ELSE final[n]]
  /\ build' = [b \in Builders |-> Idle] /\ work' = [b \in Builders |-> [n \in Nodes |-> "none"]]
  /\ lock' = [n \in Nodes |-> 0] /\ gc' = {} /\ unsynced' = {}
  /\ UNCHANGED tmp

-----------------------------------------------------------------------------
Init ==
  /\ world \in Worlds
  /\ final = [n \in Nodes |-> Absent] /\ tmp = [n \in Nodes |-> Absent]
  /\ lock = [n \in Nodes |-> 0] /\ gc = {} /\ unsynced = {} /\ faults = 0
  /\ build = [b \in Builders |-> Idle]
  /\ work = [b \in Builders |-> [n \in Nodes |-> "none"]]

Next ==
  /\ \/ \E b \in Builders :
          \/ Start(b) \/ Scheduler(b) \/ KillBuild(b)
          \/ \E n \in Nodes : Process(b, n) \/ KillChild(b, n) \/ Orphan(b, n)
     \/ \E n \in Nodes : GcRemove(n) \/ GcRemoved(n) \/ GcTemporary(n)
     \/ KillGc \/ PowerLoss
  /\ UNCHANGED world

Spec == Init /\ [][Next]_<<vars, world>>

\* Processes run on; an operator builds again after a build that failed.
FairSpec ==
  /\ Spec
  /\ \A b \in Builders :
       /\ WF_vars(Scheduler(b)) /\ WF_vars(build[b].end # "done" /\ Start(b))
       /\ \A n \in Nodes : WF_vars(Process(b, n)) /\ WF_vars(Orphan(b, n))

-----------------------------------------------------------------------------
(* Properties. *)

Dirs == [there : BOOLEAN, payload : {0, Torn} \cup Builders, receipt : {0} \cup Builders]

\* Everything has its type.
TypeOK ==
  /\ final \in [Nodes -> Dirs] /\ tmp \in [Nodes -> Dirs]
  /\ lock \in [Nodes -> {0} \cup Builders] /\ gc \subseteq Nodes /\ unsynced \subseteq Nodes /\ faults \in Nat
  /\ work \in [Builders -> [Nodes -> {"none", "start", "lock", "commit", "payload", "receipt",
                                      "rename", "ok", "failed"}]]
  /\ \A b \in Builders :
       /\ build[b].pc \in {"idle", "scan", "wait"} /\ build[b].done \subseteq Nodes
       /\ build[b].end \in {"none", "done", "failed", "stuck", "killed"}

\* At most builds are killed.  (A killed collection leaves a directory without
\* its payload, and nothing in the store is synced, so a power loss may as well.)
StoreSafe == world.kills \subseteq {"build"}

\* Every artifact in the store is complete and of one build, whatever builds do
\* at the same time and whoever is killed.
FinalWhole == StoreSafe => \A n \in Nodes : n \in gc \/ (final[n].there => Whole(final[n]))

\* Everything a process composes into its root is in the store when it starts.
RootsComplete ==
  StoreSafe => \A b \in Builders, n \in Nodes :
    work[b][n] = "start" /\ build[b].pc # "idle" => \A m \in Closure(n) : Whole(final[m])

\* No build runs more children than it was given jobs.
JobsBound == \A b \in Builders : Cardinality(Running(b)) <= Jobs

\* A build that ends well has all its artifacts, and none ends because no node
\* can start.
EndsComplete ==
  \A b \in Builders :
    /\ build[b].end # "stuck"
    /\ build[b].end = "done" => build[b].done = Planned(world.order)

\* A committed artifact is not replaced while nothing collects garbage.
FinalStays ==
  [][StoreSafe /\ ~world.collects => \A n \in Nodes : final[n].there => final'[n] = final[n]]_vars

\* Builds that are repeated end with every artifact in the store, in spite of
\* what killed ones have left behind.
Resumes ==
  StoreSafe /\ ~world.collects =>
    /\ \A b \in Builders : <>(b \in world.builders => build[b].end = "done")
    /\ <>[](\A n \in Planned(world.order) : Whole(final[n]))

-----------------------------------------------------------------------------
(* What the runs check. *)

\* Artifacts are whole and of one build, roots are composed of complete ones, and
\* the schedulers neither overrun their jobs nor end without a node.
BuildsSound == TypeOK /\ FinalWhole /\ RootsComplete /\ JobsBound /\ EndsComplete
=============================================================================
