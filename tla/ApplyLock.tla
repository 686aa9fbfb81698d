----------------------------- MODULE ApplyLock -----------------------------
(***************************************************************************)
(* xinfra apply: runs on several control machines lock every host of the   *)
(* inventory, apply to them and release them                               *)
(* (src/xinfra/lib/xinfra/cli.xsh, driver.xsh, lock.xsh).  A lock is a     *)
(* directory on the host with an owner record in it; every step on it is a *)
(* command over a session that may be lost.                                *)
(*                                                                         *)
(* Abstractions.                                                           *)
(*  - A directory is known by the run that made it: what is written to an  *)
(*    owner file whose directory has been removed reaches nobody.          *)
(*  - Which directory a run locks on a host (lock_path) depends on the user *)
(*    it logs in as and on whether that user may elevate; it is a constant *)
(*    of the run.  A path that comes out differently at the release is a   *)
(*    removal that fails.                                                  *)
(*  - rm -rf is one step.  What a run applies is left out: it applies to a *)
(*    host while it has locked all of them and its session there is alive. *)
(*  - apply never reclaims a lock; other callers of the lock module may,   *)
(*    and are the runs in world.stealing.                                  *)
(***************************************************************************)
EXTENDS Integers, Sequences

CONSTANTS
  Runs,       \* runs, each with a token of its own, positive numbers
  Order,      \* the hosts in inventory order
  Paths,      \* lock directories a host can have
  Volatile,   \* those in /run, which do not survive a boot
  PathOf,     \* the one that each run locks on each host
  Worlds      \* circumstances to look at

Hosts == {Order[i] : i \in 1 .. Len(Order)}

Locks == Hosts \X Paths

\* Circumstances: the runs there are, those that reclaim locks of an earlier boot,
\* what may happen, and how often.
World == [runs : SUBSET Runs, stealing : SUBSET Runs,
          faults : SUBSET {"kill", "reboot", "lost", "write", "rm", "force"}, max : Nat]

ASSUME ApplyLockAssumption ==
  /\ Runs \subseteq Nat \ {0} /\ Worlds \subseteq World
  /\ Order \in Seq(Hosts) /\ Len(Order) > 0
  /\ Volatile \subseteq Paths /\ PathOf \in [Runs -> [Hosts -> Paths]]
  /\ \A i, j \in 1 .. Len(Order) : Order[i] = Order[j] => i = j

VARIABLES
  world,    \* circumstances of this behaviour
  dir,      \* the run that made each lock directory, 0 for none
  owner,    \* the owner record in it
  boot,     \* boot of each host
  run,      \* state of each run
  faults    \* faults so far

vars == <<dir, owner, boot, run, faults>>

NoOwner == [file |-> FALSE, token |-> 0, boot |-> -1]
\* cat > owner has opened the file and written nothing yet.
EmptyOwner == [file |-> TRUE, token |-> 0, boot |-> -1]

\* at: index of the host a run is locking or releasing; acquired: those it has
\* locked; into: whose directory the owner file it writes to is in; cut: whether
\* it has lost a session or failed to remove a lock.
Fresh == [pc |-> "idle", at |-> 1, acquired |-> 0, sessions |-> {}, into |-> 0, cut |-> FALSE]

Cut(state, h) == [state EXCEPT !.sessions = state.sessions \ {h}, !.cut = state.cut \/ h \in state.sessions]

Host(r) == Order[run[r].at]
LockOf(r, i) == <<Order[i], PathOf[r][Order[i]]>>
Lock(r) == LockOf(r, run[r].at)
Connected(r) == Host(r) \in run[r].sessions

Fault(f) == f \in world.faults /\ faults < world.max /\ faults' = faults + 1

-----------------------------------------------------------------------------
(* run_apply and acquire. *)

\* Sessions to all hosts are opened first.
Connect(r) ==
  /\ r \in world.runs /\ run[r].pc = "idle"
  /\ run' = [run EXCEPT ![r] = [Fresh EXCEPT !.pc = "mkdir", !.sessions = Hosts]]
  /\ UNCHANGED <<dir, owner, boot, faults>>

\* A lock that cannot be had ends the run; those acquired are released.
GiveUp(r) == run' = [run EXCEPT ![r].pc = "check", ![r].at = 1]

\* Mutant: mkdir -p.
MakeParents(r, label) ==
  /\ run[r].pc = label /\ Connected(r)
  /\ dir' = [dir EXCEPT ![Lock(r)] = r] /\ owner' = [owner EXCEPT ![Lock(r)] = NoOwner]
  /\ run' = [run EXCEPT ![r].pc = "open"]
  /\ UNCHANGED <<boot, faults>>

\* Mutant: a run waits until the lock is free.
MakeWaiting(r, label) ==
  /\ run[r].pc = label /\ Connected(r) /\ dir[Lock(r)] = 0
  /\ dir' = [dir EXCEPT ![Lock(r)] = r] /\ owner' = [owner EXCEPT ![Lock(r)] = NoOwner]
  /\ run' = [run EXCEPT ![r].pc = "open"]
  /\ UNCHANGED <<boot, faults>>

\* mkdir claims the lock; a competing run reads who has it, one that is
\* reclaiming gives up.
Make(r, label) ==
  /\ run[r].pc = label /\ Connected(r)
  /\ IF dir[Lock(r)] = 0
     THEN /\ dir' = [dir EXCEPT ![Lock(r)] = r] /\ owner' = [owner EXCEPT ![Lock(r)] = NoOwner]
          /\ run' = [run EXCEPT ![r].pc = "open"]
     ELSE /\ IF label = "mkdir" THEN run' = [run EXCEPT ![r].pc = "read"] ELSE GiveUp(r)
          /\ UNCHANGED <<dir, owner>>
  /\ UNCHANGED <<boot, faults>>

\* write_owner: the file is created, then written; a missing directory fails it.
OpenOwner(r) ==
  /\ run[r].pc = "open" /\ Connected(r)
  /\ IF dir[Lock(r)] # 0
     THEN /\ owner' = [owner EXCEPT ![Lock(r)] = EmptyOwner]
          /\ run' = [run EXCEPT ![r].pc = "write", ![r].into = dir[Lock(r)]]
     ELSE GiveUp(r) /\ UNCHANGED owner
  /\ UNCHANGED <<dir, boot, faults>>

WriteOwner(r) ==
  /\ run[r].pc = "write" /\ Connected(r)
  /\ owner' = [owner EXCEPT ![Lock(r)] = IF dir[Lock(r)] = run[r].into
                                         THEN [file |-> TRUE, token |-> r, boot |-> boot[Host(r)]] ELSE @]
  /\ run' = [run EXCEPT ![r] = IF run[r].at = Len(Order)
                               THEN [@ EXCEPT !.pc = "apply", !.acquired = run[r].at, !.into = 0]
                               ELSE [@ EXCEPT !.pc = "mkdir", !.acquired = run[r].at, !.at = run[r].at + 1, !.into = 0]]
  /\ UNCHANGED <<dir, boot, faults>>

\* The owner cannot be written, on a full file system for one.
WriteFails(r) ==
  /\ Fault("write") /\ run[r].pc = "write" /\ Connected(r)
  /\ GiveUp(r)
  /\ UNCHANGED <<dir, owner, boot>>

Stale(r) == r \in world.stealing /\ owner[Lock(r)].boot # boot[Host(r)]

\* A lock of an earlier boot may be reclaimed.
ReadOwner(r) ==
  /\ run[r].pc = "read" /\ Connected(r)
  /\ IF owner[Lock(r)].file /\ Stale(r) THEN run' = [run EXCEPT ![r].pc = "steal"] ELSE GiveUp(r)
  /\ UNCHANGED <<dir, owner, boot, faults>>

Remove(l) == dir' = [dir EXCEPT ![l] = 0] /\ owner' = [owner EXCEPT ![l] = NoOwner]

Steal(r) ==
  /\ run[r].pc = "steal" /\ Connected(r)
  /\ Remove(Lock(r))
  /\ run' = [run EXCEPT ![r].pc = "remake"]
  /\ UNCHANGED <<boot, faults>>

\* A command over a session that is gone fails while locks are taken.
Disconnected(r) ==
  /\ run[r].pc \in {"mkdir", "open", "write", "read", "steal", "remake"} /\ ~Connected(r)
  /\ GiveUp(r)
  /\ UNCHANGED <<dir, owner, boot, faults>>

-----------------------------------------------------------------------------
(* Facts are read again and the plan applied; then the locks are released. *)

Applied(r) ==
  /\ run[r].pc = "apply"
  /\ run' = [run EXCEPT ![r].pc = "check", ![r].at = 1]
  /\ UNCHANGED <<dir, owner, boot, faults>>

\* Mutant: what was acquired is released only after an apply.
CheckApplied(r) ==
  /\ run[r].pc = "check"
  /\ run' = [run EXCEPT ![r] = IF run[r].acquired < Len(Order) \/ run[r].at > run[r].acquired
                               THEN [@ EXCEPT !.pc = "end", !.sessions = {}, !.at = 1]
                               ELSE IF Connected(r) /\ owner[Lock(r)].token = r
                               THEN [@ EXCEPT !.pc = "remove"] ELSE [@ EXCEPT !.at = run[r].at + 1]]
  /\ UNCHANGED <<dir, owner, boot, faults>>

\* release reads the owner of each acquired lock; whatever goes wrong is ignored.
CheckOwner(r) ==
  /\ run[r].pc = "check"
  /\ run' = [run EXCEPT ![r] = IF run[r].at > run[r].acquired
                               THEN [@ EXCEPT !.pc = "end", !.sessions = {}, !.at = 1]
                               ELSE IF Connected(r) /\ owner[Lock(r)].token = r
                               THEN [@ EXCEPT !.pc = "remove"] ELSE [@ EXCEPT !.at = run[r].at + 1]]
  /\ UNCHANGED <<dir, owner, boot, faults>>

Release(r) ==
  /\ run[r].pc = "remove"
  /\ IF Connected(r) THEN Remove(Lock(r)) ELSE UNCHANGED <<dir, owner>>
  /\ run' = [run EXCEPT ![r].pc = "check", ![r].at = run[r].at + 1]
  /\ UNCHANGED <<boot, faults>>

\* The directory, and perhaps the record in it, cannot be removed; release_locks
\* ignores it.
ReleaseFails(r) ==
  /\ Fault("rm") /\ run[r].pc = "remove" /\ Connected(r)
  /\ owner' \in {owner, [owner EXCEPT ![Lock(r)] = NoOwner]}
  /\ run' = [run EXCEPT ![r].pc = "check", ![r].at = run[r].at + 1, ![r].cut = TRUE]
  /\ UNCHANGED <<dir, boot>>

-----------------------------------------------------------------------------
(* What happens around the runs. *)

Kill(r) ==
  /\ Fault("kill") /\ run[r].pc \notin {"idle", "end", "killed"}
  /\ run' = [run EXCEPT ![r] = [Fresh EXCEPT !.pc = "killed"]]
  /\ UNCHANGED <<dir, owner, boot>>

Lose(r, h) ==
  /\ Fault("lost") /\ h \in run[r].sessions
  /\ run' = [run EXCEPT ![r] = Cut(@, h)]
  /\ UNCHANGED <<dir, owner, boot>>

\* A boot ends the host's sessions and empties /run.
Reboot(h) ==
  LET emptied(l) == l[1] = h /\ l[2] \in Volatile
  IN /\ Fault("reboot")
     /\ boot' = [boot EXCEPT ![h] = @ + 1]
     /\ run' = [r \in Runs |-> Cut(run[r], h)]
     /\ dir' = [l \in Locks |-> IF emptied(l) THEN 0 ELSE dir[l]]
     /\ owner' = [l \in Locks |-> IF emptied(l) THEN NoOwner ELSE owner[l]]

\* xinfra unlock --force.
UnlockForce(l) ==
  /\ Fault("force") /\ dir[l] # 0
  /\ Remove(l)
  /\ UNCHANGED <<boot, run>>

-----------------------------------------------------------------------------
Init ==
  /\ world \in Worlds
  /\ dir = [l \in Locks |-> 0] /\ owner = [l \in Locks |-> NoOwner]
  /\ boot = [h \in Hosts |-> 0] /\ run = [r \in Runs |-> Fresh] /\ faults = 0

Step(r) ==
  \/ Connect(r) \/ Make(r, "mkdir") \/ OpenOwner(r) \/ WriteOwner(r) \/ ReadOwner(r) \/ Steal(r)
  \/ Make(r, "remake") \/ Disconnected(r) \/ Applied(r) \/ CheckOwner(r) \/ Release(r)

Next ==
  /\ \/ \E r \in Runs : Step(r) \/ WriteFails(r) \/ ReleaseFails(r) \/ Kill(r) \/ \E h \in Hosts : Lose(r, h)
     \/ (\E h \in Hosts : Reboot(h)) \/ \E l \in Locks : UnlockForce(l)
  /\ UNCHANGED world

Spec == Init /\ [][Next]_<<vars, world>>

\* A run goes on.
FairSpec == Spec /\ \A r \in Runs : WF_vars(Step(r))

-----------------------------------------------------------------------------
(* Properties. *)

Owners == [file : BOOLEAN, token : {0} \cup Runs, boot : Int]
RunStates ==
  [pc : {"idle", "mkdir", "open", "write", "read", "steal", "remake", "apply", "check", "remove", "end", "killed"},
   at : 1 .. Len(Order) + 1, acquired : 0 .. Len(Order), sessions : SUBSET Hosts, into : {0} \cup Runs, cut : BOOLEAN]

\* Everything has its type.
TypeOK ==
  /\ dir \in [Locks -> {0} \cup Runs] /\ owner \in [Locks -> Owners]
  /\ boot \in [Hosts -> Nat] /\ run \in [Runs -> RunStates] /\ faults \in Nat

Applying(r, h) == run[r].pc = "apply" /\ h \in run[r].sessions

\* Nobody takes a lock from a run that may still have it.
NotTaken == world.stealing = {} /\ "force" \notin world.faults

\* No two runs that lock the same directory of a host apply to it at the same
\* time.  (Runs that log in as different users may lock different ones and do not
\* exclude each other, and reclaiming and unlock --force take a lock from a run
\* that applies.)
Exclusive ==
  NotTaken => \A h \in Hosts, r, q \in Runs :
    Applying(r, h) /\ Applying(q, h) /\ PathOf[r][h] = PathOf[q][h] => r = q

\* A run applies to a host only while the lock there says so.
LockedWhileApplied ==
  NotTaken => \A h \in Hosts, r \in Runs :
    Applying(r, h) => dir[<<h, PathOf[r][h]>>] = r /\ owner[<<h, PathOf[r][h]>>].token = r

\* A run that has ended has not left a lock behind, unless it was killed, lost a
\* session or could not remove a lock.  (Nor if its owner record could not be
\* written: mkdir is not undone.)
LocksReleased ==
  NotTaken /\ "write" \notin world.faults =>
    \A h \in Hosts, r \in Runs : run[r].pc = "end" /\ ~run[r].cut => dir[<<h, PathOf[r][h]>>] # r

\* No run waits for another: each ends, whatever locks are left on the hosts.
Ends == \A r \in Runs : <>(r \notin world.runs \/ run[r].pc \in {"end", "killed"})

\* A host is applied to by one of the runs that share a lock, whose lock it is.
HostsExclusive == TypeOK /\ Exclusive /\ LockedWhileApplied
=============================================================================
