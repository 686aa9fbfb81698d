------------------------------- MODULE Trust -------------------------------
(***************************************************************************)
(* The operating system's trust store: signed releases staged, committed,  *)
(* activated and recorded under a journal, and the recovery of whatever an *)
(* interrupted update left (src/trust: update.xsh, store.xsh, release.xsh).*)
(*                                                                         *)
(* One update runs at a time: the store lock refuses a second one.  Every  *)
(* rename, removal and directory creation that others can see is a step,   *)
(* and so is the fsync that follows it.  The process may be killed at any  *)
(* step; power may fail, and then each directory falls back to what was    *)
(* last synced or keeps what was written.                                  *)
(*                                                                         *)
(* Abstractions.                                                           *)
(*  - A release that reaches the store is authentic: signatures, digests   *)
(*    and formats are checked before and have no state.                    *)
(*  - A staging directory is a slot; its owner token matches the journal's *)
(*    exactly when the slot is the one the journal names.                  *)
(*  - Files of a staging directory are written in one step: nothing names  *)
(*    the directory before the journal does.                               *)
(*  - A staging directory is removed in one step.  The journal no longer   *)
(*    names the one an update removes; a recovery that is killed inside    *)
(*    its removal, after the owner token went, is refused from then on,    *)
(*    as after the removal (see Recoverable).                              *)
(*  - The scratch link beside the active pointer is left out: a stale one  *)
(*    is removed before it is used.                                        *)
(*  - A rename between two directories is atomic across a power failure.   *)
(*  - Generation 0 stands for an absent active pointer or accepted file.   *)
(***************************************************************************)
EXTENDS Integers, Sequences, FiniteSets

CONSTANTS
  Releases,    \* [gen, issued, expires]
  MaxTime,     \* bound of the wall clock
  Slots,       \* names of staging directories, positive numbers
  Worlds       \* circumstances a behaviour may have, see World

SeedGen == 1
Time == 0 .. MaxTime
Gens == {SeedGen} \cup {r.gen : r \in Releases}

\* faults: which of "kill" and "power" happen, at most crashes times; jumps:
\* whether the wall clock is set back; installed: whether the installer seeded
\* the store.
World == [faults : SUBSET {"kill", "power"}, crashes : Nat, jumps : BOOLEAN, installed : BOOLEAN]

ASSUME TrustAssumption ==
  /\ MaxTime \in Nat \ {0} /\ Worlds \subseteq World
  /\ Releases \subseteq [gen : Nat \ {0}, issued : Nat \ {0}, expires : Nat]
  /\ Slots \subseteq Nat \ {0}

VARIABLES
  mem,     \* the store as processes see it
  disk,    \* the store as it was last synced
  sync,    \* directories the update is about to fsync
  run,     \* the update that holds the lock
  clock,   \* wall clock
  world,   \* the circumstances of this behaviour
  crashes, \* number of kills and power failures so far
  done     \* history: the highest generation an update reported as applied

trustVars == <<mem, disk, sync, run, clock, crashes, done>>

\* What a generation directory holds: a release, the package seed, or the part
\* of the seed that was written (the directory; bundle and policy).
Dir(k, i, e) == [kind |-> k, issued |-> i, expires |-> e]
NoDir == Dir("none", 0, 0)
Seeded(k) == Dir(k, 0, 0)
Holding(r) == Dir("release", r.issued, r.expires)

NoRelease == [gen |-> 0, issued |-> 0, expires |-> 0]
Clean == [phase |-> "clean", gen |-> 0, slot |-> 0]
Idle == [pc |-> "idle", rel |-> NoRelease, now |-> 0, gen |-> 0, slot |-> 0,
         todo |-> <<>>]

Exists(g) == g \in Gens /\ mem.gen[g].kind # "none"

\* trust_store_read_active: the pointer, unless it is absent or dangling.
ReadActive == IF Exists(mem.active) THEN mem.active ELSE 0

\* trust_verify_committed_bookkeeping: seeds have no signed metadata.
Signed(g) == g \in Gens /\ mem.gen[g].kind = "release"

Fresh(x, now) == x.issued <= now /\ now < x.expires

\* release_verify against the installed policy, which must be readable.
VerifyCandidate(g, x) == ReadActive # 0 /\ Fresh(x, run.now) /\ g > ReadActive

-----------------------------------------------------------------------------
(* Steps of an update: a decision sets the operations to do and where to go *)
(* then; an operation changes the store and is followed by its fsync.       *)

At(label) == run.pc = label /\ run.todo = <<>> /\ sync = {}
Unmoved == UNCHANGED <<mem, disk, sync, clock, crashes, done>>

Do(ops, label) == run' = [run EXCEPT !.todo = ops, !.pc = label]

\* The update ends with an error; the lock goes with it.
GiveUp == run' = Idle

Perform(op, m, dirs) ==
  /\ run.todo # <<>> /\ Head(run.todo) = op /\ sync = {}
  /\ mem' = m /\ sync' = dirs
  /\ run' = [run EXCEPT !.todo = Tail(@)]
  /\ UNCHANGED <<disk, clock, crashes, done>>

\* An operation that fails ends the update; the journal stays.
Abandon(op) ==
  /\ run.todo # <<>> /\ Head(run.todo) = op /\ sync = {}
  /\ GiveUp /\ Unmoved

\* The directory of a part of the store.
Place(part) == CASE part = "gen" -> "generations" [] part = "stg" -> "staging" [] OTHER -> "store"

Fsync ==
  /\ sync # {} /\ sync' = {}
  /\ disk' = [part \in DOMAIN disk |-> IF Place(part) \in sync THEN mem[part] ELSE disk[part]]
  /\ UNCHANGED <<mem, run, clock, crashes, done>>

WriteJournal(phase) ==
  Perform(phase,
    [mem EXCEPT !.journal = [phase |-> phase, gen |-> run.gen,
                             slot |-> IF phase \in {"staged", "committed"} THEN run.slot ELSE 0]],
    {"store"})

ClearJournal == Perform("clear", [mem EXCEPT !.journal = Clean], {"store"})

FlipActive == Perform("flip", [mem EXCEPT !.active = run.gen], {"store"})

\* Never backward.
PersistAccepted ==
  IF mem.accepted > run.gen THEN Abandon("accept")
  ELSE Perform("accept", [mem EXCEPT !.accepted = run.gen], {"store"})

PersistSignedFloor ==
  LET issued == mem.gen[run.gen].issued
  IN Perform("floor",
       [mem EXCEPT !.floor = IF issued > @ THEN issued ELSE @],
       IF issued > mem.floor THEN {"store"} ELSE {})

RemoveOwnedStaging ==
  LET there == run.slot # 0 /\ mem.stg[run.slot] # NoRelease
  IN Perform("remove",
       [mem EXCEPT !.stg = IF there THEN [@ EXCEPT ![run.slot] = NoRelease] ELSE @],
       IF there THEN {"staging"} ELSE {})

\* Mutant: the rename is not synced.
CommitUnsynced ==
  /\ ~Exists(run.gen)
  /\ Perform("commit",
       [mem EXCEPT !.gen[run.gen] = Holding(mem.stg[run.slot]), !.stg[run.slot] = NoRelease], {})

\* commit_generation: an existing generation is adopted when it is identical.
CommitGeneration ==
  \/ /\ ~Exists(run.gen)
     /\ Perform("commit",
          [mem EXCEPT !.gen[run.gen] = Holding(mem.stg[run.slot]), !.stg[run.slot] = NoRelease],
          {"generations", "staging"})
  \/ /\ Exists(run.gen) /\ mem.gen[run.gen] = Holding(run.rel)
     /\ Perform("commit", mem, {})
  \/ /\ Exists(run.gen) /\ mem.gen[run.gen] # Holding(run.rel)
     /\ Abandon("commit")

-----------------------------------------------------------------------------
(* trust_apply_release *)

\* Take the lock; a clock behind the signed floor is refused.
Begin(r) ==
  /\ At("idle") /\ clock >= mem.floor
  /\ run' = [Idle EXCEPT !.pc = "recover", !.rel = r, !.now = clock]
  /\ Unmoved

\* Mutant: a journal level with the store counts as stale.
JournalLevel == mem.accepted >= mem.journal.gen \/ ReadActive > mem.journal.gen

\* A journal behind the store is never acted on.
JournalStale == mem.accepted > mem.journal.gen \/ ReadActive > mem.journal.gen

\* What trust_recover does about the journal, as operations and what follows;
\* "idle" ends the update with an error.
Refusal == [todo |-> <<>>, then |-> "idle"]
Dropped == [todo |-> <<"clear">>, then |-> "failed"]
Plan(ops) == [todo |-> ops, then |-> "pointer"]

\* Mutants: a committed generation is not adopted; its expiry is not checked.
StagedForgetful(j) ==
  IF mem.stg[j.slot] # NoRelease THEN Plan(<<"remove", "clear">>) ELSE Refusal

StagedTrusting(j) ==
  IF mem.stg[j.slot] # NoRelease THEN Plan(<<"remove", "clear">>)
  ELSE IF ~Signed(j.gen) THEN Refusal
  ELSE Plan(<<"flip", "accept", "floor", "clear">>)

StagedPlan(j) ==
  IF mem.stg[j.slot] # NoRelease THEN Plan(<<"remove", "clear">>)
  ELSE IF ~Signed(j.gen) THEN Refusal
  ELSE IF ReadActive # j.gen /\ ~Fresh(mem.gen[j.gen], run.now) THEN Dropped
  ELSE Plan(<<"flip", "accept", "floor", "clear">>)

CommittedPlan(j) ==
  LET staged == mem.stg[j.slot] # NoRelease
  IN IF ReadActive = j.gen
     THEN IF Signed(j.gen) THEN Plan(<<"remove", "accept", "floor", "clear">>) ELSE Refusal
     ELSE IF Exists(j.gen) = staged THEN Refusal
     ELSE IF staged THEN [todo |-> <<"commit">>, then |-> "recover"]
     ELSE IF ~(Signed(j.gen) /\ VerifyCandidate(j.gen, mem.gen[j.gen])) THEN Dropped
     ELSE Plan(<<"flip", "accept", "floor", "remove", "clear">>)

ActivatedPlan(j) ==
  IF ReadActive = j.gen /\ Signed(j.gen) THEN Plan(<<"accept", "floor", "clear">>) ELSE Refusal

RecoveryPlan(j) ==
  IF j = Clean THEN Plan(<<>>)
  ELSE IF JournalStale THEN Refusal
  ELSE IF j.phase = "staged" THEN StagedPlan(j)
  ELSE IF j.phase = "committed" THEN CommittedPlan(j)
  ELSE ActivatedPlan(j)

Recover ==
  /\ At("recover")
  /\ LET p == RecoveryPlan(mem.journal)
     IN run' = IF p = Refusal THEN Idle
               ELSE [run EXCEPT !.gen = mem.journal.gen, !.slot = mem.journal.slot,
                                !.todo = p.todo, !.pc = p.then]
  /\ Unmoved

\* An active pointer is there, or is repaired from the accepted generation, or
\* the store is seeded.
PointerKept ==
  /\ At("pointer") /\ clock >= mem.floor
  /\ ReadActive # 0 /\ Do(<<>>, "reconcile")
  /\ Unmoved

RepairActivePointer ==
  /\ At("pointer") /\ clock >= mem.floor
  /\ ReadActive = 0 /\ Exists(mem.accepted)
  /\ IF mem.gen[mem.accepted].kind \in {"release", "seed"}
     THEN run' = [run EXCEPT !.gen = mem.accepted, !.todo = <<"flip">>, !.pc = "reconcile"]
     ELSE GiveUp
  /\ Unmoved

\* trust_store_bootstrap_from_seeds refuses to touch anything but its own work.
BootstrapRefused ==
  \/ mem.accepted \notin {0, SeedGen} \/ mem.active # 0
  \/ \E g \in Gens \ {SeedGen} : Exists(g)
  \/ mem.gen[SeedGen].kind \notin {"none", "files", "seed"}

Bootstrap ==
  /\ At("pointer") /\ clock >= mem.floor
  /\ ReadActive = 0 /\ ~Exists(mem.accepted)
  /\ IF BootstrapRefused THEN GiveUp
     ELSE run' = [run EXCEPT
            !.gen = SeedGen, !.pc = "reconcile",
            !.todo = IF Exists(SeedGen) THEN <<"accept", "flip">>
                     ELSE <<"mkdir", "files", "owner", "accept", "flip">>]
  /\ Unmoved

\* The seed generation is written in place, and synced at the end.
WriteSeed ==
  \/ Perform("mkdir", [mem EXCEPT !.gen[SeedGen] = Seeded("empty")], {})
  \/ Perform("files", [mem EXCEPT !.gen[SeedGen] = Seeded("files")], {})
  \/ Perform("owner", [mem EXCEPT !.gen[SeedGen] = Seeded("seed")], {"generations"})

\* trust_reconcile_accepted
ReconcileAccepted ==
  /\ At("reconcile")
  /\ IF mem.accepted = ReadActive THEN Do(<<>>, "apply")
     ELSE IF mem.accepted = 0 \/ mem.accepted > ReadActive \/ ~Signed(ReadActive) THEN GiveUp
     ELSE run' = [run EXCEPT !.gen = ReadActive, !.todo = <<"accept", "floor">>, !.pc = "apply"]
  /\ Unmoved


\* trust_activate_release, after staging.
Activation == <<"staged", "commit", "committed", "flip", "activated", "accept", "floor",
                "persisted", "remove", "clear">>

\* The rest of trust_apply_release: the same release again is only re-recorded,
\* a newer one is verified and staged.
Admitted(r) == r.gen > mem.accepted /\ ReadActive # 0 /\ Fresh(r, clock) /\ r.gen > ReadActive
Repeated(r) == r.gen = mem.accepted /\ r.gen = ReadActive /\ Holding(r) = mem.gen[r.gen] /\ Fresh(r, clock)

\* trust_store_stage_candidate claims a name that is not in use.
FirstUnused(s) == mem.stg[s] = NoRelease /\ \A q \in Slots : q < s => mem.stg[q] # NoRelease

Apply ==
  /\ At("apply")
  /\ \/ /\ clock >= mem.floor /\ Admitted(run.rel)
        /\ \E s \in Slots :
             /\ FirstUnused(s)
             /\ mem' = [mem EXCEPT !.stg[s] = run.rel]
             /\ run' = [run EXCEPT !.now = clock, !.gen = run.rel.gen, !.slot = s,
                                   !.todo = Activation, !.pc = "done"]
        /\ UNCHANGED <<disk, sync, clock, crashes, done>>
     \/ /\ clock >= mem.floor /\ Repeated(run.rel)
        /\ run' = [run EXCEPT !.now = clock, !.gen = run.rel.gen, !.todo = <<"accept", "floor">>,
                              !.pc = "done"]
        /\ Unmoved
     \/ /\ clock < mem.floor \/ ~(Admitted(run.rel) \/ Repeated(run.rel))
        /\ GiveUp /\ Unmoved

\* The clock fell behind the floor since the update began.
ClockBehind == At("pointer") /\ clock < mem.floor /\ GiveUp /\ Unmoved

\* The update reports and releases the lock.
Finish ==
  /\ At("done") \/ At("failed")
  /\ run' = Idle
  /\ done' = IF run.pc = "done" /\ run.gen > done THEN run.gen ELSE done
  /\ UNCHANGED <<mem, disk, sync, clock, crashes>>

Step ==
  \/ Fsync
  \/ \E phase \in {"staged", "committed", "activated", "persisted"} : WriteJournal(phase)
  \/ ClearJournal \/ FlipActive \/ PersistAccepted \/ PersistSignedFloor \/ RemoveOwnedStaging
  \/ CommitGeneration \/ WriteSeed
  \/ Recover \/ PointerKept \/ RepairActivePointer \/ Bootstrap \/ ClockBehind
  \/ ReconcileAccepted \/ Apply \/ Finish

-----------------------------------------------------------------------------
(* The environment. *)

Crash ==
  /\ crashes < world.crashes /\ crashes' = crashes + 1
  /\ run' = Idle /\ sync' = {}
  /\ UNCHANGED <<clock, done>>

KillUpdate == "kill" \in world.faults /\ run # Idle /\ Crash /\ UNCHANGED <<mem, disk>>

\* What is written together is kept or lost together: an entry of the store's
\* directory, or the trees of generations and staging.
Fates == {{"journal"}, {"active"}, {"accepted"}, {"floor"}, {"gen", "stg"}}

PowerFails ==
  /\ "power" \in world.faults /\ mem # disk /\ Crash
  /\ \E kept \in {UNION K : K \in SUBSET Fates} :
       mem' = [part \in DOMAIN mem |-> IF part \in kept THEN mem[part] ELSE disk[part]]
  /\ disk' = mem'

ClockMoves ==
  /\ clock' \in (IF world.jumps THEN Time ELSE {clock + 1} \cap Time) \ {clock}
  /\ UNCHANGED <<mem, disk, sync, run, crashes, done>>

Store(g) ==
  [journal |-> Clean, active |-> g, accepted |-> g, floor |-> 0,
   gen |-> [h \in Gens |-> IF h = g THEN Seeded("seed") ELSE NoDir],
   stg |-> [s \in Slots |-> NoRelease]]

TrustInit ==
  /\ world \in Worlds
  /\ mem = Store(IF world.installed THEN SeedGen ELSE 0)
  /\ disk = mem /\ sync = {} /\ run = Idle
  /\ clock = 1 /\ crashes = 0 /\ done = 0

TrustNext ==
  /\ Step \/ KillUpdate \/ PowerFails \/ ClockMoves \/ \E r \in Releases : Begin(r)
  /\ UNCHANGED world

TrustSpec == TrustInit /\ [][TrustNext]_<<trustVars, world>>

-----------------------------------------------------------------------------
(* Properties. *)

Kinds == {"none", "empty", "files", "seed", "release"}
Ops == {"staged", "commit", "committed", "flip", "activated", "accept", "floor", "persisted",
        "remove", "clear", "mkdir", "files", "owner"}

StoreOK(m) ==
  /\ m.journal \in [phase : {"clean", "staged", "committed", "activated", "persisted"},
                    gen : Gens \cup {0}, slot : Slots \cup {0}]
  /\ m.active \in Gens \cup {0} /\ m.accepted \in Gens \cup {0} /\ m.floor \in Nat
  /\ m.gen \in [Gens -> [kind : Kinds, issued : Nat, expires : Nat]]
  /\ m.stg \in [Slots -> Releases \cup {NoRelease}]

\* Everything has its type.
TrustTypeOK ==
  /\ StoreOK(mem) /\ StoreOK(disk)
  /\ sync \subseteq {"store", "generations", "staging"}
  /\ run.pc \in {"idle", "recover", "pointer", "reconcile", "apply", "done", "failed"}
  /\ run.rel \in Releases \cup {NoRelease} /\ run.now \in Time
  /\ run.todo \in Seq(Ops) /\ run.gen \in Gens \cup {0} /\ run.slot \in Slots \cup {0}
  /\ clock \in Time /\ world \in Worlds /\ crashes \in 0 .. world.crashes /\ done \in Gens \cup {0}

\* The generation that TLS clients read is whole, also after a power failure:
\* nothing absent or half written is ever active.
ActiveWhole == mem.active # 0 => mem.gen[mem.active].kind \in {"files", "seed", "release"}

\* What an update reported as applied survives every crash that follows.
Durable == ReadActive >= done /\ mem.accepted >= done

\* The high-water mark never passes the active generation: recovery and
\* reconciliation would refuse such a store for ever.
AcceptedNotAhead == ReadActive # 0 => mem.accepted <= mem.active

\* A store without a journal is settled: the active generation is the recorded
\* one, and the signed floor has reached its publication time.
Settled ==
  (run = Idle /\ sync = {} /\ mem.journal = Clean /\ ReadActive # 0) =>
     mem.accepted = mem.active /\ mem.floor >= mem.gen[mem.active].issued

\* Whatever an update that was killed left, the next one has something to do
\* about it.  (Excluded, because the code leaves a store that every later update
\* refuses: a kill of that recovery between its removal of the staging directory
\* and of the journal, a kill while the seeds are written in place, and a power
\* failure, which may keep the journal and lose the staging directory.)
Recoverable ==
  run = Idle /\ crashes <= 1 /\ world.installed /\ "power" \notin world.faults =>
    /\ RecoveryPlan(mem.journal) # Refusal
    /\ mem.journal = Clean /\ ReadActive = 0 =>
         IF Exists(mem.accepted) THEN mem.gen[mem.accepted].kind \in {"release", "seed"}
         ELSE ~BootstrapRefused

\* Kills and power failures do not mix: recovery does not sync what a killed
\* update had written, so a power failure may keep a part of that.
OneKind == world.faults # {"kill", "power"}

\* Trust never goes back: no step of an update, of recovery or of a repair
\* lowers the active generation, the accepted one or the floor.
NoRollback ==
  [][Step => /\ OneKind => mem'.active >= mem.active
             /\ mem'.accepted >= mem.accepted
             /\ mem'.floor >= mem.floor]_trustVars

\* A generation becomes active only if it is the seed, was accepted before, or
\* is fresh at the time this update read; also when recovery finishes what an
\* earlier update began.
ActivationAuthorized ==
  [][mem'.active # mem.active /\ Step =>
       LET g == mem'.active
       IN g \in {SeedGen, mem.accepted} \/ Fresh(mem.gen[g], run.now)]_trustVars

-----------------------------------------------------------------------------
(* Time passes, and the operator runs the update again until it is applied. *)

Newest == CHOOSE r \in Releases : \A q \in Releases : q.gen <= r.gen

TrustFairSpec == TrustSpec /\ WF_trustVars(Step) /\ WF_trustVars(ClockMoves) /\ SF_trustVars(Begin(Newest))

\* After an update that was killed, running the newest release again ends with
\* it active, recorded, and no journal.
Converges ==
  world.crashes <= 1 /\ world.installed /\ "power" \notin world.faults /\ ~world.jumps =>
    <>[](mem.active = Newest.gen /\ mem.accepted = Newest.gen /\ mem.journal = Clean)

-----------------------------------------------------------------------------
(* What the runs check. *)

\* At every moment, and after every crash: clients read a whole generation, what
\* was reported applied still is, and pointer, record and floor agree.
StoreSound == TrustTypeOK /\ (OneKind => ActiveWhole /\ Durable /\ AcceptedNotAhead /\ Settled)

\* Trust moves forward only, and only to what is authorized at the time.
TrustAdvances == NoRollback /\ ActivationAuthorized
=============================================================================
