----------------------------- MODULE Repository -----------------------------
(***************************************************************************)
(* Publication of packages and of signed snapshots to a package mirror,    *)
(* and the machines that plan from the snapshots (src/pm/repo.xsh,         *)
(* src/pm/remote.xsh, src/pm/repo_snapshot.xsh, src/mirror/src/packages.rs)*)
(*                                                                         *)
(* Abstractions.                                                           *)
(*  - A digest is the content it is the digest of, a signature is the      *)
(*    metadata that it signs.                                              *)
(*  - A row of the index has the key of an artifact, which stands for the  *)
(*    version and release it was built as, and the bytes of its objects;   *)
(*    the three objects of a row are one.                                  *)
(*  - Parsing and size limits are left out, and so are transport errors    *)
(*    that end a command, but for a kill at the same place.                *)
(***************************************************************************)
EXTENDS Integers, FiniteSets

CONSTANTS
  Packages,    \* package names
  MaxKey,      \* bound on artifact keys
  VersionOf,   \* the version and release that a key was built as
  Publishers,  \* publishers; each has a store of its own
  BytesOf,     \* bytes a publisher's store has for a given key
  Clients,     \* processes that plan, on a machine with one accepted state
  Worlds       \* circumstances to look at

Keys == 1 .. MaxKey

\* Circumstances: the packages that are published, the publishers and how many
\* of them work at once, the clients, the validity of a snapshot, and bounds on
\* keys, snapshots, clocks, and kills, power losses, failed fetches and clock
\* changes.
World ==
  [packages : SUBSET Packages, publishers : SUBSET Publishers, atOnce : Nat,
   clients : SUBSET Clients, life : Nat, keys : SUBSET Keys, gens : Nat, time : Nat, faults : Nat]

ASSUME RepositoryAssumption ==
  /\ MaxKey \in Nat /\ VersionOf \in [Keys -> Nat \ {0}] /\ IsFiniteSet(Publishers)
  /\ BytesOf \in [Publishers -> Nat \ {0}] /\ Worlds \subseteq World

VARIABLES
  world,    \* circumstances of this behaviour
  objects,  \* on the mirror: bytes of each package and key, 0 for none
  index,    \* index.json
  indexes,  \* digest-named indexes
  meta,     \* snapshot.json
  sig,      \* the metadata snapshot.sig signs
  signed,   \* snapshots signed offline
  day,      \* time at the signer
  job,      \* what each publisher is doing
  client,   \* what each client is doing
  clock,    \* clock of the clients' machine
  accepted, \* accepted state as processes see it
  durable,  \* accepted state on the disk
  planned,  \* generations planned from
  faults    \* faults so far

mirror == <<objects, index, indexes, meta, sig>>
vars == <<objects, index, indexes, meta, sig, signed, day, job, client, clock,
          accepted, durable, planned, faults>>

NoRow == [key |-> 0, bytes |-> 0]
EmptyIndex == [n \in Packages |-> NoRow]
NoSnapshot == [gen |-> 0, issued |-> 0, expires |-> 0, index |-> EmptyIndex]
NoAccepted == [gen |-> 0, index |-> EmptyIndex, floor |-> 0]
NoJob == [pc |-> "idle", pkg |-> "none", todo |-> {}, index |-> EmptyIndex, snap |-> NoSnapshot, seen |-> FALSE]
NoFetch == [pc |-> "idle", now |-> 0, meta |-> NoSnapshot]

-----------------------------------------------------------------------------
(* repo publish. *)

Free(p) == p \in world.publishers /\ job[p] = NoJob /\ Cardinality({q \in Publishers : job[q] # NoJob}) < world.atOnce
Goto(p, label) == job' = [job EXCEPT ![p].pc = label]

Leave(p) == job' = [job EXCEPT ![p] = NoJob]
Elsewhere == UNCHANGED <<signed, day, client, clock, accepted, durable, planned, faults>>

Version(row) == IF row.key = 0 THEN 0 ELSE VersionOf[row.key]

\* repo_merge_publication: a row may not go behind the published one.  The same
\* version under another key, a rebuild, may replace it.
Mergeable(old, row) == Version(row) >= Version(old)

\* The receipts of a plan, with the key wanted of each package or 0 for none, are
\* merged into the index; one row that is behind refuses the whole publication.
Publish(p, wanted) ==
  /\ Free(p)
  /\ LET rows == [n \in Packages |-> IF n \in DOMAIN wanted /\ wanted[n] # 0
                                     THEN [key |-> wanted[n], bytes |-> BytesOf[p]] ELSE index[n]]
         pending == {n \in Packages : rows[n] # index[n]}
     IN /\ pending # {} /\ \A n \in pending : Mergeable(index[n], rows[n])
        /\ job' = [job EXCEPT ![p] = [NoJob EXCEPT !.pc = "object", !.todo = pending, !.index = rows]]
  /\ UNCHANGED mirror /\ Elsewhere

\* Package n of the publication is on the mirror.
Uploaded(p, n) == job' = [job EXCEPT ![p].pc = "object", ![p].pkg = "none", ![p].todo = @ \ {n}]

\* Mutant: an object that is absent is taken for uploaded.
SkipObject(p, n) ==
  /\ job[p].pc = "object" /\ n \in job[p].todo
  /\ Uploaded(p, n)
  /\ UNCHANGED mirror /\ Elsewhere

\* If-None-Match: the mirror looks for the object.  One that is there is
\* accepted when its bytes are the same.
LookObject(p, n) ==
  /\ job[p].pc = "object" /\ n \in job[p].todo
  /\ LET row == job[p].index[n]
         there == objects[n][row.key]
     IN IF there = 0 THEN job' = [job EXCEPT ![p].pc = "put", ![p].pkg = n]
        ELSE IF there = row.bytes THEN Uploaded(p, n)
        ELSE Leave(p)
  /\ UNCHANGED mirror /\ Elsewhere

\* The mirror stores what it found absent.
PutObject(p) ==
  /\ job[p].pc = "put"
  /\ LET n == job[p].pkg
         row == job[p].index[n]
     IN objects' = [objects EXCEPT ![n][row.key] = row.bytes] /\ Uploaded(p, n)
  /\ UNCHANGED <<index, indexes, meta, sig>> /\ Elsewhere

\* Once every object is there, the merged index replaces whatever is there.
PutIndex(p) ==
  /\ job[p].pc = "object" /\ job[p].todo = {}
  /\ index' = job[p].index
  /\ Leave(p)
  /\ UNCHANGED <<objects, indexes, meta, sig>> /\ Elsewhere

-----------------------------------------------------------------------------
(* Signing, which happens offline, and repo publish-snapshot. *)

LastGen == IF signed = {} THEN 0 ELSE CHOOSE g \in {s.gen : s \in signed} : \A s \in signed : s.gen <= g

\* The metadata was composed at some time t, and may be signed and published
\* after that of a later time.
Sign ==
  /\ LastGen < world.gens
  /\ \E t \in 1 .. day :
       signed' = signed \cup {[gen |-> LastGen + 1, issued |-> t, expires |-> t + world.life, index |-> index]}
  /\ UNCHANGED <<objects, index, indexes, meta, sig, day, job, client, clock, accepted, durable, planned, faults>>

Days ==
  /\ day < world.time /\ day' = day + 1
  /\ UNCHANGED <<objects, index, indexes, meta, sig, signed, job, client, clock, accepted, durable, planned, faults>>

\* The snapshot must be of the index that is published now.
PublishSnapshot(p, s) ==
  /\ Free(p) /\ s.index = index
  /\ job' = [job EXCEPT ![p] = [NoJob EXCEPT !.pc = "prior", !.snap = s]]
  /\ UNCHANGED mirror /\ Elsewhere

\* Mutant: any snapshot may follow.
AdvancesAlways(s) == TRUE

\* Mutant: an interrupted publication may not be repeated.
AdvancesOnly(s) == meta = NoSnapshot \/ s.gen > meta.gen

\* A generation above the published one, or the same metadata again.
Advances(s) == meta = NoSnapshot \/ s.gen > meta.gen \/ s = meta

Prior(p) ==
  /\ job[p].pc = "prior"
  /\ IF Advances(job[p].snap) THEN job' = [job EXCEPT ![p].pc = "copy", ![p].seen = TRUE] ELSE Leave(p)
  /\ UNCHANGED mirror /\ Elsewhere

\* Any failure to fetch the prior snapshot passes for there being none.
MissPrior(p) ==
  /\ job[p].pc = "prior" /\ faults < world.faults /\ faults' = faults + 1
  /\ Goto(p, "copy")
  /\ UNCHANGED <<mirror, signed, day, client, clock, accepted, durable, planned>>

CopyIndex(p) ==
  /\ job[p].pc = "copy"
  /\ indexes' = indexes \cup {job[p].snap.index}
  /\ Goto(p, "meta")
  /\ UNCHANGED <<objects, index, meta, sig>> /\ Elsewhere

PutMeta(p) ==
  /\ job[p].pc = "meta"
  /\ meta' = job[p].snap
  /\ Goto(p, "sig")
  /\ UNCHANGED <<objects, index, indexes, sig>> /\ Elsewhere

\* The signature is last and completes the publication.
PutSig(p) ==
  /\ job[p].pc = "sig"
  /\ sig' = job[p].snap
  /\ Leave(p)
  /\ UNCHANGED <<objects, index, indexes, meta>> /\ Elsewhere

Work(p) ==
  (\E n \in Packages : LookObject(p, n)) \/ PutObject(p) \/ PutIndex(p)
  \/ Prior(p) \/ CopyIndex(p) \/ PutMeta(p) \/ PutSig(p)

KillPublisher(p) ==
  /\ job[p] # NoJob /\ faults < world.faults /\ faults' = faults + 1
  /\ Leave(p)
  /\ UNCHANGED <<objects, index, indexes, meta, sig, signed, day, client, clock, accepted, durable, planned>>

-----------------------------------------------------------------------------
(* Planning: load_verified_remote_index. *)

Step(c, label) == client' = [client EXCEPT ![c].pc = label]
Stop(c) == client' = [client EXCEPT ![c] = NoFetch]
Apart == UNCHANGED <<objects, index, indexes, meta, sig, signed, day, job, clock, faults>>

\* The clock is read first, then the metadata is fetched.
FetchMeta(c) ==
  /\ c \in world.clients /\ client[c] = NoFetch /\ meta # NoSnapshot
  /\ client' = [client EXCEPT ![c] = [pc |-> "sig", now |-> clock, meta |-> meta]]
  /\ Apart /\ UNCHANGED <<accepted, durable, planned>>

FetchSig(c) ==
  /\ client[c].pc = "sig"
  /\ IF sig = client[c].meta THEN Step(c, "index") ELSE Stop(c)
  /\ Apart /\ UNCHANGED <<accepted, durable, planned>>

FetchIndex(c) ==
  /\ client[c].pc = "index"
  /\ IF client[c].meta.index \in indexes THEN Step(c, "verify") ELSE Stop(c)
  /\ Apart /\ UNCHANGED <<accepted, durable, planned>>

\* What snapshot_verify and snapshot_persist_accepted ask of the accepted state.
Admits(m, now) ==
  \/ accepted = NoAccepted
  \/ /\ now >= accepted.floor
     /\ m.index = accepted.index \/ m.gen > accepted.gen
     /\ m.gen >= accepted.gen

\* snapshot_verify
Verify(c) ==
  LET m == client[c].meta
      now == client[c].now
  IN /\ client[c].pc = "verify"
     /\ IF m.issued <= now /\ now < m.expires /\ Admits(m, now)
        THEN Step(c, "persist") ELSE Stop(c)
     /\ Apart /\ UNCHANGED <<accepted, durable, planned>>

\* The greatest publication time accepted so far.
FloorOf(m, now) == IF accepted.floor > m.issued THEN accepted.floor ELSE m.issued

Locked == \E c \in Clients : client[c].pc = "sync"

\* Mutant: what was verified is not asked again under the lock.
PersistVerified(c) ==
  /\ client[c].pc = "persist"
  /\ LET m == client[c].meta
     IN IF ~Locked
        THEN /\ accepted' = [gen |-> m.gen, index |-> m.index, floor |-> FloorOf(m, client[c].now)]
             /\ Step(c, "sync")
        ELSE Stop(c) /\ UNCHANGED accepted
  /\ Apart /\ UNCHANGED <<durable, planned>>

\* snapshot_persist_accepted up to the rename: everything is asked again under
\* the lock, which is not waited for.
Persist(c) ==
  /\ client[c].pc = "persist"
  /\ LET m == client[c].meta
     IN IF ~Locked /\ Admits(m, client[c].now)
        THEN /\ accepted' = [gen |-> m.gen, index |-> m.index, floor |-> FloorOf(m, client[c].now)]
             /\ Step(c, "sync")
        ELSE Stop(c) /\ UNCHANGED accepted
  /\ Apart /\ UNCHANGED <<durable, planned>>

\* The file and its directory are synced, the lock is released and the caller
\* plans from the index.
Sync(c) ==
  /\ client[c].pc = "sync"
  /\ durable' = accepted
  /\ planned' = planned \cup {client[c].meta.gen}
  /\ Stop(c)
  /\ Apart /\ UNCHANGED accepted

Plan(c) == FetchSig(c) \/ FetchIndex(c) \/ Verify(c) \/ Persist(c) \/ Sync(c)

KillClient(c) ==
  /\ client[c] # NoFetch /\ faults < world.faults /\ faults' = faults + 1
  /\ Stop(c)
  /\ UNCHANGED <<mirror, signed, day, job, clock, accepted, durable, planned>>

\* A rename that was not synced may or may not be on the disk.
PowerLoss ==
  /\ faults < world.faults /\ faults' = faults + 1
  /\ accepted' \in {accepted, durable} /\ durable' = accepted'
  /\ client' = [c \in Clients |-> NoFetch]
  /\ UNCHANGED <<mirror, signed, day, job, clock, planned>>

\* The machine's clock is set, right or wrong.
SetClock(t) ==
  /\ clock' = t /\ t # clock
  /\ IF t = day THEN UNCHANGED faults ELSE faults < world.faults /\ faults' = faults + 1
  /\ UNCHANGED <<mirror, signed, day, job, client, accepted, durable, planned>>

-----------------------------------------------------------------------------
Init ==
  /\ world \in Worlds
  /\ objects = [n \in Packages |-> [k \in Keys |-> 0]]
  /\ index = EmptyIndex /\ indexes = {}
  /\ meta = NoSnapshot /\ sig = NoSnapshot /\ signed = {} /\ day = 1
  /\ job = [p \in Publishers |-> NoJob]
  /\ client = [c \in Clients |-> NoFetch] /\ clock = 1
  /\ accepted = NoAccepted /\ durable = NoAccepted /\ planned = {} /\ faults = 0

Next ==
  /\ \/ \E p \in Publishers :
          \/ Work(p) \/ MissPrior(p) \/ KillPublisher(p)
          \/ \E wanted \in [world.packages -> world.keys \cup {0}] : Publish(p, wanted)
          \/ \E s \in signed : PublishSnapshot(p, s)
     \/ Sign \/ Days
     \/ \E c \in Clients : FetchMeta(c) \/ Plan(c) \/ KillClient(c)
     \/ PowerLoss \/ \E t \in 0 .. world.time : SetClock(t)
  /\ UNCHANGED world

Spec == Init /\ [][Next]_<<vars, world>>

\* The newest snapshot, once it is of the published index.
Newest == IF signed = {} THEN NoSnapshot ELSE CHOOSE s \in signed : s.gen = LastGen
Current == signed # {} /\ Newest.index = index

\* Whoever publishes finishes, signs the index that is there and publishes the
\* snapshot until the pair is complete; the machine's clock is put right and
\* its operator plans again.
FairSpec ==
  /\ Spec
  /\ WF_vars(~Current /\ Sign) /\ WF_vars(SetClock(day))
  /\ \A p \in Publishers :
       /\ WF_vars(Work(p))
       /\ SF_vars(Current /\ ~(meta = Newest /\ sig = Newest) /\ PublishSnapshot(p, Newest))
  /\ \A c \in Clients : WF_vars(Plan(c)) /\ SF_vars(meta = Newest /\ FetchMeta(c))

-----------------------------------------------------------------------------
(* Properties. *)

Rows == [key : 0 .. MaxKey, bytes : Nat]
Indexes == [Packages -> Rows]
Snapshots == [gen : Nat, issued : Nat, expires : Nat, index : Indexes]

\* Everything has its type.
TypeOK ==
  /\ objects \in [Packages -> [Keys -> Nat]] /\ index \in Indexes /\ indexes \subseteq Indexes
  /\ meta \in Snapshots /\ sig \in Snapshots /\ signed \subseteq Snapshots
  /\ job \in [Publishers -> [pc : {"idle", "object", "put", "prior", "copy", "meta", "sig"},
                             pkg : Packages \cup {"none"}, todo : SUBSET Packages, index : Indexes,
                             snap : Snapshots, seen : BOOLEAN]]
  /\ client \in [Clients -> [pc : {"idle", "sig", "index", "verify", "persist", "sync"},
                             now : Nat, meta : Snapshots]]
  /\ {accepted, durable} \subseteq [gen : Nat, index : Indexes, floor : Nat]
  /\ day \in Nat /\ clock \in Nat /\ faults \in Nat /\ planned \subseteq Nat

Whole(rows) ==
  \A n \in Packages : rows[n] # NoRow => objects[n][rows[n].key] = rows[n].bytes

\* Publishers take turns.  (Nothing makes them: the mirror's check for an object
\* and the puts of the index and of the snapshot are not conditional on what was
\* read before, so publishers at once replace an object and move the index and
\* the snapshot back.)
TakeTurns == world.atOnce = 1

\* Whatever interrupts a publication, every row of the index and of every
\* index that clients can be sent to has its objects on the mirror.
RowsComplete == TakeTurns => Whole(index) /\ \A rows \in indexes : Whole(rows)

\* No package of index b has an older version than in index a.
NotBehind(a, b) == \A n \in Packages : Version(b[n]) >= Version(a[n])

\* The published index does not move a package back.
RowsAdvance == [][TakeTurns => NotBehind(index, index')]_vars

\* The published snapshot moves no package back, and goes back to an older
\* generation only by a publisher that could not fetch the published one.
SnapshotAdvances ==
  [][TakeTurns =>
       /\ NotBehind(meta.index, meta'.index)
       /\ meta'.gen >= meta.gen \/ \E p \in Publishers : job[p].pc = "meta" /\ ~job[p].seen]_vars

\* An object that is on the mirror is never replaced.
ObjectsStay ==
  [][TakeTurns => \A n \in Packages, k \in Keys :
       objects[n][k] # 0 => objects'[n][k] = objects[n][k]]_vars

\* Processes that plan at the same time, kills and power losses do not lower
\* the accepted generation or the time floor on the disk, nor change the index
\* of a generation that was accepted.
FloorHolds ==
  [][/\ durable'.gen >= durable.gen /\ durable'.floor >= durable.floor
     /\ durable'.gen = durable.gen /\ durable # NoAccepted => durable'.index = durable.index]_vars

\* No plan is ahead of the floor on the disk: what was planned from cannot be
\* rolled back by a power loss.
PlannedBelowFloor == \A g \in planned : g <= durable.gen

\* The time floor is a publication time somebody signed, whatever the machine's
\* clock has read.
FloorAuthentic == accepted.floor = 0 \/ \E s \in signed : accepted.floor = s.issued /\ s.gen <= accepted.gen

\* What is published and signed reaches the clients: in the end they have
\* accepted the newest snapshot, although publications, plans and the power are
\* interrupted and the clock was wrong.  (If a snapshot expires, somebody has to
\* sign the same index again.)
Follows ==
  <>[](TakeTurns /\ world.clients # {} /\ world.time <= world.life /\ Current => durable.gen = LastGen /\ durable.index = index)

-----------------------------------------------------------------------------
(* What the runs check. *)

\* Whatever is interrupted, rows have their objects, plans are covered by the
\* floor on the disk, and the floor is one that somebody signed.
RepositorySound == TypeOK /\ RowsComplete /\ PlannedBelowFloor /\ FloorAuthentic

\* The mirror moves forward: no row or object is replaced by an older or another
\* one, and no snapshot by one with older rows, nor by an older generation unless
\* the fetch of the published one failed.
MirrorAdvances == RowsAdvance /\ SnapshotAdvances /\ ObjectsStay
=============================================================================
