-------------------------- MODULE RepositoryProofs --------------------------
(***************************************************************************)
(* Proofs about the publication of packages and snapshots and about the    *)
(* floor that planning keeps, for any number of packages, publishers and   *)
(* clients and any number of kills, power losses and clock changes.        *)
(***************************************************************************)
EXTENDS Repository, FiniteSetTheorems, TLAPS

Jobs == [pc : {"idle", "object", "put", "prior", "copy", "meta", "sig"},
         pkg : Packages \cup {"none"}, todo : SUBSET Packages, index : Indexes,
         snap : Snapshots, seen : BOOLEAN]
Fetches == [pc : {"idle", "sig", "index", "verify", "persist", "sync"}, now : Nat, meta : Snapshots]
Floors == [gen : Nat, index : Indexes, floor : Nat]

\* What is published, about to be published or fetched was signed, and one of
\* the signed snapshots is the newest.
SignedOnly ==
  /\ signed # {} => \E s \in signed : \A t \in signed : t.gen <= s.gen
  /\ \A s \in signed : s.gen > 0
  /\ meta \in signed \cup {NoSnapshot}
  /\ \A p \in Publishers : job[p].snap \in signed \cup {NoSnapshot}
  /\ \A c \in Clients : client[c].pc # "idle" => client[c].meta \in signed

\* The state b may follow the accepted state a.
Follow(a, b) ==
  /\ b.gen >= a.gen /\ b.floor >= a.floor
  /\ b.gen = a.gen /\ a # NoAccepted => b.index = a.index

\* What is on the disk is what processes see or something older, and a process
\* about to plan has its snapshot accepted.
FloorKept ==
  /\ Follow(durable, accepted)
  /\ accepted # NoAccepted => accepted.gen > 0
  /\ durable # NoAccepted => durable.gen > 0
  /\ durable.floor = 0 \/ \E s \in signed : durable.floor = s.issued /\ s.gen <= durable.gen
  /\ \A c \in Clients : client[c].pc = "sync" => client[c].meta.gen <= accepted.gen

IInv == world \in World /\ TypeOK /\ SignedOnly /\ FloorKept /\ FloorAuthentic /\ PlannedBelowFloor

-----------------------------------------------------------------------------
(* Types. *)

LEMMA Nothings ==
  /\ NoRow \in Rows /\ EmptyIndex \in Indexes /\ NoSnapshot \in Snapshots
  /\ NoJob \in Jobs /\ NoFetch \in Fetches /\ NoAccepted \in Floors
  /\ NoJob.pc = "idle" /\ NoJob.snap = NoSnapshot /\ ~NoJob.seen
  /\ NoFetch.pc = "idle" /\ NoFetch.meta = NoSnapshot
  /\ NoAccepted.gen = 0 /\ NoAccepted.floor = 0
  /\ NoSnapshot.gen = 0 /\ NoSnapshot.index = EmptyIndex
<1>1. NoRow \in Rows
  BY RepositoryAssumption DEF NoRow, Rows
<1>2. EmptyIndex \in Indexes
  BY <1>1 DEF EmptyIndex, Indexes
<1>3. NoSnapshot \in Snapshots /\ NoSnapshot.gen = 0 /\ NoSnapshot.index = EmptyIndex
  BY <1>2 DEF NoSnapshot, Snapshots
<1>4. NoJob \in Jobs /\ NoJob.pc = "idle" /\ NoJob.snap = NoSnapshot /\ ~NoJob.seen
  BY <1>1, <1>2, <1>3 DEF NoJob, Jobs
<1>5. NoFetch \in Fetches /\ NoFetch.pc = "idle" /\ NoFetch.meta = NoSnapshot
  BY <1>3 DEF NoFetch, Fetches
<1>6. NoAccepted \in Floors /\ NoAccepted.gen = 0 /\ NoAccepted.floor = 0
  BY <1>2 DEF NoAccepted, Floors
<1> QED  BY <1>1, <1>2, <1>3, <1>4, <1>5, <1>6

LEMMA Types ==
  TypeOK <=>
    /\ objects \in [Packages -> [Keys -> Nat]] /\ index \in Indexes /\ indexes \subseteq Indexes
    /\ meta \in Snapshots /\ sig \in Snapshots /\ signed \subseteq Snapshots
    /\ job \in [Publishers -> Jobs] /\ client \in [Clients -> Fetches]
    /\ accepted \in Floors /\ durable \in Floors
    /\ day \in Nat /\ clock \in Nat /\ faults \in Nat /\ planned \subseteq Nat
  BY DEF TypeOK, Jobs, Fetches, Floors

\* A publisher goes on to x.
LEMMA JobStep ==
  ASSUME IInv, NEW p \in Publishers, NEW x \in Jobs, job' = [job EXCEPT ![p] = x],
         x.snap \in {job[p].snap, NoSnapshot} \cup signed,
         UNCHANGED <<world, signed, day, client, clock, accepted, durable, planned>>, faults' \in Nat,
         objects' \in [Packages -> [Keys -> Nat]], index' \in Indexes, indexes' \subseteq Indexes,
         meta' \in {meta, job[p].snap}, sig' \in {sig, job[p].snap}
  PROVE  IInv'
<1> USE DEF IInv
<1>1. job' \in [Publishers -> Jobs] /\ job'[p] = x /\ \A q \in Publishers \ {p} : job'[q] = job[q]
  BY Types
<1>2. job[p].snap \in Snapshots
  BY Types DEF Jobs
<1>3. TypeOK'
  <2>1. meta' \in Snapshots /\ sig' \in Snapshots
    BY <1>2, Types
  <2> QED  BY <1>1, <2>1, Types DEF TypeOK, Jobs
<1>4. SignedOnly'
  <2>1. meta' \in signed \cup {NoSnapshot}
    BY DEF SignedOnly
  <2>2. \A q \in Publishers : job'[q].snap \in signed \cup {NoSnapshot}
    BY <1>1 DEF SignedOnly
  <2> QED  BY <2>1, <2>2 DEF SignedOnly
<1>5. FloorKept' /\ FloorAuthentic' /\ PlannedBelowFloor'
  BY DEF FloorKept, Follow, FloorAuthentic, PlannedBelowFloor
<1> QED  BY <1>3, <1>4, <1>5

-----------------------------------------------------------------------------
(* Publishers. *)

Labels == {"idle", "object", "put", "prior", "copy", "meta", "sig"}

LEMMA JobFields ==
  ASSUME IInv, NEW p \in Publishers
  PROVE  /\ job[p] \in Jobs /\ job[p].pkg \in Packages \cup {"none"} /\ job[p].todo \subseteq Packages
         /\ job[p].index \in Indexes /\ job[p].snap \in Snapshots
  BY Types DEF IInv, Jobs

LEMMA GotoFields ==
  ASSUME IInv, NEW p \in Publishers, NEW label \in Labels, Goto(p, label)
  PROVE  \E x \in Jobs : /\ job' = [job EXCEPT ![p] = x]
                         /\ x.pc = label /\ x.snap = job[p].snap /\ x.seen = job[p].seen
<1> DEFINE x == [job[p] EXCEPT !.pc = label]
<1>1. job' = [job EXCEPT ![p] = x]
  BY DEF Goto
<1>2. x \in Jobs
  BY JobFields DEF Jobs, Labels
<1>3. x.pc = label /\ x.snap = job[p].snap /\ x.seen = job[p].seen
  BY JobFields DEF Jobs
<1> HIDE DEF x
<1> QED  BY <1>1, <1>2, <1>3

LEMMA PriorFields ==
  ASSUME IInv, NEW p \in Publishers, Prior(p), Advances(job[p].snap)
  PROVE  \E x \in Jobs : job' = [job EXCEPT ![p] = x] /\ x.pc = "copy" /\ x.snap = job[p].snap
<1> DEFINE x == [job[p] EXCEPT !.pc = "copy", !.seen = TRUE]
<1>1. job' = [job EXCEPT ![p] = x]
  BY DEF Prior
<1>2. x \in Jobs /\ x.pc = "copy" /\ x.snap = job[p].snap
  BY JobFields DEF Jobs
<1> HIDE DEF x
<1> QED  BY <1>1, <1>2

\* A publisher goes on to store package n.
LEMMA PutFields ==
  ASSUME IInv, NEW p \in Publishers, NEW n \in Packages, job' = [job EXCEPT ![p].pc = "put", ![p].pkg = n]
  PROVE  \E x \in Jobs : /\ job' = [job EXCEPT ![p] = x] /\ x.pc = "put" /\ x.pkg = n
                         /\ x.todo = job[p].todo /\ x.index = job[p].index /\ x.snap = job[p].snap
<1> DEFINE x == [job[p] EXCEPT !.pc = "put", !.pkg = n]
<1>1. job' = [job EXCEPT ![p] = x]
  OBVIOUS
<1>2. x \in Jobs /\ x.pc = "put" /\ x.pkg = n
  BY JobFields DEF Jobs
<1>3. x.todo = job[p].todo /\ x.index = job[p].index /\ x.snap = job[p].snap
  BY JobFields DEF Jobs
<1> HIDE DEF x
<1> QED  BY <1>1, <1>2, <1>3

LEMMA UploadedFields ==
  ASSUME IInv, NEW p \in Publishers, NEW n, Uploaded(p, n)
  PROVE  \E x \in Jobs : /\ job' = [job EXCEPT ![p] = x] /\ x.pc = "object"
                         /\ x.todo = job[p].todo \ {n} /\ x.index = job[p].index /\ x.snap = job[p].snap
<1> DEFINE rest == job[p].todo \ {n}
           x == [job[p] EXCEPT !.pc = "object", !.pkg = "none", !.todo = rest]
<1>1. job' = [job EXCEPT ![p] = x]
  BY DEF Uploaded
<1>2. rest \subseteq Packages
  BY JobFields
<1>3. rest = job[p].todo \ {n}
  OBVIOUS
<1> HIDE DEF rest
<1>4. x \in Jobs /\ x.pc = "object"
  BY <1>2, JobFields DEF Jobs
<1>5. x.todo = rest /\ x.index = job[p].index /\ x.snap = job[p].snap
  BY JobFields DEF Jobs
<1> HIDE DEF x
<1> QED  BY <1>1, <1>3, <1>4, <1>5

\* The rows of package n that a publication leaves or replaces.
LEMMA PublishFields ==
  ASSUME IInv, NEW p \in Publishers, NEW wanted \in [world.packages -> world.keys \cup {0}], Publish(p, wanted)
  PROVE  \E x \in Jobs : /\ job' = [job EXCEPT ![p] = x] /\ x.pc = "object" /\ x.snap = NoSnapshot
                         /\ \A n \in Packages :
                              /\ n \in x.todo => /\ x.index[n].key \in Keys /\ x.index[n].bytes # 0
                                                 /\ Mergeable(index[n], x.index[n])
                              /\ n \notin x.todo => x.index[n] = index[n]
<1> DEFINE named(n) == n \in DOMAIN wanted /\ wanted[n] # 0
           row(n) == [key |-> wanted[n], bytes |-> BytesOf[p]]
           rows == [n \in Packages |-> IF named(n) THEN row(n) ELSE index[n]]
           pending == {n \in Packages : rows[n] # index[n]}
           x == [NoJob EXCEPT !.pc = "object", !.todo = pending, !.index = rows]
<1>1. job' = [job EXCEPT ![p] = x] /\ \A n \in pending : Mergeable(index[n], rows[n])
  BY DEF Publish
<1>2. \A n \in Packages : named(n) => /\ row(n) \in Rows /\ row(n).key \in Keys /\ row(n).bytes # 0
  <2>1. world.keys \subseteq Keys
    BY DEF IInv, World
  <2>2. BytesOf[p] \in Nat \ {0}
    BY RepositoryAssumption
  <2>3. \A n \in Packages : named(n) => wanted[n] \in Keys
    BY <2>1
  <2>4. \A k \in Keys : [key |-> k, bytes |-> BytesOf[p]] \in Rows
    BY <2>2, RepositoryAssumption DEF Rows, Keys
  <2> QED  BY <2>2, <2>3, <2>4
<1> HIDE DEF row, named
<1>3. index \in Indexes /\ \A n \in Packages : index[n] \in Rows
  BY Types DEF IInv, Indexes
<1>4. rows \in Indexes
  BY <1>2, <1>3 DEF Indexes
<1>5. \A n \in Packages :
        /\ n \in pending => rows[n].key \in Keys /\ rows[n].bytes # 0
        /\ n \notin pending => rows[n] = index[n]
  BY <1>2
<1>6. pending \subseteq Packages
  OBVIOUS
<1> HIDE DEF rows, pending
<1>7. x \in Jobs /\ x.pc = "object" /\ x.todo = pending /\ x.index = rows
  BY <1>4, <1>6, Nothings DEF Jobs
<1>8. x.snap = NoSnapshot
  BY <1>4, <1>6, Nothings DEF Jobs
<1> HIDE DEF x
<1> QED  BY <1>1, <1>5, <1>7, <1>8

LEMMA SnapshotFields ==
  ASSUME IInv, NEW p \in Publishers, NEW s \in signed, PublishSnapshot(p, s)
  PROVE  \E x \in Jobs : job' = [job EXCEPT ![p] = x] /\ x.pc = "prior" /\ x.snap = s /\ ~x.seen
<1> DEFINE y == [NoJob EXCEPT !.pc = "prior"]
           x == [y EXCEPT !.snap = s]
<1>1. y \in Jobs /\ y.pc = "prior" /\ ~y.seen
  BY Nothings DEF Jobs
<1>2. job' = [job EXCEPT ![p] = x]
  BY DEF PublishSnapshot
<1> HIDE DEF y
<1>3. s \in Snapshots
  BY Types DEF IInv
<1>4. x \in Jobs /\ x.pc = "prior" /\ x.snap = s /\ ~x.seen
  BY <1>1, <1>3 DEF Jobs
<1> HIDE DEF x
<1> QED  BY <1>2, <1>4

LEMMA PublisherStep ==
  ASSUME IInv, UNCHANGED world, NEW p \in Publishers,
         \/ Work(p) \/ MissPrior(p) \/ KillPublisher(p)
         \/ \E wanted \in [world.packages -> world.keys \cup {0}] : Publish(p, wanted)
         \/ \E s \in signed : PublishSnapshot(p, s)
  PROVE  IInv'
<1>0. /\ objects \in [Packages -> [Keys -> Nat]] /\ index \in Indexes /\ indexes \subseteq Indexes
      /\ faults \in Nat
  BY Types DEF IInv
<1>1. ASSUME Leave(p), UNCHANGED <<objects, indexes, meta>>, index' \in Indexes, sig' \in {sig, job[p].snap},
             UNCHANGED <<signed, day, client, clock, accepted, durable, planned>>, faults' \in Nat
      PROVE  IInv'
  BY <1>0, <1>1, Nothings, JobStep DEF Leave
<1>2. ASSUME NEW x \in Jobs, job' = [job EXCEPT ![p] = x], x.snap = job[p].snap, UNCHANGED <<index, sig>>,
             UNCHANGED <<signed, day, client, clock, accepted, durable, planned>>, faults' \in Nat,
             objects' \in [Packages -> [Keys -> Nat]], indexes' \subseteq Indexes, meta' \in {meta, job[p].snap}
      PROVE  IInv'
  BY <1>0, <1>2, JobStep
<1>3. ASSUME NEW n \in Packages, LookObject(p, n) PROVE IInv'
  <2>0. UNCHANGED mirror /\ Elsewhere
    BY <1>3 DEF LookObject
  <2>1. CASE job' = [job EXCEPT ![p].pc = "put", ![p].pkg = n]
    BY <1>0, <1>2, <2>0, <2>1, PutFields DEF mirror, Elsewhere
  <2>2. CASE Uploaded(p, n)
    BY <1>0, <1>2, <2>0, <2>2, UploadedFields DEF mirror, Elsewhere
  <2>3. CASE Leave(p)
    BY <1>0, <1>1, <2>0, <2>3 DEF mirror, Elsewhere
  <2> QED  BY <1>3, <2>1, <2>2, <2>3 DEF LookObject
<1>4. CASE PutObject(p)
  <2> DEFINE n == job[p].pkg
             row == job[p].index[n]
  <2>0. /\ objects' = [objects EXCEPT ![n][row.key] = row.bytes] /\ Uploaded(p, n)
        /\ UNCHANGED <<index, indexes, meta, sig>> /\ Elsewhere /\ job[p].pc = "put"
    BY <1>4 DEF PutObject
  <2>1. n \in Packages => row.bytes \in Nat
    BY JobFields DEF Indexes, Rows
  <2> HIDE DEF n, row
  <2>2. CASE n \in Packages
    <3>1. objects' \in [Packages -> [Keys -> Nat]]
      BY <1>0, <2>0, <2>1, <2>2
    <3> QED  BY <1>0, <1>2, <2>0, <3>1, UploadedFields DEF Elsewhere
  <2>3. CASE n \notin Packages
    <3>1. objects' \in [Packages -> [Keys -> Nat]]
      BY <1>0, <2>0, <2>3
    <3> QED  BY <1>0, <1>2, <2>0, <3>1, UploadedFields DEF Elsewhere
  <2> QED  BY <2>2, <2>3
<1>5. CASE PutIndex(p)
  BY <1>0, <1>1, <1>5, JobFields DEF PutIndex, Elsewhere
<1>6. CASE Prior(p)
  <2>1. CASE Advances(job[p].snap)
    BY <1>0, <1>2, <1>6, <2>1, PriorFields DEF Prior, mirror, Elsewhere
  <2>2. CASE ~Advances(job[p].snap)
    BY <1>0, <1>1, <1>6, <2>2 DEF Prior, mirror, Elsewhere
  <2> QED  BY <2>1, <2>2
<1>13. CASE MissPrior(p)
  BY <1>0, <1>2, <1>13, GotoFields DEF MissPrior, mirror, Labels
<1>7. CASE CopyIndex(p)
  <2>1. job[p].snap.index \in Indexes
    BY JobFields DEF Snapshots
  <2> QED  BY <1>0, <1>2, <1>7, <2>1, GotoFields DEF CopyIndex, Elsewhere, Labels
<1>8. CASE PutMeta(p)
  BY <1>0, <1>2, <1>8, GotoFields DEF PutMeta, Elsewhere, Labels
<1>9. CASE PutSig(p)
  BY <1>0, <1>1, <1>9 DEF PutSig, Elsewhere
<1>10. CASE KillPublisher(p)
  BY <1>0, <1>1, <1>10 DEF KillPublisher
<1>11. ASSUME NEW wanted \in [world.packages -> world.keys \cup {0}], Publish(p, wanted) PROVE IInv'
  <2>1. \E x \in Jobs : job' = [job EXCEPT ![p] = x] /\ x.pc = "object" /\ x.snap = NoSnapshot
    BY <1>11, PublishFields
  <2> QED  BY <1>0, <1>11, <2>1, JobStep DEF Publish, mirror, Elsewhere
<1>12. ASSUME NEW s \in signed, PublishSnapshot(p, s) PROVE IInv'
  <2>1. PICK x \in Jobs : job' = [job EXCEPT ![p] = x] /\ x.snap = s
    BY <1>12, SnapshotFields
  <2> QED  BY <1>0, <1>12, <2>1, JobStep DEF PublishSnapshot, mirror, Elsewhere
<1> QED  BY <1>3, <1>4, <1>5, <1>6, <1>7, <1>8, <1>9, <1>10, <1>11, <1>12, <1>13 DEF Work

-----------------------------------------------------------------------------
(* Signing and time. *)

LEMMA LastGenIs ==
  ASSUME IInv
  PROVE  LastGen \in Nat /\ \A s \in signed : s.gen <= LastGen
<1>1. CASE signed = {}
  BY <1>1 DEF LastGen
<1>2. CASE signed # {}
  <2>1. PICK s \in signed : \A t \in signed : t.gen <= s.gen
    BY <1>2 DEF IInv, SignedOnly
  <2>2. \E g \in {t.gen : t \in signed} : \A t \in signed : t.gen <= g
    BY <2>1
  <2>3. LastGen \in {t.gen : t \in signed} /\ \A t \in signed : t.gen <= LastGen
    BY <1>2, <2>2 DEF LastGen
  <2>4. \A t \in signed : t.gen \in Nat
    BY Types DEF IInv, Snapshots
  <2> QED  BY <2>3, <2>4
<1> QED  BY <1>1, <1>2

LEMMA SignStep ==
  ASSUME IInv, UNCHANGED world, Sign
  PROVE  IInv'
<1> USE DEF IInv
<1>0. PICK t \in 1 .. day :
        signed' = signed \cup {[gen |-> LastGen + 1, issued |-> t, expires |-> t + world.life, index |-> index]}
  BY DEF Sign
<1> DEFINE s == [gen |-> LastGen + 1, issued |-> t, expires |-> t + world.life, index |-> index]
<1>1. signed' = signed \cup {s}
  BY <1>0
<1>2. s \in Snapshots /\ s.gen = LastGen + 1
  <2>1. t \in Nat /\ t + world.life \in Nat /\ LastGen + 1 \in Nat
    BY LastGenIs, Types DEF World
  <2> QED  BY <2>1, Types DEF Snapshots
<1> HIDE DEF s
<1>3. UNCHANGED <<objects, index, indexes, meta, sig, day, job, client, clock, accepted, durable, planned, faults>>
  BY DEF Sign
<1>4. TypeOK'
  BY <1>1, <1>2, <1>3, Types DEF TypeOK, Jobs, Fetches, Floors
<1>5. SignedOnly'
  <2>1. \A q \in signed' : q.gen <= s.gen /\ q.gen > 0
    <3>1. \A q \in signed : q.gen \in Nat /\ q.gen > 0
      BY Types DEF Snapshots, SignedOnly
    <3> QED  BY <1>1, <1>2, <3>1, LastGenIs
  <2> QED  BY <1>1, <1>3, <2>1 DEF SignedOnly
<1>6. FloorAuthentic'
  BY <1>1, <1>3 DEF FloorAuthentic
<1>7. FloorKept' /\ PlannedBelowFloor'
  BY <1>1, <1>3 DEF FloorKept, Follow, PlannedBelowFloor
<1> QED  BY <1>4, <1>5, <1>6, <1>7

LEMMA TimeStep ==
  ASSUME IInv, UNCHANGED world, Days \/ \E t \in 0 .. world.time : SetClock(t)
  PROVE  IInv'
<1> USE DEF IInv
<1>1. /\ UNCHANGED <<objects, index, indexes, meta, sig, signed, job, client, accepted, durable, planned>>
      /\ day' \in Nat /\ clock' \in Nat /\ faults' \in Nat
  BY Types DEF Days, SetClock, mirror, World
<1>2. TypeOK'
  BY <1>1, Types DEF TypeOK, Jobs, Fetches, Floors
<1> QED  BY <1>1, <1>2 DEF SignedOnly, FloorKept, Follow, FloorAuthentic, PlannedBelowFloor

-----------------------------------------------------------------------------
(* Clients. *)

\* A client goes on to x without touching the accepted state.
LEMMA ClientStep ==
  ASSUME IInv, NEW c \in Clients, NEW x \in Fetches, client' = [client EXCEPT ![c] = x],
         x.pc # "idle" => x.meta \in signed, x.pc # "sync",
         UNCHANGED <<world, objects, index, indexes, meta, sig, signed, day, job, clock, accepted, durable, planned>>,
         faults' \in Nat
  PROVE  IInv'
<1> USE DEF IInv
<1>1. client' \in [Clients -> Fetches] /\ client'[c] = x /\ \A d \in Clients \ {c} : client'[d] = client[d]
  BY Types
<1>2. TypeOK'
  BY <1>1, Types DEF TypeOK, Jobs, Fetches, Floors
<1>3. SignedOnly'
  BY <1>1 DEF SignedOnly
<1>4. FloorKept'
  BY <1>1 DEF FloorKept, Follow
<1>5. FloorAuthentic' /\ PlannedBelowFloor'
  BY DEF FloorAuthentic, PlannedBelowFloor
<1> QED  BY <1>2, <1>3, <1>4, <1>5

LEMMA FetchFields ==
  ASSUME IInv, NEW c \in Clients
  PROVE  /\ client[c] \in Fetches /\ client[c].now \in Nat /\ client[c].meta \in Snapshots
         /\ client[c].meta.gen \in Nat /\ client[c].meta.issued \in Nat /\ client[c].meta.index \in Indexes
  BY Types DEF IInv, Fetches, Snapshots

LEMMA StepFields ==
  ASSUME IInv, NEW c \in Clients, NEW label \in {"index", "verify", "persist", "sync"}, Step(c, label)
  PROVE  \E x \in Fetches : client' = [client EXCEPT ![c] = x] /\ x.pc = label /\ x.meta = client[c].meta
<1> DEFINE x == [client[c] EXCEPT !.pc = label]
<1>1. client' = [client EXCEPT ![c] = x]
  BY DEF Step
<1>2. x \in Fetches /\ x.pc = label /\ x.meta = client[c].meta
  BY FetchFields DEF Fetches
<1> HIDE DEF x
<1> QED  BY <1>1, <1>2

LEMMA StopStep ==
  ASSUME IInv, NEW c \in Clients, Stop(c),
         UNCHANGED <<world, objects, index, indexes, meta, sig, signed, day, job, clock, accepted, durable, planned>>,
         faults' \in Nat
  PROVE  IInv'
  BY Nothings, ClientStep DEF Stop

LEMMA FetchStep ==
  ASSUME IInv, UNCHANGED world, NEW c \in Clients,
         FetchMeta(c) \/ FetchSig(c) \/ FetchIndex(c) \/ Verify(c) \/ KillClient(c)
  PROVE  IInv'
<1>0. faults \in Nat
  BY Types DEF IInv
<1>1. ASSUME NEW label \in {"index", "verify", "persist"}, Step(c, label), client[c].pc # "idle", Apart,
             UNCHANGED <<accepted, durable, planned>>
      PROVE  IInv'
  <2>1. PICK x \in Fetches : client' = [client EXCEPT ![c] = x] /\ x.pc = label /\ x.meta = client[c].meta
    BY <1>1, StepFields
  <2>2. x.meta \in signed /\ x.pc # "sync"
    BY <1>1, <2>1 DEF IInv, SignedOnly
  <2> QED  BY <1>0, <1>1, <2>1, <2>2, ClientStep DEF Apart
<1>2. ASSUME Stop(c), Apart, UNCHANGED <<accepted, durable, planned>> PROVE IInv'
  BY <1>0, <1>2, StopStep DEF Apart
<1>3. CASE FetchMeta(c)
  <2> DEFINE x == [pc |-> "sig", now |-> clock, meta |-> meta]
  <2>1. client' = [client EXCEPT ![c] = x]
    BY <1>3 DEF FetchMeta
  <2>2. x \in Fetches /\ x.pc = "sig" /\ x.meta = meta
    BY Types DEF IInv, Fetches
  <2>3. meta \in signed
    BY <1>3 DEF FetchMeta, IInv, SignedOnly
  <2> HIDE DEF x
  <2> QED  BY <1>0, <1>3, <2>1, <2>2, <2>3, ClientStep DEF FetchMeta, Apart
<1>4. CASE FetchSig(c)
  BY <1>1, <1>2, <1>4 DEF FetchSig
<1>5. CASE FetchIndex(c)
  BY <1>1, <1>2, <1>5 DEF FetchIndex
<1>6. CASE Verify(c)
  BY <1>1, <1>2, <1>6 DEF Verify
<1>7. CASE KillClient(c)
  BY <1>0, <1>7, StopStep DEF KillClient, mirror
<1> QED  BY <1>3, <1>4, <1>5, <1>6, <1>7

\* What is accepted under the lock follows what was accepted before.
LEMMA AdmitsFollow ==
  ASSUME IInv, NEW c \in Clients, client[c].pc = "persist", Admits(client[c].meta, client[c].now),
         NEW b \in Floors, b.gen = client[c].meta.gen, b.index = client[c].meta.index,
         b.floor = FloorOf(client[c].meta, client[c].now)
  PROVE  /\ Follow(accepted, b) /\ b.gen > 0
         /\ \E s \in signed : b.floor = s.issued /\ s.gen <= b.gen
<1> USE DEF IInv
<1>1. accepted.gen \in Nat /\ accepted.floor \in Nat /\ b.gen \in Nat /\ b.floor \in Nat
  BY Types DEF Floors
<1>2. client[c].meta \in signed /\ client[c].meta.gen > 0
  BY DEF SignedOnly
<1>3. Follow(accepted, b)
  BY <1>1, FetchFields, Nothings DEF Admits, Follow, FloorOf
<1>4. CASE accepted.floor > client[c].meta.issued
  <2>1. accepted.floor # 0 /\ b.floor = accepted.floor
    BY <1>1, <1>4, FetchFields DEF FloorOf
  <2>2. PICK s \in signed : accepted.floor = s.issued /\ s.gen <= accepted.gen
    BY <2>1 DEF FloorAuthentic
  <2>3. s.gen \in Nat
    BY Types DEF Snapshots
  <2>4. s.gen <= b.gen
    BY <1>1, <1>3, <2>2, <2>3 DEF Follow
  <2> QED  BY <1>2, <1>3, <2>1, <2>2, <2>4
<1>5. CASE ~(accepted.floor > client[c].meta.issued)
  <2>1. b.floor = client[c].meta.issued /\ client[c].meta.gen <= b.gen
    BY <1>1, <1>5 DEF FloorOf
  <2> QED  BY <1>2, <1>3, <2>1
<1> QED  BY <1>4, <1>5

LEMMA FollowTransitive ==
  ASSUME NEW x \in Floors, NEW y \in Floors, NEW z \in Floors, Follow(x, y), Follow(y, z),
         x # NoAccepted => x.gen > 0
  PROVE  Follow(x, z)
<1>1. x.gen \in Nat /\ y.gen \in Nat /\ z.gen \in Nat /\ x.floor \in Nat /\ y.floor \in Nat /\ z.floor \in Nat
  BY DEF Floors
<1>2. z.gen >= x.gen /\ z.floor >= x.floor
  BY <1>1 DEF Follow
<1>3. ASSUME z.gen = x.gen, x # NoAccepted PROVE z.index = x.index
  <2>1. y.gen = x.gen /\ z.gen = y.gen
    BY <1>1, <1>3 DEF Follow
  <2>2. y # NoAccepted
    BY <1>1, <1>3, <2>1, Nothings
  <2> QED  BY <1>3, <2>1, <2>2 DEF Follow
<1> QED  BY <1>2, <1>3 DEF Follow

LEMMA PersistStep ==
  ASSUME IInv, UNCHANGED world, NEW c \in Clients, Persist(c)
  PROVE  IInv'
<1> USE DEF IInv
<1>0. faults \in Nat
  BY Types
<1>1. CASE ~Locked /\ Admits(client[c].meta, client[c].now)
  <2> DEFINE b == [gen |-> client[c].meta.gen, index |-> client[c].meta.index,
                   floor |-> FloorOf(client[c].meta, client[c].now)]
  <2>1. accepted' = b /\ Step(c, "sync") /\ Apart /\ UNCHANGED <<durable, planned>> /\ client[c].pc = "persist"
    BY <1>1 DEF Persist
  <2>2. FloorOf(client[c].meta, client[c].now) \in Nat
    BY FetchFields, Types DEF FloorOf, Floors
  <2>3. /\ b \in Floors /\ b.gen = client[c].meta.gen /\ b.index = client[c].meta.index
        /\ b.floor = FloorOf(client[c].meta, client[c].now)
    BY <2>2, FetchFields DEF Floors
  <2> HIDE DEF b
  <2>4. /\ Follow(accepted, b) /\ b.gen > 0
        /\ \E s \in signed : b.floor = s.issued /\ s.gen <= b.gen
    BY <1>1, <2>1, <2>3, AdmitsFollow
  <2>5. PICK x \in Fetches : client' = [client EXCEPT ![c] = x] /\ x.pc = "sync" /\ x.meta = client[c].meta
    BY <2>1, StepFields
  <2>6. client' \in [Clients -> Fetches] /\ client'[c] = x /\ \A d \in Clients \ {c} : client'[d] = client[d]
    BY <2>5, Types
  <2>7. TypeOK'
    BY <1>0, <2>1, <2>3, <2>6, Types DEF TypeOK, Jobs, Fetches, Floors, Apart
  <2>8. SignedOnly'
    BY <2>1, <2>5, <2>6 DEF SignedOnly, Apart
  <2>9. FloorKept'
    <3>1. Follow(durable, b)
      BY <2>3, <2>4, FollowTransitive, Types DEF FloorKept
    <3>2. \A d \in Clients : client'[d].pc = "sync" => client'[d].meta.gen <= b.gen
      <4>1. \A d \in Clients \ {c} : client'[d].pc # "sync"
        BY <1>1, <2>6 DEF Locked
      <4> QED  BY <2>3, <2>5, <2>6, <4>1, FetchFields
    <3> QED  BY <2>1, <2>4, <3>1, <3>2 DEF FloorKept, Follow, Apart
  <2>10. FloorAuthentic' /\ PlannedBelowFloor'
    BY <2>1, <2>4 DEF FloorAuthentic, PlannedBelowFloor, Apart
  <2> QED  BY <2>7, <2>8, <2>9, <2>10
<1>2. CASE ~(~Locked /\ Admits(client[c].meta, client[c].now))
  BY <1>0, <1>2, StopStep DEF Persist, Apart
<1> QED  BY <1>1, <1>2

LEMMA SyncStep ==
  ASSUME IInv, UNCHANGED world, NEW c \in Clients, Sync(c)
  PROVE  IInv'
<1> USE DEF IInv
<1>1. /\ client[c].pc = "sync" /\ durable' = accepted /\ planned' = planned \cup {client[c].meta.gen}
      /\ client' = [client EXCEPT ![c] = NoFetch] /\ UNCHANGED accepted /\ Apart
  BY DEF Sync, Stop
<1>2. client' \in [Clients -> Fetches] /\ client'[c] = NoFetch /\ \A d \in Clients \ {c} : client'[d] = client[d]
  BY <1>1, Nothings, Types
<1>3. TypeOK'
  BY <1>1, <1>2, FetchFields, Types DEF TypeOK, Jobs, Fetches, Floors, Apart
<1>4. SignedOnly'
  BY <1>1, <1>2, Nothings DEF SignedOnly, Apart
<1>5. FloorKept'
  <2>1. Follow(accepted, accepted)
    BY Types DEF Follow, Floors
  <2> QED  BY <1>1, <1>2, <2>1, Nothings DEF FloorKept, FloorAuthentic, Follow, Apart
<1>6. FloorAuthentic'
  BY <1>1 DEF FloorAuthentic, Apart
<1>7. PlannedBelowFloor'
  <2>1. \A g \in planned : g \in Nat /\ g <= durable.gen
    BY Types DEF PlannedBelowFloor
  <2>2. durable.gen \in Nat /\ accepted.gen \in Nat /\ durable.gen <= accepted.gen
    BY Types DEF FloorKept, Follow, Floors
  <2>3. client[c].meta.gen <= accepted.gen
    BY <1>1 DEF FloorKept
  <2> QED  BY <1>1, <2>1, <2>2, <2>3 DEF PlannedBelowFloor
<1> QED  BY <1>3, <1>4, <1>5, <1>6, <1>7

LEMMA PowerLossStep ==
  ASSUME IInv, UNCHANGED world, PowerLoss
  PROVE  IInv' /\ Follow(durable, durable')
<1> USE DEF IInv
<1>1. /\ accepted' \in {accepted, durable} /\ durable' = accepted' /\ \A c \in Clients : client'[c] = NoFetch
      /\ client' \in [Clients -> Fetches] /\ faults' \in Nat
      /\ UNCHANGED <<objects, index, indexes, meta, sig, signed, day, job, clock, planned>>
  BY Nothings, Types DEF PowerLoss, mirror
<1>2. accepted \in Floors /\ durable \in Floors /\ accepted' \in Floors
  BY <1>1, Types
<1>3. accepted'.gen \in Nat /\ accepted'.floor \in Nat /\ durable.gen \in Nat /\ durable.floor \in Nat
  BY <1>2 DEF Floors
<1>4. Follow(durable, accepted')
  BY <1>1, <1>3 DEF FloorKept, Follow
<1>5. TypeOK'
  BY <1>1, <1>2, Types DEF TypeOK, Jobs, Fetches, Floors
<1>6. SignedOnly'
  BY <1>1, Nothings DEF SignedOnly
<1>7. FloorKept'
  BY <1>1, <1>3, Nothings DEF FloorKept, FloorAuthentic, Follow
<1>8. FloorAuthentic'
  <2>1. CASE accepted' = accepted
    BY <1>1, <2>1 DEF FloorAuthentic
  <2>2. CASE accepted' = durable
    BY <1>1, <2>2 DEF FloorAuthentic, FloorKept
  <2> QED  BY <1>1, <2>1, <2>2
<1>9. PlannedBelowFloor'
  <2>1. \A g \in planned : g \in Nat /\ g <= durable.gen
    BY Types DEF PlannedBelowFloor
  <2> QED  BY <1>1, <1>3, <1>4, <2>1 DEF PlannedBelowFloor, Follow
<1> QED  BY <1>1, <1>4, <1>5, <1>6, <1>7, <1>8, <1>9

-----------------------------------------------------------------------------
(* The mirror, while publishers take turns. *)

\* The row has its objects, under the bytes it says.
Stored(row, n, o) == row = NoRow \/ (row.key \in Keys /\ row.bytes # 0 /\ o[n][row.key] = row.bytes)
Backed(rows, o) == \A n \in Packages : Stored(rows[n], n, o)

\* A publisher is about to write what fits the mirror it has read.
JobFits(x, i, o, m) ==
  /\ x.pc \in {"object", "put"} =>
       /\ NotBehind(i, x.index)
       /\ \A n \in Packages :
            /\ n \in x.todo => x.index[n].key \in Keys /\ x.index[n].bytes # 0
            /\ n \notin x.todo => Stored(x.index[n], n, o)
  /\ x.pc = "put" => x.pkg \in x.todo /\ o[x.pkg][x.index[x.pkg].key] = 0
  /\ x.pc \in {"prior", "copy", "meta", "sig"} => x.snap.index = i
  /\ x.pc = "prior" => ~x.seen
  /\ x.pc \in {"copy", "meta"} /\ x.seen => x.snap.gen >= m.gen

MirrorKept ==
  TakeTurns =>
    /\ Backed(index, objects) /\ \A rows \in indexes : Backed(rows, objects)
    /\ NotBehind(meta.index, index)
    /\ \A p, q \in Publishers : job[p] # NoJob /\ job[q] # NoJob => p = q
    /\ \A p \in Publishers : JobFits(job[p], index, objects, meta)

\* What a step may do to the mirror.
Forward ==
  /\ NotBehind(index, index')
  /\ NotBehind(meta.index, meta'.index)
  /\ meta'.gen >= meta.gen \/ \E p \in Publishers : job[p].pc = "meta" /\ ~job[p].seen
  /\ \A n \in Packages, k \in Keys : objects[n][k] # 0 => objects'[n][k] = objects[n][k]

LEMMA VersionIs ==
  \A row \in Rows : Version(row) \in Nat
<1> SUFFICES ASSUME NEW row \in Rows PROVE Version(row) \in Nat
  OBVIOUS
<1>1. row.key \in 0 .. MaxKey
  BY DEF Rows
<1>2. CASE row.key = 0
  BY <1>2 DEF Version
<1>3. CASE row.key # 0
  <2>1. row.key \in Keys
    BY <1>1, <1>3, RepositoryAssumption DEF Keys
  <2> QED  BY <1>3, <2>1, RepositoryAssumption DEF Version
<1> QED  BY <1>2, <1>3

LEMMA NotBehindReflexive ==
  ASSUME NEW a \in Indexes
  PROVE  NotBehind(a, a)
<1>1. \A n \in Packages : Version(a[n]) \in Nat
  BY VersionIs DEF Indexes
<1> QED  BY <1>1 DEF NotBehind

LEMMA NotBehindTransitive ==
  ASSUME NEW a \in Indexes, NEW b \in Indexes, NEW c \in Indexes, NotBehind(a, b), NotBehind(b, c)
  PROVE  NotBehind(a, c)
<1>1. \A n \in Packages : Version(a[n]) \in Nat /\ Version(b[n]) \in Nat /\ Version(c[n]) \in Nat
  BY VersionIs DEF Indexes
<1> QED  BY <1>1 DEF NotBehind

LEMMA MirrorTypes ==
  ASSUME IInv
  PROVE  /\ index \in Indexes /\ meta.index \in Indexes /\ meta.gen \in Nat
         /\ NotBehind(index, index) /\ NotBehind(meta.index, meta.index)
<1>1. index \in Indexes /\ meta.index \in Indexes /\ meta.gen \in Nat
  BY Types DEF IInv, Snapshots
<1> QED  BY <1>1, NotBehindReflexive

LEMMA StaysForward ==
  ASSUME IInv, UNCHANGED <<objects, index, meta>>
  PROVE  Forward
  BY MirrorTypes DEF Forward

LEMMA MirrorStep ==
  ASSUME IInv, UNCHANGED world, NEW p \in Publishers, NEW x \in Jobs, job' = [job EXCEPT ![p] = x],
         \A q \in Publishers \ {p} : job[q] = NoJob,
         Backed(index', objects'), \A rows \in indexes' : Backed(rows, objects'),
         NotBehind(meta'.index, index'), JobFits(x, index', objects', meta')
  PROVE  MirrorKept'
<1>1. job'[p] = x /\ \A q \in Publishers \ {p} : job'[q] = NoJob
  BY Types DEF IInv
<1>2. \A q \in Publishers \ {p} : JobFits(job'[q], index', objects', meta')
  BY <1>1, Nothings DEF JobFits
<1> QED  BY <1>1, <1>2 DEF MirrorKept

LEMMA FreeAlone ==
  ASSUME TakeTurns, NEW p \in Publishers, Free(p)
  PROVE  \A q \in Publishers : job[q] = NoJob
<1> DEFINE S == {q \in Publishers : job[q] # NoJob}
<1>1. IsFiniteSet(S)
  BY RepositoryAssumption, FS_Subset
<1>2. Cardinality(S) \in Nat /\ Cardinality(S) < 1
  BY <1>1, FS_CardinalityType DEF Free, TakeTurns
<1>3. Cardinality(S) = 0
  BY <1>2
<1>4. S = {}
  BY <1>1, <1>3, FS_EmptySet
<1> QED  BY <1>4

\* An object that was absent changes no row that is backed.
LEMMA PutStored ==
  ASSUME NEW o \in [Packages -> [Keys -> Nat]], NEW n \in Packages, NEW v \in Keys, o[n][v] = 0,
         NEW b \in Nat
  PROVE  /\ [o EXCEPT ![n][v] = b][n][v] = b
         /\ \A m \in Packages, w \in Keys : o[m][w] # 0 => [o EXCEPT ![n][v] = b][m][w] = o[m][w]
         /\ \A row : \A m \in Packages : Stored(row, m, o) => Stored(row, m, [o EXCEPT ![n][v] = b])
<1> DEFINE r == [o EXCEPT ![n][v] = b]
<1>1. \A m \in Packages, w \in Keys : o[m][w] # 0 => r[m][w] = o[m][w]
  <2> SUFFICES ASSUME NEW m \in Packages, NEW w \in Keys, o[m][w] # 0
               PROVE  r[m][w] = o[m][w]
    OBVIOUS
  <2>1. CASE m # n
    BY <2>1
  <2>2. CASE m = n
    <3>1. w # v
      BY <2>2
    <3>2. r[n] = [o[n] EXCEPT ![v] = b]
      OBVIOUS
    <3>3. o[n] \in [Keys -> Nat]
      OBVIOUS
    <3>4. [o[n] EXCEPT ![v] = b][w] = o[n][w]
      BY <3>1, <3>3
    <3> QED  BY <2>2, <3>2, <3>4
  <2> QED  BY <2>1, <2>2
<1>0. r[n][v] = b
  OBVIOUS
<1> HIDE DEF r
<1>2. \A row : \A m \in Packages : Stored(row, m, o) => Stored(row, m, r)
  BY <1>1 DEF Stored
<1> QED  BY <1>0, <1>1, <1>2 DEF r

LEMMA PublisherMirror ==
  ASSUME IInv, MirrorKept, TakeTurns, UNCHANGED world, NEW p \in Publishers,
         \/ Work(p) \/ MissPrior(p) \/ KillPublisher(p)
         \/ \E wanted \in [world.packages -> world.keys \cup {0}] : Publish(p, wanted)
         \/ \E s \in signed : PublishSnapshot(p, s)
  PROVE  MirrorKept' /\ Forward
<1>0. /\ Backed(index, objects) /\ \A rows \in indexes : Backed(rows, objects)
      /\ \A r, q \in Publishers : job[r] # NoJob /\ job[q] # NoJob => r = q
      /\ NotBehind(meta.index, index) /\ JobFits(job[p], index, objects, meta)
  BY DEF MirrorKept
<1>1. job[p] # NoJob => \A q \in Publishers \ {p} : job[q] = NoJob
  BY <1>0
<1>2. ASSUME job[p] # NoJob, Leave(p), UNCHANGED <<objects, index, indexes>>, UNCHANGED meta
      PROVE  MirrorKept' /\ Forward
  <2>1. JobFits(NoJob, index', objects', meta')
    BY Nothings DEF JobFits
  <2> QED  BY <1>0, <1>1, <1>2, <2>1, Nothings, MirrorStep, StaysForward DEF Leave
<1>3. ASSUME NEW n \in Packages, LookObject(p, n) PROVE MirrorKept' /\ Forward
  <2>0. /\ job[p] # NoJob /\ UNCHANGED <<objects, index, indexes, meta>> /\ job[p].pc = "object"
        /\ n \in job[p].todo
    BY <1>3, Nothings DEF LookObject, mirror
  <2>1. CASE objects[n][job[p].index[n].key] = 0
    <3>1. PICK x \in Jobs : /\ job' = [job EXCEPT ![p] = x] /\ x.pc = "put" /\ x.pkg = n
                            /\ x.todo = job[p].todo /\ x.index = job[p].index /\ x.snap = job[p].snap
      <4>1. job' = [job EXCEPT ![p].pc = "put", ![p].pkg = n]
        BY <1>3, <2>1 DEF LookObject
      <4> QED  BY <4>1, PutFields
    <3>2. JobFits(x, index', objects', meta')
      BY <1>0, <2>0, <2>1, <3>1 DEF JobFits
    <3> QED  BY <1>0, <1>1, <2>0, <3>1, <3>2, MirrorStep, StaysForward
  <2>2. CASE objects[n][job[p].index[n].key] # 0 /\ objects[n][job[p].index[n].key] = job[p].index[n].bytes
    <3>1. PICK x \in Jobs : /\ job' = [job EXCEPT ![p] = x] /\ x.pc = "object"
                            /\ x.todo = job[p].todo \ {n} /\ x.index = job[p].index /\ x.snap = job[p].snap
      BY <1>3, <2>2, UploadedFields DEF LookObject
    <3>2. Stored(job[p].index[n], n, objects)
      BY <1>0, <2>0, <2>2 DEF JobFits, Stored
    <3>3. JobFits(x, index', objects', meta')
      BY <1>0, <2>0, <3>1, <3>2 DEF JobFits
    <3> QED  BY <1>0, <1>1, <2>0, <3>1, <3>3, MirrorStep, StaysForward
  <2>3. CASE objects[n][job[p].index[n].key] # 0 /\ objects[n][job[p].index[n].key] # job[p].index[n].bytes
    BY <1>2, <1>3, <2>0, <2>3 DEF LookObject
  <2> QED  BY <2>1, <2>2, <2>3
<1>4. CASE PutObject(p)
  <2> DEFINE n == job[p].pkg
             k == job[p].index[n].key
             b == job[p].index[n].bytes
  <2>0. job[p] # NoJob /\ job[p].pc = "put" /\ UNCHANGED <<index, indexes, meta>> /\ Uploaded(p, n)
    BY <1>4, Nothings DEF PutObject
  <2>1. n \in Packages /\ n \in job[p].todo
    BY <1>0, <2>0, JobFields DEF JobFits
  <2>2. k \in Keys /\ b # 0 /\ objects[n][k] = 0
    BY <1>0, <2>0, <2>1 DEF JobFits
  <2>3. b \in Nat
    BY <2>1, JobFields DEF Indexes, Rows
  <2>4. objects \in [Packages -> [Keys -> Nat]] /\ objects' = [objects EXCEPT ![n][k] = b]
    BY <1>4, Types DEF PutObject, IInv
  <2> HIDE DEF n, k, b
  <2>5. /\ objects'[n][k] = b
        /\ \A m \in Packages, w \in Keys : objects[m][w] # 0 => objects'[m][w] = objects[m][w]
        /\ \A row : \A m \in Packages : Stored(row, m, objects) => Stored(row, m, objects')
    <3>1. /\ [objects EXCEPT ![n][k] = b][n][k] = b
          /\ \A m \in Packages, w \in Keys : objects[m][w] # 0 => [objects EXCEPT ![n][k] = b][m][w] = objects[m][w]
          /\ \A row : \A m \in Packages : Stored(row, m, objects) => Stored(row, m, [objects EXCEPT ![n][k] = b])
      BY <2>1, <2>2, <2>3, <2>4, PutStored
    <3> QED  BY <2>4, <3>1, Zenon
  <2>6. PICK x \in Jobs : /\ job' = [job EXCEPT ![p] = x] /\ x.pc = "object"
                          /\ x.todo = job[p].todo \ {n} /\ x.index = job[p].index /\ x.snap = job[p].snap
    BY <2>0, UploadedFields
  <2>7. Stored(job[p].index[n], n, objects')
    BY <2>2, <2>5 DEF Stored, n, k, b
  <2>8. JobFits(x, index', objects', meta')
    BY <1>0, <2>0, <2>5, <2>6, <2>7 DEF JobFits
  <2>9. Backed(index', objects') /\ \A rows \in indexes' : Backed(rows, objects')
    BY <1>0, <2>0, <2>5 DEF Backed
  <2>10. Forward
    BY <2>0, <2>5, MirrorTypes DEF Forward
  <2> QED  BY <1>0, <1>1, <2>0, <2>6, <2>8, <2>9, <2>10, MirrorStep
<1>5. CASE PutIndex(p)
  <2>0. job[p] # NoJob /\ job[p].pc = "object" /\ job[p].todo = {} /\ index' = job[p].index
        /\ UNCHANGED <<objects, indexes, meta>> /\ job' = [job EXCEPT ![p] = NoJob]
    BY <1>5, Nothings DEF PutIndex, Leave
  <2>1. NotBehind(index, index') /\ Backed(index', objects')
    BY <1>0, <2>0 DEF JobFits, Backed
  <2>2. NotBehind(meta'.index, index')
    BY <1>0, <2>0, <2>1, JobFields, MirrorTypes, NotBehindTransitive
  <2>3. Forward
    BY <2>0, <2>1, MirrorTypes DEF Forward
  <2>4. JobFits(NoJob, index', objects', meta')
    BY Nothings DEF JobFits
  <2> QED  BY <1>0, <1>1, <2>0, <2>1, <2>2, <2>3, <2>4, Nothings, MirrorStep
<1>6. CASE Prior(p)
  <2>0. job[p] # NoJob /\ job[p].pc = "prior" /\ UNCHANGED <<objects, index, indexes, meta>>
    BY <1>6, Nothings DEF Prior, mirror
  <2>1. CASE Advances(job[p].snap)
    <3>1. PICK x \in Jobs : job' = [job EXCEPT ![p] = x] /\ x.pc = "copy" /\ x.snap = job[p].snap
      BY <1>6, <2>1, PriorFields
    <3>2. job[p].snap.gen >= meta.gen
      <4>1. job[p].snap.gen \in Nat /\ meta.gen \in Nat
        BY JobFields, Types DEF IInv, Snapshots
      <4> QED  BY <2>1, <4>1, Nothings DEF Advances
    <3>3. JobFits(x, index', objects', meta')
      BY <1>0, <2>0, <3>1, <3>2 DEF JobFits
    <3> QED  BY <1>0, <1>1, <2>0, <3>1, <3>3, MirrorStep, StaysForward
  <2>2. CASE ~Advances(job[p].snap)
    BY <1>2, <1>6, <2>0, <2>2 DEF Prior
  <2> QED  BY <2>1, <2>2
<1>13. CASE MissPrior(p)
  <2>0. job[p] # NoJob /\ job[p].pc = "prior" /\ UNCHANGED <<objects, index, indexes, meta>>
    BY <1>13, Nothings DEF MissPrior, mirror
  <2>1. PICK x \in Jobs : job' = [job EXCEPT ![p] = x] /\ x.pc = "copy" /\ x.snap = job[p].snap /\ x.seen = job[p].seen
    BY <1>13, GotoFields DEF MissPrior, Labels
  <2>2. ~job[p].seen
    BY <1>0, <2>0 DEF JobFits
  <2>3. JobFits(x, index', objects', meta')
    BY <1>0, <2>0, <2>1, <2>2 DEF JobFits
  <2> QED  BY <1>0, <1>1, <2>0, <2>1, <2>3, MirrorStep, StaysForward
<1>7. CASE CopyIndex(p)
  <2>0. job[p] # NoJob /\ job[p].pc = "copy" /\ UNCHANGED <<objects, index, meta>>
        /\ indexes' = indexes \cup {job[p].snap.index}
    BY <1>7, Nothings DEF CopyIndex
  <2>1. PICK x \in Jobs : job' = [job EXCEPT ![p] = x] /\ x.pc = "meta" /\ x.snap = job[p].snap /\ x.seen = job[p].seen
    BY <1>7, GotoFields DEF Labels, CopyIndex
  <2>2. JobFits(x, index', objects', meta')
    BY <1>0, <2>0, <2>1 DEF JobFits
  <2>3. \A rows \in indexes' : Backed(rows, objects')
    BY <1>0, <2>0 DEF JobFits
  <2> QED  BY <1>0, <1>1, <2>0, <2>1, <2>2, <2>3, MirrorStep, StaysForward
<1>8. CASE PutMeta(p)
  <2>0. job[p] # NoJob /\ job[p].pc = "meta" /\ UNCHANGED <<objects, index, indexes>> /\ meta' = job[p].snap
    BY <1>8, Nothings DEF PutMeta
  <2>1. PICK x \in Jobs : job' = [job EXCEPT ![p] = x] /\ x.pc = "sig" /\ x.snap = job[p].snap
    BY <1>8, GotoFields DEF Labels, PutMeta
  <2>2. meta'.index = index /\ (job[p].seen => meta'.gen >= meta.gen)
    BY <1>0, <2>0 DEF JobFits
  <2>3. JobFits(x, index', objects', meta')
    BY <2>0, <2>1, <2>2 DEF JobFits
  <2>4. Forward
    BY <1>0, <2>0, <2>2, MirrorTypes DEF Forward
  <2> QED  BY <1>0, <1>1, <2>0, <2>1, <2>2, <2>3, <2>4, MirrorTypes, MirrorStep
<1>9. CASE PutSig(p)
  BY <1>2, <1>9, Nothings DEF PutSig
<1>10. CASE KillPublisher(p)
  BY <1>2, <1>10 DEF KillPublisher
<1>11. ASSUME NEW wanted \in [world.packages -> world.keys \cup {0}], Publish(p, wanted)
       PROVE  MirrorKept' /\ Forward
  <2>1. PICK x \in Jobs : /\ job' = [job EXCEPT ![p] = x] /\ x.pc = "object" /\ x.snap = NoSnapshot
                          /\ \A n \in Packages :
                               /\ n \in x.todo => /\ x.index[n].key \in Keys /\ x.index[n].bytes # 0
                                                  /\ Mergeable(index[n], x.index[n])
                               /\ n \notin x.todo => x.index[n] = index[n]
    BY <1>11, PublishFields
  <2>2. UNCHANGED <<objects, index, indexes, meta>> /\ Free(p)
    BY <1>11 DEF Publish, mirror
  <2>3. NotBehind(index, x.index)
    BY <2>1, MirrorTypes DEF NotBehind, Mergeable
  <2>4. JobFits(x, index', objects', meta')
    BY <1>0, <2>1, <2>2, <2>3 DEF JobFits, Backed
  <2>5. \A q \in Publishers : job[q] = NoJob
    BY <2>2, FreeAlone
  <2> QED  BY <1>0, <2>1, <2>2, <2>4, <2>5, MirrorStep, StaysForward
<1>12. ASSUME NEW s \in signed, PublishSnapshot(p, s) PROVE MirrorKept' /\ Forward
  <2>1. PICK x \in Jobs : job' = [job EXCEPT ![p] = x] /\ x.pc = "prior" /\ x.snap = s /\ ~x.seen
    BY <1>12, SnapshotFields
  <2>2. UNCHANGED <<objects, index, indexes, meta>> /\ Free(p) /\ s.index = index
    BY <1>12 DEF PublishSnapshot, mirror
  <2>3. JobFits(x, index', objects', meta')
    BY <1>0, <2>1, <2>2 DEF JobFits
  <2>4. \A q \in Publishers : job[q] = NoJob
    BY <2>2, FreeAlone
  <2> QED  BY <1>0, <2>1, <2>2, <2>3, <2>4, MirrorStep, StaysForward
<1> QED  BY <1>3, <1>4, <1>5, <1>6, <1>7, <1>8, <1>9, <1>10, <1>11, <1>12, <1>13 DEF Work

-----------------------------------------------------------------------------
(* Theorems. *)

Inv == IInv /\ MirrorKept

LEMMA InitInv == Init => Inv
<1> SUFFICES ASSUME Init PROVE Inv
  OBVIOUS
<1>1. world \in World
  BY RepositoryAssumption DEF Init
<1>2. TypeOK
  <2>1. objects \in [Packages -> [Keys -> Nat]]
    BY DEF Init
  <2>2. job \in [Publishers -> Jobs] /\ client \in [Clients -> Fetches]
    BY Nothings DEF Init
  <2> QED  BY <2>1, <2>2, Nothings, Types DEF Init
<1>3. SignedOnly
  BY Nothings DEF Init, SignedOnly
<1>4. FloorKept /\ FloorAuthentic /\ PlannedBelowFloor
  BY Nothings DEF Init, FloorKept, Follow, FloorAuthentic, PlannedBelowFloor
<1>5. MirrorKept
  <2>1. Backed(EmptyIndex, objects) /\ NotBehind(EmptyIndex, EmptyIndex)
    BY Nothings, NotBehindReflexive DEF Backed, Stored, EmptyIndex
  <2>2. \A p \in Publishers : JobFits(job[p], index, objects, meta)
    BY Nothings DEF Init, JobFits
  <2> QED  BY <2>1, <2>2, Nothings DEF Init, MirrorKept
<1> QED  BY <1>1, <1>2, <1>3, <1>4, <1>5 DEF Inv, IInv

\* Every step keeps the invariant, moves the mirror forward while publishers take
\* turns, and the accepted state on the disk always.
LEMMA NextInv ==
  ASSUME Inv, [Next]_<<vars, world>>
  PROVE  Inv' /\ (TakeTurns => Forward) /\ Follow(durable, durable')
<1> USE DEF Inv
<1>0. Follow(durable, durable)
  BY Types DEF IInv, Follow, Floors
<1>1. ASSUME UNCHANGED <<world, objects, index, indexes, meta, job>> PROVE MirrorKept' /\ Forward
  BY <1>1, StaysForward DEF MirrorKept, TakeTurns
<1>2. CASE UNCHANGED <<vars, world>>
  <2>1. IInv'
    BY <1>2 DEF vars, IInv, TypeOK, SignedOnly, FloorKept, Follow, FloorAuthentic, PlannedBelowFloor
  <2> QED  BY <1>0, <1>1, <1>2, <2>1 DEF vars
<1>3. CASE Next
  <2>0. UNCHANGED world
    BY <1>3 DEF Next
  <2>1. ASSUME NEW p \in Publishers,
               \/ Work(p) \/ MissPrior(p) \/ KillPublisher(p)
               \/ \E wanted \in [world.packages -> world.keys \cup {0}] : Publish(p, wanted)
               \/ \E s \in signed : PublishSnapshot(p, s)
        PROVE  Inv' /\ (TakeTurns => Forward) /\ Follow(durable, durable')
    <3>1. IInv'
      BY <2>0, <2>1, PublisherStep
    <3>2. TakeTurns => MirrorKept' /\ Forward
      BY <2>0, <2>1, PublisherMirror
    <3>3. ~TakeTurns => MirrorKept'
      BY <2>0 DEF MirrorKept, TakeTurns
    <3>4. UNCHANGED durable
      BY <2>1 DEF Work, LookObject, PutObject, PutIndex, Prior, CopyIndex, PutMeta, PutSig, KillPublisher,
                  MissPrior, Publish, PublishSnapshot, Elsewhere
    <3> QED  BY <1>0, <3>1, <3>2, <3>3, <3>4
  <2>2. CASE Sign
    BY <1>0, <1>1, <2>0, <2>2, SignStep DEF Sign
  <2>3. CASE Days \/ \E t \in 0 .. world.time : SetClock(t)
    <3>1. UNCHANGED <<objects, index, indexes, meta, job, durable>>
      BY <2>3 DEF Days, SetClock, mirror
    <3> QED  BY <1>0, <1>1, <2>0, <2>3, <3>1, TimeStep
  <2>4. ASSUME NEW c \in Clients, FetchMeta(c) \/ FetchSig(c) \/ FetchIndex(c) \/ Verify(c) \/ KillClient(c)
        PROVE  Inv' /\ (TakeTurns => Forward) /\ Follow(durable, durable')
    <3>1. UNCHANGED <<objects, index, indexes, meta, job, durable>>
      BY <2>4 DEF FetchMeta, FetchSig, FetchIndex, Verify, KillClient, Apart, mirror
    <3> QED  BY <1>0, <1>1, <2>0, <2>4, <3>1, FetchStep
  <2>5. ASSUME NEW c \in Clients, Persist(c) PROVE Inv' /\ (TakeTurns => Forward) /\ Follow(durable, durable')
    <3>1. UNCHANGED <<objects, index, indexes, meta, job, durable>>
      BY <2>5 DEF Persist, Apart
    <3> QED  BY <1>0, <1>1, <2>0, <2>5, <3>1, PersistStep
  <2>6. ASSUME NEW c \in Clients, Sync(c) PROVE Inv' /\ (TakeTurns => Forward) /\ Follow(durable, durable')
    <3>1. UNCHANGED <<objects, index, indexes, meta, job>> /\ durable' = accepted
      BY <2>6 DEF Sync, Apart
    <3>2. Follow(durable, accepted)
      BY DEF IInv, FloorKept
    <3> QED  BY <1>1, <2>0, <2>6, <3>1, <3>2, SyncStep
  <2>7. CASE PowerLoss
    <3>1. UNCHANGED <<objects, index, indexes, meta, job>>
      BY <2>7 DEF PowerLoss, mirror
    <3> QED  BY <1>1, <2>0, <2>7, <3>1, PowerLossStep
  <2> QED  BY <1>3, <2>1, <2>2, <2>3, <2>4, <2>5, <2>6, <2>7 DEF Next, Plan
<1> QED  BY <1>2, <1>3

\* The invariant holds in every behaviour of publishers, signer and clients.
THEOREM Invariant == Spec => []Inv
<1>1. Init => Inv
  BY InitInv
<1>2. Inv /\ [Next]_<<vars, world>> => Inv'
  BY NextInv
<1> QED  BY <1>1, <1>2, PTL DEF Spec

\* Whatever is killed or loses power: rows have their objects while publishers take
\* turns (repo.xsh), and snapshot_persist_accepted keeps a floor that is authentic
\* and covers every plan.
THEOREM RepositoryIsSound == Spec => []RepositorySound
<1>1. Inv => RepositorySound
  <2> SUFFICES ASSUME Inv PROVE RowsComplete
    BY DEF Inv, IInv, RepositorySound
  <2>1. \A rows : Backed(rows, objects) => Whole(rows)
    BY DEF Backed, Stored, Whole
  <2> QED  BY <2>1 DEF Inv, MirrorKept, RowsComplete
<1> QED  BY <1>1, Invariant, PTL

\* While publishers take turns, repo publish and publish-snapshot never move a
\* row back, in the index or in the snapshot, nor replace an object, and a
\* publisher that has fetched the prior snapshot does not move its generation back.
THEOREM MirrorOnlyAdvances == Spec => MirrorAdvances
<1>1. Inv /\ [Next]_<<vars, world>> =>
        /\ [TakeTurns => NotBehind(index, index')]_vars
        /\ [TakeTurns =>
              /\ NotBehind(meta.index, meta'.index)
              /\ meta'.gen >= meta.gen \/ \E p \in Publishers : job[p].pc = "meta" /\ ~job[p].seen]_vars
        /\ [TakeTurns => \A n \in Packages, k \in Keys :
              objects[n][k] # 0 => objects'[n][k] = objects[n][k]]_vars
  BY NextInv DEF Forward
<1> QED  BY <1>1, Invariant, PTL DEF Spec, MirrorAdvances, RowsAdvance, SnapshotAdvances, ObjectsStay

\* snapshot_persist_accepted asks again under the lock, so neither clients that plan
\* at the same time nor a kill or a power loss lower the accepted floor.
THEOREM FloorAlwaysHolds == Spec => FloorHolds
<1>1. Inv /\ [Next]_<<vars, world>> =>
        [/\ durable'.gen >= durable.gen /\ durable'.floor >= durable.floor
         /\ durable'.gen = durable.gen /\ durable # NoAccepted => durable'.index = durable.index]_vars
  BY NextInv DEF Follow
<1> QED  BY <1>1, Invariant, PTL DEF Spec, FloorHolds
=============================================================================
