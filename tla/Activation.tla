------------------------------ MODULE Activation ------------------------------
(***************************************************************************)
(* The host's generation activation record (src/system/activation.xsh) and *)
(* the launcher that boots what it names (src/system/launcher.xsh).        *)
(*                                                                         *)
(* Every mutating operation takes the OS lock activation.flock, reads      *)
(* activation.json, decides, and replaces the file by writing the sibling  *)
(* activation.next, fsyncing it, renaming it and fsyncing the directory.   *)
(* The decision is one action per operation; the replacement is four more, *)
(* so that a killed process or a power cut can fall between any two.       *)
(* Publication of an image bundle takes no lock and interleaves freely.    *)
(*                                                                         *)
(* Abstracted: kernel names, digests and hashes are members of small sets; *)
(* a pin whose state format is not the accepted one is never in a valid    *)
(* policy, so the format is part of the hash; a refused operation changes  *)
(* nothing and is simply not enabled.                                      *)
(***************************************************************************)
EXTENDS Integers, FiniteSets

CONSTANTS
    Ids,                    \* generation ids
    Digests,                \* root digests of generation receipts
    Hashes,                 \* kernel and disk hashes of an image bundle
    PinSets,                \* the image lists an operator may put in a policy
    ACTIVATION_MAX_BOOT_ATTEMPTS,
    Missing,                \* activation.json (or a bundle) does not exist
    Torn,                   \* a file created and not yet written
    NoReceipt,              \* the null of "pending: GenerationReceipt?"
    NoOperation,            \* nobody holds activation.flock
    MaxSerial,              \* bound: stage only while the serial fits it
    MaxRevision,            \* bound on policy revisions
    MaxOutages              \* bound on kills, failed writes and power cuts

VARIABLES
    record,                 \* activation.json as a reader sees it
    recordOnDisk,           \* what activation.json may hold after a power cut
    sibling,                \* activation.next
    images,                 \* images/<id> as a reader sees it
    imagesOnDisk,           \* what images/<id> may hold after a power cut
    publishers,             \* publications renamed and not yet fsynced
    operation,              \* the operation holding the lock
    guests,                 \* every boot the launcher ever started
    healthy,                \* receipts installed or confirmed (history)
    ackedRevision,          \* newest policy revision a caller was told of
    lost,                   \* ids of bundles that unsynced steps can cost
    outages                 \* kills, failed writes and power cuts so far

vars == <<record, recordOnDisk, sibling, images, imagesOnDisk, publishers,
          operation, guests, healthy, ackedRevision, lost, outages>>

diskVars == <<record, recordOnDisk, sibling, images, imagesOnDisk>>
historyVars == <<guests, healthy, ackedRevision, lost, outages>>

-----------------------------------------------------------------------------
(* Data *)

GenerationReceipt == [id : Ids, root_digest : Digests]

ImageAdmission == [generation : GenerationReceipt, sha256 : Hashes]

AdmissionPolicy == [revision : Nat, images : SUBSET ImageAdmission]

Operations == {"installed", "staged", "pending-boot", "boot-failed",
               "fell-back", "confirmed"}

ActivationRecord ==
    [admission_policy : AdmissionPolicy,
     boot_serial      : Nat,
     current          : GenerationReceipt,
     fallback         : GenerationReceipt,
     pending          : GenerationReceipt \cup {NoReceipt},
     boot_attempts    : Nat,
     last_operation   : Operations]

Bundle == [admission : ImageAdmission, intact : BOOLEAN]

Guest == [receipt : GenerationReceipt, serial : Nat, pending : BOOLEAN]

\* What the holder of the lock is doing: a writer has the record it will have
\* written, its place in activation_write and the boot it starts on return
\* (if any); a collector has the bundles it still has to remove.
Writer ==
    [name : {"install", "update_policy", "stage", "select", "mark", "confirm",
             "boot_failed"},
     new  : ActivationRecord,
     pc   : {"create", "fill", "rename", "fsync"},
     boot : Guest \cup {NoReceipt}]

Collector == [name : {"collect"}, removing : SUBSET Ids]

ASSUME ActivationAssumptions ==
    /\ ACTIVATION_MAX_BOOT_ATTEMPTS \in Nat \ {0}
    /\ MaxSerial \in Nat /\ MaxRevision \in Nat /\ MaxOutages \in Nat
    /\ PinSets \subseteq SUBSET ImageAdmission
    /\ NoReceipt \notin GenerationReceipt \cup Guest
    /\ Missing \notin ActivationRecord \cup Bundle
    /\ Torn \notin ActivationRecord \cup {Missing}
    /\ NoOperation \notin Writer \cup Collector

\* activation_policy_ok: a positive revision and at most one pin per id.
activation_policy_ok(policy) ==
    /\ policy.revision >= 1
    /\ \A p, q \in policy.images :
          p.generation.id = q.generation.id => p = q

\* activation_record_ok: what activation_status refuses to read otherwise.
activation_record_ok(r) ==
    /\ activation_policy_ok(r.admission_policy)
    /\ r.boot_serial >= r.boot_attempts

\* activation_admitted_image (with activation_verify_image): the bundle is
\* there, pinned by the policy, made for this receipt, and its bytes match.
activation_admitted_image(policy, receipt) ==
    LET bundle == images[receipt.id] IN
    /\ bundle # Missing
    /\ bundle.admission \in policy.images
    /\ bundle.admission.generation = receipt
    /\ bundle.intact

activation_next_receipt(r) ==
    IF r.pending = NoReceipt THEN r.current
    ELSE IF r.boot_attempts >= ACTIVATION_MAX_BOOT_ATTEMPTS THEN r.fallback
    ELSE r.pending

-----------------------------------------------------------------------------
(* The transitions of the record *)

\* The running generation becomes the fallback of the candidate.
Staged(r, candidate) ==
    [r EXCEPT !.fallback = r.current, !.pending = candidate,
              !.boot_attempts = 0, !.last_operation = "staged"]

\* Mutant: no attempt is counted.
NeverAttempted(r) == [r EXCEPT !.last_operation = "pending-boot"]

\* One more boot of the candidate, with a sequence number of its own.
Attempted(r) ==
    [r EXCEPT !.boot_attempts = r.boot_attempts + 1,
              !.boot_serial = r.boot_serial + 1,
              !.last_operation = "pending-boot"]

\* The candidate is given up. The attempts stay as they are until the next
\* candidate is staged.
FellBack(r) ==
    [r EXCEPT !.current = r.fallback, !.pending = NoReceipt,
              !.last_operation = "fell-back"]

\* The health window of the last boot is closed.
Closed(r) == [r EXCEPT !.last_operation = "boot-failed"]

\* The candidate becomes current and the old generation the fallback.
Confirmed(r) ==
    [r EXCEPT !.current = r.pending, !.fallback = r.current,
              !.pending = NoReceipt, !.boot_attempts = 0,
              !.last_operation = "confirmed"]

-----------------------------------------------------------------------------
(* The disk: a directory entry that is not fsynced may or may not survive. *)

SetImage(id, bundle) ==
    /\ images' = [images EXCEPT ![id] = bundle]
    /\ imagesOnDisk' = [imagesOnDisk EXCEPT ![id] = @ \cup {bundle}]

SyncImages ==
    /\ imagesOnDisk' = [i \in Ids |-> {images[i]}]
    /\ UNCHANGED images

Spoiled(bundle) == [bundle EXCEPT !.intact = FALSE]

Newer(m, n) == IF m > n THEN m ELSE n

-----------------------------------------------------------------------------
(* Taking the lock and reading the record *)

\* activation_acquire_lock is non-blocking: an operation that finds the lock
\* held is refused.
LockFree == operation = NoOperation

\* activation_status, under the lock.
Readable == record # Missing /\ record # Torn /\ activation_record_ok(record)

Write(name, new, boot) ==
    /\ operation' = [name |-> name, new |-> new, pc |-> "create", boot |-> boot]
    /\ UNCHANGED <<diskVars, publishers, guests, ackedRevision, lost, outages>>

-----------------------------------------------------------------------------
(* Operations *)

activation_install(receipt, policy) ==
    /\ LockFree
    /\ record = Missing
    /\ activation_policy_ok(policy)
    /\ activation_admitted_image(policy, receipt)
    /\ healthy' = healthy \cup {receipt}
    /\ Write("install",
             [admission_policy |-> policy, boot_serial |-> 0,
              current |-> receipt, fallback |-> receipt,
              pending |-> NoReceipt, boot_attempts |-> 0,
              last_operation |-> "installed"],
             NoReceipt)

activation_update_policy(policy) ==
    /\ LockFree /\ Readable
    /\ activation_policy_ok(policy)
    /\ policy.revision > record.admission_policy.revision
    /\ Write("update_policy", [record EXCEPT !.admission_policy = policy],
             NoReceipt)
    /\ UNCHANGED healthy

activation_stage(candidate) ==
    /\ LockFree /\ Readable
    /\ candidate.id # record.current.id
    /\ record.pending = NoReceipt
    /\ record.boot_serial + ACTIVATION_MAX_BOOT_ATTEMPTS <= MaxSerial
    /\ activation_admitted_image(record.admission_policy, candidate)
    /\ Write("stage", Staged(record, candidate), NoReceipt)
    /\ UNCHANGED healthy

\* activation_select_image with nothing pending: boot the current generation
\* and write nothing.
SelectCurrent ==
    /\ LockFree /\ Readable
    /\ record.pending = NoReceipt
    /\ activation_admitted_image(record.admission_policy, record.current)
    /\ guests' = guests \cup
          {[receipt |-> record.current, serial |-> record.boot_serial,
            pending |-> FALSE]}
    /\ UNCHANGED <<diskVars, publishers, operation, healthy, ackedRevision,
                   lost, outages>>

\* activation_begin_boot_record, the branch past the attempt cap.
FallBack ==
    /\ record.boot_attempts >= ACTIVATION_MAX_BOOT_ATTEMPTS
    /\ Write("select", FellBack(record),
             [receipt |-> record.fallback, serial |-> record.boot_serial,
              pending |-> FALSE])

\* Mutant: the attempt at the cap is counted as well.
CountPastCap ==
    /\ record.boot_attempts <= ACTIVATION_MAX_BOOT_ATTEMPTS
    /\ Write("select", Attempted(record),
             [receipt |-> record.pending,
              serial |-> Attempted(record).boot_serial, pending |-> TRUE])

\* activation_begin_boot_record, the branch that counts one more attempt.
CountAttempt ==
    /\ record.boot_attempts < ACTIVATION_MAX_BOOT_ATTEMPTS
    /\ Write("select", Attempted(record),
             [receipt |-> record.pending,
              serial |-> Attempted(record).boot_serial, pending |-> TRUE])

\* activation_select_image and activation_begin_boot with a pending
\* generation: check admission, then count the attempt or fall back.
SelectPending ==
    /\ LockFree /\ Readable
    /\ record.pending # NoReceipt
    /\ activation_admitted_image(record.admission_policy,
                                 activation_next_receipt(record))
    /\ FallBack \/ CountAttempt
    /\ UNCHANGED healthy

\* activation_admitted_selection's error path: the refused fallback closes
\* the health window of the last boot, and the selection fails.
SelectRefused ==
    /\ LockFree /\ Readable
    /\ record.pending # NoReceipt
    /\ ~activation_admitted_image(record.admission_policy,
                                  activation_next_receipt(record))
    /\ record.boot_attempts >= ACTIVATION_MAX_BOOT_ATTEMPTS
    /\ record.last_operation # "boot-failed"
    /\ Write("mark", Closed(record), NoReceipt)
    /\ UNCHANGED healthy

\* Both confirmations check the candidate and the fallback it leaves behind.
Confirm ==
    /\ activation_admitted_image(record.admission_policy, record.pending)
    /\ activation_admitted_image(record.admission_policy, record.fallback)
    /\ Write("confirm", Confirmed(record), NoReceipt)

\* The trusted manual transition: only the id is compared.
activation_confirm_health(id) ==
    /\ LockFree /\ Readable
    /\ record.pending # NoReceipt
    /\ record.pending.id = id
    /\ record.boot_attempts >= 1
    /\ record.last_operation = "pending-boot"
    /\ Confirm
    /\ healthy' = healthy \cup {record.pending}

\* Mutant: the report's boot sequence is not compared.
AnySequence(g) == TRUE

\* The report carries the sequence number of the last counted boot.
LastSequence(g) == g.serial = record.boot_serial

\* A healthy report of guest g. Any guest ever started may be the author of
\* the report that arrives, however late; an unhealthy report is refused.
activation_confirm_guest_health(g) ==
    /\ LockFree /\ Readable
    /\ record.pending # NoReceipt
    /\ g.receipt = record.pending
    /\ record.last_operation = "pending-boot"
    /\ record.boot_attempts > 0
    /\ LastSequence(g)
    /\ Confirm
    /\ healthy' = healthy \cup {g.receipt}

\* Below the cap the window is closed; at the cap the fallback is selected,
\* unless it is not admitted, which only closes the window.
activation_boot_failed ==
    /\ LockFree /\ Readable
    /\ record.pending # NoReceipt
    /\ record.boot_attempts >= 1
    /\ LET fallen == record.boot_attempts >= ACTIVATION_MAX_BOOT_ATTEMPTS
                     /\ activation_admitted_image(record.admission_policy,
                                                  record.fallback)
       IN Write("boot_failed",
                IF fallen THEN FellBack(record) ELSE Closed(record),
                NoReceipt)
    /\ UNCHANGED healthy

\* Mutant: the candidate is collected while it waits for its boot.
RetainedWithoutPending(r) == {r.current.id, r.fallback.id}

Retained(r) ==
    {r.current.id, r.fallback.id}
        \cup (IF r.pending = NoReceipt THEN {} ELSE {r.pending.id})

\* activation_collect_images lists the bundles outside the retained ids ...
activation_collect_images ==
    /\ LockFree /\ Readable
    /\ LET removing == {i \in Ids : images[i] # Missing} \ Retained(record) IN
       /\ removing # {}
       /\ operation' = [name |-> "collect", removing |-> removing]
    /\ UNCHANGED <<diskVars, publishers, historyVars>>

\* ... removes them one by one ...
CollectRemove(id) ==
    /\ operation # NoOperation /\ operation.name = "collect"
    /\ id \in operation.removing
    /\ SetImage(id, Missing)
    /\ operation' = [operation EXCEPT !.removing = @ \ {id}]
    /\ lost' = IF Cardinality(recordOnDisk) > 2 THEN lost \cup {id} ELSE lost
    /\ UNCHANGED <<record, recordOnDisk, sibling, publishers, guests, healthy,
                   ackedRevision, outages>>

\* ... and fsyncs the directory.
CollectFsync ==
    /\ operation # NoOperation /\ operation.name = "collect"
    /\ operation.removing = {}
    /\ SyncImages
    /\ operation' = NoOperation
    /\ UNCHANGED <<record, recordOnDisk, sibling, publishers, historyVars>>

-----------------------------------------------------------------------------
(* activation_write *)

Writing(pc) ==
    operation # NoOperation /\ operation.name # "collect" /\ operation.pc = pc

Advance(pc) == operation' = [operation EXCEPT !.pc = pc]

\* Drop a stale sibling and create an empty one.
WriteCreate ==
    /\ Writing("create")
    /\ sibling' = Torn
    /\ Advance("fill")
    /\ UNCHANGED <<record, recordOnDisk, images, imagesOnDisk, publishers,
                   historyVars>>

\* Write the encoded record and fsync the file.
WriteFill ==
    /\ Writing("fill")
    /\ sibling' = operation.new
    /\ Advance("rename")
    /\ UNCHANGED <<record, recordOnDisk, images, imagesOnDisk, publishers,
                   historyVars>>

\* Rename the sibling over activation.json: readers see the new record.
WriteRename ==
    /\ Writing("rename")
    /\ record' = sibling
    /\ recordOnDisk' = recordOnDisk \cup {sibling}
    /\ sibling' = Missing
    /\ Advance("fsync")
    /\ UNCHANGED <<images, imagesOnDisk, publishers, historyVars>>

\* Mutant: the operation returns without the directory fsync.
SyncNothing == UNCHANGED recordOnDisk

SyncRecord == recordOnDisk' = {record}

\* Fsync the directory and return: the lock is released, the caller learns
\* the outcome, and the launcher starts the boot it asked for.
WriteFsync ==
    /\ Writing("fsync")
    /\ SyncRecord
    /\ operation' = NoOperation
    /\ guests' = IF operation.boot = NoReceipt THEN guests
                 ELSE guests \cup {operation.boot}
    /\ ackedRevision' = IF operation.name \in {"install", "update_policy"}
                        THEN Newer(ackedRevision,
                                   operation.new.admission_policy.revision)
                        ELSE ackedRevision
    /\ UNCHANGED <<record, sibling, images, imagesOnDisk, publishers,
                   healthy, lost, outages>>

-----------------------------------------------------------------------------
(* activation_publish_image: a private bundle is built, renamed into place  *)
(* only if the id is free, and the directory is fsynced. No lock is held.   *)

PublishRename(admission) ==
    /\ images[admission.generation.id] = Missing
    /\ SetImage(admission.generation.id,
                [admission |-> admission, intact |-> TRUE])
    /\ publishers' = publishers \cup {admission}
    /\ UNCHANGED <<record, recordOnDisk, sibling, operation, historyVars>>

PublishFsync(admission) ==
    /\ admission \in publishers
    /\ SyncImages
    /\ publishers' = publishers \ {admission}
    /\ UNCHANGED <<record, recordOnDisk, sibling, operation, historyVars>>

-----------------------------------------------------------------------------
(* Failures *)

Outage == outages < MaxOutages /\ outages' = outages + 1

\* The writer is killed, or a step of it fails once the rename is made: the
\* files stay as they are and the kernel drops the lock. A collector killed
\* inside one removal leaves that bundle damaged.
Kill ==
    /\ Outage
    /\ operation # NoOperation
    /\ operation' = NoOperation
    /\ \/ UNCHANGED <<images, imagesOnDisk>>
       \/ /\ operation.name = "collect"
          /\ \E id \in operation.removing :
                /\ images[id] # Missing
                /\ SetImage(id, Spoiled(images[id]))
    /\ UNCHANGED <<record, recordOnDisk, sibling, publishers, guests, healthy,
                   ackedRevision, lost>>

\* The sibling cannot be written: errdefer removes it and the lock is freed.
WriteFails ==
    /\ Outage
    /\ Writing("fill") \/ Writing("rename")
    /\ sibling' = Missing
    /\ operation' = NoOperation
    /\ UNCHANGED <<record, recordOnDisk, images, imagesOnDisk, publishers,
                   guests, healthy, ackedRevision, lost>>

\* A publisher is killed between its rename and its fsync.
PublisherDies(admission) ==
    /\ Outage
    /\ admission \in publishers
    /\ publishers' = publishers \ {admission}
    /\ UNCHANGED <<diskVars, operation, guests, healthy, ackedRevision, lost>>

\* The host loses power: every directory entry not fsynced may or may not
\* have reached the disk, and every process is gone.
PowerCut ==
    /\ Outage
    /\ record' \in recordOnDisk
    /\ recordOnDisk' = {record'}
    /\ images' \in {f \in [Ids -> UNION {imagesOnDisk[i] : i \in Ids}] :
                       \A i \in Ids : f[i] \in imagesOnDisk[i]}
    /\ imagesOnDisk' = [i \in Ids |-> {images'[i]}]
    /\ lost' = lost \cup {i \in Ids : images[i] # Missing
                                      /\ images'[i] # images[i]}
    /\ sibling' \in {sibling, Missing}
    /\ operation' = NoOperation
    /\ publishers' = {}
    /\ UNCHANGED <<guests, healthy, ackedRevision>>

\* The bytes of a published bundle change under the host's feet.
Damage(id) ==
    /\ Outage
    /\ images[id] # Missing
    /\ images' = [images EXCEPT ![id] = Spoiled(@)]
    /\ imagesOnDisk' = [imagesOnDisk EXCEPT ![id] =
          {IF b = Missing THEN b ELSE Spoiled(b) : b \in @}]
    /\ UNCHANGED <<record, recordOnDisk, sibling, publishers, operation,
                   guests, healthy, ackedRevision, lost>>

-----------------------------------------------------------------------------
Init ==
    /\ record = Missing /\ recordOnDisk = {Missing} /\ sibling = Missing
    /\ images = [i \in Ids |-> Missing]
    /\ imagesOnDisk = [i \in Ids |-> {Missing}]
    /\ publishers = {}
    /\ operation = NoOperation
    /\ guests = {} /\ healthy = {} /\ lost = {}
    /\ ackedRevision = 0 /\ outages = 0

PolicyInputs == [revision : 1..MaxRevision, images : PinSets]

Operate ==
    \/ \E r \in GenerationReceipt, p \in PolicyInputs : activation_install(r, p)
    \/ \E p \in PolicyInputs : activation_update_policy(p)
    \/ \E r \in GenerationReceipt : activation_stage(r)
    \/ SelectCurrent
    \/ SelectPending
    \/ SelectRefused
    \/ \E id \in Ids : activation_confirm_health(id)
    \/ \E g \in guests : activation_confirm_guest_health(g)
    \/ activation_boot_failed
    \/ activation_collect_images

Proceed ==
    \/ \E id \in Ids : CollectRemove(id)
    \/ CollectFsync
    \/ WriteCreate \/ WriteFill \/ WriteRename \/ WriteFsync

Publish == \E a \in ImageAdmission : PublishRename(a) \/ PublishFsync(a)

Fail ==
    \/ Kill \/ WriteFails \/ PowerCut
    \/ \E a \in ImageAdmission : PublisherDies(a)
    \/ \E id \in Ids : Damage(id)

Next == Operate \/ Proceed \/ Publish \/ Fail

Spec == Init /\ [][Next]_vars

\* A process that holds the lock runs on unless it is killed, and a launcher
\* that found the lock held is run again until it finds it free.
FairSpec == Spec /\ WF_vars(Proceed) /\ SF_vars(SelectPending)

-----------------------------------------------------------------------------
(* Properties *)

\* Types. A reader never sees a record that was created and not yet written.
TypeOK ==
    /\ record \in ActivationRecord \cup {Missing}
    /\ recordOnDisk \subseteq ActivationRecord \cup {Missing}
    /\ sibling \in ActivationRecord \cup {Missing, Torn}
    /\ images \in [Ids -> Bundle \cup {Missing}]
    /\ imagesOnDisk \in [Ids -> SUBSET (Bundle \cup {Missing})]
    /\ publishers \subseteq ImageAdmission
    /\ operation \in Writer \cup Collector \cup {NoOperation}
    /\ guests \subseteq Guest
    /\ healthy \subseteq GenerationReceipt
    /\ ackedRevision \in Nat
    /\ lost \subseteq Ids
    /\ outages \in Nat

\* Every record the disk can hold, now or after a power cut.
Records == ({record} \cup recordOnDisk) \ {Missing}

\* activation_status can read every record activation_write leaves behind,
\* wherever a writer was stopped, and no record counts more boots than the
\* cap: the host is never bricked by its own write.
RecordReadable ==
    \A r \in Records :
       /\ activation_record_ok(r)
       /\ r.boot_attempts <= ACTIVATION_MAX_BOOT_ATTEMPTS

\* A candidate can only displace generations that were installed or confirmed
\* healthy, and while it is pending the fallback is the generation the host
\* was running when it was staged ("Staging retains the current healthy
\* generation as fallback", docs/QEMU.md; the comment over activation_stage says
\* that the fallback stays, which is not what its write does).
HealthyFallback ==
    \A r \in Records :
       /\ {r.current, r.fallback} \subseteq healthy
       /\ r.pending # NoReceipt => /\ r.fallback = r.current
                                   /\ r.pending.id # r.current.id

\* The receipts a record may still make the launcher boot.
Bootable(r) ==
    {r.current} \cup
       IF r.pending = NoReceipt THEN {}
       ELSE IF r.boot_attempts < ACTIVATION_MAX_BOOT_ATTEMPTS
            THEN {r.fallback, r.pending}
            ELSE {r.fallback}

\* Collection never removes a bundle that the record, or the record a power
\* cut would bring back, can still boot, unless the bundle was never durable
\* or two replacements of the record were left unsynced.
BootableImagesKept ==
    \A r \in Records : \A receipt \in Bootable(r) :
       receipt.id \notin lost =>
          /\ images[receipt.id] # Missing
          /\ images[receipt.id].admission.generation = receipt

\* A boot of a pending generation is on disk before the guest starts: no
\* power cut gives the candidate its attempt back.
LaunchesDurable ==
    \A g \in guests : g.pending =>
       \A r \in recordOnDisk : r # Missing /\ r.boot_serial >= g.serial

\* "Every pending boot increments the sequence, including retries after
\* restaging" (docs/QEMU.md): the boot a launcher is about to start never
\* shares its sequence number with an earlier boot of a candidate.
SerialFresh ==
    (operation # NoOperation /\ operation.name = "select") =>
       \A g \in guests :
          operation.boot.pending /\ g.pending => g.serial < operation.boot.serial

\* Only a guest with the newest sequence number can confirm the pending
\* generation ("stale required-service observation prevents confirmation",
\* docs/QEMU.md): a late report of an earlier boot never does, and no other
\* candidate was ever booted with the number that is accepted.
GuestConfirmFresh ==
    [][\A g \in guests : activation_confirm_guest_health(g) =>
          \A h \in guests : h.pending =>
             \/ h.serial < g.serial
             \/ h.serial = g.serial /\ h.receipt = g.receipt]_vars

\* A policy revision a caller was told of survives every power cut, and
\* nothing that follows lowers it: revoked pins stay revoked.
AckedPolicyDurable ==
    ackedRevision > 0 =>
       \A r \in recordOnDisk :
          r # Missing /\ r.admission_policy.revision >= ackedRevision

\* A guest starts only from a generation that the policy in force at that
\* moment pins, and that policy is at least as new as any a caller was told
\* of.
RevokedNeverBoots ==
    [][\A g \in guests' \ guests :
          /\ \E p \in record'.admission_policy.images :
                p.generation = g.receipt
          /\ record'.admission_policy.revision >= ackedRevision]_vars

\* A staged generation does not stay pending for ever: it is confirmed or
\* the host falls back, unless what the launcher must boot is refused.
PendingResolves ==
    (record # Missing /\ record.pending # NoReceipt) ~>
       \/ record = Missing
       \/ record.pending = NoReceipt
       \/ ~activation_admitted_image(record.admission_policy,
                                     activation_next_receipt(record))

-----------------------------------------------------------------------------
(* What the runs check. *)

\* Whatever order operations, reports and outages come in, every record that a
\* reader finds, now or after a power cut, is a whole one that activation_status
\* accepts, and names only generations known to work.
RecordSound == TypeOK /\ RecordReadable /\ HealthyFallback

\* What happened stays so across every outage: a counted boot is not given back
\* or its sequence number used again, an acknowledged policy is not forgotten.
PastKept == SerialFresh /\ LaunchesDurable /\ AckedPolicyDurable

\* No stale report confirms a generation and no revoked generation boots.
BootsAuthorized == GuestConfirmFresh /\ RevokedNeverBoots
===============================================================================
