--------------------------- MODULE ActivationProofs ---------------------------
(***************************************************************************)
(* Proofs about what the stores of the system hold after a crash: about    *)
(* Activation for every set of generations, digests, hashes and pin lists, *)
(* every attempt cap and every number of outages; and, in the second half, *)
(* about Trust for any releases and staging names, any number of kills and *)
(* power failures and any moves of the wall clock.                         *)
(***************************************************************************)
EXTENDS Activation, Trust, FiniteSetTheorems, TLAPS

-----------------------------------------------------------------------------
(* Type correctness *)

\* The holder of the lock is a collector or is inside activation_write.
LEMMA OperationKinds ==
    ASSUME TypeOK
    PROVE  /\ \A pc \in {"create", "fill", "rename", "fsync"} :
                 Writing(pc) => operation \in Writer
           /\ (operation # NoOperation /\ operation.name = "collect")
                 => operation \in Collector
BY ActivationAssumptions DEF TypeOK, Writing, Writer, Collector

\* Every pin list an operator may choose makes a typed policy.
LEMMA PolicyInputsTyped == PolicyInputs \subseteq AdmissionPolicy
BY ActivationAssumptions DEF PolicyInputs, AdmissionPolicy

\* Taking a decision keeps the types if the record it will write is typed.
LEMMA WriteTyped ==
    ASSUME TypeOK, NEW name, NEW new \in ActivationRecord, NEW boot,
           name \in {"install", "update_policy", "stage", "select", "mark",
                     "confirm", "boot_failed"},
           boot \in Guest \cup {NoReceipt},
           Write(name, new, boot),
           healthy' \subseteq GenerationReceipt
    PROVE  TypeOK'
<1>1. operation' \in Writer
    BY DEF Write, Writer
<1> QED
    BY <1>1 DEF Write, TypeOK, diskVars

\* The record an operation reads is a record.
LEMMA ReadableTyped ==
    ASSUME TypeOK, Readable
    PROVE  record \in ActivationRecord
BY DEF TypeOK, Readable

LEMMA OperateTyped ==
    ASSUME TypeOK, Operate
    PROVE  TypeOK'
<1> USE ActivationAssumptions
<1>1. ASSUME NEW r \in GenerationReceipt, NEW p \in PolicyInputs,
             activation_install(r, p)
      PROVE  TypeOK'
    <2> DEFINE new == [admission_policy |-> p, boot_serial |-> 0,
                       current |-> r, fallback |-> r,
                       pending |-> NoReceipt, boot_attempts |-> 0,
                       last_operation |-> "installed"]
    <2>1. new \in ActivationRecord
        BY PolicyInputsTyped DEF ActivationRecord, Operations
    <2>2. Write("install", new, NoReceipt)
        BY <1>1 DEF activation_install
    <2>3. healthy' \subseteq GenerationReceipt
        BY <1>1 DEF activation_install, TypeOK
    <2> HIDE DEF new
    <2> QED
        BY <2>1, <2>2, <2>3, WriteTyped
<1>2. ASSUME NEW p \in PolicyInputs, activation_update_policy(p)
      PROVE  TypeOK'
    <2> DEFINE new == [record EXCEPT !.admission_policy = p]
    <2>1. new \in ActivationRecord
        BY <1>2, ReadableTyped, PolicyInputsTyped
        DEF ActivationRecord, activation_update_policy
    <2>2. Write("update_policy", new, NoReceipt)
        BY <1>2 DEF activation_update_policy
    <2>3. healthy' \subseteq GenerationReceipt
        BY <1>2 DEF activation_update_policy, TypeOK
    <2> HIDE DEF new
    <2> QED
        BY <2>1, <2>2, <2>3, WriteTyped
<1>3. ASSUME NEW r \in GenerationReceipt, activation_stage(r)
      PROVE  TypeOK'
    <2> DEFINE new == Staged(record, r)
    <2>1. new \in ActivationRecord
        BY <1>3, ReadableTyped
        DEF ActivationRecord, activation_stage, Staged, Operations
    <2>2. Write("stage", new, NoReceipt)
        BY <1>3 DEF activation_stage
    <2>3. healthy' \subseteq GenerationReceipt
        BY <1>3 DEF activation_stage, TypeOK
    <2> HIDE DEF new
    <2> QED
        BY <2>1, <2>2, <2>3, WriteTyped
<1>4. CASE SelectCurrent
    <2>1. record \in ActivationRecord
        BY <1>4, ReadableTyped DEF SelectCurrent
    <2> DEFINE boot == [receipt |-> record.current,
                        serial |-> record.boot_serial, pending |-> FALSE]
    <2>2. boot \in Guest
        BY <2>1 DEF Guest, ActivationRecord
    <2>3. guests' = guests \cup {boot}
        BY <1>4 DEF SelectCurrent
    <2>4. guests' \subseteq Guest
        BY <2>2, <2>3 DEF TypeOK
    <2> QED
        BY <1>4, <2>4 DEF SelectCurrent, TypeOK, diskVars
<1>5. CASE SelectPending
    <2>1. /\ record \in ActivationRecord
          /\ record.pending \in GenerationReceipt
          /\ healthy' \subseteq GenerationReceipt
        BY <1>5, ReadableTyped DEF SelectPending, TypeOK, ActivationRecord
    <2>2. CASE FallBack
        <3> DEFINE new == FellBack(record)
                   boot == [receipt |-> record.fallback,
                            serial |-> record.boot_serial, pending |-> FALSE]
        <3>1. new \in ActivationRecord
            BY <2>1 DEF ActivationRecord, FellBack, Operations
        <3>2. boot \in Guest
            BY <2>1 DEF ActivationRecord, Guest
        <3>3. Write("select", new, boot)
            BY <2>2 DEF FallBack
        <3> HIDE DEF new, boot
        <3> QED
            BY <2>1, <3>1, <3>2, <3>3, WriteTyped
    <2>3. CASE CountAttempt
        <3> DEFINE new == Attempted(record)
                   boot == [receipt |-> record.pending,
                            serial |-> Attempted(record).boot_serial,
                            pending |-> TRUE]
        <3>0. /\ record.boot_attempts + 1 \in Nat
              /\ record.boot_serial + 1 \in Nat
            BY <2>1 DEF ActivationRecord
        <3>1. new \in ActivationRecord
            BY <2>1, <3>0 DEF ActivationRecord, Attempted, Operations
        <3>2. boot \in Guest
            BY <2>1, <3>1 DEF ActivationRecord, Guest
        <3>3. Write("select", new, boot)
            BY <2>3 DEF CountAttempt
        <3> HIDE DEF new, boot
        <3> QED
            BY <2>1, <3>1, <3>2, <3>3, WriteTyped
    <2> QED
        BY <1>5, <2>2, <2>3 DEF SelectPending
<1>6. CASE SelectRefused
    <2> DEFINE new == Closed(record)
    <2>1. new \in ActivationRecord
        BY <1>6, ReadableTyped
        DEF ActivationRecord, SelectRefused, Closed, Operations
    <2>2. Write("mark", new, NoReceipt)
        BY <1>6 DEF SelectRefused
    <2>3. healthy' \subseteq GenerationReceipt
        BY <1>6 DEF SelectRefused, TypeOK
    <2> HIDE DEF new
    <2> QED
        BY <2>1, <2>2, <2>3, WriteTyped
<1>7. ASSUME Readable, record.pending # NoReceipt, Confirm,
             healthy' \subseteq GenerationReceipt
      PROVE  TypeOK'
    <2> DEFINE new == Confirmed(record)
    <2>1. new \in ActivationRecord
        BY <1>7, ReadableTyped DEF ActivationRecord, Confirmed, Operations
    <2>2. Write("confirm", new, NoReceipt)
        BY <1>7 DEF Confirm
    <2> HIDE DEF new
    <2> QED
        BY <1>7, <2>1, <2>2, WriteTyped
<1>8. ASSUME NEW id \in Ids, activation_confirm_health(id)
      PROVE  TypeOK'
    <2>1. healthy' \subseteq GenerationReceipt
        BY <1>8, ReadableTyped
        DEF activation_confirm_health, TypeOK, ActivationRecord
    <2> QED
        BY <1>7, <1>8, <2>1 DEF activation_confirm_health
<1>9. ASSUME NEW g \in guests, activation_confirm_guest_health(g)
      PROVE  TypeOK'
    <2>1. healthy' \subseteq GenerationReceipt
        BY <1>9 DEF activation_confirm_guest_health, TypeOK, Guest
    <2> QED
        BY <1>7, <1>9, <2>1 DEF activation_confirm_guest_health
<1>10. CASE activation_boot_failed
    <2>1. PICK new \in {FellBack(record), Closed(record)} :
             Write("boot_failed", new, NoReceipt)
        BY <1>10, Zenon DEF activation_boot_failed
    <2>2. new \in ActivationRecord
        BY <1>10, ReadableTyped
        DEF ActivationRecord, activation_boot_failed, FellBack, Closed,
            Operations
    <2>3. healthy' \subseteq GenerationReceipt
        BY <1>10 DEF activation_boot_failed, TypeOK
    <2> QED
        BY <2>1, <2>2, <2>3, WriteTyped
<1>11. CASE activation_collect_images
    <2>1. operation' \in Collector
        BY <1>11 DEF activation_collect_images, Collector
    <2> QED
        BY <1>11, <2>1
        DEF activation_collect_images, TypeOK, diskVars, historyVars
<1> QED
    BY <1>1, <1>2, <1>3, <1>4, <1>5, <1>6, <1>8, <1>9, <1>10, <1>11
    DEF Operate

\* What makes TypeOK inductive: a writer about to rename has filled the
\* sibling with the whole record.
SiblingWritten == Writing("rename") => sibling = operation.new

LEMMA ProceedTyped ==
    ASSUME TypeOK, SiblingWritten, Proceed
    PROVE  TypeOK'
<1> USE ActivationAssumptions
<1>1. ASSUME NEW id \in Ids, CollectRemove(id)
      PROVE  TypeOK'
    <2>1. operation' \in Collector
        BY <1>1, OperationKinds DEF CollectRemove, Collector
    <2>2. /\ images' \in [Ids -> Bundle \cup {Missing}]
          /\ imagesOnDisk' \in [Ids -> SUBSET (Bundle \cup {Missing})]
        BY <1>1 DEF CollectRemove, SetImage, TypeOK
    <2> QED
        BY <1>1, <2>1, <2>2 DEF CollectRemove, TypeOK
<1>2. CASE CollectFsync
    <2>1. imagesOnDisk' \in [Ids -> SUBSET (Bundle \cup {Missing})]
        BY <1>2 DEF CollectFsync, SyncImages, TypeOK
    <2> QED
        BY <1>2, <2>1 DEF CollectFsync, SyncImages, TypeOK, historyVars
<1>3. ASSUME NEW pc \in {"fill", "rename", "fsync"}, operation \in Writer,
             Advance(pc)
      PROVE  operation' \in Writer
    BY <1>3 DEF Advance, Writer
<1>4. CASE WriteCreate
    <2>1. operation' \in Writer
        BY <1>3, <1>4, OperationKinds DEF WriteCreate
    <2> QED
        BY <1>4, <2>1 DEF WriteCreate, TypeOK, historyVars
<1>5. CASE WriteFill
    <2>1. operation \in Writer /\ operation' \in Writer
        BY <1>3, <1>5, OperationKinds DEF WriteFill
    <2>2. sibling' \in ActivationRecord
        BY <1>5, <2>1 DEF WriteFill, Writer
    <2> QED
        BY <1>5, <2>1, <2>2 DEF WriteFill, TypeOK, historyVars
<1>6. CASE WriteRename
    <2>1. operation \in Writer /\ operation' \in Writer
        BY <1>3, <1>6, OperationKinds DEF WriteRename
    <2>2. sibling \in ActivationRecord
        BY <1>6, <2>1 DEF WriteRename, SiblingWritten, Writer
    <2> QED
        BY <1>6, <2>1, <2>2 DEF WriteRename, TypeOK, historyVars
<1>7. CASE WriteFsync
    <2>1. operation \in Writer
        BY <1>7, OperationKinds DEF WriteFsync
    <2>2. guests' \subseteq Guest
        BY <1>7, <2>1 DEF WriteFsync, TypeOK, Writer
    <2>3. ackedRevision' \in Nat
        BY <1>7, <2>1
        DEF WriteFsync, TypeOK, Writer, Newer, ActivationRecord, AdmissionPolicy
    <2> QED
        BY <1>7, <2>2, <2>3 DEF WriteFsync, SyncRecord, TypeOK
<1> QED
    BY <1>1, <1>2, <1>4, <1>5, <1>6, <1>7 DEF Proceed

LEMMA PublishTyped ==
    ASSUME TypeOK, Publish
    PROVE  TypeOK'
<1>1. PICK a \in ImageAdmission : PublishRename(a) \/ PublishFsync(a)
    BY DEF Publish
<1>2. CASE PublishRename(a)
    <2>1. a.generation.id \in Ids
        BY DEF ImageAdmission, GenerationReceipt
    <2>2. [admission |-> a, intact |-> TRUE] \in Bundle
        BY DEF Bundle
    <2>3. /\ images' \in [Ids -> Bundle \cup {Missing}]
          /\ imagesOnDisk' \in [Ids -> SUBSET (Bundle \cup {Missing})]
        BY <1>2, <2>1, <2>2 DEF PublishRename, SetImage, TypeOK
    <2> QED
        BY <1>2, <2>3 DEF PublishRename, TypeOK, historyVars
<1>3. CASE PublishFsync(a)
    <2>1. imagesOnDisk' \in [Ids -> SUBSET (Bundle \cup {Missing})]
        BY <1>3 DEF PublishFsync, SyncImages, TypeOK
    <2> QED
        BY <1>3, <2>1 DEF PublishFsync, SyncImages, TypeOK, historyVars
<1> QED
    BY <1>1, <1>2, <1>3

LEMMA FailTyped ==
    ASSUME TypeOK, Fail
    PROVE  TypeOK'
<1>0. ASSUME NEW b \in Bundle
      PROVE  Spoiled(b) \in Bundle
    BY DEF Spoiled, Bundle
<1>1. CASE Kill
    <2>1. /\ images' \in [Ids -> Bundle \cup {Missing}]
          /\ imagesOnDisk' \in [Ids -> SUBSET (Bundle \cup {Missing})]
        <3>1. CASE UNCHANGED <<images, imagesOnDisk>>
            BY <3>1 DEF TypeOK
        <3>2. CASE /\ operation.name = "collect"
                   /\ \E id \in operation.removing :
                         /\ images[id] # Missing
                         /\ SetImage(id, Spoiled(images[id]))
            <4>1. operation \in Collector
                BY <1>1, <3>2, OperationKinds DEF Kill
            <4>2. PICK id \in Ids : /\ images[id] # Missing
                                    /\ SetImage(id, Spoiled(images[id]))
                BY <3>2, <4>1 DEF Collector
            <4>3. Spoiled(images[id]) \in Bundle
                BY <1>0, <4>2 DEF TypeOK
            <4> QED
                BY <4>2, <4>3 DEF SetImage, TypeOK
        <3> QED
            BY <1>1, <3>1, <3>2 DEF Kill
    <2> QED
        BY <1>1, <2>1 DEF Kill, Outage, TypeOK
<1>2. CASE WriteFails
    BY <1>2 DEF WriteFails, Outage, TypeOK
<1>3. CASE PowerCut
    <2>1. /\ images' \in [Ids -> Bundle \cup {Missing}]
          /\ imagesOnDisk' \in [Ids -> SUBSET (Bundle \cup {Missing})]
        BY <1>3 DEF PowerCut, TypeOK
    <2>2. /\ record' \in ActivationRecord \cup {Missing}
          /\ recordOnDisk' \subseteq ActivationRecord \cup {Missing}
          /\ sibling' \in ActivationRecord \cup {Missing, Torn}
        BY <1>3 DEF PowerCut, TypeOK
    <2> QED
        BY <1>3, <2>1, <2>2 DEF PowerCut, Outage, TypeOK
<1>4. ASSUME NEW a \in ImageAdmission, PublisherDies(a)
      PROVE  TypeOK'
    BY <1>4 DEF PublisherDies, Outage, TypeOK, diskVars
<1>5. ASSUME NEW id \in Ids, Damage(id)
      PROVE  TypeOK'
    <2>1. images' \in [Ids -> Bundle \cup {Missing}]
        BY <1>0, <1>5 DEF Damage, TypeOK
    <2>2. imagesOnDisk' \in [Ids -> SUBSET (Bundle \cup {Missing})]
        BY <1>0, <1>5 DEF Damage, TypeOK
    <2> QED
        BY <1>5, <2>1, <2>2 DEF Damage, Outage, TypeOK
<1> QED
    BY <1>1, <1>2, <1>3, <1>4, <1>5 DEF Fail

\* A step leaves a writer about to rename only by filling the sibling.
LEMMA SiblingStep ==
    ASSUME TypeOK, TypeOK', SiblingWritten, [Next]_vars
    PROVE  SiblingWritten'
<1> SUFFICES ASSUME Writing("rename")'
             PROVE  sibling' = operation'.new
    BY DEF SiblingWritten
<1> USE ActivationAssumptions
<1>1. ASSUME NEW name, NEW new, NEW boot, Write(name, new, boot)
      PROVE  FALSE
    BY <1>1 DEF Write, Writing
<1>2. CASE Operate
    <2>1. CASE SelectCurrent
        BY <2>1 DEF SelectCurrent, SiblingWritten, Writing, LockFree
    <2>2. CASE activation_collect_images
        BY <2>2 DEF activation_collect_images, Writing
    <2> QED
        BY <1>1, <1>2, <2>1, <2>2
        DEF Operate, activation_install, activation_update_policy,
            activation_stage, SelectPending, FallBack, CountAttempt,
            SelectRefused, activation_confirm_health,
            activation_confirm_guest_health, Confirm, activation_boot_failed
<1>3. CASE Proceed
    <2>1. ASSUME NEW id \in Ids, CollectRemove(id)
          PROVE  FALSE
        BY <2>1, OperationKinds DEF CollectRemove, Collector, Writing
    <2>2. CASE CollectFsync
        BY <2>2 DEF CollectFsync, Writing
    <2>3. CASE WriteFill
        <3>1. operation \in Writer
            BY <2>3, OperationKinds DEF WriteFill
        <3> QED
            BY <2>3, <3>1 DEF WriteFill, Advance, Writer
    <2>4. ASSUME NEW pc \in {"fill", "fsync"}, operation \in Writer,
                 Advance(pc)
          PROVE  FALSE
        BY <2>4 DEF Advance, Writing, Writer
    <2>5. CASE WriteCreate \/ WriteRename
        BY <2>4, <2>5, OperationKinds DEF WriteCreate, WriteRename
    <2>6. CASE WriteFsync
        BY <2>6 DEF WriteFsync, Writing
    <2> QED
        BY <1>3, <2>1, <2>2, <2>3, <2>5, <2>6 DEF Proceed
<1>4. CASE Publish
    BY <1>4 DEF Publish, PublishRename, PublishFsync, SiblingWritten, Writing
<1>5. CASE Fail
    BY <1>5
    DEF Fail, Kill, WriteFails, PowerCut, PublisherDies, Damage, diskVars,
        SiblingWritten, Writing
<1>6. CASE UNCHANGED vars
    BY <1>6 DEF vars, SiblingWritten, Writing
<1> QED
    BY <1>2, <1>3, <1>4, <1>5, <1>6 DEF Next

\* Every state of the activation directory is well typed; in particular no
\* reader ever sees an activation.json that was created and not written,
\* wherever a writer or the power stops.
THEOREM TypeCorrect == Spec => []TypeOK
<1>1. Init => TypeOK /\ SiblingWritten
    BY DEF Init, TypeOK, SiblingWritten, Writing
<1>2. TypeOK /\ SiblingWritten /\ [Next]_vars => TypeOK' /\ SiblingWritten'
    <2> SUFFICES ASSUME TypeOK, SiblingWritten, [Next]_vars
                 PROVE  TypeOK' /\ SiblingWritten'
        OBVIOUS
    <2>1. CASE Next
        BY <2>1, OperateTyped, ProceedTyped, PublishTyped, FailTyped,
           SiblingStep DEF Next
    <2>2. CASE UNCHANGED vars
        <3>1. TypeOK'
            BY <2>2 DEF TypeOK, vars
        <3> QED
            BY <3>1, SiblingStep
    <2> QED
        BY <2>1, <2>2
<1> QED
    BY <1>1, <1>2, PTL DEF Spec

-----------------------------------------------------------------------------
(* Safety: the inductive invariant *)

\* What every record on the disk, and the one being written, says about the
\* generations in it, given the receipts known to be healthy ...
Sound(r, h) ==
    /\ activation_record_ok(r)
    /\ r.boot_attempts <= ACTIVATION_MAX_BOOT_ATTEMPTS
    /\ r.current \in h /\ r.fallback \in h
    /\ r.pending # NoReceipt => /\ r.fallback = r.current
                                /\ r.pending.id # r.current.id

\* ... and about the boots and the policies of the past.
Covers(r, gs, revision) ==
    /\ r.admission_policy.revision >= revision
    /\ \A g \in gs : g.pending =>
          /\ g.serial <= r.boot_serial
          /\ (/\ r.pending # NoReceipt
              /\ r.boot_attempts > 0
              /\ g.serial = r.boot_serial) => g.receipt = r.pending

\* The boot an operation starts when it returns: the policy it is about to
\* leave in force pins it, and a candidate's boot has a fresh number that is
\* the one in the record.
BootSound(boot, new, gs) ==
    /\ \E p \in new.admission_policy.images : p.generation = boot.receipt
    /\ boot.pending => /\ boot.serial = new.boot_serial
                       /\ boot.receipt = new.pending
                       /\ \A g \in gs : g.pending => g.serial < boot.serial

DiskInv ==
    /\ record \in recordOnDisk
    /\ Missing \in recordOnDisk =>
          ackedRevision = 0 /\ \A g \in guests : ~g.pending
    /\ \A r \in recordOnDisk \ {Missing} :
          Sound(r, healthy) /\ Covers(r, guests, ackedRevision)

WriterInv ==
    (operation # NoOperation /\ operation.name # "collect") =>
       /\ Sound(operation.new, healthy)
       /\ Covers(operation.new, guests, ackedRevision)
       /\ operation.pc = "rename" => sibling = operation.new
       /\ operation.pc = "fsync" => record = operation.new
       /\ operation.name = "select" <=> operation.boot # NoReceipt
       /\ operation.name = "select" =>
             BootSound(operation.boot, operation.new, guests)

SafetyInv == TypeOK /\ DiskInv /\ WriterInv

\* A receipt once known healthy stays so.
LEMMA SoundMonotone ==
    ASSUME NEW r, NEW h, NEW k, Sound(r, h), h \subseteq k
    PROVE  Sound(r, k)
BY DEF Sound

\* A decision keeps the invariant if the record it will write is sound and
\* covers the past.
LEMMA DecisionSafe ==
    ASSUME SafetyInv, TypeOK', NEW name, NEW new, NEW boot,
           Write(name, new, boot), healthy \subseteq healthy',
           Sound(new, healthy'), Covers(new, guests, ackedRevision),
           name = "select" <=> boot # NoReceipt,
           name = "select" => BootSound(boot, new, guests)
    PROVE  SafetyInv'
<1>1. DiskInv'
    BY SoundMonotone DEF SafetyInv, DiskInv, Write, diskVars
<1>2. /\ operation'.new = new /\ operation'.pc = "create"
      /\ operation'.name = name /\ operation'.boot = boot
    BY DEF Write
<1>3. WriterInv'
    BY <1>2 DEF WriterInv, Write
<1> QED
    BY <1>1, <1>3 DEF SafetyInv

\* The record an operation reads.
LEMMA ReadSafe ==
    ASSUME SafetyInv, Readable
    PROVE  /\ record \in ActivationRecord
           /\ Sound(record, healthy)
           /\ Covers(record, guests, ackedRevision)
BY ReadableTyped DEF SafetyInv, DiskInv, Readable

\* An admitted image is pinned by the policy under its own receipt.
LEMMA AdmittedPinned ==
    ASSUME NEW policy, NEW receipt, activation_admitted_image(policy, receipt)
    PROVE  \E p \in policy.images : p.generation = receipt
BY DEF activation_admitted_image
LEMMA OperateSafe ==
    ASSUME SafetyInv, TypeOK', Operate
    PROVE  SafetyInv'
<1> USE ActivationAssumptions
<1>0. TypeOK /\ DiskInv /\ WriterInv
    BY DEF SafetyInv
<1>1. ASSUME NEW r \in GenerationReceipt, NEW p \in PolicyInputs,
             activation_install(r, p)
      PROVE  SafetyInv'
    <2> DEFINE new == [admission_policy |-> p, boot_serial |-> 0,
                       current |-> r, fallback |-> r,
                       pending |-> NoReceipt, boot_attempts |-> 0,
                       last_operation |-> "installed"]
    <2>1. Write("install", new, NoReceipt)
        BY <1>1 DEF activation_install
    <2>2. healthy \subseteq healthy' /\ r \in healthy'
        BY <1>1 DEF activation_install
    <2>3. Sound(new, healthy')
        BY <1>1, <2>2 DEF Sound, activation_install, activation_record_ok
    <2>4. ackedRevision = 0 /\ \A g \in guests : ~g.pending
        BY <1>0, <1>1 DEF DiskInv, activation_install
    <2>5. Covers(new, guests, ackedRevision)
        BY <2>4, PolicyInputsTyped DEF Covers, AdmissionPolicy
    <2> HIDE DEF new
    <2> QED
        BY <2>1, <2>2, <2>3, <2>5, DecisionSafe
<1>2. ASSUME NEW p \in PolicyInputs, activation_update_policy(p)
      PROVE  SafetyInv'
    <2> DEFINE new == [record EXCEPT !.admission_policy = p]
    <2>0. /\ record \in ActivationRecord
          /\ Sound(record, healthy)
          /\ Covers(record, guests, ackedRevision)
        BY <1>2, ReadSafe DEF activation_update_policy
    <2>1. Write("update_policy", new, NoReceipt) /\ healthy' = healthy
        BY <1>2 DEF activation_update_policy
    <2>2. /\ new.admission_policy = p
          /\ new.boot_serial = record.boot_serial
          /\ new.boot_attempts = record.boot_attempts
          /\ new.current = record.current /\ new.fallback = record.fallback
          /\ new.pending = record.pending
        BY <2>0 DEF ActivationRecord
    <2>3. /\ activation_policy_ok(p)
          /\ p.revision > record.admission_policy.revision
        BY <1>2 DEF activation_update_policy
    <2>4. p.revision >= ackedRevision
        BY <1>0, <2>0, <2>3, PolicyInputsTyped
        DEF Covers, TypeOK, ActivationRecord, AdmissionPolicy
    <2> HIDE DEF new
    <2>5. Sound(new, healthy')
        BY <2>0, <2>1, <2>2, <2>3 DEF Sound, activation_record_ok
    <2>6. Covers(new, guests, ackedRevision)
        BY <2>0, <2>2, <2>4 DEF Covers
    <2> QED
        BY <2>1, <2>5, <2>6, DecisionSafe
<1>3. ASSUME NEW r \in GenerationReceipt, activation_stage(r)
      PROVE  SafetyInv'
    <2> DEFINE new == Staged(record, r)
    <2>0. /\ record \in ActivationRecord
          /\ Sound(record, healthy)
          /\ Covers(record, guests, ackedRevision)
        BY <1>3, ReadSafe DEF activation_stage
    <2>1. /\ Write("stage", new, NoReceipt) /\ healthy' = healthy
          /\ r.id # record.current.id
        BY <1>3 DEF activation_stage
    <2>2. /\ new.admission_policy = record.admission_policy
          /\ new.boot_serial = record.boot_serial
          /\ new.boot_attempts = 0
          /\ new.current = record.current /\ new.fallback = record.current
          /\ new.pending = r
        BY <2>0 DEF ActivationRecord, Staged
    <2> HIDE DEF new
    <2>3. Sound(new, healthy')
        BY <2>0, <2>1, <2>2
        DEF Sound, activation_record_ok, ActivationRecord
    <2>4. Covers(new, guests, ackedRevision)
        BY <2>0, <2>2 DEF Covers
    <2> QED
        BY <2>1, <2>3, <2>4, DecisionSafe
<1>4. CASE SelectCurrent
    <2> DEFINE boot == [receipt |-> record.current,
                        serial |-> record.boot_serial, pending |-> FALSE]
    <2>1. guests' = guests \cup {boot} /\ ~boot.pending
        BY <1>4 DEF SelectCurrent
    <2>2. ASSUME NEW r, Covers(r, guests, ackedRevision)
          PROVE  Covers(r, guests', ackedRevision)
        BY <2>1, <2>2 DEF Covers
    <2> HIDE DEF boot
    <2>3. DiskInv'
        BY <1>0, <1>4, <2>1, <2>2 DEF SelectCurrent, DiskInv, diskVars
    <2>4. WriterInv'
        BY <1>4 DEF SelectCurrent, LockFree, WriterInv
    <2> QED
        BY <2>3, <2>4 DEF SafetyInv
<1>5. CASE SelectPending
    <2>0. /\ record \in ActivationRecord
          /\ Sound(record, healthy)
          /\ Covers(record, guests, ackedRevision)
        BY <1>5, ReadSafe DEF SelectPending
    <2>1. /\ record.pending # NoReceipt /\ healthy' = healthy
          /\ \E p \in record.admission_policy.images :
                p.generation = activation_next_receipt(record)
        BY <1>5, AdmittedPinned DEF SelectPending
    <2>2. CASE FallBack
        <3> DEFINE new == FellBack(record)
                   boot == [receipt |-> record.fallback,
                            serial |-> record.boot_serial, pending |-> FALSE]
        <3>1. Write("select", new, boot)
            BY <2>2 DEF FallBack
        <3>2. /\ new.admission_policy = record.admission_policy
              /\ new.boot_serial = record.boot_serial
              /\ new.boot_attempts = record.boot_attempts
              /\ new.current = record.fallback
              /\ new.fallback = record.fallback
              /\ new.pending = NoReceipt
            BY <2>0 DEF ActivationRecord, FellBack
        <3>3. boot \in Guest
            BY <2>0 DEF Guest, ActivationRecord
        <3>4. BootSound(boot, new, guests)
            BY <2>1, <2>2, <3>2
            DEF BootSound, FallBack, activation_next_receipt
        <3> HIDE DEF new, boot
        <3>5. Sound(new, healthy')
            BY <2>0, <2>1, <3>2 DEF Sound, activation_record_ok
        <3>6. Covers(new, guests, ackedRevision)
            BY <2>0, <3>2 DEF Covers
        <3> QED
            BY <2>1, <3>1, <3>3, <3>4, <3>5, <3>6, DecisionSafe
    <2>3. CASE CountAttempt
        <3> DEFINE new == Attempted(record)
                   boot == [receipt |-> record.pending,
                            serial |-> Attempted(record).boot_serial,
                            pending |-> TRUE]
        <3>1. /\ Write("select", new, boot)
              /\ record.boot_attempts < ACTIVATION_MAX_BOOT_ATTEMPTS
            BY <2>3 DEF CountAttempt
        <3>2. /\ new.admission_policy = record.admission_policy
              /\ new.boot_serial = record.boot_serial + 1
              /\ new.boot_attempts = record.boot_attempts + 1
              /\ new.current = record.current
              /\ new.fallback = record.fallback
              /\ new.pending = record.pending
            BY <2>0 DEF ActivationRecord, Attempted
        <3>3. /\ record.boot_attempts \in Nat /\ record.boot_serial \in Nat
              /\ record.pending \in GenerationReceipt
            BY <2>0, <2>1 DEF ActivationRecord
        <3>4. boot \in Guest
            BY <3>2, <3>3 DEF Guest
        <3>5. activation_next_receipt(record) = record.pending
            BY <2>1, <3>1, <3>3 DEF activation_next_receipt
        <3>6. \A g \in guests : g.pending => g.serial < record.boot_serial + 1
            BY <1>0, <2>0, <3>3 DEF Covers, TypeOK, Guest
        <3>7. BootSound(boot, new, guests)
            BY <2>1, <3>2, <3>5, <3>6 DEF BootSound
        <3> HIDE DEF new, boot
        <3>8. Sound(new, healthy')
            BY <2>0, <2>1, <3>1, <3>2, <3>3 DEF Sound, activation_record_ok
        <3>9. Covers(new, guests, ackedRevision)
            BY <1>0, <2>0, <3>2, <3>3, <3>6 DEF Covers, TypeOK, Guest
        <3> QED
            BY <2>1, <3>1, <3>4, <3>7, <3>8, <3>9, DecisionSafe
    <2> QED
        BY <1>5, <2>2, <2>3 DEF SelectPending
<1>6. CASE SelectRefused
    <2> DEFINE new == Closed(record)
    <2>0. /\ record \in ActivationRecord
          /\ Sound(record, healthy)
          /\ Covers(record, guests, ackedRevision)
        BY <1>6, ReadSafe DEF SelectRefused
    <2>1. Write("mark", new, NoReceipt) /\ healthy' = healthy
        BY <1>6 DEF SelectRefused
    <2>2. Sound(new, healthy') /\ Covers(new, guests, ackedRevision)
        BY <2>0, <2>1
        DEF Sound, Covers, activation_record_ok, ActivationRecord, Closed
    <2> HIDE DEF new
    <2> QED
        BY <2>1, <2>2, DecisionSafe
<1>7. ASSUME Readable, record.pending # NoReceipt, Confirm,
             healthy \subseteq healthy', record.pending \in healthy'
      PROVE  SafetyInv'
    <2> DEFINE new == Confirmed(record)
    <2>0. /\ record \in ActivationRecord
          /\ Sound(record, healthy)
          /\ Covers(record, guests, ackedRevision)
        BY <1>7, ReadSafe
    <2>1. Write("confirm", new, NoReceipt)
        BY <1>7 DEF Confirm
    <2>2. /\ new.admission_policy = record.admission_policy
          /\ new.boot_serial = record.boot_serial
          /\ new.boot_attempts = 0
          /\ new.current = record.pending /\ new.fallback = record.current
          /\ new.pending = NoReceipt
        BY <2>0 DEF ActivationRecord, Confirmed
    <2> HIDE DEF new
    <2>3. Sound(new, healthy')
        BY <1>7, <2>0, <2>2
        DEF Sound, activation_record_ok, ActivationRecord
    <2>4. Covers(new, guests, ackedRevision)
        BY <2>0, <2>2 DEF Covers
    <2> QED
        BY <1>7, <2>1, <2>3, <2>4, DecisionSafe
<1>8. ASSUME NEW id \in Ids, activation_confirm_health(id)
      PROVE  SafetyInv'
    BY <1>7, <1>8 DEF activation_confirm_health
<1>9. ASSUME NEW g \in guests, activation_confirm_guest_health(g)
      PROVE  SafetyInv'
    BY <1>7, <1>9 DEF activation_confirm_guest_health
<1>10. CASE activation_boot_failed
    <2>0. /\ record \in ActivationRecord
          /\ Sound(record, healthy)
          /\ Covers(record, guests, ackedRevision)
          /\ healthy' = healthy
        BY <1>10, ReadSafe DEF activation_boot_failed
    <2>1. PICK new \in {FellBack(record), Closed(record)} :
             Write("boot_failed", new, NoReceipt)
        BY <1>10, Zenon DEF activation_boot_failed
    <2>2. /\ new.admission_policy = record.admission_policy
          /\ new.boot_serial = record.boot_serial
          /\ new.boot_attempts = record.boot_attempts
          /\ new.current \in {record.current, record.fallback}
          /\ new.fallback = record.fallback
          /\ \/ new.pending = NoReceipt
             \/ new.pending = record.pending /\ new.current = record.current
        BY <2>0, <2>1 DEF ActivationRecord, FellBack, Closed
    <2>3. Sound(new, healthy')
        BY <2>0, <2>2 DEF Sound, activation_record_ok
    <2>4. Covers(new, guests, ackedRevision)
        BY <2>0, <2>2 DEF Covers
    <2> QED
        BY <2>0, <2>1, <2>3, <2>4, DecisionSafe
<1>11. CASE activation_collect_images
    <2>1. operation'.name = "collect"
        BY <1>11 DEF activation_collect_images
    <2>2. DiskInv'
        BY <1>0, <1>11
        DEF activation_collect_images, DiskInv, diskVars, historyVars
    <2> QED
        BY <2>1, <2>2 DEF SafetyInv, WriterInv
<1> QED
    BY <1>1, <1>2, <1>3, <1>4, <1>5, <1>6, <1>8, <1>9, <1>10, <1>11
    DEF Operate
LEMMA ProceedSafe ==
    ASSUME SafetyInv, TypeOK', Proceed
    PROVE  SafetyInv'
<1> USE ActivationAssumptions
<1>0. TypeOK /\ DiskInv /\ WriterInv
    BY DEF SafetyInv
<1>1. ASSUME NEW id \in Ids, CollectRemove(id)
      PROVE  SafetyInv'
    <2>1. operation \in Collector
        BY <1>0, <1>1, OperationKinds DEF CollectRemove
    <2>2. operation'.name = "collect"
        BY <1>1, <2>1 DEF CollectRemove, Collector
    <2>3. DiskInv'
        BY <1>0, <1>1 DEF CollectRemove, DiskInv
    <2> QED
        BY <2>2, <2>3 DEF SafetyInv, WriterInv
<1>2. CASE CollectFsync
    <2>1. DiskInv'
        BY <1>0, <1>2 DEF CollectFsync, DiskInv, historyVars
    <2> QED
        BY <1>2, <2>1 DEF SafetyInv, WriterInv, CollectFsync
<1>3. ASSUME NEW pc \in {"fill", "rename", "fsync"}, operation \in Writer,
             Advance(pc)
      PROVE  /\ operation'.pc = pc
             /\ operation'.new = operation.new
             /\ operation'.name = operation.name
             /\ operation'.boot = operation.boot
    BY <1>3 DEF Advance, Writer
<1>4. ASSUME NEW pc \in {"create", "fill", "rename", "fsync"}, Writing(pc)
      PROVE  /\ operation \in Writer
             /\ Sound(operation.new, healthy)
             /\ Covers(operation.new, guests, ackedRevision)
             /\ operation.pc = "rename" => sibling = operation.new
             /\ operation.pc = "fsync" => record = operation.new
             /\ operation.name = "select" <=> operation.boot # NoReceipt
             /\ operation.name = "select" =>
                   BootSound(operation.boot, operation.new, guests)
    BY <1>0, <1>4, OperationKinds DEF WriterInv, Writing
<1>5. CASE WriteCreate
    <2>1. DiskInv'
        BY <1>0, <1>5 DEF WriteCreate, DiskInv, historyVars
    <2>2. WriterInv'
        BY <1>3, <1>4, <1>5 DEF WriteCreate, WriterInv, historyVars
    <2> QED
        BY <2>1, <2>2 DEF SafetyInv
<1>6. CASE WriteFill
    <2>1. DiskInv'
        BY <1>0, <1>6 DEF WriteFill, DiskInv, historyVars
    <2>2. WriterInv'
        BY <1>3, <1>4, <1>6 DEF WriteFill, WriterInv, historyVars
    <2> QED
        BY <2>1, <2>2 DEF SafetyInv
<1>7. CASE WriteRename
    <2>1. /\ sibling = operation.new /\ sibling # Missing
          /\ Sound(sibling, healthy)
          /\ Covers(sibling, guests, ackedRevision)
        BY <1>4, <1>7 DEF WriteRename, Writing, Writer
    <2>2. DiskInv'
        BY <1>0, <1>7, <2>1 DEF WriteRename, DiskInv, historyVars
    <2>3. WriterInv'
        BY <1>3, <1>4, <1>7, <2>1 DEF WriteRename, WriterInv, historyVars
    <2> QED
        BY <2>2, <2>3 DEF SafetyInv
<1>8. CASE WriteFsync
    <2>1. /\ operation \in Writer /\ record = operation.new
          /\ Sound(record, healthy)
          /\ Covers(record, guests, ackedRevision)
          /\ operation.boot # NoReceipt =>
                BootSound(operation.boot, record, guests)
        BY <1>4, <1>8 DEF WriteFsync, Writing
    <2>2. record \in ActivationRecord
        BY <2>1 DEF Writer
    <2>3. /\ recordOnDisk' = {record} /\ record' = record
          /\ healthy' = healthy /\ operation' = NoOperation
        BY <1>8 DEF WriteFsync, SyncRecord
    <2>4. record.admission_policy.revision >= ackedRevision'
        BY <1>8, <2>1, <2>2
        DEF WriteFsync, Covers, Newer, ActivationRecord, AdmissionPolicy
    <2>5. Covers(record, guests', ackedRevision')
        <3>1. CASE operation.boot = NoReceipt
            BY <1>8, <2>1, <2>4, <3>1 DEF WriteFsync, Covers
        <3>2. CASE operation.boot # NoReceipt
            <4>1. guests' = guests \cup {operation.boot}
                BY <1>8, <3>2 DEF WriteFsync
            <4>2. BootSound(operation.boot, record, guests)
                BY <2>1, <3>2
            <4>3. record.boot_serial \in Nat
                BY <2>2 DEF ActivationRecord
            <4> QED
                BY <2>1, <2>4, <4>1, <4>2, <4>3 DEF Covers, BootSound
        <3> QED
            BY <3>1, <3>2
    <2>6. DiskInv'
        BY <2>1, <2>2, <2>3, <2>5 DEF DiskInv
    <2> QED
        BY <2>3, <2>6 DEF SafetyInv, WriterInv
<1> QED
    BY <1>1, <1>2, <1>5, <1>6, <1>7, <1>8 DEF Proceed

LEMMA OthersSafe ==
    ASSUME SafetyInv, TypeOK', Publish \/ Fail \/ UNCHANGED vars
    PROVE  SafetyInv'
<1> USE ActivationAssumptions
<1>0. TypeOK /\ DiskInv /\ WriterInv
    BY DEF SafetyInv
<1>1. ASSUME UNCHANGED <<record, recordOnDisk, guests, healthy, ackedRevision>>,
             \/ operation' = NoOperation
             \/ UNCHANGED <<operation, sibling>>
      PROVE  SafetyInv'
    <2>1. DiskInv'
        BY <1>0, <1>1 DEF DiskInv
    <2>2. WriterInv'
        BY <1>0, <1>1 DEF WriterInv
    <2> QED
        BY <2>1, <2>2 DEF SafetyInv
<1>2. CASE Publish
    BY <1>1, <1>2 DEF Publish, PublishRename, PublishFsync, historyVars
<1>3. CASE PowerCut
    <2>1. /\ record' \in recordOnDisk /\ recordOnDisk' = {record'}
          /\ UNCHANGED <<guests, healthy, ackedRevision>>
          /\ operation' = NoOperation
        BY <1>3 DEF PowerCut
    <2>2. DiskInv'
        BY <1>0, <2>1 DEF DiskInv
    <2> QED
        BY <2>1, <2>2 DEF SafetyInv, WriterInv
<1>4. CASE Kill \/ WriteFails
    BY <1>1, <1>4 DEF Kill, WriteFails
<1>5. ASSUME NEW a \in ImageAdmission, PublisherDies(a)
      PROVE  SafetyInv'
    BY <1>1, <1>5 DEF PublisherDies, diskVars
<1>6. ASSUME NEW id \in Ids, Damage(id)
      PROVE  SafetyInv'
    BY <1>1, <1>6 DEF Damage
<1>7. CASE UNCHANGED vars
    BY <1>1, <1>7 DEF vars
<1> QED
    BY <1>2, <1>3, <1>4, <1>5, <1>6, <1>7 DEF Fail

LEMMA SafetyInvariant == Spec => []SafetyInv
<1>1. Init => SafetyInv
    BY DEF Init, SafetyInv, TypeOK, DiskInv, WriterInv
<1>2. SafetyInv /\ TypeOK' /\ [Next]_vars => SafetyInv'
    BY OperateSafe, ProceedSafe, OthersSafe DEF Next
<1> QED
    BY <1>1, <1>2, TypeCorrect, PTL DEF Spec

\* activation_status reads every record that activation_write can leave.
THEOREM RecordsReadable == Spec => []RecordReadable
<1>1. SafetyInv => RecordReadable
    BY DEF SafetyInv, DiskInv, RecordReadable, Records, Sound
<1> QED
    BY <1>1, SafetyInvariant, PTL

\* The current and fallback generations of every record are healthy ones,
\* and a pending generation always has the running one to fall back to.
THEOREM FallbacksHealthy == Spec => []HealthyFallback
<1>1. SafetyInv => HealthyFallback
    BY DEF SafetyInv, DiskInv, HealthyFallback, Records, Sound
<1> QED
    BY <1>1, SafetyInvariant, PTL

\* No power cut gives a candidate back the boot attempt it used.
THEOREM LaunchesAreDurable == Spec => []LaunchesDurable
<1>1. SafetyInv => LaunchesDurable
    BY DEF SafetyInv, DiskInv, LaunchesDurable, Covers, TypeOK, Guest,
           ActivationRecord
<1> QED
    BY <1>1, SafetyInvariant, PTL

\* A candidate is never booted twice under one sequence number.
THEOREM SerialsFresh == Spec => []SerialFresh
<1>1. SafetyInv => SerialFresh
    BY DEF SafetyInv, WriterInv, SerialFresh, BootSound
<1> QED
    BY <1>1, SafetyInvariant, PTL

\* An acknowledged policy revision survives every failure.
THEOREM AckedPoliciesDurable == Spec => []AckedPolicyDurable
<1>1. SafetyInv => AckedPolicyDurable
    BY DEF SafetyInv, DiskInv, AckedPolicyDurable, Covers
<1> QED
    BY <1>1, SafetyInvariant, PTL

\* A stale health report never confirms a pending generation.
THEOREM GuestConfirmsFresh == Spec => GuestConfirmFresh
<1>1. ASSUME SafetyInv, NEW g \in guests, activation_confirm_guest_health(g)
      PROVE  \A h \in guests : h.pending =>
                \/ h.serial < g.serial
                \/ h.serial = g.serial /\ h.receipt = g.receipt
    <2>1. Covers(record, guests, ackedRevision)
        BY <1>1, ReadSafe DEF activation_confirm_guest_health
    <2>2. /\ g.receipt = record.pending /\ g.serial = record.boot_serial
          /\ record.pending # NoReceipt /\ record.boot_attempts > 0
        BY <1>1 DEF activation_confirm_guest_health, LastSequence
    <2>3. \A h \in guests : h.serial \in Nat
        BY <1>1 DEF SafetyInv, TypeOK, Guest
    <2> QED
        BY <2>1, <2>2, <2>3 DEF Covers
<1> DEFINE Matched == \A g \in guests : activation_confirm_guest_health(g) =>
                         \A h \in guests : h.pending =>
                            \/ h.serial < g.serial
                            \/ h.serial = g.serial /\ h.receipt = g.receipt
<1>2. SafetyInv => [Matched]_vars
    BY <1>1
<1>3. Spec => [][Matched]_vars
    BY <1>2, SafetyInvariant, PTL
<1> QED
    BY <1>3 DEF GuestConfirmFresh

\* No guest starts from a generation the newest acknowledged policy revoked.
THEOREM RevokedNeverBoot == Spec => RevokedNeverBoots
<1> DEFINE Pinned == \A g \in guests' \ guests :
                        /\ \E p \in record'.admission_policy.images :
                              p.generation = g.receipt
                        /\ record'.admission_policy.revision >= ackedRevision
<1>1. ASSUME SafetyInv, Next
      PROVE  Pinned
    <2>1. CASE SelectCurrent
        <3>1. /\ Covers(record, guests, ackedRevision)
              /\ \E p \in record.admission_policy.images :
                    p.generation = record.current
            BY <1>1, <2>1, ReadSafe, AdmittedPinned DEF SelectCurrent
        <3>2. /\ record' = record
              /\ \A g \in guests' \ guests : g.receipt = record.current
            BY <2>1 DEF SelectCurrent, diskVars
        <3> QED
            BY <3>1, <3>2 DEF Covers
    <2>2. CASE WriteFsync
        <3>1. /\ record' = record /\ record = operation.new
              /\ Covers(record, guests, ackedRevision)
              /\ operation.boot # NoReceipt =>
                    BootSound(operation.boot, record, guests)
            BY <1>1, <2>2 DEF WriteFsync, Writing, SafetyInv, WriterInv
        <3>2. \A g \in guests' \ guests :
                 g = operation.boot /\ operation.boot # NoReceipt
            BY <2>2 DEF WriteFsync
        <3> QED
            BY <3>1, <3>2 DEF Covers, BootSound
    <2>3. CASE ~SelectCurrent /\ ~WriteFsync
        <3>1. guests' = guests
            BY <1>1, <2>3
            DEF Next, Operate, Proceed, Publish, Fail, Write, historyVars,
                activation_install, activation_update_policy, activation_stage,
                SelectPending, FallBack, CountAttempt, SelectRefused,
                activation_confirm_health, activation_confirm_guest_health,
                Confirm, activation_boot_failed, activation_collect_images,
                CollectRemove, CollectFsync, WriteCreate, WriteFill,
                WriteRename, PublishRename, PublishFsync, Kill, WriteFails,
                PowerCut, PublisherDies, Damage
        <3> QED
            BY <3>1
    <2> QED
        BY <2>1, <2>2, <2>3
<1> HIDE DEF Pinned
<1>2. SafetyInv /\ [Next]_vars => [Pinned]_vars
    BY <1>1
<1>3. Spec => [][Pinned]_vars
    BY <1>2, SafetyInvariant, PTL DEF Spec
<1> QED
    BY <1>3 DEF RevokedNeverBoots, Pinned


\* Every record that activation_write can leave behind, on whatever disk the
\* power leaves, is readable, under the cap and backed by healthy generations.
THEOREM RecordsSound == Spec => []RecordSound
    BY TypeCorrect, RecordsReadable, FallbacksHealthy, PTL DEF RecordSound

\* No outage gives back a counted boot, reuses its sequence number, or forgets
\* a policy that a caller was told of.
THEOREM PastIsKept == Spec => []PastKept
    BY SerialsFresh, LaunchesAreDurable, AckedPoliciesDurable, PTL DEF PastKept

\* Only the newest boot confirms a generation, and only admitted ones boot.
THEOREM BootsAreAuthorized == Spec => BootsAuthorized
    BY GuestConfirmsFresh, RevokedNeverBoot, PTL DEF BootsAuthorized
-----------------------------------------------------------------------------
(* Collection: the images that records can still boot *)

Kept(c, bundles, gone) ==
    \/ c.id \in gone
    \/ bundles[c.id] # Missing /\ bundles[c.id].admission.generation = c

\* What r may boot is what a collection that reads new retains.
Precedes(r, new) == \A c \in Bootable(r) : c.id \in Retained(new)

\* The disk holds the record and, unless two replacements of it were left
\* unsynced, at most the one it replaced.
DiskKept ==
    /\ IsFiniteSet(recordOnDisk)
    /\ record = Missing => recordOnDisk = {Missing}
    /\ \A r \in recordOnDisk \ {Missing} :
          /\ \A c \in Bootable(r) : Kept(c, images, lost)
          /\ Precedes(r, record) \/ Cardinality(recordOnDisk) > 2

\* The record being written can be booted from as well, and replaces one
\* whose images it retains.
WriterKept ==
    (operation # NoOperation /\ operation.name # "collect" /\ operation.pc # "fsync") =>
       /\ \A c \in Bootable(operation.new) : Kept(c, images, lost)
       /\ record # Missing => Precedes(record, operation.new)

\* What is being removed the record does not retain.
CollectorKept ==
    (operation # NoOperation /\ operation.name = "collect") =>
       record # Missing /\ operation.removing \cap Retained(record) = {}

KeepInv == DiskKept /\ WriterKept /\ CollectorKept

\* Of three records left on the disk two replacements are unsynced.
LEMMA ThreeRecords ==
    ASSUME NEW S, IsFiniteSet(S), NEW a \in S, NEW b \in S, NEW c \in S, a # b, a # c, b # c
    PROVE  Cardinality(S) > 2
<1> DEFINE A == {a}
           B == A \cup {b}
           C == B \cup {c}
<1>1. Cardinality(A) = 1 /\ IsFiniteSet(A)
    BY FS_Singleton
<1>2. b \notin A /\ c \notin B /\ C \subseteq S
    OBVIOUS
<1> HIDE DEF A
<1>3. Cardinality(B) = 2 /\ IsFiniteSet(B)
    BY <1>1, <1>2, FS_AddElement
<1> HIDE DEF B
<1>c. c \notin B
    BY <1>2
<1>d. Cardinality(B \cup {c}) = IF c \in B THEN Cardinality(B) ELSE Cardinality(B) + 1
    BY <1>3, FS_AddElement
<1>4. Cardinality(C) = 3
    BY <1>c, <1>d, <1>3
<1> HIDE DEF C
<1>5. Cardinality(C) <= Cardinality(S) /\ Cardinality(S) \in Nat
    BY <1>2, FS_Subset, FS_CardinalityType
<1> QED
    BY <1>4, <1>5

\* Receipts of a record.
LEMMA RecordFields ==
    ASSUME NEW r \in ActivationRecord
    PROVE  /\ r.current \in GenerationReceipt /\ r.fallback \in GenerationReceipt
           /\ r.pending \in GenerationReceipt \cup {NoReceipt}
           /\ r.boot_attempts \in Nat
           /\ Bootable(r) \subseteq GenerationReceipt /\ Retained(r) \subseteq Ids
<1>1. /\ r.current \in GenerationReceipt /\ r.fallback \in GenerationReceipt
      /\ r.pending \in GenerationReceipt \cup {NoReceipt}
      /\ r.boot_attempts \in Nat
    BY DEF ActivationRecord
<1>2. \A c \in GenerationReceipt : c.id \in Ids
    BY DEF GenerationReceipt
<1> QED
    BY <1>1, <1>2 DEF Bootable, Retained

\* An image that changes its bytes, or costs its id, is still kept.
LEMMA KeptStep ==
    ASSUME NEW c \in GenerationReceipt, NEW f, NEW g, NEW gone, NEW more, Kept(c, f, gone), gone \subseteq more,
           \A i \in Ids : f[i] # Missing =>
              i \in more \/ (g[i] # Missing /\ g[i].admission = f[i].admission)
    PROVE  Kept(c, g, more)
<1>1. c.id \in Ids
    BY DEF GenerationReceipt
<1> QED
    BY <1>1 DEF Kept

\* An admitted image is there.
LEMMA AdmittedKept ==
    ASSUME NEW policy, NEW receipt, activation_admitted_image(policy, receipt)
    PROVE  Kept(receipt, images, lost)
BY DEF activation_admitted_image, Kept

\* A decision, under the lock, to write a record whose images are there.
LEMMA DecisionKeeps ==
    ASSUME KeepInv, NEW name, NEW new, NEW boot, Write(name, new, boot), name # "collect",
           \A c \in Bootable(new) : Kept(c, images, lost),
           record # Missing => Precedes(record, new)
    PROVE  KeepInv'
<1>1. DiskKept'
    BY DEF KeepInv, DiskKept, Write, diskVars, Precedes
<1>2. /\ operation'.new = new /\ operation'.name # "collect"
      /\ UNCHANGED <<record, images, lost>>
    BY DEF Write, diskVars
<1>3. WriterKept'
    BY <1>2 DEF WriterKept
<1>4. CollectorKept'
    BY <1>2 DEF CollectorKept
<1> QED
    BY <1>1, <1>3, <1>4 DEF KeepInv

\* The record an operation reads, and what of it is kept.
LEMMA ReadKept ==
    ASSUME SafetyInv, KeepInv, Readable
    PROVE  /\ record \in ActivationRecord /\ record # Missing
           /\ \A c \in Bootable(record) : Kept(c, images, lost)
           /\ record.pending # NoReceipt => record.fallback = record.current
<1>1. record \in ActivationRecord /\ Sound(record, healthy) /\ record # Missing
    BY ReadSafe DEF Readable
<1>2. record \in recordOnDisk
    BY DEF SafetyInv, DiskInv
<1> QED
    BY <1>1, <1>2 DEF KeepInv, DiskKept, Sound

LEMMA OperateKeeps ==
    ASSUME SafetyInv, KeepInv, Operate
    PROVE  KeepInv'
<1> USE ActivationAssumptions
<1>1. ASSUME NEW r \in GenerationReceipt, NEW p \in PolicyInputs,
             activation_install(r, p)
      PROVE  KeepInv'
    <2> DEFINE new == [admission_policy |-> p, boot_serial |-> 0,
                       current |-> r, fallback |-> r,
                       pending |-> NoReceipt, boot_attempts |-> 0,
                       last_operation |-> "installed"]
    <2>1. Bootable(new) = {r}
        BY DEF Bootable
    <2>2. /\ Write("install", new, NoReceipt) /\ record = Missing
          /\ Kept(r, images, lost)
        BY <1>1, AdmittedKept DEF activation_install
    <2> HIDE DEF new
    <2> QED
        BY <2>1, <2>2, DecisionKeeps
<1>2. ASSUME Readable, NEW name, NEW new, NEW boot, Write(name, new, boot), name # "collect",
             /\ new.current = record.current /\ new.fallback = record.fallback
             /\ new.pending = record.pending /\ new.boot_attempts >= record.boot_attempts
             /\ new.boot_attempts \in Nat
      PROVE  KeepInv'
    <2>1. /\ record \in ActivationRecord /\ record # Missing
          /\ \A c \in Bootable(record) : Kept(c, images, lost)
        BY <1>2, ReadKept
    <2>2. record.boot_attempts \in Nat
        BY <2>1, RecordFields
    <2>3. Bootable(new) \subseteq Bootable(record)
        BY <1>2, <2>2 DEF Bootable
    <2>4. Precedes(record, new)
        BY <1>2 DEF Precedes, Bootable, Retained
    <2> QED
        BY <1>2, <2>1, <2>3, <2>4, DecisionKeeps
<1>3. ASSUME NEW p \in PolicyInputs, activation_update_policy(p)
      PROVE  KeepInv'
    <2> DEFINE new == [record EXCEPT !.admission_policy = p]
    <2>1. record \in ActivationRecord /\ Readable
        BY <1>3, ReadKept DEF activation_update_policy
    <2>2. /\ new.current = record.current /\ new.fallback = record.fallback
          /\ new.pending = record.pending /\ new.boot_attempts = record.boot_attempts
          /\ record.boot_attempts \in Nat
        BY <2>1 DEF ActivationRecord
    <2>3. Write("update_policy", new, NoReceipt)
        BY <1>3 DEF activation_update_policy
    <2> HIDE DEF new
    <2> QED
        BY <1>2, <2>1, <2>2, <2>3
<1>4. ASSUME NEW r \in GenerationReceipt, activation_stage(r)
      PROVE  KeepInv'
    <2> DEFINE new == Staged(record, r)
    <2>1. /\ record \in ActivationRecord /\ record # Missing
          /\ \A c \in Bootable(record) : Kept(c, images, lost)
          /\ record.pending = NoReceipt /\ r # NoReceipt
        BY <1>4, ReadKept DEF activation_stage
    <2>2. /\ new.current = record.current /\ new.fallback = record.current
          /\ new.pending = r
        BY <2>1 DEF ActivationRecord, Staged
    <2>3. Write("stage", new, NoReceipt) /\ Kept(r, images, lost)
        BY <1>4, AdmittedKept DEF activation_stage
    <2> HIDE DEF new
    <2>4. Bootable(new) \subseteq {record.current, r} /\ Bootable(record) = {record.current}
        BY <2>1, <2>2 DEF Bootable
    <2>5. Precedes(record, new)
        BY <2>2, <2>4 DEF Precedes, Retained
    <2> QED
        BY <2>1, <2>3, <2>4, <2>5, DecisionKeeps
<1>5. CASE SelectCurrent
    <2>1. UNCHANGED <<record, recordOnDisk, images, lost, operation>>
        BY <1>5 DEF SelectCurrent, diskVars
    <2> QED
        BY <2>1 DEF KeepInv, DiskKept, WriterKept, CollectorKept, Precedes
<1>6. ASSUME Readable, record.pending # NoReceipt,
             record.boot_attempts >= ACTIVATION_MAX_BOOT_ATTEMPTS,
             NEW name, NEW boot, Write(name, FellBack(record), boot), name # "collect"
      PROVE  KeepInv'
    <2> DEFINE new == FellBack(record)
    <2>1. /\ record \in ActivationRecord /\ record # Missing
          /\ \A c \in Bootable(record) : Kept(c, images, lost)
          /\ record.fallback = record.current
        BY <1>6, ReadKept
    <2>2. /\ new.current = record.fallback /\ new.fallback = record.fallback
          /\ new.pending = NoReceipt
        BY <2>1 DEF ActivationRecord, FellBack
    <2>3. Write(name, new, boot)
        BY <1>6
    <2> HIDE DEF new
    <2>4. record.boot_attempts \in Nat
        BY <2>1, RecordFields
    <2>5. Bootable(new) = {record.current} /\ Bootable(record) = {record.current}
        BY <1>6, <2>1, <2>2, <2>4 DEF Bootable
    <2>6. Precedes(record, new)
        BY <2>1, <2>2, <2>5 DEF Precedes, Retained
    <2> QED
        BY <1>6, <2>1, <2>3, <2>5, <2>6, DecisionKeeps
<1>7. ASSUME Readable, NEW name, Write(name, Closed(record), NoReceipt), name # "collect"
      PROVE  KeepInv'
    <2> DEFINE new == Closed(record)
    <2>1. record \in ActivationRecord
        BY <1>7, ReadKept
    <2>2. /\ new.current = record.current /\ new.fallback = record.fallback
          /\ new.pending = record.pending /\ new.boot_attempts = record.boot_attempts
          /\ record.boot_attempts \in Nat
        BY <2>1 DEF ActivationRecord, Closed
    <2>3. Write(name, new, NoReceipt)
        BY <1>7
    <2> HIDE DEF new
    <2> QED
        BY <1>2, <1>7, <2>2, <2>3
<1>8. CASE SelectPending
    <2>1. Readable /\ record.pending # NoReceipt
        BY <1>8 DEF SelectPending
    <2>2. CASE FallBack
        BY <1>6, <2>1, <2>2 DEF FallBack
    <2>3. CASE CountAttempt
        <3> DEFINE new == Attempted(record)
                   boot == [receipt |-> record.pending, serial |-> new.boot_serial, pending |-> TRUE]
        <3>1. record \in ActivationRecord
            BY <2>1, ReadKept
        <3>2. /\ new.current = record.current /\ new.fallback = record.fallback
              /\ new.pending = record.pending /\ new.boot_attempts = record.boot_attempts + 1
              /\ record.boot_attempts \in Nat
            BY <3>1 DEF ActivationRecord, Attempted
        <3>3. Write("select", new, boot)
            BY <2>3 DEF CountAttempt
        <3> HIDE DEF new, boot
        <3>4. new.boot_attempts >= record.boot_attempts /\ new.boot_attempts \in Nat
            BY <3>2
        <3> QED
            BY <1>2, <2>1, <3>2, <3>3, <3>4
    <2> QED
        BY <1>8, <2>2, <2>3 DEF SelectPending
<1>9. CASE SelectRefused
    BY <1>7, <1>9 DEF SelectRefused
<1>10. ASSUME Readable, record.pending # NoReceipt, Confirm
       PROVE  KeepInv'
    <2> DEFINE new == Confirmed(record)
    <2>1. /\ record \in ActivationRecord /\ record # Missing
          /\ \A c \in Bootable(record) : Kept(c, images, lost)
          /\ record.fallback = record.current
        BY <1>10, ReadKept
    <2>2. /\ new.current = record.pending /\ new.fallback = record.current
          /\ new.pending = NoReceipt
        BY <2>1 DEF ActivationRecord, Confirmed
    <2>3. Write("confirm", new, NoReceipt) /\ Kept(record.pending, images, lost)
        BY <1>10, AdmittedKept DEF Confirm
    <2> HIDE DEF new
    <2>4. /\ Bootable(new) = {record.pending}
          /\ Bootable(record) \subseteq {record.current, record.pending}
        BY <2>1, <2>2 DEF Bootable
    <2>5. Precedes(record, new)
        BY <2>2, <2>4 DEF Precedes, Retained
    <2> QED
        BY <2>1, <2>3, <2>4, <2>5, DecisionKeeps
<1>11. ASSUME NEW id \in Ids, activation_confirm_health(id)
       PROVE  KeepInv'
    BY <1>10, <1>11 DEF activation_confirm_health
<1>12. ASSUME NEW g \in guests, activation_confirm_guest_health(g)
       PROVE  KeepInv'
    BY <1>10, <1>12 DEF activation_confirm_guest_health
<1>13. CASE activation_boot_failed
    <2>1. Readable /\ record.pending # NoReceipt
        BY <1>13 DEF activation_boot_failed
    <2>2. \/ /\ record.boot_attempts >= ACTIVATION_MAX_BOOT_ATTEMPTS
             /\ Write("boot_failed", FellBack(record), NoReceipt)
          \/ Write("boot_failed", Closed(record), NoReceipt)
        BY <1>13 DEF activation_boot_failed
    <2> QED
        BY <1>6, <1>7, <2>1, <2>2
<1>14. CASE activation_collect_images
    <2>1. /\ UNCHANGED <<record, recordOnDisk, images, lost>>
          /\ operation' = [name |-> "collect",
                           removing |-> {i \in Ids : images[i] # Missing} \ Retained(record)]
          /\ record # Missing
        BY <1>14 DEF activation_collect_images, diskVars, historyVars, Readable
    <2>2. operation'.name = "collect" /\ operation'.removing \cap Retained(record) = {}
        BY <2>1
    <2>3. DiskKept'
        BY <2>1 DEF KeepInv, DiskKept, Precedes
    <2> QED
        BY <2>1, <2>2, <2>3 DEF KeepInv, WriterKept, CollectorKept
<1> QED
    BY <1>1, <1>3, <1>4, <1>5, <1>8, <1>9, <1>11, <1>12, <1>13, <1>14 DEF Operate

\* A step that changes no record and no bundle but for its bytes, or costs its id.
LEMMA GentleStep ==
    ASSUME SafetyInv, KeepInv, UNCHANGED <<record, recordOnDisk>>, lost \subseteq lost',
           \A i \in Ids : images[i] # Missing =>
              i \in lost' \/ (images'[i] # Missing /\ images'[i].admission = images[i].admission),
           operation' = NoOperation \/ operation' = operation
    PROVE  KeepInv'
<1>0. TypeOK /\ DiskKept /\ WriterKept /\ CollectorKept
    BY DEF SafetyInv, KeepInv
<1>1. \A c \in GenerationReceipt : Kept(c, images, lost) => Kept(c, images', lost')
    BY KeptStep
<1>2. ASSUME NEW r \in recordOnDisk \ {Missing} PROVE Bootable(r) \subseteq GenerationReceipt
    BY <1>0, RecordFields DEF TypeOK
<1>3. DiskKept'
    <2>1. \A r \in recordOnDisk \ {Missing} : \A c \in Bootable(r) : Kept(c, images', lost')
        BY <1>0, <1>1, <1>2 DEF DiskKept
    <2> QED
        BY <1>0, <2>1 DEF DiskKept, Precedes
<1>4. WriterKept'
    <2> SUFFICES ASSUME operation # NoOperation, operation.name # "collect", operation.pc # "fsync",
                        operation' = operation
                 PROVE  /\ \A c \in Bootable(operation.new) : Kept(c, images', lost')
                        /\ record # Missing => Precedes(record, operation.new)
        BY DEF WriterKept
    <2>1. operation \in Writer
        BY <1>0 DEF TypeOK, Collector
    <2>2. operation.new \in ActivationRecord
        BY <2>1 DEF Writer
    <2>3. Bootable(operation.new) \subseteq GenerationReceipt
        BY <2>2, RecordFields
    <2> QED
        BY <1>0, <1>1, <2>3 DEF WriterKept
<1>5. CollectorKept'
    BY <1>0 DEF CollectorKept
<1> QED
    BY <1>3, <1>4, <1>5 DEF KeepInv

LEMMA ProceedKeeps ==
    ASSUME SafetyInv, KeepInv, Proceed
    PROVE  KeepInv'
<1> USE ActivationAssumptions
<1>0. TypeOK /\ DiskKept /\ WriterKept /\ CollectorKept /\ DiskInv /\ WriterInv
    BY DEF SafetyInv, KeepInv
<1>1. ASSUME NEW id \in Ids, CollectRemove(id)
      PROVE  KeepInv'
    <2>1. operation \in Collector
        BY <1>0, <1>1, OperationKinds DEF CollectRemove
    <2>2. /\ operation'.name = "collect" /\ operation'.removing \subseteq operation.removing
          /\ UNCHANGED <<record, recordOnDisk>>
        BY <1>1, <2>1 DEF CollectRemove, Collector
    <2>3. record # Missing /\ id \notin Retained(record)
        BY <1>0, <1>1 DEF CollectorKept, CollectRemove
    <2>4. \A i \in Ids \ {id} : images'[i] = images[i]
        BY <1>0, <1>1 DEF CollectRemove, SetImage, TypeOK
    <2>5. lost' = IF Cardinality(recordOnDisk) > 2 THEN lost \cup {id} ELSE lost
        BY <1>1 DEF CollectRemove
    <2>6. DiskKept'
        <3>1. ASSUME NEW r \in recordOnDisk \ {Missing}, NEW c \in Bootable(r) PROVE Kept(c, images', lost')
            <4>1. Kept(c, images, lost) /\ (Precedes(r, record) \/ Cardinality(recordOnDisk) > 2)
                BY <1>0 DEF DiskKept
            <4>2. c \in GenerationReceipt
                BY <1>0, RecordFields DEF TypeOK
            <4>3. c.id \in Ids
                BY <4>2 DEF GenerationReceipt
            <4>4. CASE c.id = id
                BY <2>3, <2>5, <4>1, <4>4 DEF Precedes, Kept
            <4>5. CASE c.id # id
                BY <2>4, <2>5, <4>1, <4>3, <4>5 DEF Kept
            <4> QED
                BY <4>4, <4>5
        <3> QED
            BY <1>0, <2>2, <3>1 DEF DiskKept, Precedes
    <2>7. CollectorKept'
        BY <1>0, <1>1, <2>2 DEF CollectorKept, CollectRemove
    <2> QED
        BY <2>2, <2>6, <2>7 DEF KeepInv, WriterKept
<1>2. CASE CollectFsync
    <2>1. /\ UNCHANGED <<record, recordOnDisk, images, lost>> /\ operation' = NoOperation
        BY <1>2 DEF CollectFsync, SyncImages, historyVars
    <2> QED
        BY <2>1, GentleStep
<1>3. ASSUME NEW pc \in {"fill", "rename", "fsync"}, operation \in Writer,
             Advance(pc)
      PROVE  /\ operation'.pc = pc
             /\ operation'.new = operation.new
             /\ operation'.name = operation.name
    BY <1>3 DEF Advance, Writer
<1>4. CASE WriteCreate \/ WriteFill
    <2>1. PICK pc \in {"fill", "rename"} : Advance(pc)
        BY <1>4 DEF WriteCreate, WriteFill
    <2>2. /\ UNCHANGED <<record, recordOnDisk, images, lost>>
          /\ operation # NoOperation /\ operation.name # "collect" /\ operation.pc # "fsync"
        BY <1>4 DEF WriteCreate, WriteFill, historyVars, Writing
    <2>3. operation \in Writer
        BY <1>0, <1>4, OperationKinds DEF WriteCreate, WriteFill
    <2>4. operation'.new = operation.new /\ operation'.name = operation.name
        BY <1>3, <2>1, <2>3
    <2>5. DiskKept'
        BY <1>0, <2>2 DEF DiskKept, Precedes
    <2>6. WriterKept'
        BY <1>0, <2>2, <2>4 DEF WriterKept, Precedes
    <2>7. CollectorKept'
        BY <2>2, <2>4 DEF CollectorKept
    <2> QED
        BY <2>5, <2>6, <2>7 DEF KeepInv
<1>5. CASE WriteRename
    <2> DEFINE new == operation.new
    <2>1. /\ operation \in Writer /\ new \in ActivationRecord /\ new # Missing
          /\ operation # NoOperation /\ operation.name # "collect" /\ operation.pc = "rename"
          /\ sibling = new
        BY <1>0, <1>5, OperationKinds DEF WriteRename, Writing, Writer, WriterInv
    <2>2. /\ record' = new /\ recordOnDisk' = recordOnDisk \cup {new}
          /\ UNCHANGED <<images, lost>> /\ Advance("fsync")
        BY <1>5, <2>1 DEF WriteRename, historyVars
    <2>3. operation'.pc = "fsync" /\ operation'.name = operation.name
        BY <1>3, <2>1, <2>2
    <2>4. /\ \A c \in Bootable(new) : Kept(c, images, lost)
          /\ record # Missing => Precedes(record, new)
        BY <1>0, <2>1 DEF WriterKept
    <2> HIDE DEF new
    <2>5. record \in recordOnDisk
        BY <1>0 DEF DiskInv
    <2>6. IsFiniteSet(recordOnDisk')
        BY <1>0, <2>2, FS_AddElement DEF DiskKept
    <2>7. Precedes(new, new)
        BY DEF Precedes, Bootable, Retained
    <2>8. ASSUME NEW r \in recordOnDisk' \ {Missing}
          PROVE  Precedes(r, new) \/ Cardinality(recordOnDisk') > 2
        <3>1. CASE r = new
            BY <2>7, <3>1
        <3>2. CASE r = record
            BY <2>4, <2>8, <3>2
        <3>3. CASE r # new /\ r # record /\ new # record
            BY <2>2, <2>5, <2>6, <2>8, <3>3, ThreeRecords
        <3>4. CASE r # new /\ r # record /\ new = record
            <4>1. recordOnDisk' = recordOnDisk
                BY <2>2, <2>5, <3>4
            <4> QED
                BY <1>0, <2>8, <3>4, <4>1 DEF DiskKept
        <3> QED
            BY <3>1, <3>2, <3>3, <3>4
    <2>9. \A r \in recordOnDisk' \ {Missing} : \A c \in Bootable(r) : Kept(c, images, lost)
        BY <1>0, <2>2, <2>4 DEF DiskKept
    <2>10. DiskKept'
        <3>1. \A r \in recordOnDisk' \ {Missing} :
                 (\A c \in Bootable(r) : Kept(c, images, lost))
                    /\ (Precedes(r, new) \/ Cardinality(recordOnDisk') > 2)
            BY <2>8, <2>9
        <3> QED
            BY <2>1, <2>2, <2>6, <3>1 DEF DiskKept, Precedes
    <2> QED
        BY <2>1, <2>3, <2>10 DEF KeepInv, WriterKept, CollectorKept
<1>6. CASE WriteFsync
    <2>1. /\ UNCHANGED <<record, images, lost>> /\ recordOnDisk' = {record} /\ operation' = NoOperation
        BY <1>6 DEF WriteFsync, SyncRecord
    <2>2. record \in recordOnDisk
        BY <1>0 DEF DiskInv
    <2>3. Precedes(record, record)
        BY DEF Precedes, Bootable, Retained
    <2>4. IsFiniteSet(recordOnDisk')
        BY <2>1, FS_Singleton
    <2>5. DiskKept'
        BY <1>0, <2>1, <2>2, <2>3, <2>4 DEF DiskKept, Precedes
    <2> QED
        BY <2>1, <2>5 DEF KeepInv, WriterKept, CollectorKept
<1> QED
    BY <1>1, <1>2, <1>4, <1>5, <1>6 DEF Proceed

LEMMA SpoiledBundle ==
    ASSUME NEW b \in Bundle
    PROVE  Spoiled(b) # Missing /\ Spoiled(b).admission = b.admission
BY ActivationAssumptions DEF Spoiled, Bundle

LEMMA OthersKeep ==
    ASSUME SafetyInv, KeepInv, Publish \/ Fail \/ UNCHANGED vars
    PROVE  KeepInv'
<1> USE ActivationAssumptions
<1>0. TypeOK /\ DiskKept
    BY DEF SafetyInv, KeepInv
<1>1. ASSUME NEW a \in ImageAdmission, PublishRename(a)
      PROVE  KeepInv'
    <2>1. /\ UNCHANGED <<record, recordOnDisk, lost, operation>>
          /\ images[a.generation.id] = Missing
        BY <1>1 DEF PublishRename, historyVars
    <2>2. a.generation.id \in Ids
        BY DEF ImageAdmission, GenerationReceipt
    <2>3. \A i \in Ids \ {a.generation.id} : images'[i] = images[i]
        BY <1>0, <1>1, <2>2 DEF PublishRename, SetImage, TypeOK
    <2> QED
        BY <2>1, <2>3, GentleStep
<1>2. ASSUME NEW a \in ImageAdmission, PublishFsync(a) \/ PublisherDies(a)
      PROVE  KeepInv'
    <2>1. UNCHANGED <<record, recordOnDisk, lost, operation, images>>
        BY <1>2 DEF PublishFsync, PublisherDies, SyncImages, historyVars, diskVars
    <2> QED
        BY <2>1, GentleStep
<1>3. CASE Kill
    <2>1. /\ UNCHANGED <<record, recordOnDisk, lost>> /\ operation' = NoOperation
          /\ images' = images \/ \E id \in Ids : images[id] # Missing /\ SetImage(id, Spoiled(images[id]))
        BY <1>0, <1>3, OperationKinds DEF Kill, Collector
    <2>2. CASE images' = images
        BY <2>1, <2>2, GentleStep
    <2>3. ASSUME NEW id \in Ids, images[id] # Missing, SetImage(id, Spoiled(images[id]))
          PROVE  KeepInv'
        <3>1. images[id] \in Bundle
            BY <1>0, <2>3 DEF TypeOK
        <3>2. Spoiled(images[id]) # Missing /\ Spoiled(images[id]).admission = images[id].admission
            BY <3>1, SpoiledBundle
        <3>3. images'[id] = Spoiled(images[id]) /\ \A i \in Ids \ {id} : images'[i] = images[i]
            BY <1>0, <2>3 DEF SetImage, TypeOK
        <3> QED
            BY <2>1, <3>2, <3>3, GentleStep
    <2> QED
        BY <2>1, <2>2, <2>3
<1>4. CASE WriteFails
    <2>1. UNCHANGED <<record, recordOnDisk, lost, images>> /\ operation' = NoOperation
        BY <1>4 DEF WriteFails
    <2> QED
        BY <2>1, GentleStep
<1>5. ASSUME NEW id \in Ids, Damage(id)
      PROVE  KeepInv'
    <2>1. /\ UNCHANGED <<record, recordOnDisk, lost, operation>> /\ images[id] # Missing
          /\ images' = [images EXCEPT ![id] = Spoiled(images[id])]
        BY <1>5 DEF Damage
    <2>2. images[id] \in Bundle
        BY <1>0, <2>1 DEF TypeOK
    <2>3. Spoiled(images[id]) # Missing /\ Spoiled(images[id]).admission = images[id].admission
        BY <2>2, SpoiledBundle
    <2>4. images'[id] = Spoiled(images[id]) /\ \A i \in Ids \ {id} : images'[i] = images[i]
        BY <1>0, <2>1 DEF TypeOK
    <2> QED
        BY <2>1, <2>3, <2>4, GentleStep
<1>6. CASE PowerCut
    <2>1. /\ record' \in recordOnDisk /\ recordOnDisk' = {record'} /\ operation' = NoOperation
          /\ lost' = lost \cup {i \in Ids : images[i] # Missing /\ images'[i] # images[i]}
        BY <1>6 DEF PowerCut
    <2>2. \A c \in GenerationReceipt : Kept(c, images, lost) => Kept(c, images', lost')
        BY <2>1, KeptStep
    <2>3. record' # Missing => \A c \in Bootable(record') : Kept(c, images', lost')
        <3> SUFFICES ASSUME record' # Missing, NEW c \in Bootable(record') PROVE Kept(c, images', lost')
            OBVIOUS
        <3>1. record' \in ActivationRecord /\ Kept(c, images, lost)
            BY <1>0, <2>1 DEF TypeOK, DiskKept
        <3> QED
            BY <2>2, <3>1, RecordFields
    <2>4. IsFiniteSet(recordOnDisk')
        BY <2>1, FS_Singleton
    <2>5. Precedes(record', record')
        BY DEF Precedes, Bootable, Retained
    <2>6. DiskKept'
        BY <2>1, <2>3, <2>4, <2>5 DEF DiskKept, Precedes
    <2> QED
        BY <2>1, <2>6 DEF KeepInv, WriterKept, CollectorKept
<1>7. CASE UNCHANGED vars
    <2>1. UNCHANGED <<record, recordOnDisk, lost, operation, images>>
        BY <1>7 DEF vars
    <2> QED
        BY <2>1, GentleStep
<1> QED
    BY <1>1, <1>2, <1>3, <1>4, <1>5, <1>6, <1>7 DEF Publish, Fail

\* activation_collect_images removes nothing that the record it read, or the
\* one a power cut would bring back, may make the launcher boot: what it
\* retains covers what every replacement of the record leaves behind.
THEOREM BootableImagesAreKept == Spec => []BootableImagesKept
<1>1. Init => KeepInv
    <2> SUFFICES ASSUME Init PROVE KeepInv
        OBVIOUS
    <2>1. recordOnDisk = {Missing} /\ operation = NoOperation /\ IsFiniteSet(recordOnDisk)
        BY FS_Singleton DEF Init
    <2> QED
        BY <2>1 DEF KeepInv, DiskKept, WriterKept, CollectorKept
<1>2. SafetyInv /\ KeepInv /\ [Next]_vars => KeepInv'
    BY OperateKeeps, ProceedKeeps, OthersKeep DEF Next
<1>3. SafetyInv /\ KeepInv => BootableImagesKept
    <2> SUFFICES ASSUME SafetyInv, KeepInv, NEW r \in Records, NEW c \in Bootable(r), c.id \notin lost
                 PROVE  images[c.id] # Missing /\ images[c.id].admission.generation = c
        BY DEF BootableImagesKept
    <2>1. r \in recordOnDisk \ {Missing}
        BY DEF Records, SafetyInv, DiskInv
    <2> QED
        BY <2>1 DEF KeepInv, DiskKept, Kept
<1> QED
    BY <1>1, <1>2, <1>3, SafetyInvariant, PTL DEF Spec


-----------------------------------------------------------------------------
(* The trust store: what an update has left to do. *)

\* trust_activate_release after its first steps,
Act1 == <<"commit", "committed", "flip", "activated", "accept", "floor", "persisted", "remove", "clear">>
Act2 == <<"committed", "flip", "activated", "accept", "floor", "persisted", "remove", "clear">>
Act3 == <<"flip", "activated", "accept", "floor", "persisted", "remove", "clear">>
Act4 == <<"activated", "accept", "floor", "persisted", "remove", "clear">>
Act5 == <<"accept", "floor", "persisted", "remove", "clear">>
Act6 == <<"floor", "persisted", "remove", "clear">>
Act7 == <<"persisted", "remove", "clear">>
\* recoveries that go on from a generation directory,
Adopt0 == <<"flip", "accept", "floor", "clear">>
Adopt1 == <<"accept", "floor", "clear">>
Adopt2 == <<"floor", "clear">>
Resume0 == <<"flip", "accept", "floor", "remove", "clear">>
Resume1 == <<"accept", "floor", "remove", "clear">>
Resume2 == <<"floor", "remove", "clear">>
Tidy == <<"remove", "accept", "floor", "clear">>
Redo == <<"commit">>
\* the end of all of these,
Drop0 == <<"remove", "clear">>
Drop1 == <<"clear">>
\* seeds and repairs,
Seed0 == <<"mkdir", "files", "owner", "accept", "flip">>
Seed1 == <<"files", "owner", "accept", "flip">>
Seed2 == <<"owner", "accept", "flip">>
Seed3 == <<"accept", "flip">>
Point == <<"flip">>
\* and what is recorded again.
Record0 == <<"accept", "floor">>
Record1 == <<"floor">>

-----------------------------------------------------------------------------
(* The trust store, the invariant: types. *)

Journals ==
  {Clean} \cup [phase : {"staged", "committed"}, gen : Gens, slot : Slots]
          \cup [phase : {"activated", "persisted"}, gen : Gens, slot : {0}]
Dirs == [kind : Kinds, issued : Nat, expires : Nat]
Stores ==
  [journal : Journals, active : Gens \cup {0}, accepted : Gens \cup {0}, floor : Nat,
   gen : [Gens -> Dirs], stg : [Slots -> Releases \cup {NoRelease}]]
Pcs == {"idle", "recover", "pointer", "reconcile", "apply", "done", "failed"}
Runs ==
  [pc : Pcs, rel : Releases \cup {NoRelease}, now : Time, gen : Gens \cup {0}, slot : Slots \cup {0},
   todo : Seq(Ops)]

Typed ==
  /\ mem \in Stores /\ disk \in Stores /\ run \in Runs
  /\ sync \subseteq {"store", "generations", "staging"}
  /\ clock \in Time /\ crashes \in 0 .. world.crashes /\ done \in Gens \cup {0}
  /\ run.pc = "idle" => run = Idle
  /\ run.pc # "idle" => run.rel \in Releases

-----------------------------------------------------------------------------
(* What the store may hold: journal j, pointer a, record c, floor f, the two *)
(* trees, and at least the generation d that was reported.                   *)

\* Pointer, record and floor agree.
Steady(a, c, f, gen) == a \in Gens /\ c = a /\ f >= gen[a].issued

\* The seeds are not yet written, recorded and pointed to.
Unseeded(j, a, c, gen) ==
  /\ j = Clean /\ a = 0 /\ c \in {0, SeedGen}
  /\ \A h \in Gens \ {SeedGen} : gen[h].kind = "none"
  /\ c = SeedGen => gen[SeedGen].kind \in {"files", "seed"}

\* An activation that is to be completed has reached the pointer.
Held(j, g, stg) == j # Clean /\ j.gen = g /\ (j.phase = "staged" => stg[j.slot] = NoRelease)
Pending(j, a, c, gen, stg) == c <= a /\ gen[a].kind = "release" /\ Held(j, a, stg)

\* Seeds in the seed's directory only, and with no time of issue.
Sorted(gen) ==
  \A h \in Gens :
    /\ gen[h].kind = "release" \/ gen[h].issued = 0
    /\ IF h = SeedGen THEN gen[h].kind # "release" ELSE gen[h].kind \in {"none", "release"}

Whole(gen, a) == a \in Gens /\ gen[a].kind \in {"files", "seed", "release"}

Good(j, a, c, f, gen, stg, d) ==
  /\ Sorted(gen)
  /\ \/ Unseeded(j, a, c, gen)
     \/ Whole(gen, a) /\ (Steady(a, c, f, gen) \/ Pending(j, a, c, gen, stg))
  /\ a >= d /\ c >= d

GoodStore == Good(mem.journal, mem.active, mem.accepted, mem.floor, mem.gen, mem.stg, done)

\* What power failures may make of it.
GoodMixes ==
  \A j \in {mem.journal, disk.journal}, a \in {mem.active, disk.active}, c \in {mem.accepted, disk.accepted},
     f \in {mem.floor, disk.floor}, t \in {mem, disk} : Good(j, a, c, f, t.gen, t.stg, done)

\* What is not about to be synced has been; a staging directory that has been
\* synced is still there.
SameEntries ==
  /\ disk.journal = mem.journal /\ disk.active = mem.active
  /\ disk.accepted = mem.accepted /\ disk.floor = mem.floor
WritingSeeds == run.pc = "reconcile" /\ run.todo \in {Seed1, Seed2}
Synced ==
  /\ "store" \notin sync => SameEntries
  /\ "generations" \notin sync /\ ~WritingSeeds => disk.gen = mem.gen
  /\ "staging" \notin sync => \A s \in Slots : disk.stg[s] # NoRelease => mem.stg[s] # NoRelease

StoreInv == OneKind => GoodStore /\ ("kill" \notin world.faults => GoodMixes /\ Synced)

-----------------------------------------------------------------------------
(* How far the store is, by what the update has left to do. *)

\* What is flipped to is the seed, what was accepted, what is active, or fresh.
Authorized ==
  \/ run.gen \in {SeedGen, mem.accepted} \/ run.gen = mem.active
  \/ Fresh(mem.gen[run.gen], run.now)

Steadied == Steady(mem.active, mem.accepted, mem.floor, mem.gen)
Fetched == mem.gen[run.gen].kind = "release"
Holds == Held(mem.journal, run.gen, mem.stg)
Flippable == Fetched /\ Holds /\ mem.active <= run.gen /\ mem.accepted <= run.gen
Flipped == Fetched /\ Holds /\ mem.active = run.gen /\ mem.accepted <= run.gen
Recorded == Fetched /\ Holds /\ mem.active = run.gen /\ mem.accepted = run.gen
Bare == mem.journal = Clean /\ mem.active = 0
Entry(phase) == [phase |-> phase, gen |-> run.gen, slot |-> run.slot]
StagedHere == run.slot \in Slots /\ mem.stg[run.slot] = run.rel /\ run.rel.gen = run.gen /\ Fresh(run.rel, run.now)

Stage(p, t) == run.pc = p /\ run.todo = t
Ahead == run.gen \in Gens /\ (OneKind => Steadied /\ mem.active < run.gen)
Behind == run.gen \in Gens /\ (OneKind => Steadied /\ mem.active = run.gen)

Stages ==
  \/ Stage("idle", <<>>) \/ Stage("recover", <<>>)
  \/ Stage("recover", Redo) /\ Ahead /\ run.slot \in Slots /\ (OneKind => mem.journal = Entry("committed"))
  \/ /\ Stage("pointer", Adopt0) \/ Stage("pointer", Resume0)
     /\ run.gen \in Gens /\ Authorized /\ (OneKind => Flippable)
  \/ /\ Stage("pointer", Adopt1) \/ Stage("pointer", Resume1) \/ Stage("pointer", Tidy)
     /\ run.gen \in Gens /\ (OneKind => Flipped)
  \/ (Stage("pointer", Adopt2) \/ Stage("pointer", Resume2)) /\ run.gen \in Gens /\ (OneKind => Recorded)
  \/ (Stage("pointer", Drop0) \/ Stage("pointer", Drop1) \/ Stage("failed", Drop1)) /\ (OneKind => Steadied)
  \/ (Stage("pointer", <<>>) \/ Stage("failed", <<>>)) /\ (OneKind => mem.journal = Clean)
  \/ /\ Stage("reconcile", Seed0) \/ Stage("reconcile", Seed1) \/ Stage("reconcile", Seed2)
     /\ sync = {} /\ run.gen = SeedGen /\ (OneKind => Bare /\ mem.accepted = 0)
  \/ /\ Stage("reconcile", Seed3)
     /\ run.gen = SeedGen /\ (OneKind => Bare /\ Whole(mem.gen, SeedGen) /\ mem.accepted \in {0, SeedGen})
  \/ /\ Stage("reconcile", Point) /\ run.gen \in Gens /\ Authorized
     /\ OneKind => Bare /\ run.gen = SeedGen /\ Whole(mem.gen, SeedGen) /\ mem.accepted = SeedGen
  \/ /\ Stage("reconcile", <<>>) \/ Stage("apply", <<>>)
     /\ OneKind => mem.journal = Clean /\ Steadied
  \/ (Stage("apply", Record0) \/ Stage("apply", Record1)) /\ run.gen \in Gens /\ ~OneKind
  \/ Stage("done", Activation) /\ Ahead /\ StagedHere /\ (OneKind => mem.journal = Clean)
  \/ Stage("done", Act1) /\ Ahead /\ StagedHere /\ (OneKind => mem.journal = Entry("staged"))
  \/ Stage("done", Act2) /\ Ahead /\ run.slot \in Slots /\ Authorized /\ (OneKind => Fetched /\ mem.journal = Entry("staged"))
  \/ Stage("done", Act3) /\ Ahead /\ Authorized /\ (OneKind => Fetched /\ mem.journal = Entry("committed"))
  \/ Stage("done", Act4) /\ run.gen \in Gens /\ (OneKind => Flipped /\ mem.journal = Entry("committed"))
  \/ Stage("done", Act5) /\ run.gen \in Gens /\ (OneKind => Flipped /\ mem.journal.phase = "activated")
  \/ Stage("done", Act6) /\ run.gen \in Gens /\ (OneKind => Recorded /\ mem.journal.phase = "activated")
  \/ Stage("done", Act7) /\ Behind /\ (OneKind => Fetched /\ mem.journal.phase = "activated" /\ mem.journal.gen = run.gen)
  \/ /\ Stage("done", Drop0) \/ Stage("done", Drop1)
     /\ Behind /\ (OneKind => Fetched /\ mem.journal.phase = "persisted" /\ mem.journal.gen = run.gen)
  \/ (Stage("done", Record0) \/ Stage("done", Record1) \/ Stage("done", <<>>)) /\ Behind /\ (OneKind => mem.journal = Clean)

-----------------------------------------------------------------------------
(* After one kill at most, of an installed store. *)

\* The journal is one that recovery acts on.
Actionable ==
  LET j == mem.journal
  IN j # Clean =>
       /\ mem.accepted <= j.gen /\ mem.active <= j.gen
       /\ mem.gen[j.gen].kind = "release" \/ (j.phase = "staged" /\ mem.stg[j.slot] # NoRelease)
       /\ j.phase = "committed" => mem.stg[j.slot] = NoRelease
       /\ j.phase \in {"activated", "persisted"} => mem.active = j.gen

\* Before any kill, generations are those up to the active one and the one that
\* is being activated, which has been moved out of its staging directory.
Moved == run.pc = "done" /\ run.todo \in {Act2, Act3}
Uninterrupted ==
  /\ run.pc # "done" => mem.journal = Clean
  /\ \A h \in Gens : h > mem.active /\ mem.gen[h].kind # "none" => Moved /\ h = run.gen
  /\ Moved => mem.stg[run.slot] = NoRelease

RecoverInv ==
  world.installed /\ "power" \notin world.faults =>
    /\ mem.active # 0
    /\ crashes = 0 => Uninterrupted
    /\ crashes = 0 \/ (crashes = 1 /\ run.pc \in {"idle", "recover"}) => Actionable

TrustInv == Typed /\ StoreInv /\ Stages /\ RecoverInv

-----------------------------------------------------------------------------
(* Facts about the constants. *)

LEMMA Numbers == Gens \subseteq Nat \ {0} /\ SeedGen \in Gens /\ 0 \notin Gens /\ Slots \subseteq Nat \ {0}
  BY TrustAssumption DEF Gens, SeedGen

LEMMA Released == \A r \in Releases : r # NoRelease /\ r.gen \in Gens /\ r.issued \in Nat /\ r.expires \in Nat
<1> TAKE r \in Releases
<1>1. r \in [gen : Nat \ {0}, issued : Nat \ {0}, expires : Nat]
  BY TrustAssumption
<1> QED  BY <1>1 DEF NoRelease, Gens

LEMMA Lists ==
  /\ Activation # <<>> /\ Act1 # <<>> /\ Act2 # <<>> /\ Act3 # <<>> /\ Act4 # <<>> /\ Act5 # <<>>
  /\ Act6 # <<>> /\ Act7 # <<>> /\ Adopt0 # <<>> /\ Adopt1 # <<>> /\ Adopt2 # <<>> /\ Resume0 # <<>>
  /\ Resume1 # <<>> /\ Resume2 # <<>> /\ Tidy # <<>> /\ Redo # <<>> /\ Drop0 # <<>> /\ Drop1 # <<>>
  /\ Seed0 # <<>> /\ Seed1 # <<>> /\ Seed2 # <<>> /\ Seed3 # <<>> /\ Point # <<>>
  /\ Record0 # <<>> /\ Record1 # <<>>
  BY DEF Activation, Act1, Act2, Act3, Act4, Act5, Act6, Act7, Adopt0, Adopt1, Adopt2, Resume0, Resume1,
         Resume2, Tidy, Redo, Drop0, Drop1, Seed0, Seed1, Seed2, Seed3, Point, Record0, Record1

LEMMA Heads ==
  /\ Head(Activation) = "staged" /\ Head(Act1) = "commit" /\ Head(Act2) = "committed"
  /\ Head(Act3) = "flip" /\ Head(Act4) = "activated" /\ Head(Act5) = "accept"
  /\ Head(Act6) = "floor" /\ Head(Act7) = "persisted"
  /\ Head(Adopt0) = "flip" /\ Head(Adopt1) = "accept" /\ Head(Adopt2) = "floor"
  /\ Head(Resume0) = "flip" /\ Head(Resume1) = "accept" /\ Head(Resume2) = "floor"
  /\ Head(Tidy) = "remove" /\ Head(Redo) = "commit" /\ Head(Drop0) = "remove" /\ Head(Drop1) = "clear"
  /\ Head(Seed0) = "mkdir" /\ Head(Seed1) = "files" /\ Head(Seed2) = "owner" /\ Head(Seed3) = "accept"
  /\ Head(Point) = "flip" /\ Head(Record0) = "accept" /\ Head(Record1) = "floor"
  BY DEF Activation, Act1, Act2, Act3, Act4, Act5, Act6, Act7, Adopt0, Adopt1, Adopt2, Resume0, Resume1,
         Resume2, Tidy, Redo, Drop0, Drop1, Seed0, Seed1, Seed2, Seed3, Point, Record0, Record1

LEMMA Tails ==
  /\ Tail(Activation) = Act1 /\ Tail(Act1) = Act2 /\ Tail(Act2) = Act3 /\ Tail(Act3) = Act4
  /\ Tail(Act4) = Act5 /\ Tail(Act5) = Act6 /\ Tail(Act6) = Act7 /\ Tail(Act7) = Drop0
  /\ Tail(Adopt0) = Adopt1 /\ Tail(Adopt1) = Adopt2 /\ Tail(Adopt2) = Drop1
  /\ Tail(Resume0) = Resume1 /\ Tail(Resume1) = Resume2 /\ Tail(Resume2) = Drop0
  /\ Tail(Tidy) = Adopt1 /\ Tail(Redo) = <<>> /\ Tail(Drop0) = Drop1 /\ Tail(Drop1) = <<>>
  /\ Tail(Seed0) = Seed1 /\ Tail(Seed1) = Seed2 /\ Tail(Seed2) = Seed3 /\ Tail(Seed3) = Point
  /\ Tail(Point) = <<>> /\ Tail(Record0) = Record1 /\ Tail(Record1) = <<>>
<1>1. /\ Tail(Activation) = Act1 /\ Tail(Act1) = Act2 /\ Tail(Act2) = Act3 /\ Tail(Act3) = Act4
  BY DEF Activation, Act1, Act2, Act3, Act4
<1>2. /\ Tail(Act4) = Act5 /\ Tail(Act5) = Act6 /\ Tail(Act6) = Act7 /\ Tail(Act7) = Drop0
  BY DEF Act4, Act5, Act6, Act7, Drop0
<1>3. /\ Tail(Adopt0) = Adopt1 /\ Tail(Adopt1) = Adopt2 /\ Tail(Adopt2) = Drop1
      /\ Tail(Resume0) = Resume1 /\ Tail(Resume1) = Resume2 /\ Tail(Resume2) = Drop0
  BY DEF Adopt0, Adopt1, Adopt2, Resume0, Resume1, Resume2, Drop0, Drop1
<1>4. /\ Tail(Tidy) = Adopt1 /\ Tail(Redo) = <<>> /\ Tail(Drop0) = Drop1 /\ Tail(Drop1) = <<>>
  BY DEF Tidy, Adopt1, Redo, Drop0, Drop1
<1>5. /\ Tail(Seed0) = Seed1 /\ Tail(Seed1) = Seed2 /\ Tail(Seed2) = Seed3 /\ Tail(Seed3) = Point
      /\ Tail(Point) = <<>> /\ Tail(Record0) = Record1 /\ Tail(Record1) = <<>>
  BY DEF Seed0, Seed1, Seed2, Seed3, Point, Record0, Record1
<1> QED  BY <1>1, <1>2, <1>3, <1>4, <1>5

LEMMA Listed ==
  {Activation, Act1, Act2, Act3, Act4, Act5, Act6, Act7, Adopt0, Adopt1, Adopt2, Resume0, Resume1, Resume2,
   Tidy, Redo, Drop0, Drop1, Seed0, Seed1, Seed2, Seed3, Point, Record0, Record1, <<>>} \subseteq Seq(Ops)
  BY DEF Activation, Act1, Act2, Act3, Act4, Act5, Act6, Act7, Adopt0, Adopt1, Adopt2, Resume0, Resume1,
         Resume2, Tidy, Redo, Drop0, Drop1, Seed0, Seed1, Seed2, Seed3, Point, Record0, Record1, Ops

-----------------------------------------------------------------------------
(* Stores. *)

\* A staging directory that is lost does no harm.
LEMMA Fewer ==
  ASSUME NEW j \in Journals, NEW a, NEW c, NEW f, NEW gen, NEW stg, NEW left, NEW d,
         Good(j, a, c, f, gen, stg, d), \A s \in Slots : left[s] # NoRelease => stg[s] # NoRelease
  PROVE  Good(j, a, c, f, gen, left, d)
<1>1. j.phase = "staged" => j.slot \in Slots
  BY DEF Journals, Clean
<1> QED  BY <1>1 DEF Good, Pending, Held

\* The entry of the store's directory that an operation has changed is on the
\* disk as it was or as it is.
LEMMA EntryWritten ==
  ASSUME Typed, Typed', StoreInv, UNCHANGED <<world, disk, done>>, sync = {}, sync' = {"store"}, ~WritingSeeds,
         mem'.gen = mem.gen, mem'.stg = mem.stg,
         \/ mem'.active = mem.active /\ mem'.accepted = mem.accepted /\ mem'.floor = mem.floor
         \/ mem'.journal = mem.journal /\ mem'.accepted = mem.accepted /\ mem'.floor = mem.floor
         \/ mem'.journal = mem.journal /\ mem'.active = mem.active /\ mem'.floor = mem.floor
         \/ mem'.journal = mem.journal /\ mem'.active = mem.active /\ mem'.accepted = mem.accepted,
         OneKind => GoodStore'
  PROVE  StoreInv'
<1> SUFFICES ASSUME OneKind, "kill" \notin world.faults PROVE GoodMixes' /\ Synced'
  BY DEF StoreInv, OneKind
<1>1. /\ GoodMixes /\ SameEntries /\ disk.gen = mem.gen
      /\ \A s \in Slots : disk.stg[s] # NoRelease => mem.stg[s] # NoRelease
  BY DEF StoreInv, Synced
<1>2. Synced'
  BY <1>1 DEF Synced
<1>3. ASSUME NEW j \in {mem'.journal, disk.journal}, NEW a \in {mem'.active, disk.active},
             NEW c \in {mem'.accepted, disk.accepted}, NEW f \in {mem'.floor, disk.floor}
      PROVE  Good(j, a, c, f, mem.gen, mem.stg, done)
  <2>1. CASE j = mem'.journal /\ a = mem'.active /\ c = mem'.accepted /\ f = mem'.floor
    BY <2>1 DEF GoodStore
  <2>2. CASE j = mem.journal /\ a = mem.active /\ c = mem.accepted /\ f = mem.floor
    BY <1>1, <2>2 DEF GoodMixes
  <2> QED  BY <1>1, <1>3, <2>1, <2>2 DEF SameEntries
<1>4. ASSUME NEW j \in {mem'.journal, disk.journal}, NEW a \in {mem'.active, disk.active},
             NEW c \in {mem'.accepted, disk.accepted}, NEW f \in {mem'.floor, disk.floor}
      PROVE  Good(j, a, c, f, disk.gen, disk.stg, done)
  <2>1. mem'.journal \in Journals /\ disk.journal \in Journals
    BY DEF Typed, Stores
  <2>2. j \in Journals
    BY <1>4, <2>1
  <2> QED  BY <1>1, <1>3, <1>4, <2>2, Fewer
<1> QED  BY <1>2, <1>3, <1>4 DEF GoodMixes

\* A tree that an operation has changed is on the disk as it was or as it is.
LEMMA TreeWritten ==
  ASSUME Typed, StoreInv, UNCHANGED <<world, disk, done>>, sync = {},
         mem'.journal = mem.journal, mem'.active = mem.active, mem'.accepted = mem.accepted,
         mem'.floor = mem.floor, OneKind => GoodStore' /\ ("kill" \notin world.faults => Synced')
  PROVE  StoreInv'
<1> SUFFICES ASSUME OneKind, "kill" \notin world.faults PROVE GoodMixes'
  BY DEF StoreInv, OneKind
<1>1. GoodMixes /\ SameEntries
  BY DEF StoreInv, Synced
<1> QED  BY <1>1 DEF GoodMixes, GoodStore, SameEntries

LEMMA FsyncKeeps ==
  ASSUME Typed, StoreInv, Fsync, UNCHANGED world, WritingSeeds => sync = {}
  PROVE  StoreInv'
<1> SUFFICES ASSUME OneKind PROVE StoreInv'
  BY DEF StoreInv, OneKind
<1>0. GoodStore /\ GoodStore'
  BY DEF StoreInv, Fsync, GoodStore
<1> SUFFICES ASSUME "kill" \notin world.faults PROVE GoodMixes' /\ Synced'
  BY <1>0 DEF StoreInv, OneKind
<1>1. GoodMixes /\ Synced /\ ~WritingSeeds
  BY DEF StoreInv, Fsync
<1>2. /\ disk'.journal = mem.journal /\ disk'.active = mem.active
      /\ disk'.accepted = mem.accepted /\ disk'.floor = mem.floor
  BY <1>1 DEF Fsync, Synced, SameEntries, Typed, Stores, Place
<1>3. /\ disk'.gen = mem.gen /\ disk'.stg \in {mem.stg, disk.stg}
      /\ "staging" \in sync => disk'.stg = mem.stg
  BY <1>1 DEF Fsync, Synced, Typed, Stores, Place
<1>4. \A s \in Slots : disk'.stg[s] # NoRelease => mem.stg[s] # NoRelease
  BY <1>1, <1>3 DEF Synced
<1>5. Good(mem.journal, mem.active, mem.accepted, mem.floor, mem.gen, disk'.stg, done)
  <2>1. mem.journal \in Journals
    BY DEF Typed, Stores
  <2> QED  BY <1>0, <1>4, <2>1, Fewer DEF GoodStore
<1>6. UNCHANGED <<mem, run, done>>
  BY DEF Fsync
<1>7. Synced'
  BY <1>2, <1>3, <1>4, <1>6 DEF Synced, SameEntries
<1>8. GoodMixes'
  BY <1>0, <1>2, <1>3, <1>5, <1>6 DEF GoodMixes, GoodStore
<1> QED  BY <1>7, <1>8

LEMMA Quantities ==
  ASSUME Typed
  PROVE  /\ mem.active \in Nat /\ mem.accepted \in Nat /\ mem.floor \in Nat /\ done \in Nat /\ run.gen \in Nat
         /\ mem.active \in Gens \cup {0} /\ mem.accepted \in Gens \cup {0} /\ mem.journal \in Journals
         /\ \A h \in Gens : h \in Nat /\ mem.gen[h].issued \in Nat /\ mem.gen[h].kind \in Kinds
<1>1. mem.active \in Gens \cup {0} /\ mem.accepted \in Gens \cup {0} /\ mem.journal \in Journals /\ mem.floor \in Nat
  BY DEF Typed, Stores
<1>2. run.gen \in Gens \cup {0} /\ done \in Gens \cup {0}
  BY DEF Typed, Runs
<1>3. mem.gen \in [Gens -> Dirs]
  BY DEF Typed, Stores
<1>4. \A h \in Gens : mem.gen[h] \in Dirs
  BY <1>3
<1>5. \A h \in Gens : mem.gen[h].issued \in Nat /\ mem.gen[h].kind \in Kinds
  BY <1>4 DEF Dirs
<1>6. Gens \cup {0} \subseteq Nat
  BY Numbers
<1> QED  BY <1>1, <1>2, <1>5, <1>6

-----------------------------------------------------------------------------
(* Operations. *)

\* What an operation does besides its change of the store.
LEMMA Performed ==
  ASSUME NEW op, NEW m \in Stores, NEW dirs \in SUBSET {"store", "generations", "staging"},
         Typed, Perform(op, m, dirs), UNCHANGED world
  PROVE  /\ Typed' /\ mem' = m /\ disk' = disk /\ sync = {} /\ sync' = dirs
         /\ crashes' = crashes /\ done' = done
         /\ run.todo # <<>> /\ Head(run.todo) = op /\ run'.todo = Tail(run.todo)
         /\ run'.pc = run.pc /\ run'.rel = run.rel /\ run'.now = run.now
         /\ run'.gen = run.gen /\ run'.slot = run.slot
<1>1. run \in Runs /\ run.todo \in Seq(Ops) /\ run.todo # <<>> /\ run' = [run EXCEPT !.todo = Tail(run.todo)]
  BY DEF Typed, Runs, Perform
<1>2. Tail(run.todo) \in Seq(Ops)
  BY <1>1
<1>3. run' \in Runs /\ run'.todo = Tail(run.todo) /\ run'.pc = run.pc /\ run'.rel = run.rel
      /\ run'.now = run.now /\ run'.gen = run.gen /\ run'.slot = run.slot
  BY <1>1, <1>2 DEF Runs
<1>4. run.pc # "idle"
  BY <1>1 DEF Typed, Idle
<1> QED  BY <1>1, <1>3, <1>4 DEF Perform, Typed

\* An update that ends leaves the store as it is.
KillsOnly == world.installed /\ "power" \notin world.faults

LEMMA IdleIs == Idle \in Runs /\ Idle.pc = "idle" /\ Idle.todo = <<>> /\ Idle.gen = 0
<1>1. 0 \in Time
  BY TrustAssumption DEF Time
<1> QED  BY <1>1, Listed DEF Idle, Runs, Pcs

LEMMA GivenUp ==
  ASSUME TrustInv, run' = Idle, UNCHANGED <<mem, disk, sync, clock, crashes, done, world>>, sync = {}, ~WritingSeeds,
         KillsOnly => (crashes = 0 => mem.journal = Clean /\ ~Moved) /\ (crashes = 1 => Actionable)
  PROVE  TrustInv'
<1>1. Typed'
  BY IdleIs DEF TrustInv, Typed
<1>2. Stages'
  BY IdleIs DEF Stages, Stage
<1>3. StoreInv'
  <2>1. GoodStore => GoodStore'
    BY DEF GoodStore
  <2>2. GoodMixes => GoodMixes'
    BY DEF GoodMixes
  <2>3. Synced => Synced'
    BY DEF Synced, SameEntries
  <2> QED  BY <2>1, <2>2, <2>3 DEF TrustInv, StoreInv, OneKind
<1>4. RecoverInv'
  BY IdleIs DEF TrustInv, RecoverInv, Uninterrupted, Actionable, KillsOnly, Moved
<1> QED  BY <1>1, <1>2, <1>3, <1>4 DEF TrustInv

LEMMA ClearStep ==
  ASSUME TrustInv, ClearJournal, UNCHANGED world
  PROVE  TrustInv'
<1> DEFINE m == [mem EXCEPT !.journal = Clean]
<1>1. /\ m \in Stores /\ m.journal = Clean /\ m.active = mem.active /\ m.accepted = mem.accepted
      /\ m.floor = mem.floor /\ m.gen = mem.gen /\ m.stg = mem.stg
  BY DEF TrustInv, Typed, Stores, Journals
<1>2. Perform("clear", m, {"store"})
  BY DEF ClearJournal
<1> HIDE DEF m
<1>3. /\ Typed' /\ mem' = m /\ disk' = disk /\ sync = {} /\ sync' = {"store"}
      /\ crashes' = crashes /\ done' = done
      /\ run.todo # <<>> /\ Head(run.todo) = "clear" /\ run'.todo = Tail(run.todo)
      /\ run'.pc = run.pc /\ run'.rel = run.rel /\ run'.now = run.now
      /\ run'.gen = run.gen /\ run'.slot = run.slot
  BY <1>1, <1>2, Performed DEF TrustInv
<1>4. run.todo = Drop1 /\ (OneKind => Steadied)
      /\ (run.pc \in {"pointer", "failed"} \/ (run.pc = "done" /\ Behind))
  BY <1>3, Lists, Heads DEF TrustInv, Stages, Stage, Behind
<1>5. run'.todo = <<>>
  BY <1>3, <1>4, Tails
<1>6. Stages'
  BY <1>1, <1>3, <1>4, <1>5 DEF Stages, Stage, Behind, Steadied, Steady, OneKind
<1>7. OneKind => GoodStore'
  BY <1>1, <1>3, <1>4 DEF TrustInv, StoreInv, GoodStore, Good, Steadied, Steady, Unseeded, Pending, Held
<1>8. StoreInv'
  <2>1. ~WritingSeeds
    BY <1>4 DEF WritingSeeds
  <2> QED  BY <1>1, <1>3, <1>7, <2>1, EntryWritten DEF TrustInv
<1>9. RecoverInv'
  BY <1>1, <1>3, <1>4, <1>5, Lists, Heads DEF TrustInv, RecoverInv, Uninterrupted, Actionable, Moved
<1> QED  BY <1>3, <1>6, <1>8, <1>9 DEF TrustInv

LEMMA JournalStep ==
  ASSUME TrustInv, NEW phase \in {"staged", "committed", "activated", "persisted"}, WriteJournal(phase), UNCHANGED world
  PROVE  TrustInv'
<1> DEFINE slot == IF phase \in {"staged", "committed"} THEN run.slot ELSE 0
           j == [phase |-> phase, gen |-> run.gen, slot |-> slot]
           m == [mem EXCEPT !.journal = j]
<1>0. Perform(phase, m, {"store"})
  BY DEF WriteJournal
<1>a. /\ run.pc = "done" /\ run.gen \in Gens
      /\ \/ phase = "staged" /\ run.todo = Activation /\ Ahead /\ StagedHere /\ (OneKind => mem.journal = Clean)
         \/ phase = "committed" /\ run.todo = Act2 /\ Ahead /\ run.slot \in Slots /\ Authorized /\ (OneKind => Fetched)
         \/ phase = "activated" /\ run.todo = Act4 /\ (OneKind => Flipped)
         \/ phase = "persisted" /\ run.todo = Act7 /\ Behind /\ (OneKind => Fetched)
  BY <1>0, Lists, Heads DEF TrustInv, Stages, Stage, Behind, Ahead, Perform
<1>b. phase \in {"staged", "committed"} => run.slot \in Slots
  BY <1>a DEF StagedHere
<1>c. j \in Journals /\ j # Clean /\ j.phase = phase /\ j.gen = run.gen /\ j.slot = slot
  BY <1>a, <1>b DEF Journals, Clean
<1>d. mem.active \in Nat /\ mem.accepted \in Nat /\ run.gen \in Nat
  BY Quantities DEF TrustInv
<1> HIDE DEF j
<1>1. /\ m \in Stores /\ m.journal = j /\ m.active = mem.active /\ m.accepted = mem.accepted
      /\ m.floor = mem.floor /\ m.gen = mem.gen /\ m.stg = mem.stg
  BY <1>c DEF TrustInv, Typed, Stores
<1>2. Perform(phase, m, {"store"})
  BY <1>0
<1> HIDE DEF m
<1>3. /\ Typed' /\ mem' = m /\ disk' = disk /\ sync = {} /\ sync' = {"store"}
      /\ crashes' = crashes /\ done' = done
      /\ run.todo # <<>> /\ Head(run.todo) = phase /\ run'.todo = Tail(run.todo)
      /\ run'.pc = run.pc /\ run'.rel = run.rel /\ run'.now = run.now
      /\ run'.gen = run.gen /\ run'.slot = run.slot
  BY <1>1, <1>2, Performed DEF TrustInv
<1>4. /\ phase = "staged" => run'.todo = Act1
      /\ phase = "committed" => run'.todo = Act3
      /\ phase = "activated" => run'.todo = Act5
      /\ phase = "persisted" => run'.todo = Drop0
  BY <1>3, <1>a, Tails
<1>5. phase \in {"staged", "committed"} => j = Entry(phase)'
  BY <1>3, <1>c DEF Entry, j
<1>6. Stages'
  <2>1. CASE phase = "staged"
    BY <1>1, <1>3, <1>4, <1>5, <1>a, <2>1 DEF Stages, Stage, Ahead, StagedHere, Steadied, Steady, OneKind
  <2>2. CASE phase = "committed"
    BY <1>1, <1>3, <1>4, <1>5, <1>a, <2>2 DEF Stages, Stage, Ahead, Authorized, Fetched, Steadied, Steady, OneKind
  <2>3. CASE phase = "activated"
    BY <1>1, <1>3, <1>4, <1>a, <1>c, <2>3 DEF Stages, Stage, Flipped, Fetched, Holds, Held, OneKind
  <2>4. CASE phase = "persisted"
    BY <1>1, <1>3, <1>4, <1>a, <1>c, <2>4 DEF Stages, Stage, Behind, Fetched, Steadied, Steady, OneKind
  <2> QED  BY <2>1, <2>2, <2>3, <2>4
<1>7. ASSUME OneKind PROVE GoodStore'
  <2>1. CASE Steadied
    BY <1>1, <1>3, <1>7, <2>1, Numbers DEF TrustInv, StoreInv, GoodStore, Good, Steadied, Steady, Unseeded, Pending, Held
  <2>2. CASE phase = "activated"
    BY <1>1, <1>3, <1>7, <1>a, <1>c, <2>2, Numbers
    DEF TrustInv, StoreInv, GoodStore, Good, Flipped, Fetched, Unseeded, Whole, Pending, Held
  <2> QED  BY <1>7, <1>a, <2>1, <2>2 DEF Ahead, Behind
<1>8. StoreInv'
  <2>1. ~WritingSeeds
    BY <1>a DEF WritingSeeds
  <2> QED  BY <1>1, <1>3, <1>7, <2>1, EntryWritten DEF TrustInv
<1>9. RecoverInv'
  <2> SUFFICES ASSUME KillsOnly
               PROVE  mem'.active # 0 /\ (crashes = 0 => Uninterrupted' /\ Actionable')
    BY <1>3, <1>a DEF RecoverInv, KillsOnly
  <2>1. OneKind /\ mem.active # 0 /\ (crashes = 0 => Uninterrupted /\ Actionable)
    BY DEF TrustInv, RecoverInv, KillsOnly, OneKind
  <2>2. ASSUME crashes = 0 PROVE Uninterrupted'
    BY <1>1, <1>3, <1>4, <1>a, <2>1, <2>2, Lists, Heads DEF Uninterrupted, Moved
  <2>3. ASSUME crashes = 0 PROVE Actionable'
    <3>1. CASE phase = "staged"
      <4>1. run.rel # NoRelease
        BY <1>a, Released DEF TrustInv, Typed
      <4> QED  BY <1>1, <1>3, <1>a, <1>b, <1>c, <1>d, <2>1, <3>1, <4>1 DEF Actionable, Ahead, StagedHere, Steadied, Steady
    <3>2. CASE phase = "committed"
      BY <1>1, <1>3, <1>a, <1>c, <1>d, <2>1, <2>3, <3>2
      DEF Actionable, Ahead, Fetched, Steadied, Steady, Uninterrupted, Moved
    <3>3. CASE phase = "activated"
      BY <1>1, <1>3, <1>a, <1>c, <1>d, <2>1, <3>3 DEF Actionable, Flipped, Fetched
    <3>4. CASE phase = "persisted"
      BY <1>1, <1>3, <1>a, <1>c, <1>d, <2>1, <3>4 DEF Actionable, Behind, Fetched, Steadied, Steady
    <3> QED  BY <3>1, <3>2, <3>3, <3>4
  <2> QED  BY <1>1, <1>3, <2>1, <2>2, <2>3
<1> QED  BY <1>3, <1>6, <1>8, <1>9 DEF TrustInv

LEMMA FlipStep ==
  ASSUME TrustInv, FlipActive, UNCHANGED world
  PROVE  TrustInv' /\ (OneKind => mem.active <= mem'.active) /\ Authorized /\ mem'.active = run.gen
<1> DEFINE m == [mem EXCEPT !.active = run.gen]
<1>0. Perform("flip", m, {"store"})
  BY DEF FlipActive
<1>a. /\ run.gen \in Gens /\ Authorized
      /\ \/ run.pc = "pointer" /\ run.todo \in {Adopt0, Resume0} /\ (OneKind => Flippable)
         \/ run.pc = "reconcile" /\ run.todo = Point
            /\ (OneKind => Bare /\ run.gen = SeedGen /\ Whole(mem.gen, SeedGen) /\ mem.accepted = SeedGen)
         \/ run.pc = "done" /\ run.todo = Act3 /\ Ahead /\ (OneKind => Fetched /\ mem.journal = Entry("committed"))
  BY <1>0, Lists, Heads DEF TrustInv, Stages, Stage, Ahead, Perform
<1>1. /\ m \in Stores /\ m.journal = mem.journal /\ m.active = run.gen /\ m.accepted = mem.accepted
      /\ m.floor = mem.floor /\ m.gen = mem.gen /\ m.stg = mem.stg
  BY <1>a DEF TrustInv, Typed, Stores
<1>2. Perform("flip", m, {"store"})
  BY <1>0
<1> HIDE DEF m
<1>3. /\ Typed' /\ mem' = m /\ disk' = disk /\ sync = {} /\ sync' = {"store"}
      /\ crashes' = crashes /\ done' = done
      /\ run.todo # <<>> /\ Head(run.todo) = "flip" /\ run'.todo = Tail(run.todo)
      /\ run'.pc = run.pc /\ run'.rel = run.rel /\ run'.now = run.now
      /\ run'.gen = run.gen /\ run'.slot = run.slot
  BY <1>1, <1>2, Performed DEF TrustInv
<1>4. /\ run.todo = Adopt0 => run'.todo = Adopt1
      /\ run.todo = Resume0 => run'.todo = Resume1
      /\ run.todo = Point => run'.todo = <<>>
      /\ run.todo = Act3 => run'.todo = Act4
  BY <1>3, Tails
<1>b. mem.active \in Nat /\ mem.accepted \in Nat /\ run.gen \in Nat /\ mem.floor \in Nat
  BY Quantities DEF TrustInv
<1>5. OneKind => mem.active <= run.gen
  BY <1>a, <1>b DEF Flippable, Bare, Ahead
<1>c. ASSUME OneKind, run.todo \in {Adopt0, Resume0, Act3}, run.pc # "reconcile"
      PROVE  Fetched /\ Held(mem.journal, run.gen, mem.stg) /\ mem.accepted <= run.gen
  <2>1. CASE run.pc = "pointer"
    BY <1>a, <1>c, <2>1 DEF Flippable, Holds
  <2>2. CASE run.pc = "done"
    BY <1>a, <1>b, <1>c, <2>2 DEF Ahead, Steadied, Steady, Held, Entry, Clean
  <2> QED  BY <1>a, <1>c, <2>1, <2>2
<1>d. ASSUME OneKind, run.pc = "reconcile" PROVE mem.gen[SeedGen].issued = 0
  BY <1>a, <1>d, Numbers DEF TrustInv, StoreInv, GoodStore, Good, Sorted
<1>6. Stages'
  <2>1. CASE run.pc = "pointer"
    BY <1>1, <1>3, <1>4, <1>a, <1>c, <2>1 DEF Stages, Stage, Flipped, Fetched, Holds, OneKind
  <2>2. CASE run.pc = "reconcile"
    BY <1>1, <1>3, <1>4, <1>a, <1>b, <1>d, <2>2, Numbers DEF Stages, Stage, Bare, Steadied, Steady, OneKind
  <2>3. CASE run.pc = "done"
    BY <1>1, <1>3, <1>4, <1>a, <1>c, <2>3 DEF Stages, Stage, Flipped, Fetched, Holds, Entry, OneKind
  <2> QED  BY <1>a, <2>1, <2>2, <2>3
<1>7. ASSUME OneKind PROVE GoodStore'
  <2>1. /\ Sorted(mem.gen) /\ mem.active >= done /\ mem.accepted >= done /\ done \in Nat
    BY <1>7, Quantities DEF TrustInv, StoreInv, GoodStore, Good
  <2>2. CASE run.pc = "reconcile"
    BY <1>1, <1>3, <1>5, <1>7, <1>a, <1>b, <1>d, <2>1, <2>2, Numbers DEF GoodStore, Good, Steady
  <2>3. CASE run.pc # "reconcile"
    BY <1>1, <1>3, <1>5, <1>7, <1>a, <1>b, <1>c, <2>1, <2>3 DEF GoodStore, Good, Whole, Pending, Fetched
  <2> QED  BY <2>2, <2>3
<1>8. StoreInv'
  <2>1. ~WritingSeeds
    BY <1>a, Heads DEF WritingSeeds
  <2> QED  BY <1>1, <1>3, <1>7, <2>1, EntryWritten DEF TrustInv
<1>9. RecoverInv'
  <2> SUFFICES ASSUME KillsOnly
               PROVE  mem'.active # 0 /\ (crashes = 0 => Uninterrupted' /\ Actionable')
    BY <1>3, <1>a DEF RecoverInv, KillsOnly
  <2>1. OneKind /\ mem.active # 0 /\ (crashes = 0 => Uninterrupted /\ Actionable)
    BY DEF TrustInv, RecoverInv, KillsOnly, OneKind
  <2>2. ASSUME crashes = 0
        PROVE  run.todo = Act3 /\ run.pc = "done" /\ mem.journal = Entry("committed") /\ mem.active < run.gen /\ Fetched
    BY <1>a, <2>1, <2>2 DEF Uninterrupted, Flippable, Holds, Held, Bare, Ahead
  <2>3. ASSUME crashes = 0 PROVE Uninterrupted'
    <3>1. ~Moved'
      BY <1>3, <1>4, <2>2, <2>3, Heads DEF Moved
    <3>2. ASSUME NEW h \in Gens, h > run.gen, mem.gen[h].kind # "none" PROVE FALSE
      BY <1>b, <2>1, <2>2, <2>3, <3>2, Numbers DEF Uninterrupted
    <3> QED  BY <1>1, <1>3, <2>2, <2>3, <3>1, <3>2 DEF Uninterrupted
  <2>4. ASSUME crashes = 0 PROVE Actionable'
    <3>1. mem.journal.phase = "committed" /\ mem.journal.gen = run.gen
      BY <2>2, <2>4 DEF Entry
    <3> QED  BY <1>1, <1>3, <1>b, <2>1, <2>2, <2>4, <3>1 DEF Actionable, Fetched
  <2> QED  BY <1>1, <1>3, <1>a, <2>1, <2>3, <2>4, Numbers
<1> QED  BY <1>1, <1>3, <1>5, <1>6, <1>8, <1>9, <1>a DEF TrustInv

LEMMA AcceptFails ==
  ASSUME TrustInv, Abandon("accept"), mem.accepted > run.gen, UNCHANGED world
  PROVE  TrustInv'
<1>1. mem.active \in Nat /\ mem.accepted \in Nat /\ run.gen \in Nat
  BY Quantities DEF TrustInv
<1>2. run.todo # <<>> /\ Head(run.todo) = "accept" /\ sync = {}
      /\ run' = Idle /\ UNCHANGED <<mem, disk, sync, clock, crashes, done>>
  BY DEF Abandon, GiveUp, Unmoved
<1>3. ~OneKind
  BY <1>1, <1>2, Lists, Heads DEF TrustInv, Stages, Stage, Behind, Flipped, Steadied, Steady, SeedGen
<1>4. ~WritingSeeds /\ ~KillsOnly
  BY <1>2, <1>3, Heads DEF WritingSeeds, KillsOnly, OneKind
<1> QED  BY <1>2, <1>4, GivenUp

LEMMA AcceptStep ==
  ASSUME TrustInv, Perform("accept", [mem EXCEPT !.accepted = run.gen], {"store"}), UNCHANGED world
  PROVE  TrustInv' /\ mem'.active = mem.active /\ mem'.floor = mem.floor /\ mem'.accepted = run.gen
<1> DEFINE m == [mem EXCEPT !.accepted = run.gen]
<1>a. /\ run.gen \in Gens
      /\ \/ run.pc = "pointer" /\ run.todo \in {Adopt1, Resume1} /\ (OneKind => Flipped)
         \/ run.pc = "reconcile" /\ run.todo = Seed3 /\ run.gen = SeedGen
            /\ (OneKind => Bare /\ Whole(mem.gen, SeedGen) /\ mem.accepted \in {0, SeedGen})
         \/ run.pc = "apply" /\ run.todo = Record0 /\ ~OneKind
         \/ run.pc = "done" /\ run.todo = Act5 /\ (OneKind => Flipped /\ mem.journal.phase = "activated")
         \/ run.pc = "done" /\ run.todo = Record0 /\ Behind /\ (OneKind => mem.journal = Clean)
  BY Lists, Heads, Numbers DEF TrustInv, Stages, Stage, Behind, Perform
<1>b. mem.active \in Nat /\ mem.accepted \in Nat /\ run.gen \in Nat /\ mem.floor \in Nat /\ done \in Nat
  BY Quantities DEF TrustInv
<1>1. /\ m \in Stores /\ m.journal = mem.journal /\ m.active = mem.active /\ m.accepted = run.gen
      /\ m.floor = mem.floor /\ m.gen = mem.gen /\ m.stg = mem.stg
  BY <1>a DEF TrustInv, Typed, Stores
<1>2. Perform("accept", m, {"store"})
  OBVIOUS
<1> HIDE DEF m
<1>3. /\ Typed' /\ mem' = m /\ disk' = disk /\ sync = {} /\ sync' = {"store"}
      /\ crashes' = crashes /\ done' = done
      /\ run.todo # <<>> /\ Head(run.todo) = "accept" /\ run'.todo = Tail(run.todo)
      /\ run'.pc = run.pc /\ run'.rel = run.rel /\ run'.now = run.now
      /\ run'.gen = run.gen /\ run'.slot = run.slot
  BY <1>1, <1>2, Performed DEF TrustInv
<1>4. /\ run.todo = Adopt1 => run'.todo = Adopt2
      /\ run.todo = Resume1 => run'.todo = Resume2
      /\ run.todo = Seed3 => run'.todo = Point
      /\ run.todo = Act5 => run'.todo = Act6
      /\ run.todo = Record0 => run'.todo = Record1
  BY <1>3, Tails
<1>6. Stages'
  <2>1. CASE run.pc = "pointer"
    BY <1>1, <1>3, <1>4, <1>a, <2>1 DEF Stages, Stage, Flipped, Recorded, Fetched, Holds, OneKind
  <2>2. CASE run.pc = "reconcile"
    BY <1>1, <1>3, <1>4, <1>a, <2>2, Numbers DEF Stages, Stage, Bare, Authorized, OneKind
  <2>3. CASE run.pc = "apply"
    BY <1>1, <1>3, <1>4, <1>a, <2>3 DEF Stages, Stage, OneKind
  <2>4. CASE run.pc = "done" /\ run.todo = Act5 /\ (OneKind => Flipped /\ mem.journal.phase = "activated")
    BY <1>1, <1>3, <1>4, <1>a, <2>4, Heads DEF Stages, Stage, Flipped, Recorded, Fetched, Holds, OneKind
  <2>5. CASE run.pc = "done" /\ run.todo = Record0 /\ Behind /\ (OneKind => mem.journal = Clean)
    BY <1>1, <1>3, <1>4, <1>a, <2>5 DEF Stages, Stage, Behind, Steadied, Steady, OneKind
  <2> QED  BY <1>a, <2>1, <2>2, <2>3, <2>4, <2>5
<1>7. ASSUME OneKind PROVE GoodStore'
  <2>1. GoodStore /\ Sorted(mem.gen) /\ mem.active >= done /\ mem.accepted >= done
    BY <1>7 DEF TrustInv, StoreInv, GoodStore, Good
  <2>2. CASE Flipped
    BY <1>1, <1>3, <1>a, <1>b, <2>1, <2>2 DEF GoodStore, Good, Whole, Pending, Flipped, Fetched, Holds
  <2>3. CASE Bare /\ run.gen = SeedGen /\ Whole(mem.gen, SeedGen) /\ mem.accepted \in {0, SeedGen}
    <3>1. Unseeded(mem.journal, mem.active, mem.accepted, mem.gen)
      BY <2>1, <2>3, Numbers DEF GoodStore, Good, Whole, Bare
    <3>2. mem.gen[SeedGen].kind \in {"files", "seed"}
      BY <2>1, <2>3, Numbers DEF Whole, Sorted
    <3>3. Unseeded(mem.journal, mem.active, run.gen, mem.gen)
      BY <2>3, <3>1, <3>2 DEF Unseeded
    <3>4. run.gen >= done
      BY <1>b, <2>1, <2>3, <3>1 DEF Unseeded, SeedGen
    <3> QED  BY <1>1, <1>3, <2>1, <3>3, <3>4 DEF GoodStore, Good
  <2>4. CASE Behind
    <3>1. mem.accepted = run.gen
      BY <1>7, <2>4 DEF Behind, Steadied, Steady
    <3> QED  BY <1>1, <1>3, <2>1, <3>1 DEF GoodStore
  <2> QED  BY <1>7, <1>a, <2>2, <2>3, <2>4
<1>8. StoreInv'
  <2>1. ~WritingSeeds
    BY <1>a, Heads DEF WritingSeeds
  <2> QED  BY <1>1, <1>3, <1>7, <2>1, EntryWritten DEF TrustInv
<1>9. RecoverInv'
  <2> SUFFICES ASSUME KillsOnly
               PROVE  mem'.active # 0 /\ (crashes = 0 => Uninterrupted' /\ Actionable')
    BY <1>3, <1>a DEF RecoverInv, KillsOnly
  <2>1. OneKind /\ mem.active # 0 /\ (crashes = 0 => Uninterrupted /\ Actionable)
    BY DEF TrustInv, RecoverInv, KillsOnly, OneKind
  <2>2. ASSUME crashes = 0 PROVE Uninterrupted'
    <3>1. ~Moved /\ ~Moved'
      BY <1>3, <1>4, <1>a, Heads DEF Moved
    <3> QED  BY <1>1, <1>3, <2>1, <2>2, <3>1 DEF Uninterrupted
  <2>3. ASSUME crashes = 0 PROVE Actionable'
    <3>1. mem.journal # Clean => mem.journal.gen = run.gen
      BY <1>a, <2>1, <2>3 DEF Uninterrupted, Flipped, Holds, Held
    <3> QED  BY <1>1, <1>3, <1>b, <2>1, <2>3, <3>1 DEF Actionable
  <2> QED  BY <1>1, <1>3, <2>1, <2>2, <2>3
<1> QED  BY <1>1, <1>3, <1>6, <1>8, <1>9 DEF TrustInv

LEMMA FloorStep ==
  ASSUME TrustInv, PersistSignedFloor, UNCHANGED world
  PROVE  TrustInv' /\ mem'.active = mem.active /\ mem'.accepted = mem.accepted /\ mem.floor <= mem'.floor
<1> DEFINE issued == mem.gen[run.gen].issued
           f == IF issued > mem.floor THEN issued ELSE mem.floor
           m == [mem EXCEPT !.floor = f]
           dirs == IF issued > mem.floor THEN {"store"} ELSE {}
<1>0. Perform("floor", m, dirs)
  BY DEF PersistSignedFloor
<1>a. /\ run.gen \in Gens
      /\ \/ run.pc = "pointer" /\ run.todo \in {Adopt2, Resume2} /\ (OneKind => Recorded)
         \/ run.pc = "apply" /\ run.todo = Record1 /\ ~OneKind
         \/ run.pc = "done" /\ run.todo = Act6 /\ (OneKind => Recorded /\ mem.journal.phase = "activated")
         \/ run.pc = "done" /\ run.todo = Record1 /\ Behind /\ (OneKind => mem.journal = Clean)
  BY <1>0, Lists, Heads DEF TrustInv, Stages, Stage, Behind, Perform
<1>b. /\ mem.active \in Nat /\ mem.accepted \in Nat /\ run.gen \in Nat /\ mem.floor \in Nat /\ done \in Nat
      /\ issued \in Nat
  BY <1>a, Quantities DEF TrustInv
<1>c. f \in Nat /\ f >= issued /\ f >= mem.floor /\ dirs \in SUBSET {"store", "generations", "staging"}
      /\ dirs \in {{"store"}, {}} /\ (dirs = {} => f = mem.floor)
  BY <1>b
<1> HIDE DEF f, dirs
<1>1. /\ m \in Stores /\ m.journal = mem.journal /\ m.active = mem.active /\ m.accepted = mem.accepted
      /\ m.floor = f /\ m.gen = mem.gen /\ m.stg = mem.stg
  BY <1>c DEF TrustInv, Typed, Stores
<1>2. Perform("floor", m, dirs)
  BY <1>0
<1> HIDE DEF m
<1>3. /\ Typed' /\ mem' = m /\ disk' = disk /\ sync = {} /\ sync' = dirs
      /\ crashes' = crashes /\ done' = done
      /\ run.todo # <<>> /\ Head(run.todo) = "floor" /\ run'.todo = Tail(run.todo)
      /\ run'.pc = run.pc /\ run'.rel = run.rel /\ run'.now = run.now
      /\ run'.gen = run.gen /\ run'.slot = run.slot
  BY <1>1, <1>2, <1>c, Performed DEF TrustInv
<1>4. /\ run.todo = Adopt2 => run'.todo = Drop1
      /\ run.todo = Resume2 => run'.todo = Drop0
      /\ run.todo = Act6 => run'.todo = Act7
      /\ run.todo = Record1 => run'.todo = <<>>
  BY <1>3, Tails
<1>5. ASSUME OneKind PROVE mem.active = run.gen /\ Steadied' /\ mem.accepted = run.gen
  <2>1. mem.active = run.gen /\ mem.accepted = run.gen
    BY <1>5, <1>a DEF Recorded, Behind, Steadied, Steady
  <2> QED  BY <1>1, <1>3, <1>a, <1>c, <2>1 DEF Steadied, Steady
<1>6. Stages'
  <2>1. CASE run.pc = "pointer"
    BY <1>1, <1>3, <1>4, <1>5, <1>a, <2>1 DEF Stages, Stage, OneKind
  <2>3. CASE run.pc = "apply"
    BY <1>3, <1>4, <1>a, <2>3 DEF Stages, Stage, OneKind
  <2>4. CASE run.pc = "done" /\ run.todo = Act6 /\ (OneKind => Recorded /\ mem.journal.phase = "activated")
    BY <1>1, <1>3, <1>4, <1>5, <1>a, <2>4, Heads DEF Stages, Stage, Recorded, Behind, Fetched, Holds, Held, OneKind
  <2>5. CASE run.pc = "done" /\ run.todo = Record1 /\ Behind /\ (OneKind => mem.journal = Clean)
    BY <1>1, <1>3, <1>4, <1>5, <1>a, <2>5 DEF Stages, Stage, Behind, OneKind
  <2> QED  BY <1>a, <2>1, <2>3, <2>4, <2>5
<1>7. ASSUME OneKind PROVE GoodStore'
  <2>1. GoodStore /\ Sorted(mem.gen) /\ mem.active >= done /\ mem.accepted >= done
    BY <1>7 DEF TrustInv, StoreInv, GoodStore, Good
  <2>2. Whole(mem.gen, run.gen)
    BY <1>5, <1>7, <1>a, <2>1, Numbers DEF GoodStore, Good, Unseeded
  <2> QED  BY <1>1, <1>3, <1>5, <1>7, <1>a, <2>1, <2>2 DEF GoodStore, Good, Steadied
<1>8. StoreInv'
  <2>1. ~WritingSeeds
    BY <1>a, Heads DEF WritingSeeds
  <2>2. CASE dirs = {"store"}
    BY <1>1, <1>3, <1>7, <2>1, <2>2, EntryWritten DEF TrustInv
  <2>3. CASE dirs = {}
    <3>1. "kill" \notin world.faults /\ OneKind => Synced'
      BY <1>1, <1>3, <1>c, <2>1, <2>3 DEF TrustInv, StoreInv, Synced, SameEntries
    <3> QED  BY <1>1, <1>3, <1>7, <1>c, <2>3, <3>1, TreeWritten DEF TrustInv
  <2> QED  BY <1>c, <2>2, <2>3
<1>9. RecoverInv'
  <2> SUFFICES ASSUME KillsOnly
               PROVE  mem'.active # 0 /\ (crashes = 0 => Uninterrupted' /\ Actionable')
    BY <1>3, <1>a DEF RecoverInv, KillsOnly
  <2>1. OneKind /\ mem.active # 0 /\ (crashes = 0 => Uninterrupted /\ Actionable)
    BY DEF TrustInv, RecoverInv, KillsOnly, OneKind
  <2>2. ASSUME crashes = 0 PROVE Uninterrupted'
    <3>1. ~Moved /\ ~Moved'
      BY <1>3, <1>4, <1>a, Heads, Lists DEF Moved
    <3> QED  BY <1>1, <1>3, <2>1, <2>2, <3>1 DEF Uninterrupted
  <2>3. ASSUME crashes = 0 PROVE Actionable'
    BY <1>1, <1>3, <2>1, <2>3 DEF Actionable
  <2> QED  BY <1>1, <1>3, <2>1, <2>2, <2>3
<1> QED  BY <1>1, <1>3, <1>6, <1>8, <1>9, <1>c DEF TrustInv

LEMMA RemoveStep ==
  ASSUME TrustInv, RemoveOwnedStaging, UNCHANGED world
  PROVE  TrustInv' /\ mem'.active = mem.active /\ mem'.accepted = mem.accepted /\ mem'.floor = mem.floor
<1> DEFINE there == run.slot # 0 /\ mem.stg[run.slot] # NoRelease
           stg == IF there THEN [mem.stg EXCEPT ![run.slot] = NoRelease] ELSE mem.stg
           m == [mem EXCEPT !.stg = stg]
           dirs == IF there THEN {"staging"} ELSE {}
<1>0. Perform("remove", m, dirs)
  BY DEF RemoveOwnedStaging
<1>a. \/ run.pc = "pointer" /\ run.todo = Tidy /\ run.gen \in Gens /\ (OneKind => Flipped)
      \/ run.pc = "pointer" /\ run.todo = Drop0 /\ (OneKind => Steadied)
      \/ run.pc = "done" /\ run.todo = Drop0 /\ Behind
         /\ (OneKind => Fetched /\ mem.journal.phase = "persisted" /\ mem.journal.gen = run.gen)
  BY <1>0, Lists, Heads DEF TrustInv, Stages, Stage, Behind, Perform
<1>b. mem.stg \in [Slots -> Releases \cup {NoRelease}] /\ run.slot \in Slots \cup {0}
  BY DEF TrustInv, Typed, Stores, Runs
<1>c. /\ stg \in [Slots -> Releases \cup {NoRelease}] /\ \A s \in Slots : stg[s] # NoRelease => mem.stg[s] # NoRelease
      /\ dirs \in {{"staging"}, {}} /\ (dirs = {} => stg = mem.stg)
  BY <1>b
<1> HIDE DEF stg, dirs
<1>1. /\ m \in Stores /\ m.journal = mem.journal /\ m.active = mem.active /\ m.accepted = mem.accepted
      /\ m.floor = mem.floor /\ m.gen = mem.gen /\ m.stg = stg
  BY <1>c DEF TrustInv, Typed, Stores
<1>2. Perform("remove", m, dirs)
  BY <1>0
<1> HIDE DEF m
<1>3. /\ Typed' /\ mem' = m /\ disk' = disk /\ sync = {} /\ sync' = dirs
      /\ crashes' = crashes /\ done' = done
      /\ run.todo # <<>> /\ Head(run.todo) = "remove" /\ run'.todo = Tail(run.todo)
      /\ run'.pc = run.pc /\ run'.rel = run.rel /\ run'.now = run.now
      /\ run'.gen = run.gen /\ run'.slot = run.slot
  BY <1>1, <1>2, <1>c, Performed DEF TrustInv
<1>4. /\ run.todo = Tidy => run'.todo = Adopt1
      /\ run.todo = Drop0 => run'.todo = Drop1
  BY <1>3, Tails
<1>5. mem.journal \in Journals /\ (mem.journal.phase = "staged" => mem.journal.slot \in Slots)
  BY Quantities DEF TrustInv, Journals, Clean
<1>6. Stages'
  <2>1. CASE run.todo = Tidy
    BY <1>1, <1>3, <1>4, <1>5, <1>a, <1>c, <2>1, Heads DEF Stages, Stage, Flipped, Fetched, Holds, Held, OneKind
  <2>2. CASE run.pc = "pointer" /\ run.todo = Drop0
    BY <1>1, <1>3, <1>4, <1>a, <2>2, Heads DEF Stages, Stage, Steadied, Steady, OneKind, Flipped
  <2>3. CASE run.pc = "done"
    BY <1>1, <1>3, <1>4, <1>a, <2>3 DEF Stages, Stage, Behind, Fetched, Steadied, Steady, OneKind
  <2> QED  BY <1>a, <2>1, <2>2, <2>3
<1>7. ASSUME OneKind PROVE GoodStore'
  BY <1>1, <1>3, <1>5, <1>7, <1>c, Fewer DEF TrustInv, StoreInv, GoodStore
<1>8. StoreInv'
  <2>1. ~WritingSeeds
    BY <1>a, Heads DEF WritingSeeds
  <2>2. "kill" \notin world.faults /\ OneKind => Synced'
    <3>1. CASE dirs = {"staging"}
      BY <1>1, <1>3, <2>1, <3>1 DEF TrustInv, StoreInv, Synced, SameEntries
    <3>2. CASE dirs = {}
      BY <1>1, <1>3, <1>c, <2>1, <3>2 DEF TrustInv, StoreInv, Synced, SameEntries
    <3> QED  BY <1>c, <3>1, <3>2
  <2> QED  BY <1>1, <1>3, <1>7, <2>2, TreeWritten DEF TrustInv
<1>9. RecoverInv'
  <2> SUFFICES ASSUME KillsOnly
               PROVE  mem'.active # 0 /\ (crashes = 0 => Uninterrupted' /\ Actionable')
    BY <1>3, <1>a DEF RecoverInv, KillsOnly
  <2>1. OneKind /\ mem.active # 0 /\ (crashes = 0 => Uninterrupted /\ Actionable)
    BY DEF TrustInv, RecoverInv, KillsOnly, OneKind
  <2>2. ASSUME crashes = 0 PROVE Uninterrupted'
    <3>1. ~Moved /\ ~Moved'
      BY <1>3, <1>4, <1>a, Heads, Lists DEF Moved
    <3> QED  BY <1>1, <1>3, <2>1, <2>2, <3>1 DEF Uninterrupted
  <2>3. ASSUME crashes = 0 PROVE Actionable'
    <3>1. mem.journal # Clean => mem.journal.phase = "persisted" /\ mem.gen[mem.journal.gen].kind = "release"
      BY <1>a, <2>1, <2>3 DEF Uninterrupted, Fetched
    <3> QED  BY <1>1, <1>3, <2>1, <2>3, <3>1 DEF Actionable
  <2> QED  BY <1>1, <1>3, <2>1, <2>2, <2>3
<1> QED  BY <1>1, <1>3, <1>6, <1>8, <1>9 DEF TrustInv

LEMMA HoldingIs ==
  ASSUME NEW r \in Releases \cup {NoRelease}
  PROVE  /\ Holding(r) \in Dirs /\ Holding(r).kind = "release"
         /\ Holding(r).issued = r.issued /\ Holding(r).expires = r.expires
<1>1. r.issued \in Nat /\ r.expires \in Nat
  BY Released DEF NoRelease
<1> QED  BY <1>1 DEF Holding, Dir, Dirs, Kinds

\* Where a generation is committed.
Committing ==
  \/ run.pc = "recover" /\ run.todo = Redo /\ Ahead /\ run.slot \in Slots /\ (OneKind => mem.journal = Entry("committed"))
  \/ run.pc = "done" /\ run.todo = Act1 /\ Ahead /\ StagedHere /\ (OneKind => mem.journal = Entry("staged"))

LEMMA CommitsWhere ==
  ASSUME TrustInv, run.todo # <<>>, Head(run.todo) = "commit"
  PROVE  Committing /\ ~WritingSeeds /\ run.slot \in Slots /\ run.gen \in Gens
<1>1. Committing
  BY Lists, Heads DEF TrustInv, Stages, Stage, Committing
<1> QED  BY <1>1 DEF Committing, WritingSeeds, Ahead, StagedHere

\* Before any kill no generation is found above the active one.
LEMMA NoneFound ==
  ASSUME TrustInv, Committing, KillsOnly, crashes = 0
  PROVE  run.pc = "done" /\ run.todo = Act1 /\ mem.gen[run.gen].kind = "none" /\ ~Moved
<1>1. OneKind /\ Uninterrupted
  BY DEF TrustInv, RecoverInv, KillsOnly, OneKind
<1>2. run.pc = "done"
  BY <1>1 DEF Committing, Uninterrupted, Entry, Clean
<1>3. run.todo = Act1 /\ ~Moved
  BY <1>2, Heads DEF Committing, Moved
<1>4. run.gen \in Gens /\ mem.active < run.gen
  BY <1>1 DEF Committing, Ahead
<1>5. mem.active \in Nat /\ run.gen \in Nat
  BY Quantities DEF TrustInv
<1> QED  BY <1>1, <1>2, <1>3, <1>4, <1>5 DEF Uninterrupted

LEMMA CommitMoves ==
  ASSUME TrustInv, UNCHANGED world, ~Exists(run.gen),
         Perform("commit",
           [mem EXCEPT !.gen[run.gen] = Holding(mem.stg[run.slot]), !.stg[run.slot] = NoRelease],
           {"generations", "staging"})
  PROVE  TrustInv' /\ mem'.active = mem.active /\ mem'.accepted = mem.accepted /\ mem'.floor = mem.floor
<1> DEFINE dir == Holding(mem.stg[run.slot])
           gen == [mem.gen EXCEPT ![run.gen] = dir]
           stg == [mem.stg EXCEPT ![run.slot] = NoRelease]
           m == [mem EXCEPT !.gen = gen, !.stg = stg]
<1>0. Perform("commit", m, {"generations", "staging"})
  OBVIOUS
<1>a. Committing /\ ~WritingSeeds /\ run.slot \in Slots /\ run.gen \in Gens
  BY <1>0, CommitsWhere DEF Perform
<1>b. mem.stg \in [Slots -> Releases \cup {NoRelease}] /\ mem.gen \in [Gens -> Dirs]
  BY DEF TrustInv, Typed, Stores
<1>c. dir \in Dirs /\ dir.kind = "release" /\ dir.issued = mem.stg[run.slot].issued /\ dir.expires = mem.stg[run.slot].expires
  BY <1>a, <1>b, HoldingIs
<1> HIDE DEF dir
<1>d. /\ gen \in [Gens -> Dirs] /\ gen[run.gen] = dir /\ \A h \in Gens \ {run.gen} : gen[h] = mem.gen[h]
      /\ stg \in [Slots -> Releases \cup {NoRelease}] /\ stg[run.slot] = NoRelease
  BY <1>a, <1>b, <1>c
<1> HIDE DEF gen, stg
<1>1. /\ m \in Stores /\ m.journal = mem.journal /\ m.active = mem.active /\ m.accepted = mem.accepted
      /\ m.floor = mem.floor /\ m.gen = gen /\ m.stg = stg
  BY <1>d DEF TrustInv, Typed, Stores
<1>2. Perform("commit", m, {"generations", "staging"})
  BY <1>0
<1> HIDE DEF m
<1>3. /\ Typed' /\ mem' = m /\ disk' = disk /\ sync = {} /\ sync' = {"generations", "staging"}
      /\ crashes' = crashes /\ done' = done
      /\ run.todo # <<>> /\ Head(run.todo) = "commit" /\ run'.todo = Tail(run.todo)
      /\ run'.pc = run.pc /\ run'.rel = run.rel /\ run'.now = run.now
      /\ run'.gen = run.gen /\ run'.slot = run.slot
  BY <1>1, <1>2, Performed DEF TrustInv
<1>4. /\ run.todo = Redo => run'.todo = <<>>
      /\ run.todo = Act1 => run'.todo = Act2
  BY <1>3, Tails
<1>5. mem.active \in Nat /\ mem.accepted \in Nat /\ run.gen \in Nat /\ mem.floor \in Nat /\ done \in Nat
  BY Quantities DEF TrustInv
<1>e. ASSUME OneKind PROVE Steadied /\ Steadied' /\ mem.active < run.gen
  BY <1>1, <1>3, <1>5, <1>a, <1>d, <1>e DEF Committing, Ahead, Steadied, Steady
<1>6. Stages'
  <2>1. CASE run.todo = Redo /\ run.pc = "recover"
    BY <1>3, <1>4, <2>1 DEF Stages, Stage
  <2>2. CASE run.todo = Act1 /\ run.pc = "done" /\ Ahead /\ StagedHere /\ (OneKind => mem.journal = Entry("staged"))
    <3>1. Authorized'
      BY <1>1, <1>3, <1>c, <1>d, <2>2 DEF Authorized, StagedHere, Fresh
    <3>2. Ahead'
      BY <1>1, <1>3, <1>a, <1>e DEF Ahead, OneKind
    <3>3. OneKind' => Fetched' /\ mem'.journal = Entry("staged")'
      BY <1>1, <1>3, <1>c, <1>d, <2>2 DEF Fetched, Entry, OneKind
    <3> QED  BY <1>3, <1>4, <1>a, <2>2, <3>1, <3>2, <3>3 DEF Stages, Stage
  <2> QED  BY <1>a, <2>1, <2>2 DEF Committing
<1>7. ASSUME OneKind PROVE GoodStore'
  <2>1. GoodStore /\ Sorted(mem.gen) /\ mem.active >= done /\ mem.accepted >= done
    BY <1>7 DEF TrustInv, StoreInv, GoodStore, Good
  <2>2. mem.active \in Gens /\ run.gen # SeedGen /\ run.gen # mem.active
    BY <1>5, <1>7, <1>e, Numbers DEF Steadied, Steady, SeedGen
  <2>3. Sorted(gen)
    BY <1>a, <1>c, <1>d, <2>1, <2>2 DEF Sorted
  <2>4. Whole(mem.gen, mem.active)
    BY <2>1, <2>2, Numbers DEF GoodStore, Good, Unseeded
  <2>5. Whole(gen, mem.active)
    BY <1>d, <2>2, <2>4 DEF Whole
  <2> QED  BY <1>1, <1>3, <1>7, <1>e, <2>1, <2>3, <2>5 DEF GoodStore, Good, Steadied
<1>8. StoreInv'
  <2>1. "kill" \notin world.faults /\ OneKind => Synced'
    BY <1>1, <1>3 DEF TrustInv, StoreInv, Synced, SameEntries
  <2> QED  BY <1>1, <1>3, <1>7, <2>1, TreeWritten DEF TrustInv
<1>9. RecoverInv'
  <2> SUFFICES ASSUME KillsOnly
               PROVE  /\ mem'.active # 0 /\ (crashes = 0 => Uninterrupted')
                      /\ crashes = 0 \/ (crashes = 1 /\ run.pc \in {"idle", "recover"}) => Actionable'
    BY <1>3 DEF RecoverInv, KillsOnly
  <2>1. /\ OneKind /\ mem.active # 0 /\ (crashes = 0 => Uninterrupted)
        /\ crashes = 0 \/ (crashes = 1 /\ run.pc \in {"idle", "recover"}) => Actionable
    BY DEF TrustInv, RecoverInv, KillsOnly, OneKind
  <2>2. ASSUME crashes = 0 PROVE Uninterrupted'
    <3>1. run.pc = "done" /\ run.todo = Act1 /\ ~Moved
      BY <1>a, <2>2, NoneFound
    <3>2. Moved'
      BY <1>3, <1>4, <3>1 DEF Moved
    <3>3. ASSUME NEW h \in Gens, h > mem.active, gen[h].kind # "none" PROVE h = run.gen
      BY <1>d, <2>1, <2>2, <3>1, <3>3 DEF Uninterrupted
    <3> QED  BY <1>1, <1>3, <1>d, <3>1, <3>2, <3>3 DEF Uninterrupted
  <2>3. ASSUME crashes = 0 PROVE Actionable'
    <3>1. run.pc = "done" /\ run.todo = Act1
      BY <1>a, <2>3, NoneFound
    <3>2. mem.journal.phase = "staged" /\ mem.journal.gen = run.gen
      BY <1>a, <2>1, <3>1 DEF Committing, Entry
    <3>3. mem.accepted = mem.active
      BY <1>e, <2>1 DEF Steadied, Steady
    <3> QED  BY <1>1, <1>3, <1>5, <1>c, <1>d, <1>e, <2>1, <3>2, <3>3 DEF Actionable
  <2>4. ASSUME crashes = 1, run.pc \in {"idle", "recover"} PROVE FALSE
    <3>1. mem.journal = Entry("committed")
      BY <1>a, <2>1, <2>4 DEF Committing
    <3>2. mem.gen[run.gen].kind = "release"
      BY <2>1, <2>4, <3>1 DEF Actionable, Entry, Clean
    <3> QED  BY <1>a, <3>2 DEF Exists
  <2> QED  BY <1>1, <1>3, <2>1, <2>2, <2>3, <2>4
<1> QED  BY <1>1, <1>3, <1>6, <1>8, <1>9 DEF TrustInv

LEMMA CommitAdopts ==
  ASSUME TrustInv, UNCHANGED world, Exists(run.gen), mem.gen[run.gen] = Holding(run.rel), Perform("commit", mem, {})
  PROVE  TrustInv' /\ mem' = mem
<1> DEFINE m == mem
<1>1. m \in Stores
  BY DEF TrustInv, Typed
<1>2. Perform("commit", m, {})
  OBVIOUS
<1>3. /\ Typed' /\ mem' = m /\ disk' = disk /\ sync = {} /\ sync' = {}
      /\ crashes' = crashes /\ done' = done
      /\ run.todo # <<>> /\ Head(run.todo) = "commit" /\ run'.todo = Tail(run.todo)
      /\ run'.pc = run.pc /\ run'.rel = run.rel /\ run'.now = run.now
      /\ run'.gen = run.gen /\ run'.slot = run.slot
  BY <1>1, <1>2, Performed DEF TrustInv
<1>a. Committing /\ ~WritingSeeds /\ run.slot \in Slots /\ run.gen \in Gens
  BY <1>3, CommitsWhere
<1>4. /\ run.todo = Redo => run'.todo = <<>>
      /\ run.todo = Act1 => run'.todo = Act2
  BY <1>3, Tails
<1>6. Stages'
  <2>1. CASE run.todo = Redo /\ run.pc = "recover"
    BY <1>3, <1>4, <2>1 DEF Stages, Stage
  <2>2. CASE run.todo = Act1 /\ run.pc = "done" /\ Ahead /\ StagedHere /\ (OneKind => mem.journal = Entry("staged"))
    <3>0. run.rel \in Releases
      BY <2>2 DEF TrustInv, Typed
    <3>1. Authorized' /\ Fetched'
      BY <1>3, <2>2, <3>0, HoldingIs DEF Authorized, StagedHere, Fresh, Fetched
    <3>2. Ahead'
      BY <1>3, <2>2 DEF Ahead, OneKind, Steadied
    <3>3. OneKind' => mem'.journal = Entry("staged")'
      BY <1>3, <2>2 DEF Entry, OneKind
    <3> QED  BY <1>3, <1>4, <1>a, <2>2, <3>1, <3>2, <3>3 DEF Stages, Stage
  <2> QED  BY <1>a, <2>1, <2>2 DEF Committing
<1>8. StoreInv'
  <2>1. "kill" \notin world.faults /\ OneKind => Synced'
    BY <1>3, <1>a DEF TrustInv, StoreInv, Synced, SameEntries
  <2>2. OneKind => GoodStore'
    BY <1>3 DEF TrustInv, StoreInv, GoodStore
  <2> QED  BY <1>3, <2>1, <2>2, TreeWritten DEF TrustInv
<1>9. RecoverInv'
  <2>1. ~(KillsOnly /\ crashes = 0)
    BY <1>a, NoneFound DEF Exists
  <2> QED  BY <1>3, <2>1 DEF TrustInv, RecoverInv, KillsOnly, Actionable
<1> QED  BY <1>3, <1>6, <1>8, <1>9 DEF TrustInv

LEMMA CommitFails ==
  ASSUME TrustInv, UNCHANGED world, Exists(run.gen), Abandon("commit")
  PROVE  TrustInv' /\ mem' = mem
<1>1. run.todo # <<>> /\ Head(run.todo) = "commit" /\ sync = {} /\ run' = Idle
      /\ UNCHANGED <<mem, disk, sync, clock, crashes, done>>
  BY DEF Abandon, GiveUp, Unmoved
<1>2. Committing /\ ~WritingSeeds /\ run.slot \in Slots /\ run.gen \in Gens
  BY <1>1, CommitsWhere
<1>3. ~(KillsOnly /\ crashes = 0)
  BY <1>2, NoneFound DEF Exists
<1>4. ASSUME KillsOnly, crashes = 1 PROVE Actionable
  <2>1. OneKind
    BY <1>4 DEF KillsOnly, OneKind
  <2>2. CASE run.pc = "recover"
    BY <1>4, <2>2 DEF TrustInv, RecoverInv, KillsOnly
  <2>3. CASE run.pc = "done"
    <3>1. Ahead /\ StagedHere /\ mem.journal = Entry("staged")
      BY <1>2, <2>1, <2>3 DEF Committing
    <3>2. run.rel # NoRelease
      BY <2>3, Released DEF TrustInv, Typed
    <3>3. mem.active \in Nat /\ mem.accepted \in Nat /\ run.gen \in Nat
      BY Quantities DEF TrustInv
    <3>4. mem.journal.phase = "staged" /\ mem.journal.gen = run.gen /\ mem.journal.slot = run.slot
      BY <3>1 DEF Entry
    <3> QED  BY <2>1, <3>1, <3>2, <3>3, <3>4 DEF Actionable, Ahead, StagedHere, Steadied, Steady
  <2> QED  BY <1>2, <2>2, <2>3 DEF Committing
<1> QED  BY <1>1, <1>2, <1>3, <1>4, GivenUp

\* A step that writes the seeds.
SeedWrite(op, kind, dirs) ==
  /\ Perform(op, [mem EXCEPT !.gen[SeedGen] = Seeded(kind)], dirs)
  /\ IF op = "owner" THEN kind = "seed" /\ dirs = {"generations"} ELSE dirs = {}

LEMMA SeedStep ==
  ASSUME TrustInv, UNCHANGED world, WriteSeed
  PROVE  TrustInv' /\ mem'.active = mem.active /\ mem'.accepted = mem.accepted /\ mem'.floor = mem.floor
<1>0. PICK op \in {"mkdir", "files", "owner"}, kind \in {"empty", "files", "seed"}, dirs \in {{}, {"generations"}} :
        SeedWrite(op, kind, dirs)
  <2>1. CASE SeedWrite("mkdir", "empty", {})
    BY <2>1
  <2>2. CASE SeedWrite("files", "files", {})
    BY <2>2
  <2>3. CASE SeedWrite("owner", "seed", {"generations"})
    BY <2>3
  <2> QED  BY <2>1, <2>2, <2>3 DEF WriteSeed, SeedWrite
<1>z. /\ Perform(op, [mem EXCEPT !.gen[SeedGen] = Seeded(kind)], dirs)
      /\ IF op = "owner" THEN kind = "seed" /\ dirs = {"generations"} ELSE dirs = {}
  BY <1>0 DEF SeedWrite
<1> DEFINE gen == [mem.gen EXCEPT ![SeedGen] = Seeded(kind)]
           m == [mem EXCEPT !.gen = gen]
<1>a. /\ run.pc = "reconcile" /\ run.gen = SeedGen /\ (OneKind => Bare /\ mem.accepted = 0)
      /\ \/ op = "mkdir" /\ run.todo = Seed0
         \/ op = "files" /\ run.todo = Seed1
         \/ op = "owner" /\ run.todo = Seed2
  <2>1. run.todo # <<>> /\ Head(run.todo) = op
    BY <1>z DEF Perform
  <2>2. op \in {"mkdir", "files", "owner"}
    BY <1>0
  <2> QED  BY <2>1, <2>2, Lists, Heads DEF TrustInv, Stages, Stage
<1>b. mem.gen \in [Gens -> Dirs] /\ Seeded(kind) \in Dirs /\ Seeded(kind).kind = kind /\ Seeded(kind).issued = 0
  BY DEF TrustInv, Typed, Stores, Seeded, Dir, Dirs, Kinds
<1>c. gen \in [Gens -> Dirs] /\ gen[SeedGen] = Seeded(kind) /\ \A h \in Gens \ {SeedGen} : gen[h] = mem.gen[h]
  BY <1>b, Numbers
<1> HIDE DEF gen
<1>1. /\ m \in Stores /\ m.journal = mem.journal /\ m.active = mem.active /\ m.accepted = mem.accepted
      /\ m.floor = mem.floor /\ m.gen = gen /\ m.stg = mem.stg
  BY <1>c DEF TrustInv, Typed, Stores
<1>2. Perform(op, m, dirs)
  BY <1>z DEF m, gen
<1> HIDE DEF m
<1>3. /\ Typed' /\ mem' = m /\ disk' = disk /\ sync = {} /\ sync' = dirs
      /\ crashes' = crashes /\ done' = done
      /\ run.todo # <<>> /\ Head(run.todo) = op /\ run'.todo = Tail(run.todo)
      /\ run'.pc = run.pc /\ run'.rel = run.rel /\ run'.now = run.now
      /\ run'.gen = run.gen /\ run'.slot = run.slot
  BY <1>z, <1>1, <1>2, Performed DEF TrustInv
<1>4. /\ run.todo = Seed0 => run'.todo = Seed1
      /\ run.todo = Seed1 => run'.todo = Seed2
      /\ run.todo = Seed2 => run'.todo = Seed3
  BY <1>3, Tails
<1>d. op # "owner" => dirs = {}
  BY <1>z
<1>6. Stages'
  <2>1. CASE op # "owner"
    BY <1>1, <1>3, <1>4, <1>a, <1>d, <2>1 DEF Stages, Stage, Bare, OneKind
  <2>2. CASE op = "owner"
    BY <1>z, <1>1, <1>3, <1>4, <1>a, <1>b, <1>c, <2>2, Numbers DEF Stages, Stage, Bare, Whole, OneKind
  <2> QED  BY <2>1, <2>2
<1>7. ASSUME OneKind PROVE GoodStore'
  <2>1. GoodStore /\ Sorted(mem.gen) /\ mem.active >= done /\ mem.accepted >= done /\ Bare /\ mem.accepted = 0
    BY <1>7, <1>a DEF TrustInv, StoreInv, GoodStore, Good
  <2>2. Unseeded(mem.journal, mem.active, mem.accepted, mem.gen)
    BY <2>1, Numbers DEF GoodStore, Good, Whole, Bare
  <2>3. Unseeded(mem.journal, mem.active, mem.accepted, gen)
    BY <1>c, <2>1, <2>2 DEF Unseeded, SeedGen
  <2>4. Sorted(gen)
    BY <1>b, <1>c, <2>1 DEF Sorted
  <2> QED  BY <1>1, <1>3, <2>1, <2>3, <2>4 DEF GoodStore, Good
<1>8. StoreInv'
  <2>1. "kill" \notin world.faults /\ OneKind => Synced'
    <3>1. CASE op # "owner"
      BY <1>1, <1>3, <1>4, <1>a, <1>d, <3>1 DEF TrustInv, StoreInv, Synced, SameEntries, WritingSeeds
    <3>2. CASE op = "owner"
      BY <1>z, <1>1, <1>3, <3>2 DEF TrustInv, StoreInv, Synced, SameEntries
    <3> QED  BY <3>1, <3>2
  <2> QED  BY <1>1, <1>3, <1>7, <2>1, TreeWritten DEF TrustInv
<1>9. RecoverInv'
  <2>1. ~KillsOnly
    BY <1>a DEF TrustInv, RecoverInv, KillsOnly, OneKind, Bare
  <2> QED  BY <2>1 DEF RecoverInv, KillsOnly
<1> QED  BY <1>1, <1>3, <1>6, <1>8, <1>9 DEF TrustInv

LEMMA FsyncStep ==
  ASSUME TrustInv, Fsync, UNCHANGED world
  PROVE  TrustInv' /\ mem' = mem
<1>1. UNCHANGED <<mem, run, clock, crashes, done>> /\ sync # {} /\ sync' = {}
  BY DEF Fsync
<1>2. disk' \in Stores
  BY DEF Fsync, TrustInv, Typed, Stores, Place
<1>3. Typed'
  BY <1>1, <1>2 DEF TrustInv, Typed
<1>4. Stages'
  <2>1. ~(Stage("reconcile", Seed0) \/ Stage("reconcile", Seed1) \/ Stage("reconcile", Seed2))
    BY <1>1, Lists, Heads DEF TrustInv, Stages, Stage
  <2> QED
    BY <1>1, <2>1 DEF TrustInv, Stages, Stage, Ahead, Behind, Authorized, Steadied, Fetched, Holds, Flippable, Flipped,
                      Recorded, Bare, Entry, StagedHere, OneKind
<1>5. WritingSeeds => sync = {}
  BY <1>1, Lists, Heads DEF TrustInv, Stages, Stage, WritingSeeds
<1>6. StoreInv'
  BY <1>5, FsyncKeeps DEF TrustInv
<1>7. RecoverInv'
  BY <1>1 DEF TrustInv, RecoverInv, Uninterrupted, Actionable, Moved
<1> QED  BY <1>1, <1>3, <1>4, <1>6, <1>7 DEF TrustInv

-----------------------------------------------------------------------------
(* Decisions. *)

\* A decision leaves the store as it is.
LEMMA Decided ==
  ASSUME TrustInv, UNCHANGED <<mem, disk, sync, clock, crashes, done, world>>, run.todo = <<>>, run.pc # "done",
         run' \in Runs, run'.pc # "idle", run'.rel \in Releases, ~WritingSeeds', ~Moved',
         run'.pc = "recover" => run.pc \in {"idle", "recover"}, Stages'
  PROVE  TrustInv'
<1>1. ~WritingSeeds /\ ~Moved
  BY Lists DEF WritingSeeds, Moved
<1>2. Typed'
  BY DEF TrustInv, Typed
<1>3. StoreInv'
  <2>1. GoodStore => GoodStore'
    BY DEF GoodStore
  <2>2. GoodMixes => GoodMixes'
    BY DEF GoodMixes
  <2>3. Synced => Synced'
    BY <1>1 DEF Synced, SameEntries
  <2> QED  BY <2>1, <2>2, <2>3 DEF TrustInv, StoreInv, OneKind
<1>4. RecoverInv'
  BY <1>1 DEF TrustInv, RecoverInv, Uninterrupted, Actionable
<1> QED  BY <1>2, <1>3, <1>4 DEF TrustInv

\* An update that ends with an error where there is no journal.
LEMMA Refused ==
  ASSUME TrustInv, UNCHANGED <<mem, disk, sync, clock, crashes, done, world>>, run.todo = <<>>, run' = Idle,
         sync = {}, OneKind => mem.journal = Clean
  PROVE  TrustInv'
<1>1. ~WritingSeeds /\ ~Moved
  BY Lists DEF WritingSeeds, Moved
<1>2. KillsOnly => OneKind /\ mem.journal = Clean
  BY DEF KillsOnly, OneKind
<1> QED  BY <1>1, <1>2, GivenUp DEF Actionable

\* Where a step that decides is taken.
LEMMA Where ==
  ASSUME TrustInv, run.todo = <<>>
  PROVE  /\ run.pc = "pointer" \/ run.pc = "failed" => (OneKind => mem.journal = Clean)
         /\ run.pc = "reconcile" \/ run.pc = "apply" => (OneKind => mem.journal = Clean /\ Steadied)
         /\ run.pc = "done" => Behind /\ (OneKind => mem.journal = Clean)
         /\ ~WritingSeeds /\ ~Moved
<1>1. ~WritingSeeds /\ ~Moved
  BY Lists DEF WritingSeeds, Moved
<1> QED  BY <1>1, Lists DEF TrustInv, Stages, Stage

\* In a good store the pointer is absent or names a generation.
LEMMA Pointer ==
  ASSUME TrustInv, OneKind
  PROVE  /\ ReadActive = mem.active
         /\ mem.active = 0 => Unseeded(mem.journal, mem.active, mem.accepted, mem.gen)
         /\ mem.active # 0 => /\ Steadied \/ Pending(mem.journal, mem.active, mem.accepted, mem.gen, mem.stg)
                              /\ Whole(mem.gen, mem.active)
<1>1. GoodStore
  BY DEF TrustInv, StoreInv
<1> QED  BY <1>1, Numbers DEF GoodStore, Good, ReadActive, Exists, Whole, Steadied, Unseeded

LEMMA BeginStep ==
  ASSUME TrustInv, NEW r \in Releases, Begin(r), UNCHANGED world
  PROVE  TrustInv'
<1>1. run.pc = "idle" /\ run.todo = <<>> /\ run' = [Idle EXCEPT !.pc = "recover", !.rel = r, !.now = clock]
      /\ UNCHANGED <<mem, disk, sync, clock, crashes, done, world>>
  BY DEF Begin, At, Unmoved
<1>2. clock \in Time
  BY DEF TrustInv, Typed
<1>3. run' \in Runs /\ run'.pc = "recover" /\ run'.rel = r /\ run'.todo = <<>>
  BY <1>1, <1>2, IdleIs DEF Runs, Pcs
<1>4. Stages'
  BY <1>3 DEF Stages, Stage
<1> QED  BY <1>1, <1>3, <1>4, Decided DEF WritingSeeds, Moved

\* What recovery does about a journal it acts on.
Outcome(p) ==
  LET j == mem.journal
      staged == mem.stg[j.slot] # NoRelease
      fetched == mem.gen[j.gen].kind = "release"
  IN \/ j = Clean /\ p.todo = <<>> /\ p.then = "pointer"
     \/ /\ j \in Journals \ {Clean} /\ mem.accepted <= j.gen /\ ReadActive <= j.gen
        /\ \/ j.phase = "staged" /\ staged /\ p.todo = Drop0 /\ p.then = "pointer"
           \/ ReadActive # j.gen /\ p.todo = Drop1 /\ p.then = "failed"
           \/ /\ fetched /\ (ReadActive = j.gen \/ Fresh(mem.gen[j.gen], run.now))
              /\ p.then = "pointer"
              /\ \/ j.phase = "staged" /\ ~staged /\ p.todo = Adopt0
                 \/ j.phase = "committed" /\ p.todo = Resume0
           \/ /\ fetched /\ ReadActive = j.gen /\ j.phase # "staged" /\ p.then = "pointer"
              /\ p.todo \in {Tidy, Adopt1}
           \/ j.phase = "committed" /\ ReadActive # j.gen /\ p.todo = Redo /\ p.then = "recover"

LEMMA Outcomes ==
  ASSUME TrustInv, RecoveryPlan(mem.journal) # Refusal
  PROVE  Outcome(RecoveryPlan(mem.journal))
<1> DEFINE j == mem.journal  p == RecoveryPlan(j)
<1>1. CASE j = Clean
  BY <1>1 DEF RecoveryPlan, Plan, Outcome
<1>2. CASE j # Clean
  <2>1. j \in Journals /\ mem.accepted \in Nat /\ j.gen \in Gens /\ j.gen \in Nat /\ ReadActive \in Nat
    BY <1>2, Quantities, Numbers DEF TrustInv, Journals, ReadActive
  <2>2. ~JournalStale /\ mem.accepted <= j.gen /\ ReadActive <= j.gen
    BY <1>2, <2>1 DEF RecoveryPlan, JournalStale
  <2>3. CASE j.phase = "staged"
    <3>1. p = StagedPlan(j)
      BY <1>2, <2>2, <2>3 DEF RecoveryPlan
    <3> QED  BY <1>2, <2>1, <2>2, <2>3, <3>1 DEF StagedPlan, Plan, Dropped, Outcome, Drop0, Drop1, Adopt0, Signed
  <2>4. CASE j.phase = "committed"
    <3>1. p = CommittedPlan(j)
      BY <1>2, <2>2, <2>4 DEF RecoveryPlan
    <3>2. p # Refusal
      OBVIOUS
    <3> SUFFICES Outcome(p)
      OBVIOUS
    <3> HIDE DEF p
    <3>3. CASE ReadActive = j.gen
      BY <1>2, <2>1, <2>2, <2>4, <3>1, <3>2, <3>3 DEF CommittedPlan, Plan, Outcome, Tidy, Signed
    <3>4. CASE ReadActive # j.gen /\ p = [todo |-> <<"commit">>, then |-> "recover"]
      BY <1>2, <2>1, <2>2, <2>4, <3>4 DEF Outcome, Redo
    <3>5. CASE ReadActive # j.gen /\ p = Dropped
      BY <1>2, <2>1, <2>2, <2>4, <3>5 DEF Outcome, Dropped, Drop1
    <3>6. CASE /\ ReadActive # j.gen /\ Signed(j.gen) /\ VerifyCandidate(j.gen, mem.gen[j.gen])
               /\ p = Plan(<<"flip", "accept", "floor", "remove", "clear">>)
      BY <1>2, <2>1, <2>2, <2>4, <3>6 DEF Outcome, Plan, Resume0, Signed, VerifyCandidate
    <3> QED  BY <3>1, <3>2, <3>3, <3>4, <3>5, <3>6 DEF CommittedPlan
  <2>5. CASE j.phase \notin {"staged", "committed"}
    <3>1. p = ActivatedPlan(j)
      BY <1>2, <2>2, <2>5 DEF RecoveryPlan
    <3> QED  BY <1>2, <2>1, <2>2, <2>5, <3>1 DEF ActivatedPlan, Plan, Outcome, Adopt1, Signed
  <2> QED  BY <2>3, <2>4, <2>5
<1> QED  BY <1>1, <1>2

LEMMA RecoverStep ==
  ASSUME TrustInv, Recover, UNCHANGED world
  PROVE  TrustInv'
<1> DEFINE j == mem.journal  p == RecoveryPlan(j)
<1>1. run.pc = "recover" /\ run.todo = <<>> /\ sync = {} /\ UNCHANGED <<mem, disk, sync, clock, crashes, done, world>>
  BY DEF Recover, At, Unmoved
<1>2. run' = IF p = Refusal THEN Idle ELSE [run EXCEPT !.gen = j.gen, !.slot = j.slot, !.todo = p.todo, !.pc = p.then]
  BY DEF Recover
<1>3. ~WritingSeeds /\ ~Moved
  BY <1>1, Where
<1>4. CASE p = Refusal
  BY <1>1, <1>2, <1>3, <1>4, GivenUp DEF TrustInv, RecoverInv, Uninterrupted, KillsOnly
<1>5. CASE p # Refusal
  <2>1. Outcome(p)
    BY <1>5, Outcomes
  <2>2. run' = [run EXCEPT !.gen = j.gen, !.slot = j.slot, !.todo = p.todo, !.pc = p.then]
    BY <1>2, <1>5
  <2> HIDE DEF p
  <2>3. j \in Journals /\ j.gen \in Gens \cup {0} /\ j.slot \in Slots \cup {0} /\ (j # Clean => j.gen \in Gens /\ j.gen \in Nat)
    <3>1. j \in Journals
      BY Quantities DEF TrustInv
    <3>2. j.gen \in Gens \cup {0} /\ j.slot \in Slots \cup {0} /\ (j # Clean => j.gen \in Gens)
      BY <3>1 DEF Journals, Clean
    <3> QED  BY <3>1, <3>2, Numbers
  <2>4. /\ p.todo \in {<<>>, Drop0, Drop1, Adopt0, Resume0, Tidy, Adopt1, Redo}
        /\ p.then \in {"pointer", "failed", "recover"}
    BY <2>1 DEF Outcome
  <2>5. p.todo \in Seq(Ops) /\ p.then \in Pcs
    BY <2>4, Listed DEF Pcs
  <2>6. run \in Runs /\ run.rel \in Releases
    BY <1>1 DEF TrustInv, Typed
  <2>7. /\ run' \in Runs /\ run'.pc = p.then /\ run'.todo = p.todo /\ run'.gen = j.gen /\ run'.slot = j.slot
        /\ run'.rel = run.rel /\ run'.now = run.now
    BY <2>2, <2>3, <2>5, <2>6 DEF Runs
  <2>8. ~WritingSeeds' /\ ~Moved'
    BY <2>4, <2>7 DEF WritingSeeds, Moved
  <2>9. mem.active \in Nat /\ mem.accepted \in Nat
    BY Quantities DEF TrustInv
  <2>10. Stages'
    <3>1. CASE j = Clean /\ p.todo = <<>> /\ p.then = "pointer"
      BY <1>1, <2>7, <3>1 DEF Stages, Stage
    <3>a. OneKind /\ j # Clean => ReadActive = mem.active /\ (mem.active # j.gen => Steadied)
      BY Pointer, Numbers DEF Unseeded, Pending, Held
    <3>b. OneKind /\ j # Clean /\ j.phase = "staged" /\ mem.stg[j.slot] # NoRelease => Steadied
      BY Pointer, Numbers DEF Unseeded, Pending, Held
    <3>2. CASE j # Clean /\ j.phase = "staged" /\ mem.stg[j.slot] # NoRelease /\ p.todo = Drop0 /\ p.then = "pointer"
      BY <1>1, <2>7, <3>2, <3>b DEF Stages, Stage, Steadied, OneKind
    <3>3. CASE j # Clean /\ ReadActive # j.gen /\ p.todo = Drop1 /\ p.then = "failed"
      BY <1>1, <2>7, <3>3, <3>a DEF Stages, Stage, Steadied, OneKind
    <3>4. CASE /\ j # Clean /\ mem.accepted <= j.gen /\ ReadActive <= j.gen
               /\ mem.gen[j.gen].kind = "release" /\ (ReadActive = j.gen \/ Fresh(mem.gen[j.gen], run.now))
               /\ p.then = "pointer"
               /\ \/ j.phase = "staged" /\ mem.stg[j.slot] = NoRelease /\ p.todo = Adopt0
                  \/ j.phase = "committed" /\ p.todo = Resume0
      <4>1. Authorized'
        BY <1>1, <2>3, <2>7, <3>4, Numbers DEF Authorized, ReadActive, Fresh
      <4>2. OneKind => Flippable'
        BY <1>1, <2>7, <3>4, <3>a DEF Flippable, Fetched, Holds, Held
      <4> QED  BY <1>1, <2>3, <2>7, <3>4, <4>1, <4>2 DEF Stages, Stage, OneKind
    <3>5. CASE /\ j # Clean /\ mem.accepted <= j.gen
               /\ mem.gen[j.gen].kind = "release" /\ ReadActive = j.gen /\ j.phase # "staged" /\ p.then = "pointer"
               /\ p.todo \in {Tidy, Adopt1}
      <4>1. OneKind => Flipped'
        BY <1>1, <2>7, <3>5, <3>a DEF Flipped, Fetched, Holds, Held
      <4> QED  BY <1>1, <2>3, <2>7, <3>5, <4>1 DEF Stages, Stage, OneKind
    <3>6. CASE /\ j # Clean /\ j.phase = "committed" /\ ReadActive # j.gen /\ ReadActive <= j.gen
               /\ p.todo = Redo /\ p.then = "recover"
      <4>1. j.slot \in Slots /\ j = [phase |-> "committed", gen |-> j.gen, slot |-> j.slot]
        BY <2>3, <3>6 DEF Journals
      <4>2. Ahead'
        BY <1>1, <2>3, <2>7, <2>9, <3>6, <3>a DEF Ahead, Steadied, OneKind
      <4>3. mem'.journal = Entry("committed")'
        BY <1>1, <2>7, <4>1 DEF Entry
      <4> QED  BY <2>7, <3>6, <4>1, <4>2, <4>3 DEF Stages, Stage
    <3> QED  BY <2>1, <3>1, <3>2, <3>3, <3>4, <3>5, <3>6 DEF Outcome
  <2>11. run'.pc # "idle"
    BY <2>4, <2>7
  <2> QED  BY <1>1, <2>6, <2>7, <2>8, <2>10, <2>11, Decided
<1> QED  BY <1>4, <1>5

LEMMA PointerStep ==
  ASSUME TrustInv, PointerKept, UNCHANGED world
  PROVE  TrustInv'
<1>1. /\ run.pc = "pointer" /\ run.todo = <<>> /\ sync = {} /\ UNCHANGED <<mem, disk, sync, clock, crashes, done, world>>
      /\ ReadActive # 0 /\ run' = [run EXCEPT !.todo = <<>>, !.pc = "reconcile"]
  BY DEF PointerKept, At, Unmoved, Do
<1>2. run \in Runs /\ run.rel \in Releases
  BY <1>1 DEF TrustInv, Typed
<1>3. run' \in Runs /\ run'.pc = "reconcile" /\ run'.todo = <<>> /\ run'.rel = run.rel
  BY <1>1, <1>2, Listed DEF Runs, Pcs
<1>4. OneKind => mem.journal = Clean /\ Steadied
  BY <1>1, Where, Pointer DEF Pending, Held
<1>5. Stages'
  BY <1>1, <1>3, <1>4 DEF Stages, Stage, Steadied, OneKind
<1>6. ~WritingSeeds' /\ ~Moved'
  BY <1>3, Lists DEF WritingSeeds, Moved
<1> QED  BY <1>1, <1>2, <1>3, <1>5, <1>6, Decided

LEMMA RepairStep ==
  ASSUME TrustInv, RepairActivePointer, UNCHANGED world
  PROVE  TrustInv'
<1> DEFINE whole == mem.gen[mem.accepted].kind \in {"release", "seed"}
<1>1. /\ run.pc = "pointer" /\ run.todo = <<>> /\ sync = {} /\ UNCHANGED <<mem, disk, sync, clock, crashes, done, world>>
      /\ ReadActive = 0 /\ Exists(mem.accepted)
      /\ run' = IF whole THEN [run EXCEPT !.gen = mem.accepted, !.todo = <<"flip">>, !.pc = "reconcile"] ELSE Idle
  BY DEF RepairActivePointer, At, Unmoved, GiveUp
<1>2. CASE ~whole
  BY <1>1, <1>2, Where, Refused
<1>3. CASE whole
  <2>1. run \in Runs /\ run.rel \in Releases /\ mem.accepted \in Gens
    BY <1>1 DEF TrustInv, Typed, Exists
  <2>2. run' \in Runs /\ run'.pc = "reconcile" /\ run'.todo = Point /\ run'.rel = run.rel /\ run'.gen = mem.accepted
    BY <1>1, <1>3, <2>1, Listed DEF Runs, Pcs, Point
  <2>3. OneKind => Bare /\ mem.accepted = SeedGen /\ Whole(mem.gen, SeedGen)
    BY <1>1, <1>3, <2>1, Where, Pointer, Numbers DEF Unseeded, Bare, Whole
  <2>4. Stages'
    BY <1>1, <2>1, <2>2, <2>3 DEF Stages, Stage, Authorized, Bare, OneKind
  <2>5. ~WritingSeeds' /\ ~Moved'
    BY <2>2, Heads DEF WritingSeeds, Moved
  <2> QED  BY <1>1, <2>1, <2>2, <2>4, <2>5, Decided
<1> QED  BY <1>2, <1>3

LEMMA BootstrapStep ==
  ASSUME TrustInv, Bootstrap, UNCHANGED world
  PROVE  TrustInv'
<1> DEFINE todo == IF Exists(SeedGen) THEN <<"accept", "flip">> ELSE <<"mkdir", "files", "owner", "accept", "flip">>
<1>1. /\ run.pc = "pointer" /\ run.todo = <<>> /\ sync = {} /\ UNCHANGED <<mem, disk, sync, clock, crashes, done, world>>
      /\ ReadActive = 0 /\ ~Exists(mem.accepted)
      /\ run' = IF BootstrapRefused THEN Idle ELSE [run EXCEPT !.gen = SeedGen, !.pc = "reconcile", !.todo = todo]
  BY DEF Bootstrap, At, Unmoved, GiveUp
<1>2. CASE BootstrapRefused
  BY <1>1, <1>2, Where, Refused
<1>3. CASE ~BootstrapRefused
  <2>1. run \in Runs /\ run.rel \in Releases
    BY <1>1 DEF TrustInv, Typed
  <2>2. todo = IF Exists(SeedGen) THEN Seed3 ELSE Seed0
    BY DEF Seed0, Seed3
  <2>3. todo \in Seq(Ops)
    BY <2>2, Listed
  <2> HIDE DEF todo
  <2>4. run' \in Runs /\ run'.pc = "reconcile" /\ run'.todo = todo /\ run'.rel = run.rel /\ run'.gen = SeedGen
    BY <1>1, <1>3, <2>1, <2>3, Numbers DEF Runs, Pcs
  <2>5. OneKind => Bare /\ mem.accepted \in {0, SeedGen}
    BY <1>1, <1>3, Where DEF BootstrapRefused, Bare
  <2>6. Exists(SeedGen) => Whole(mem.gen, SeedGen)
    BY <1>3, Numbers DEF BootstrapRefused, Exists, Whole
  <2>7. ~Exists(SeedGen) /\ OneKind => mem.accepted = 0
    BY <1>1, <2>5, Pointer, Numbers DEF Unseeded, Exists, Bare
  <2>8. Stages'
    BY <1>1, <2>2, <2>4, <2>5, <2>6, <2>7 DEF Stages, Stage, Bare, OneKind
  <2>9. ~WritingSeeds' /\ ~Moved'
    BY <2>2, <2>4, Heads DEF WritingSeeds, Moved
  <2> QED  BY <1>1, <2>1, <2>4, <2>8, <2>9, Decided
<1> QED  BY <1>2, <1>3

LEMMA ClockStep ==
  ASSUME TrustInv, ClockBehind, UNCHANGED world
  PROVE  TrustInv'
<1>1. run.pc = "pointer" /\ run.todo = <<>> /\ sync = {} /\ UNCHANGED <<mem, disk, sync, clock, crashes, done, world>> /\ run' = Idle
  BY DEF ClockBehind, At, Unmoved, GiveUp
<1> QED  BY <1>1, Where, Refused

LEMMA ReconcileStep ==
  ASSUME TrustInv, ReconcileAccepted, UNCHANGED world
  PROVE  TrustInv'
<1>1. run.pc = "reconcile" /\ run.todo = <<>> /\ sync = {} /\ UNCHANGED <<mem, disk, sync, clock, crashes, done, world>>
  BY DEF ReconcileAccepted, At, Unmoved
<1>2. run \in Runs /\ run.rel \in Releases
  BY <1>1 DEF TrustInv, Typed
<1>3. OneKind => mem.journal = Clean /\ Steadied
  BY <1>1, Where
<1>4. CASE run' = Idle
  BY <1>1, <1>3, <1>4, Refused
<1>5. CASE run' = [run EXCEPT !.todo = <<>>, !.pc = "apply"]
  <2>1. run' \in Runs /\ run'.pc = "apply" /\ run'.todo = <<>> /\ run'.rel = run.rel
    BY <1>2, <1>5, Listed DEF Runs, Pcs
  <2>2. Stages'
    BY <1>1, <1>3, <2>1 DEF Stages, Stage, Steadied, OneKind
  <2>3. ~WritingSeeds' /\ ~Moved'
    BY <2>1, Lists DEF WritingSeeds, Moved
  <2> QED  BY <1>1, <1>2, <2>1, <2>2, <2>3, Decided
<1>6. CASE /\ mem.accepted # ReadActive /\ ~(mem.accepted = 0 \/ mem.accepted > ReadActive)
           /\ run' = [run EXCEPT !.gen = ReadActive, !.todo = <<"accept", "floor">>, !.pc = "apply"]
  <2>1. ReadActive \in Gens
    BY <1>6, Quantities, Numbers DEF TrustInv, ReadActive, Exists
  <2>2. run' \in Runs /\ run'.pc = "apply" /\ run'.todo = Record0 /\ run'.rel = run.rel /\ run'.gen = ReadActive
    BY <1>2, <1>6, <2>1, Listed DEF Runs, Pcs, Record0
  <2>3. ~OneKind
    BY <1>3, <1>6, Pointer DEF Steadied, Steady
  <2>4. Stages'
    BY <1>1, <2>1, <2>2, <2>3 DEF Stages, Stage, OneKind
  <2>5. ~WritingSeeds' /\ ~Moved'
    BY <2>2, Heads DEF WritingSeeds, Moved
  <2> QED  BY <1>1, <1>2, <2>2, <2>4, <2>5, Decided
<1> QED  BY <1>4, <1>5, <1>6 DEF ReconcileAccepted, Do, GiveUp

LEMMA ApplyStages ==
  ASSUME TrustInv, UNCHANGED <<world, disk, sync, clock, crashes, done>>, At("apply"), Admitted(run.rel),
         NEW s \in Slots, mem' = [mem EXCEPT !.stg[s] = run.rel],
         run' = [run EXCEPT !.now = clock, !.gen = run.rel.gen, !.slot = s, !.todo = Activation, !.pc = "done"]
  PROVE  TrustInv' /\ mem'.active = mem.active /\ mem'.accepted = mem.accepted /\ mem'.floor = mem.floor
<1>1. run.pc = "apply" /\ run.todo = <<>> /\ sync = {}
  BY DEF At
<1>2. run \in Runs /\ run.rel \in Releases /\ clock \in Time /\ mem \in Stores
  BY <1>1 DEF TrustInv, Typed
<1>3. run.rel.gen \in Gens /\ run.rel # NoRelease
  BY <1>2, Released
<1>4. /\ run' \in Runs /\ run'.pc = "done" /\ run'.todo = Activation /\ run'.rel = run.rel
      /\ run'.gen = run.rel.gen /\ run'.slot = s /\ run'.now = clock
  BY <1>2, <1>3, Listed DEF Runs, Pcs
<1> DEFINE stg == [mem.stg EXCEPT ![s] = run.rel]
<1>5. /\ stg \in [Slots -> Releases \cup {NoRelease}] /\ stg[s] = run.rel /\ \A q \in Slots \ {s} : stg[q] = mem.stg[q]
      /\ mem' = [mem EXCEPT !.stg = stg]
  <2>1. mem.stg \in [Slots -> Releases \cup {NoRelease}]
    BY <1>2 DEF Stores
  <2> QED  BY <1>2, <2>1
<1> HIDE DEF stg
<1>6. /\ mem' \in Stores /\ mem'.journal = mem.journal /\ mem'.active = mem.active /\ mem'.accepted = mem.accepted
      /\ mem'.floor = mem.floor /\ mem'.gen = mem.gen /\ mem'.stg = stg
  BY <1>2, <1>5 DEF Stores
<1>7. Typed'
  BY <1>2, <1>4, <1>6 DEF TrustInv, Typed
<1>8. OneKind => mem.journal = Clean /\ Steadied
  BY <1>1, Where
<1>9. Stages'
  <2>1. Ahead'
    BY <1>3, <1>4, <1>6, <1>8, Pointer DEF Ahead, Admitted, Steadied, Steady, OneKind
  <2>2. StagedHere'
    BY <1>4, <1>5, <1>6 DEF StagedHere, Admitted, Fresh
  <2> QED  BY <1>4, <1>6, <1>8, <2>1, <2>2 DEF Stages, Stage, OneKind
<1>10. OneKind => GoodStore'
  BY <1>6, <1>8 DEF TrustInv, StoreInv, GoodStore, Good, Unseeded, Pending, Held
<1>11. OneKind /\ "kill" \notin world.faults => Synced'
  <2>1. ~WritingSeeds
    BY <1>1, Where
  <2> QED  BY <1>1, <1>3, <1>5, <1>6, <2>1 DEF TrustInv, StoreInv, Synced, SameEntries
<1>12. StoreInv'
  BY <1>1, <1>6, <1>10, <1>11, TreeWritten DEF TrustInv
<1>13. RecoverInv'
  <2>1. ~Moved /\ ~Moved'
    BY <1>1, <1>4, Where, Heads DEF Moved
  <2>2. KillsOnly => OneKind
    BY DEF KillsOnly, OneKind
  <2> QED  BY <1>1, <1>4, <1>6, <1>8, <2>1, <2>2 DEF TrustInv, RecoverInv, Uninterrupted, Actionable, KillsOnly
<1> QED  BY <1>6, <1>7, <1>9, <1>12, <1>13 DEF TrustInv

LEMMA ApplyStep ==
  ASSUME TrustInv, Apply, UNCHANGED world
  PROVE  TrustInv' /\ mem'.active = mem.active /\ mem'.accepted = mem.accepted /\ mem'.floor = mem.floor
<1>1. run.pc = "apply" /\ run.todo = <<>> /\ sync = {}
  BY DEF Apply, At
<1>2. run \in Runs /\ run.rel \in Releases /\ clock \in Time
  BY <1>1 DEF TrustInv, Typed
<1>3. OneKind => mem.journal = Clean /\ Steadied
  BY <1>1, Where
<1>4. CASE GiveUp /\ Unmoved
  BY <1>1, <1>3, <1>4, Refused DEF GiveUp, Unmoved
<1>5. CASE /\ Repeated(run.rel) /\ Unmoved
           /\ run' = [run EXCEPT !.now = clock, !.gen = run.rel.gen, !.todo = <<"accept", "floor">>, !.pc = "done"]
  <2>1. run.rel.gen \in Gens
    BY <1>2, Released
  <2>2. run' \in Runs /\ run'.pc = "done" /\ run'.todo = Record0 /\ run'.rel = run.rel /\ run'.gen = run.rel.gen
    BY <1>2, <1>5, <2>1, Listed DEF Runs, Pcs, Record0
  <2>3. UNCHANGED <<mem, disk, sync, clock, crashes, done, world>>
    BY <1>5 DEF Unmoved
  <2>4. Behind'
    BY <1>3, <1>5, <2>1, <2>2, <2>3, Pointer DEF Behind, Repeated, Steadied, OneKind
  <2>5. Stages'
    BY <1>3, <2>2, <2>3, <2>4 DEF Stages, Stage, OneKind
  <2>6. ~WritingSeeds' /\ ~Moved'
    BY <2>2, Heads DEF WritingSeeds, Moved
  <2> QED  BY <1>1, <1>2, <2>2, <2>3, <2>5, <2>6, Decided
<1>6. ASSUME Admitted(run.rel), UNCHANGED <<disk, sync, clock, crashes, done>>,
             NEW s \in Slots, mem' = [mem EXCEPT !.stg[s] = run.rel],
             run' = [run EXCEPT !.now = clock, !.gen = run.rel.gen, !.slot = s, !.todo = Activation, !.pc = "done"]
      PROVE  TrustInv' /\ mem'.active = mem.active /\ mem'.accepted = mem.accepted /\ mem'.floor = mem.floor
  <2>1. At("apply")
    BY DEF Apply
  <2> QED  BY <1>6, <2>1, ApplyStages
<1> QED  BY <1>4, <1>5, <1>6 DEF Apply

LEMMA FinishStep ==
  ASSUME TrustInv, Finish, UNCHANGED world
  PROVE  TrustInv' /\ mem' = mem
<1>1. /\ run.pc \in {"done", "failed"} /\ run.todo = <<>> /\ sync = {} /\ UNCHANGED <<mem, disk, sync, clock, crashes>>
      /\ run' = Idle /\ done' = IF run.pc = "done" /\ run.gen > done THEN run.gen ELSE done
  BY DEF Finish, At
<1>2. /\ run.pc = "failed" => (OneKind => mem.journal = Clean)
      /\ run.pc = "done" => run.gen \in Gens /\ (OneKind => mem.journal = Clean /\ Steadied /\ mem.active = run.gen)
      /\ ~WritingSeeds /\ ~Moved
  BY <1>1, Where DEF Behind
<1>3. done' \in Gens \cup {0}
  BY <1>1, <1>2 DEF TrustInv, Typed
<1>4. Typed'
  BY <1>1, <1>3, IdleIs DEF TrustInv, Typed
<1>5. Stages'
  BY <1>1, IdleIs DEF Stages, Stage
<1>6. StoreInv'
  <2> SUFFICES ASSUME OneKind PROVE GoodStore' /\ ("kill" \notin world.faults => GoodMixes' /\ Synced')
    BY DEF StoreInv, OneKind
  <2>1. GoodStore
    BY DEF TrustInv, StoreInv
  <2>2. mem.active >= done' /\ mem.accepted >= done'
    BY <1>1, <1>2, <2>1, Quantities DEF TrustInv, GoodStore, Good, Steadied, Steady
  <2>3. GoodStore'
    BY <1>1, <2>1, <2>2 DEF GoodStore, Good
  <2>4. ASSUME "kill" \notin world.faults PROVE GoodMixes' /\ Synced'
    <3>1. GoodMixes /\ Synced /\ SameEntries
      BY <1>1, <2>4 DEF TrustInv, StoreInv, Synced
    <3>2. Synced'
      BY <1>1, <1>2, <3>1 DEF Synced, SameEntries
    <3>3. GoodMixes'
      BY <1>1, <2>2, <3>1 DEF GoodMixes, Good, SameEntries
    <3> QED  BY <3>2, <3>3
  <2> QED  BY <2>3, <2>4
<1>7. RecoverInv'
  <2>1. KillsOnly => OneKind /\ mem.journal = Clean
    BY <1>1, <1>2 DEF KillsOnly, OneKind
  <2> QED  BY <1>1, <1>2, <2>1, IdleIs DEF TrustInv, RecoverInv, Uninterrupted, Actionable, KillsOnly, Moved
<1> QED  BY <1>1, <1>4, <1>5, <1>6, <1>7 DEF TrustInv

-----------------------------------------------------------------------------
(* The environment. *)

LEMMA KillStep ==
  ASSUME TrustInv, KillUpdate, UNCHANGED world, world \in Worlds
  PROVE  TrustInv'
<1>1. /\ "kill" \in world.faults /\ crashes < world.crashes /\ crashes' = crashes + 1 /\ run' = Idle /\ sync' = {}
      /\ UNCHANGED <<mem, disk, clock, done>>
  BY DEF KillUpdate, Crash
<1>2. world.crashes \in Nat /\ crashes \in Nat
  BY TrustAssumption DEF World, TrustInv, Typed
<1>3. Typed'
  BY <1>1, <1>2, IdleIs DEF TrustInv, Typed
<1>4. Stages'
  BY <1>1, IdleIs DEF Stages, Stage
<1>5. StoreInv'
  BY <1>1 DEF TrustInv, StoreInv, GoodStore, OneKind
<1>6. RecoverInv'
  BY <1>1, <1>2, IdleIs DEF TrustInv, RecoverInv, Actionable
<1> QED  BY <1>3, <1>4, <1>5, <1>6 DEF TrustInv

LEMMA PowerStep ==
  ASSUME TrustInv, PowerFails, UNCHANGED world, world \in Worlds
  PROVE  TrustInv'
<1>1. /\ "power" \in world.faults /\ crashes < world.crashes /\ crashes' = crashes + 1 /\ run' = Idle /\ sync' = {}
      /\ UNCHANGED <<clock, done>> /\ disk' = mem'
  BY DEF PowerFails, Crash
<1>2. PICK K \in SUBSET Fates : mem' = [part \in DOMAIN mem |-> IF part \in UNION K THEN mem[part] ELSE disk[part]]
  BY DEF PowerFails
<1>3. mem \in Stores /\ disk \in Stores
  BY DEF TrustInv, Typed
<1>4. "gen" \in UNION K <=> "stg" \in UNION K
  BY <1>2 DEF Fates
<1>5. mem' \in Stores
  BY <1>2, <1>3 DEF Stores
<1>6. /\ mem'.journal \in {mem.journal, disk.journal} /\ mem'.active \in {mem.active, disk.active}
      /\ mem'.accepted \in {mem.accepted, disk.accepted} /\ mem'.floor \in {mem.floor, disk.floor}
      /\ \E t \in {mem, disk} : mem'.gen = t.gen /\ mem'.stg = t.stg
  BY <1>2, <1>3, <1>4 DEF Stores
<1>7. world.crashes \in Nat /\ crashes \in Nat
  BY TrustAssumption DEF World, TrustInv, Typed
<1>8. Typed'
  BY <1>1, <1>5, <1>7, IdleIs DEF TrustInv, Typed
<1>9. Stages'
  BY <1>1, IdleIs DEF Stages, Stage
<1>10. StoreInv'
  <2> SUFFICES ASSUME OneKind PROVE GoodStore' /\ GoodMixes' /\ Synced'
    BY DEF StoreInv, OneKind
  <2>1. GoodMixes
    <3>1. world.faults \subseteq {"kill", "power"}
      BY TrustAssumption DEF World
    <3>2. "kill" \notin world.faults
      BY <1>1, <3>1 DEF OneKind
    <3> QED  BY <3>2 DEF TrustInv, StoreInv
  <2>2. GoodStore'
    BY <1>1, <1>6, <2>1 DEF GoodMixes, GoodStore
  <2>3. GoodMixes'
    BY <1>1, <2>2 DEF GoodMixes, GoodStore
  <2>4. Synced'
    BY <1>1 DEF Synced, SameEntries
  <2> QED  BY <2>2, <2>3, <2>4
<1>11. RecoverInv'
  BY <1>1 DEF RecoverInv
<1> QED  BY <1>8, <1>9, <1>10, <1>11 DEF TrustInv

LEMMA TimeStep ==
  ASSUME TrustInv, ClockMoves, UNCHANGED world
  PROVE  TrustInv'
<1>1. clock' \in Time /\ UNCHANGED <<mem, disk, sync, run, crashes, done, world>>
  BY DEF ClockMoves
<1>2. Typed'
  BY <1>1 DEF TrustInv, Typed
<1>3. Stages'
  BY <1>1 DEF TrustInv, Stages, Stage, Ahead, Behind, Authorized, Steadied, Fetched, Holds, Flippable, Flipped,
              Recorded, Bare, Entry, StagedHere, OneKind
<1>4. StoreInv'
  BY <1>1 DEF TrustInv, StoreInv, GoodStore, GoodMixes, Synced, SameEntries, WritingSeeds, OneKind
<1>5. RecoverInv'
  BY <1>1 DEF TrustInv, RecoverInv, Uninterrupted, Actionable, Moved
<1> QED  BY <1>2, <1>3, <1>4, <1>5 DEF TrustInv

LEMMA Starts ==
  ASSUME TrustInit
  PROVE  TrustInv /\ world \in Worlds
<1> DEFINE g == IF world.installed THEN SeedGen ELSE 0
           gen == [h \in Gens |-> IF h = g THEN Seeded("seed") ELSE NoDir]
           stg == [s \in Slots |-> NoRelease]
<1>1. /\ world \in Worlds /\ disk = mem /\ sync = {} /\ run = Idle /\ clock = 1 /\ crashes = 0 /\ done = 0
      /\ mem = [journal |-> Clean, active |-> g, accepted |-> g, floor |-> 0, gen |-> gen, stg |-> stg]
  BY DEF TrustInit, Store
<1>2. world.crashes \in Nat /\ 1 \in Time /\ 0 \in 0 .. world.crashes
  BY <1>1, TrustAssumption DEF World, Time
<1>3. /\ Seeded("seed") \in Dirs /\ Seeded("seed").kind = "seed" /\ Seeded("seed").issued = 0
      /\ NoDir \in Dirs /\ NoDir.kind = "none" /\ NoDir.issued = 0
  BY DEF Seeded, NoDir, Dir, Dirs, Kinds
<1>4. /\ gen \in [Gens -> Dirs] /\ stg \in [Slots -> Releases \cup {NoRelease}]
      /\ \A h \in Gens : gen[h] = IF h = g THEN Seeded("seed") ELSE NoDir
  BY <1>3
<1>5. g \in Gens \cup {0} /\ (g # 0 => g = SeedGen /\ g \in Gens) /\ g \in Nat /\ (world.installed => g # 0)
  BY Numbers DEF SeedGen
<1> HIDE DEF gen, stg, g
<1>6. /\ mem \in Stores /\ mem.journal = Clean /\ mem.active = g /\ mem.accepted = g /\ mem.floor = 0
      /\ mem.gen = gen /\ mem.stg = stg
  BY <1>1, <1>4, <1>5 DEF Stores, Journals
<1>7. Typed
  BY <1>1, <1>2, <1>6, IdleIs DEF Typed
<1>8. Stages
  BY <1>1, IdleIs DEF Stages, Stage
<1>9. GoodStore
  <2>1. Sorted(gen)
    <3>1. ASSUME NEW h \in Gens
          PROVE  gen[h].issued = 0 /\ gen[h].kind \in {"none", "seed"} /\ (h # SeedGen => gen[h].kind = "none")
      <4>1. CASE h = g
        BY <1>3, <1>4, <1>5, <4>1, Numbers
      <4>2. CASE h # g
        BY <1>3, <1>4, <4>2
      <4> QED  BY <4>1, <4>2
    <3> QED  BY <3>1 DEF Sorted
  <2>2. CASE g = 0
    <3>1. Unseeded(Clean, 0, 0, gen)
      BY <1>3, <1>4, <2>2, Numbers DEF Unseeded
    <3> QED  BY <1>1, <1>6, <2>1, <2>2, <3>1 DEF GoodStore, Good
  <2>3. CASE g # 0
    <3>1. gen[g].kind = "seed" /\ gen[g].issued = 0
      BY <1>3, <1>4, <1>5, <2>3
    <3> QED  BY <1>1, <1>5, <1>6, <2>1, <2>3, <3>1 DEF GoodStore, Good, Whole, Steady
  <2> QED  BY <2>2, <2>3
<1>10. GoodMixes /\ Synced
  BY <1>1, <1>9 DEF GoodMixes, GoodStore, Synced, SameEntries
<1>11. RecoverInv
  <2>1. ~Moved
    BY <1>1, IdleIs DEF Moved
  <2>2. ASSUME NEW h \in Gens, world.installed, h > g PROVE gen[h].kind = "none"
    BY <1>3, <1>4, <1>5, <2>2, Numbers
  <2> QED  BY <1>1, <1>5, <1>6, <2>1, <2>2, IdleIs DEF RecoverInv, Uninterrupted, Actionable
<1> QED  BY <1>1, <1>7, <1>8, <1>9, <1>10, <1>11 DEF TrustInv, StoreInv

-----------------------------------------------------------------------------
(* Every step. *)

\* What a step of an update, of recovery or of a repair does to the pointer,
\* the record and the floor.
Forward ==
  /\ OneKind => mem.active <= mem'.active
  /\ mem.accepted <= mem'.accepted /\ mem.floor <= mem'.floor
  /\ mem'.active # mem.active => Authorized /\ mem'.active = run.gen

LEMMA StepKeeps ==
  ASSUME TrustInv, Step, UNCHANGED world
  PROVE  TrustInv' /\ Forward
<1>0. mem.active \in Nat /\ mem.accepted \in Nat /\ mem.floor \in Nat
  BY Quantities DEF TrustInv
<1> DEFINE same == mem'.active = mem.active /\ mem'.accepted = mem.accepted /\ mem'.floor = mem.floor
<1>s. same => Forward
  BY <1>0 DEF Forward
<1>m. mem' = mem => Forward
  BY <1>0 DEF Forward
<1>1. CASE Fsync
  BY <1>1, <1>m, FsyncStep
<1>2. ASSUME NEW phase \in {"staged", "committed", "activated", "persisted"}, WriteJournal(phase)
      PROVE  TrustInv' /\ Forward
  <2>1. same
    <3>1. mem \in Stores
      BY DEF TrustInv, Typed
    <3> QED  BY <1>2, <3>1 DEF WriteJournal, Perform, Stores
  <2> QED  BY <1>2, <1>s, <2>1, JournalStep
<1>3. CASE ClearJournal
  <2>1. same
    <3>1. mem \in Stores
      BY DEF TrustInv, Typed
    <3> QED  BY <1>3, <3>1 DEF ClearJournal, Perform, Stores
  <2> QED  BY <1>3, <1>s, <2>1, ClearStep
<1>4. CASE FlipActive
  <2>1. TrustInv' /\ (OneKind => mem.active <= mem'.active) /\ Authorized /\ mem'.active = run.gen
    BY <1>4, FlipStep
  <2>2. mem'.accepted = mem.accepted /\ mem'.floor = mem.floor
    <3>1. mem \in Stores
      BY DEF TrustInv, Typed
    <3> QED  BY <1>4, <3>1 DEF FlipActive, Perform, Stores
  <2> QED  BY <1>0, <2>1, <2>2 DEF Forward
<1>5. CASE PersistAccepted
  <2>1. CASE mem.accepted > run.gen /\ Abandon("accept")
    BY <1>m, <2>1, AcceptFails DEF Abandon, Unmoved
  <2>2. CASE ~(mem.accepted > run.gen) /\ Perform("accept", [mem EXCEPT !.accepted = run.gen], {"store"})
    <3>1. TrustInv' /\ mem'.active = mem.active /\ mem'.floor = mem.floor /\ mem'.accepted = run.gen
      BY <2>2, AcceptStep
    <3>2. run.gen \in Nat
      BY Quantities DEF TrustInv
    <3> QED  BY <1>0, <2>2, <3>1, <3>2 DEF Forward
  <2> QED  BY <1>5, <2>1, <2>2 DEF PersistAccepted
<1>6. CASE PersistSignedFloor
  BY <1>0, <1>6, FloorStep DEF Forward
<1>7. CASE RemoveOwnedStaging
  BY <1>7, <1>s, RemoveStep
<1>8. CASE CommitGeneration
  <2>1. CASE /\ ~Exists(run.gen)
             /\ Perform("commit",
                  [mem EXCEPT !.gen[run.gen] = Holding(mem.stg[run.slot]), !.stg[run.slot] = NoRelease],
                  {"generations", "staging"})
    BY <1>s, <2>1, CommitMoves
  <2>2. CASE Exists(run.gen) /\ mem.gen[run.gen] = Holding(run.rel) /\ Perform("commit", mem, {})
    BY <1>m, <2>2, CommitAdopts
  <2>3. CASE Exists(run.gen) /\ Abandon("commit")
    BY <1>m, <2>3, CommitFails
  <2> QED  BY <1>8, <2>1, <2>2, <2>3 DEF CommitGeneration
<1>9. CASE WriteSeed
  BY <1>9, <1>s, SeedStep
<1>10. CASE Recover
  BY <1>10, <1>m, RecoverStep DEF Recover, Unmoved
<1>11. CASE PointerKept
  BY <1>11, <1>m, PointerStep DEF PointerKept, Unmoved
<1>12. CASE RepairActivePointer
  BY <1>12, <1>m, RepairStep DEF RepairActivePointer, Unmoved
<1>13. CASE Bootstrap
  BY <1>13, <1>m, BootstrapStep DEF Bootstrap, Unmoved
<1>14. CASE ClockBehind
  BY <1>14, <1>m, ClockStep DEF ClockBehind, Unmoved
<1>15. CASE ReconcileAccepted
  BY <1>15, <1>m, ReconcileStep DEF ReconcileAccepted, Unmoved
<1>16. CASE Apply
  BY <1>16, <1>s, ApplyStep
<1>17. CASE Finish
  BY <1>17, <1>m, FinishStep
<1> QED
  BY <1>1, <1>2, <1>3, <1>4, <1>5, <1>6, <1>7, <1>8, <1>9, <1>10, <1>11, <1>12, <1>13, <1>14, <1>15, <1>16, <1>17
  DEF Step

LEMMA Stutters ==
  ASSUME TrustInv, UNCHANGED <<trustVars, world>>
  PROVE  TrustInv'
<1>1. UNCHANGED <<mem, disk, sync, run, clock, crashes, done, world>>
  BY DEF trustVars
<1>2. Typed'
  BY <1>1 DEF TrustInv, Typed
<1>3. Stages'
  BY <1>1 DEF TrustInv, Stages, Stage, Ahead, Behind, Authorized, Steadied, Fetched, Holds, Flippable, Flipped,
              Recorded, Bare, Entry, StagedHere, OneKind
<1>4. StoreInv'
  BY <1>1 DEF TrustInv, StoreInv, GoodStore, GoodMixes, Synced, SameEntries, WritingSeeds, OneKind
<1>5. RecoverInv'
  BY <1>1 DEF TrustInv, RecoverInv, Uninterrupted, Actionable, Moved
<1> QED  BY <1>2, <1>3, <1>4, <1>5 DEF TrustInv

LEMMA NextKeeps ==
  ASSUME TrustInv, world \in Worlds, [TrustNext]_<<trustVars, world>>
  PROVE  TrustInv' /\ world' = world
<1>1. CASE TrustNext
  <2>0. UNCHANGED world
    BY <1>1 DEF TrustNext
  <2>1. CASE Step
    BY <2>0, <2>1, StepKeeps
  <2>2. CASE KillUpdate
    BY <2>0, <2>2, KillStep
  <2>3. CASE PowerFails
    BY <2>0, <2>3, PowerStep
  <2>4. CASE ClockMoves
    BY <2>0, <2>4, TimeStep
  <2>5. ASSUME NEW r \in Releases, Begin(r) PROVE TrustInv'
    BY <2>0, <2>5, BeginStep
  <2> QED  BY <1>1, <2>0, <2>1, <2>2, <2>3, <2>4, <2>5 DEF TrustNext
<1>2. CASE UNCHANGED <<trustVars, world>>
  BY <1>2, Stutters
<1> QED  BY <1>1, <1>2

-----------------------------------------------------------------------------
(* Theorems. *)

\* What an update of the trust store has left to do tells how far the store is,
\* for any crashes and any moves of the clock (src/trust/update.xsh).
THEOREM TrustInvariant == TrustSpec => [](TrustInv /\ world \in Worlds)
<1>1. TrustInit => TrustInv /\ world \in Worlds
  BY Starts
<1>2. TrustInv /\ world \in Worlds /\ [TrustNext]_<<trustVars, world>> => (TrustInv /\ world \in Worlds)'
  BY NextKeeps
<1> QED  BY <1>1, <1>2, PTL DEF TrustSpec

LEMMA SoundStore ==
  ASSUME TrustInv, world \in Worlds
  PROVE  StoreSound
<1>1. StoreOK(mem)
  <2>1. mem \in Stores
    BY DEF TrustInv, Typed
  <2>2. mem.journal \in Journals
    BY <2>1 DEF Stores
  <2> QED  BY <2>1, <2>2 DEF StoreOK, Stores, Journals, Clean, Dirs
<1>2. StoreOK(disk)
  <2>1. disk \in Stores
    BY DEF TrustInv, Typed
  <2>2. disk.journal \in Journals
    BY <2>1 DEF Stores
  <2> QED  BY <2>1, <2>2 DEF StoreOK, Stores, Journals, Clean, Dirs
<1>3. TrustTypeOK
  <2>1. run \in Runs
    BY DEF TrustInv, Typed
  <2> QED  BY <1>1, <1>2, <2>1 DEF TrustTypeOK, TrustInv, Typed, Runs, Pcs
<1>4. ASSUME OneKind PROVE ActiveWhole /\ Durable /\ AcceptedNotAhead /\ Settled
  <2>1. ReadActive = mem.active
    BY <1>4, Pointer
  <2>2. mem.active >= done /\ mem.accepted >= done
    BY <1>4 DEF TrustInv, StoreInv, GoodStore, Good
  <2>3. ActiveWhole
    BY <1>4, Pointer DEF ActiveWhole, Whole
  <2>4. AcceptedNotAhead
    BY <1>4, <2>1, Pointer, Quantities DEF TrustInv, AcceptedNotAhead, Steadied, Steady, Pending
  <2>5. Settled
    BY <1>4, <2>1, Pointer DEF Settled, Steadied, Steady, Pending, Held
  <2> QED  BY <2>1, <2>2, <2>3, <2>4, <2>5 DEF Durable
<1> QED  BY <1>3, <1>4 DEF StoreSound

\* At every moment and after every kill or power failure: the generation that
\* clients read is whole, what was reported as applied still is, and the active
\* pointer, the accepted generation and the signed floor agree (src/trust).
THEOREM StoreIsSound == TrustSpec => []StoreSound
<1>1. TrustInv /\ world \in Worlds => StoreSound
  BY SoundStore
<1> QED  BY <1>1, TrustInvariant, PTL

LEMMA Acts ==
  ASSUME TrustInv
  PROVE  Recoverable
<1> SUFFICES ASSUME run = Idle, crashes <= 1, world.installed, "power" \notin world.faults
             PROVE  RecoveryPlan(mem.journal) # Refusal /\ ReadActive # 0
  BY DEF Recoverable
<1>1. OneKind /\ mem.active # 0
  BY DEF TrustInv, RecoverInv, OneKind
<1>2. ReadActive = mem.active
  BY <1>1, Pointer
<1>3. Actionable
  <2>1. crashes \in Nat
    BY DEF TrustInv, Typed
  <2> QED  BY <2>1, IdleIs DEF TrustInv, RecoverInv
<1> DEFINE j == mem.journal
<1> SUFFICES RecoveryPlan(j) # Refusal
  BY <1>1, <1>2
<1>4. CASE j = Clean
  BY <1>4 DEF RecoveryPlan, Plan, Refusal
<1>5. CASE j # Clean
  <2>1. j \in Journals /\ mem.accepted \in Nat /\ mem.active \in Nat /\ j.gen \in Gens /\ j.gen \in Nat
    BY <1>5, Quantities, Numbers DEF TrustInv, Journals
  <2>2. ~JournalStale
    BY <1>2, <1>3, <1>5, <2>1 DEF Actionable, JournalStale
  <2>3. CASE j.phase = "staged"
    BY <1>2, <1>3, <1>5, <2>1, <2>2, <2>3 DEF Actionable, RecoveryPlan, StagedPlan, Plan, Dropped, Refusal, Signed
  <2>4. CASE j.phase = "committed"
    <3>1. RecoveryPlan(j) = CommittedPlan(j)
      BY <1>5, <2>2, <2>4 DEF RecoveryPlan
    <3>2. Signed(j.gen) /\ Exists(j.gen) /\ mem.stg[j.slot] = NoRelease
      BY <1>3, <1>5, <2>1, <2>4 DEF Actionable, Signed, Exists
    <3>3. CommittedPlan(j) \in {Plan(<<"remove", "accept", "floor", "clear">>), Dropped,
                                Plan(<<"flip", "accept", "floor", "remove", "clear">>)}
      <4>1. ~(Exists(j.gen) = (mem.stg[j.slot] # NoRelease))
        BY <3>2
      <4> QED  BY <3>2, <4>1 DEF CommittedPlan
    <3> QED  BY <3>1, <3>3 DEF Plan, Dropped, Refusal
  <2>5. CASE j.phase \notin {"staged", "committed"}
    <3>1. j.phase \in {"activated", "persisted"}
      BY <1>5, <2>1, <2>5 DEF Journals
    <3> QED  BY <1>2, <1>3, <1>5, <2>1, <2>2, <3>1 DEF Actionable, RecoveryPlan, ActivatedPlan, Plan, Refusal, Signed
  <2> QED  BY <2>3, <2>4, <2>5
<1> QED  BY <1>4, <1>5

\* Whatever an update that was killed left in an installed store, the next one
\* has something to do about it (trust_recover in src/trust/update.xsh).
THEOREM AlwaysRecoverable == TrustSpec => []Recoverable
<1>1. TrustInv /\ world \in Worlds => Recoverable
  BY Acts
<1> QED  BY <1>1, TrustInvariant, PTL

\* No step of an update, of recovery or of a repair lowers the active generation,
\* the accepted one or the signed floor, and what becomes active is the seed, was
\* accepted, or is fresh (trust_apply_release in src/trust/update.xsh).
THEOREM TrustOnlyAdvances == TrustSpec => TrustAdvances
<1> DEFINE back == Step => /\ OneKind => mem'.active >= mem.active
                           /\ mem'.accepted >= mem.accepted
                           /\ mem'.floor >= mem.floor
           unasked == mem'.active # mem.active /\ Step =>
                        LET g == mem'.active IN g \in {SeedGen, mem.accepted} \/ Fresh(mem.gen[g], run.now)
<1>1. TrustInv /\ world \in Worlds /\ [TrustNext]_<<trustVars, world>> => [back]_trustVars
  <2> SUFFICES ASSUME TrustInv, TrustNext, Step PROVE back
    BY DEF TrustNext
  <2>1. TrustInv' /\ Forward
    BY StepKeeps DEF TrustNext
  <2>2. /\ mem.active \in Nat /\ mem.accepted \in Nat /\ mem.floor \in Nat
        /\ mem'.active \in Nat /\ mem'.accepted \in Nat /\ mem'.floor \in Nat
    <3>1. ASSUME NEW g \in Gens \cup {0} PROVE g \in Nat
      BY Numbers
    <3>2. mem \in Stores /\ mem' \in Stores
      BY <2>1 DEF TrustInv, Typed
    <3> QED  BY <3>1, <3>2 DEF Stores
  <2> QED  BY <2>1, <2>2 DEF Forward
<1>2. TrustInv /\ world \in Worlds /\ [TrustNext]_<<trustVars, world>> => [unasked]_trustVars
  <2> SUFFICES ASSUME TrustInv, TrustNext, Step, mem'.active # mem.active
               PROVE  mem'.active \in {SeedGen, mem.accepted} \/ Fresh(mem.gen[mem'.active], run.now)
    BY DEF TrustNext
  <2>1. Forward
    BY StepKeeps DEF TrustNext
  <2> QED  BY <2>1 DEF Forward, Authorized
<1>3. TrustSpec => [][back]_trustVars
  BY <1>1, TrustInvariant, PTL DEF TrustSpec
<1>4. TrustSpec => [][unasked]_trustVars
  BY <1>2, TrustInvariant, PTL DEF TrustSpec
<1> QED  BY <1>3, <1>4 DEF TrustAdvances, NoRollback, ActivationAuthorized
===============================================================================
