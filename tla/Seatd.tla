------------------------------- MODULE Seatd -------------------------------
(***************************************************************************)
(* The seat broker seatd-rs: sessions of one seat that take turns, the     *)
(* devices handed to them, the virtual terminals they sit on, and the      *)
(* poll loop that serves them (src/seatd-rs/src: session.rs, device.rs,    *)
(* vt.rs, effect.rs, loop.rs).                                             *)
(*                                                                         *)
(* The daemon has one thread: a handler is one action, made of operators   *)
(* that take the state before a call to the state after it.  Peers hang    *)
(* up, stop reading, or send any request at any time; the user switches    *)
(* terminals; ioctls fail.                                                 *)
(*                                                                         *)
(* Abstractions.                                                           *)
(*  - A client is its connection, not its index in the slot table, which   *)
(*    sweep_dead renumbers.                                                *)
(*  - client.seat is set exactly while the client is in seat.clients.      *)
(*  - A device is named by its path; ids are handed out once per open      *)
(*    device, so the id and the path identify each other.                  *)
(*  - The order in which one poll round visits its events is left open.    *)
(*  - The three modes of a terminal are set and reset together: proc is    *)
(*    VT_PROCESS, gfx is KD_GRAPHICS with the keyboard off.                *)
(***************************************************************************)
EXTENDS Integers, Sequences, FiniteSets

CONSTANTS
  Clients, None,
  Vts,         \* virtual terminals, positive numbers
  Drm, Input,  \* paths of DRM devices; of evdev and hidraw devices
  MaxDevices,  \* MAX_SEAT_DEVICES
  MaxRef,      \* bound on the references to one device
  Worlds       \* circumstances to look at

Paths == Drm \cup Input
States == {"New", "Active", "PendingDisable", "Disabled", "Closed"}
Holding == {"Active", "PendingDisable"}
Signals == {"USR1", "USR2"}
Device == [ref : 0 .. MaxRef, active : BOOLEAN]
NoDevice == [ref |-> 0, active |-> FALSE]
Fault == [tty : SUBSET (Vts \cup {0}), revoke : SUBSET Paths, open : SUBSET Paths]

\* Circumstances: SEATD_VTBOUND, how many clients there are at once, the devices
\* they may ask for, the session numbers they may switch to, which ioctls and
\* opens may fail during one handler, whether peers may stop reading, and
\* whether clients answer or hang up when they are told to leave the seat.
World ==
  [vtBound : BOOLEAN, slots : Nat, paths : SUBSET Paths, targets : SUBSET Int,
   faults : SUBSET Fault, slow : BOOLEAN, answer : BOOLEAN]

ASSUME SeatdAssumption ==
  /\ None \notin Clients
  /\ Vts \subseteq Nat \ {0} /\ Vts # {}
  /\ Drm \cap Input = {}
  /\ MaxDevices \in Nat /\ MaxRef \in Nat \ {0} /\ Worlds \subseteq World

VARIABLES
  world,   \* circumstances of this behaviour
  client,  \* the slots: conn ("off" no slot, "up", "dead"), state, session, devices
  seat,    \* seat.clients (newest first), active_client, next_client, cur_vt
  tty,     \* kernel: foreground terminal, switch waiting for release, signals, modes
  auth,    \* kernel: <<client, path>> with an unrevoked descriptor (DRM: master)
  leaked,  \* history: pairs of auth that the daemon tried in vain to revoke
  told,    \* history: the last of ENABLE_SEAT / DISABLE_SEAT put on the stream
  answered, \* history: the holder whose DISABLE_SEAT the last step served, or None
  peer,    \* the other end: "ok", "stuck" (buffers full) or "gone"
  running  \* "yes", or "no" once finish has begun

vars == <<client, seat, tty, auth, leaked, told, peer, running>>

Fresh == [conn |-> "off", st |-> "New", session |-> -1, dev |-> [p \in Paths |-> NoDevice]]

\* What a handler reads and changes.
Now == [client |-> client, seat |-> seat, tty |-> tty,
        auth |-> auth, leaked |-> leaked, told |-> told]

Becomes(x) ==
  /\ client' = x.client /\ seat' = x.seat /\ tty' = x.tty
  /\ auth' = x.auth /\ leaked' = x.leaked /\ told' = x.told

Members(x) == {x.seat.order[i] : i \in DOMAIN x.seat.order}
State(x, c) == x.client[c].st

\* send_enable and send_disable flush at once; an event that does not fit the
\* buffer of a stuck peer is refused, one for a gone peer fails the flush.
Heard(c) == peer[c] = "ok"

-----------------------------------------------------------------------------
(* Devices. *)

\* Paths among P whose deactivation succeeds: dropping DRM master needs master.
Revoked(x, c, P, f) ==
  {p \in P : /\ x.client[c].dev[p].active /\ p \notin f.revoke
             /\ p \in Drm => <<c, p>> \in x.auth}

\* auth and leaked after the daemon tried to deactivate the active ones of P.
Authority(x, c, P, f) ==
  LET gone == {c} \X Revoked(x, c, P, f)
      kept == {c} \X {p \in P : x.client[c].dev[p].active}
  IN [x EXCEPT !.auth = @ \ gone, !.leaked = (@ \cup (kept \cap x.auth)) \ gone]

DeactivateDevices(x, c, f) ==
  LET R == Revoked(x, c, Paths, f)
  IN [Authority(x, c, Paths, f) EXCEPT !.client[c].dev =
        [p \in Paths |-> [ref |-> x.client[c].dev[p].ref,
                       active |-> x.client[c].dev[p].active /\ p \notin R]]]

\* close_device of the last reference to each path of P.
CloseDevices(x, c, P, f) ==
  [Authority(x, c, P, f) EXCEPT !.client[c].dev =
     [p \in Paths |-> IF p \in P THEN NoDevice ELSE x.client[c].dev[p]]]

\* set_master succeeds when the device has no master; its failure is ignored.
TakeMaster(x, c, P) ==
  [x EXCEPT !.auth = @ \cup {<<c, p>> : p \in {q \in P \cap Drm : \A d \in Clients : <<d, q>> \notin @}}]

\* A revoked input device cannot be activated again: EINVAL.
ActivateDevices(x, c) ==
  LET A == {p \in Drm : x.client[c].dev[p].ref > 0 /\ ~x.client[c].dev[p].active}
  IN [TakeMaster(x, c, A) EXCEPT !.client[c].dev =
        [p \in Paths |-> [ref |-> x.client[c].dev[p].ref,
                       active |-> x.client[c].dev[p].active \/ p \in A]]]

-----------------------------------------------------------------------------
(* Terminals, as the kernel keeps them. *)

\* VT_SETMODE forgets a switch that waits for the terminal's release.
SetMode(t, v, on) ==
  [t EXCEPT !.proc = IF on THEN @ \cup {v} ELSE @ \ {v},
            !.want = IF v = t.fg THEN 0 ELSE @]

VtOpen(x, v) == [x EXCEPT !.tty = [SetMode(x.tty, v, TRUE) EXCEPT !.gfx = @ \cup {v}]]

VtClose(x, v, f) ==
  IF v \in f.tty THEN x
  ELSE [x EXCEPT !.tty = [SetMode(x.tty, v, FALSE) EXCEPT !.gfx = @ \ {v}]]

\* The foreground changes; a terminal in process mode signals its owner.
SwitchDone(t, v) ==
  [t EXCEPT !.fg = v, !.want = 0, !.sig = IF v \in t.proc THEN @ \cup {"USR2"} ELSE @]

\* VT_ACTIVATE: a foreground terminal in process mode must be released first.
SwitchWanted(t, v) ==
  IF v = t.fg THEN t
  ELSE IF t.fg \in t.proc THEN [t EXCEPT !.want = v, !.sig = @ \cup {"USR1"}]
  ELSE SwitchDone(t, v)

\* VT_RELDISP(1) completes the switch the terminal was asked to release for.
AckRelease(t, v) ==
  IF v = t.fg /\ v \in t.proc /\ t.want # 0 THEN SwitchDone(t, t.want) ELSE t

-----------------------------------------------------------------------------
(* Sessions. *)

\* seat_open_client: OpenClientOk says whether it succeeds.
MayOpen(x, c) == State(x, c) \in {"New", "Disabled"} /\ x.seat.active = None
VtReady(x, c, f) == world.vtBound => x.client[c].session \notin f.tty
OpenClientOk(x, c, f) == MayOpen(x, c) /\ VtReady(x, c, f) /\ Heard(c)

OpenClient(x, c, f) ==
  LET v == x.client[c].session
      ready == ActivateDevices(IF world.vtBound THEN VtOpen(x, v) ELSE x, c)
      undone == DeactivateDevices(ready, c, f)
  IN IF ~(MayOpen(x, c) /\ VtReady(x, c, f)) THEN x
     ELSE IF Heard(c) THEN [ready EXCEPT !.client[c].st = "Active", !.seat.active = c, !.told[c] = "enabled"]
     ELSE IF world.vtBound THEN VtClose(undone, v, f) ELSE undone

\* The first client in the seat's list with a session number.
WithSession(x, n) == {i \in DOMAIN x.seat.order : x.client[x.seat.order[i]].session = n}
FirstWith(x, n) ==
  IF WithSession(x, n) = {} THEN None
  ELSE x.seat.order[CHOOSE i \in WithSession(x, n) : \A j \in WithSession(x, n) : i <= j]

\* Mutant: the session that was asked for is forgotten.
CandidateAnyone(x) ==
  IF x.seat.order = <<>> THEN None
  ELSE IF world.vtBound THEN FirstWith(x, x.seat.curVt) ELSE x.seat.order[1]

\* Whom seat_activate would turn to.
Candidate(x) ==
  IF x.seat.next # None THEN x.seat.next
  ELSE IF x.seat.order = <<>> THEN None
  ELSE IF world.vtBound THEN FirstWith(x, x.seat.curVt)
  ELSE x.seat.order[1]

\* seat_activate; every caller ignores its error.
Activate(x, f) ==
  IF x.seat.active # None \/ Candidate(x) = None THEN x
  ELSE OpenClient([x EXCEPT !.seat.next = None], Candidate(x), f)

Position(x, c) == CHOOSE i \in DOMAIN x.seat.order : x.seat.order[i] = c
Without(s, i) == SubSeq(s, 1, i - 1) \o SubSeq(s, i + 1, Len(s))

\* Mutant: the seat keeps its next client.
UnlistNext(x, c, f) ==
  CloseDevices([x EXCEPT !.seat.order = Without(@, Position(x, c)),
                         !.seat.active = IF @ = c THEN None ELSE @], c, Paths, f)

\* The part of seat_remove_client before the seat passes on.
Unlist(x, c, f) ==
  CloseDevices(
    [x EXCEPT !.seat.next = IF @ = c THEN None ELSE @,
              !.seat.order = Without(@, Position(x, c)),
              !.seat.active = IF @ = c THEN None ELSE @],
    c, Paths, f)

\* Mutant: the seat passes on before the devices are closed.
RemoveClientLate(x, c, f) ==
  LET free == [x EXCEPT !.seat.next = IF @ = c THEN None ELSE @,
                        !.seat.order = Without(@, Position(x, c)),
                        !.seat.active = IF @ = c THEN None ELSE @]
      passed == IF x.seat.active = c THEN Activate(free, f) ELSE free
  IN [CloseDevices(passed, c, Paths, f) EXCEPT !.client[c].st = "Closed"]

\* seat_remove_client
RemoveClient(x, c, f) ==
  LET current == x.seat.active = c
      passed == IF current THEN Activate(Unlist(x, c, f), f) ELSE Unlist(x, c, f)
      restore == \/ current /\ passed.seat.active = None
                 \/ ~current /\ State(x, c) \notin {"New", "Closed"}
      after == IF world.vtBound /\ restore THEN VtClose(passed, x.client[c].session, f) ELSE passed
  IN [after EXCEPT !.client[c].st = "Closed"]


\* seat_disable_client; its caller found the client Active.
DisableClient(x, c, f) ==
  [DeactivateDevices(x, c, f) EXCEPT
     !.client[c].st = "PendingDisable", !.told[c] = IF Heard(c) THEN "disabled" ELSE @]

\* destroy_client
Destroy(x, c, f) ==
  [(IF c \in Members(x) THEN RemoveClient(x, c, f) ELSE x) EXCEPT !.client[c].conn = "dead"]

\* The end of handle_opcode: a reply that cannot be queued, and a flush to a
\* peer that is gone, destroy the client; an error reply may be dropped.
Reply(x, c, f) == IF Heard(c) THEN x ELSE Destroy(x, c, f)
ErrorReply(x, c, f) == IF peer[c] = "gone" THEN Destroy(x, c, f) ELSE x

-----------------------------------------------------------------------------
(* Requests. *)

\* seat_add_client
AddRefused(x, c) ==
  \/ c \in Members(x)
  \/ world.vtBound /\ x.seat.active # None /\ State(x, x.seat.active) # "PendingDisable"
  \/ x.client[c].session # -1

FreeSession(x) ==
  CHOOSE n \in 1 .. Len(x.seat.order) + 1 :
    WithSession(x, n) = {} /\ \A m \in 1 .. n - 1 : WithSession(x, m) # {}

Enlist(x, c, n) ==
  [x EXCEPT !.client[c].session = n, !.seat.order = <<c>> \o @]

\* handle_open_seat once the client is in the list.
OpenListed(x, c, f) ==
  IF peer[c] = "stuck" THEN Destroy(x, c, f)
  ELSE IF x.seat.active # None THEN Reply(x, c, f)
  ELSE IF OpenClientOk(x, c, f) THEN OpenClient(x, c, f)
  ELSE Destroy(OpenClient(x, c, f), c, f)

HandleOpenSeat(x, c, f) ==
  LET seen == [x EXCEPT !.seat.curVt = x.tty.fg]
  IN IF AddRefused(x, c) \/ (world.vtBound /\ 0 \in f.tty) THEN Destroy(x, c, f)
     ELSE IF ~world.vtBound THEN OpenListed(Enlist(x, c, FreeSession(x)), c, f)
     ELSE IF x.seat.active # None /\ WithSession(x, x.tty.fg) # {} THEN Destroy(seen, c, f)
     ELSE OpenListed(Enlist(seen, c, x.tty.fg), c, f)

HandleCloseSeat(x, c, f) == Reply(RemoveClient(x, c, f), c, f)

\* open_device_resolved
HandleOpenDevice(x, c, p, f) ==
  LET d == x.client[c].dev[p]
      opened == [x EXCEPT !.client[c].dev[p] = [ref |-> 1, active |-> TRUE]]
  IN IF State(x, c) # "Active" \/ p \in f.open THEN ErrorReply(x, c, f)
     ELSE IF d.ref > 0 THEN Reply([x EXCEPT !.client[c].dev[p].ref = @ + 1], c, f)
     ELSE IF Cardinality({q \in Paths : x.client[c].dev[q].ref > 0}) >= MaxDevices
          THEN ErrorReply(x, c, f)
     ELSE Reply(IF p \in Drm THEN TakeMaster(opened, c, {p})
                ELSE [opened EXCEPT !.auth = @ \cup {<<c, p>>}], c, f)

HandleCloseDevice(x, c, p, f) ==
  LET d == x.client[c].dev[p]
  IN IF d.ref = 0 THEN ErrorReply(x, c, f)
     ELSE IF d.ref > 1 THEN Reply([x EXCEPT !.client[c].dev[p].ref = @ - 1], c, f)
     ELSE Reply(CloseDevices(x, c, {p}, f), c, f)

\* seat_set_next_session
HandleSwitchSession(x, c, n, f) ==
  LET target == FirstWith(x, n)
      asked == DisableClient([x EXCEPT !.seat.next = target], c, f)
      v == x.seat.curVt
      moded == [x EXCEPT !.tty = SetMode(@, v, TRUE)]
  IN IF State(x, c) # "Active" \/ n <= 0 THEN ErrorReply(x, c, f)
     ELSE IF n = x.client[c].session \/ x.seat.next # None THEN Reply(x, c, f)
     ELSE IF world.vtBound
          THEN IF v \notin Vts \ f.tty THEN ErrorReply(x, c, f)
               ELSE IF n \notin Vts THEN ErrorReply(moded, c, f)
               ELSE Reply([moded EXCEPT !.tty = SwitchWanted(@, n)], c, f)
     ELSE IF target = None THEN ErrorReply(x, c, f)
     ELSE IF Heard(c) THEN Reply(asked, c, f) ELSE ErrorReply(asked, c, f)

\* Mutant: anyone may answer for the active client.
AnyoneAnswers(x, c, f) ==
  LET a == x.seat.active
      off == [x EXCEPT !.client[a].st = "Disabled", !.seat.active = None]
  IN IF a = None \/ State(x, c) = "New" THEN ErrorReply(x, c, f)
     ELSE IF State(x, a) # "PendingDisable" THEN ErrorReply(x, c, f)
     ELSE Reply(Activate(off, f), c, f)

\* seat_ack_disable_client
HandleDisableSeat(x, c, f) ==
  LET off == [x EXCEPT !.client[c].st = "Disabled"]
  IN IF State(x, c) # "PendingDisable" THEN ErrorReply(x, c, f)
     ELSE IF x.seat.active # c THEN Reply(off, c, f)
     ELSE Reply(Activate([off EXCEPT !.seat.active = None], f), c, f)

\* A request other than OPEN_SEAT and PING needs a seat, or destroys the client.
Seated(x, c, f, y) == IF c \in Members(x) THEN y ELSE Destroy(x, c, f)

Serving(c) == running = "yes" /\ client[c].conn = "up" /\ UNCHANGED <<peer, running>>

OpenSeat(c) == Serving(c) /\ \E f \in world.faults : Becomes(HandleOpenSeat(Now, c, f))

CloseSeat(c) ==
  Serving(c) /\ \E f \in world.faults : Becomes(Seated(Now, c, f, HandleCloseSeat(Now, c, f)))

OpenDevice(c, p) ==
  /\ Serving(c) /\ client[c].dev[p].ref < MaxRef
  /\ \E f \in world.faults : Becomes(Seated(Now, c, f, HandleOpenDevice(Now, c, p, f)))

CloseDevice(c, p) ==
  Serving(c) /\ \E f \in world.faults : Becomes(Seated(Now, c, f, HandleCloseDevice(Now, c, p, f)))

SwitchSession(c, n) ==
  Serving(c) /\ \E f \in world.faults : Becomes(Seated(Now, c, f, HandleSwitchSession(Now, c, n, f)))

DisableSeat(c) ==
  Serving(c) /\ \E f \in world.faults : Becomes(Seated(Now, c, f, HandleDisableSeat(Now, c, f)))

\* A malformed or unknown frame, and a PING whose PONG cannot be queued or
\* flushed, destroy the client; other pings change nothing.
BadFrame(c) == Serving(c) /\ \E f \in world.faults : Becomes(Destroy(Now, c, f))

-----------------------------------------------------------------------------
(* The poll loop. *)

\* handle_listen
Accept(c) ==
  /\ running = "yes" /\ client[c].conn = "off" /\ {p \in Paths : <<c, p>> \in auth} = {}
  /\ Cardinality({d \in Clients : client[d].conn # "off" \/ \E p \in Paths : <<d, p>> \in auth}) < world.slots
  /\ client' = [client EXCEPT ![c].conn = "up"]
  /\ peer' = [peer EXCEPT ![c] = "ok"]
  /\ UNCHANGED <<seat, tty, auth, leaked, told, running>>

\* POLLHUP or POLLERR
PollHup(c) ==
  peer[c] = "gone" /\ Serving(c) /\ \E f \in world.faults : Becomes(Destroy(Now, c, f))

\* handle_client_readable: end of file or a read error only marks the slot.
ReadFails(c) ==
  /\ running = "yes" /\ client[c].conn = "up"
  /\ client' = [client EXCEPT ![c].conn = "dead"]
  /\ UNCHANGED <<seat, tty, auth, leaked, told, peer, running>>

\* sweep_dead, one slot at a time.
SweepDead(c) ==
  /\ running = "yes" /\ client[c].conn = "dead"
  /\ \E f \in world.faults : Becomes([Destroy(Now, c, f) EXCEPT !.client[c] = Fresh, !.told[c] = "none"])
  /\ peer' = [peer EXCEPT ![c] = "gone"]
  /\ UNCHANGED running

\* Mutant: the release waits for the active client's answer.
VtReleasePolite(x, f) ==
  LET a == x.seat.active
  IN IF a = None
     THEN [x EXCEPT !.seat.curVt = -1,
                    !.tty = IF x.tty.fg \in Vts \ f.tty THEN AckRelease(@, x.tty.fg) ELSE @]
     ELSE IF State(x, a) = "Active" THEN DisableClient(x, a, f) ELSE x

\* seat_vt_release, on SIGUSR1
VtRelease(x, f) ==
  LET seen == IF 0 \in f.tty THEN x ELSE [x EXCEPT !.seat.curVt = x.tty.fg]
      a == seen.seat.active
      quiet == IF a # None /\ State(seen, a) = "Active" THEN DisableClient(seen, a, f) ELSE seen
      v == seen.seat.curVt
  IN [quiet EXCEPT !.seat.curVt = -1,
                   !.tty = IF v \in Vts \ f.tty THEN AckRelease(@, v) ELSE @]

\* seat_vt_activate, on SIGUSR2
VtAcquire(x, f) ==
  IF 0 \in f.tty THEN x ELSE Activate([x EXCEPT !.seat.curVt = x.tty.fg], f)

Caught(x, s) == [x EXCEPT !.tty.sig = @ \ {s}]

\* The signalfd returns the lower signal first.
Release ==
  /\ world.vtBound /\ running = "yes" /\ "USR1" \in tty.sig
  /\ \E f \in world.faults : Becomes(VtRelease(Caught(Now, "USR1"), f))
  /\ UNCHANGED <<peer, running>>

Acquire ==
  /\ world.vtBound /\ running = "yes" /\ "USR2" \in tty.sig /\ "USR1" \notin tty.sig
  /\ \E f \in world.faults : Becomes(VtAcquire(Caught(Now, "USR2"), f))
  /\ UNCHANGED <<peer, running>>

\* SIGTERM ends the loop after the current round, whose other events may as well
\* have come before; finish then removes the clients one by one.
Term ==
  /\ running = "yes" /\ running' = "no"
  /\ UNCHANGED <<client, seat, tty, auth, leaked, told, peer>>

FinishClient(c) ==
  /\ running = "no" /\ c \in Members(Now)
  /\ \E f \in world.faults : Becomes(RemoveClient(Now, c, f))
  /\ UNCHANGED <<peer, running>>

-----------------------------------------------------------------------------
(* The environment. *)

\* The user asks for another terminal.
UserSwitch(v) ==
  /\ world.vtBound /\ v # tty.fg /\ tty.want = 0
  /\ tty' = SwitchWanted(tty, v)
  /\ UNCHANGED <<client, seat, auth, leaked, told, peer, running>>

\* The peer closes its socket, stops reading, or reads again.
PeerChanges(c) ==
  /\ client[c].conn = "up"
  /\ \/ peer[c] # "gone" /\ peer' = [peer EXCEPT ![c] = "gone"]
     \/ peer[c] = "ok" /\ world.slow /\ peer' = [peer EXCEPT ![c] = "stuck"]
     \/ peer[c] = "stuck" /\ peer' = [peer EXCEPT ![c] = "ok"]
  /\ UNCHANGED <<client, seat, tty, auth, leaked, told, running>>

\* The process of a closed connection exits, and with it its descriptors.
ProcessExits(c) ==
  /\ client[c].conn = "off" /\ \E p \in Paths : <<c, p>> \in auth
  /\ auth' = {a \in auth : a[1] # c} /\ leaked' = {a \in leaked : a[1] # c}
  /\ UNCHANGED <<client, seat, tty, told, peer, running>>

-----------------------------------------------------------------------------
Init ==
  /\ world \in Worlds
  /\ client = [c \in Clients |-> Fresh]
  /\ seat = [order |-> <<>>, active |-> None, next |-> None, curVt |-> 0]
  /\ tty \in [fg : IF world.vtBound THEN Vts ELSE {CHOOSE v \in Vts : TRUE}, want : {0}, sig : {{}}, proc : {{}}, gfx : {{}}]
  /\ auth = {} /\ leaked = {}
  /\ told = [c \in Clients |-> "none"]
  /\ peer = [c \in Clients |-> "gone"]
  /\ running = "yes" /\ answered = None

Request(c) ==
  \/ OpenSeat(c) \/ CloseSeat(c) \/ BadFrame(c)
  \/ \E p \in world.paths : OpenDevice(c, p) \/ CloseDevice(c, p)
  \/ \E n \in world.targets : SwitchSession(c, n)

Loop(c) == Accept(c) \/ PollHup(c) \/ ReadFails(c) \/ SweepDead(c) \/ FinishClient(c)

Next ==
  /\ \/ \E c \in Clients : DisableSeat(c) /\ answered' = IF seat.active = c THEN c ELSE None
     \/ /\ \/ \E c \in Clients : Request(c) \/ Loop(c) \/ PeerChanges(c) \/ ProcessExits(c)
           \/ Release \/ Acquire \/ Term
           \/ \E v \in Vts : UserSwitch(v)
        /\ answered' = None
  /\ UNCHANGED world

Spec == Init /\ [][Next]_<<vars, answered, world>>

\* A client answers a DISABLE_SEAT it was sent, or hangs up: the daemon itself
\* waits without limit.
Answers(c) ==
  world.answer /\ client[c].st = "PendingDisable" /\ told[c] = "disabled" /\ DisableSeat(c)

\* The loop serves what poll reports.
FairSpec ==
  /\ Spec
  /\ WF_vars(Release) /\ WF_vars(Acquire)
  /\ \A c \in Clients : WF_vars(PollHup(c)) /\ WF_vars(SweepDead(c)) /\ WF_vars(Answers(c))

-----------------------------------------------------------------------------
(* Properties. *)

\* Everything has its type.
TypeOK ==
  /\ client \in [Clients -> [conn : {"off", "up", "dead"}, st : States,
                             session : {-1} \cup Nat, dev : [Paths -> Device]]]
  /\ seat.order \in Seq(Clients)
  /\ seat \in [order : {seat.order}, active : Clients \cup {None},
               next : Clients \cup {None}, curVt : Vts \cup {0, -1}]
  /\ tty \in [fg : Vts, want : Vts \cup {0}, sig : SUBSET Signals,
              proc : SUBSET Vts, gfx : SUBSET Vts]
  /\ auth \subseteq Clients \X Paths /\ leaked \subseteq auth
  /\ told \in [Clients -> {"none", "enabled", "disabled"}]
  /\ peer \in [Clients -> {"ok", "stuck", "gone"}]
  /\ running \in {"yes", "no"} /\ answered \in Clients \cup {None}

\* The assertions of seat_disable_client, seat_set_next_session and
\* open_device_resolved: an Active client is the seat's active client; the same
\* holds while it owes its answer, and nobody else is in either state.
HolderExclusive ==
  /\ \A c \in Clients : client[c].st \in Holding <=> seat.active = c
  /\ seat.active # None => seat.active \in Members(Now)

\* next_client is read long after it was set: by then it is still a listed
\* client that waits, and the active one still owes its answer.
NextWaits ==
  seat.next # None =>
    /\ seat.next \in Members(Now) /\ client[seat.next].st \in {"New", "Disabled"}
    /\ seat.active # None /\ client[seat.active].st = "PendingDisable"

\* No client holds an unrevoked descriptor unless it is Active, save those the
\* daemon tried in vain to revoke.
AuthorityFollows ==
  \A a \in auth : client[a[1]].st = "Active" \/ a \in leaked

\* Without failing ioctls, the DRM devices of the active client have it as
\* master: the previous one dropped it before.
MasterFollows ==
  (\A f \in world.faults : f.revoke = {}) =>
    \A c \in Clients, p \in Drm :
      client[c].st = "Active" /\ client[c].dev[p].active => <<c, p>> \in auth

\* What a connected client was last told agrees with the state kept for it.  (A
\* peer that has stopped reading is disabled without being told.)
ToldMatchesState ==
  ~world.slow => \A c \in {d \in Clients : peer[d] # "gone"} :
    /\ client[c].st = "Active" => told[c] = "enabled"
    /\ client[c].st \in {"PendingDisable", "Disabled"} => told[c] = "disabled"

\* Session numbers name one client each (when they are not terminals).
SessionsDistinct ==
  ~world.vtBound => \A c, d \in Members(Now) : c # d => client[c].session # client[d].session

\* finish leaves no device open and no authority but what could not be revoked.
FinishesClean ==
  running = "no" /\ seat.order = <<>> =>
    auth = leaked /\ \A c \in Clients : client[c].dev = Fresh.dev

\* A session switch that was accepted reaches its target, if that still listens.
SwitchReachesTarget ==
  \A c \in Clients :
    world.answer /\ seat.next = c ~> seat.active = c \/ peer[c] # "ok" \/ c \notin Members(Now) \/ running = "no"

\* The kernel is never left waiting for the release of a terminal, whatever the
\* active client does.
ReleaseAnswered == tty.want # 0 ~> tty.want = 0 \/ running = "no"

\* The seat as its sessions see it.
Broker == INSTANCE Seat WITH
  Sessions <- Clients, Nobody <- None, members <- Members(Now), holder <- seat.active,
  asked <- seat.active # None /\ client[seat.active].st = "PendingDisable", answer <- answered

\* The daemon implements the seat's promise.
KeepsPromise == Broker!Spec

-----------------------------------------------------------------------------
(* What the runs check. *)

\* The seat and its clients agree: one holder, which the assertions of session.rs
\* rely on; a next session that still waits; numbers that name one session; and
\* clients that know what they are.
SeatSound == TypeOK /\ HolderExclusive /\ NextWaits /\ SessionsDistinct /\ ToldMatchesState

\* Device authority goes with the seat, through switches, failing ioctls and the
\* end of the daemon.
DevicesFollow == AuthorityFollows /\ MasterFollows /\ FinishesClean
=============================================================================
