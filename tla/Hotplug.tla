------------------------------ MODULE Hotplug ------------------------------
(***************************************************************************)
(* mdevd and mdevd-coldplug (src/mdevd-rs/src): the daemon takes events    *)
(* from a netlink socket of bounded size, makes device nodes and publishes *)
(* what it has handled; the coldplug helper triggers an event for every    *)
(* entry of sysfs and waits for the last one to come back.                 *)
(*                                                                         *)
(* Abstractions.                                                           *)
(*  - Sysfs is one list of entries, those of the classes and then those of *)
(*    the buses, so that a device may be in it twice; an entry in Plain has *)
(*    no uevent file, and its directory has one that has.                  *)
(*  - A rule set is its name; a node is known by the rules it was made by. *)
(*    A datagram that is invalid, empty or from user space is junk, which  *)
(*    the helper's socket does not get.  Dry runs, symlinks and the -o     *)
(*    descriptor are left out.                                             *)
(*  - The helper's time-out is longer than the daemon needs for the events *)
(*    that are queued.                                                     *)
(***************************************************************************)
EXTENDS Integers, Sequences

CONSTANTS
  Entries,    \* entries sysfs may have
  Plain,      \* those without a uevent file
  Worlds      \* circumstances to look at

Devices == Entries \ Plain

\* Circumstances: the entries of sysfs in the order they are read, devices that
\* are plugged in, or again, and unplugged on their own, whether there is junk, how
\* many events a netlink socket holds, what the configuration file becomes (rule
\* sets, or not one) and a bound on plugs, junk, edits, signals and failures.
World ==
  [listing : Seq(Entries), plugs : SUBSET Devices, unplugs : SUBSET Devices, junk : BOOLEAN,
   buffer : Nat \ {0}, files : SUBSET {"rules", "more", "bad", "missing", "unreadable"}, max : Nat]

ASSUME HotplugAssumption == Plain \subseteq Entries /\ Worlds \subseteq World

VARIABLES
  world,      \* circumstances of this behaviour
  present,    \* devices in sysfs
  node,       \* rules by which each device's node was made
  daemon,     \* state of mdevd
  socket,     \* its netlink socket
  file,       \* configuration file
  cold,       \* state of mdevd-coldplug
  events      \* plugs, junk, edits, signals and failures so far

vars == <<present, node, daemon, socket, file, cold, events>>

-----------------------------------------------------------------------------
(* Netlink sockets: a socket that a message finds full is congested until  *)
(* it has been emptied; what arrives in the meantime is lost, which the    *)
(* next read reports once.                                                 *)

Empty == [queue |-> <<>>, overrun |-> FALSE, congested |-> FALSE, lost |-> FALSE]

Deliver(s, e) ==
  IF ~s.congested /\ Len(s.queue) < world.buffer THEN [s EXCEPT !.queue = Append(@, e)]
  ELSE [s EXCEPT !.overrun = @ \/ ~s.congested, !.congested = TRUE, !.lost = TRUE]

Taken(s) == [s EXCEPT !.queue = Tail(@), !.overrun = FALSE, !.congested = @ /\ Len(s.queue) > 1]

Event(action, d) == [action |-> action, dev |-> d]
NoEvent == Event("none", "none")
Junk == Event("junk", "none")

-----------------------------------------------------------------------------
(* mdevd. *)

\* load_config: a file that cannot be parsed keeps the rules in use, a missing
\* one leaves the catchall rule.
Rules(content, old) ==
  CASE content = "missing" -> "default"
    [] content = "bad" -> old
    [] OTHER -> content

\* The file is read; one that is missing may be, one that cannot be read ends
\* the daemon.
ReadConfig ==
  /\ daemon.pc = "load"
  /\ daemon' = IF file.content = "unreadable" THEN [daemon EXCEPT !.pc = "off"]
               ELSE [daemon EXCEPT !.pc = "parse", !.read = file.content]
  /\ UNCHANGED <<present, node, socket, file, cold, events>>

\* The initial file has to be valid.
Parsed == IF daemon.rules = "none" /\ daemon.read = "bad" THEN [daemon EXCEPT !.pc = "off"]
          ELSE [daemon EXCEPT !.pc = "poll", !.rules = Rules(daemon.read, @)]

\* Mutant: signals that have arrived since the file was read are dropped.
LoadDrained ==
  /\ daemon.pc = "parse"
  /\ daemon' = [Parsed EXCEPT !.signals = {}]
  /\ UNCHANGED <<present, node, socket, file, cold, events>>

\* The new rules are in use; signals stay blocked until the next poll.
LoadConfig ==
  /\ daemon.pc = "parse"
  /\ daemon' = Parsed
  /\ UNCHANGED <<present, node, socket, file, cold, events>>

\* All pending signals are read; a TERM wins over a HUP.
Signals ==
  /\ daemon.pc = "poll" /\ daemon.signals # {}
  /\ daemon' = [daemon EXCEPT !.pc = IF "TERM" \in daemon.signals THEN "off" ELSE "load", !.signals = {}]
  /\ UNCHANGED <<present, node, socket, file, cold, events>>

Counted(missed) == missed \/ socket.overrun

\* read_event skips and counts an overrun and takes the next event; signals go
\* first.
TakeEvent ==
  /\ daemon.pc = "poll" /\ daemon.signals = {} /\ socket.queue # <<>> /\ Head(socket.queue) # Junk
  /\ daemon' = [daemon EXCEPT !.pc = "handle", !.event = Head(socket.queue), !.missed = Counted(@)]
  /\ socket' = Taken(socket)
  /\ UNCHANGED <<present, node, file, cold, events>>

\* Junk is dropped: an overrun that came before it is counted and not reported.
DropJunk ==
  /\ daemon.pc = "poll" /\ daemon.signals = {} /\ socket.queue # <<>> /\ Head(socket.queue) = Junk
  /\ daemon' = [daemon EXCEPT !.missed = Counted(@)]
  /\ socket' = Taken(socket)
  /\ UNCHANGED <<present, node, file, cold, events>>

Reported == [daemon EXCEPT !.pc = "publish", !.warned = @ \/ daemon.missed, !.missed = FALSE]

\* Mutant: a device that is not there any more is skipped.
HandlePresent ==
  /\ daemon.pc = "handle"
  /\ node' = IF daemon.event.action = "add" /\ daemon.event.dev \in present
             THEN [node EXCEPT ![daemon.event.dev] = daemon.rules] ELSE node
  /\ daemon' = Reported
  /\ UNCHANGED <<present, socket, file, cold, events>>

\* on_event: an add, which carries the numbers, makes the node, or changes the
\* one that is there; a remove carries none and does nothing.  Overruns are
\* then reported.
Handle ==
  /\ daemon.pc = "handle"
  /\ node' = IF daemon.event.action = "add" THEN [node EXCEPT ![daemon.event.dev] = daemon.rules] ELSE node
  /\ daemon' = Reported
  /\ UNCHANGED <<present, socket, file, cold, events>>

\* The node cannot be made or changed: a warning, and the event is published.
HandleFails ==
  /\ daemon.pc = "handle" /\ daemon.event.action = "add"
  /\ events < world.max /\ events' = events + 1
  /\ node' = [node EXCEPT ![daemon.event.dev] = IF @ = "none" THEN "failed" ELSE @]
  /\ daemon' = Reported
  /\ UNCHANGED <<present, socket, file, cold>>

Sent(e) == IF cold.bound THEN [cold EXCEPT !.socket = Deliver(@, e)] ELSE cold

\* Mutant: an event is published before it is handled.
PublishFirst ==
  /\ \/ daemon.pc = "handle" /\ UNCHANGED daemon
     \/ daemon.pc = "publish" /\ daemon' = [daemon EXCEPT !.pc = "poll", !.event = NoEvent]
  /\ cold' = IF daemon.pc = "handle" THEN Sent(daemon.event) ELSE cold
  /\ UNCHANGED <<present, node, socket, file, events>>

\* The event is sent on to the group the helper listens to.
Publish ==
  /\ daemon.pc = "publish"
  /\ cold' = Sent(daemon.event)
  /\ daemon' = [daemon EXCEPT !.pc = "poll", !.event = NoEvent]
  /\ UNCHANGED <<present, node, socket, file, events>>

Daemon == ReadConfig \/ LoadConfig \/ Signals \/ TakeEvent \/ DropJunk \/ Handle \/ HandleFails \/ Publish

-----------------------------------------------------------------------------
(* mdevd-coldplug -O. *)

Bind ==
  /\ cold.pc = "idle"
  /\ cold' = [cold EXCEPT !.pc = "read", !.bound = TRUE]
  /\ UNCHANGED <<present, node, daemon, socket, file, events>>

\* The last entry read is kept, not the last one triggered.
Last(last, entry) == entry

\* The next entry of the directory; what is not there is not listed.
ReadEntry ==
  /\ cold.pc = "read" /\ cold.at <= Len(world.listing)
  /\ LET d == world.listing[cold.at]
     IN cold' = IF d \in present \cup Plain
                THEN [cold EXCEPT !.pc = "trigger", !.last = Last(@, d)]
                ELSE [cold EXCEPT !.at = @ + 1]
  /\ UNCHANGED <<present, node, daemon, socket, file, events>>

\* Writing to the entry's uevent file makes the kernel send its event.
Trigger ==
  /\ cold.pc = "trigger"
  /\ LET d == world.listing[cold.at]
     IN IF d \in present
        THEN /\ cold' = [cold EXCEPT !.pc = "read", !.at = @ + 1, !.tried = TRUE, !.triggered = @ \cup {d}]
             /\ socket' = Deliver(socket, Event("add", d))
        ELSE cold' = [cold EXCEPT !.pc = "read", !.at = @ + 1] /\ UNCHANGED socket
  /\ UNCHANGED <<present, node, daemon, file, events>>

\* A write that fails is a warning and counts like one that does not.
TriggerFails ==
  /\ cold.pc = "trigger" /\ world.listing[cold.at] \in present
  /\ events < world.max /\ events' = events + 1
  /\ cold' = [cold EXCEPT !.pc = "read", !.at = @ + 1, !.tried = TRUE]
  /\ UNCHANGED <<present, node, daemon, socket, file>>

\* A directory that cannot be read ends the helper.
ScanFails ==
  /\ cold.pc = "read"
  /\ events < world.max /\ events' = events + 1
  /\ cold' = [cold EXCEPT !.pc = "failed"]
  /\ UNCHANGED <<present, node, daemon, socket, file>>

\* Without anything triggered there is nothing to wait for.
Scanned ==
  /\ cold.pc = "read" /\ cold.at > Len(world.listing)
  /\ cold' = [cold EXCEPT !.pc = IF cold.tried THEN "wait" ELSE "ok"]
  /\ UNCHANGED <<present, node, daemon, socket, file, events>>

\* An event is recognised by its action and the name of its device.
SyncMatch(e) == e = Event("add", cold.last)

Receive ==
  /\ cold.pc = "wait" /\ cold.socket.queue # <<>>
  /\ cold' = [cold EXCEPT !.socket = Taken(@),
                          !.pc = IF SyncMatch(Head(cold.socket.queue)) THEN "ok" ELSE "wait"]
  /\ UNCHANGED <<present, node, daemon, socket, file, events>>

TimeOut ==
  /\ cold.pc = "wait" /\ cold.socket.queue = <<>>
  /\ \/ daemon.pc = "off"
     \/ daemon.pc = "poll" /\ daemon.signals = {} /\ socket.queue = <<>>
  /\ cold' = [cold EXCEPT !.pc = "timeout"]
  /\ UNCHANGED <<present, node, daemon, socket, file, events>>

Coldplug == Bind \/ ReadEntry \/ Trigger \/ TriggerFails \/ ScanFails \/ Scanned \/ Receive \/ TimeOut

-----------------------------------------------------------------------------
(* The kernel and the administrator. *)

Happens == events < world.max /\ events' = events + 1

Plug(d) ==
  /\ Happens /\ d \in world.plugs
  /\ present' = present \cup {d} /\ socket' = Deliver(socket, Event("add", d))
  /\ UNCHANGED <<node, daemon, file, cold>>

Unplug(d) ==
  /\ Happens /\ d \in world.unplugs \cap present
  /\ present' = present \ {d} /\ socket' = Deliver(socket, Event("remove", d))
  /\ UNCHANGED <<node, daemon, file, cold>>

SendJunk ==
  /\ Happens /\ world.junk
  /\ socket' = Deliver(socket, Junk)
  /\ UNCHANGED <<present, node, daemon, file, cold>>

\* The file is replaced; changed: nobody has been told yet.
Edit(content) ==
  /\ Happens /\ content \in world.files
  /\ file' = [content |-> content, changed |-> TRUE]
  /\ UNCHANGED <<present, node, daemon, socket, cold>>

Signal(s) ==
  /\ Happens /\ daemon.pc # "off"
  /\ daemon' = [daemon EXCEPT !.signals = @ \cup {s}]
  /\ file' = IF s = "HUP" THEN [file EXCEPT !.changed = FALSE] ELSE file
  /\ UNCHANGED <<present, node, socket, cold>>

-----------------------------------------------------------------------------
Init ==
  /\ world \in Worlds
  /\ present = {world.listing[i] : i \in 1 .. Len(world.listing)} \ Plain /\ node = [d \in Devices |-> "none"]
  /\ daemon = [pc |-> "load", rules |-> "none", read |-> "missing", signals |-> {}, event |-> NoEvent, missed |-> FALSE, warned |-> FALSE]
  /\ socket = Empty /\ file \in [content : world.files, changed : {FALSE}]
  /\ cold = [pc |-> "idle", at |-> 1, last |-> "none", tried |-> FALSE, triggered |-> {}, bound |-> FALSE, socket |-> Empty]
  /\ events = 0

Next ==
  /\ \/ Daemon \/ Coldplug
     \/ \E d \in Devices : Plug(d) \/ Unplug(d)
     \/ SendJunk
     \/ \E content \in world.files : Edit(content)
     \/ \E s \in {"TERM", "HUP"} : Signal(s)
  /\ UNCHANGED world

Spec == Init /\ [][Next]_<<vars, world>>

\* The processes run; time passes.
FairSpec == Spec /\ WF_vars(Daemon) /\ WF_vars(Coldplug)

-----------------------------------------------------------------------------
(* Properties. *)

Events == [action : {"none", "add", "remove"}, dev : Devices \cup {"none"}]

\* Everything has its type, and no socket holds more than its size.
TypeOK ==
  /\ present \subseteq Devices /\ events \in 0 .. world.max
  /\ node \in [Devices -> {"none", "failed", "default", "rules", "more"}]
  /\ daemon.pc \in {"load", "parse", "poll", "handle", "publish", "off"}
  /\ daemon.rules \in {"none", "default", "rules", "more"}
  /\ daemon.signals \subseteq {"TERM", "HUP"} /\ daemon.event \in Events
  /\ file.content \in world.files
  /\ Len(socket.queue) <= world.buffer /\ Len(cold.socket.queue) <= world.buffer
  /\ cold.pc \in {"idle", "read", "trigger", "wait", "ok", "timeout", "failed"}
  /\ cold.triggered \subseteq Devices /\ cold.at \in 1 .. Len(world.listing) + 1

\* An entry whose event is sent for one trigger of the helper and nothing else.
Alone(d) ==
  d \notin world.plugs /\ \A i, j \in 1 .. Len(world.listing) : world.listing[i] = d /\ world.listing[j] = d => i = j

\* When the helper ends well, every device it has triggered has been handled,
\* unless an event was lost.  (Not so if the device it waits for is listed twice
\* or plugged in on its own as well: that event comes back first.)
SyncHandled ==
  Alone(cold.last) /\ cold.pc = "ok" /\ ~socket.lost => \A d \in cold.triggered : node[d] # "none"

\* What is published has been handled.
PublishedHandled ==
  \A i \in 1 .. Len(cold.socket.queue) :
    cold.socket.queue[i].action = "add" => node[cold.socket.queue[i].dev] # "none"

\* The helper times out only when an event was lost or the daemon has gone.  (Not
\* so if the entry read last has not been triggered, having no uevent file or one
\* that could not be written: it is waited for all the same.)
TimeOutMeansLoss ==
  cold.last \in cold.triggered /\ cold.pc = "timeout" => socket.lost \/ cold.socket.lost \/ daemon.pc = "off"

\* Once a HUP that follows the last edit has been taken, the daemon serves what
\* the file says; a file that is not valid leaves it with valid rules.
HupApplies ==
  daemon.pc = "poll" /\ "HUP" \notin daemon.signals /\ ~file.changed =>
    /\ daemon.rules # "none"
    /\ file.content \notin {"bad", "unreadable"} => daemon.rules = Rules(file.content, "none")

\* Lost events are reported with the next event that is handled, and by the time
\* the daemon has read what is queued if that is all events.  (Junk takes the
\* count of an overrun and is not followed by the report.)
LossReported ==
  /\ daemon.pc = "publish" /\ socket.lost => daemon.warned \/ socket.overrun
  /\ daemon.pc = "poll" /\ socket.queue = <<>> /\ socket.lost /\ ~world.junk => daemon.warned

\* The helper ends.
SyncEnds == <>(cold.pc \in {"ok", "timeout", "failed"})

\* Every device the helper triggers is handled, unless an event is lost or the
\* daemon ends.
TriggeredHandled ==
  \A d \in Devices : d \in cold.triggered ~> node[d] # "none" \/ socket.lost \/ daemon.pc = "off"

-----------------------------------------------------------------------------
(* What the runs check. *)

\* What the helper reports is true: it ends well once everything it triggered has
\* been handled, and times out only for a loss.
HelperSound == SyncHandled /\ PublishedHandled /\ TimeOutMeansLoss

\* The daemon notices what it missed: lost events and edits of its configuration.
DaemonSound == TypeOK /\ LossReported /\ HupApplies

\* Nobody waits for ever: the helper ends, and what it triggers is handled.
HelperEnds == SyncEnds /\ TriggeredHandled
=============================================================================
