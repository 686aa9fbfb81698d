--------------------------- MODULE HotplugProofs ---------------------------
(***************************************************************************)
(* Proofs about mdevd and mdevd-coldplug for every listing of sysfs, any   *)
(* sizes of sockets and any plugs, edits, signals and failures.            *)
(***************************************************************************)
EXTENDS Hotplug, TLAPS

Real == [action : {"add", "remove"}, dev : Devices]
Datagrams == Real \cup {Junk}
Sockets == [queue : Seq(Datagrams), overrun : BOOLEAN, congested : BOOLEAN, lost : BOOLEAN]
Rulesets == {"default", "rules", "more"}
Daemons ==
  [pc : {"load", "parse", "poll", "handle", "publish", "off"}, rules : {"none"} \cup Rulesets,
   read : {"rules", "more", "bad", "missing"}, signals : SUBSET {"TERM", "HUP"},
   event : Real \cup {NoEvent}, missed : BOOLEAN, warned : BOOLEAN]
Helpers ==
  [pc : {"idle", "read", "trigger", "wait", "ok", "timeout", "failed"}, at : Nat, last : Entries \cup {"none"},
   tried : BOOLEAN, triggered : SUBSET Devices, bound : BOOLEAN, socket : Sockets]

\* Within its size, and a socket that has lost something still holds an event.
Fits(s) ==
  /\ Len(s.queue) <= world.buffer /\ (s.overrun \/ s.congested => s.queue # <<>>)
  /\ s.congested => s.lost

Typed ==
  /\ present \subseteq Devices /\ events \in 0 .. world.max
  /\ node \in [Devices -> {"none", "failed"} \cup Rulesets]
  /\ daemon \in Daemons /\ socket \in Sockets /\ cold \in Helpers
  /\ file \in [content : world.files, changed : BOOLEAN]
  /\ Fits(socket) /\ Fits(cold.socket)

-----------------------------------------------------------------------------
(* The invariant. *)

Serving == {"poll", "handle", "publish"}

\* The rules in use are valid, and those of the file unless it has been changed
\* or a HUP is waiting; a loss is on its way to be reported.
DaemonInv ==
  /\ daemon.pc \in {"handle", "publish"} => daemon.event \in Real
  /\ daemon.pc \in Serving => daemon.rules # "none"
  /\ "HUP" \notin daemon.signals /\ ~file.changed =>
       /\ daemon.pc = "parse" => daemon.read = file.content
       /\ daemon.pc \in Serving /\ file.content \notin {"bad", "unreadable"} =>
            daemon.rules = Rules(file.content, "none")
  /\ daemon.missed => daemon.pc # "publish" /\ (daemon.pc = "handle" \/ world.junk)
  /\ \A i \in 1 .. Len(socket.queue) : socket.queue[i] = Junk => world.junk
  /\ socket.lost => daemon.warned \/ daemon.missed \/ socket.overrun

Handled(d) == node[d] # "none"

\* What is about to be published has been handled.
PublishInv ==
  /\ daemon.pc = "publish" /\ daemon.event.action = "add" => Handled(daemon.event.dev)
  /\ PublishedHandled

At(d, pcs) == daemon.pc \in pcs /\ daemon.event = Event("add", d)
In(d, s) == \E i \in 1 .. Len(s.queue) : s.queue[i] = Event("add", d)
OnTheWay(d) == In(d, socket) \/ At(d, {"handle", "publish"}) \/ In(d, cold.socket)

\* The helper has triggered entries it has passed; events come from it or
\* from plugs.
ScanInv ==
  /\ cold.at \in 1 .. Len(world.listing) + 1
  /\ cold.pc = "trigger" => cold.at <= Len(world.listing) /\ cold.last = world.listing[cold.at]
  /\ cold.triggered \subseteq {world.listing[i] : i \in 1 .. cold.at - 1}
  /\ IF cold.pc = "idle" THEN cold.triggered = {} ELSE cold.bound
  /\ cold.triggered # {} => cold.tried
  /\ \A d \in Entries : OnTheWay(d) => d \in cold.triggered \cup world.plugs

\* Handled, or ahead of place k of the daemon's socket.
Ahead(d, k) ==
  \/ Handled(d) \/ At(d, {"handle"})
  \/ \E j \in 1 .. Len(socket.queue) : j <= k /\ socket.queue[j] = Event("add", d)

\* The event that is waited for is behind that of d.
Behind(d) ==
  /\ \A i \in 1 .. Len(socket.queue) : socket.queue[i] = Event("add", cold.last) => Ahead(d, i)
  /\ At(cold.last, {"handle"}) => Handled(d) \/ d = cold.last
  /\ At(cold.last, {"publish"}) \/ In(cold.last, cold.socket) => Handled(d)
  /\ cold.pc = "ok" => Handled(d)

\* Everything triggered is handled or on its way to be, and whatever is waited
\* for is behind all the rest.
OrderInv ==
  ~socket.lost => \A d \in cold.triggered :
    /\ Ahead(d, Len(socket.queue))
    /\ Alone(cold.last) => Behind(d)

Excused == socket.lost \/ cold.socket.lost \/ daemon.pc = "off"

\* Whose event has not been taken by the helper.
Awaited(d) == cold.pc \in {"read", "trigger"} \/ (cold.pc = "wait" /\ d = cold.last)

\* The event of an entry that was triggered is on its way until it is taken.
SyncInv ==
  /\ \A d \in cold.triggered : Awaited(d) => OnTheWay(d) \/ Excused
  /\ cold.pc = "timeout" /\ cold.last \in cold.triggered => Excused

IInv == Typed /\ DaemonInv /\ PublishInv /\ ScanInv /\ OrderInv /\ SyncInv
-----------------------------------------------------------------------------
(* Sockets. *)

LEMMA EventIs ==
  ASSUME NEW a \in {"add", "remove"}, NEW d \in Devices
  PROVE  Event(a, d) \in Real /\ Event(a, d).action = a /\ Event(a, d).dev = d
  BY DEF Event, Real

LEMMA NoEventIs == \A d : Event("add", d) # NoEvent
<1> TAKE d
<1>1. Event("add", d).action = "add" /\ NoEvent.action = "none"
  BY DEF Event, NoEvent
<1> QED  BY <1>1

LEMMA JunkIs == \A d : \A a \in {"add", "remove"} : Event(a, d) # Junk
<1> SUFFICES ASSUME NEW a \in {"add", "remove"}, NEW d PROVE Event(a, d) # Junk
  OBVIOUS
<1>1. Event(a, d).action = a /\ Junk.action = "junk"
  BY DEF Event, Junk
<1> QED  BY <1>1

\* A message is appended, or lost and the socket keeps what it holds.
LEMMA DeliverOf ==
  ASSUME world \in World, NEW s \in Sockets, Fits(s), NEW e \in Datagrams
  PROVE  LET t == Deliver(s, e)
         IN /\ t \in Sockets /\ Fits(t)
            /\ \/ /\ t.queue = Append(s.queue, e) /\ t.lost = s.lost /\ t.overrun = s.overrun
                  /\ Len(t.queue) = Len(s.queue) + 1 /\ t.queue[Len(s.queue) + 1] = e
                  /\ \A i \in 1 .. Len(s.queue) : t.queue[i] = s.queue[i]
               \/ /\ t.queue = s.queue /\ t.lost /\ (s.overrun => t.overrun)
                  /\ s.lost \/ t.overrun
<1>1. /\ world.buffer \in Nat \ {0}
      /\ s.queue \in Seq(Datagrams) /\ s.overrun \in BOOLEAN /\ s.congested \in BOOLEAN /\ s.lost \in BOOLEAN
  BY DEF World, Sockets
<1>2. CASE ~s.congested /\ Len(s.queue) < world.buffer
  <2> DEFINE q == Append(s.queue, e)
             t == [s EXCEPT !.queue = q]
  <2>1. Deliver(s, e) = t
    BY <1>2 DEF Deliver
  <2>2. /\ q \in Seq(Datagrams) /\ q # <<>> /\ Len(q) = Len(s.queue) + 1 /\ q[Len(s.queue) + 1] = e
        /\ \A i \in 1 .. Len(s.queue) : q[i] = s.queue[i]
    BY <1>1
  <2>3. Len(q) <= world.buffer
    BY <1>1, <1>2, <2>2
  <2> HIDE DEF q
  <2>4. t \in Sockets /\ t.queue = q /\ t.lost = s.lost /\ t.overrun = s.overrun /\ t.congested = s.congested
    BY <2>2 DEF Sockets
  <2> HIDE DEF t
  <2>5. Fits(t)
    BY <1>2, <2>2, <2>3, <2>4 DEF Fits
  <2> QED  BY <2>1, <2>2, <2>4, <2>5 DEF q
<1>3. CASE ~(~s.congested /\ Len(s.queue) < world.buffer)
  <2> DEFINE o == s.overrun \/ ~s.congested
             t == [s EXCEPT !.overrun = o, !.congested = TRUE, !.lost = TRUE]
  <2>1. Deliver(s, e) = t
    BY <1>3 DEF Deliver
  <2>2. o \in BOOLEAN
    BY <1>1
  <2>3. s.queue # <<>>
    BY <1>1, <1>3 DEF Fits
  <2>4. (s.overrun => o) /\ (s.lost \/ o)
    BY DEF Fits
  <2> HIDE DEF o
  <2>5. t \in Sockets /\ t.queue = s.queue /\ t.lost = TRUE /\ t.overrun = o
    BY <2>2 DEF Sockets
  <2> HIDE DEF t
  <2>6. Fits(t)
    BY <2>3, <2>5 DEF Fits
  <2> QED  BY <2>1, <2>4, <2>5, <2>6
<1> QED  BY <1>2, <1>3

LEMMA TakenOf ==
  ASSUME NEW s \in Sockets, Fits(s), s.queue # <<>>, world \in World
  PROVE  LET t == Taken(s)
         IN /\ t \in Sockets /\ Fits(t) /\ t.lost = s.lost /\ t.overrun = FALSE
            /\ Head(s.queue) = s.queue[1] /\ Head(s.queue) \in Datagrams
            /\ Len(s.queue) \in Nat /\ Len(s.queue) >= 1 /\ Len(t.queue) = Len(s.queue) - 1
            /\ \A i \in 1 .. Len(t.queue) : t.queue[i] = s.queue[i + 1]
<1>1. /\ world.buffer \in Nat
      /\ s.queue \in Seq(Datagrams) /\ s.overrun \in BOOLEAN /\ s.congested \in BOOLEAN /\ s.lost \in BOOLEAN
  BY DEF World, Sockets
<1> DEFINE q == Tail(s.queue)
           c == s.congested /\ Len(s.queue) > 1
           t == [s EXCEPT !.queue = q, !.overrun = FALSE, !.congested = c]
<1>2. Taken(s) = t
  BY DEF Taken
<1>3. /\ q \in Seq(Datagrams) /\ Len(s.queue) \in Nat /\ Len(s.queue) >= 1 /\ Len(q) = Len(s.queue) - 1
      /\ Head(s.queue) = s.queue[1] /\ Head(s.queue) \in Datagrams
      /\ \A i \in 1 .. Len(q) : q[i] = s.queue[i + 1]
  BY <1>1
<1> HIDE DEF q
<1>4. Len(q) # 0 => q # <<>>
  OBVIOUS
<1>c. c => q # <<>> /\ s.lost
  BY <1>3, <1>4 DEF Fits
<1>5. c \in BOOLEAN
  BY <1>1
<1> HIDE DEF c
<1>6. t \in Sockets /\ t.queue = q /\ t.lost = s.lost /\ t.overrun = FALSE /\ t.congested = c
  BY <1>3, <1>5 DEF Sockets
<1> HIDE DEF t
<1>7. Fits(t)
  BY <1>1, <1>3, <1>c, <1>6 DEF Fits
<1> QED  BY <1>2, <1>3, <1>6, <1>7

-----------------------------------------------------------------------------
(* Steps that only touch the daemon and its file. *)

LEMMA SameLast ==
  ASSUME UNCHANGED world, cold'.last = cold.last
  PROVE  Alone(cold.last)' <=> Alone(cold.last)
  BY DEF Alone

\* The helper and the events stay where they are.
LEMMA Unmoved ==
  ASSUME PublishInv, ScanInv, OrderInv, SyncInv, UNCHANGED <<world, node, socket, cold>>,
         daemon'.event = daemon.event,
         \/ daemon.pc = daemon'.pc
         \/ daemon.pc \notin {"handle", "publish"} /\ daemon'.pc \notin {"handle", "publish"} /\ daemon.pc # "off"
  PROVE  PublishInv' /\ ScanInv' /\ OrderInv' /\ SyncInv'
<1>1. \A d : \A pcs \in {{"handle"}, {"publish"}, {"handle", "publish"}} : At(d, pcs)' <=> At(d, pcs)
  BY DEF At
<1>2. \A d : Handled(d)' <=> Handled(d)
  BY DEF Handled
<1>3. \A d : OnTheWay(d)' <=> OnTheWay(d)
  BY <1>1 DEF OnTheWay, In
<1>4. \A d, k : Ahead(d, k)' <=> Ahead(d, k)
  BY <1>1, <1>2 DEF Ahead
<1>5. PublishInv'
  BY <1>2 DEF PublishInv, PublishedHandled, Handled
<1>6. ScanInv'
  BY <1>3 DEF ScanInv
<1>7. OrderInv'
  BY <1>1, <1>2, <1>4, SameLast DEF OrderInv, Behind, In
<1>8. SyncInv'
  BY <1>3 DEF SyncInv, Awaited, Excused
<1> QED  BY <1>5, <1>6, <1>7, <1>8

LEMMA DaemonFields ==
  ASSUME Typed
  PROVE  /\ daemon.pc \in {"load", "parse", "poll", "handle", "publish", "off"}
         /\ daemon.rules \in {"none"} \cup Rulesets /\ daemon.read \in {"rules", "more", "bad", "missing"}
         /\ daemon.signals \in SUBSET {"TERM", "HUP"} /\ daemon.event \in Real \cup {NoEvent}
         /\ daemon.missed \in BOOLEAN /\ daemon.warned \in BOOLEAN
  BY DEF Typed, Daemons

LEMMA ReadConfigKeeps ==
  ASSUME IInv, world \in World, ReadConfig, UNCHANGED world
  PROVE  IInv'
<1> USE DEF ReadConfig
<1>1. Typed /\ DaemonInv
  BY DEF IInv
<1>2. CASE file.content = "unreadable"
  <2>1. daemon' = [daemon EXCEPT !.pc = "off"]
    BY <1>2
  <2>2. daemon' \in Daemons /\ daemon'.pc = "off" /\ daemon'.event = daemon.event
        /\ daemon'.missed = daemon.missed /\ daemon'.warned = daemon.warned
    BY <1>1, <2>1 DEF Typed, Daemons
  <2>3. Typed'
    BY <1>1, <2>2 DEF Typed, Fits
  <2>4. DaemonInv'
    BY <1>1, <2>2 DEF DaemonInv, Serving
  <2> QED  BY <2>2, <2>3, <2>4, Unmoved DEF IInv
<1>3. CASE file.content # "unreadable"
  <2>1. daemon' = [daemon EXCEPT !.pc = "parse", !.read = file.content]
    BY <1>3
  <2>2. file.content \in {"rules", "more", "bad", "missing"}
    BY <1>1, <1>3 DEF Typed, World
  <2>3. daemon' \in Daemons /\ daemon'.pc = "parse" /\ daemon'.event = daemon.event /\ daemon'.read = file.content
        /\ daemon'.missed = daemon.missed /\ daemon'.warned = daemon.warned
    BY <1>1, <2>1, <2>2 DEF Typed, Daemons
  <2>4. Typed'
    BY <1>1, <2>3 DEF Typed, Fits
  <2>5. DaemonInv'
    BY <1>1, <2>3 DEF DaemonInv, Serving
  <2> QED  BY <2>3, <2>4, <2>5, Unmoved DEF IInv
<1> QED  BY <1>2, <1>3

LEMMA LoadConfigKeeps ==
  ASSUME IInv, world \in World, LoadConfig, UNCHANGED world
  PROVE  IInv'
<1> USE DEF LoadConfig
<1>1. Typed /\ DaemonInv
  BY DEF IInv
<1>2. CASE daemon.rules = "none" /\ daemon.read = "bad"
  <2>1. daemon' = [daemon EXCEPT !.pc = "off"]
    BY <1>2 DEF Parsed
  <2>2. daemon' \in Daemons /\ daemon'.pc = "off" /\ daemon'.event = daemon.event
        /\ daemon'.missed = daemon.missed /\ daemon'.warned = daemon.warned
    BY <1>1, <2>1 DEF Typed, Daemons
  <2>3. Typed'
    BY <1>1, <2>2 DEF Typed, Fits
  <2>4. DaemonInv'
    BY <1>1, <2>2 DEF DaemonInv, Serving
  <2> QED  BY <2>2, <2>3, <2>4, Unmoved DEF IInv
<1>3. CASE ~(daemon.rules = "none" /\ daemon.read = "bad")
  <2> DEFINE r == Rules(daemon.read, daemon.rules)
  <2>1. daemon' = [daemon EXCEPT !.pc = "poll", !.rules = r]
    BY <1>3 DEF Parsed
  <2>2. r \in Rulesets /\ (daemon.read # "bad" => r = Rules(daemon.read, "none"))
    BY <1>1, <1>3, DaemonFields DEF Rules, Rulesets
  <2> HIDE DEF r
  <2>3. daemon' \in Daemons /\ daemon'.pc = "poll" /\ daemon'.event = daemon.event /\ daemon'.rules = r
        /\ daemon'.missed = daemon.missed /\ daemon'.warned = daemon.warned /\ daemon'.signals = daemon.signals
    BY <1>1, <2>1, <2>2 DEF Typed, Daemons
  <2>4. Typed'
    BY <1>1, <2>3 DEF Typed, Fits
  <2>5. r # "none"
    BY <2>2 DEF Rulesets
  <2>6. DaemonInv'
    BY <1>1, <2>2, <2>3, <2>5 DEF DaemonInv, Serving
  <2> QED  BY <2>3, <2>4, <2>6, Unmoved DEF IInv
<1> QED  BY <1>2, <1>3

LEMMA SignalsKeep ==
  ASSUME IInv, world \in World, Signals, UNCHANGED world
  PROVE  IInv'
<1> USE DEF Signals
<1>1. Typed /\ DaemonInv
  BY DEF IInv
<1> DEFINE p == IF "TERM" \in daemon.signals THEN "off" ELSE "load"
<1>2. daemon' = [daemon EXCEPT !.pc = p, !.signals = {}]
  OBVIOUS
<1>3. p \in {"off", "load"}
  OBVIOUS
<1> HIDE DEF p
<1>4. daemon' \in Daemons /\ daemon'.pc = p /\ daemon'.event = daemon.event
      /\ daemon'.missed = daemon.missed /\ daemon'.warned = daemon.warned
  BY <1>1, <1>2, <1>3 DEF Typed, Daemons
<1>5. Typed'
  BY <1>1, <1>4 DEF Typed, Fits
<1>6. DaemonInv'
  BY <1>1, <1>3, <1>4 DEF DaemonInv, Serving
<1> QED  BY <1>3, <1>4, <1>5, <1>6, Unmoved DEF IInv

LEMMA SignalKeeps ==
  ASSUME IInv, world \in World, NEW s \in {"TERM", "HUP"}, Signal(s), UNCHANGED world
  PROVE  IInv'
<1> USE DEF Signal, Happens
<1>1. Typed /\ DaemonInv
  BY DEF IInv
<1> DEFINE S == daemon.signals \cup {s}
<1>2. daemon' = [daemon EXCEPT !.signals = S]
  OBVIOUS
<1>3. S \in SUBSET {"TERM", "HUP"} /\ s \in S /\ daemon.signals \subseteq S
  BY <1>1, DaemonFields
<1> HIDE DEF S
<1>4. /\ daemon' \in Daemons /\ daemon'.signals = S /\ daemon'.pc = daemon.pc /\ daemon'.event = daemon.event
      /\ daemon'.rules = daemon.rules /\ daemon'.read = daemon.read
      /\ daemon'.missed = daemon.missed /\ daemon'.warned = daemon.warned
  BY <1>1, <1>2, <1>3 DEF Typed, Daemons
<1>5. file' \in [content : world.files, changed : BOOLEAN] /\ file'.content = file.content /\ (s # "HUP" => file' = file)
  BY <1>1 DEF Typed
<1>6. events' \in 0 .. world.max
  BY <1>1 DEF Typed, World
<1>7. Typed'
  BY <1>1, <1>4, <1>5, <1>6 DEF Typed, Fits
<1>8. DaemonInv'
  BY <1>1, <1>3, <1>4, <1>5 DEF DaemonInv, Serving
<1> QED  BY <1>4, <1>7, <1>8, Unmoved DEF IInv

LEMMA EditKeeps ==
  ASSUME IInv, world \in World, NEW content \in world.files, Edit(content), UNCHANGED world
  PROVE  IInv'
<1> USE DEF Edit, Happens
<1>1. Typed /\ DaemonInv
  BY DEF IInv
<1>2. file' \in [content : world.files, changed : BOOLEAN] /\ file'.changed = TRUE
  OBVIOUS
<1>3. events' \in 0 .. world.max
  BY <1>1 DEF Typed, World
<1>4. Typed'
  BY <1>1, <1>2, <1>3 DEF Typed, Fits
<1>5. DaemonInv'
  BY <1>1, <1>2 DEF DaemonInv, Serving
<1> QED  BY <1>4, <1>5, Unmoved DEF IInv
-----------------------------------------------------------------------------
(* An event goes through the daemon. *)

LEMMA SameEvent ==
  ASSUME NEW d, NEW e, Event("add", d) = Event("add", e)
  PROVE  d = e
<1>1. Event("add", d).dev = d /\ Event("add", e).dev = e
  BY DEF Event
<1> QED  BY <1>1

\* The head of the socket goes to the daemon, or is dropped.
LEMMA Takes ==
  ASSUME IInv, world \in World, UNCHANGED <<world, present, node, file, cold, events>>,
         daemon.pc = "poll", socket.queue # <<>>, socket' = Taken(socket),
         NEW h, h = Head(socket.queue), NEW m, m <=> daemon.missed \/ socket.overrun,
         daemon' \in Daemons, daemon'.missed = m,
         daemon'.rules = daemon.rules, daemon'.signals = daemon.signals, daemon'.warned = daemon.warned,
         \/ daemon'.pc = "handle" /\ daemon'.event = h /\ h \in Real
         \/ daemon'.pc = "poll" /\ h = Junk
  PROVE  IInv'
<1>1. Typed /\ DaemonInv /\ PublishInv /\ ScanInv /\ OrderInv /\ SyncInv
  BY DEF IInv
<1>n. PICK n : n = Len(socket.queue)
  OBVIOUS
<1>2. socket \in Sockets /\ Fits(socket) /\ socket.queue # <<>>
  BY <1>1 DEF Typed
<1>3. /\ socket' \in Sockets /\ Fits(socket') /\ socket'.lost = socket.lost /\ socket'.overrun = FALSE
      /\ Head(socket.queue) = socket.queue[1]
      /\ n \in Nat /\ n >= 1 /\ Len(socket'.queue) = n - 1
      /\ \A i \in 1 .. n - 1 : socket'.queue[i] = socket.queue[i + 1]
  BY <1>2, <1>n, TakenOf
<1>h. h = socket.queue[1]
  BY <1>3
<1>5. \A d : h = Event("add", d) => daemon'.pc = "handle" /\ daemon'.event = h
  BY JunkIs
<1>6. daemon'.pc \in {"handle", "poll"} /\ (daemon'.pc = "handle" => daemon'.event = h /\ h \in Real)
  OBVIOUS
<1>7. Typed'
  BY <1>1, <1>3 DEF Typed, Fits
<1>8. DaemonInv'
  <2>1. \A i \in 1 .. Len(socket'.queue) : socket'.queue[i] = Junk => world.junk
    <3>1. \A i \in 1 .. n - 1 : i + 1 \in 1 .. n
      BY <1>3
    <3> QED  BY <1>1, <1>n, <1>3, <3>1 DEF DaemonInv
  <2>2. daemon'.missed => daemon'.pc # "publish" /\ (daemon'.pc = "handle" \/ world.junk)
    <3>1. 1 \in 1 .. Len(socket.queue)
      BY <1>n, <1>3
    <3>2. h = Junk => world.junk
      BY <1>1, <1>h, <3>1 DEF DaemonInv
    <3> QED  BY <1>6, <3>2
  <2>3. daemon'.pc \in Serving => daemon.pc \in Serving
    BY DEF Serving
  <2>4. socket'.lost => daemon'.warned \/ daemon'.missed \/ socket'.overrun
    BY <1>1, <1>3 DEF DaemonInv
  <2>5. daemon'.pc # "parse"
    BY <1>6
  <2> QED  BY <1>1, <1>6, <2>1, <2>2, <2>3, <2>4, <2>5 DEF DaemonInv
<1>9. PublishInv'
  BY <1>1, <1>6 DEF PublishInv, PublishedHandled
<1>10. ASSUME NEW d PROVE OnTheWay(d)' <=> OnTheWay(d)
  <2>1. ASSUME In(d, socket) PROVE In(d, socket)' \/ At(d, {"handle", "publish"})'
    <3>1. PICK i \in 1 .. n : socket.queue[i] = Event("add", d)
      BY <1>n, <2>1 DEF In
    <3>2. CASE i = 1
      BY <1>5, <1>h, <3>1, <3>2 DEF At
    <3>3. CASE i # 1
      <4>1. i - 1 \in 1 .. n - 1 /\ (i - 1) + 1 = i
        BY <1>3, <3>3
      <4>2. socket'.queue[i - 1] = Event("add", d)
        BY <1>3, <3>1, <4>1
      <4> QED  BY <1>3, <4>1, <4>2 DEF In
    <3> QED  BY <3>2, <3>3
  <2>2. ASSUME In(d, socket)' PROVE In(d, socket)
    <3>1. PICK i \in 1 .. n - 1 : socket'.queue[i] = Event("add", d)
      BY <1>3, <2>2 DEF In
    <3>2. i + 1 \in 1 .. n /\ socket.queue[i + 1] = Event("add", d)
      BY <1>3, <3>1
    <3> QED  BY <1>n, <3>2 DEF In
  <2>3. At(d, {"handle", "publish"})' => In(d, socket)
    BY <1>n, <1>3, <1>6, <1>h DEF At, In
  <2>4. ~At(d, {"handle", "publish"}) /\ (In(d, cold.socket)' <=> In(d, cold.socket))
    BY DEF At, In
  <2> QED  BY <2>1, <2>2, <2>3, <2>4 DEF OnTheWay
<1>11. ScanInv'
  BY <1>1, <1>10 DEF ScanInv
<1>12. ASSUME NEW d, NEW k \in 1 .. n, Ahead(d, k) PROVE Ahead(d, k - 1)' /\ (k = 1 => Handled(d) \/ h = Event("add", d))
  <2>1. CASE Handled(d)
    BY <2>1 DEF Ahead, Handled
  <2>2. CASE \E j \in 1 .. n : j <= k /\ socket.queue[j] = Event("add", d)
    <3>1. PICK j \in 1 .. n : j <= k /\ socket.queue[j] = Event("add", d)
      BY <2>2
    <3>2. CASE j = 1
      BY <1>5, <1>h, <3>1, <3>2 DEF Ahead, At
    <3>3. CASE j # 1
      <4>1. j - 1 \in 1 .. n - 1 /\ j - 1 <= k - 1 /\ (j - 1) + 1 = j /\ k # 1
        BY <1>3, <3>1, <3>3
      <4>2. socket'.queue[j - 1] = Event("add", d)
        BY <1>3, <3>1, <4>1
      <4> QED  BY <1>3, <4>1, <4>2 DEF Ahead
    <3> QED  BY <3>2, <3>3
  <2> QED  BY <1>n, <1>12, <2>1, <2>2 DEF Ahead, At
<1>13. OrderInv'
  <2> SUFFICES ASSUME ~socket.lost, NEW d \in cold.triggered
               PROVE  Ahead(d, n - 1)' /\ (Alone(cold.last) => Behind(d)')
    BY <1>3, SameLast DEF OrderInv
  <2>0. n \in 1 .. n /\ Ahead(d, n)
    BY <1>1, <1>n, <1>3 DEF OrderInv
  <2>1. Ahead(d, n - 1)'
    BY <1>12, <2>0
  <2>2. ASSUME Alone(cold.last) PROVE Behind(d)'
    <3>1. Behind(d)
      BY <1>1, <2>2 DEF OrderInv
    <3>2. ASSUME NEW i \in 1 .. n - 1, socket'.queue[i] = Event("add", cold.last) PROVE Ahead(d, i)'
      <4>1. i + 1 \in 1 .. n /\ (i + 1) - 1 = i /\ socket.queue[i + 1] = Event("add", cold.last)
        BY <1>3, <3>2
      <4>2. Ahead(d, i + 1)
        BY <1>n, <3>1, <4>1 DEF Behind
      <4>3. Ahead(d, (i + 1) - 1)'
        BY <1>12, <4>1, <4>2
      <4> QED  BY <4>1, <4>3
    <3>3. ASSUME At(cold.last, {"handle"})' PROVE Handled(d)' \/ d = cold.last
      <4>1. h = Event("add", cold.last) /\ 1 \in 1 .. n
        BY <1>3, <1>6, <3>3 DEF At
      <4>2. Ahead(d, 1)
        BY <1>n, <1>h, <3>1, <4>1 DEF Behind
      <4>3. Handled(d) \/ h = Event("add", d)
        BY <1>12, <4>1, <4>2
      <4> QED  BY <4>1, <4>3, SameEvent DEF Handled
    <3>4. ~At(cold.last, {"publish"})'
      BY <1>6 DEF At
    <3> QED  BY <1>3, <3>1, <3>2, <3>3, <3>4 DEF Behind, In, Handled
  <2> QED  BY <2>1, <2>2
<1>14. SyncInv'
  BY <1>1, <1>3, <1>6, <1>10 DEF SyncInv, Awaited, Excused
<1> QED  BY <1>7, <1>8, <1>9, <1>11, <1>13, <1>14 DEF IInv

LEMMA TakeEventKeeps ==
  ASSUME IInv, world \in World, TakeEvent \/ DropJunk, UNCHANGED world
  PROVE  IInv'
<1> USE DEF TakeEvent, DropJunk
<1>1. Typed
  BY DEF IInv
<1>2. socket \in Sockets /\ Fits(socket) /\ socket.queue # <<>>
  BY <1>1 DEF Typed
<1> DEFINE h == Head(socket.queue)
           m == daemon.missed \/ socket.overrun
<1>3. h \in Datagrams
  BY <1>2, TakenOf
<1>4. m \in BOOLEAN /\ (m <=> daemon.missed \/ socket.overrun)
  BY <1>1, <1>2, DaemonFields DEF Sockets
<1>5. \/ h # Junk /\ daemon' = [daemon EXCEPT !.pc = "handle", !.event = h, !.missed = m]
      \/ h = Junk /\ daemon' = [daemon EXCEPT !.missed = m]
  BY DEF Counted
<1>6. /\ UNCHANGED <<present, node, file, cold, events>> /\ socket' = Taken(socket) /\ daemon.pc = "poll"
      /\ h = Head(socket.queue)
  OBVIOUS
<1> HIDE DEF TakeEvent, DropJunk, h, m
<1>7. CASE h # Junk
  <2>1. h \in Real
    BY <1>3, <1>7 DEF Datagrams
  <2>2. daemon' = [daemon EXCEPT !.pc = "handle", !.event = h, !.missed = m]
    BY <1>5, <1>7
  <2>3. /\ daemon' \in Daemons /\ daemon'.pc = "handle" /\ daemon'.event = h /\ daemon'.missed = m
        /\ daemon'.rules = daemon.rules /\ daemon'.signals = daemon.signals /\ daemon'.warned = daemon.warned
    BY <1>1, <1>4, <2>1, <2>2 DEF Typed, Daemons
  <2> QED  BY <1>2, <1>4, <1>6, <2>1, <2>3, Takes
<1>8. CASE h = Junk
  <2>1. daemon' = [daemon EXCEPT !.missed = m]
    BY <1>5, <1>8
  <2>2. /\ daemon' \in Daemons /\ daemon'.pc = daemon.pc /\ daemon'.missed = m
        /\ daemon'.rules = daemon.rules /\ daemon'.signals = daemon.signals /\ daemon'.warned = daemon.warned
    BY <1>1, <1>4, <2>1 DEF Typed, Daemons
  <2> QED  BY <1>2, <1>4, <1>6, <1>8, <2>2, Takes
<1> QED  BY <1>7, <1>8

\* The node is made, or the attempt has failed.
LEMMA Handles ==
  ASSUME IInv, world \in World, UNCHANGED <<world, present, socket, file, cold>>,
         daemon.pc = "handle", daemon' = Reported,
         node' \in [Devices -> {"none", "failed"} \cup Rulesets], events' \in 0 .. world.max,
         \A d : Handled(d) => Handled(d)',
         daemon.event.action = "add" => node'[daemon.event.dev] # "none"
  PROVE  IInv'
<1>1. Typed /\ DaemonInv /\ PublishInv /\ ScanInv /\ OrderInv /\ SyncInv
  BY DEF IInv
<1> DEFINE w == daemon.warned \/ daemon.missed
<1>2. daemon' = [daemon EXCEPT !.pc = "publish", !.warned = w, !.missed = FALSE]
  BY DEF Reported
<1>3. w \in BOOLEAN
  BY <1>1, DaemonFields
<1>w. w <=> daemon.warned \/ daemon.missed
  OBVIOUS
<1> HIDE DEF w
<1>4. /\ daemon' \in Daemons /\ daemon'.pc = "publish" /\ daemon'.event = daemon.event /\ daemon'.missed = FALSE
      /\ daemon'.rules = daemon.rules /\ daemon'.signals = daemon.signals /\ daemon'.warned = w
  BY <1>1, <1>2, <1>3 DEF Typed, Daemons
<1>5. Typed'
  BY <1>1, <1>4 DEF Typed, Fits
<1>6. DaemonInv'
  BY <1>1, <1>4, <1>w DEF DaemonInv, Serving
<1>7. PublishInv'
  BY <1>1, <1>4 DEF PublishInv, PublishedHandled, Handled
<1>8. \A d : OnTheWay(d)' <=> OnTheWay(d)
  BY <1>4 DEF OnTheWay, In, At
<1>9. ScanInv'
  BY <1>1, <1>8 DEF ScanInv
<1>10. ASSUME NEW d, At(d, {"handle"}) PROVE Handled(d)'
  <2>1. daemon.event.action = "add" /\ daemon.event.dev = d
    BY <1>10 DEF At, Event
  <2> QED  BY <2>1 DEF Handled
<1>11. ASSUME NEW d, NEW k, Ahead(d, k) PROVE Ahead(d, k)'
  BY <1>10, <1>11 DEF Ahead
<1>12. OrderInv'
  <2> SUFFICES ASSUME ~socket.lost, NEW d \in cold.triggered
               PROVE  Ahead(d, Len(socket.queue))' /\ (Alone(cold.last) => Behind(d)')
    BY SameLast DEF OrderInv
  <2>1. Ahead(d, Len(socket.queue))'
    BY <1>1, <1>11 DEF OrderInv
  <2>2. ASSUME Alone(cold.last) PROVE Behind(d)'
    <3>1. Behind(d)
      BY <1>1, <2>2 DEF OrderInv
    <3>2. At(cold.last, {"publish"})' => Handled(d)'
      <4>1. At(cold.last, {"publish"})' => At(cold.last, {"handle"})
        BY <1>4 DEF At
      <4> QED  BY <1>10, <3>1, <4>1 DEF Behind
    <3>3. ~At(cold.last, {"handle"})'
      BY <1>4 DEF At
    <3> QED  BY <1>11, <3>1, <3>2, <3>3 DEF Behind, In
  <2> QED  BY <2>1, <2>2
<1>13. SyncInv'
  BY <1>1, <1>4, <1>8 DEF SyncInv, Awaited, Excused
<1> QED  BY <1>5, <1>6, <1>7, <1>9, <1>12, <1>13 DEF IInv

LEMMA HandleKeeps ==
  ASSUME IInv, world \in World, Handle \/ HandleFails, UNCHANGED world
  PROVE  IInv'
<1>1. Typed /\ DaemonInv
  BY DEF IInv
<1>2. daemon.pc = "handle"
  BY DEF Handle, HandleFails
<1>3. daemon.event \in Real /\ daemon.rules \in Rulesets
  BY <1>1, <1>2, DaemonFields DEF DaemonInv, Serving
<1>4. daemon.event.dev \in Devices
  BY <1>3 DEF Real
<1>5. daemon' = Reported /\ UNCHANGED <<present, socket, file, cold>> /\ events' \in 0 .. world.max
  BY <1>1 DEF Handle, HandleFails, Typed, World
<1>6. /\ node' \in [Devices -> {"none", "failed"} \cup Rulesets]
      /\ \A d : node[d] # "none" => node'[d] # "none"
      /\ daemon.event.action = "add" => node'[daemon.event.dev] # "none"
  <2>1. node \in [Devices -> {"none", "failed"} \cup Rulesets]
    BY <1>1 DEF Typed
  <2>2. CASE Handle
    <3>1. CASE daemon.event.action = "add"
      <4>1. node' = [node EXCEPT ![daemon.event.dev] = daemon.rules]
        BY <2>2, <3>1 DEF Handle
      <4>2. daemon.rules # "none"
        BY <1>3 DEF Rulesets
      <4> QED  BY <1>3, <1>4, <2>1, <4>1, <4>2
    <3>2. CASE daemon.event.action # "add"
      <4>1. node' = node
        BY <2>2, <3>2 DEF Handle
      <4> QED  BY <2>1, <3>2, <4>1
    <3> QED  BY <3>1, <3>2
  <2>3. CASE HandleFails
    <3> DEFINE x == IF node[daemon.event.dev] = "none" THEN "failed" ELSE node[daemon.event.dev]
    <3>1. node' = [node EXCEPT ![daemon.event.dev] = x]
      BY <2>3 DEF HandleFails
    <3>2. x \in {"none", "failed"} \cup Rulesets /\ x # "none"
      BY <1>4, <2>1
    <3> HIDE DEF x
    <3> QED  BY <1>4, <2>1, <3>1, <3>2
  <2> QED  BY <2>2, <2>3
<1> QED  BY <1>2, <1>5, <1>6, Handles DEF Handled

LEMMA PublishKeeps ==
  ASSUME IInv, world \in World, Publish, UNCHANGED world
  PROVE  IInv'
<1> USE DEF Publish
<1>1. Typed /\ DaemonInv /\ PublishInv /\ ScanInv /\ OrderInv /\ SyncInv
  BY DEF IInv
<1>2. daemon' = [daemon EXCEPT !.pc = "poll", !.event = NoEvent]
  OBVIOUS
<1>3. /\ daemon' \in Daemons /\ daemon'.pc = "poll" /\ daemon'.event = NoEvent /\ daemon'.missed = daemon.missed
      /\ daemon'.rules = daemon.rules /\ daemon'.signals = daemon.signals /\ daemon'.warned = daemon.warned
  BY <1>1, <1>2 DEF Typed, Daemons
<1>4. daemon.event \in Real
  BY <1>1 DEF DaemonInv
<1>5. /\ cold' \in Helpers /\ Fits(cold'.socket)
      /\ cold'.pc = cold.pc /\ cold'.at = cold.at /\ cold'.last = cold.last
      /\ cold'.triggered = cold.triggered /\ cold'.bound = cold.bound /\ cold'.tried = cold.tried
      /\ cold.socket.lost => cold'.socket.lost
      /\ \A i \in 1 .. Len(cold'.socket.queue) :
           \/ cold'.socket.queue[i] = daemon.event
           \/ i \in 1 .. Len(cold.socket.queue) /\ cold'.socket.queue[i] = cold.socket.queue[i]
      /\ \A i \in 1 .. Len(cold.socket.queue) :
           i \in 1 .. Len(cold'.socket.queue) /\ cold'.socket.queue[i] = cold.socket.queue[i]
      /\ cold.bound => \/ cold'.socket.lost
                       \/ \E i \in 1 .. Len(cold'.socket.queue) : cold'.socket.queue[i] = daemon.event
  <2>1. cold \in Helpers /\ Fits(cold.socket)
    BY <1>1 DEF Typed
  <2>2. CASE ~cold.bound
    BY <2>1, <2>2 DEF Sent
  <2>3. CASE cold.bound
    <3> DEFINE t == Deliver(cold.socket, daemon.event)
    <3>1. cold.socket \in Sockets
      BY <2>1 DEF Helpers
    <3>2. Len(cold.socket.queue) \in Nat
      BY <3>1 DEF Sockets
    <3>3. /\ t \in Sockets /\ Fits(t)
          /\ \/ /\ t.lost = cold.socket.lost
                /\ Len(t.queue) = Len(cold.socket.queue) + 1 /\ t.queue[Len(cold.socket.queue) + 1] = daemon.event
                /\ \A i \in 1 .. Len(cold.socket.queue) : t.queue[i] = cold.socket.queue[i]
             \/ t.queue = cold.socket.queue /\ t.lost
      BY <1>4, <2>1, <3>1, DeliverOf DEF Datagrams
    <3>4. cold' = [cold EXCEPT !.socket = t]
      BY <2>3 DEF Sent
    <3> HIDE DEF t
    <3>5. /\ cold' \in Helpers /\ cold'.socket = t
          /\ cold'.pc = cold.pc /\ cold'.at = cold.at /\ cold'.last = cold.last
          /\ cold'.triggered = cold.triggered /\ cold'.bound = cold.bound /\ cold'.tried = cold.tried
      BY <2>1, <3>3, <3>4 DEF Helpers
    <3>6. CASE t.queue = cold.socket.queue /\ t.lost
      BY <3>3, <3>5, <3>6
    <3>7. CASE /\ t.lost = cold.socket.lost
               /\ Len(t.queue) = Len(cold.socket.queue) + 1 /\ t.queue[Len(cold.socket.queue) + 1] = daemon.event
               /\ \A i \in 1 .. Len(cold.socket.queue) : t.queue[i] = cold.socket.queue[i]
      <4>1. \A i \in 1 .. Len(t.queue) : i = Len(cold.socket.queue) + 1 \/ i \in 1 .. Len(cold.socket.queue)
        BY <3>2, <3>7
      <4>2. \A i \in 1 .. Len(cold.socket.queue) : i \in 1 .. Len(t.queue)
        BY <3>2, <3>7
      <4>3. Len(cold.socket.queue) + 1 \in 1 .. Len(t.queue)
        BY <3>2, <3>7
      <4> QED  BY <3>3, <3>5, <3>7, <4>1, <4>2, <4>3
    <3> QED  BY <3>3, <3>6, <3>7
  <2> QED  BY <2>2, <2>3
<1>6. Typed'
  BY <1>1, <1>3, <1>5 DEF Typed, Fits
<1>7. DaemonInv'
  BY <1>1, <1>3 DEF DaemonInv, Serving
<1>8. PublishInv'
  BY <1>1, <1>3, <1>5 DEF PublishInv, PublishedHandled, Handled
<1>11. \A d : (In(d, socket)' <=> In(d, socket)) /\ (Handled(d)' <=> Handled(d))
  BY DEF In, Handled
<1>a. ASSUME NEW d, OnTheWay(d)' PROVE OnTheWay(d)
  <2>1. In(d, cold.socket)' => In(d, cold.socket) \/ At(d, {"handle", "publish"})
    BY <1>5 DEF In, At
  <2>2. ~At(d, {"handle", "publish"})'
    BY <1>3 DEF At
  <2> QED  BY <1>a, <1>11, <2>1, <2>2 DEF OnTheWay
<1>12. ScanInv'
  BY <1>1, <1>5, <1>a DEF ScanInv
<1>13. ASSUME NEW d, NEW k, Ahead(d, k) PROVE Ahead(d, k)'
  <2>1. ~At(d, {"handle"})
    BY DEF At
  <2> QED  BY <1>11, <1>13, <2>1 DEF Ahead
<1>14. OrderInv'
  <2> SUFFICES ASSUME ~socket.lost, NEW d \in cold.triggered
               PROVE  Ahead(d, Len(socket.queue))' /\ (Alone(cold.last) => Behind(d)')
    BY <1>5, SameLast DEF OrderInv
  <2>1. Ahead(d, Len(socket.queue))'
    BY <1>1, <1>13 DEF OrderInv
  <2>2. ASSUME Alone(cold.last) PROVE Behind(d)'
    <3>1. Behind(d)
      BY <1>1, <2>2 DEF OrderInv
    <3>2. \A i \in 1 .. Len(socket.queue) : socket.queue[i] = Event("add", cold.last) => Ahead(d, i)'
      BY <1>13, <3>1 DEF Behind
    <3>3. In(cold.last, cold.socket)' => Handled(d)
      <4>1. In(cold.last, cold.socket)' => In(cold.last, cold.socket) \/ At(cold.last, {"publish"})
        BY <1>5 DEF In, At
      <4> QED  BY <3>1, <4>1 DEF Behind
    <3>4. ~At(cold.last, {"handle"})' /\ ~At(cold.last, {"publish"})'
      BY <1>3 DEF At
    <3> QED  BY <1>5, <1>11, <3>1, <3>2, <3>3, <3>4 DEF Behind
  <2> QED  BY <2>1, <2>2
<1>15. SyncInv'
  <2>1. ASSUME NEW d, OnTheWay(d), cold.bound PROVE OnTheWay(d)' \/ Excused'
    <3>1. In(d, socket) => In(d, socket)'
      BY DEF In
    <3>2. In(d, cold.socket) => In(d, cold.socket)'
      BY <1>5 DEF In
    <3>3. At(d, {"handle", "publish"}) => In(d, cold.socket)' \/ cold'.socket.lost
      BY <1>5, <2>1 DEF In, At
    <3> QED  BY <2>1, <3>1, <3>2, <3>3 DEF OnTheWay, Excused
  <2>2. Excused => Excused'
    BY <1>5 DEF Excused
  <2>3. cold.triggered # {} => cold.bound
    BY <1>1 DEF ScanInv
  <2> QED  BY <1>1, <1>5, <2>1, <2>2, <2>3 DEF SyncInv, Awaited
<1> QED  BY <1>6, <1>7, <1>8, <1>12, <1>14, <1>15 DEF IInv
-----------------------------------------------------------------------------
(* The kernel sends an event. *)

\* What a delivery does to the daemon's socket and to the events on their way.
LEMMA Delivered ==
  ASSUME IInv, world \in World, UNCHANGED <<world, node, daemon>>, NEW e \in Datagrams, e = Junk => world.junk, socket' = Deliver(socket, e)
  PROVE  /\ socket' \in Sockets /\ Fits(socket') /\ (socket.lost => socket'.lost)
         /\ socket'.lost => daemon.warned \/ daemon.missed \/ socket'.overrun
         /\ \A i \in 1 .. Len(socket'.queue) : socket'.queue[i] = Junk => world.junk
         /\ \A d : In(d, socket)' => In(d, socket) \/ e = Event("add", d)
         /\ \A d : In(d, socket) => In(d, socket)'
         /\ \A d : e = Event("add", d) => In(d, socket)' \/ socket'.lost
         /\ \A d, k : Ahead(d, k) => Ahead(d, k)'
         /\ ~socket'.lost =>
              /\ Len(socket'.queue) = Len(socket.queue) + 1 /\ socket'.queue[Len(socket'.queue)] = e
              /\ \A i \in 1 .. Len(socket.queue) : socket'.queue[i] = socket.queue[i]
<1>1. Typed /\ DaemonInv
  BY DEF IInv
<1>2. socket \in Sockets /\ Fits(socket)
  BY <1>1 DEF Typed
<1>3. PICK n : n = Len(socket.queue)
  OBVIOUS
<1>4. n \in Nat
  BY <1>2, <1>3 DEF Sockets
<1>5. /\ socket' \in Sockets /\ Fits(socket')
      /\ \/ /\ socket'.lost = socket.lost /\ socket'.overrun = socket.overrun
            /\ Len(socket'.queue) = n + 1 /\ socket'.queue[n + 1] = e
            /\ \A i \in 1 .. n : socket'.queue[i] = socket.queue[i]
         \/ /\ socket'.queue = socket.queue /\ socket'.lost /\ (socket.overrun => socket'.overrun)
            /\ socket.lost \/ socket'.overrun
  BY <1>2, <1>3, DeliverOf
<1>6. \A i \in 1 .. n : i \in 1 .. Len(socket'.queue) /\ socket'.queue[i] = socket.queue[i]
  BY <1>3, <1>4, <1>5
<1>7. \A i \in 1 .. Len(socket'.queue) : (i \in 1 .. n /\ socket'.queue[i] = socket.queue[i]) \/ socket'.queue[i] = e
  BY <1>3, <1>4, <1>5
<1>8. ~socket'.lost => n + 1 \in 1 .. Len(socket'.queue) /\ socket'.queue[n + 1] = e /\ Len(socket'.queue) = n + 1
  BY <1>4, <1>5
<1>9. socket'.lost => daemon.warned \/ daemon.missed \/ socket'.overrun
  BY <1>1, <1>5 DEF DaemonInv
<1>10. \A d : In(d, socket)' => In(d, socket) \/ e = Event("add", d)
  BY <1>3, <1>7 DEF In
<1>11. \A d : In(d, socket) => In(d, socket)'
  BY <1>3, <1>6 DEF In
<1>12. \A d : e = Event("add", d) => In(d, socket)' \/ socket'.lost
  BY <1>8 DEF In
<1>13. ASSUME NEW d, NEW k, Ahead(d, k) PROVE Ahead(d, k)'
  <2>1. Handled(d) => Handled(d)'
    BY DEF Handled
  <2>2. At(d, {"handle"}) => At(d, {"handle"})'
    BY DEF At
  <2> QED  BY <1>3, <1>6, <1>13, <2>1, <2>2 DEF Ahead
<1>14. ~socket'.lost =>
         /\ Len(socket'.queue) = Len(socket.queue) + 1 /\ socket'.queue[Len(socket'.queue)] = e
         /\ \A i \in 1 .. Len(socket.queue) : socket'.queue[i] = socket.queue[i]
  BY <1>3, <1>6, <1>8
<1>15. \A i \in 1 .. Len(socket'.queue) : socket'.queue[i] = Junk => world.junk
  BY <1>1, <1>3, <1>7 DEF DaemonInv
<1> QED  BY <1>5, <1>9, <1>10, <1>11, <1>12, <1>13, <1>14, <1>15

\* What is ahead of a place is ahead of those behind it.
LEMMA Widens ==
  ASSUME NEW d, NEW k \in Int, NEW m \in Int, k <= m, Ahead(d, k)', socket' \in Sockets
  PROVE  Ahead(d, m)'
<1>1. Len(socket'.queue) \in Nat
  BY DEF Sockets
<1> QED  BY <1>1 DEF Ahead

LEMMA PlugKeeps ==
  ASSUME IInv, world \in World, SendJunk \/ \E d \in Devices : Plug(d) \/ Unplug(d), UNCHANGED world
  PROVE  IInv'
<1>1. Typed /\ DaemonInv /\ PublishInv /\ ScanInv /\ OrderInv /\ SyncInv
  BY DEF IInv
<1>2. UNCHANGED <<node, daemon, file, cold>> /\ events' \in 0 .. world.max
  BY <1>1 DEF Plug, Unplug, SendJunk, Happens, Typed, World
<1>3. PICK e \in Datagrams : /\ socket' = Deliver(socket, e) /\ (e = Junk => world.junk)
                             /\ \A x : e = Event("add", x) => x \in world.plugs
  <2>1. ASSUME NEW d \in Devices, Plug(d) PROVE \E e \in Datagrams : /\ socket' = Deliver(socket, e) /\ (e = Junk => world.junk)
                                                                        /\ \A x : e = Event("add", x) => x \in world.plugs
    <3>1. Event("add", d) \in Datagrams /\ Event("add", d) # Junk
      BY EventIs, JunkIs DEF Datagrams
    <3> QED  BY <2>1, <3>1, SameEvent DEF Plug
  <2>2. ASSUME NEW d \in Devices, Unplug(d) PROVE \E e \in Datagrams : /\ socket' = Deliver(socket, e) /\ (e = Junk => world.junk)
                                                                        /\ \A x : e = Event("add", x) => x \in world.plugs
    <3>1. Event("remove", d) \in Datagrams /\ Event("remove", d) # Junk
      BY EventIs, JunkIs DEF Datagrams
    <3>2. \A x : Event("remove", d) # Event("add", x)
      BY DEF Event
    <3> QED  BY <2>2, <3>1, <3>2 DEF Unplug
  <2>3. CASE SendJunk
    BY <2>3, JunkIs DEF SendJunk, Datagrams
  <2> QED  BY <2>1, <2>2, <2>3
<1>4. present' \subseteq Devices
  BY <1>1 DEF Plug, Unplug, SendJunk, Typed
<1>5. /\ socket' \in Sockets /\ Fits(socket') /\ (socket.lost => socket'.lost)
      /\ socket'.lost => daemon.warned \/ daemon.missed \/ socket'.overrun
      /\ \A i \in 1 .. Len(socket'.queue) : socket'.queue[i] = Junk => world.junk
      /\ \A x : In(x, socket)' => In(x, socket) \/ e = Event("add", x)
      /\ \A x : In(x, socket) => In(x, socket)'
      /\ \A x, k : Ahead(x, k) => Ahead(x, k)'
      /\ ~socket'.lost =>
           /\ Len(socket'.queue) = Len(socket.queue) + 1 /\ socket'.queue[Len(socket'.queue)] = e
           /\ \A i \in 1 .. Len(socket.queue) : socket'.queue[i] = socket.queue[i]
  BY <1>2, <1>3, Delivered
<1>6. Typed'
  BY <1>1, <1>2, <1>4, <1>5 DEF Typed, Fits
<1>7. DaemonInv'
  BY <1>1, <1>2, <1>5 DEF DaemonInv
<1>8. PublishInv'
  BY <1>1, <1>2 DEF PublishInv, PublishedHandled, Handled
<1>9. \A x : \A pcs \in {{"handle"}, {"publish"}, {"handle", "publish"}} : At(x, pcs)' <=> At(x, pcs)
  BY <1>2 DEF At
<1>10. \A x : (In(x, cold.socket)' <=> In(x, cold.socket)) /\ (Handled(x)' <=> Handled(x))
  BY <1>2 DEF In, Handled
<1>11. \A x : (OnTheWay(x)' => OnTheWay(x) \/ x \in world.plugs) /\ (OnTheWay(x) => OnTheWay(x)')
  BY <1>3, <1>5, <1>9, <1>10 DEF OnTheWay
<1>12. ScanInv'
  BY <1>1, <1>2, <1>11 DEF ScanInv
<1>13. OrderInv'
  <2> SUFFICES ASSUME ~socket'.lost, NEW x \in cold.triggered
               PROVE  Ahead(x, Len(socket.queue))' /\ (Alone(cold.last) => Behind(x)')
    BY <1>2, SameLast DEF OrderInv
  <2>1. PICK n : n = Len(socket.queue)
    OBVIOUS
  <2>2. n \in Nat
    BY <1>1, <2>1 DEF Typed, Sockets
  <2>3. Ahead(x, n + 1)'
    <3>1. Ahead(x, n)
      BY <1>1, <1>5, <2>1 DEF OrderInv
    <3>2. Ahead(x, n)'
      BY <1>5, <3>1
    <3> QED  BY <1>5, <2>2, <3>2, Widens
  <2>4. Ahead(x, Len(socket.queue))'
    <3>1. Len(socket'.queue) = n + 1
      BY <1>5, <2>1
    <3> QED  BY <2>3, <3>1 DEF Ahead
  <2>5. ASSUME Alone(cold.last) PROVE Behind(x)'
    <3>1. Behind(x)
      BY <1>1, <1>5, <2>5 DEF OrderInv
    <3>2. ASSUME NEW i \in 1 .. Len(socket'.queue), socket'.queue[i] = Event("add", cold.last) PROVE Ahead(x, i)'
      <4>1. CASE i = n + 1
        BY <1>3, <1>5, <2>1, <2>5, <3>2, <4>1 DEF Alone
      <4>2. CASE i # n + 1
        <5>1. i \in 1 .. n /\ socket.queue[i] = Event("add", cold.last)
          BY <1>5, <2>1, <2>2, <3>2, <4>2
        <5>2. Ahead(x, i)
          BY <2>1, <3>1, <5>1 DEF Behind
        <5> QED  BY <1>5, <5>2
      <4> QED  BY <4>1, <4>2
    <3>3. /\ At(cold.last, {"handle"})' => At(cold.last, {"handle"})
          /\ At(cold.last, {"publish"})' => At(cold.last, {"publish"})
          /\ In(cold.last, cold.socket)' => In(cold.last, cold.socket)
      BY <1>2 DEF At, In
    <3> QED  BY <1>2, <1>10, <3>1, <3>2, <3>3 DEF Behind
  <2> QED  BY <2>4, <2>5
<1>14. SyncInv'
  <2>1. Excused => Excused'
    BY <1>2, <1>5 DEF Excused
  <2> QED  BY <1>1, <1>2, <1>11, <2>1 DEF SyncInv, Awaited
<1> QED  BY <1>6, <1>7, <1>8, <1>12, <1>13, <1>14 DEF IInv
-----------------------------------------------------------------------------
(* The helper. *)

LEMMA Listing ==
  ASSUME world \in Worlds
  PROVE  world \in World /\ world.listing \in Seq(Entries) /\ Len(world.listing) \in Nat
<1>1. world \in World
  BY HotplugAssumption
<1>2. world.listing \in Seq(Entries)
  BY <1>1 DEF World
<1> QED  BY <1>1, <1>2

\* An entry that is read now and has events only from one trigger has not been
\* triggered before, and none of its events is on the way.
LEMMA NewEntry ==
  ASSUME IInv, world \in Worlds, cold.at <= Len(world.listing), NEW d, d = world.listing[cold.at], Alone(d)
  PROVE  d \notin cold.triggered /\ ~OnTheWay(d)
<1>1. ScanInv
  BY DEF IInv
<1>2. cold.at \in 1 .. Len(world.listing) /\ d \in Entries
  BY <1>1, Listing DEF ScanInv
<1>3. \A i \in 1 .. cold.at - 1 : i \in 1 .. Len(world.listing) /\ i # cold.at
  BY <1>2, Listing
<1>4. d \notin cold.triggered
  BY <1>1, <1>2, <1>3 DEF ScanInv, Alone
<1>5. d \notin world.plugs
  BY DEF Alone
<1> QED  BY <1>1, <1>2, <1>4, <1>5 DEF ScanInv

\* Steps of the helper that leave its socket alone.
LEMMA HelperMoves ==
  ASSUME IInv, world \in World, UNCHANGED <<world, present, node, daemon, socket, file>>, events' = events \/ events' \in 0 .. world.max,
         cold' \in Helpers, cold'.socket = cold.socket, ScanInv', SyncInv',
         cold'.triggered = cold.triggered,
         \A d \in cold.triggered :
           ~socket.lost /\ Alone(cold.last)' /\ (Alone(cold.last) => Behind(d)) => Behind(d)'
  PROVE  IInv'
<1>1. Typed /\ DaemonInv /\ PublishInv /\ OrderInv
  BY DEF IInv
<1>2. Typed'
  BY <1>1 DEF Typed, Fits
<1>3. DaemonInv'
  BY <1>1 DEF DaemonInv
<1>4. PublishInv'
  BY <1>1 DEF PublishInv, PublishedHandled, Handled
<1>5. \A d, k : Ahead(d, k)' <=> Ahead(d, k)
  BY DEF Ahead, At, Handled
<1>6. OrderInv'
  BY <1>1, <1>5 DEF OrderInv
<1> QED  BY <1>2, <1>3, <1>4, <1>6 DEF IInv

LEMMA BindKeeps ==
  ASSUME IInv, world \in World, Bind, UNCHANGED world
  PROVE  IInv'
<1> USE DEF Bind
<1>1. Typed /\ ScanInv /\ SyncInv
  BY DEF IInv
<1>2. /\ cold' \in Helpers /\ cold'.socket = cold.socket /\ cold'.triggered = cold.triggered
      /\ cold'.pc = "read" /\ cold'.at = cold.at /\ cold'.last = cold.last /\ cold'.bound /\ cold'.tried = cold.tried
  BY <1>1 DEF Typed, Helpers
<1>3. \A d : OnTheWay(d)' <=> OnTheWay(d)
  BY <1>2 DEF OnTheWay, In, At
<1>4. ScanInv'
  BY <1>1, <1>2, <1>3 DEF ScanInv
<1>5. SyncInv'
  BY <1>1, <1>2 DEF SyncInv, ScanInv
<1>6. cold.triggered = {}
  BY <1>1 DEF ScanInv
<1> QED  BY <1>2, <1>4, <1>5, <1>6, HelperMoves

LEMMA ReadEntryKeeps ==
  ASSUME IInv, world \in Worlds, ReadEntry, UNCHANGED world
  PROVE  IInv'
<1> USE DEF ReadEntry
<1>1. Typed /\ ScanInv /\ SyncInv /\ OrderInv
  BY DEF IInv
<1>2. PICK d : d = world.listing[cold.at]
  OBVIOUS
<1>3. cold.at \in 1 .. Len(world.listing) /\ d \in Entries /\ world \in World /\ Len(world.listing) \in Nat
  BY <1>1, <1>2, Listing DEF ScanInv
<1>4. CASE d \in present \cup Plain
  <2>1. cold' = [cold EXCEPT !.pc = "trigger", !.last = d]
    BY <1>2, <1>4 DEF Last
  <2>2. /\ cold' \in Helpers /\ cold'.socket = cold.socket /\ cold'.triggered = cold.triggered
        /\ cold'.pc = "trigger" /\ cold'.at = cold.at /\ cold'.last = d /\ cold'.bound = cold.bound /\ cold'.tried = cold.tried
    BY <1>1, <1>3, <2>1 DEF Typed, Helpers
  <2>3. \A x : OnTheWay(x)' <=> OnTheWay(x)
    BY <2>2 DEF OnTheWay, In, At
  <2>4. ScanInv'
    BY <1>1, <1>2, <1>3, <2>2, <2>3 DEF ScanInv
  <2>5. SyncInv'
    BY <1>1, <1>3, <2>2, <2>3 DEF SyncInv, Awaited, Excused
  <2>6. ASSUME Alone(cold.last)', NEW x PROVE Behind(x)'
    <3>1. ~OnTheWay(d)
      <4>1. Alone(d)
        BY <2>2, <2>6 DEF Alone
      <4> QED  BY <1>2, <1>3, <4>1, NewEntry
    <3>2. ~In(d, socket)' /\ ~In(d, cold.socket)' /\ ~At(d, {"handle"})' /\ ~At(d, {"publish"})'
      BY <2>2, <3>1 DEF OnTheWay, In, At
    <3> QED  BY <2>2, <3>2 DEF Behind, In, At
  <2> QED  BY <1>3, <2>2, <2>4, <2>5, <2>6, HelperMoves
<1>5. CASE d \notin present \cup Plain
  <2> DEFINE a == cold.at + 1
  <2>1. cold' = [cold EXCEPT !.at = a]
    BY <1>2, <1>5
  <2>a. a \in Nat /\ a = cold.at + 1
    BY <1>3
  <2> HIDE DEF a
  <2>2. /\ cold' \in Helpers /\ cold'.socket = cold.socket /\ cold'.triggered = cold.triggered
        /\ cold'.pc = "read" /\ cold'.at = cold.at + 1 /\ cold'.last = cold.last /\ cold'.bound = cold.bound /\ cold'.tried = cold.tried
    BY <1>1, <2>1, <2>a DEF Typed, Helpers
  <2>3. \A x : OnTheWay(x)' <=> OnTheWay(x)
    BY <2>2 DEF OnTheWay, In, At
  <2>4. ScanInv'
    <3>1. cold'.at \in 1 .. Len(world.listing) + 1
      BY <1>3, <2>2
    <3>2. \A i \in 1 .. cold.at - 1 : i \in 1 .. cold'.at - 1
      BY <1>3, <2>2
    <3>3. cold.triggered \subseteq {world.listing[i] : i \in 1 .. cold'.at - 1}
      BY <1>1, <3>2 DEF ScanInv
    <3> QED  BY <1>1, <2>2, <2>3, <3>1, <3>3 DEF ScanInv
  <2>5. SyncInv'
    BY <1>1, <2>2, <2>3 DEF SyncInv, Awaited, Excused
  <2>6. ASSUME NEW x, Behind(x) PROVE Behind(x)'
    BY <2>2, <2>6 DEF Behind, In, At, Ahead, Handled
  <2> QED  BY <1>3, <2>2, <2>4, <2>5, <2>6, SameLast, HelperMoves
<1> QED  BY <1>4, <1>5

LEMMA ScannedKeeps ==
  ASSUME IInv, world \in Worlds, Scanned, UNCHANGED world
  PROVE  IInv'
<1> USE DEF Scanned
<1>1. Typed /\ ScanInv /\ SyncInv /\ OrderInv
  BY DEF IInv
<1>2. cold.at = Len(world.listing) + 1 /\ world \in World
  BY <1>1, Listing DEF ScanInv
<1> DEFINE p == IF cold.tried THEN "wait" ELSE "ok"
<1>3. cold' = [cold EXCEPT !.pc = p]
  OBVIOUS
<1>4. p \in {"ok", "wait"} /\ (p = "ok" => cold.triggered = {})
  BY <1>1 DEF ScanInv
<1> HIDE DEF p
<1>5. /\ cold' \in Helpers /\ cold'.socket = cold.socket /\ cold'.triggered = cold.triggered
      /\ cold'.pc = p /\ cold'.at = cold.at /\ cold'.last = cold.last /\ cold'.bound = cold.bound /\ cold'.tried = cold.tried
  BY <1>1, <1>3, <1>4 DEF Typed, Helpers
<1>6. \A x : OnTheWay(x)' <=> OnTheWay(x)
  BY <1>5 DEF OnTheWay, In, At
<1>7. ScanInv'
  BY <1>1, <1>2, <1>4, <1>5, <1>6 DEF ScanInv
<1>8. SyncInv'
  BY <1>1, <1>4, <1>5, <1>6 DEF SyncInv, Awaited, Excused
<1>9. ASSUME NEW x \in cold.triggered, Behind(x) PROVE Behind(x)'
  BY <1>4, <1>5, <1>9 DEF Behind, In, At, Ahead, Handled
<1> QED  BY <1>2, <1>5, <1>7, <1>8, <1>9, SameLast, HelperMoves

LEMMA ScanFailsKeeps ==
  ASSUME IInv, world \in Worlds, ScanFails, UNCHANGED world
  PROVE  IInv'
<1> USE DEF ScanFails
<1>1. Typed /\ ScanInv /\ SyncInv
  BY DEF IInv
<1>2. world \in World /\ events' \in 0 .. world.max
  BY <1>1, Listing DEF Typed, World
<1>3. /\ cold' \in Helpers /\ cold'.socket = cold.socket /\ cold'.triggered = cold.triggered
      /\ cold'.pc = "failed" /\ cold'.at = cold.at /\ cold'.last = cold.last /\ cold'.bound = cold.bound /\ cold'.tried = cold.tried
  BY <1>1 DEF Typed, Helpers
<1>4. \A x : OnTheWay(x)' <=> OnTheWay(x)
  BY <1>3 DEF OnTheWay, In, At
<1>5. ScanInv'
  BY <1>1, <1>3, <1>4 DEF ScanInv
<1>6. SyncInv'
  BY <1>3 DEF SyncInv, Awaited
<1>7. ASSUME NEW x \in cold.triggered, Behind(x) PROVE Behind(x)'
  BY <1>3, <1>7 DEF Behind, In, At, Ahead, Handled
<1> QED  BY <1>2, <1>3, <1>5, <1>6, <1>7, SameLast, HelperMoves

LEMMA TimeOutKeeps ==
  ASSUME IInv, world \in Worlds, TimeOut, UNCHANGED world
  PROVE  IInv'
<1> USE DEF TimeOut
<1>1. Typed /\ ScanInv /\ SyncInv /\ OrderInv
  BY DEF IInv
<1>2. world \in World
  BY Listing
<1>3. /\ cold' \in Helpers /\ cold'.socket = cold.socket /\ cold'.triggered = cold.triggered
      /\ cold'.pc = "timeout" /\ cold'.at = cold.at /\ cold'.last = cold.last /\ cold'.bound = cold.bound /\ cold'.tried = cold.tried
  BY <1>1 DEF Typed, Helpers
<1>4. \A x : OnTheWay(x)' <=> OnTheWay(x)
  BY <1>3 DEF OnTheWay, In, At
<1>5. ScanInv'
  BY <1>1, <1>3, <1>4 DEF ScanInv
<1>6. ASSUME NEW x, OnTheWay(x) PROVE daemon.pc = "off"
  <2>1. Len(cold.socket.queue) = 0 /\ (daemon.pc = "off" \/ (daemon.pc = "poll" /\ Len(socket.queue) = 0))
    OBVIOUS
  <2> QED  BY <1>6, <2>1 DEF OnTheWay, In, At
<1>7. Excused => Excused'
  BY <1>3 DEF Excused
<1>8. daemon.pc = "off" => Excused
  BY DEF Excused
<1>9. SyncInv'
  BY <1>1, <1>3, <1>6, <1>7, <1>8 DEF SyncInv, Awaited
<1>10. ASSUME NEW x \in cold.triggered, Behind(x) PROVE Behind(x)'
  BY <1>3, <1>10 DEF Behind, In, At, Ahead, Handled
<1> QED  BY <1>2, <1>3, <1>5, <1>9, <1>10, SameLast, HelperMoves

LEMMA ReceiveKeeps ==
  ASSUME IInv, world \in Worlds, Receive, UNCHANGED world
  PROVE  IInv'
<1> USE DEF Receive
<1>1. Typed /\ DaemonInv /\ PublishInv /\ ScanInv /\ SyncInv /\ OrderInv
  BY DEF IInv
<1>2. world \in World
  BY Listing
<1>3. cold.socket \in Sockets /\ Fits(cold.socket)
  BY <1>1 DEF Typed, Helpers
<1>4. PICK n : n = Len(cold.socket.queue)
  OBVIOUS
<1> DEFINE t == Taken(cold.socket)
           p == IF SyncMatch(Head(cold.socket.queue)) THEN "ok" ELSE "wait"
<1>5. /\ t \in Sockets /\ Fits(t) /\ t.lost = cold.socket.lost
      /\ Head(cold.socket.queue) = cold.socket.queue[1]
      /\ n \in Nat /\ n >= 1 /\ Len(t.queue) = n - 1
      /\ \A i \in 1 .. Len(t.queue) : t.queue[i] = cold.socket.queue[i + 1]
  BY <1>2, <1>3, <1>4, TakenOf
<1>6. cold' = [cold EXCEPT !.socket = t, !.pc = p]
  OBVIOUS
<1>7. p \in {"ok", "wait"} /\ (p = "ok" <=> cold.socket.queue[1] = Event("add", cold.last))
  BY <1>5 DEF SyncMatch
<1> HIDE DEF p, t
<1>8. /\ cold' \in Helpers /\ cold'.socket = t /\ cold'.triggered = cold.triggered
      /\ cold'.pc = p /\ cold'.at = cold.at /\ cold'.last = cold.last /\ cold'.bound = cold.bound /\ cold'.tried = cold.tried
  BY <1>1, <1>5, <1>6, <1>7 DEF Typed, Helpers
<1>9. Typed'
  BY <1>1, <1>5, <1>8 DEF Typed, Fits
<1>10. DaemonInv'
  BY <1>1 DEF DaemonInv
<1>11. \A i \in 1 .. n - 1 : i + 1 \in 1 .. n
  BY <1>5
<1>12. PublishInv'
  <2>1. ASSUME NEW i \in 1 .. n - 1, t.queue[i].action = "add" PROVE node[t.queue[i].dev] # "none"
    <3>1. t.queue[i] = cold.socket.queue[i + 1] /\ i + 1 \in 1 .. Len(cold.socket.queue)
      BY <1>4, <1>5, <1>11
    <3> QED  BY <1>1, <2>1, <3>1 DEF PublishInv, PublishedHandled
  <2>2. PublishedHandled'
    BY <1>5, <1>8, <2>1 DEF PublishedHandled
  <2> QED  BY <1>1, <2>2 DEF PublishInv, Handled
<1>13. \A x : In(x, cold.socket)' => In(x, cold.socket)
  BY <1>4, <1>5, <1>8, <1>11 DEF In
<1>14. ASSUME NEW x, In(x, cold.socket) PROVE In(x, cold.socket)' \/ cold.socket.queue[1] = Event("add", x)
  <2>1. PICK i \in 1 .. n : cold.socket.queue[i] = Event("add", x)
    BY <1>4, <1>14 DEF In
  <2>2. i # 1 => i - 1 \in 1 .. n - 1 /\ (i - 1) + 1 = i
    BY <1>5
  <2> QED  BY <1>5, <1>8, <2>1, <2>2 DEF In
<1>15. \A x : (In(x, socket)' <=> In(x, socket)) /\ (Handled(x)' <=> Handled(x))
  BY DEF In, Handled
<1>16. \A x : \A pcs \in {{"handle"}, {"publish"}, {"handle", "publish"}} : At(x, pcs)' <=> At(x, pcs)
  BY DEF At
<1>17. \A x : OnTheWay(x)' => OnTheWay(x)
  BY <1>13, <1>15, <1>16 DEF OnTheWay
<1>18. ScanInv'
  BY <1>1, <1>7, <1>8, <1>17 DEF ScanInv
<1>19. \A x, k : Ahead(x, k)' <=> Ahead(x, k)
  BY <1>15, <1>16 DEF Ahead
<1>20. OrderInv'
  <2> SUFFICES ASSUME ~socket.lost, NEW x \in cold.triggered, Alone(cold.last) PROVE Behind(x)'
    BY <1>1, <1>8, <1>19, SameLast DEF OrderInv
  <2>1. Behind(x)
    BY <1>1 DEF OrderInv
  <2>2. In(cold.last, cold.socket)' => In(cold.last, cold.socket)
    BY <1>8, <1>13
  <2>3. p = "ok" => In(cold.last, cold.socket)
    BY <1>4, <1>5, <1>7 DEF In
  <2>4. /\ At(cold.last, {"handle"})' => At(cold.last, {"handle"})
        /\ At(cold.last, {"publish"})' => At(cold.last, {"publish"})
    BY <1>8 DEF At
  <2> QED  BY <1>8, <1>15, <1>19, <2>1, <2>2, <2>3, <2>4 DEF Behind
<1>21. SyncInv'
  <2>1. \A x : OnTheWay(x) => OnTheWay(x)' \/ cold.socket.queue[1] = Event("add", x)
    BY <1>14, <1>15, <1>16 DEF OnTheWay
  <2>2. Excused => Excused'
    BY <1>5, <1>8 DEF Excused
  <2> QED  BY <1>1, <1>7, <1>8, <2>1, <2>2 DEF SyncInv, Awaited
<1> QED  BY <1>9, <1>10, <1>12, <1>18, <1>20, <1>21 DEF IInv

LEMMA TriggerKeeps ==
  ASSUME IInv, world \in Worlds, Trigger \/ TriggerFails, UNCHANGED world
  PROVE  IInv'
<1> USE DEF Trigger, TriggerFails
<1>1. Typed /\ DaemonInv /\ PublishInv /\ ScanInv /\ SyncInv /\ OrderInv
  BY DEF IInv
<1>2. PICK d : d = world.listing[cold.at]
  OBVIOUS
<1>3. PICK N : N = Len(world.listing)
  OBVIOUS
<1>4. /\ cold.at \in 1 .. N /\ d \in Entries /\ cold.last = d /\ world \in World /\ N \in Nat
  BY <1>1, <1>2, <1>3, Listing DEF ScanInv
<1>5. PICK a : a = cold.at + 1
  OBVIOUS
<1>6. a \in 1 .. N + 1 /\ a - 1 = cold.at
  BY <1>4, <1>5
<1>a. a \in Nat
  BY <1>4, <1>6
<1>7. \A i \in 1 .. cold.at - 1 : i \in 1 .. a - 1
  BY <1>4, <1>6
<1>8. cold.at \in 1 .. a - 1
  BY <1>4, <1>6
<1>9. UNCHANGED <<present, node, daemon, file>> /\ (events' = events \/ events' \in 0 .. world.max)
  BY <1>1, <1>4 DEF Typed, World
<1>b. cold.tried \in BOOLEAN
  BY <1>1 DEF Typed, Helpers
<1>10. CASE d \notin present \/ TriggerFails
  <2>0. PICK c \in BOOLEAN : /\ cold' = [cold EXCEPT !.pc = "read", !.at = a, !.tried = c] /\ UNCHANGED socket
                             /\ cold.tried => c
    <3>1. CASE TriggerFails
      <4> WITNESS TRUE \in BOOLEAN
      <4> QED  BY <1>5, <3>1
    <3>2. CASE ~TriggerFails
      <4> WITNESS cold.tried \in BOOLEAN
      <4>1. cold' = [cold EXCEPT !.pc = "read", !.at = a] /\ UNCHANGED socket
        BY <1>2, <1>5, <1>10, <3>2
      <4>2. [cold EXCEPT !.pc = "read", !.at = a] = [cold EXCEPT !.pc = "read", !.at = a, !.tried = cold.tried]
        BY <1>1 DEF Typed, Helpers
      <4> QED  BY <4>1, <4>2
    <3> QED  BY <3>1, <3>2
  <2>1. UNCHANGED socket
    BY <2>0
  <2>2. /\ cold' \in Helpers /\ cold'.socket = cold.socket /\ cold'.triggered = cold.triggered
        /\ cold'.pc = "read" /\ cold'.at = a /\ cold'.last = cold.last /\ cold'.bound = cold.bound /\ (cold.tried => cold'.tried)
    <3>1. /\ cold' \in Helpers /\ cold'.socket = cold.socket /\ cold'.triggered = cold.triggered /\ cold'.tried = c
          /\ cold'.pc = "read" /\ cold'.at = a /\ cold'.last = cold.last /\ cold'.bound = cold.bound
      BY <1>1, <1>a, <2>0 DEF Typed, Helpers
    <3> QED  BY <2>0, <3>1
  <2>3. \A x : OnTheWay(x)' <=> OnTheWay(x)
    BY <2>1, <2>2 DEF OnTheWay, In, At
  <2>4. ScanInv'
    <3>1. cold.triggered \subseteq {world.listing[i] : i \in 1 .. a - 1}
      BY <1>1, <1>7 DEF ScanInv
    <3> QED  BY <1>1, <1>3, <1>6, <2>2, <2>3, <3>1 DEF ScanInv
  <2>5. SyncInv'
    BY <1>1, <1>9, <2>1, <2>2, <2>3 DEF SyncInv, ScanInv, Awaited, Excused
  <2>6. ASSUME NEW x, Behind(x) PROVE Behind(x)'
    BY <2>1, <2>2, <2>6 DEF Behind, In, At, Ahead, Handled
  <2> QED  BY <1>4, <1>9, <2>1, <2>2, <2>4, <2>5, <2>6, SameLast, HelperMoves
<1>11. CASE d \in present /\ Trigger
  <2> DEFINE T == cold.triggered \cup {d}
             e == Event("add", d)
             c == TRUE
  <2>1. cold' = [cold EXCEPT !.pc = "read", !.at = a, !.tried = c, !.triggered = T] /\ socket' = Deliver(socket, e)
    BY <1>2, <1>5, <1>11
  <2>c. c \in BOOLEAN /\ c
    OBVIOUS
  <2>2. d \in Devices /\ e \in Real /\ \A x : e = Event("add", x) => x = d
    BY <1>1, <1>11, EventIs, SameEvent DEF Typed
  <2>3. T \subseteq Devices /\ cold.triggered \subseteq T /\ d \in T /\ \A x \in T : x \in cold.triggered \/ x = d
    BY <1>1, <2>2 DEF Typed, Helpers
  <2>4. e = Event("add", d)
    OBVIOUS
  <2> HIDE DEF T, e, c
  <2>5. /\ cold' \in Helpers /\ cold'.socket = cold.socket /\ cold'.triggered = T
        /\ cold'.pc = "read" /\ cold'.at = a /\ cold'.last = cold.last /\ cold'.bound = cold.bound /\ cold'.tried = c
    BY <1>1, <1>a, <2>1, <2>c, <2>3 DEF Typed, Helpers
  <2>6. /\ socket' \in Sockets /\ Fits(socket') /\ (socket.lost => socket'.lost)
        /\ socket'.lost => daemon.warned \/ daemon.missed \/ socket'.overrun
        /\ \A i \in 1 .. Len(socket'.queue) : socket'.queue[i] = Junk => world.junk
        /\ \A x : In(x, socket)' => In(x, socket) \/ e = Event("add", x)
        /\ \A x : In(x, socket) => In(x, socket)'
        /\ \A x : e = Event("add", x) => In(x, socket)' \/ socket'.lost
        /\ \A x, k : Ahead(x, k) => Ahead(x, k)'
        /\ ~socket'.lost =>
             /\ Len(socket'.queue) = Len(socket.queue) + 1 /\ socket'.queue[Len(socket'.queue)] = e
             /\ \A i \in 1 .. Len(socket.queue) : socket'.queue[i] = socket.queue[i]
    <3>1. e \in Datagrams /\ e # Junk
      BY <2>2, <2>4, JunkIs DEF Datagrams
    <3> QED  BY <1>4, <1>9, <2>1, <3>1, Delivered
  <2>7. Typed'
    BY <1>1, <1>9, <2>5, <2>6 DEF Typed, Fits
  <2>8. DaemonInv'
    BY <1>1, <1>9, <2>6 DEF DaemonInv
  <2>9. PublishInv'
    BY <1>1, <2>5 DEF PublishInv, PublishedHandled, Handled
  <2>10. \A x : \A pcs \in {{"handle"}, {"publish"}, {"handle", "publish"}} : At(x, pcs)' <=> At(x, pcs)
    BY DEF At
  <2>11. \A x : (In(x, cold.socket)' <=> In(x, cold.socket)) /\ (Handled(x)' <=> Handled(x))
    BY <2>5 DEF In, Handled
  <2>12. \A x : (OnTheWay(x)' => OnTheWay(x) \/ x = d) /\ (OnTheWay(x) => OnTheWay(x)')
    BY <2>2, <2>6, <2>10, <2>11 DEF OnTheWay
  <2>13. ScanInv'
    <3>1. T \subseteq {world.listing[i] : i \in 1 .. a - 1}
      BY <1>1, <1>2, <1>7, <1>8, <2>3 DEF ScanInv
    <3>2. cold.bound
      BY <1>1 DEF ScanInv
    <3> QED  BY <1>1, <1>3, <1>6, <2>c, <2>3, <2>5, <2>12, <3>1, <3>2 DEF ScanInv
  <2>14. OrderInv'
    <3> SUFFICES ASSUME ~socket'.lost, NEW x \in T
                 PROVE  Ahead(x, Len(socket.queue))' /\ (Alone(d) => Behind(x)')
      BY <1>4, <2>5 DEF OrderInv, Alone
    <3>1. PICK n : n = Len(socket.queue)
      OBVIOUS
    <3>2. n \in Nat /\ Len(socket'.queue) = n + 1 /\ socket'.queue[n + 1] = e
      BY <1>1, <2>6, <3>1 DEF Typed, Sockets
    <3>3. Ahead(x, n + 1)'
      <4>1. CASE x = d
        <5>1. n + 1 \in 1 .. Len(socket'.queue) /\ n + 1 <= n + 1
          BY <3>2
        <5> QED  BY <2>4, <3>2, <4>1, <5>1 DEF Ahead
      <4>2. CASE x # d
        <5>1. Ahead(x, n)
          BY <1>1, <2>3, <2>6, <3>1, <4>2 DEF OrderInv
        <5>2. Ahead(x, n)'
          BY <2>6, <5>1
        <5> QED  BY <2>6, <3>2, <5>2, Widens
      <4> QED  BY <4>1, <4>2
    <3>4. Ahead(x, Len(socket.queue))'
      BY <3>2, <3>3 DEF Ahead
    <3>5. ASSUME Alone(d) PROVE Behind(x)'
      <4>1. ~OnTheWay(d)
        BY <1>2, <1>3, <1>4, <3>5, NewEntry
      <4>2. ~In(d, socket) /\ ~In(d, cold.socket)' /\ ~At(d, {"handle"})' /\ ~At(d, {"publish"})'
        BY <2>5, <4>1 DEF OnTheWay, In, At
      <4>3. ASSUME NEW i \in 1 .. Len(socket'.queue), socket'.queue[i] = Event("add", d) PROVE Ahead(x, i)'
        <5>1. CASE i = n + 1
          BY <3>3, <5>1
        <5>2. CASE i # n + 1
          <6>1. i \in 1 .. n /\ socket.queue[i] = Event("add", d)
            BY <2>6, <3>1, <3>2, <4>3, <5>2
          <6> QED  BY <3>1, <4>2, <6>1 DEF In
        <5> QED  BY <5>1, <5>2
      <4>4. cold'.last = d
        BY <1>4, <2>5
      <4>5. ~In(cold.last, cold.socket)' /\ ~At(cold.last, {"handle"})' /\ ~At(cold.last, {"publish"})'
        BY <4>2, <4>4 DEF In, At
      <4> QED  BY <2>5, <4>3, <4>4, <4>5 DEF Behind
    <3> QED  BY <3>4, <3>5
  <2>15. SyncInv'
    <3>1. OnTheWay(d)' \/ socket'.lost
      BY <2>4, <2>6 DEF OnTheWay
    <3>2. (Excused => Excused') /\ (socket'.lost => Excused')
      BY <2>5, <2>6 DEF Excused
    <3> QED  BY <1>1, <2>3, <2>5, <2>12, <3>1, <3>2 DEF SyncInv, ScanInv, Awaited
  <2> QED  BY <2>7, <2>8, <2>9, <2>13, <2>14, <2>15 DEF IInv
<1> QED  BY <1>10, <1>11

-----------------------------------------------------------------------------
(* The theorems. *)

LEMMA InitIInv ==
  ASSUME Init
  PROVE  IInv /\ world \in Worlds
<1> USE DEF Init
<1>1. world \in Worlds /\ world \in World
  BY HotplugAssumption
<1>2. /\ world.buffer \in Nat /\ world.max \in Nat /\ world.listing \in Seq(Entries) /\ Len(world.listing) \in Nat
  BY <1>1 DEF World
<1>3. /\ Empty \in Sockets /\ Empty.queue = <<>> /\ Empty.lost = FALSE /\ Empty.overrun = FALSE /\ Empty.congested = FALSE
  BY DEF Empty, Sockets
<1>4. Fits(Empty)
  BY <1>2, <1>3 DEF Fits
<1>5. /\ daemon \in Daemons /\ daemon.pc = "load" /\ daemon.missed = FALSE
  BY DEF Daemons, Rulesets
<1>6. /\ cold \in Helpers /\ cold.pc = "idle" /\ cold.triggered = {} /\ cold.at = 1 /\ cold.socket = Empty
  BY <1>3 DEF Helpers
<1>7. Typed
  <2>1. present \subseteq Devices
    BY <1>2 DEF Devices
  <2>2. node \in [Devices -> {"none", "failed"} \cup Rulesets]
    OBVIOUS
  <2>3. events \in 0 .. world.max
    BY <1>2
  <2> QED  BY <1>3, <1>4, <1>5, <1>6, <2>1, <2>2, <2>3 DEF Typed
<1>9. Len(Empty.queue) = 0
  BY <1>3
<1>8. DaemonInv
  BY <1>3, <1>5, <1>9 DEF DaemonInv, Serving
<1>10. PublishInv
  BY <1>5, <1>6, <1>9 DEF PublishInv, PublishedHandled
<1>11. \A d : ~OnTheWay(d)
  BY <1>5, <1>6, <1>9 DEF OnTheWay, In, At
<1>12. ScanInv
  BY <1>2, <1>6, <1>11 DEF ScanInv
<1>13. OrderInv
  BY <1>6 DEF OrderInv
<1>14. SyncInv
  BY <1>6 DEF SyncInv
<1> QED  BY <1>1, <1>7, <1>8, <1>10, <1>12, <1>13, <1>14 DEF IInv

LEMMA NextIInv ==
  ASSUME IInv, world \in Worlds, [Next]_<<vars, world>>
  PROVE  IInv' /\ world' \in Worlds
<1>1. world' = world /\ world \in World
  BY HotplugAssumption DEF Next
<1>2. CASE Daemon
  BY <1>1, <1>2, ReadConfigKeeps, LoadConfigKeeps, SignalsKeep, TakeEventKeeps, HandleKeeps, PublishKeeps DEF Daemon
<1>3. CASE Coldplug
  BY <1>1, <1>3, BindKeeps, ReadEntryKeeps, TriggerKeeps, ScanFailsKeeps, ScannedKeeps, ReceiveKeeps, TimeOutKeeps DEF Coldplug
<1>4. CASE SendJunk \/ \E d \in Devices : Plug(d) \/ Unplug(d)
  BY <1>1, <1>4, PlugKeeps
<1>5. CASE \E content \in world.files : Edit(content)
  BY <1>1, <1>5, EditKeeps
<1>6. CASE \E s \in {"TERM", "HUP"} : Signal(s)
  BY <1>1, <1>6, SignalKeeps
<1>7. CASE UNCHANGED <<vars, world>>
  <2>1. UNCHANGED <<present, node, daemon, socket, file, cold, events, world>>
    BY <1>7 DEF vars
  <2>2. Typed' /\ DaemonInv'
    BY <2>1 DEF IInv, Typed, DaemonInv, Fits
  <2>3. PublishInv' /\ ScanInv' /\ OrderInv' /\ SyncInv'
    BY <2>1, Unmoved DEF IInv
  <2> QED  BY <1>1, <2>1, <2>2, <2>3 DEF IInv
<1> QED  BY <1>1, <1>2, <1>3, <1>4, <1>5, <1>6, <1>7 DEF Next

\* Events on their way through mdevd to mdevd-coldplug stay in order and are lost
\* only with a trace, whatever is plugged, edited or signalled in between.
THEOREM Invariant == Spec => [](IInv /\ world \in Worlds)
<1>1. Init => IInv /\ world \in Worlds
  BY InitIInv
<1>2. (IInv /\ world \in Worlds) /\ [Next]_<<vars, world>> => (IInv /\ world \in Worlds)'
  BY NextIInv
<1> QED  BY <1>1, <1>2, PTL DEF Spec

\* What the helper reports is true (wait_sync): it ends well only when everything
\* it triggered has been handled and nothing is published before it is; and it
\* times out only for a loss or the end of the daemon.
THEOREM HelperIsSound == Spec => []HelperSound
<1>1. IInv /\ world \in Worlds => HelperSound
  <2> SUFFICES ASSUME IInv, world \in Worlds PROVE HelperSound
    OBVIOUS
  <2>1. SyncHandled
    BY DEF IInv, OrderInv, Behind, SyncHandled, Handled
  <2>2. PublishedHandled
    BY DEF IInv, PublishInv
  <2>3. TimeOutMeansLoss
    BY DEF IInv, SyncInv, TimeOutMeansLoss, Excused
  <2> QED  BY <2>1, <2>2, <2>3 DEF HelperSound
<1> QED  BY <1>1, Invariant, PTL

\* The daemon notices what it missed (read_event, on_event and load_config):
\* it reports an overrun with the next event that is handled, and serves the
\* file as of the last HUP or, if that is not valid, rules that are.
THEOREM DaemonIsSound == Spec => []DaemonSound
<1>1. IInv /\ world \in Worlds => DaemonSound
  <2> SUFFICES ASSUME IInv, world \in Worlds PROVE DaemonSound
    OBVIOUS
  <2>1. Typed /\ DaemonInv /\ ScanInv
    BY DEF IInv
  <2>2. TypeOK
    <3>1. daemon.event \in Events
      BY <2>1, DaemonFields DEF Real, Events, NoEvent, Event
    <3>2. /\ cold.triggered \subseteq Devices
          /\ cold.pc \in {"idle", "read", "trigger", "wait", "ok", "timeout", "failed"}
      BY <2>1 DEF Typed, Helpers
    <3>3. node \in [Devices -> {"none", "failed", "default", "rules", "more"}]
      BY <2>1 DEF Typed, Rulesets
    <3>4. file.content \in world.files
      BY <2>1 DEF Typed
    <3> QED  BY <2>1, <3>1, <3>2, <3>3, <3>4, DaemonFields DEF TypeOK, Typed, Fits, Rulesets, ScanInv
  <2>3. LossReported
    BY <2>1 DEF LossReported, DaemonInv, Typed, Fits
  <2>4. HupApplies
    BY <2>1 DEF HupApplies, DaemonInv, Serving
  <2> QED  BY <2>2, <2>3, <2>4 DEF DaemonSound
<1> QED  BY <1>1, Invariant, PTL
=============================================================================
