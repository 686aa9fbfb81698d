---------------------------- MODULE SeatdProofs ----------------------------
(***************************************************************************)
(* Proofs about seatd-rs.  First the sessions of one broker, for any       *)
(* number of clients, devices and terminals, whatever peers do and         *)
(* whichever ioctls and opens fail; then the socket path that any number   *)
(* of brokers start and stop around.                                       *)
(***************************************************************************)
EXTENDS Seatd, SeatSocket, FiniteSetTheorems, SequenceTheorems, WellFoundedInduction, TLAPS

Slots == [conn : {"off", "up", "dead"}, st : States, session : {-1} \cup Nat, dev : [Paths -> Device]]
Seats == [order : Seq(Clients), active : Clients \cup {None}, next : Clients \cup {None},
          curVt : Vts \cup {0, -1}]
Ttys == [fg : Vts, want : Vts \cup {0}, sig : SUBSET Signals, proc : SUBSET Vts, gfx : SUBSET Vts]

Typed(x) ==
  /\ x \in [client : [Clients -> Slots], seat : Seats, tty : Ttys, auth : SUBSET (Clients \X Paths),
            leaked : SUBSET (Clients \X Paths), told : [Clients -> {"none", "enabled", "disabled"}]]
  /\ x.leaked \subseteq x.auth

NoDevices == [p \in Paths |-> NoDevice]
NoFaults == \A f \in world.faults : f.revoke = {}

\* Only clients of S have authority that was not leaked, over devices that are
\* active; when revokes succeed, nothing is leaked and they have it over all those.
Devices(x, S) ==
  /\ \A c \in Clients, p \in Paths :
       <<c, p>> \in x.auth /\ <<c, p>> \notin x.leaked => x.client[c].dev[p].active /\ c \in S
  /\ NoFaults =>
       /\ x.leaked = {}
       /\ \A c \in Clients, p \in Paths : x.client[c].dev[p].active => c \in S /\ <<c, p>> \in x.auth

-----------------------------------------------------------------------------
(* Numbers. *)

LEMMA LeastNumber ==
  ASSUME NEW S, S \subseteq Nat, S # {}
  PROVE  \E m \in S : \A k \in S : m <= k
<1>1. PICK m \in S : \A k \in S : ~(<<k, m>> \in OpToRel(<, Nat))
  BY NatLessThanWellFounded, WFMin
<1>2. \A k \in S : ~(k < m)
  BY <1>1 DEF OpToRel
<1> QED  BY <1>2

-----------------------------------------------------------------------------
(* Devices. *)

LEMMA AuthorityFrame ==
  ASSUME NEW x, Typed(x), NEW c \in Clients, NEW P \in SUBSET Paths, NEW f
  PROVE  LET a == Authority(x, c, P, f)
         IN Typed(a) /\ a.client = x.client /\ a.seat = x.seat /\ a.tty = x.tty /\ a.told = x.told
<1> DEFINE R == Revoked(x, c, P, f)
<1>1. R \subseteq Paths
  BY DEF Revoked
<1> HIDE DEF R
<1> QED  BY <1>1 DEF Authority, Typed, R

LEMMA AuthorityOf ==
  ASSUME NEW x, Typed(x), NEW c \in Clients, NEW P \in SUBSET Paths, NEW f
  PROVE  /\ \A d \in Clients \ {c}, p \in Paths :
              /\ <<d, p>> \in Authority(x, c, P, f).auth <=> <<d, p>> \in x.auth
              /\ <<d, p>> \in Authority(x, c, P, f).leaked <=> <<d, p>> \in x.leaked
         /\ \A p \in Paths :
              /\ <<c, p>> \in Authority(x, c, P, f).auth <=> <<c, p>> \in x.auth /\ p \notin Revoked(x, c, P, f)
              /\ <<c, p>> \in Authority(x, c, P, f).leaked <=>
                   /\ p \notin Revoked(x, c, P, f)
                   /\ \/ <<c, p>> \in x.leaked
                      \/ p \in P /\ x.client[c].dev[p].active /\ <<c, p>> \in x.auth
<1> DEFINE R == Revoked(x, c, P, f)
<1>1. R \subseteq Paths
  BY DEF Revoked
<1> HIDE DEF R
<1> QED  BY <1>1 DEF Authority, Typed, R

\* Between x and y only devices of c and authority over them have changed.
OnlyDevices(x, y, c) ==
  /\ y.seat = x.seat /\ y.tty = x.tty /\ y.told = x.told
  /\ \A d \in Clients \ {c} : y.client[d] = x.client[d]
  /\ y.client[c].st = x.client[c].st /\ y.client[c].conn = x.client[c].conn
  /\ y.client[c].session = x.client[c].session

LEMMA SetDevices ==
  ASSUME NEW x, Typed(x), NEW c \in Clients, NEW D \in [Paths -> Device]
  PROVE  LET y == [x EXCEPT !.client[c].dev = D]
         IN Typed(y) /\ OnlyDevices(x, y, c) /\ y.client[c].dev = D /\ y.auth = x.auth /\ y.leaked = x.leaked
<1> DEFINE s == [x.client[c] EXCEPT !.dev = D]
           y == [x EXCEPT !.client[c].dev = D]
<1>0. x.client[c] \in Slots
  BY DEF Typed
<1>1. /\ s \in Slots /\ s.dev = D
      /\ s.st = x.client[c].st /\ s.conn = x.client[c].conn /\ s.session = x.client[c].session
  BY <1>0 DEF Slots
<1>2. y = [x EXCEPT !.client = [x.client EXCEPT ![c] = s]]
  BY DEF Typed
<1> HIDE DEF s, y
<1> QED  BY <1>1, <1>2 DEF Typed, OnlyDevices, y

LEMMA DeactivateOf ==
  ASSUME NEW x, Typed(x), NEW c \in Clients, NEW f \in world.faults, NEW S, Devices(x, S)
  PROVE  LET y == DeactivateDevices(x, c, f)
         IN Typed(y) /\ Devices(y, S \ {c}) /\ OnlyDevices(x, y, c)
<1> DEFINE R == Revoked(x, c, Paths, f)
           a == Authority(x, c, Paths, f)
           D == [p \in Paths |-> [ref |-> x.client[c].dev[p].ref, active |-> x.client[c].dev[p].active /\ p \notin R]]
           y == DeactivateDevices(x, c, f)
<1>1. y = [a EXCEPT !.client[c].dev = D]
  BY DEF DeactivateDevices
<1>2. Typed(a) /\ a.client = x.client /\ a.seat = x.seat /\ a.tty = x.tty /\ a.told = x.told
  BY AuthorityFrame
<1>3. /\ \A d \in Clients \ {c}, p \in Paths :
           /\ <<d, p>> \in a.auth <=> <<d, p>> \in x.auth
           /\ <<d, p>> \in a.leaked <=> <<d, p>> \in x.leaked
      /\ \A p \in Paths :
           /\ <<c, p>> \in a.auth <=> <<c, p>> \in x.auth /\ p \notin R
           /\ <<c, p>> \in a.leaked <=>
                p \notin R /\ (<<c, p>> \in x.leaked \/ (x.client[c].dev[p].active /\ <<c, p>> \in x.auth))
  BY AuthorityOf
<1>4. D \in [Paths -> Device] /\ \A p \in Paths : D[p].active <=> (x.client[c].dev[p].active /\ p \notin R)
  <2> HIDE DEF R
  <2>1. \A p \in Paths : x.client[c].dev[p].ref \in 0 .. MaxRef
    BY DEF Typed, Slots, Device
  <2> QED  BY <2>1 DEF Device
<1>5. \A p \in Paths : p \in R <=> /\ x.client[c].dev[p].active /\ p \notin f.revoke
                                   /\ p \in Drm => <<c, p>> \in x.auth
  BY DEF Revoked
<1> HIDE DEF R, a, D, y
<1>6. Typed(y) /\ OnlyDevices(x, y, c) /\ y.client[c].dev = D /\ y.auth = a.auth /\ y.leaked = a.leaked
  BY <1>1, <1>2, <1>4, SetDevices DEF OnlyDevices
<1>7. ASSUME NEW d \in Clients, NEW p \in Paths, <<d, p>> \in y.auth, <<d, p>> \notin y.leaked
      PROVE  y.client[d].dev[p].active /\ d \in S \ {c}
  BY <1>3, <1>4, <1>5, <1>6, <1>7 DEF Devices, OnlyDevices
<1>8. ASSUME NoFaults
      PROVE  /\ y.leaked = {}
             /\ \A d \in Clients, p \in Paths : y.client[d].dev[p].active => d \in S \ {c} /\ <<d, p>> \in y.auth
  <2>1. f.revoke = {} /\ x.leaked = {}
    BY <1>8 DEF NoFaults, Devices
  <2>2. \A p \in Paths : x.client[c].dev[p].active => p \in R
    BY <1>5, <1>8, <2>1 DEF Devices
  <2>3. y.leaked \subseteq Clients \X Paths
    BY <1>6 DEF Typed
  <2>4. \A d \in Clients, p \in Paths : <<d, p>> \notin y.leaked
    BY <1>3, <1>6, <2>1, <2>2
  <2>5. y.leaked = {}
    BY <2>3, <2>4
  <2> QED  BY <1>3, <1>4, <1>6, <1>8, <2>2, <2>5 DEF Devices, OnlyDevices
<1>9. Devices(y, S \ {c})
  BY <1>7, <1>8 DEF Devices
<1> QED  BY <1>6, <1>9 DEF y

LEMMA CloseOf ==
  ASSUME NEW x, Typed(x), NEW c \in Clients, NEW P \in SUBSET Paths, NEW f \in world.faults, NEW S, Devices(x, S)
  PROVE  LET y == CloseDevices(x, c, P, f)
         IN /\ Typed(y) /\ Devices(y, S) /\ OnlyDevices(x, y, c)
            /\ P = Paths => y.client[c].dev = NoDevices /\ Devices(y, S \ {c})
<1> DEFINE R == Revoked(x, c, P, f)
           a == Authority(x, c, P, f)
           D == [p \in Paths |-> IF p \in P THEN NoDevice ELSE x.client[c].dev[p]]
           y == CloseDevices(x, c, P, f)
<1>1. y = [a EXCEPT !.client[c].dev = D]
  BY DEF CloseDevices
<1>2. Typed(a) /\ a.client = x.client /\ a.seat = x.seat /\ a.tty = x.tty /\ a.told = x.told
  BY AuthorityFrame
<1>3. /\ \A d \in Clients \ {c}, p \in Paths :
           /\ <<d, p>> \in a.auth <=> <<d, p>> \in x.auth
           /\ <<d, p>> \in a.leaked <=> <<d, p>> \in x.leaked
      /\ \A p \in Paths :
           /\ <<c, p>> \in a.auth <=> <<c, p>> \in x.auth /\ p \notin R
           /\ <<c, p>> \in a.leaked <=>
                p \notin R /\ (<<c, p>> \in x.leaked \/ (p \in P /\ x.client[c].dev[p].active /\ <<c, p>> \in x.auth))
  BY AuthorityOf
<1>4. D \in [Paths -> Device] /\ \A p \in Paths : D[p].active <=> (x.client[c].dev[p].active /\ p \notin P)
  BY SeatdAssumption DEF Typed, Slots, Device, NoDevice
<1>5. \A p \in Paths : p \in R <=> /\ p \in P /\ x.client[c].dev[p].active /\ p \notin f.revoke
                                   /\ p \in Drm => <<c, p>> \in x.auth
  BY DEF Revoked
<1>0. P = Paths => D = NoDevices
  BY DEF NoDevices
<1> HIDE DEF R, a, D, y
<1>6. Typed(y) /\ OnlyDevices(x, y, c) /\ y.client[c].dev = D /\ y.auth = a.auth /\ y.leaked = a.leaked
  BY <1>1, <1>2, <1>4, SetDevices DEF OnlyDevices
<1>7. ASSUME NEW d \in Clients, NEW p \in Paths, <<d, p>> \in y.auth, <<d, p>> \notin y.leaked
      PROVE  y.client[d].dev[p].active /\ d \in S /\ (P = Paths => d # c)
  BY <1>3, <1>4, <1>5, <1>6, <1>7 DEF Devices, OnlyDevices
<1>8. ASSUME NoFaults
      PROVE  /\ y.leaked = {}
             /\ \A d \in Clients, p \in Paths : y.client[d].dev[p].active =>
                  d \in S /\ (P = Paths => d # c) /\ <<d, p>> \in y.auth
  <2>1. f.revoke = {} /\ x.leaked = {}
    BY <1>8 DEF NoFaults, Devices
  <2>2. \A p \in P : x.client[c].dev[p].active => p \in R
    BY <1>5, <1>8, <2>1 DEF Devices
  <2>3. y.leaked \subseteq Clients \X Paths
    BY <1>6 DEF Typed
  <2>4. \A d \in Clients, p \in Paths : <<d, p>> \notin y.leaked
    BY <1>3, <1>6, <2>1, <2>2
  <2>5. y.leaked = {}
    BY <2>3, <2>4
  <2> QED  BY <1>3, <1>4, <1>5, <1>6, <1>8, <2>2, <2>5 DEF Devices, OnlyDevices
<1>9. Devices(y, S) /\ (P = Paths => Devices(y, S \ {c}))
  BY <1>7, <1>8 DEF Devices
<1> QED  BY <1>0, <1>6, <1>9 DEF y

LEMMA CloseAllOf ==
  ASSUME NEW x, Typed(x), NEW c \in Clients, NEW f \in world.faults, NEW S, Devices(x, S)
  PROVE  LET y == CloseDevices(x, c, Paths, f)
         IN Typed(y) /\ Devices(y, S \ {c}) /\ OnlyDevices(x, y, c) /\ y.client[c].dev = NoDevices
<1>1. Paths \in SUBSET Paths
  OBVIOUS
<1> HIDE DEF Paths
<1> QED  BY <1>1, CloseOf

LEMMA ActivateOf ==
  ASSUME NEW x, Typed(x), NEW c \in Clients, Devices(x, {})
  PROVE  LET y == ActivateDevices(x, c)
         IN Typed(y) /\ Devices(y, {c}) /\ OnlyDevices(x, y, c)
<1> DEFINE A == {p \in Drm : x.client[c].dev[p].ref > 0 /\ ~x.client[c].dev[p].active}
           t == TakeMaster(x, c, A)
           D == [p \in Paths |-> [ref |-> x.client[c].dev[p].ref, active |-> x.client[c].dev[p].active \/ p \in A]]
           y == ActivateDevices(x, c)
<1>1. y = [t EXCEPT !.client[c].dev = D]
  BY DEF ActivateDevices
<1>2. A \subseteq Drm /\ A \subseteq Paths
  BY DEF Paths
<1>3. D \in [Paths -> Device] /\ \A p \in Paths : D[p].active <=> (x.client[c].dev[p].active \/ p \in A)
  <2> HIDE DEF A
  <2>1. \A p \in Paths : x.client[c].dev[p].ref \in 0 .. MaxRef
    BY DEF Typed, Slots, Device
  <2> QED  BY <2>1 DEF Device
<1> HIDE DEF A, D
<1>4. /\ Typed(t) /\ t.client = x.client /\ t.seat = x.seat /\ t.tty = x.tty /\ t.told = x.told
      /\ t.leaked = x.leaked
      /\ \A d \in Clients, p \in Paths :
           <<d, p>> \in t.auth <=>
             \/ <<d, p>> \in x.auth
             \/ d = c /\ p \in A /\ \A e \in Clients : <<e, p>> \notin x.auth
  <2>1. t = [x EXCEPT !.auth = x.auth \cup
               {<<c, p>> : p \in {q \in A \cap Drm : \A d \in Clients : <<d, q>> \notin x.auth}}]
    BY DEF TakeMaster
  <2> HIDE DEF t
  <2> QED  BY <1>2, <2>1 DEF Typed
<1> HIDE DEF t, y
<1>5. Typed(y) /\ OnlyDevices(x, y, c) /\ y.client[c].dev = D /\ y.auth = t.auth /\ y.leaked = x.leaked
  BY <1>1, <1>3, <1>4, SetDevices DEF OnlyDevices
<1>6. ASSUME NEW d \in Clients, NEW p \in Paths, <<d, p>> \in y.auth, <<d, p>> \notin y.leaked
      PROVE  y.client[d].dev[p].active /\ d \in {c}
  BY <1>3, <1>4, <1>5, <1>6 DEF Devices, OnlyDevices
<1>7. ASSUME NoFaults
      PROVE  /\ y.leaked = {}
             /\ \A d \in Clients, p \in Paths : y.client[d].dev[p].active => d \in {c} /\ <<d, p>> \in y.auth
  <2>1. \A d \in Clients, p \in Paths : <<d, p>> \notin x.auth /\ ~x.client[d].dev[p].active
    BY <1>7 DEF Devices
  <2> QED  BY <1>2, <1>3, <1>4, <1>5, <1>7, <2>1 DEF Devices, OnlyDevices
<1>8. Devices(y, {c})
  BY <1>6, <1>7 DEF Devices
<1> QED  BY <1>5, <1>8 DEF y

-----------------------------------------------------------------------------
(* The invariant, of a state x in which the clients of E are being removed. *)

\* The seat's list has its clients once, with session numbers; the others have
\* nothing.
Listed(x, E) ==
  /\ \A i, j \in DOMAIN x.seat.order : x.seat.order[i] = x.seat.order[j] => i = j
  /\ Members(x) \cap E = {}
  /\ \A c \in Members(x) : /\ x.client[c].st # "Closed" /\ x.client[c].session # -1
                           /\ world.vtBound => x.client[c].session \in Vts
  /\ ~world.vtBound =>
       \A c, d \in Members(x) : c # d => x.client[c].session # x.client[d].session
  /\ \A c \in Clients : c \notin Members(x) => x.client[c].dev = NoDevices
  /\ \A c \in Clients \ E : c \notin Members(x) => x.client[c].st \in {"New", "Closed"}
  /\ \A c \in Clients : c \in E \/ x.client[c].st = "Closed" => x.client[c].session # -1
  /\ \A c \in Clients : x.client[c].conn = "off" => x.client[c] = Fresh

\* The seat has one holder.
Holds(x, E) ==
  /\ \A c \in Clients \ E : x.client[c].st \in Holding <=> x.seat.active = c
  /\ x.seat.active # None => x.seat.active \in Members(x)

NextListed(x) ==
  x.seat.next # None => x.seat.next \in Members(x) /\ x.client[x.seat.next].st \in {"New", "Disabled"}

NextPending(x) ==
  x.seat.next # None => x.seat.active # None /\ x.client[x.seat.active].st = "PendingDisable"

ToldWell(x) ==
  ~world.slow => \A c \in Clients : peer[c] # "gone" =>
    /\ peer[c] = "ok"
    /\ x.client[c].st = "Active" => x.told[c] = "enabled"
    /\ x.client[c].st \in {"PendingDisable", "Disabled"} => x.told[c] = "disabled"

Authorized(x, E) == {c \in Clients \ E : x.client[c].st = "Active"}

\* Between two calls; a seat that is free may have a next client.
Sound(x, E) ==
  /\ Typed(x) /\ Listed(x, E) /\ Holds(x, E) /\ NextListed(x) /\ ToldWell(x)
  /\ Devices(x, Authorized(x, E))

LEMMA MembersAre ==
  ASSUME NEW x, Typed(x)
  PROVE  Members(x) \subseteq Clients
  BY DEF Typed, Seats, Members

-----------------------------------------------------------------------------
(* Terminals. *)

OnlyTty(x, y) ==
  /\ y.client = x.client /\ y.seat = x.seat /\ y.auth = x.auth /\ y.leaked = x.leaked /\ y.told = x.told

LEMMA ModeOf ==
  ASSUME NEW t \in Ttys, NEW v, NEW on \in BOOLEAN, on => v \in Vts
  PROVE  SetMode(t, v, on) \in Ttys
  BY DEF SetMode, Ttys

LEMMA VtOpenOf ==
  ASSUME NEW x, Typed(x), NEW v \in Vts
  PROVE  Typed(VtOpen(x, v)) /\ OnlyTty(x, VtOpen(x, v))
<1> DEFINE t == SetMode(x.tty, v, TRUE)
           u == [t EXCEPT !.gfx = t.gfx \cup {v}]
<1>1. t \in Ttys
  BY ModeOf DEF Typed
<1>2. VtOpen(x, v) = [x EXCEPT !.tty = u]
  BY DEF VtOpen
<1>3. u \in Ttys
  <2> HIDE DEF t
  <2> QED  BY <1>1 DEF Ttys
<1> HIDE DEF t, u
<1> QED  BY <1>2, <1>3 DEF Typed, OnlyTty

LEMMA VtCloseOf ==
  ASSUME NEW x, Typed(x), NEW v, NEW f
  PROVE  Typed(VtClose(x, v, f)) /\ OnlyTty(x, VtClose(x, v, f))
<1> DEFINE t == SetMode(x.tty, v, FALSE)
           u == [t EXCEPT !.gfx = t.gfx \ {v}]
<1>1. t \in Ttys
  BY ModeOf DEF Typed
<1>2. VtClose(x, v, f) = x \/ VtClose(x, v, f) = [x EXCEPT !.tty = u]
  BY DEF VtClose
<1>3. u \in Ttys
  <2> HIDE DEF t
  <2> QED  BY <1>1 DEF Ttys
<1> HIDE DEF t, u
<1> QED  BY <1>2, <1>3 DEF Typed, OnlyTty

LEMMA SwitchOf ==
  ASSUME NEW t \in Ttys, NEW v \in Vts
  PROVE  SwitchDone(t, v) \in Ttys /\ SwitchWanted(t, v) \in Ttys /\ AckRelease(t, v) \in Ttys
<1>1. \A w \in Vts : SwitchDone(t, w) \in Ttys
  BY DEF SwitchDone, Ttys, Signals
<1>2. SwitchWanted(t, v) \in Ttys
  BY <1>1 DEF SwitchWanted, Ttys, Signals
<1>3. t.want # 0 => t.want \in Vts
  BY DEF Ttys
<1>4. AckRelease(t, v) \in Ttys
  BY <1>1, <1>3 DEF AckRelease
<1> QED  BY <1>1, <1>2, <1>4

\* What holds of x holds of y, which differs in the terminals only.
LEMMA TtyFrame ==
  ASSUME NEW x, NEW y, NEW E, OnlyTty(x, y), Typed(y)
  PROVE  /\ Members(y) = Members(x) /\ Authorized(y, E) = Authorized(x, E)
         /\ Sound(x, E) => Sound(y, E)
         /\ NextPending(x) <=> NextPending(y)
<1>1. Members(y) = Members(x) /\ Authorized(y, E) = Authorized(x, E)
  BY DEF OnlyTty, Members, Authorized
<1>2. Listed(x, E) => Listed(y, E)
  BY <1>1 DEF OnlyTty, Listed
<1>3. Holds(x, E) => Holds(y, E)
  BY <1>1 DEF OnlyTty, Holds
<1>4. NextListed(x) => NextListed(y)
  BY <1>1 DEF OnlyTty, NextListed
<1>5. ToldWell(x) => ToldWell(y)
  BY DEF OnlyTty, ToldWell
<1>6. \A S : Devices(x, S) => Devices(y, S)
  BY DEF OnlyTty, Devices
<1>7. NextPending(x) <=> NextPending(y)
  BY DEF OnlyTty, NextPending
<1> QED  BY <1>1, <1>2, <1>3, <1>4, <1>5, <1>6, <1>7 DEF Sound

-----------------------------------------------------------------------------
(* Sessions. *)

\* In y the client c is in state s; y is otherwise like x in clients and devices.
InState(x, y, c, s) ==
  /\ y.tty = x.tty /\ y.auth = x.auth /\ y.leaked = x.leaked
  /\ \A d \in Clients \ {c} : y.client[d] = x.client[d]
  /\ y.client[c].st = s /\ y.client[c].conn = x.client[c].conn
  /\ y.client[c].session = x.client[c].session /\ y.client[c].dev = x.client[c].dev

LEMMA SlotState ==
  ASSUME NEW z \in Slots, NEW s \in States
  PROVE  LET w == [z EXCEPT !.st = s]
         IN w \in Slots /\ w.st = s /\ w.conn = z.conn /\ w.session = z.session /\ w.dev = z.dev
  BY DEF Slots

LEMMA SetState ==
  ASSUME NEW x, Typed(x), NEW c \in Clients, NEW s \in States
  PROVE  LET y == [x EXCEPT !.client[c].st = s]
         IN Typed(y) /\ InState(x, y, c, s) /\ y.seat = x.seat /\ y.told = x.told
<1> DEFINE w == [x.client[c] EXCEPT !.st = s]
           y == [x EXCEPT !.client[c].st = s]
<1>1. x.client[c] \in Slots
  BY DEF Typed
<1>2. /\ w \in Slots /\ w.st = s
      /\ w.conn = x.client[c].conn /\ w.session = x.client[c].session /\ w.dev = x.client[c].dev
  BY <1>1, SlotState
<1>3. y = [x EXCEPT !.client = [x.client EXCEPT ![c] = w]]
  BY DEF Typed
<1> HIDE DEF w, y
<1> QED  BY <1>2, <1>3 DEF Typed, InState, y

Enabled(x, c) == [x EXCEPT !.client[c].st = "Active", !.seat.active = c, !.told[c] = "enabled"]

LEMMA EnabledOf ==
  ASSUME NEW x, Typed(x), NEW c \in Clients
  PROVE  LET y == Enabled(x, c)
         IN /\ Typed(y) /\ InState(x, y, c, "Active")
            /\ y.seat.order = x.seat.order /\ y.seat.next = x.seat.next /\ y.seat.active = c
            /\ \A d \in Clients \ {c} : y.told[d] = x.told[d]
            /\ y.told[c] = "enabled"
<1> DEFINE z == [x EXCEPT !.client[c].st = "Active"]
           y == Enabled(x, c)
<1>1. Typed(z) /\ InState(x, z, c, "Active") /\ z.seat = x.seat /\ z.told = x.told
  BY SetState DEF States
<1>2. y = [z EXCEPT !.seat = [z.seat EXCEPT !.active = c], !.told = [z.told EXCEPT ![c] = "enabled"]]
  BY DEF Typed, Enabled
<1>3. [z.seat EXCEPT !.active = c] \in Seats
  <2> HIDE DEF z
  <2> QED  BY <1>1 DEF Typed, Seats
<1> HIDE DEF z, y
<1>4. /\ Typed(y) /\ y.client = z.client /\ y.tty = z.tty /\ y.auth = z.auth /\ y.leaked = z.leaked
      /\ y.seat = [z.seat EXCEPT !.active = c] /\ y.told = [z.told EXCEPT ![c] = "enabled"]
  BY <1>1, <1>2, <1>3 DEF Typed
<1>5. y.seat.order = x.seat.order /\ y.seat.next = x.seat.next /\ y.seat.active = c
  BY <1>1, <1>4 DEF Typed, Seats
<1> QED  BY <1>1, <1>4, <1>5 DEF Typed, InState, y

\* Devices of a client that is no holder.
LEMMA DevicesFrame ==
  ASSUME NEW x, NEW y, NEW E, NEW c \in Members(x), OnlyDevices(x, y, c)
  PROVE  /\ Members(y) = Members(x) /\ Authorized(y, E) = Authorized(x, E)
         /\ Typed(x) /\ Listed(x, E) => Listed(y, E)
         /\ Holds(x, E) => Holds(y, E)
         /\ Typed(x) /\ NextListed(x) => NextListed(y)
         /\ ToldWell(x) => ToldWell(y)
<1>1. Members(y) = Members(x)
  BY DEF OnlyDevices, Members
<1>2. \A d \in Clients : /\ y.client[d].st = x.client[d].st /\ y.client[d].conn = x.client[d].conn
                         /\ y.client[d].session = x.client[d].session
  BY DEF OnlyDevices
<1>3. Authorized(y, E) = Authorized(x, E)
  BY <1>2 DEF Authorized
<1>4. ASSUME Typed(x), Listed(x, E) PROVE Listed(y, E)
  <2>1. Members(x) \subseteq Clients
    BY <1>4, MembersAre
  <2>2. x.client[c].conn # "off"
    BY <1>4, <2>1 DEF Listed, Fresh
  <2> QED  BY <1>1, <1>2, <1>4, <2>1, <2>2 DEF Listed, OnlyDevices
<1>5. Holds(x, E) => Holds(y, E)
  BY <1>1, <1>2 DEF OnlyDevices, Holds
<1>6. ASSUME Typed(x), NextListed(x) PROVE NextListed(y)
  BY <1>1, <1>2, <1>6, MembersAre DEF OnlyDevices, NextListed
<1>7. ToldWell(x) => ToldWell(y)
  BY <1>2 DEF OnlyDevices, ToldWell
<1> QED  BY <1>1, <1>3, <1>4, <1>5, <1>6, <1>7

LEMMA OpenClientOf ==
  ASSUME NEW x, NEW E, Sound(x, E), x.seat.active = None, x.seat.next = None,
         NEW c \in Members(x), NEW f \in world.faults
  PROVE  LET y == OpenClient(x, c, f)
         IN /\ Sound(y, E) /\ y.seat.order = x.seat.order /\ y.seat.next = None
            /\ y.seat.active \in {c, None}
            /\ y.seat.active = c => y.client[c].st = "Active"
            /\ OpenClientOk(x, c, f) <=> y.seat.active = c
<1> DEFINE v == x.client[c].session
           o == IF world.vtBound THEN VtOpen(x, v) ELSE x
           ready == ActivateDevices(o, c)
           undone == DeactivateDevices(ready, c, f)
           y == OpenClient(x, c, f)
<1>0. c \in Clients /\ c # None /\ c \notin E
  BY MembersAre, SeatdAssumption DEF Sound, Listed
<1>1. Typed(o) /\ OnlyTty(x, o)
  BY VtOpenOf DEF Sound, Listed, OnlyTty
<1>2. Sound(o, E) /\ Members(o) = Members(x)
  BY <1>1, TtyFrame
<1>3. Authorized(o, E) = {} /\ o.seat = x.seat /\ o.client = x.client
  <2> HIDE DEF o
  <2>1. \A d \in Clients \ E : x.client[d].st \notin Holding
    BY SeatdAssumption DEF Sound, Holds
  <2> QED  BY <1>1, <2>1 DEF Authorized, OnlyTty, Holding
<1>4. Typed(ready) /\ Devices(ready, {c}) /\ OnlyDevices(o, ready, c)
  BY <1>0, <1>2, <1>3, ActivateOf DEF Sound
<1>5. Typed(undone) /\ Devices(undone, {c} \ {c}) /\ OnlyDevices(ready, undone, c)
  BY <1>0, <1>4, DeactivateOf
<1> HIDE DEF o, ready, undone
<1>6. CASE ~(MayOpen(x, c) /\ VtReady(x, c, f))
  <2>1. y = x
    BY <1>6 DEF OpenClient
  <2> QED  BY <1>0, <1>6, <2>1 DEF OpenClientOk
<1>7. CASE MayOpen(x, c) /\ VtReady(x, c, f) /\ Heard(c)
  <2>1. y = Enabled(ready, c)
    BY <1>7 DEF OpenClient, Enabled, o, ready
  <2> HIDE DEF y
  <2>2. /\ Typed(y) /\ InState(ready, y, c, "Active")
        /\ y.seat.order = ready.seat.order /\ y.seat.next = ready.seat.next /\ y.seat.active = c
        /\ \A d \in Clients \ {c} : y.told[d] = ready.told[d]
        /\ y.told[c] = "enabled"
    BY <1>0, <1>4, <2>1, EnabledOf
  <2>3. Members(y) = Members(x) /\ Members(ready) = Members(o) /\ y.seat.order = x.seat.order /\ y.seat.next = None
    BY <1>3, <1>4, <2>2 DEF Members, OnlyDevices
  <2>4. /\ \A d \in Clients \ {c} : y.client[d] = x.client[d]
        /\ y.client[c].st = "Active" /\ y.client[c].conn = x.client[c].conn /\ y.client[c].session = v
    BY <1>3, <1>4, <2>2 DEF InState, OnlyDevices
  <2>5. Listed(y, E)
    <3>1. x.client[c].conn # "off"
      BY <1>0 DEF Sound, Listed, Fresh
    <3>2. Listed(x, E) /\ Members(x) \subseteq Clients
      BY MembersAre DEF Sound
    <3> QED  BY <1>0, <2>3, <2>4, <3>1, <3>2 DEF Listed
  <2>6. Holds(y, E)
    <3>1. \A d \in Clients \ E : x.client[d].st \notin Holding
      BY SeatdAssumption DEF Sound, Holds
    <3> QED  BY <1>0, <2>2, <2>3, <2>4, <3>1 DEF Holds, Holding
  <2>7. NextListed(y)
    BY <2>3 DEF NextListed
  <2>8. ToldWell(y)
    <3>1. \A d \in Clients \ {c} : y.told[d] = x.told[d]
      BY <1>1, <1>4, <2>2 DEF OnlyDevices, OnlyTty
    <3> QED  BY <2>2, <2>4, <3>1 DEF Sound, ToldWell
  <2>9. Devices(y, Authorized(y, E))
    <3>1. Authorized(y, E) = {c}
      BY <1>0, <1>3, <2>4 DEF Authorized
    <3>2. y.auth = ready.auth /\ y.leaked = ready.leaked /\ \A d \in Clients : y.client[d].dev = ready.client[d].dev
      BY <2>2 DEF InState
    <3> QED  BY <1>4, <3>1, <3>2 DEF Devices
  <2>10. Sound(y, E)
    BY <2>2, <2>5, <2>6, <2>7, <2>8, <2>9 DEF Sound
  <2> QED  BY <1>7, <2>2, <2>3, <2>4, <2>10 DEF OpenClientOk, y
<1>8. CASE MayOpen(x, c) /\ VtReady(x, c, f) /\ ~Heard(c)
  <2>1. y = IF world.vtBound THEN VtClose(undone, v, f) ELSE undone
    BY <1>8 DEF OpenClient, o, ready, undone
  <2>2. Typed(y) /\ OnlyTty(undone, y)
    BY <1>5, <2>1, VtCloseOf DEF OnlyTty
  <2>3. OnlyDevices(o, undone, c)
    BY <1>4, <1>5 DEF OnlyDevices
  <2>4. Sound(undone, E)
    <3>1. /\ Members(undone) = Members(o) /\ Authorized(undone, E) = Authorized(o, E)
          /\ Listed(undone, E) /\ Holds(undone, E) /\ NextListed(undone) /\ ToldWell(undone)
      BY <1>2, <2>3, DevicesFrame DEF Sound
    <3>2. Devices(undone, Authorized(undone, E))
      BY <1>3, <1>5, <3>1 DEF Devices
    <3> QED  BY <1>5, <3>1, <3>2 DEF Sound
  <2>5. Sound(y, E) /\ y.seat = x.seat
    BY <1>3, <2>2, <2>3, <2>4, TtyFrame DEF OnlyTty, OnlyDevices
  <2> QED  BY <1>0, <1>8, <2>5 DEF OpenClientOk
<1> QED  BY <1>6, <1>7, <1>8

\* FirstWith finds a client of the list.
LEMMA FirstOf ==
  ASSUME NEW x, Typed(x), NEW n
  PROVE  \/ FirstWith(x, n) = None
         \/ FirstWith(x, n) \in Members(x) /\ x.client[FirstWith(x, n)].session = n
<1> DEFINE W == WithSession(x, n)
           P(i) == i \in W /\ \A j \in W : i <= j
<1>1. x.seat.order \in Seq(Clients)
  BY DEF Typed, Seats
<1>2. W \subseteq DOMAIN x.seat.order /\ W \subseteq Nat
  BY <1>1 DEF WithSession
<1> HIDE DEF W
<1>3. ASSUME W # {} PROVE (CHOOSE i \in W : \A j \in W : i <= j) \in W
  BY <1>2, <1>3, LeastNumber
<1> DEFINE i == CHOOSE k \in W : \A j \in W : k <= j
<1>4. W # {} => FirstWith(x, n) = x.seat.order[i]
  BY DEF FirstWith, W
<1>5. W = {} => FirstWith(x, n) = None
  BY DEF FirstWith, W
<1> HIDE DEF i
<1>6. W # {} => i \in W
  BY <1>3 DEF i
<1> QED  BY <1>2, <1>4, <1>5, <1>6 DEF W, WithSession, Members

Forgetful(x) == [x EXCEPT !.seat.next = None]

LEMMA ForgetfulOf ==
  ASSUME NEW x, NEW E, Sound(x, E)
  PROVE  LET y == Forgetful(x)
         IN /\ Sound(y, E) /\ Members(y) = Members(x) /\ y.seat.order = x.seat.order
            /\ y.seat.next = None /\ y.seat.active = x.seat.active /\ y.client = x.client
<1> DEFINE y == Forgetful(x)
           s == [x.seat EXCEPT !.next = None]
<1>1. y = [x EXCEPT !.seat = s]
  BY DEF Forgetful, Sound, Typed
<1>2. s \in Seats /\ s.order = x.seat.order /\ s.next = None /\ s.active = x.seat.active
  BY DEF Sound, Typed, Seats
<1> HIDE DEF y, s
<1>3. /\ Typed(y) /\ y.client = x.client /\ y.told = x.told /\ y.auth = x.auth /\ y.leaked = x.leaked /\ y.seat = s
  BY <1>1, <1>2 DEF Sound, Typed
<1>4. Members(y) = Members(x) /\ Authorized(y, E) = Authorized(x, E)
  BY <1>2, <1>3 DEF Members, Authorized
<1>5. Listed(y, E)
  BY <1>2, <1>3, <1>4 DEF Sound, Listed
<1>6. Holds(y, E) /\ NextListed(y) /\ ToldWell(y)
  BY <1>2, <1>3, <1>4 DEF Sound, Holds, NextListed, ToldWell
<1>7. Devices(y, Authorized(y, E))
  BY <1>3, <1>4 DEF Sound, Devices
<1> QED  BY <1>2, <1>3, <1>4, <1>5, <1>6, <1>7 DEF Sound, y

LEMMA CandidateOf ==
  ASSUME NEW x, NEW E, Sound(x, E)
  PROVE  /\ Candidate(x) \in Members(x) \cup {None}
         /\ Candidate(x) = None => x.seat.next = None
<1>1. Typed(x)
  BY DEF Sound
<1>2. x.seat.order # <<>> => x.seat.order[1] \in Members(x)
  BY <1>1 DEF Typed, Seats, Members
<1>3. FirstWith(x, x.seat.curVt) \in Members(x) \cup {None}
  BY <1>1, FirstOf
<1>4. x.seat.next # None => x.seat.next \in Members(x)
  BY DEF Sound, NextListed
<1> QED  BY <1>2, <1>3, <1>4 DEF Candidate

\* The seat passes from nobody to a listed client or to nobody.
LEMMA PassOn ==
  ASSUME NEW x, NEW E, Sound(x, E), x.seat.active = None, NEW f \in world.faults
  PROVE  LET y == Activate(x, f)
         IN /\ Sound(y, E) /\ NextPending(y) /\ Members(y) = Members(x)
            /\ y.seat.active \in Members(x) \cup {None}
            /\ y.seat.active # None => y.client[y.seat.active].st = "Active"
<1> DEFINE y == Activate(x, f)
           c == Candidate(x)
           z == Forgetful(x)
<1>1. CASE c = None
  <2>1. y = x
    BY <1>1 DEF Activate
  <2> QED  BY <1>1, <2>1, CandidateOf DEF NextPending
<1>2. CASE c # None
  <2>1. c \in Members(x)
    BY <1>2, CandidateOf
  <2>2. y = OpenClient(z, c, f)
    BY <1>2 DEF Activate, Forgetful
  <2>3. Sound(z, E) /\ Members(z) = Members(x) /\ z.seat.next = None /\ z.seat.active = None
    BY ForgetfulOf
  <2> HIDE DEF y, c, z
  <2>4. /\ Sound(y, E) /\ y.seat.order = z.seat.order /\ y.seat.next = None
        /\ y.seat.active \in {c, None}
        /\ y.seat.active = c => y.client[c].st = "Active"
    BY <2>1, <2>2, <2>3, OpenClientOf
  <2>5. Members(y) = Members(x)
    BY <2>3, <2>4 DEF Members
  <2> QED  BY <2>1, <2>4, <2>5 DEF NextPending, y
<1> QED  BY <1>1, <1>2

\* Without takes one element out of a list.
LEMMA WithoutOf ==
  ASSUME NEW s \in Seq(Clients), NEW i \in DOMAIN s, \A j, k \in DOMAIN s : s[j] = s[k] => j = k
  PROVE  LET t == Without(s, i)
         IN /\ t \in Seq(Clients)
            /\ \A j, k \in DOMAIN t : t[j] = t[k] => j = k
            /\ {t[j] : j \in DOMAIN t} = {s[j] : j \in DOMAIN s} \ {s[i]}
<1> DEFINE a == SubSeq(s, 1, i - 1)
           b == SubSeq(s, i + 1, Len(s))
           t == Without(s, i)
<1>1. Len(s) \in Nat /\ i \in 1 .. Len(s) /\ DOMAIN s = 1 .. Len(s)
  OBVIOUS
<1>2. /\ a \in Seq(Clients) /\ Len(a) = i - 1 /\ \A j \in 1 .. i - 1 : a[j] = s[j]
  BY <1>1, SubSeqProperties
<1>3. /\ b \in Seq(Clients) /\ Len(b) = Len(s) - i /\ \A j \in 1 .. Len(s) - i : b[j] = s[i + j]
  BY <1>1, SubSeqProperties
<1> HIDE DEF a, b
<1>4. t = a \o b
  BY DEF Without, a, b
<1> HIDE DEF t
<1>5. /\ t \in Seq(Clients) /\ Len(t) = Len(s) - 1 /\ DOMAIN t = 1 .. Len(s) - 1
      /\ \A j \in 1 .. Len(s) - 1 : t[j] = IF j < i THEN s[j] ELSE s[j + 1]
  <2>1. t \in Seq(Clients) /\ Len(t) = Len(a) + Len(b) /\ DOMAIN t = 1 .. Len(a) + Len(b)
    BY <1>2, <1>3, <1>4
  <2>2. \A j \in 1 .. Len(a) + Len(b) : t[j] = IF j <= Len(a) THEN a[j] ELSE b[j - Len(a)]
    <3>1. a \in Seq(Clients) /\ b \in Seq(Clients)
      BY <1>2, <1>3
    <3>2. \A j \in 1 .. Len(a) + Len(b) : (a \o b)[j] = IF j <= Len(a) THEN a[j] ELSE b[j - Len(a)]
      BY <3>1, ConcatProperties
    <3> QED  BY <1>4, <3>2
  <2>3. ASSUME NEW j \in 1 .. Len(s) - 1 PROVE t[j] = IF j < i THEN s[j] ELSE s[j + 1]
    <3>1. CASE j < i
      <4>1. j \in 1 .. i - 1 /\ j \in 1 .. Len(a) + Len(b) /\ j <= Len(a)
        BY <1>1, <1>2, <1>3, <3>1
      <4>2. t[j] = a[j] /\ a[j] = s[j]
        BY <1>2, <2>2, <4>1
      <4> QED  BY <3>1, <4>2
    <3>2. CASE ~(j < i)
      <4>1. j - (i - 1) \in 1 .. Len(s) - i /\ i + (j - (i - 1)) = j + 1
        BY <1>1, <3>2
      <4>2. t[j] = b[j - (i - 1)]
        BY <1>1, <1>2, <1>3, <2>2, <3>2
      <4> QED  BY <1>3, <3>2, <4>1, <4>2
    <3> QED  BY <3>1, <3>2
  <2> QED  BY <1>1, <1>2, <1>3, <2>1, <2>3
<1>6. ASSUME NEW j \in DOMAIN t, NEW k \in DOMAIN t, t[j] = t[k] PROVE j = k
  <2> DEFINE m(l) == IF l < i THEN l ELSE l + 1
  <2>1. m(j) \in DOMAIN s /\ m(k) \in DOMAIN s /\ t[j] = s[m(j)] /\ t[k] = s[m(k)]
    BY <1>1, <1>5
  <2>2. m(j) = m(k)
    BY <1>6, <2>1
  <2> QED  BY <1>1, <1>5, <2>2
<1>7. ASSUME NEW j \in DOMAIN t PROVE \E k \in DOMAIN s : t[j] = s[k] /\ s[k] # s[i]
  <2> DEFINE m == IF j < i THEN j ELSE j + 1
  <2>1. m \in DOMAIN s /\ t[j] = s[m] /\ m # i
    BY <1>1, <1>5
  <2> QED  BY <2>1
<1>8. ASSUME NEW k \in DOMAIN s, s[k] # s[i] PROVE \E j \in DOMAIN t : t[j] = s[k]
  <2> DEFINE m == IF k < i THEN k ELSE k - 1
  <2>1. k # i
    BY <1>8
  <2>2. m \in DOMAIN t /\ t[m] = s[k]
    BY <1>1, <1>5, <2>1
  <2> QED  BY <2>2
<1> QED  BY <1>5, <1>6, <1>7, <1>8 DEF t

Unlisted(x, c) ==
  [x EXCEPT !.seat.next = IF @ = c THEN None ELSE @,
            !.seat.order = Without(@, Position(x, c)),
            !.seat.active = IF @ = c THEN None ELSE @]

LEMMA UnlistedOf ==
  ASSUME NEW x, Typed(x), Listed(x, {}), NEW c \in Members(x)
  PROVE  LET y == Unlisted(x, c)
         IN /\ Typed(y) /\ Members(y) = Members(x) \ {c}
            /\ \A i, j \in DOMAIN y.seat.order : y.seat.order[i] = y.seat.order[j] => i = j
            /\ y.client = x.client /\ y.told = x.told /\ y.auth = x.auth /\ y.leaked = x.leaked /\ y.tty = x.tty
            /\ y.seat.active = IF x.seat.active = c THEN None ELSE x.seat.active
            /\ y.seat.next = IF x.seat.next = c THEN None ELSE x.seat.next
<1> DEFINE y == Unlisted(x, c)
           t == Without(x.seat.order, Position(x, c))
           n == IF x.seat.next = c THEN None ELSE x.seat.next
           a == IF x.seat.active = c THEN None ELSE x.seat.active
           s == [x.seat EXCEPT !.next = n, !.order = t, !.active = a]
<1>1. Position(x, c) \in DOMAIN x.seat.order /\ x.seat.order[Position(x, c)] = c
  BY DEF Position, Members
<1>2. /\ t \in Seq(Clients) /\ \A i, j \in DOMAIN t : t[i] = t[j] => i = j
      /\ {t[i] : i \in DOMAIN t} = Members(x) \ {c}
  <2>1. x.seat.order \in Seq(Clients) /\ \A i, j \in DOMAIN x.seat.order : x.seat.order[i] = x.seat.order[j] => i = j
    BY DEF Typed, Seats, Listed
  <2> QED  BY <1>1, <2>1, WithoutOf DEF Members
<1>3. n \in Clients \cup {None} /\ a \in Clients \cup {None}
  BY DEF Typed, Seats
<1>4. y = [x EXCEPT !.seat = s]
  BY DEF Unlisted, Typed
<1>0. x.seat \in Seats
  BY DEF Typed
<1> HIDE DEF y, t, n, a
<1>5. s \in Seats /\ s.order = t /\ s.next = n /\ s.active = a
  BY <1>0, <1>2, <1>3 DEF Seats
<1> HIDE DEF s
<1>6. /\ Typed(y) /\ y.seat = s
      /\ y.client = x.client /\ y.told = x.told /\ y.auth = x.auth /\ y.leaked = x.leaked /\ y.tty = x.tty
  BY <1>4, <1>5 DEF Typed
<1>7. Members(y) = Members(x) \ {c}
  <2>1. Members(y) = {t[i] : i \in DOMAIN t}
    BY <1>5, <1>6 DEF Members
  <2> QED  BY <1>2, <2>1
<1> QED  BY <1>2, <1>5, <1>6, <1>7 DEF y, n, a

LEMMA UnlistOf ==
  ASSUME NEW x, Sound(x, {}), NextPending(x), NEW c \in Members(x), NEW f \in world.faults
  PROVE  LET y == Unlist(x, c, f)
         IN /\ Sound(y, {c}) /\ Members(y) = Members(x) \ {c}
            /\ \A d \in Clients \ {c} : y.client[d] = x.client[d]
            /\ y.seat.active = IF x.seat.active = c THEN None ELSE x.seat.active
            /\ x.seat.active # c => NextPending(y)
<1> DEFINE u == Unlisted(x, c)
           y == Unlist(x, c, f)
<1>0. Typed(x) /\ Listed(x, {}) /\ Members(x) \subseteq Clients /\ c \in Clients
  BY MembersAre DEF Sound
<1>1. /\ Typed(u) /\ Members(u) = Members(x) \ {c}
      /\ \A i, j \in DOMAIN u.seat.order : u.seat.order[i] = u.seat.order[j] => i = j
      /\ u.client = x.client /\ u.told = x.told /\ u.auth = x.auth /\ u.leaked = x.leaked /\ u.tty = x.tty
      /\ u.seat.active = IF x.seat.active = c THEN None ELSE x.seat.active
      /\ u.seat.next = IF x.seat.next = c THEN None ELSE x.seat.next
  BY <1>0, UnlistedOf
<1>2. y = CloseDevices(u, c, Paths, f)
  BY DEF Unlist, Unlisted
<1> HIDE DEF u, y
<1>3. Devices(u, Authorized(x, {}))
  BY <1>1 DEF Sound, Devices
<1>4. /\ Typed(y) /\ OnlyDevices(u, y, c) /\ y.client[c].dev = NoDevices
      /\ Devices(y, Authorized(x, {}) \ {c})
  <2> DEFINE S == Authorized(x, {})
  <2>1. Typed(u) /\ Devices(u, S) /\ c \in Clients
    BY <1>0, <1>1, <1>3
  <2> HIDE DEF S
  <2>2. LET z == CloseDevices(u, c, Paths, f)
        IN Typed(z) /\ Devices(z, S \ {c}) /\ OnlyDevices(u, z, c) /\ z.client[c].dev = NoDevices
    BY <2>1, CloseAllOf
  <2> QED  BY <1>2, <2>2 DEF S
<1>5. Members(y) = Members(x) \ {c}
  BY <1>1, <1>4 DEF OnlyDevices, Members
<1>6. /\ \A d \in Clients \ {c} : y.client[d] = x.client[d]
      /\ y.client[c].st = x.client[c].st /\ y.client[c].conn = x.client[c].conn
      /\ y.client[c].session = x.client[c].session
      /\ y.told = x.told /\ y.seat = u.seat
  BY <1>1, <1>4 DEF OnlyDevices
<1>7. Listed(y, {c})
  <2>1. x.client[c].conn # "off" /\ x.client[c].session # -1
    BY <1>0 DEF Listed, Fresh
  <2> QED  BY <1>0, <1>1, <1>4, <1>5, <1>6, <2>1 DEF Listed
<1>8. Holds(y, {c})
  BY <1>0, <1>1, <1>5, <1>6, SeatdAssumption DEF Sound, Holds
<1>9. NextListed(y) /\ (x.seat.active # c => NextPending(y))
  <2>1. x.seat.active \in Clients \cup {None}
    BY <1>0 DEF Typed, Seats
  <2> QED  BY <1>0, <1>1, <1>5, <1>6, <2>1 DEF Sound, NextListed, NextPending
<1>10. ToldWell(y)
  BY <1>6 DEF Sound, ToldWell
<1>11. Authorized(y, {c}) = Authorized(x, {}) \ {c}
  BY <1>6 DEF Authorized
<1> QED  BY <1>1, <1>4, <1>5, <1>6, <1>7, <1>8, <1>9, <1>10, <1>11 DEF Sound, y

-----------------------------------------------------------------------------
(* A client leaves. *)

Owes(x) == x.seat.active # None /\ x.client[x.seat.active].st = "PendingDisable"

\* Between two requests.
Good(x) == Sound(x, {}) /\ NextPending(x)

\* Between x and y the client c has left the seat.
Left(x, y, c) ==
  /\ Members(y) = Members(x) \ {c}
  /\ x.seat.active = c => y.seat.active \in Members(y) \cup {None} /\ ~Owes(y)
  /\ x.seat.active # c => y.seat.active = x.seat.active /\ (Owes(y) <=> Owes(x))

LEMMA ClosedOf ==
  ASSUME NEW x, NEW c \in Clients, Sound(x, {c}), NextPending(x)
  PROVE  LET y == [x EXCEPT !.client[c].st = "Closed"]
         IN Good(y) /\ y.seat = x.seat /\ (Owes(y) <=> Owes(x))
<1> DEFINE y == [x EXCEPT !.client[c].st = "Closed"]
<1>1. Typed(y) /\ InState(x, y, c, "Closed") /\ y.seat = x.seat /\ y.told = x.told
  BY SetState DEF Sound, States
<1> HIDE DEF y
<1>2. Members(y) = Members(x) /\ c \notin Members(x) /\ Members(x) \subseteq Clients
  BY <1>1, MembersAre DEF Members, Sound, Listed
<1>3. x.seat.active # c /\ x.seat.next # c
  BY <1>2, SeatdAssumption DEF Sound, Holds, NextListed
<1>4. x.seat.active \in Clients \cup {None} /\ x.seat.next \in Clients \cup {None}
  BY DEF Sound, Typed, Seats
<1>5. Listed(y, {})
  <2>1. x.client[c].session # -1
    BY DEF Sound, Listed
  <2>2. x.client[c].conn # "off"
    BY <2>1 DEF Sound, Listed, Fresh
  <2> QED  BY <1>1, <1>2, <2>1, <2>2 DEF Sound, Listed, InState
<1>6. Holds(y, {})
  BY <1>1, <1>2, <1>3 DEF Sound, Holds, InState, Holding
<1>7. NextListed(y) /\ NextPending(y) /\ (Owes(y) <=> Owes(x))
  BY <1>1, <1>2, <1>3, <1>4 DEF Sound, NextListed, NextPending, Owes, InState
<1>8. ToldWell(y)
  BY <1>1 DEF Sound, ToldWell, InState
<1>9. Devices(y, Authorized(y, {}))
  <2>1. Authorized(y, {}) = Authorized(x, {c})
    BY <1>1 DEF Authorized, InState
  <2>2. \A d \in Clients : y.client[d].dev = x.client[d].dev
    BY <1>1 DEF InState
  <2> QED  BY <1>1, <2>1, <2>2 DEF Sound, Devices, InState
<1> QED  BY <1>1, <1>5, <1>6, <1>7, <1>8, <1>9 DEF Good, Sound, y

LEMMA RemoveOf ==
  ASSUME NEW x, Good(x), NEW c \in Members(x), NEW f \in world.faults
  PROVE  LET y == RemoveClient(x, c, f)
         IN Good(y) /\ Left(x, y, c)
<1> DEFINE u == Unlist(x, c, f)
           current == x.seat.active = c
           passed == IF current THEN Activate(u, f) ELSE u
           restore == \/ current /\ passed.seat.active = None
                      \/ ~current /\ State(x, c) \notin {"New", "Closed"}
           z == IF world.vtBound /\ restore THEN VtClose(passed, x.client[c].session, f) ELSE passed
           y == RemoveClient(x, c, f)
<1>0. c \in Clients /\ c # None
  BY MembersAre, SeatdAssumption DEF Good, Sound
<1>1. /\ Sound(u, {c}) /\ Members(u) = Members(x) \ {c}
      /\ \A d \in Clients \ {c} : u.client[d] = x.client[d]
      /\ u.seat.active = IF x.seat.active = c THEN None ELSE x.seat.active
      /\ x.seat.active # c => NextPending(u)
  BY UnlistOf DEF Good
<1>2. y = [z EXCEPT !.client[c].st = "Closed"]
  BY DEF RemoveClient
<1> HIDE DEF u
<1>3. /\ Sound(passed, {c}) /\ NextPending(passed) /\ Members(passed) = Members(x) \ {c}
      /\ x.seat.active = c => passed.seat.active \in Members(passed) \cup {None} /\ ~Owes(passed)
      /\ x.seat.active # c => passed.seat.active = x.seat.active /\ (Owes(passed) <=> Owes(x))
  <2>1. CASE x.seat.active = c
    <3>1. u.seat.active = None
      BY <1>1, <2>1
    <3>2. /\ Sound(passed, {c}) /\ NextPending(passed) /\ Members(passed) = Members(u)
          /\ passed.seat.active \in Members(u) \cup {None}
          /\ passed.seat.active # None => passed.client[passed.seat.active].st = "Active"
      BY <1>1, <2>1, <3>1, PassOn
    <3> QED  BY <1>1, <2>1, <3>2 DEF Owes
  <2>2. CASE x.seat.active # c
    <3>1. x.seat.active \in Clients \cup {None}
      BY DEF Good, Sound, Typed, Seats
    <3> QED  BY <1>1, <2>2, <3>1 DEF Owes
  <2> QED  BY <2>1, <2>2
<1> HIDE DEF passed
<1>4. Typed(z) /\ OnlyTty(passed, z)
  BY <1>3, VtCloseOf DEF Sound, OnlyTty
<1> HIDE DEF restore, z
<1>5. Sound(z, {c}) /\ NextPending(z) /\ Members(z) = Members(passed) /\ z.seat = passed.seat /\ (Owes(z) <=> Owes(passed))
  BY <1>3, <1>4, TtyFrame DEF OnlyTty, Owes
<1>6. Good(y) /\ y.seat = z.seat /\ (Owes(y) <=> Owes(z))
  BY <1>0, <1>2, <1>5, ClosedOf
<1> HIDE DEF y
<1>7. Members(y) = Members(z)
  BY <1>6 DEF Members
<1>8. Left(x, y, c)
  BY <1>3, <1>5, <1>6, <1>7 DEF Left
<1> QED  BY <1>6, <1>8 DEF y

\* The connection of c is closed or opened.
LEMMA ConnOf ==
  ASSUME NEW x, Good(x), NEW c \in Clients, NEW k \in {"up", "dead"}
  PROVE  LET y == [x EXCEPT !.client[c].conn = k]
         IN Good(y) /\ y.seat = x.seat /\ (Owes(y) <=> Owes(x))
<1> DEFINE w == [x.client[c] EXCEPT !.conn = k]
           y == [x EXCEPT !.client[c].conn = k]
<1>0. x.client[c] \in Slots /\ Typed(x) /\ Members(x) \subseteq Clients
  BY MembersAre DEF Good, Sound, Typed
<1>1. w \in Slots /\ w.conn = k /\ w.st = x.client[c].st /\ w.session = x.client[c].session /\ w.dev = x.client[c].dev
  BY <1>0 DEF Slots
<1>2. y = [x EXCEPT !.client = [x.client EXCEPT ![c] = w]]
  BY <1>0 DEF Typed
<1> HIDE DEF w, y
<1>3. /\ Typed(y) /\ y.seat = x.seat /\ y.told = x.told /\ y.auth = x.auth /\ y.leaked = x.leaked
      /\ \A d \in Clients : /\ y.client[d].st = x.client[d].st /\ y.client[d].session = x.client[d].session
                            /\ y.client[d].dev = x.client[d].dev
      /\ \A d \in Clients \ {c} : y.client[d] = x.client[d]
      /\ y.client[c].conn = k
  BY <1>0, <1>1, <1>2 DEF Typed
<1>4. Members(y) = Members(x) /\ Authorized(y, {}) = Authorized(x, {})
  BY <1>3 DEF Members, Authorized
<1>5. Listed(y, {})
  BY <1>0, <1>3, <1>4 DEF Good, Sound, Listed
<1>6. Holds(y, {})
  BY <1>3, <1>4 DEF Good, Sound, Holds
<1>7. NextListed(y) /\ NextPending(y) /\ (Owes(y) <=> Owes(x))
  <2>1. x.seat.active \in Clients \cup {None} /\ x.seat.next \in Clients \cup {None}
    BY <1>0 DEF Typed, Seats
  <2> QED  BY <1>3, <1>4, <2>1 DEF Good, Sound, NextListed, NextPending, Owes
<1>8. ToldWell(y)
  BY <1>3 DEF Good, Sound, ToldWell
<1>9. Devices(y, Authorized(y, {}))
  BY <1>3, <1>4 DEF Good, Sound, Devices
<1> QED  BY <1>3, <1>5, <1>6, <1>7, <1>8, <1>9 DEF Good, Sound, y

LEMMA DestroyOf ==
  ASSUME NEW x, Good(x), NEW c \in Clients, NEW f \in world.faults
  PROVE  LET y == Destroy(x, c, f)
         IN Good(y) /\ Left(x, y, c)
<1> DEFINE r == IF c \in Members(x) THEN RemoveClient(x, c, f) ELSE x
           y == Destroy(x, c, f)
<1>1. Good(r) /\ Left(x, r, c)
  <2>1. CASE c \in Members(x)
    BY <2>1, RemoveOf
  <2>2. CASE c \notin Members(x)
    <3>1. x.seat.active # c
      BY <2>2, SeatdAssumption DEF Good, Sound, Holds
    <3> QED  BY <2>2, <3>1 DEF Left
  <2> QED  BY <2>1, <2>2
<1>2. y = [r EXCEPT !.client[c].conn = "dead"]
  BY DEF Destroy
<1> HIDE DEF r, y
<1>3. Good(y) /\ y.seat = r.seat /\ (Owes(y) <=> Owes(r))
  BY <1>1, <1>2, ConnOf
<1>4. Members(y) = Members(r)
  BY <1>3 DEF Members
<1> QED  BY <1>1, <1>3, <1>4 DEF Left, y

-----------------------------------------------------------------------------
(* What a request of c may do to the seat, as module Seat puts it: c is asked *)
(* to give it up; it passes on; or sessions come and go.                      *)

Asks(x, y, c) ==
  x.seat.active = c /\ ~Owes(x) /\ Owes(y) /\ y.seat.active = c /\ Members(y) = Members(x)

Passes(x, y) ==
  /\ y.seat.active \in Members(y) \cup {None} /\ ~Owes(y)
  /\ x.seat.active = None \/ x.seat.active \notin Members(y)

Attends(x, y) ==
  /\ x.seat.active = None \/ x.seat.active \in Members(y)
  /\ y.seat.active = x.seat.active /\ (Owes(y) <=> Owes(x))

Step(x, y, c) == Asks(x, y, c) \/ Passes(x, y) \/ Attends(x, y)

\* A request takes x to a good state by such a step.
Served(x, y, c) == Good(y) /\ Step(x, y, c)

\* c, which was asked, gives the seat up.
Yields(x, y, c) ==
  Good(y) /\ Owes(x) /\ x.seat.active = c /\ y.seat.active \in Members(y) \cup {None} /\ ~Owes(y)

LEMMA Stays ==
  ASSUME NEW x, NEW y, NEW c, Good(x), Good(y), Members(x) \subseteq Members(y), y.seat.active = x.seat.active,
         Owes(y) <=> Owes(x)
  PROVE  Served(x, y, c)
<1>1. x.seat.active = None \/ x.seat.active \in Members(y)
  BY DEF Good, Sound, Holds
<1> QED  BY <1>1 DEF Served, Step, Attends

LEMMA LeavesAfter ==
  ASSUME NEW x, NEW y, NEW z, NEW c \in Clients, Step(x, y, c), Good(z), Left(y, z, c)
  PROVE  Served(x, z, c)
<1>0. c # None
  BY SeatdAssumption
<1>1. CASE Asks(x, y, c)
  BY <1>1 DEF Asks, Left, Served, Step, Passes
<1>2. CASE Passes(x, y)
  <2>1. CASE y.seat.active = c
    BY <1>2, <2>1 DEF Passes, Left, Served, Step
  <2>2. CASE y.seat.active # c
    BY <1>2, <2>2 DEF Passes, Left, Served, Step
  <2> QED  BY <2>1, <2>2
<1>3. CASE Attends(x, y)
  <2>1. CASE y.seat.active = c
    BY <1>0, <1>3, <2>1 DEF Attends, Left, Served, Step, Passes
  <2>2. CASE y.seat.active # c
    BY <1>3, <2>2 DEF Attends, Left, Served, Step
  <2> QED  BY <2>1, <2>2
<1> QED  BY <1>1, <1>2, <1>3 DEF Step

\* Whatever becomes of the reply, the request has been served.
LEMMA Replies ==
  ASSUME NEW x, NEW y, NEW c \in Clients, Served(x, y, c), NEW f \in world.faults
  PROVE  /\ Served(x, Destroy(y, c, f), c)
         /\ Served(x, Reply(y, c, f), c)
         /\ Served(x, ErrorReply(y, c, f), c)
<1>1. Served(x, Destroy(y, c, f), c)
  BY DestroyOf, LeavesAfter DEF Served
<1> QED  BY <1>1 DEF Reply, ErrorReply

LEMMA Unserved ==
  ASSUME NEW x, Good(x), NEW c
  PROVE  Served(x, x, c)
  BY Stays

\* A part of the seat that no session notices.
LEMMA TtyServed ==
  ASSUME NEW x, NEW y, NEW c, Good(x), Typed(y), OnlyTty(x, y)
  PROVE  Served(x, y, c)
<1>1. Good(y) /\ Members(y) = Members(x)
  BY TtyFrame DEF Good
<1>2. y.seat.active = x.seat.active /\ (Owes(y) <=> Owes(x))
  BY DEF OnlyTty, Owes
<1> QED  BY <1>1, <1>2, Stays

Seen(x, v) == [x EXCEPT !.seat.curVt = v]

LEMMA SeenOf ==
  ASSUME NEW x, NEW v \in Vts \cup {0, -1}, Sound(x, {})
  PROVE  LET y == Seen(x, v)
         IN /\ Sound(y, {}) /\ (NextPending(x) => NextPending(y)) /\ (Owes(y) <=> Owes(x))
            /\ Members(y) = Members(x) /\ y.client = x.client /\ y.tty = x.tty
            /\ y.seat.active = x.seat.active /\ y.seat.next = x.seat.next /\ y.seat.order = x.seat.order
            /\ y.seat.curVt = v
<1> DEFINE y == Seen(x, v)
           s == [x.seat EXCEPT !.curVt = v]
<1>0. Typed(x) /\ x.seat \in Seats
  BY DEF Sound, Typed
<1>1. y = [x EXCEPT !.seat = s]
  BY <1>0 DEF Seen, Typed
<1>2. s \in Seats /\ s.order = x.seat.order /\ s.next = x.seat.next /\ s.active = x.seat.active /\ s.curVt = v
  BY <1>0 DEF Seats
<1> HIDE DEF y, s
<1>3. /\ Typed(y) /\ y.client = x.client /\ y.told = x.told /\ y.auth = x.auth /\ y.leaked = x.leaked /\ y.seat = s
      /\ y.tty = x.tty
  BY <1>0, <1>1, <1>2 DEF Typed
<1>4. Members(y) = Members(x) /\ Authorized(y, {}) = Authorized(x, {})
  BY <1>2, <1>3 DEF Members, Authorized
<1>5. Listed(y, {})
  BY <1>2, <1>3, <1>4 DEF Sound, Listed
<1>6. Holds(y, {}) /\ NextListed(y) /\ ToldWell(y)
  BY <1>2, <1>3, <1>4 DEF Sound, Holds, NextListed, ToldWell
<1>7. Devices(y, Authorized(y, {}))
  BY <1>3, <1>4 DEF Sound, Devices
<1>8. (NextPending(x) => NextPending(y)) /\ (Owes(y) <=> Owes(x))
  BY <1>2, <1>3 DEF NextPending, Owes
<1> QED  BY <1>2, <1>3, <1>4, <1>5, <1>6, <1>7, <1>8 DEF Sound, y

\* Devices of a listed client come and go, with the authority it may have.
LEMMA DevicesServed ==
  ASSUME NEW x, NEW y, NEW c \in Members(x), Good(x), Typed(y), OnlyDevices(x, y, c),
         Devices(y, Authorized(x, {}))
  PROVE  Served(x, y, c)
<1>1. /\ Members(y) = Members(x) /\ Authorized(y, {}) = Authorized(x, {})
      /\ Listed(y, {}) /\ Holds(y, {}) /\ NextListed(y) /\ ToldWell(y)
  BY DevicesFrame DEF Good, Sound
<1>2. x.seat.active \in Clients \cup {None}
  BY DEF Good, Sound, Typed, Seats
<1>3. y.seat = x.seat /\ (Owes(y) <=> Owes(x)) /\ NextPending(y)
  BY <1>2 DEF OnlyDevices, Owes, Good, NextPending
<1> QED  BY <1>1, <1>3, Stays DEF Good, Sound

-----------------------------------------------------------------------------
(* Requests. *)

LEMMA CloseSeatOf ==
  ASSUME NEW x, Good(x), NEW c \in Members(x), NEW f \in world.faults
  PROVE  Served(x, HandleCloseSeat(x, c, f), c)
<1>0. c \in Clients
  BY MembersAre DEF Good, Sound
<1>1. Served(x, RemoveClient(x, c, f), c)
  BY <1>0, RemoveOf, Unserved, LeavesAfter DEF Served
<1> QED  BY <1>0, <1>1, Replies DEF HandleCloseSeat

\* A client with one more or one less reference to a device.
LEMMA RefOf ==
  ASSUME NEW x, Good(x), NEW c \in Members(x), NEW p \in Paths, NEW r \in 0 .. MaxRef
  PROVE  Served(x, [x EXCEPT !.client[c].dev[p].ref = r], c)
<1> DEFINE D == [x.client[c].dev EXCEPT ![p] = [ref |-> r, active |-> x.client[c].dev[p].active]]
           y == [x EXCEPT !.client[c].dev = D]
<1>0. c \in Clients /\ Typed(x) /\ x.client[c] \in Slots
  BY MembersAre DEF Good, Sound, Typed
<1>1. x.client[c].dev \in [Paths -> Device] /\ x.client[c].dev[p] \in Device
  BY <1>0 DEF Slots
<1>2. D \in [Paths -> Device] /\ \A q \in Paths : D[q].active = x.client[c].dev[q].active
  BY <1>1 DEF Device
<1>3. [x EXCEPT !.client[c].dev[p].ref = r] = y
  <2>1. [x.client[c].dev[p] EXCEPT !.ref = r] = [ref |-> r, active |-> x.client[c].dev[p].active]
    BY <1>1 DEF Device
  <2> QED  BY <2>1, <1>0, <1>1
<1> HIDE DEF D
<1>4. Typed(y) /\ OnlyDevices(x, y, c) /\ y.client[c].dev = D /\ y.auth = x.auth /\ y.leaked = x.leaked
  BY <1>0, <1>2, SetDevices
<1> HIDE DEF y
<1>5. \A d \in Clients, q \in Paths : y.client[d].dev[q].active = x.client[d].dev[q].active
  BY <1>2, <1>4 DEF OnlyDevices
<1>6. Devices(y, Authorized(x, {}))
  BY <1>4, <1>5 DEF Good, Sound, Devices
<1> QED  BY <1>3, <1>4, <1>6, DevicesServed

LEMMA CloseDeviceOf ==
  ASSUME NEW x, Good(x), NEW c \in Members(x), NEW p \in Paths, NEW f \in world.faults
  PROVE  Served(x, HandleCloseDevice(x, c, p, f), c)
<1> DEFINE r == x.client[c].dev[p].ref
           S == Authorized(x, {})
<1>0. c \in Clients /\ Typed(x) /\ Devices(x, S)
  BY MembersAre DEF Good, Sound
<1>1. r \in 0 .. MaxRef
  <2>1. x.client[c] \in Slots
    BY <1>0 DEF Typed
  <2> QED  BY <2>1 DEF Slots, Device
<1>2. r > 1 => Served(x, [x EXCEPT !.client[c].dev[p].ref = r - 1], c)
  <2> SUFFICES ASSUME r > 1 PROVE Served(x, [x EXCEPT !.client[c].dev[p].ref = r - 1], c)
    OBVIOUS
  <2>1. r - 1 \in 0 .. MaxRef
    BY <1>1, SeatdAssumption
  <2> QED  BY <2>1, RefOf
<1>3. Served(x, CloseDevices(x, c, {p}, f), c)
  <2> DEFINE y == CloseDevices(x, c, {p}, f)
  <2>1. {p} \in SUBSET Paths
    OBVIOUS
  <2> HIDE DEF S
  <2>2. Typed(y) /\ Devices(y, S) /\ OnlyDevices(x, y, c)
    BY <1>0, <2>1, CloseOf
  <2> QED  BY <2>2, DevicesServed DEF S
<1>4. Served(x, x, c)
  BY Unserved
<1>5. [x EXCEPT !.client[c].dev[p].ref = @ - 1] = [x EXCEPT !.client[c].dev[p].ref = r - 1]
  OBVIOUS
<1> QED  BY <1>0, <1>2, <1>3, <1>4, <1>5, Replies DEF HandleCloseDevice

\* A device is opened by the client that has the seat.
Opened(x, c, p) == [x EXCEPT !.client[c].dev[p] = [ref |-> 1, active |-> TRUE]]

LEMMA OpenedOf ==
  ASSUME NEW x, Good(x), NEW c \in Members(x), State(x, c) = "Active", NEW p \in Paths,
         NEW A, x.auth \subseteq A, A \subseteq x.auth \cup {<<c, p>>},
         <<c, p>> \in A \/ \E d \in Clients : <<d, p>> \in x.auth
  PROVE  Served(x, [Opened(x, c, p) EXCEPT !.auth = A], c)
<1> DEFINE D == [x.client[c].dev EXCEPT ![p] = [ref |-> 1, active |-> TRUE]]
           o == [x EXCEPT !.client[c].dev = D]
           y == [Opened(x, c, p) EXCEPT !.auth = A]
<1>0. c \in Clients /\ Typed(x) /\ x.client[c] \in Slots
  BY MembersAre DEF Good, Sound, Typed
<1>1. D \in [Paths -> Device] /\ D[p].active /\ \A q \in Paths \ {p} : D[q] = x.client[c].dev[q]
  BY <1>0, SeatdAssumption DEF Slots, Device
<1>2. Opened(x, c, p) = o
  BY <1>0 DEF Opened
<1> HIDE DEF D
<1>3. Typed(o) /\ OnlyDevices(x, o, c) /\ o.client[c].dev = D /\ o.auth = x.auth /\ o.leaked = x.leaked
  BY <1>0, <1>1, SetDevices
<1>4. y = [o EXCEPT !.auth = A]
  BY <1>2
<1> HIDE DEF o, y
<1>5. A \subseteq Clients \X Paths
  BY <1>0 DEF Typed
<1>6. /\ Typed(y) /\ OnlyDevices(x, y, c) /\ y.client = o.client
      /\ y.auth = A /\ y.leaked = x.leaked
  BY <1>3, <1>4, <1>5 DEF Typed, OnlyDevices
<1>7. Authorized(x, {}) = {c}
  <2>1. x.seat.active = c
    BY <1>0 DEF Good, Sound, Holds, Holding, State
  <2> QED  BY <1>0, <2>1 DEF Good, Sound, Holds, Holding, State, Authorized
<1>8. /\ \A d \in Clients \ {c}, q \in Paths : y.client[d].dev[q].active = x.client[d].dev[q].active
      /\ \A q \in Paths \ {p} : y.client[c].dev[q].active = x.client[c].dev[q].active
      /\ y.client[c].dev[p].active
  BY <1>1, <1>3, <1>6 DEF OnlyDevices
<1>9. Devices(x, {c})
  BY <1>7 DEF Good, Sound
<1>10. ASSUME NEW d \in Clients, NEW q \in Paths, <<d, q>> \in A, <<d, q>> \notin x.leaked
       PROVE  y.client[d].dev[q].active /\ d \in {c}
  <2>1. CASE <<d, q>> \in x.auth
    BY <1>8, <1>9, <1>10, <2>1 DEF Devices
  <2>2. CASE <<d, q>> = <<c, p>>
    BY <1>8, <2>2
  <2> QED  BY <1>10, <2>1, <2>2
<1>11. ASSUME NoFaults
       PROVE  /\ x.leaked = {}
              /\ \A d \in Clients, q \in Paths : y.client[d].dev[q].active => d \in {c} /\ <<d, q>> \in A
  <2>1. x.leaked = {}
    BY <1>9, <1>11 DEF Devices
  <2>2. <<c, p>> \in A
    BY <1>9, <2>1 DEF Devices
  <2> QED  BY <1>8, <1>9, <1>11, <2>1, <2>2 DEF Devices
<1>12. Devices(y, {c})
  BY <1>6, <1>10, <1>11 DEF Devices
<1> QED  BY <1>6, <1>7, <1>12, DevicesServed DEF y

LEMMA OpenDeviceOf ==
  ASSUME NEW x, Good(x), NEW c \in Members(x), NEW p \in Paths, NEW f \in world.faults,
         x.client[c].dev[p].ref < MaxRef
  PROVE  Served(x, HandleOpenDevice(x, c, p, f), c)
<1> DEFINE r == x.client[c].dev[p].ref
           o == Opened(x, c, p)
           M == x.auth \cup {<<c, q>> : q \in {q \in {p} \cap Drm : \A d \in Clients : <<d, q>> \notin x.auth}}
<1>0. c \in Clients /\ Typed(x)
  BY MembersAre DEF Good, Sound
<1>1. r \in 0 .. MaxRef /\ r + 1 \in 0 .. MaxRef
  <2>1. x.client[c] \in Slots
    BY <1>0 DEF Typed
  <2>2. r \in 0 .. MaxRef
    BY <2>1 DEF Slots, Device
  <2> QED  BY <2>2, SeatdAssumption
<1>2. Served(x, [x EXCEPT !.client[c].dev[p].ref = @ + 1], c)
  BY <1>1, RefOf
<1>3. Served(x, x, c)
  BY Unserved
<1>4. o.auth = x.auth
  BY <1>0 DEF Opened, Typed
<1>5. TakeMaster(o, c, {p}) = [o EXCEPT !.auth = M]
  BY <1>4 DEF TakeMaster
<1>6. p \in Drm /\ State(x, c) = "Active" => Served(x, TakeMaster(o, c, {p}), c)
  <2> SUFFICES ASSUME p \in Drm, State(x, c) = "Active" PROVE Served(x, [o EXCEPT !.auth = M], c)
    BY <1>5
  <2>1. x.auth \subseteq M /\ M \subseteq x.auth \cup {<<c, p>>}
    OBVIOUS
  <2>2. <<c, p>> \in M \/ \E d \in Clients : <<d, p>> \in x.auth
    OBVIOUS
  <2> HIDE DEF M
  <2> QED  BY <2>1, <2>2, OpenedOf
<1>7. State(x, c) = "Active" => Served(x, [o EXCEPT !.auth = @ \cup {<<c, p>>}], c)
  <2> SUFFICES ASSUME State(x, c) = "Active" PROVE Served(x, [o EXCEPT !.auth = x.auth \cup {<<c, p>>}], c)
    BY <1>4
  <2> QED  BY OpenedOf
<1> HIDE DEF M
<1> QED  BY <1>0, <1>2, <1>3, <1>6, <1>7, Replies DEF HandleOpenDevice, Opened

\* The holder is asked to leave the seat.
LEMMA DisableOf ==
  ASSUME NEW x, Sound(x, {}), NEW c \in Clients, x.seat.active = c, State(x, c) = "Active",
         NEW f \in world.faults
  PROVE  LET y == DisableClient(x, c, f)
         IN Good(y) /\ Owes(y) /\ y.seat = x.seat /\ Members(y) = Members(x) /\ y.tty = x.tty
<1> DEFINE q == DeactivateDevices(x, c, f)
           z == [q EXCEPT !.client[c].st = "PendingDisable"]
           t == [x.told EXCEPT ![c] = IF Heard(c) THEN "disabled" ELSE x.told[c]]
           y == DisableClient(x, c, f)
<1>0. Typed(x) /\ c \in Members(x) /\ c # None /\ Members(x) \subseteq Clients
  BY SeatdAssumption, MembersAre DEF Sound, Holds
<1>1. Typed(q) /\ Devices(q, Authorized(x, {}) \ {c}) /\ OnlyDevices(x, q, c)
  <2> DEFINE S == Authorized(x, {})
  <2>1. Devices(x, S)
    BY DEF Sound
  <2> HIDE DEF S
  <2>2. Typed(q) /\ Devices(q, S \ {c}) /\ OnlyDevices(x, q, c)
    BY <1>0, <2>1, DeactivateOf
  <2> QED  BY <2>2 DEF S
<1>2. y = [q EXCEPT !.client[c].st = "PendingDisable", !.told = [q.told EXCEPT ![c] = IF Heard(c) THEN "disabled" ELSE q.told[c]]]
  BY <1>1 DEF DisableClient, Typed
<1> HIDE DEF q
<1>3. Typed(z) /\ InState(q, z, c, "PendingDisable") /\ z.seat = q.seat /\ z.told = q.told
  BY <1>1, SetState DEF States
<1>4. y = [z EXCEPT !.told = t]
  BY <1>1, <1>2 DEF OnlyDevices
<1>5. t \in [Clients -> {"none", "enabled", "disabled"}]
  BY <1>0 DEF Typed
<1> HIDE DEF z, y
<1>6. /\ Typed(y) /\ y.client = z.client /\ y.seat = z.seat /\ y.tty = z.tty /\ y.told = t
      /\ y.auth = z.auth /\ y.leaked = z.leaked
  BY <1>3, <1>4, <1>5 DEF Typed
<1>7. y.seat = x.seat /\ Members(y) = Members(x) /\ y.tty = x.tty
  BY <1>1, <1>3, <1>6 DEF OnlyDevices, InState, Members
<1>8. /\ \A d \in Clients \ {c} : y.client[d] = x.client[d] /\ y.told[d] = x.told[d]
      /\ y.client[c].st = "PendingDisable" /\ y.client[c].conn = x.client[c].conn
      /\ y.client[c].session = x.client[c].session
      /\ y.told[c] = IF Heard(c) THEN "disabled" ELSE x.told[c]
  <2>1. \A d \in Clients \ {c} : t[d] = x.told[d]
    BY <1>0 DEF Typed
  <2>2. t[c] = IF Heard(c) THEN "disabled" ELSE x.told[c]
    BY <1>0 DEF Typed
  <2> QED  BY <1>1, <1>3, <1>6, <2>1, <2>2 DEF OnlyDevices, InState
<1> HIDE DEF t
<1>9. Listed(y, {})
  <2>1. x.client[c].conn # "off"
    BY <1>0 DEF Sound, Listed, Fresh
  <2> QED  BY <1>0, <1>7, <1>8, <2>1 DEF Sound, Listed
<1>10. Holds(y, {})
  BY <1>7, <1>8 DEF Sound, Holds, Holding
<1>11. Owes(y) /\ NextListed(y) /\ NextPending(y)
  <2>1. x.seat.next # c
    BY <1>0 DEF Sound, NextListed, State
  <2> QED  BY <1>0, <1>7, <1>8, <2>1 DEF Owes, Sound, NextListed, NextPending
<1>12. ToldWell(y)
  BY <1>8 DEF Sound, ToldWell, Heard
<1>13. Devices(y, Authorized(y, {}))
  <2>1. Authorized(y, {}) = Authorized(x, {}) \ {c}
    BY <1>8 DEF Authorized
  <2>2. \A d \in Clients : y.client[d].dev = q.client[d].dev
    BY <1>3, <1>6 DEF InState
  <2>3. y.auth = q.auth /\ y.leaked = q.leaked
    BY <1>3, <1>6 DEF InState
  <2> QED  BY <1>1, <2>1, <2>2, <2>3 DEF Devices
<1> QED  BY <1>6, <1>7, <1>9, <1>10, <1>11, <1>12, <1>13 DEF Good, Sound, y

Wants(x, d) == [x EXCEPT !.seat.next = d]

\* The active client asks for a session that waits.
LEMMA WantsOf ==
  ASSUME NEW x, Sound(x, {}), NEW d \in Members(x), d # x.seat.active
  PROVE  LET y == Wants(x, d)
         IN Sound(y, {}) /\ y.client = x.client /\ y.seat.active = x.seat.active /\ Members(y) = Members(x)
<1> DEFINE y == Wants(x, d)
           s == [x.seat EXCEPT !.next = d]
<1>0. Typed(x) /\ x.seat \in Seats /\ d \in Clients
  BY MembersAre DEF Sound, Typed
<1>1. y = [x EXCEPT !.seat = s]
  BY <1>0 DEF Wants, Typed
<1>2. s \in Seats /\ s.order = x.seat.order /\ s.next = d /\ s.active = x.seat.active
  BY <1>0 DEF Seats
<1> HIDE DEF y, s
<1>3. /\ Typed(y) /\ y.client = x.client /\ y.told = x.told /\ y.auth = x.auth /\ y.leaked = x.leaked /\ y.seat = s
  BY <1>0, <1>1, <1>2 DEF Typed
<1>4. Members(y) = Members(x) /\ Authorized(y, {}) = Authorized(x, {})
  BY <1>2, <1>3 DEF Members, Authorized
<1>5. Listed(y, {})
  BY <1>2, <1>3, <1>4 DEF Sound, Listed
<1>6. Holds(y, {}) /\ ToldWell(y)
  BY <1>2, <1>3, <1>4 DEF Sound, Holds, ToldWell
<1>7. NextListed(y)
  <2>1. x.client[d].st \in States /\ x.client[d].st # "Closed"
    BY <1>0 DEF Typed, Slots, Sound, Listed
  <2>2. x.client[d].st \notin Holding
    BY <1>0 DEF Sound, Holds
  <2> QED  BY <1>2, <1>3, <1>4, <2>1, <2>2 DEF NextListed, States, Holding
<1>8. Devices(y, Authorized(y, {}))
  BY <1>3, <1>4 DEF Sound, Devices
<1> QED  BY <1>2, <1>3, <1>4, <1>5, <1>6, <1>7, <1>8 DEF Sound, y

LEMMA TtySet ==
  ASSUME NEW x, Good(x), NEW c, NEW t \in Ttys
  PROVE  Served(x, [x EXCEPT !.tty = t], c)
<1> DEFINE y == [x EXCEPT !.tty = t]
<1>1. Typed(x)
  BY DEF Good, Sound
<1>2. Typed(y) /\ OnlyTty(x, y)
  BY <1>1 DEF Typed, OnlyTty
<1> HIDE DEF y
<1>3. Served(x, y, c)
  BY <1>2, TtyServed
<1> QED  BY <1>3 DEF y

LEMMA SwitchSessionOf ==
  ASSUME NEW x, Good(x), NEW c \in Members(x), NEW n, NEW f \in world.faults
  PROVE  Served(x, HandleSwitchSession(x, c, n, f), c)
<1> DEFINE target == FirstWith(x, n)
           w == Wants(x, target)
           asked == DisableClient(w, c, f)
           v == x.seat.curVt
           t == SetMode(x.tty, v, TRUE)
           moded == [x EXCEPT !.tty = t]
           turned == [moded EXCEPT !.tty = SwitchWanted(t, n)]
<1>0. c \in Clients /\ Typed(x) /\ Sound(x, {})
  BY MembersAre DEF Good, Sound
<1>1. Served(x, x, c)
  BY Unserved
<1>2. ASSUME v \in Vts PROVE Served(x, moded, c)
  <2>1. t \in Ttys
    BY <1>0, <1>2, ModeOf DEF Typed
  <2> HIDE DEF t
  <2> QED  BY <2>1, TtySet
<1>3. ASSUME v \in Vts, n \in Vts PROVE Served(x, turned, c)
  <2>1. t \in Ttys
    BY <1>0, <1>3, ModeOf DEF Typed
  <2> HIDE DEF t
  <2>2. SwitchWanted(t, n) \in Ttys
    BY <1>3, <2>1, SwitchOf
  <2>3. turned = [x EXCEPT !.tty = SwitchWanted(t, n)]
    BY <1>0 DEF Typed
  <2> HIDE DEF turned
  <2> QED  BY <2>2, <2>3, TtySet
<1>4. ASSUME State(x, c) = "Active", n # x.client[c].session, target # None
      PROVE  Served(x, asked, c)
  <2>1. target \in Members(x) /\ x.client[target].session = n
    BY <1>0, <1>4, FirstOf
  <2>2. x.seat.active = c
    BY <1>0, <1>4 DEF Sound, Holds, Holding, State
  <2> HIDE DEF target
  <2>3. Sound(w, {}) /\ w.client = x.client /\ w.seat.active = c /\ Members(w) = Members(x)
    BY <1>0, <1>4, <2>1, <2>2, WantsOf
  <2> HIDE DEF w
  <2>4. State(w, c) = "Active"
    BY <1>4, <2>3 DEF State
  <2>5. Good(asked) /\ Owes(asked) /\ asked.seat = w.seat /\ Members(asked) = Members(w)
    BY <1>0, <2>3, <2>4, DisableOf
  <2>6. ~Owes(x)
    BY <1>4, <2>2 DEF Owes, State
  <2> HIDE DEF asked
  <2> QED  BY <2>2, <2>3, <2>5, <2>6 DEF Served, Step, Asks
<1>5. [x EXCEPT !.tty = SetMode(@, x.seat.curVt, TRUE)] = moded
  OBVIOUS
<1>6. [moded EXCEPT !.tty = SwitchWanted(@, n)] = turned
  BY <1>0 DEF Typed
<1> DEFINE h == HandleSwitchSession(x, c, n, f)
<1>7. \/ h \in {ErrorReply(x, c, f), Reply(x, c, f)}
      \/ v \in Vts /\ h = ErrorReply(moded, c, f)
      \/ v \in Vts /\ n \in Vts /\ h = Reply(turned, c, f)
      \/ /\ State(x, c) = "Active" /\ n # x.client[c].session /\ target # None
         /\ h \in {Reply(asked, c, f), ErrorReply(asked, c, f)}
  <2> DEFINE ttyMoved == [moded EXCEPT !.tty = SwitchWanted(@, n)]
  <2>1. h = IF State(x, c) # "Active" \/ n <= 0 THEN ErrorReply(x, c, f)
            ELSE IF n = x.client[c].session \/ x.seat.next # None THEN Reply(x, c, f)
            ELSE IF world.vtBound
                 THEN IF v \notin Vts \ f.tty THEN ErrorReply(x, c, f)
                      ELSE IF n \notin Vts THEN ErrorReply(moded, c, f)
                      ELSE Reply(ttyMoved, c, f)
            ELSE IF target = None THEN ErrorReply(x, c, f)
            ELSE IF Heard(c) THEN Reply(asked, c, f) ELSE ErrorReply(asked, c, f)
    BY DEF HandleSwitchSession, Wants
  <2>2. ttyMoved = turned
    BY <1>6
  <2> HIDE DEF h, target, asked, v, moded, turned, ttyMoved
  <2> QED  BY <2>1, <2>2
<1> HIDE DEF target, asked, v, moded, turned, h
<1>8. Served(x, h, c)
  BY <1>0, <1>1, <1>2, <1>3, <1>4, <1>7, Replies
<1> QED  BY <1>8 DEF h

Yielded(x, c) == [x EXCEPT !.client[c].st = "Disabled", !.seat.active = None]

\* The holder answers: the seat is free.
LEMMA YieldedOf ==
  ASSUME NEW x, Good(x), NEW c \in Clients, x.seat.active = c, State(x, c) = "PendingDisable"
  PROVE  LET y == Yielded(x, c)
         IN Sound(y, {}) /\ y.seat.active = None /\ Members(y) = Members(x)
<1> DEFINE z == [x EXCEPT !.client[c].st = "Disabled"]
           s == [z.seat EXCEPT !.active = None]
           y == Yielded(x, c)
<1>0. Typed(x) /\ c \in Members(x) /\ c # None /\ Members(x) \subseteq Clients
  BY SeatdAssumption, MembersAre DEF Good, Sound, Holds
<1>1. Typed(z) /\ InState(x, z, c, "Disabled") /\ z.seat = x.seat /\ z.told = x.told
  BY <1>0, SetState DEF States
<1>2. y = [z EXCEPT !.seat = s]
  BY <1>0 DEF Yielded, Typed
<1> HIDE DEF z
<1>3. s \in Seats /\ s.active = None /\ s.order = x.seat.order /\ s.next = x.seat.next
  <2>1. z.seat \in Seats
    BY <1>1 DEF Typed
  <2> QED  BY <1>1, <2>1 DEF Seats
<1> HIDE DEF y, s
<1>4. /\ Typed(y) /\ y.client = z.client /\ y.seat = s /\ y.told = x.told
      /\ y.auth = x.auth /\ y.leaked = x.leaked
  BY <1>1, <1>2, <1>3 DEF Typed, InState
<1>5. Members(y) = Members(x)
  BY <1>3, <1>4 DEF Members
<1>6. /\ \A d \in Clients \ {c} : y.client[d] = x.client[d]
      /\ y.client[c].st = "Disabled" /\ y.client[c].conn = x.client[c].conn
      /\ y.client[c].session = x.client[c].session /\ y.client[c].dev = x.client[c].dev
  BY <1>1, <1>4 DEF InState
<1>7. Listed(y, {})
  <2>1. x.client[c].conn # "off"
    BY <1>0 DEF Good, Sound, Listed, Fresh
  <2> QED  BY <1>0, <1>3, <1>4, <1>5, <1>6, <2>1 DEF Good, Sound, Listed
<1>8. Holds(y, {})
  BY <1>0, <1>3, <1>4, <1>6, SeatdAssumption DEF Good, Sound, Holds, Holding
<1>9. NextListed(y)
  <2>1. x.seat.next # c
    BY <1>0 DEF Good, Sound, NextListed, State
  <2> QED  BY <1>0, <1>3, <1>4, <1>5, <1>6, <2>1 DEF Good, Sound, NextListed
<1>10. ToldWell(y)
  BY <1>4, <1>6 DEF Good, Sound, ToldWell, State
<1>11. Devices(y, Authorized(y, {}))
  <2>1. Authorized(y, {}) = Authorized(x, {})
    BY <1>6 DEF Authorized, State
  <2>2. \A d \in Clients : y.client[d].dev = x.client[d].dev
    BY <1>6
  <2> QED  BY <1>4, <2>1, <2>2 DEF Good, Sound, Devices
<1> QED  BY <1>3, <1>4, <1>5, <1>7, <1>8, <1>9, <1>10, <1>11 DEF Sound, y

LEMMA DisableSeatOf ==
  ASSUME NEW x, Good(x), NEW c \in Members(x), NEW f \in world.faults
  PROVE  LET h == HandleDisableSeat(x, c, f) IN Served(x, h, c) \/ Yields(x, h, c)
<1> DEFINE y == Yielded(x, c)
           z == Activate(y, f)
<1>0. c \in Clients /\ Sound(x, {}) /\ c # None
  BY MembersAre, SeatdAssumption DEF Good, Sound
<1>1. CASE State(x, c) # "PendingDisable"
  BY <1>0, <1>1, Unserved, Replies DEF HandleDisableSeat
<1>2. CASE State(x, c) = "PendingDisable"
  <2>1. x.seat.active = c /\ Owes(x)
    BY <1>0, <1>2 DEF Sound, Holds, Holding, State, Owes
  <2>2. Sound(y, {}) /\ y.seat.active = None /\ Members(y) = Members(x)
    BY <1>0, <1>2, <2>1, YieldedOf
  <2>3. HandleDisableSeat(x, c, f) = Reply(z, c, f)
    BY <1>2, <2>1 DEF HandleDisableSeat, Yielded
  <2> HIDE DEF y
  <2>4. /\ Sound(z, {}) /\ NextPending(z) /\ Members(z) = Members(y)
        /\ z.seat.active \in Members(y) \cup {None}
        /\ z.seat.active # None => z.client[z.seat.active].st = "Active"
    BY <2>2, PassOn
  <2> HIDE DEF z
  <2>5. Yields(x, z, c)
    BY <2>1, <2>2, <2>4 DEF Yields, Good, Owes
  <2>6. Served(x, Destroy(z, c, f), c)
    <3>1. Good(Destroy(z, c, f)) /\ Left(z, Destroy(z, c, f), c)
      BY <1>0, <2>5, DestroyOf DEF Yields
    <3>2. c \notin Members(Destroy(z, c, f))
      BY <3>1 DEF Left
    <3>3. /\ Destroy(z, c, f).seat.active \in Members(Destroy(z, c, f)) \cup {None}
          /\ ~Owes(Destroy(z, c, f))
      BY <2>5, <3>1 DEF Left, Yields
    <3> QED  BY <2>1, <3>1, <3>2, <3>3 DEF Served, Step, Passes
  <2> QED  BY <2>3, <2>5, <2>6 DEF Reply
<1> QED  BY <1>1, <1>2

\* The number of a new session is free: the sessions of the list cannot have
\* taken all of 1 .. Len + 1.
LEMMA FreeSessionOf ==
  ASSUME NEW x, Typed(x)
  PROVE  FreeSession(x) \in Nat \ {0} /\ WithSession(x, FreeSession(x)) = {}
<1> DEFINE L == Len(x.seat.order)
           U == {n \in 1 .. L + 1 : WithSession(x, n) = {}}
<1>1. x.seat.order \in Seq(Clients) /\ L \in Nat /\ DOMAIN x.seat.order = 1 .. L
  BY DEF Typed, Seats
<1>2. U # {}
  <2> SUFFICES ASSUME \A n \in 1 .. L + 1 : WithSession(x, n) # {} PROVE FALSE
    OBVIOUS
  <2> DEFINE at == [n \in 1 .. L + 1 |-> CHOOSE i \in 1 .. L : i \in WithSession(x, n)]
  <2>1. \A n \in 1 .. L + 1 : WithSession(x, n) \subseteq 1 .. L
    BY <1>1 DEF WithSession
  <2> HIDE DEF L
  <2>2. at \in [1 .. L + 1 -> 1 .. L] /\ \A n \in 1 .. L + 1 : at[n] \in WithSession(x, n)
    BY <2>1
  <2> HIDE DEF at
  <2>3. /\ IsFiniteSet(1 .. L + 1) /\ Cardinality(1 .. L + 1) = L + 1
        /\ IsFiniteSet(1 .. L) /\ Cardinality(1 .. L) = L
    BY <1>1, FS_Interval
  <2>4. Cardinality(1 .. L) < Cardinality(1 .. L + 1)
    BY <1>1, <2>3
  <2>5. \E m, n \in 1 .. L + 1 : m # n /\ at[m] = at[n]
    BY <2>2, <2>3, <2>4, FS_PigeonHole
  <2> QED  BY <2>2, <2>5 DEF WithSession
<1>3. U \subseteq Nat
  BY <1>1
<1>4. PICK m \in U : \A k \in U : m <= k
  <2> HIDE DEF U
  <2> QED  BY <1>2, <1>3, LeastNumber
<1>5. m \in 1 .. L + 1 /\ WithSession(x, m) = {} /\ \A k \in 1 .. m - 1 : WithSession(x, k) # {}
  <2>1. ASSUME NEW k \in 1 .. m - 1 PROVE k \notin U
    BY <1>1, <1>4
  <2> QED  BY <1>1, <1>4, <2>1
<1>6. FreeSession(x) \in 1 .. L + 1 /\ WithSession(x, FreeSession(x)) = {}
  BY <1>5 DEF FreeSession
<1> QED  BY <1>1, <1>6

\* A client that is not in the list and has no number yet joins the seat.
LEMMA EnlistOf ==
  ASSUME NEW x, Good(x), NEW c \in Clients, c \notin Members(x), x.client[c].session = -1,
         x.client[c].conn # "off", NEW n \in Nat \ {0},
         world.vtBound => n \in Vts, ~world.vtBound => WithSession(x, n) = {}
  PROVE  LET y == Enlist(x, c, n)
         IN Good(y) /\ Served(x, y, c) /\ Members(y) = Members(x) \cup {c} /\ y.seat.active = x.seat.active
            /\ (Owes(y) <=> Owes(x))
<1> DEFINE w == [x.client[c] EXCEPT !.session = n]
           o == <<c>> \o x.seat.order
           s == [x.seat EXCEPT !.order = o]
           y == Enlist(x, c, n)
<1>0. Typed(x) /\ Sound(x, {}) /\ x.client[c] \in Slots /\ x.seat \in Seats /\ Members(x) \subseteq Clients
  BY MembersAre DEF Good, Sound, Typed
<1>1. /\ w \in Slots /\ w.session = n /\ w.st = x.client[c].st /\ w.conn = x.client[c].conn
      /\ w.dev = x.client[c].dev
  BY <1>0 DEF Slots
<1>2. y = [x EXCEPT !.client = [x.client EXCEPT ![c] = w], !.seat = s]
  BY <1>0 DEF Enlist, Typed
<1>3. x.seat.order \in Seq(Clients) /\ \A i, j \in DOMAIN x.seat.order : x.seat.order[i] = x.seat.order[j] => i = j
  BY <1>0 DEF Seats, Sound, Listed
<1>4. /\ o \in Seq(Clients) /\ \A i, j \in DOMAIN o : o[i] = o[j] => i = j
      /\ {o[i] : i \in DOMAIN o} = Members(x) \cup {c}
  <2> DEFINE q == x.seat.order
  <2>1. q \in Seq(Clients) /\ Len(q) \in Nat /\ DOMAIN q = 1 .. Len(q)
    BY <1>3
  <2>2. /\ o \in Seq(Clients) /\ DOMAIN o = 1 .. Len(q) + 1
        /\ o[1] = c /\ \A i \in 2 .. Len(q) + 1 : o[i] = q[i - 1]
    BY <2>1
  <2>3. \A i \in DOMAIN q : q[i] \in Members(x) /\ q[i] # c /\ q[i] = o[i + 1] /\ i + 1 \in DOMAIN o
    BY <2>1, <2>2 DEF Members
  <2>4. \A i \in DOMAIN o : o[i] # c => i # 1 /\ i - 1 \in DOMAIN q /\ o[i] = q[i - 1]
    BY <2>1, <2>2
  <2>5. \A i \in DOMAIN o : i = 1 \/ (i - 1 \in DOMAIN q /\ o[i] = q[i - 1])
    BY <2>1, <2>2
  <2> HIDE DEF o
  <2>6. ASSUME NEW i \in DOMAIN o, NEW j \in DOMAIN o, o[i] = o[j] PROVE i = j
    BY <1>3, <2>2, <2>3, <2>5, <2>6
  <2>7. {o[i] : i \in DOMAIN o} \subseteq Members(x) \cup {c}
    BY <2>2, <2>3, <2>5
  <2>8. Members(x) \subseteq {o[i] : i \in DOMAIN o}
    <3>1. ASSUME NEW d \in Members(x) PROVE d \in {o[i] : i \in DOMAIN o}
      <4>1. PICK i \in DOMAIN q : q[i] = d
        BY DEF Members
      <4> QED  BY <2>3, <4>1
    <3> QED  BY <3>1
  <2>9. c \in {o[i] : i \in DOMAIN o}
    <3>1. 1 \in DOMAIN o
      BY <2>1, <2>2
    <3> QED  BY <2>2, <3>1
  <2> QED  BY <2>2, <2>6, <2>7, <2>8, <2>9
<1> HIDE DEF w, o
<1>5. s \in Seats /\ s.order = o /\ s.active = x.seat.active /\ s.next = x.seat.next
  BY <1>0, <1>4 DEF Seats
<1> HIDE DEF y, s
<1>6. /\ Typed(y) /\ y.seat = s /\ y.told = x.told /\ y.auth = x.auth /\ y.leaked = x.leaked
      /\ \A d \in Clients \ {c} : y.client[d] = x.client[d]
      /\ y.client[c] = w
  BY <1>0, <1>1, <1>2, <1>5 DEF Typed
<1>7. Members(y) = Members(x) \cup {c}
  <2>1. Members(y) = {o[i] : i \in DOMAIN o}
    BY <1>5, <1>6 DEF Members
  <2> QED  BY <1>4, <2>1
<1>8. x.client[c].st = "New" /\ x.client[c].dev = NoDevices
  BY <1>0 DEF Sound, Listed
<1>9. \A d \in Members(x) : ~world.vtBound => x.client[d].session # n
  BY DEF WithSession, Members
<1>10. Listed(y, {})
  <2>1. \A i, j \in DOMAIN y.seat.order : y.seat.order[i] = y.seat.order[j] => i = j
    BY <1>4, <1>5, <1>6
  <2>2. \A d \in Members(y) : /\ y.client[d].st # "Closed" /\ y.client[d].session # -1
                              /\ world.vtBound => y.client[d].session \in Vts
    BY <1>0, <1>1, <1>6, <1>7, <1>8 DEF Sound, Listed
  <2>3. ~world.vtBound =>
          \A d, e \in Members(y) : d # e => y.client[d].session # y.client[e].session
    BY <1>0, <1>1, <1>6, <1>7, <1>9 DEF Sound, Listed
  <2>4. /\ \A d \in Clients : d \notin Members(y) => y.client[d].dev = NoDevices
        /\ \A d \in Clients \ {} : d \notin Members(y) => y.client[d].st \in {"New", "Closed"}
        /\ \A d \in Clients : d \in {} \/ y.client[d].st = "Closed" => y.client[d].session # -1
    BY <1>0, <1>1, <1>6, <1>7, <1>8 DEF Sound, Listed
  <2>5. \A d \in Clients : y.client[d].conn = "off" => y.client[d] = Fresh
    BY <1>0, <1>1, <1>6 DEF Sound, Listed
  <2> QED  BY <2>1, <2>2, <2>3, <2>4, <2>5 DEF Listed
<1>11. Holds(y, {})
  BY <1>0, <1>1, <1>5, <1>6, <1>7 DEF Sound, Holds
<1>12. NextListed(y) /\ NextPending(y) /\ (Owes(y) <=> Owes(x))
  BY <1>0, <1>1, <1>5, <1>6, <1>7 DEF Good, Sound, Holds, NextListed, NextPending, Owes
<1>13. ToldWell(y)
  BY <1>0, <1>1, <1>6 DEF Sound, ToldWell
<1>14. Devices(y, Authorized(y, {}))
  <2>1. \A d \in Clients : y.client[d].dev = x.client[d].dev /\ y.client[d].st = x.client[d].st
    BY <1>1, <1>6
  <2>2. Authorized(y, {}) = Authorized(x, {})
    BY <2>1 DEF Authorized
  <2> QED  BY <1>0, <1>6, <2>1, <2>2 DEF Sound, Devices
<1>15. Good(y)
  BY <1>6, <1>10, <1>11, <1>12, <1>13, <1>14 DEF Good, Sound
<1>16. Served(x, y, c)
  BY <1>5, <1>6, <1>7, <1>12, <1>15, Stays
<1> QED  BY <1>5, <1>6, <1>7, <1>12, <1>15, <1>16 DEF y

\* handle_open_seat of a client that has just joined.
LEMMA OpenListedOf ==
  ASSUME NEW x, NEW y, NEW c \in Members(y), Good(x), Served(x, y, c), y.seat.active = x.seat.active,
         NEW f \in world.faults
  PROVE  Served(x, OpenListed(y, c, f), c)
<1> DEFINE z == OpenClient(y, c, f)
<1>0. c \in Clients /\ Good(y)
  BY MembersAre DEF Served, Good, Sound
<1>1. CASE y.seat.active # None
  BY <1>0, <1>1, Replies DEF OpenListed
<1>2. CASE y.seat.active = None
  <2>1. y.seat.next = None
    BY <1>0, <1>2 DEF Good, NextPending
  <2>2. /\ Sound(z, {}) /\ z.seat.order = y.seat.order /\ z.seat.next = None
        /\ z.seat.active \in {c, None}
        /\ z.seat.active = c => z.client[c].st = "Active"
    BY <1>0, <1>2, <2>1, OpenClientOf DEF Good
  <2> HIDE DEF z
  <2>3. Members(z) = Members(y)
    BY <2>2 DEF Members
  <2>4. Served(x, z, c)
    BY <1>2, <2>2, <2>3 DEF Served, Good, NextPending, Step, Passes, Owes
  <2>5. OpenListed(y, c, f) \in {Destroy(y, c, f), z, Destroy(z, c, f)}
    BY <1>2 DEF OpenListed, z
  <2> QED  BY <1>0, <2>4, <2>5, Replies
<1> QED  BY <1>1, <1>2

LEMMA OpenSeatOf ==
  ASSUME NEW x, Good(x), NEW c \in Clients, x.client[c].conn = "up", NEW f \in world.faults
  PROVE  Served(x, HandleOpenSeat(x, c, f), c)
<1> DEFINE s == Seen(x, x.tty.fg)
           n == FreeSession(x)
           a == Enlist(x, c, n)
           b == Enlist(s, c, x.tty.fg)
           h == HandleOpenSeat(x, c, f)
<1>0. Typed(x) /\ Sound(x, {}) /\ x.tty.fg \in Vts
  BY DEF Good, Sound, Typed, Ttys
<1>1. x.tty.fg \in Nat \ {0}
  BY <1>0, SeatdAssumption
<1>2. Served(x, x, c)
  BY Unserved
<1>3. /\ Good(s) /\ (Owes(s) <=> Owes(x)) /\ Members(s) = Members(x) /\ s.client = x.client
      /\ s.seat.active = x.seat.active
  BY <1>0, SeenOf DEF Good
<1>4. h = IF AddRefused(x, c) \/ (world.vtBound /\ 0 \in f.tty) THEN Destroy(x, c, f)
          ELSE IF ~world.vtBound THEN OpenListed(a, c, f)
          ELSE IF x.seat.active # None /\ WithSession(x, x.tty.fg) # {} THEN Destroy(s, c, f)
          ELSE OpenListed(b, c, f)
  BY DEF HandleOpenSeat, Seen
<1> HIDE DEF s, n, h
<1>5. Served(x, s, c)
  BY <1>3, Stays
<1>6. ~AddRefused(x, c) => c \notin Members(x) /\ x.client[c].session = -1
  BY DEF AddRefused
<1>7. ASSUME ~AddRefused(x, c), ~world.vtBound
      PROVE  Served(x, OpenListed(a, c, f), c)
  <2>1. n \in Nat \ {0} /\ WithSession(x, n) = {}
    BY <1>0, FreeSessionOf DEF n
  <2>2. Good(a) /\ Served(x, a, c) /\ Members(a) = Members(x) \cup {c} /\ a.seat.active = x.seat.active
    BY <1>6, <1>7, <2>1, EnlistOf
  <2> HIDE DEF a
  <2> QED  BY <2>2, OpenListedOf
<1>8. ASSUME ~AddRefused(x, c), world.vtBound
      PROVE  Served(x, OpenListed(b, c, f), c)
  <2>1. c \notin Members(s) /\ s.client[c].session = -1 /\ s.client[c].conn # "off"
    BY <1>3, <1>6, <1>8
  <2>2. Good(b) /\ Members(b) = Members(s) \cup {c} /\ b.seat.active = s.seat.active
    BY <1>0, <1>1, <1>3, <1>8, <2>1, EnlistOf
  <2>3. Owes(b) <=> Owes(s)
    BY <1>0, <1>1, <1>3, <1>8, <2>1, EnlistOf
  <2> HIDE DEF b
  <2>4. Served(x, b, c)
    BY <1>3, <2>2, <2>3, Stays
  <2> QED  BY <1>3, <2>2, <2>4, OpenListedOf
<1>9. Served(x, h, c)
  BY <1>2, <1>4, <1>5, <1>7, <1>8, Replies
<1> QED  BY <1>9 DEF h

-----------------------------------------------------------------------------
(* Signals. *)

LEMMA ReleaseOf ==
  ASSUME NEW x, Good(x), NEW f \in world.faults
  PROVE  Served(x, VtRelease(x, f), x.seat.active)
<1> DEFINE s == IF 0 \in f.tty THEN x ELSE Seen(x, x.tty.fg)
           a == s.seat.active
           q == IF a # None /\ State(s, a) = "Active" THEN DisableClient(s, a, f) ELSE s
           v == s.seat.curVt
           u == Seen(q, -1)
           t == IF v \in Vts \ f.tty THEN AckRelease(u.tty, v) ELSE u.tty
           y == [u EXCEPT !.tty = t]
           c == x.seat.active
<1>0. Typed(x) /\ Sound(x, {}) /\ x.tty.fg \in Vts
  BY DEF Good, Sound, Typed, Ttys
<1>1. Good(s) /\ (Owes(s) <=> Owes(x)) /\ Members(s) = Members(x) /\ s.client = x.client /\ s.seat.active = c
  <2>1. CASE 0 \in f.tty
    BY <2>1
  <2>2. CASE 0 \notin f.tty
    BY <1>0, <2>2, SeenOf DEF Good
  <2> QED  BY <2>1, <2>2
<1>2. VtRelease(x, f) = [q EXCEPT !.seat.curVt = -1, !.tty = IF v \in Vts \ f.tty THEN AckRelease(@, v) ELSE @]
  BY DEF VtRelease, Seen
<1> HIDE DEF s
<1>3. /\ Good(q) /\ q.seat.active = c /\ Members(q) = Members(x)
      /\ (Owes(q) <=> Owes(x)) \/ (~Owes(x) /\ Owes(q) /\ c \in Clients)
  <2>1. CASE a # None /\ State(s, a) = "Active"
    <3>1. a \in Clients
      BY <1>1, <2>1 DEF Good, Sound, Typed, Seats
    <3>2. Good(q) /\ Owes(q) /\ q.seat = s.seat /\ Members(q) = Members(s)
      BY <1>1, <2>1, <3>1, DisableOf DEF Good
    <3>3. ~Owes(x)
      BY <1>1, <2>1 DEF Owes, State
    <3> QED  BY <1>1, <3>1, <3>2, <3>3
  <2>2. CASE ~(a # None /\ State(s, a) = "Active")
    BY <1>1, <2>2
  <2> QED  BY <2>1, <2>2
<1> HIDE DEF q
<1>4. Good(u) /\ u.seat.active = c /\ Members(u) = Members(x) /\ (Owes(u) <=> Owes(q)) /\ u.tty = q.tty
  BY <1>3, SeenOf DEF Good
<1>5. VtRelease(x, f) = y
  BY <1>2, <1>4 DEF Seen
<1> HIDE DEF u
<1>6. t \in Ttys
  <2>1. u.tty \in Ttys
    BY <1>4 DEF Good, Sound, Typed
  <2> QED  BY <2>1, SwitchOf
<1> HIDE DEF t
<1>7. Good(y) /\ OnlyTty(u, y)
  <2>1. Served(u, y, c)
    BY <1>4, <1>6, TtySet
  <2>2. OnlyTty(u, y)
    BY <1>4 DEF OnlyTty, Good, Sound, Typed
  <2> QED  BY <2>1, <2>2 DEF Served
<1> HIDE DEF y
<1>8. y.seat.active = c /\ Members(y) = Members(x) /\ (Owes(y) <=> Owes(q))
  BY <1>4, <1>7 DEF OnlyTty, Members, Owes
<1>9. Served(x, y, c)
  <2>1. CASE Owes(q) <=> Owes(x)
    BY <1>7, <1>8, <2>1, Stays
  <2>2. CASE ~Owes(x) /\ Owes(q)
    BY <1>7, <1>8, <2>2 DEF Served, Step, Asks
  <2> QED  BY <1>3, <2>1, <2>2
<1> QED  BY <1>5, <1>9

LEMMA AcquireOf ==
  ASSUME NEW x, Good(x), NEW f \in world.faults, NEW c
  PROVE  Served(x, VtAcquire(x, f), c)
<1> DEFINE s == Seen(x, x.tty.fg)
           y == Activate(s, f)
<1>0. Typed(x) /\ Sound(x, {}) /\ x.tty.fg \in Vts
  BY DEF Good, Sound, Typed, Ttys
<1>1. CASE 0 \in f.tty
  BY <1>1, Unserved DEF VtAcquire
<1>2. CASE 0 \notin f.tty
  <2>1. VtAcquire(x, f) = y
    BY <1>2 DEF VtAcquire, Seen
  <2>2. Good(s) /\ (Owes(s) <=> Owes(x)) /\ Members(s) = Members(x) /\ s.seat.active = x.seat.active
    BY <1>0, SeenOf DEF Good
  <2> HIDE DEF s
  <2>3. CASE s.seat.active # None
    <3>1. y = s
      BY <2>3 DEF Activate
    <3> QED  BY <2>1, <2>2, <3>1, Stays
  <2>4. CASE s.seat.active = None
    <3>1. /\ Sound(y, {}) /\ NextPending(y) /\ Members(y) = Members(s)
          /\ y.seat.active \in Members(s) \cup {None}
          /\ y.seat.active # None => y.client[y.seat.active].st = "Active"
      BY <2>2, <2>4, PassOn DEF Good
    <3> HIDE DEF y
    <3>2. Served(x, y, c)
      BY <2>2, <2>4, <3>1 DEF Served, Good, Step, Passes, Owes
    <3> QED  BY <2>1, <3>2
  <2> QED  BY <2>3, <2>4
<1> QED  BY <1>1, <1>2

LEMMA CaughtOf ==
  ASSUME NEW x, Good(x), NEW g
  PROVE  LET y == Caught(x, g)
         IN Good(y) /\ y.seat = x.seat /\ y.client = x.client
<1> DEFINE t == [x.tty EXCEPT !.sig = x.tty.sig \ {g}]
           y == [x EXCEPT !.tty = t]
<1>0. Typed(x) /\ x.tty \in Ttys
  BY DEF Good, Sound, Typed
<1>1. Caught(x, g) = y
  BY <1>0 DEF Caught, Typed
<1>2. t \in Ttys
  BY <1>0 DEF Ttys
<1> HIDE DEF t
<1>3. Good(y)
  BY <1>2, TtySet DEF Served
<1>4. y.seat = x.seat /\ y.client = x.client
  BY <1>0 DEF Typed
<1> HIDE DEF y
<1> QED  BY <1>1, <1>3, <1>4

-----------------------------------------------------------------------------
(* Steps of the daemon and of the world. *)

Peers == [Clients -> {"ok", "stuck", "gone"}]

\* The inductive invariant.
IInv == Good(Now) /\ peer \in Peers /\ running \in {"yes", "no"}

LEMMA NowIs ==
  /\ Now.client = client /\ Now.seat = seat /\ Now.tty = tty
  /\ Now.auth = auth /\ Now.leaked = leaked /\ Now.told = told
  BY DEF Now

\* What is good of y is good of the state it becomes.
LEMMA Carry ==
  ASSUME NEW y, Good(y), Becomes(y), world' = world, peer' = peer
  PROVE  Good(Now)' /\ Now' = y
<1>1. Typed(y)
  BY DEF Good, Sound
<1>2. Now' = y
  BY <1>1 DEF Becomes, Now, Typed
<1>3. Good(y)'
  BY DEF Good, Sound, Typed, Listed, Holds, NextListed, ToldWell, Devices, NextPending, NoFaults, Authorized, Members,
     NoDevices, Fresh, NoDevice, Holding
<1> QED  BY <1>2, <1>3

\* A request or a signal that was served is a step of module Seat.
LEMMA ServedIsStep ==
  ASSUME NEW y, NEW c, IInv, Becomes(y), Now' = y, answered' \in Clients \cup {None},
         Served(Now, y, c) \/ (Yields(Now, y, c) /\ answered' = c)
  PROVE  [Broker!Next]_(Broker!vars)
<1>1. Good(y) /\ (Step(Now, y, c) \/ (Yields(Now, y, c) /\ answered' = c))
  BY DEF Served, Yields
<1>0. Broker!Heard
  BY DEF Broker!Heard
<1>2. Members(Now)' = Members(y) /\ Members(y) \subseteq Clients
  BY <1>1, MembersAre DEF Members, Good, Sound
<1>3. (Owes(y) <=> (seat.active # None /\ client[seat.active].st = "PendingDisable")')
      /\ seat'.active = y.seat.active
  BY DEF Becomes, Owes
<1>4. Owes(Now) <=> seat.active # None /\ client[seat.active].st = "PendingDisable"
  BY NowIs DEF Owes
<1>5. ASSUME Asks(Now, y, c) PROVE Broker!Ask
  BY <1>0, <1>2, <1>3, <1>4, <1>5, NowIs DEF Asks, Owes, Broker!Ask
<1>6. ASSUME Passes(Now, y) PROVE Broker!Pass
  BY <1>0, <1>2, <1>3, <1>4, <1>6, NowIs DEF Passes, Broker!Pass
<1>8. ASSUME Yields(Now, y, c), answered' = c PROVE Broker!Pass
  BY <1>0, <1>2, <1>3, <1>4, <1>8, NowIs DEF Yields, Broker!Pass
<1>7. ASSUME Attends(Now, y) PROVE Broker!Attend
  BY <1>0, <1>2, <1>3, <1>4, <1>7, NowIs DEF Attends, Broker!Attend
<1> QED  BY <1>1, <1>5, <1>6, <1>7, <1>8 DEF Step, Broker!Next

LEMMA Promise ==
  ASSUME NEW y, NEW c, IInv, Becomes(y), world' = world, peer' = peer, running' = running,
         answered' \in Clients \cup {None}, Served(Now, y, c) \/ (Yields(Now, y, c) /\ answered' = c)
  PROVE  IInv' /\ [Broker!Next]_(Broker!vars)
<1>1. Good(Now)' /\ Now' = y
  BY Carry DEF Served, Yields
<1>2. IInv'
  BY <1>1 DEF IInv, Peers
<1> QED  BY <1>1, <1>2, ServedIsStep

LEMMA RequestStep ==
  ASSUME NEW c \in Clients, IInv, world' = world, world \in World,
         \/ Request(c) /\ answered' = None
         \/ DisableSeat(c) /\ answered' = IF seat.active = c THEN c ELSE None
  PROVE  IInv' /\ [Broker!Next]_(Broker!vars)
<1> DEFINE x == Now
           Does(y) == Becomes(y) /\ peer' = peer /\ running' = running
<1>0. Good(x) /\ x.client = client
  BY NowIs DEF IInv
<1>1. /\ \A y : Served(x, y, c) /\ Does(y) => IInv' /\ [Broker!Next]_(Broker!vars)
      /\ \A y : Yields(x, y, c) /\ answered' = c /\ Does(y) => IInv' /\ [Broker!Next]_(Broker!vars)
  BY Promise
<1>2. \A f \in world.faults : Served(x, Destroy(x, c, f), c)
  BY <1>0, Unserved, Replies
<1> HIDE DEF x
<1>3. ASSUME NEW f \in world.faults, NEW y, c \in Members(x) => Served(x, y, c)
      PROVE  Served(x, Seated(x, c, f, y), c)
  BY <1>2, <1>3 DEF Seated
<1>4. CASE OpenSeat(c)
  <2>1. PICK f \in world.faults : Does(HandleOpenSeat(x, c, f)) /\ client[c].conn = "up"
    BY <1>4 DEF OpenSeat, Serving, x
  <2>2. Served(x, HandleOpenSeat(x, c, f), c)
    BY <1>0, <2>1, OpenSeatOf
  <2> HIDE DEF Does
  <2> QED  BY <1>1, <2>1, <2>2
<1>5. CASE CloseSeat(c)
  <2>1. PICK f \in world.faults : Does(Seated(x, c, f, HandleCloseSeat(x, c, f)))
    BY <1>5 DEF CloseSeat, Serving, x
  <2>2. Served(x, Seated(x, c, f, HandleCloseSeat(x, c, f)), c)
    BY <1>0, <1>3, CloseSeatOf
  <2> HIDE DEF Does
  <2> QED  BY <1>1, <2>1, <2>2
<1>6. CASE DisableSeat(c) /\ answered' = IF seat.active = c THEN c ELSE None
  <2>1. PICK f \in world.faults : Does(Seated(x, c, f, HandleDisableSeat(x, c, f)))
    BY <1>6 DEF DisableSeat, Serving, x
  <2>2. CASE c \in Members(x)
    <3>1. Does(HandleDisableSeat(x, c, f))
      BY <2>1, <2>2 DEF Seated
    <3>2. Served(x, HandleDisableSeat(x, c, f), c) \/ Yields(x, HandleDisableSeat(x, c, f), c)
      BY <1>0, <2>2, DisableSeatOf
    <3>3. Yields(x, HandleDisableSeat(x, c, f), c) => answered' = c
      BY <1>6, NowIs DEF Yields, x
    <3> HIDE DEF Does
    <3> QED  BY <1>1, <3>1, <3>2, <3>3
  <2>3. CASE c \notin Members(x)
    <3>1. Does(Destroy(x, c, f))
      BY <2>1, <2>3 DEF Seated
    <3> HIDE DEF Does
    <3> QED  BY <1>1, <1>2, <3>1
  <2> QED  BY <2>2, <2>3
<1>7. CASE BadFrame(c)
  <2>1. PICK f \in world.faults : Does(Destroy(x, c, f))
    BY <1>7 DEF BadFrame, Serving, x
  <2> HIDE DEF Does
  <2> QED  BY <1>1, <1>2, <2>1
<1>8. ASSUME NEW p \in world.paths, OpenDevice(c, p)
      PROVE  IInv' /\ [Broker!Next]_(Broker!vars)
  <2>0. p \in Paths
    BY DEF World
  <2>1. PICK f \in world.faults : Does(Seated(x, c, f, HandleOpenDevice(x, c, p, f)))
    BY <1>8 DEF OpenDevice, Serving, x
  <2>2. x.client[c].dev[p].ref < MaxRef
    BY <1>0, <1>8 DEF OpenDevice
  <2>3. Served(x, Seated(x, c, f, HandleOpenDevice(x, c, p, f)), c)
    BY <1>0, <1>3, <2>0, <2>2, OpenDeviceOf
  <2> HIDE DEF Does
  <2> QED  BY <1>1, <2>1, <2>3
<1>9. ASSUME NEW p \in world.paths, CloseDevice(c, p)
      PROVE  IInv' /\ [Broker!Next]_(Broker!vars)
  <2>0. p \in Paths
    BY DEF World
  <2>1. PICK f \in world.faults : Does(Seated(x, c, f, HandleCloseDevice(x, c, p, f)))
    BY <1>9 DEF CloseDevice, Serving, x
  <2>2. Served(x, Seated(x, c, f, HandleCloseDevice(x, c, p, f)), c)
    BY <1>0, <1>3, <2>0, CloseDeviceOf
  <2> HIDE DEF Does
  <2> QED  BY <1>1, <2>1, <2>2
<1>10. ASSUME NEW n \in world.targets, SwitchSession(c, n)
       PROVE  IInv' /\ [Broker!Next]_(Broker!vars)
  <2>1. PICK f \in world.faults : Does(Seated(x, c, f, HandleSwitchSession(x, c, n, f)))
    BY <1>10 DEF SwitchSession, Serving, x
  <2>2. Served(x, Seated(x, c, f, HandleSwitchSession(x, c, n, f)), c)
    BY <1>0, <1>3, SwitchSessionOf
  <2> HIDE DEF Does
  <2> QED  BY <1>1, <2>1, <2>2
<1> QED  BY <1>4, <1>5, <1>6, <1>7, <1>8, <1>9, <1>10 DEF Request

\* The slot of a client that has left is free for the next connection.
LEMMA FreedOf ==
  ASSUME NEW x, Good(x), NEW c \in Clients, c \notin Members(x)
  PROVE  LET y == [x EXCEPT !.client[c] = Fresh, !.told[c] = "none"]
         IN Good(y) /\ y.seat = x.seat /\ (Owes(y) <=> Owes(x)) /\ y.client[c] = Fresh
<1> DEFINE y == [x EXCEPT !.client[c] = Fresh, !.told[c] = "none"]
<1>0. Typed(x) /\ Sound(x, {}) /\ Members(x) \subseteq Clients
  BY MembersAre DEF Good, Sound
<1>1. Fresh \in Slots /\ Fresh.st = "New" /\ Fresh.session = -1 /\ Fresh.dev = NoDevices /\ \A p \in Paths : ~Fresh.dev[p].active
  BY SeatdAssumption DEF Fresh, Slots, States, Device, NoDevice, NoDevices
<1>2. y = [x EXCEPT !.client = [x.client EXCEPT ![c] = Fresh], !.told = [x.told EXCEPT ![c] = "none"]]
  BY <1>0 DEF Typed
<1> HIDE DEF y
<1>3. /\ Typed(y) /\ y.seat = x.seat /\ y.auth = x.auth /\ y.leaked = x.leaked
      /\ \A d \in Clients \ {c} : y.client[d] = x.client[d] /\ y.told[d] = x.told[d]
      /\ y.client[c] = Fresh
  BY <1>0, <1>1, <1>2 DEF Typed
<1>4. Members(y) = Members(x)
  BY <1>3 DEF Members
<1>5. x.seat.active # c /\ x.seat.next # c
  BY <1>0, SeatdAssumption DEF Sound, Holds, NextListed
<1>6. Listed(y, {})
  BY <1>0, <1>1, <1>3, <1>4 DEF Sound, Listed
<1>7. Holds(y, {})
  BY <1>0, <1>1, <1>3, <1>4, <1>5 DEF Sound, Holds, Holding
<1>8. NextListed(y) /\ NextPending(y) /\ (Owes(y) <=> Owes(x))
  <2>1. x.seat.active \in Clients \cup {None} /\ x.seat.next \in Clients \cup {None}
    BY <1>0 DEF Typed, Seats
  <2> QED  BY <1>0, <1>3, <1>4, <1>5, <2>1 DEF Good, Sound, NextListed, NextPending, Owes
<1>9. ToldWell(y)
  BY <1>0, <1>1, <1>3 DEF Sound, ToldWell
<1>10. Devices(y, Authorized(y, {}))
  <2>1. Authorized(y, {}) = Authorized(x, {})
    BY <1>0, <1>1, <1>3, <1>5 DEF Authorized, Sound, Holds, Holding
  <2>2. \A d \in Clients, p \in Paths : y.client[d].dev[p].active <=> x.client[d].dev[p].active
    <3>1. x.client[c].dev = NoDevices
      BY <1>0 DEF Sound, Listed
    <3> QED  BY <1>1, <1>3, <3>1
  <2> QED  BY <1>0, <1>3, <2>1, <2>2 DEF Sound, Devices
<1> QED  BY <1>3, <1>6, <1>7, <1>8, <1>9, <1>10 DEF Good, Sound, y

\* A state that stays good when only peers change.
LEMMA PeersChange ==
  ASSUME NEW y, Good(y), Becomes(y), world' = world,
         ~world.slow => \A d \in Clients : peer'[d] # "gone" =>
           /\ peer'[d] = "ok"
           /\ y.client[d].st = "Active" => y.told[d] = "enabled"
           /\ y.client[d].st \in {"PendingDisable", "Disabled"} => y.told[d] = "disabled"
  PROVE  Good(Now)' /\ Now' = y
<1>1. Typed(y)
  BY DEF Good, Sound
<1>2. Now' = y
  BY <1>1 DEF Becomes, Now, Typed
<1>3. ToldWell(y)'
  BY DEF ToldWell
<1>4. Good(y)'
  BY <1>3 DEF Good, Sound, Typed, Listed, Holds, NextListed, Devices, NextPending, NoFaults, Authorized, Members,
     NoDevices, Fresh, NoDevice, Holding
<1> QED  BY <1>2, <1>4

\* Steps that the seat's sessions cannot see.
LEMMA Hidden ==
  ASSUME IInv, seat' = seat, \A d \in Clients : client'[d].st = client[d].st, answered' \in Clients \cup {None}
  PROVE  [Broker!Next]_(Broker!vars)
<1>1. Members(Now)' = Members(Now)
  BY NowIs DEF Members, Now
<1>2. seat.active # None => seat.active \in Clients
  BY NowIs DEF IInv, Good, Sound, Typed, Seats
<1>3. (seat.active # None /\ client[seat.active].st = "PendingDisable")'
      = (seat.active # None /\ client[seat.active].st = "PendingDisable")
  BY <1>2
<1>4. (seat.active = None \/ seat.active \in Members(Now)) /\ Members(Now) \subseteq Clients
  BY NowIs, MembersAre DEF IInv, Good, Sound, Holds
<1>5. Broker!Attend
  BY <1>1, <1>3, <1>4 DEF Broker!Attend, Broker!Heard
<1> QED  BY <1>5 DEF Broker!Next

LEMMA LoopStep ==
  ASSUME NEW c \in Clients, IInv, Loop(c), world' = world, answered' = None
  PROVE  IInv' /\ [Broker!Next]_(Broker!vars)
<1> DEFINE x == Now
<1>0. /\ Good(x) /\ x.client = client /\ x.told = told /\ Typed(x)
      /\ client \in [Clients -> Slots]
  BY NowIs DEF IInv, Good, Sound, Typed
<1>1. CASE Accept(c)
  <2> DEFINE y == [x EXCEPT !.client[c].conn = "up"]
  <2>1. Good(y) /\ y.seat = x.seat
    BY <1>0, ConnOf
  <2>2. Becomes(y)
    BY <1>1 DEF Accept, Becomes, Now
  <2>3. /\ \A d \in Clients : y.client[d].st = client[d].st
        /\ y.told = told
    BY <1>0 DEF Typed, Slots
  <2>4. client[c].st = "New"
    <3>1. client[c] = Fresh
      BY <1>0, <1>1 DEF Accept, Good, Sound, Listed
    <3> QED  BY <3>1 DEF Fresh
  <2>5. peer' = [peer EXCEPT ![c] = "ok"] /\ running' = running /\ seat' = seat
    BY <1>1 DEF Accept
  <2>6. ToldWell(x)
    BY <1>0 DEF Good, Sound
  <2> HIDE DEF y
  <2>7. ~world.slow => \A d \in Clients : peer'[d] # "gone" =>
          /\ peer'[d] = "ok"
          /\ y.client[d].st = "Active" => y.told[d] = "enabled"
          /\ y.client[d].st \in {"PendingDisable", "Disabled"} => y.told[d] = "disabled"
    BY <1>0, <2>3, <2>4, <2>5, <2>6 DEF ToldWell, IInv, Peers
  <2>8. Good(Now)' /\ Now' = y
    BY <2>1, <2>2, <2>7, PeersChange
  <2>9. IInv'
    BY <2>5, <2>8 DEF IInv, Peers
  <2>10. \A d \in Clients : client'[d].st = client[d].st
    BY <2>2, <2>3 DEF Becomes
  <2> QED  BY <2>5, <2>9, <2>10, Hidden
<1>2. CASE PollHup(c)
  <2>1. PICK f \in world.faults : Becomes(Destroy(x, c, f)) /\ peer' = peer /\ running' = running
    BY <1>2 DEF PollHup, Serving
  <2> HIDE DEF x
  <2>2. Served(x, Destroy(x, c, f), c)
    BY <1>0, Unserved, Replies
  <2> QED  BY <2>1, <2>2, Promise DEF x
<1>3. CASE ReadFails(c)
  <2> DEFINE y == [x EXCEPT !.client[c].conn = "dead"]
  <2>1. Good(y) /\ y.seat = x.seat /\ (Owes(y) <=> Owes(x))
    BY <1>0, ConnOf
  <2>2. Becomes(y)
    BY <1>3 DEF ReadFails, Becomes, Now
  <2> HIDE DEF y
  <2>3. Members(y) = Members(x)
    BY <2>1 DEF Members
  <2>4. Served(x, y, c)
    BY <1>0, <2>1, <2>3, Stays
  <2>5. peer' = peer /\ running' = running
    BY <1>3 DEF ReadFails
  <2> QED  BY <2>2, <2>4, <2>5, Promise
<1>4. CASE SweepDead(c)
  <2>1. PICK f \in world.faults : Becomes([Destroy(x, c, f) EXCEPT !.client[c] = Fresh, !.told[c] = "none"])
    BY <1>4 DEF SweepDead
  <2>2. peer' = [peer EXCEPT ![c] = "gone"] /\ running' = running
    BY <1>4 DEF SweepDead
  <2> DEFINE d == Destroy(x, c, f)
             y == [d EXCEPT !.client[c] = Fresh, !.told[c] = "none"]
  <2>3. Good(d) /\ Left(x, d, c)
    BY <1>0, DestroyOf
  <2> HIDE DEF d, x
  <2>4. c \notin Members(d)
    BY <2>3 DEF Left
  <2>5. Good(y) /\ y.seat = d.seat /\ (Owes(y) <=> Owes(d))
    BY <2>3, <2>4, FreedOf
  <2>6. Becomes(y)
    BY <2>1 DEF d
  <2> HIDE DEF y
  <2>7. Left(x, y, c)
    BY <2>3, <2>5 DEF Left, Members
  <2>8. Served(x, y, c)
    BY <1>0, <2>5, <2>7, Unserved, LeavesAfter DEF Served
  <2>9. \A e \in Clients : peer'[e] # "gone" => peer'[e] = peer[e]
    BY <2>2 DEF IInv, Peers
  <2>10. Good(Now)' /\ Now' = y
    BY <2>5, <2>6, <2>9, PeersChange DEF Good, Sound, ToldWell
  <2>11. IInv'
    BY <2>2, <2>10 DEF IInv, Peers
  <2> QED  BY <2>6, <2>8, <2>10, <2>11, ServedIsStep DEF x
<1>5. CASE FinishClient(c)
  <2>1. PICK f \in world.faults : Becomes(RemoveClient(x, c, f)) /\ peer' = peer /\ running' = running /\ c \in Members(x)
    BY <1>5 DEF FinishClient
  <2> HIDE DEF x
  <2>2. Served(x, RemoveClient(x, c, f), c)
    BY <1>0, <2>1, RemoveOf, Unserved, LeavesAfter DEF Served
  <2> QED  BY <2>1, <2>2, Promise DEF x
<1> QED  BY <1>1, <1>2, <1>3, <1>4, <1>5 DEF Loop

LEMMA SignalStep ==
  ASSUME IInv, Release \/ Acquire, world' = world, answered' = None
  PROVE  IInv' /\ [Broker!Next]_(Broker!vars)
<1>1. ASSUME NEW g, NEW y, NEW c, Served(Caught(Now, g), y, c)
      PROVE  Served(Now, y, c)
  <2> DEFINE x == Now
             z == Caught(x, g)
  <2>1. Good(z) /\ z.seat = x.seat /\ z.client = x.client
    BY CaughtOf DEF IInv
  <2> HIDE DEF x, z
  <2>2. Members(z) = Members(x) /\ (Owes(z) <=> Owes(x))
    BY <2>1 DEF Members, Owes
  <2> QED  BY <1>1, <2>1, <2>2 DEF Served, Step, Asks, Passes, Attends, x, z
<1>2. \A g : Good(Caught(Now, g)) /\ Caught(Now, g).seat = seat
  BY CaughtOf, NowIs DEF IInv
<1>3. CASE Release
  <2> DEFINE z == Caught(Now, "USR1")
  <2>1. PICK f \in world.faults : Becomes(VtRelease(z, f)) /\ peer' = peer /\ running' = running
    BY <1>3 DEF Release
  <2>2. Good(z)
    BY <1>2
  <2> HIDE DEF z
  <2>3. Served(z, VtRelease(z, f), z.seat.active)
    BY <2>2, ReleaseOf
  <2>4. Served(Now, VtRelease(z, f), z.seat.active)
    BY <1>1, <2>3 DEF z
  <2> QED  BY <2>1, <2>4, Promise
<1>4. CASE Acquire
  <2> DEFINE z == Caught(Now, "USR2")
  <2>1. PICK f \in world.faults : Becomes(VtAcquire(z, f)) /\ peer' = peer /\ running' = running
    BY <1>4 DEF Acquire
  <2>2. Good(z)
    BY <1>2
  <2> HIDE DEF z
  <2>3. Served(z, VtAcquire(z, f), None)
    BY <2>2, AcquireOf
  <2>4. Served(Now, VtAcquire(z, f), None)
    BY <1>1, <2>3 DEF z
  <2> QED  BY <2>1, <2>4, Promise
<1> QED  BY <1>3, <1>4

LEMMA WorldStep ==
  ASSUME IInv, world' = world, answered' = None,
         \/ Term
         \/ \E v \in Vts : UserSwitch(v)
         \/ \E c \in Clients : PeerChanges(c) \/ ProcessExits(c)
  PROVE  IInv' /\ [Broker!Next]_(Broker!vars)
<1> DEFINE x == Now
<1>0. Good(x) /\ Typed(x) /\ x.client = client /\ x.told = told
  BY NowIs DEF IInv, Good, Sound
<1>1. CASE Term
  <2>1. Becomes(x) /\ peer' = peer /\ running' = "no" /\ seat' = seat /\ client' = client
    BY <1>1 DEF Term, Becomes, Now
  <2>2. Good(Now)'
    BY <1>0, <2>1, Carry
  <2> QED  BY <2>1, <2>2, Hidden DEF IInv, Peers
<1>2. ASSUME NEW v \in Vts, UserSwitch(v)
      PROVE  IInv' /\ [Broker!Next]_(Broker!vars)
  <2> DEFINE t == SwitchWanted(tty, v)
             y == [x EXCEPT !.tty = t]
  <2>1. t \in Ttys
    BY <1>0, NowIs, SwitchOf DEF Typed
  <2>2. Becomes(y) /\ peer' = peer /\ running' = running
    BY <1>2 DEF UserSwitch, Becomes, Now
  <2> HIDE DEF t, x
  <2>3. Served(x, y, None)
    BY <1>0, <2>1, TtySet
  <2> HIDE DEF y
  <2> QED  BY <2>2, <2>3, Promise DEF x
<1>3. ASSUME NEW c \in Clients, PeerChanges(c)
      PROVE  IInv' /\ [Broker!Next]_(Broker!vars)
  <2>1. Becomes(x) /\ running' = running /\ seat' = seat /\ client' = client
    BY <1>3 DEF PeerChanges, Becomes, Now
  <2>2. /\ peer' \in Peers
        /\ ~world.slow => \A d \in Clients : peer'[d] # "gone" => peer'[d] = peer[d]
    <3>1. ~world.slow => peer[c] # "stuck"
      BY <1>0 DEF Good, Sound, ToldWell
    <3> QED  BY <1>3, <3>1 DEF PeerChanges, IInv, Peers
  <2>3. Good(Now)'
    BY <1>0, <2>1, <2>2, PeersChange DEF Good, Sound, ToldWell
  <2> QED  BY <2>1, <2>2, <2>3, Hidden DEF IInv, Peers
<1>4. ASSUME NEW c \in Clients, ProcessExits(c)
      PROVE  IInv' /\ [Broker!Next]_(Broker!vars)
  <2> DEFINE A == {a \in x.auth : a[1] # c}
             L == {a \in x.leaked : a[1] # c}
             y == [x EXCEPT !.auth = A, !.leaked = L]
  <2>1. Becomes(y) /\ peer' = peer /\ running' = running /\ seat' = seat /\ client' = client
    BY <1>4, NowIs DEF ProcessExits, Becomes, Now
  <2>2. \A p \in Paths : ~x.client[c].dev[p].active
    <3>1. client[c] = Fresh
      BY <1>0, <1>4 DEF ProcessExits, Good, Sound, Listed
    <3> QED  BY <1>0, <3>1 DEF Fresh, NoDevice
  <2>3. /\ A \subseteq x.auth /\ L \subseteq x.leaked /\ L \subseteq A
        /\ \A d \in Clients \ {c}, p \in Paths : /\ <<d, p>> \in A <=> <<d, p>> \in x.auth
                                                 /\ <<d, p>> \in L <=> <<d, p>> \in x.leaked
        /\ \A p \in Paths : <<c, p>> \notin A
    BY <1>0 DEF Typed
  <2> HIDE DEF A, L, x
  <2>4. /\ Typed(y) /\ y.client = x.client /\ y.seat = x.seat /\ y.told = x.told /\ y.auth = A /\ y.leaked = L
    BY <1>0, <2>3 DEF Typed
  <2> HIDE DEF y
  <2>5. Members(y) = Members(x) /\ Authorized(y, {}) = Authorized(x, {})
    BY <2>4 DEF Members, Authorized
  <2>6. Devices(y, Authorized(y, {}))
    BY <1>0, <2>2, <2>3, <2>4, <2>5 DEF Good, Sound, Devices
  <2>7. Listed(y, {})
    BY <1>0, <2>4, <2>5 DEF Good, Sound, Listed
  <2>8. Holds(y, {}) /\ NextListed(y) /\ NextPending(y) /\ ToldWell(y)
    BY <1>0, <2>4, <2>5 DEF Good, Sound, Holds, NextListed, NextPending, ToldWell
  <2>9. Good(y)
    BY <2>4, <2>6, <2>7, <2>8 DEF Good, Sound
  <2>10. Good(Now)'
    BY <2>1, <2>9, Carry
  <2> QED  BY <2>1, <2>10, Hidden DEF IInv, Peers
<1> QED  BY <1>1, <1>2, <1>3, <1>4

LEMMA InitGood ==
  ASSUME Init
  PROVE  IInv /\ Broker!Init /\ world \in World /\ answered \in Clients \cup {None}
<1>0. /\ client = [c \in Clients |-> Fresh] /\ told = [c \in Clients |-> "none"]
      /\ seat = [order |-> <<>>, active |-> None, next |-> None, curVt |-> 0]
      /\ auth = {} /\ leaked = {} /\ peer = [c \in Clients |-> "gone"] /\ running = "yes" /\ answered = None
  BY DEF Init
<1>1. /\ Fresh \in Slots /\ Fresh.st = "New" /\ Fresh.dev = NoDevices /\ \A p \in Paths : ~Fresh.dev[p].active
  BY SeatdAssumption DEF Fresh, Slots, States, Device, NoDevice, NoDevices
<1>2. tty \in Ttys
  BY SeatdAssumption DEF Init, Ttys
<1>3. Typed(Now)
  BY <1>0, <1>1, <1>2 DEF Typed, Now, Seats
<1>4. Members(Now) = {}
  BY <1>0, NowIs DEF Members
<1>5. Listed(Now, {})
  BY <1>0, <1>1, <1>4, NowIs DEF Listed
<1>6. Holds(Now, {}) /\ NextListed(Now) /\ NextPending(Now) /\ ToldWell(Now)
  BY <1>0, <1>1, NowIs, SeatdAssumption DEF Holds, Holding, NextListed, NextPending, ToldWell
<1>7. Devices(Now, Authorized(Now, {}))
  BY <1>0, <1>1, NowIs DEF Devices
<1>8. IInv
  BY <1>0, <1>3, <1>5, <1>6, <1>7 DEF IInv, Good, Sound, Peers
<1>9. Broker!Init
  <2>1. (seat.active # None /\ client[seat.active].st = "PendingDisable") = FALSE
    BY <1>0
  <2> QED  BY <1>0, <1>4, <2>1 DEF Broker!Init
<1> QED  BY <1>0, <1>8, <1>9, SeatdAssumption DEF Init

LEMMA NextGood ==
  ASSUME IInv, world \in World, answered \in Clients \cup {None}, [Next]_<<vars, answered, world>>
  PROVE  /\ IInv' /\ (world \in World)' /\ answered' \in Clients \cup {None}
         /\ [Broker!Next]_(Broker!vars)
<1>1. CASE UNCHANGED <<vars, answered, world>>
  <2>1. /\ Becomes(Now) /\ peer' = peer /\ running' = running /\ seat' = seat /\ client' = client /\ world' = world
        /\ answered' \in Clients \cup {None}
    BY <1>1 DEF vars, Becomes, Now
  <2>2. Served(Now, Now, None)
    BY Unserved DEF IInv
  <2> QED  BY <2>1, <2>2, Promise
<1>2. CASE Next
  <2>1. world' = world
    BY <1>2 DEF Next
  <2>2. ASSUME NEW c \in Clients, Request(c), answered' = None PROVE IInv' /\ [Broker!Next]_(Broker!vars)
    BY <2>1, <2>2, RequestStep
  <2>6. ASSUME NEW c \in Clients, DisableSeat(c), answered' = IF seat.active = c THEN c ELSE None
        PROVE IInv' /\ [Broker!Next]_(Broker!vars)
    BY <2>1, <2>6, RequestStep
  <2>3. ASSUME NEW c \in Clients, Loop(c), answered' = None PROVE IInv' /\ [Broker!Next]_(Broker!vars)
    BY <2>1, <2>3, LoopStep
  <2>4. ASSUME Release \/ Acquire, answered' = None PROVE IInv' /\ [Broker!Next]_(Broker!vars)
    BY <2>1, <2>4, SignalStep
  <2>5. ASSUME \/ Term
               \/ \E v \in Vts : UserSwitch(v)
               \/ \E c \in Clients : PeerChanges(c) \/ ProcessExits(c),
               answered' = None
        PROVE IInv' /\ [Broker!Next]_(Broker!vars)
    BY <2>1, <2>5, WorldStep
  <2>7. answered' \in Clients \cup {None}
    BY <1>2 DEF Next
  <2> QED  BY <1>2, <2>1, <2>2, <2>3, <2>4, <2>5, <2>6, <2>7 DEF Next
<1> QED  BY <1>1, <1>2

\* Every handler of session.rs and device.rs, and every step of peers and of the
\* terminal, leaves the seat, its clients, their devices and what they were told
\* in the state the next handler counts on.
THEOREM Invariant == Spec => [](IInv /\ world \in World /\ answered \in Clients \cup {None})
<1> DEFINE J == IInv /\ world \in World /\ answered \in Clients \cup {None}
<1>1. Init => J
  BY InitGood
<1>2. J /\ [Next]_<<vars, answered, world>> => J'
  BY NextGood
<1> HIDE DEF J
<1>3. Spec => []J
  BY <1>1, <1>2, PTL DEF Spec
<1> QED  BY <1>3 DEF J

-----------------------------------------------------------------------------
(* What the invariant is for. *)

\* The seat and its clients always agree (session.rs): one holder, which is in
\* the list; a next session that still waits; numbers that name one session;
\* clients that were told what they are.
THEOREM SeatIsSound == Spec => []SeatSound
<1>1. IInv /\ answered \in Clients \cup {None} => SeatSound
  <2> SUFFICES ASSUME IInv, answered \in Clients \cup {None} PROVE SeatSound
    OBVIOUS
  <2>0. Good(Now) /\ Sound(Now, {}) /\ Typed(Now) /\ Members(Now) \subseteq Clients
    BY MembersAre DEF IInv, Good, Sound
  <2>1. TypeOK
    <3>1. /\ client \in [Clients -> Slots] /\ seat \in Seats /\ tty \in Ttys
          /\ auth \subseteq Clients \X Paths /\ leaked \subseteq auth
          /\ told \in [Clients -> {"none", "enabled", "disabled"}]
      BY <2>0, NowIs DEF Typed
    <3>2. seat.order \in Seq(Clients) /\ seat \in [order : {seat.order}, active : Clients \cup {None},
               next : Clients \cup {None}, curVt : Vts \cup {0, -1}]
      BY <3>1 DEF Seats
    <3> QED  BY <3>1, <3>2 DEF TypeOK, Slots, Ttys, IInv, Peers
  <2>2. HolderExclusive
    BY <2>0, NowIs DEF HolderExclusive, Sound, Holds
  <2>3. NextWaits
    BY <2>0, NowIs DEF NextWaits, Good, Sound, NextListed, NextPending
  <2>4. SessionsDistinct
    BY <2>0, NowIs DEF SessionsDistinct, Sound, Listed
  <2>5. ToldMatchesState
    BY <2>0, NowIs DEF ToldMatchesState, Sound, ToldWell
  <2> QED  BY <2>1, <2>2, <2>3, <2>4, <2>5 DEF SeatSound
<1> QED  BY <1>1, Invariant, PTL

\* Authority over devices always goes with the seat (device.rs, session.rs),
\* through switches, failing ioctls and the end of the daemon.
THEOREM DevicesAlwaysFollow == Spec => []DevicesFollow
<1>1. IInv => DevicesFollow
  <2> SUFFICES ASSUME IInv PROVE DevicesFollow
    OBVIOUS
  <2>0. Sound(Now, {}) /\ Typed(Now) /\ Devices(Now, Authorized(Now, {}))
    BY DEF IInv, Good, Sound
  <2>1. AuthorityFollows
    <3> SUFFICES ASSUME NEW a \in auth, a \notin leaked PROVE client[a[1]].st = "Active"
      BY DEF AuthorityFollows
    <3>1. PICK c \in Clients, p \in Paths : a = <<c, p>>
      BY <2>0, NowIs DEF Typed
    <3>2. c \in Authorized(Now, {})
      BY <2>0, <3>1, NowIs DEF Devices
    <3> QED  BY <3>1, <3>2, NowIs DEF Authorized
  <2>2. MasterFollows
    BY <2>0, NowIs DEF MasterFollows, Devices, NoFaults, Paths
  <2>3. FinishesClean
    <3> SUFFICES ASSUME seat.order = <<>>
                 PROVE  auth = leaked /\ \A c \in Clients : client[c].dev = Fresh.dev
      BY DEF FinishesClean
    <3>1. Members(Now) = {}
      BY NowIs DEF Members
    <3>2. \A c \in Clients : client[c].dev = NoDevices
      BY <2>0, <3>1, NowIs DEF Sound, Listed
    <3>3. \A c \in Clients, p \in Paths : ~client[c].dev[p].active
      BY <3>2 DEF NoDevices, NoDevice
    <3>4. auth \subseteq leaked
      <4> SUFFICES ASSUME NEW a \in auth PROVE a \in leaked
        OBVIOUS
      <4>1. PICK c \in Clients, p \in Paths : a = <<c, p>>
        BY <2>0, NowIs DEF Typed
      <4> QED  BY <2>0, <3>3, <4>1, NowIs DEF Devices
    <3> QED  BY <2>0, <3>2, <3>4, NowIs DEF Typed, NoDevices, Fresh
  <2> QED  BY <2>1, <2>2, <2>3 DEF DevicesFollow
<1> QED  BY <1>1, Invariant, PTL

\* The daemon implements module Seat: one holder at a time, that loses the seat
\* only with its own DISABLE_SEAT after it was asked, when it leaves or hangs up,
\* and only to a member.
THEOREM Implements == Spec => KeepsPromise
<1>1. Init => Broker!Init
  BY InitGood
<1>2. (IInv /\ world \in World /\ answered \in Clients \cup {None}) /\ [Next]_<<vars, answered, world>>
        => [Broker!Next]_(Broker!vars)
  BY NextGood
<1> QED  BY <1>1, <1>2, Invariant, PTL DEF Spec, KeepsPromise, Broker!Spec

-----------------------------------------------------------------------------
(* The socket (SeatSocket): the startup lock is held from the bind to the    *)
(* listen, what is done under it never takes the path from a live daemon,    *)
(* and with -z nothing a start does ever takes it.                           *)

UnderLock == {"bind", "inuse", "kind", "reclaim", "rebind", "mode", "listen"}

\* The lock is free, or its holder is between the bind and the listen.
LockFreed == lock # Nothing => pc[lock] \in UnderLock

\* With -z everywhere nobody gets to the unlocked probe and unlink.
StrictAvoids == strict = Daemons => \A d \in Daemons : pc[d] \notin {"probe", "unlink"}

SocketInv == SocketTypeOK /\ LockHeld /\ LockFreed /\ StrictAvoids

LEMMA SocketInitially == SocketInit => SocketInv
  BY SocketAssumption
  DEF SocketInit, SocketInv, SocketTypeOK, LockHeld, LockFreed, StrictAvoids, UnderLock, Locations, Ended, Live, Listening

-----------------------------------------------------------------------------
(* One lemma for the steps outside the lock, one for those under it. *)

\* A process that looks at the path, or unlinks it, before it takes the lock.
LEMMA BeforeLock ==
  ASSUME SocketInv, NEW d \in Daemons, Inspect(d) \/ Probe(d) \/ Unlink(d) \/ Lock(d), UNCHANGED strict
  PROVE  SocketInv'
<1> USE SocketAssumption DEF SocketInv, Go
<1>1. CASE Inspect(d)
  <2>1. SocketTypeOK' BY <1>1 DEF Inspect, SocketTypeOK, Locations, Ended
  <2>2. LockHeld' BY <1>1 DEF Inspect, SocketTypeOK, LockHeld, Live, Listening
  <2>3. LockFreed' BY <1>1 DEF Inspect, SocketTypeOK, LockFreed, UnderLock
  <2>4. StrictAvoids' BY <1>1 DEF Inspect, SocketTypeOK, StrictAvoids
  <2> QED BY <2>1, <2>2, <2>3, <2>4
<1>2. CASE Probe(d)
  <2>1. SocketTypeOK' BY <1>2 DEF Probe, SocketTypeOK, Locations, Ended
  <2>2. LockHeld' BY <1>2 DEF Probe, SocketTypeOK, LockHeld, Live, Listening
  <2>3. LockFreed' BY <1>2 DEF Probe, SocketTypeOK, LockFreed, UnderLock
  <2>4. StrictAvoids' BY <1>2 DEF Probe, SocketTypeOK, StrictAvoids
  <2> QED BY <2>1, <2>2, <2>3, <2>4
<1>3. CASE Unlink(d)
  <2>1. SocketTypeOK' BY <1>3 DEF Unlink, SocketTypeOK, Locations, Ended
  <2>2. LockHeld' BY <1>3 DEF Unlink, SocketTypeOK, LockHeld, Live, Listening
  <2>3. LockFreed' BY <1>3 DEF Unlink, SocketTypeOK, LockFreed, UnderLock
  <2>4. StrictAvoids' BY <1>3 DEF Unlink, SocketTypeOK, StrictAvoids
  <2> QED BY <2>1, <2>2, <2>3, <2>4
<1>4. CASE Lock(d)
  <2>1. SocketTypeOK' BY <1>4 DEF Lock, SocketTypeOK, Locations, Ended
  <2>2. LockHeld' BY <1>4 DEF Lock, SocketTypeOK, LockHeld, Live, Listening
  <2>3. LockFreed' BY <1>4 DEF Lock, SocketTypeOK, LockFreed, UnderLock
  <2>4. StrictAvoids' BY <1>4 DEF Lock, SocketTypeOK, StrictAvoids
  <2> QED BY <2>1, <2>2, <2>3, <2>4
<1> QED BY <1>1, <1>2, <1>3, <1>4

\* A process that holds the lock.  Nobody else is under it, so what it found
\* there still holds.
LEMMA UnderTheLock ==
  ASSUME SocketInv, NEW d \in Daemons, UNCHANGED strict,
         Bind(d) \/ ProbeInUse(d) \/ Kind(d) \/ Reclaim(d) \/ Rebind(d) \/ ChangeMode(d) \/ Listen(d)
  PROVE  SocketInv'
<1> USE SocketAssumption DEF SocketInv, Go, Unlocked
<1>1. CASE Bind(d)
  <2>1. SocketTypeOK' BY <1>1 DEF Bind, SocketTypeOK, Locations, Ended
  <2>2. LockHeld' BY <1>1 DEF Bind, SocketTypeOK, LockHeld, Live, Listening
  <2>3. LockFreed' BY <1>1 DEF Bind, SocketTypeOK, LockFreed, UnderLock
  <2>4. StrictAvoids' BY <1>1 DEF Bind, SocketTypeOK, StrictAvoids
  <2> QED BY <2>1, <2>2, <2>3, <2>4
<1>2. CASE ProbeInUse(d)
  <2>1. SocketTypeOK' BY <1>2 DEF ProbeInUse, SocketTypeOK, Locations, Ended
  <2>2. LockHeld' BY <1>2 DEF ProbeInUse, SocketTypeOK, LockHeld, Live, Listening
  <2>3. LockFreed' BY <1>2 DEF ProbeInUse, SocketTypeOK, LockFreed, LockHeld, UnderLock
  <2>4. StrictAvoids' BY <1>2 DEF ProbeInUse, SocketTypeOK, StrictAvoids
  <2> QED BY <2>1, <2>2, <2>3, <2>4
<1>3. CASE Kind(d)
  <2>1. SocketTypeOK' BY <1>3 DEF Kind, SocketTypeOK, Locations, Ended
  <2>2. LockHeld' BY <1>3 DEF Kind, SocketTypeOK, LockHeld, Live, Listening
  <2>3. LockFreed' BY <1>3 DEF Kind, SocketTypeOK, LockFreed, LockHeld, UnderLock
  <2>4. StrictAvoids' BY <1>3 DEF Kind, SocketTypeOK, StrictAvoids
  <2> QED BY <2>1, <2>2, <2>3, <2>4
<1>4. CASE Reclaim(d)
  <2>1. SocketTypeOK' BY <1>4 DEF Reclaim, SocketTypeOK, Locations, Ended
  <2>2. LockHeld' BY <1>4 DEF Reclaim, SocketTypeOK, LockHeld, Live, Listening
  <2>3. LockFreed' BY <1>4 DEF Reclaim, SocketTypeOK, LockFreed, LockHeld, UnderLock
  <2>4. StrictAvoids' BY <1>4 DEF Reclaim, SocketTypeOK, StrictAvoids
  <2> QED BY <2>1, <2>2, <2>3, <2>4
<1>5. CASE Rebind(d)
  <2>1. SocketTypeOK' BY <1>5 DEF Rebind, SocketTypeOK, Locations, Ended
  <2>2. LockHeld' BY <1>5 DEF Rebind, SocketTypeOK, LockHeld, Live, Listening
  <2>3. LockFreed' BY <1>5 DEF Rebind, SocketTypeOK, LockFreed, LockHeld, UnderLock
  <2>4. StrictAvoids' BY <1>5 DEF Rebind, SocketTypeOK, StrictAvoids
  <2> QED BY <2>1, <2>2, <2>3, <2>4
<1>6. CASE ChangeMode(d)
  <2>1. SocketTypeOK' BY <1>6 DEF ChangeMode, SocketTypeOK, Locations, Ended
  <2>2. LockHeld' BY <1>6 DEF ChangeMode, SocketTypeOK, LockHeld, Live, Listening
  <2>3. LockFreed' BY <1>6 DEF ChangeMode, SocketTypeOK, LockFreed, LockHeld, UnderLock
  <2>4. StrictAvoids' BY <1>6 DEF ChangeMode, SocketTypeOK, StrictAvoids
  <2> QED BY <2>1, <2>2, <2>3, <2>4
<1>7. CASE Listen(d)
  <2>1. SocketTypeOK' BY <1>7 DEF Listen, SocketTypeOK, Locations, Ended
  <2>2. LockHeld' BY <1>7 DEF Listen, SocketTypeOK, LockHeld, Live, Listening
  <2>3. LockFreed' BY <1>7 DEF Listen, SocketTypeOK, LockFreed, LockHeld, UnderLock
  <2>4. StrictAvoids' BY <1>7 DEF Listen, SocketTypeOK, StrictAvoids
  <2> QED BY <2>1, <2>2, <2>3, <2>4
<1> QED BY <1>1, <1>2, <1>3, <1>4, <1>5, <1>6, <1>7

\* A process that has started, or that is killed.
LEMMA AfterLock ==
  ASSUME SocketInv, NEW d \in Daemons, UNCHANGED strict,
         Capture(d) \/ Stop(d) \/ Compare(d) \/ Remove(d) \/ Kill(d)
  PROVE  SocketInv'
<1> USE SocketAssumption DEF SocketInv, Go, Unlocked
<1>1. CASE Capture(d)
  <2>1. SocketTypeOK' BY <1>1 DEF Capture, SocketTypeOK, Locations, Ended
  <2>2. LockHeld' BY <1>1 DEF Capture, SocketTypeOK, LockHeld, Live, Listening
  <2>3. LockFreed' BY <1>1 DEF Capture, SocketTypeOK, LockFreed, UnderLock
  <2>4. StrictAvoids' BY <1>1 DEF Capture, SocketTypeOK, StrictAvoids
  <2> QED BY <2>1, <2>2, <2>3, <2>4
<1>2. CASE Stop(d)
  <2>1. SocketTypeOK' BY <1>2 DEF Stop, SocketTypeOK, Locations, Ended
  <2>2. LockHeld' BY <1>2 DEF Stop, SocketTypeOK, LockHeld, Live, Listening
  <2>3. LockFreed' BY <1>2 DEF Stop, SocketTypeOK, LockFreed, UnderLock
  <2>4. StrictAvoids' BY <1>2 DEF Stop, SocketTypeOK, StrictAvoids
  <2> QED BY <2>1, <2>2, <2>3, <2>4
<1>3. CASE Compare(d)
  <2>1. SocketTypeOK' BY <1>3 DEF Compare, SocketTypeOK, Locations, Ended
  <2>2. LockHeld' BY <1>3 DEF Compare, SocketTypeOK, LockHeld, Live, Listening
  <2>3. LockFreed' BY <1>3 DEF Compare, SocketTypeOK, LockFreed, UnderLock
  <2>4. StrictAvoids' BY <1>3 DEF Compare, SocketTypeOK, StrictAvoids
  <2> QED BY <2>1, <2>2, <2>3, <2>4
<1>4. CASE Remove(d)
  <2>1. SocketTypeOK' BY <1>4 DEF Remove, SocketTypeOK, Locations, Ended
  <2>2. LockHeld' BY <1>4 DEF Remove, SocketTypeOK, LockHeld, Live, Listening
  <2>3. LockFreed' BY <1>4 DEF Remove, SocketTypeOK, LockFreed, UnderLock
  <2>4. StrictAvoids' BY <1>4 DEF Remove, SocketTypeOK, StrictAvoids
  <2> QED BY <2>1, <2>2, <2>3, <2>4
<1>5. CASE Kill(d)
  <2>1. SocketTypeOK' BY <1>5 DEF Kill, SocketTypeOK, Locations, Ended
  <2>2. LockHeld' BY <1>5 DEF Kill, SocketTypeOK, LockHeld, Live, Listening
  <2>3. LockFreed' BY <1>5 DEF Kill, SocketTypeOK, LockFreed, UnderLock
  <2>4. StrictAvoids' BY <1>5 DEF Kill, SocketTypeOK, StrictAvoids
  <2> QED BY <2>1, <2>2, <2>3, <2>4
<1> QED BY <1>1, <1>2, <1>3, <1>4, <1>5

LEMMA SocketSteps == SocketInv /\ [SocketNext]_<<socketVars, strict>> => SocketInv'
<1> SUFFICES ASSUME SocketInv, [SocketNext]_<<socketVars, strict>> PROVE SocketInv' OBVIOUS
<1>1. CASE UNCHANGED <<socketVars, strict>>
  BY <1>1 DEF socketVars, SocketInv, SocketTypeOK, LockHeld, LockFreed, StrictAvoids, Live, Listening
<1>2. CASE SocketNext
  <2> PICK d \in Daemons : Startup(d) \/ Shutdown(d) \/ Kill(d) BY <1>2 DEF SocketNext
  <2>1. UNCHANGED strict BY <1>2 DEF SocketNext
  <2> QED BY <2>1, BeforeLock, UnderTheLock, AfterLock DEF Startup, Shutdown
<1> QED BY <1>1, <1>2

\* The invariant of the lock and the path, for any number of processes.
THEOREM SocketInvariant == SocketSpec => []SocketInv
  BY SocketInitially, SocketSteps, PTL DEF SocketSpec

-----------------------------------------------------------------------------
\* open_socket's lock is held by one process from its bind to its listen, what
\* it found stale stays stale, and the path it bound stays its own or goes.
THEOREM LockHolds == SocketSpec => []LockHeld
  BY SocketInvariant, PTL DEF SocketInv

\* Which steps change a path that a live daemon listens at: the unlocked unlink
\* of a start without -z, and the removal a shutdown ends with.
LEMMA LivePath ==
  ASSUME SocketInv, NEW d \in Daemons, Live, UNCHANGED strict,
         Startup(d) \/ Shutdown(d) \/ Kill(d)
  PROVE  \/ path' = path
         \/ pc[d] = "unlink"
         \/ pc[d] = "remove" /\ pc'[d] = "exit"
<1> USE SocketAssumption DEF SocketInv, Go
<1>1. CASE Startup(d)
  <2>1. CASE Inspect(d) \/ Probe(d) \/ Unlink(d) \/ Lock(d) BY <2>1 DEF Inspect, Probe, Unlink, Lock
  <2>2. CASE Bind(d) \/ Rebind(d) BY <2>2 DEF Bind, Rebind, Live
  <2>3. CASE ProbeInUse(d) \/ Kind(d) \/ Listen(d) \/ Capture(d)
    BY <2>3 DEF ProbeInUse, Kind, Listen, Capture
  <2>4. CASE Reclaim(d) BY <2>4 DEF Reclaim, LockHeld
  <2>5. CASE ChangeMode(d) BY <2>5 DEF ChangeMode, LockHeld, Live, Listening
  <2> QED BY <1>1, <2>1, <2>2, <2>3, <2>4, <2>5 DEF Startup
<1>2. CASE Shutdown(d) BY <1>2 DEF Shutdown, Stop, Compare, Remove, SocketTypeOK
<1>3. CASE Kill(d) BY <1>3 DEF Kill
<1> QED BY <1>1, <1>2, <1>3

\* A step moves one process only.
LEMMA OneMoves ==
  ASSUME SocketInv, NEW d \in Daemons, Startup(d) \/ Shutdown(d) \/ Kill(d),
         NEW e \in Daemons, pc'[e] # pc[e]
  PROVE  e = d
<1>1. \E l : pc' = [pc EXCEPT ![d] = l]
  BY DEF Startup, Shutdown, Kill, Go, Inspect, Probe, Unlink, Lock, Bind, ProbeInUse, Kind,
         Reclaim, Rebind, ChangeMode, Listen, Capture, Stop, Compare, Remove
<1> QED BY <1>1 DEF SocketInv, SocketTypeOK

\* What is done under the startup lock never removes a live socket.
THEOREM LockSpares == SocketSpec => LockedSpares
<1>1. SocketInv /\ [SocketNext]_<<socketVars, strict>> =>
        [lock # Nothing /\ pc'[lock] # pc[lock] /\ Live => path' = path]_socketVars
  <2> SUFFICES ASSUME SocketInv, SocketNext, lock # Nothing, pc'[lock] # pc[lock], Live
               PROVE  path' = path
    BY DEF socketVars
  <2> PICK d \in Daemons : Startup(d) \/ Shutdown(d) \/ Kill(d) BY DEF SocketNext
  <2>1. lock \in Daemons BY DEF SocketInv, SocketTypeOK
  <2>2. lock = d BY <2>1, OneMoves
  <2>3. pc[d] \in UnderLock BY <2>2 DEF SocketInv, LockFreed
  <2> QED BY <2>3, LivePath DEF SocketNext, UnderLock
<1> QED BY <1>1, SocketInvariant, PTL DEF SocketSpec, LockedSpares

\* With -z everywhere a start takes the path from no live daemon.
THEOREM StrictSpares == SocketSpec => StartupSpares
<1>1. SocketInv /\ [SocketNext]_<<socketVars, strict>> =>
        [strict = Daemons /\ Live =>
           path' = path \/ \E d \in Daemons : pc[d] = "remove" /\ pc'[d] = "exit"]_socketVars
  <2> SUFFICES ASSUME SocketInv, SocketNext, strict = Daemons, Live
               PROVE  path' = path \/ \E d \in Daemons : pc[d] = "remove" /\ pc'[d] = "exit"
    BY DEF socketVars
  <2> PICK d \in Daemons : Startup(d) \/ Shutdown(d) \/ Kill(d) BY DEF SocketNext
  <2>1. pc[d] # "unlink" BY DEF SocketInv, StrictAvoids
  <2> QED BY <2>1, LivePath DEF SocketNext
<1> QED BY <1>1, SocketInvariant, PTL DEF SocketSpec, StartupSpares

\* No start takes the path from a live daemon with -z or under the lock.
THEOREM LiveIsSpared == SocketSpec => LiveSpared
  BY LockSpares, StrictSpares, PTL DEF LiveSpared
=============================================================================
