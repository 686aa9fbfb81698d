---------------------------- MODULE BuildsProofs ----------------------------
(***************************************************************************)
(* Proofs about pm repo build for any plan, any number of builds and any   *)
(* bound on jobs, whatever fails or is killed.                             *)
(***************************************************************************)
EXTENDS Builds, FiniteSetTheorems, SequenceTheorems, TLAPS

Labels == {"none", "start", "lock", "commit", "payload", "receipt", "rename", "ok", "failed"}
Schedulers ==
  [pc : {"idle", "scan", "wait"}, pending : Seq(Nodes), waiting : Seq(Nodes), own : Nodes \cup {"none"},
   done : SUBSET Nodes, failed : BOOLEAN, end : {"none", "done", "failed", "stuck", "killed"}]

Typed ==
  /\ world \in Worlds
  /\ final \in [Nodes -> Dirs] /\ tmp \in [Nodes -> Dirs]
  /\ lock \in [Nodes -> {0} \cup Builders] /\ gc \subseteq Nodes /\ unsynced \subseteq Nodes /\ faults \in Nat
  /\ work \in [Builders -> [Nodes -> Labels]]
  /\ build \in [Builders -> Schedulers]

-----------------------------------------------------------------------------
(* Lists of nodes. *)

Before(q, i) == {q[j] : j \in 1 .. i - 1}
Distinct(q) == \A i, j \in 1 .. Len(q) : q[i] = q[j] => i = j

LEMMA TailOf ==
  ASSUME NEW q \in Seq(Nodes), q # <<>>
  PROVE  LET t == Tail(q)  n == Head(q)
         IN /\ t \in Seq(Nodes) /\ n \in Nodes /\ Len(q) >= 1 /\ q[1] = n /\ Len(t) = Len(q) - 1
            /\ \A i \in 1 .. Len(t) : t[i] = q[i + 1] /\ Before(q, i + 1) = {n} \cup Before(t, i)
            /\ Planned(q) = {n} \cup Planned(t)
            /\ Distinct(q) => Distinct(t) /\ n \notin Planned(t)
<1> DEFINE t == Tail(q)
           n == Head(q)
<1>1. /\ t \in Seq(Nodes) /\ n \in Nodes /\ Len(q) \in Nat /\ Len(q) >= 1 /\ q[1] = n /\ Len(t) = Len(q) - 1
      /\ \A i \in 1 .. Len(t) : t[i] = q[i + 1]
  OBVIOUS
<1> HIDE DEF t, n
<1>2. ASSUME NEW i \in 1 .. Len(t) PROVE Before(q, i + 1) = {n} \cup Before(t, i)
  <2>1. ASSUME NEW j \in 1 .. i PROVE q[j] \in {n} \cup Before(t, i)
    <3>1. CASE j = 1
      BY <1>1, <3>1
    <3>2. CASE j # 1
      <4>1. j - 1 \in 1 .. i - 1 /\ j - 1 \in 1 .. Len(t) /\ (j - 1) + 1 = j
        BY <1>1, <3>2
      <4> QED  BY <1>1, <4>1 DEF Before
    <3> QED  BY <3>1, <3>2
  <2>2. ASSUME NEW j \in 1 .. i - 1 PROVE t[j] \in Before(q, i + 1)
    <3>1. j \in 1 .. Len(t) /\ j + 1 \in 1 .. (i + 1) - 1
      BY <1>1
    <3> QED  BY <1>1, <3>1 DEF Before
  <2>3. n \in Before(q, i + 1)
    BY <1>1 DEF Before
  <2>4. (i + 1) - 1 = i
    BY <1>1
  <2> QED  BY <2>1, <2>2, <2>3, <2>4 DEF Before
<1>3. Planned(q) = {n} \cup Planned(t)
  <2>1. ASSUME NEW j \in 1 .. Len(q) PROVE q[j] \in {n} \cup Planned(t)
    <3>1. CASE j = 1
      BY <1>1, <3>1
    <3>2. CASE j # 1
      <4>1. j - 1 \in 1 .. Len(t) /\ (j - 1) + 1 = j
        BY <1>1, <3>2
      <4> QED  BY <1>1, <4>1 DEF Planned
    <3> QED  BY <3>1, <3>2
  <2>2. ASSUME NEW j \in 1 .. Len(t) PROVE t[j] \in Planned(q)
    <3>1. j + 1 \in 1 .. Len(q)
      BY <1>1
    <3> QED  BY <1>1, <3>1 DEF Planned
  <2>3. n \in Planned(q)
    BY <1>1 DEF Planned
  <2> QED  BY <2>1, <2>2, <2>3 DEF Planned
<1>4. ASSUME Distinct(q) PROVE Distinct(t) /\ n \notin Planned(t)
  <2>1. \A i \in 1 .. Len(t) : i + 1 \in 1 .. Len(q) /\ i + 1 # 1
    BY <1>1
  <2>2. 1 \in 1 .. Len(q)
    BY <1>1
  <2>3. n \notin Planned(t)
    BY <1>1, <1>4, <2>1, <2>2 DEF Distinct, Planned
  <2>4. ASSUME NEW i \in 1 .. Len(t), NEW j \in 1 .. Len(t), t[i] = t[j] PROVE i = j
    <3>1. i + 1 = j + 1
      BY <1>1, <1>4, <2>1, <2>4 DEF Distinct
    <3> QED  BY <1>1, <3>1
  <2> QED  BY <2>3, <2>4 DEF Distinct
<1> QED  BY <1>1, <1>2, <1>3, <1>4 DEF t, n

LEMMA AppendOf ==
  ASSUME NEW q \in Seq(Nodes), NEW n \in Nodes
  PROVE  LET a == Append(q, n)
         IN /\ a \in Seq(Nodes) /\ a # <<>> /\ Len(a) = Len(q) + 1
            /\ \A i \in 1 .. Len(q) : a[i] = q[i] /\ Before(a, i) = Before(q, i)
            /\ a[Len(q) + 1] = n /\ Before(a, Len(q) + 1) = Planned(q)
            /\ Planned(a) = Planned(q) \cup {n}
            /\ Distinct(q) /\ n \notin Planned(q) => Distinct(a)
<1> DEFINE a == Append(q, n)
<1>1. /\ a \in Seq(Nodes) /\ a # <<>> /\ Len(q) \in Nat /\ Len(a) = Len(q) + 1
      /\ \A i \in 1 .. Len(q) : a[i] = q[i]
      /\ a[Len(q) + 1] = n
  OBVIOUS
<1> HIDE DEF a
<1>2. ASSUME NEW i \in 1 .. Len(q) PROVE Before(a, i) = Before(q, i)
  <2>1. \A j \in 1 .. i - 1 : j \in 1 .. Len(q)
    BY <1>1
  <2> QED  BY <1>1, <2>1 DEF Before
<1>3. Before(a, Len(q) + 1) = Planned(q)
  <2>1. (Len(q) + 1) - 1 = Len(q)
    BY <1>1
  <2> QED  BY <1>1, <2>1 DEF Before, Planned
<1>4. Planned(a) = Planned(q) \cup {n}
  <2>1. \A j : j \in 1 .. Len(a) <=> j \in 1 .. Len(q) \/ j = Len(q) + 1
    BY <1>1
  <2> QED  BY <1>1, <2>1 DEF Planned
<1>5. ASSUME Distinct(q), n \notin Planned(q) PROVE Distinct(a)
  <2>1. \A j \in 1 .. Len(a) : j \in 1 .. Len(q) \/ j = Len(q) + 1
    BY <1>1
  <2> QED  BY <1>1, <1>5, <2>1 DEF Distinct, Planned
<1> QED  BY <1>1, <1>2, <1>3, <1>4, <1>5 DEF a

-----------------------------------------------------------------------------
(* The scheduler, in state s with the nodes of R running. *)

\* No node is in two places.
Apart(s, R) ==
  /\ Distinct(s.pending) /\ Distinct(s.waiting)
  /\ Planned(s.pending) \cap Planned(s.waiting) = {}
  /\ (Planned(s.pending) \cup Planned(s.waiting)) \cap R = {}

\* No node is lost; one that waits does so for nodes that are done, running or
\* before it in its list; and when one waits, some child runs.
Accounted(s, R) ==
  /\ Planned(world.order) = s.done \cup R \cup Planned(s.pending) \cup Planned(s.waiting)
  /\ \A i \in 1 .. Len(s.pending) :
       Deps[s.pending[i]] \subseteq s.done \cup R \cup Planned(s.waiting) \cup Before(s.pending, i)
  /\ \A i \in 1 .. Len(s.waiting) : Deps[s.waiting[i]] \subseteq s.done \cup R \cup Before(s.waiting, i)
  /\ s.waiting # <<>> => R \ {s.own} # {}

Plan(s, R) ==
  /\ s.end # "stuck"
  /\ s.end = "done" => s.pc = "idle" /\ s.done = Planned(world.order)
  /\ s.pc = "idle" => s.own = "none"
  /\ s.pc = "wait" => s.waiting = <<>> /\ s.own = "none"
  /\ s.own # "none" => s.own \in R
  /\ s.pc # "idle" =>
       /\ s.end = "none"
       /\ \A n \in s.done \cup R : Deps[n] \subseteq s.done
       /\ Apart(s, R)
       /\ ~s.failed => Accounted(s, R)

\* A plan names every node once, after those it waits for.
LEMMA OrderOf ==
  ASSUME NEW w \in Worlds
  PROVE  /\ w.order \in Seq(Nodes) /\ Distinct(w.order)
         /\ \A i \in 1 .. Len(w.order) : Deps[w.order[i]] \subseteq Before(w.order, i)
<1> DEFINE q == w.order
<1>1. w \in World
  BY BuildsAssumption
<1>2. q \in Seq(Nodes) /\ Len(q) \in Nat
  BY <1>1 DEF World
<1>3. ASSUME NEW i \in 1 .. Len(q) PROVE Planned(SubSeq(q, 1, i - 1)) = Before(q, i)
  <2> DEFINE t == SubSeq(q, 1, i - 1)
  <2>1. Len(t) = i - 1 /\ \A j \in 1 .. i - 1 : t[j] = q[j]
    <3>1. i - 1 \in 0 .. Len(q)
      BY <1>2
    <3>2. t \in Seq(Nodes) /\ Len(t) = (IF 1 <= i - 1 THEN i - 1 - 1 + 1 ELSE 0)
      BY <1>2, <3>1, SubSeqProperties
    <3>3. \A j \in 1 .. i - 1 - 1 + 1 : t[j] = q[1 + j - 1]
      BY <1>2, <3>1, SubSeqProperties
    <3>4. \A j \in 1 .. i - 1 : j \in 1 .. i - 1 - 1 + 1 /\ 1 + j - 1 = j
      BY <1>2
    <3> QED  BY <1>2, <3>2, <3>3, <3>4
  <2> HIDE DEF t
  <2>2. Planned(t) = Before(q, i)
    BY <2>1 DEF Planned, Before
  <2> QED  BY <2>2 DEF t
<1>4. \A i \in 1 .. Len(q) : Deps[q[i]] \subseteq Before(q, i) /\ q[i] \notin Before(q, i)
  <2>1. \A i \in 1 .. Len(w.order) :
          /\ Deps[w.order[i]] \subseteq Planned(SubSeq(w.order, 1, i - 1))
          /\ w.order[i] \notin Planned(SubSeq(w.order, 1, i - 1))
    BY Zenon, BuildsAssumption
  <2> QED  BY Zenon, <1>3, <2>1
<1> HIDE DEF q
<1>5. ASSUME NEW i \in 1 .. Len(q), NEW j \in 1 .. Len(q), q[i] = q[j] PROVE i = j
  <2>1. CASE i < j
    <3>1. i \in 1 .. j - 1
      BY <1>2, <2>1
    <3> QED  BY <1>4, <1>5, <3>1 DEF Before
  <2>2. CASE j < i
    <3>1. j \in 1 .. i - 1
      BY <1>2, <2>2
    <3> QED  BY <1>4, <1>5, <3>1 DEF Before
  <2> QED  BY <1>2, <2>1, <2>2
<1> QED  BY <1>2, <1>4, <1>5 DEF Distinct, q

LEMMA EmptyList ==
  Planned(<<>>) = {} /\ Distinct(<<>>) /\ Len(<<>>) = 0
  BY DEF Planned, Distinct

LEMMA IdleTyped ==
  /\ Idle \in Schedulers /\ Idle.pc = "idle" /\ Idle.own = "none" /\ Idle.done = {} /\ Idle.end = "none" /\ ~Idle.failed
  /\ Idle.pending = <<>> /\ Idle.waiting = <<>>
  BY DEF Idle, Schedulers

Begun == [Idle EXCEPT !.pc = "scan", !.pending = world.order]

LEMMA PlanBegins ==
  ASSUME world \in Worlds
  PROVE  Begun \in Schedulers /\ Plan(Begun, {})
<1> DEFINE s == Begun
<1>0. /\ world.order \in Seq(Nodes) /\ Distinct(world.order)
      /\ \A i \in 1 .. Len(world.order) : Deps[world.order[i]] \subseteq Before(world.order, i)
  BY OrderOf
<1>1. /\ s \in Schedulers /\ s.pc = "scan" /\ s.pending = world.order /\ s.waiting = <<>> /\ s.own = "none"
      /\ s.done = {} /\ s.end = "none" /\ ~s.failed
  BY <1>0, IdleTyped DEF Begun, Schedulers
<1> HIDE DEF s
<1>2. Apart(s, {})
  BY <1>0, <1>1, EmptyList DEF Apart
<1>3. Accounted(s, {})
  BY <1>0, <1>1, EmptyList DEF Accounted
<1>4. Plan(s, {})
  BY <1>1, <1>2, <1>3 DEF Plan
<1> QED  BY <1>1, <1>4 DEF s

Deferred(s) == [s EXCEPT !.pending = Tail(s.pending), !.waiting = Append(s.waiting, Head(s.pending))]

LEMMA PlanDefers ==
  ASSUME NEW s \in Schedulers, NEW R \in SUBSET Nodes, Plan(s, R),
         s.pc = "scan", s.own = "none", s.pending # <<>>,
         s.failed \/ ~(Deps[Head(s.pending)] \subseteq s.done) \/ R # {}
  PROVE  Deferred(s) \in Schedulers /\ Plan(Deferred(s), R)
<1> DEFINE n == Head(s.pending)
           t == Tail(s.pending)
           a == Append(s.waiting, n)
           u == Deferred(s)
<1>0. s.pending \in Seq(Nodes) /\ s.waiting \in Seq(Nodes) /\ Len(s.waiting) \in Nat
  BY DEF Schedulers
<1>1. /\ t \in Seq(Nodes) /\ n \in Nodes /\ Len(s.pending) >= 1 /\ s.pending[1] = n /\ Len(t) = Len(s.pending) - 1
      /\ \A i \in 1 .. Len(t) : t[i] = s.pending[i + 1] /\ Before(s.pending, i + 1) = {n} \cup Before(t, i)
      /\ Planned(s.pending) = {n} \cup Planned(t)
      /\ Distinct(s.pending) => Distinct(t) /\ n \notin Planned(t)
  BY <1>0, TailOf
<1>2. /\ a \in Seq(Nodes) /\ a # <<>> /\ Len(a) = Len(s.waiting) + 1
      /\ \A i \in 1 .. Len(s.waiting) : a[i] = s.waiting[i] /\ Before(a, i) = Before(s.waiting, i)
      /\ a[Len(s.waiting) + 1] = n /\ Before(a, Len(s.waiting) + 1) = Planned(s.waiting)
      /\ Planned(a) = Planned(s.waiting) \cup {n}
      /\ Distinct(s.waiting) /\ n \notin Planned(s.waiting) => Distinct(a)
  BY <1>0, <1>1, AppendOf
<1> HIDE DEF n, t, a
<1>3. u = [s EXCEPT !.pending = t, !.waiting = a]
  BY DEF Deferred, t, a, n
<1> HIDE DEF u
<1>4. /\ u \in Schedulers /\ u.pending = t /\ u.waiting = a /\ u.pc = s.pc /\ u.own = s.own
      /\ u.done = s.done /\ u.failed = s.failed /\ u.end = s.end
  BY <1>1, <1>2, <1>3 DEF Schedulers
<1>5. Apart(u, R)
  <2>1. Apart(s, R)
    BY DEF Plan
  <2> QED  BY <1>1, <1>2, <1>4, <2>1 DEF Apart
<1>6. ASSUME ~s.failed PROVE Accounted(u, R)
  <2>1. Accounted(s, R)
    BY <1>6 DEF Plan
  <2>2. Planned(world.order) = u.done \cup R \cup Planned(u.pending) \cup Planned(u.waiting)
    BY <1>1, <1>2, <1>4, <2>1 DEF Accounted
  <2>3. ASSUME NEW i \in 1 .. Len(t)
        PROVE  Deps[t[i]] \subseteq s.done \cup R \cup Planned(a) \cup Before(t, i)
    <3>1. i + 1 \in 1 .. Len(s.pending)
      BY <1>0, <1>1
    <3>2. Deps[s.pending[i + 1]] \subseteq s.done \cup R \cup Planned(s.waiting) \cup Before(s.pending, i + 1)
      BY <2>1, <3>1 DEF Accounted
    <3> QED  BY <1>1, <1>2, <3>2
  <2>4. Deps[n] \subseteq s.done \cup R \cup Planned(s.waiting)
    <3>1. Before(s.pending, 1) = {}
      BY DEF Before
    <3>2. 1 \in 1 .. Len(s.pending)
      BY <1>0, <1>1
    <3> QED  BY <1>1, <2>1, <3>1, <3>2 DEF Accounted
  <2>5. ASSUME NEW i \in 1 .. Len(a)
        PROVE  Deps[a[i]] \subseteq s.done \cup R \cup Before(a, i)
    <3>1. CASE i = Len(s.waiting) + 1
      BY <1>2, <2>4, <3>1
    <3>2. CASE i # Len(s.waiting) + 1
      <4>1. i \in 1 .. Len(s.waiting)
        BY <1>0, <1>2, <3>2
      <4> QED  BY <1>2, <2>1, <4>1 DEF Accounted
    <3> QED  BY <3>1, <3>2
  <2>6. R # {}
    <3>1. CASE s.waiting = <<>>
      BY <1>6, <2>4, <3>1, EmptyList DEF n
    <3>2. CASE s.waiting # <<>>
      BY <2>1, <3>2 DEF Accounted
    <3> QED  BY <3>1, <3>2
  <2>7. R \ {u.own} # {}
    BY <1>4, <2>6, BuildsAssumption
  <2> QED  BY <1>4, <2>2, <2>3, <2>5, <2>7 DEF Accounted
<1>7. Plan(u, R)
  BY <1>4, <1>5, <1>6 DEF Plan
<1> QED  BY <1>4, <1>7 DEF u

Launched(s, o) == [s EXCEPT !.pending = Tail(s.pending), !.own = o]

LEMMA PlanLaunches ==
  ASSUME NEW s \in Schedulers, NEW R \in SUBSET Nodes, Plan(s, R),
         s.pc = "scan", s.own = "none", s.pending # <<>>, ~s.failed, Deps[Head(s.pending)] \subseteq s.done,
         NEW o \in {Head(s.pending), "none"}
  PROVE  Launched(s, o) \in Schedulers /\ Plan(Launched(s, o), R \cup {Head(s.pending)})
<1> DEFINE n == Head(s.pending)
           t == Tail(s.pending)
           u == Launched(s, o)
           Q == R \cup {n}
<1>0. s.pending \in Seq(Nodes) /\ s.waiting \in Seq(Nodes)
  BY DEF Schedulers
<1>1. /\ t \in Seq(Nodes) /\ n \in Nodes /\ Len(s.pending) >= 1 /\ s.pending[1] = n /\ Len(t) = Len(s.pending) - 1
      /\ \A i \in 1 .. Len(t) : t[i] = s.pending[i + 1] /\ Before(s.pending, i + 1) = {n} \cup Before(t, i)
      /\ Planned(s.pending) = {n} \cup Planned(t)
      /\ Distinct(s.pending) => Distinct(t) /\ n \notin Planned(t)
  BY <1>0, TailOf
<1>2. o \in {n, "none"} /\ Deps[n] \subseteq s.done
  OBVIOUS
<1> HIDE DEF n, t
<1>3. u = [s EXCEPT !.pending = t, !.own = o]
  BY DEF Launched, t
<1> HIDE DEF u
<1>4. /\ u \in Schedulers /\ u.pending = t /\ u.waiting = s.waiting /\ u.pc = s.pc /\ u.own = o
      /\ u.done = s.done /\ u.failed = s.failed /\ u.end = s.end
  BY <1>1, <1>2, <1>3 DEF Schedulers
<1>5. Apart(s, R) /\ Accounted(s, R)
  BY DEF Plan
<1>6. Apart(u, Q)
  BY <1>1, <1>4, <1>5 DEF Apart
<1>7. Accounted(u, Q)
  <2>1. Planned(world.order) = u.done \cup Q \cup Planned(u.pending) \cup Planned(u.waiting)
    BY <1>1, <1>4, <1>5 DEF Accounted
  <2>2. ASSUME NEW i \in 1 .. Len(t)
        PROVE  Deps[t[i]] \subseteq s.done \cup Q \cup Planned(s.waiting) \cup Before(t, i)
    <3>1. i + 1 \in 1 .. Len(s.pending)
      BY <1>0, <1>1
    <3>2. Deps[s.pending[i + 1]] \subseteq s.done \cup R \cup Planned(s.waiting) \cup Before(s.pending, i + 1)
      BY <1>5, <3>1 DEF Accounted
    <3> QED  BY <1>1, <3>2
  <2>3. \A i \in 1 .. Len(s.waiting) : Deps[s.waiting[i]] \subseteq s.done \cup Q \cup Before(s.waiting, i)
    BY <1>5 DEF Accounted
  <2>4. s.waiting # <<>> => Q \ {o} # {}
    <3>1. n \notin R /\ "none" \notin R
      BY <1>1, <1>5, BuildsAssumption DEF Apart
    <3> QED  BY <1>2, <1>5, <3>1 DEF Accounted
  <2> QED  BY <1>4, <2>1, <2>2, <2>3, <2>4 DEF Accounted
<1>8. \A m \in u.done \cup Q : Deps[m] \subseteq u.done
  BY <1>2, <1>4 DEF Plan
<1>9. Plan(u, Q)
  BY <1>2, <1>4, <1>6, <1>7, <1>8 DEF Plan
<1> QED  BY <1>4, <1>9 DEF u, n

LEMMA PlanFinishes ==
  ASSUME NEW s \in Schedulers, NEW R \in SUBSET Nodes, Plan(s, R), NEW n \in R, s.pc # "idle",
         s.own = n \/ s.pc = "wait"
  PROVE  Finished(s, n) \in Schedulers /\ Plan(Finished(s, n), R \ {n})
<1> DEFINE u == Finished(s, n)
           Q == R \ {n}
<1>1. /\ u \in Schedulers /\ u.pending = s.pending /\ u.waiting = s.waiting /\ u.pc = "scan" /\ u.own = "none"
      /\ u.done = s.done \cup {n} /\ u.failed = s.failed /\ u.end = s.end
  BY DEF Finished, Schedulers
<1> HIDE DEF u
<1>2. s.end = "none" /\ Apart(s, R) /\ (~s.failed => Accounted(s, R)) /\ \A m \in s.done \cup R : Deps[m] \subseteq s.done
  BY DEF Plan
<1>3. Apart(u, Q)
  BY <1>1, <1>2 DEF Apart
<1>4. ASSUME ~s.failed PROVE Accounted(u, Q)
  <2>1. u.done \cup Q = s.done \cup R
    BY <1>1
  <2>2. s.waiting # <<>> => Q \ {"none"} # {}
    <3>1. CASE s.own = n
      BY <1>2, <1>4, <3>1, BuildsAssumption DEF Accounted
    <3>2. CASE s.pc = "wait"
      BY <3>2 DEF Plan
    <3> QED  BY <3>1, <3>2
  <2> QED  BY <1>1, <1>2, <1>4, <2>1, <2>2 DEF Accounted
<1>5. Plan(u, Q)
  BY <1>1, <1>2, <1>3, <1>4 DEF Plan
<1> QED  BY <1>1, <1>5 DEF u

Rescanned(s) == [s EXCEPT !.pc = "wait", !.pending = s.waiting, !.waiting = <<>>]

LEMMA PlanRescans ==
  ASSUME NEW s \in Schedulers, NEW R \in SUBSET Nodes, Plan(s, R), s.pc = "scan", s.own = "none",
         s.pending = <<>>
  PROVE  Rescanned(s) \in Schedulers /\ Plan(Rescanned(s), R)
<1> DEFINE u == Rescanned(s)
<1>1. /\ u \in Schedulers /\ u.pending = s.waiting /\ u.waiting = <<>> /\ u.pc = "wait" /\ u.own = s.own
      /\ u.done = s.done /\ u.failed = s.failed /\ u.end = s.end
  BY DEF Rescanned, Schedulers
<1> HIDE DEF u
<1>2. Apart(u, R)
  BY <1>1, EmptyList DEF Apart, Plan
<1>3. ~s.failed => Accounted(u, R)
  BY <1>1, EmptyList DEF Accounted, Plan
<1>4. Plan(u, R)
  BY <1>1, <1>2, <1>3 DEF Plan
<1> QED  BY <1>1, <1>4 DEF u

\* A build that ends.
Over(e, D) == [Idle EXCEPT !.end = e, !.done = D]

LEMMA PlanEnds ==
  ASSUME NEW s \in Schedulers, Plan(s, {}), s.pc = "scan", s.own = "none", s.pending = <<>>
  PROVE  LET u == Over(IF s.failed THEN "failed" ELSE IF s.waiting # <<>> THEN "stuck" ELSE "done", s.done)
         IN u \in Schedulers /\ \A R : Plan(u, R)
<1> DEFINE e == IF s.failed THEN "failed" ELSE IF s.waiting # <<>> THEN "stuck" ELSE "done"
           u == Over(e, s.done)
<1>1. e \in {"failed", "done"} /\ (e = "done" => ~s.failed /\ s.waiting = <<>>)
  BY DEF Plan, Accounted
<1>2. e = "done" => s.done = Planned(world.order)
  BY <1>1, EmptyList DEF Plan, Accounted
<1> HIDE DEF e
<1>3. u \in Schedulers /\ u.pc = "idle" /\ u.own = "none" /\ u.done = s.done /\ u.end = e
  BY <1>1, IdleTyped DEF Over, Schedulers
<1> HIDE DEF u
<1>4. \A R : Plan(u, R)
  BY <1>1, <1>2, <1>3 DEF Plan
<1> QED  BY <1>3, <1>4 DEF u, e

LEMMA PlanBroken ==
  ASSUME NEW e \in {"none", "failed", "killed"}
  PROVE  LET u == [Idle EXCEPT !.end = e]
         IN u \in Schedulers /\ u.pc = "idle" /\ \A R : Plan(u, R)
<1> DEFINE u == [Idle EXCEPT !.end = e]
<1>1. u \in Schedulers /\ u.pc = "idle" /\ u.own = "none" /\ u.end = e
  BY IdleTyped DEF Schedulers
<1> HIDE DEF u
<1>2. \A R : Plan(u, R)
  BY <1>1 DEF Plan
<1> QED  BY <1>1, <1>2 DEF u

Cancelled(s) == [s EXCEPT !.pc = "scan", !.failed = TRUE]

LEMMA PlanCancelled ==
  ASSUME NEW s \in Schedulers, NEW R, Plan(s, R), s.pc = "wait"
  PROVE  Cancelled(s) \in Schedulers /\ Cancelled(s).pc = "scan" /\ Cancelled(s).done = s.done /\ Plan(Cancelled(s), {})
<1> DEFINE u == Cancelled(s)
<1>1. /\ u \in Schedulers /\ u.pending = s.pending /\ u.waiting = s.waiting /\ u.pc = "scan" /\ u.own = s.own
      /\ u.done = s.done /\ u.failed /\ u.end = s.end
  BY DEF Cancelled, Schedulers
<1> HIDE DEF u
<1>2. Plan(u, {})
  BY <1>1 DEF Plan, Apart
<1> QED  BY <1>1, <1>2 DEF u

-----------------------------------------------------------------------------
(* The inductive invariant. *)

Staging == {"commit", "payload", "receipt", "rename"}

PlansHold == \A b \in Builders : Plan(build[b], Running(b))

\* Who stages an artifact has its lock, and what is staged so far is its own.
LocksHold ==
  \A b \in Builders, n \in Nodes : work[b][n] \in Staging => lock[n] = b

StagedOwn ==
  \A b \in Builders, n \in Nodes :
    tmp[n].there => /\ work[b][n] \in {"receipt", "rename"} => tmp[n].payload = b
                    /\ work[b][n] = "rename" => tmp[n].receipt = b

\* Nothing is built while garbage is collected, one directory after the other.
GcAlone ==
  /\ gc # {} => world.collects /\ Quiet
  /\ \A m, n \in gc : m = n

\* What a running build has, or believes to have, built is in the store.
Stored ==
  \A b \in Builders : build[b].pc # "idle" =>
    /\ \A n \in build[b].done : final[n].there
    /\ \A n \in Nodes : work[b][n] = "ok" => final[n].there

IInv ==
  /\ Typed /\ PlansHold /\ JobsBound
  /\ LocksHold /\ StagedOwn /\ GcAlone /\ Stored /\ FinalWhole

-----------------------------------------------------------------------------
(* Processes. *)

LEMMA RunningAre ==
  ASSUME NEW b
  PROVE  Running(b) \in SUBSET Nodes /\ IsFiniteSet(Running(b)) /\ Cardinality(Running(b)) \in Nat
<1>1. Running(b) \subseteq Nodes
  BY DEF Running
<1> QED  BY <1>1, BuildsAssumption, FS_Subset, FS_CardinalityType

LEMMA AtOf ==
  ASSUME Typed, NEW b \in Builders, NEW n \in Nodes, NEW l \in Labels, At(b, n, l)
  PROVE  /\ work' \in [Builders -> [Nodes -> Labels]]
         /\ work'[b][n] = l
         /\ \A m \in Nodes \ {n} : work'[b][m] = work[b][m]
         /\ \A c \in Builders \ {b} : work'[c] = work[c] /\ Running(c)' = Running(c)
         /\ l = "none" => Running(b)' = Running(b) \ {n}
         /\ l # "none" => Running(b)' = Running(b) \cup {n}
<1>1. /\ work' \in [Builders -> [Nodes -> Labels]]
      /\ work'[b][n] = l
      /\ \A m \in Nodes \ {n} : work'[b][m] = work[b][m]
      /\ \A c \in Builders \ {b} : work'[c] = work[c]
  BY DEF At, Typed
<1>2. \A c \in Builders \ {b} : Running(c)' = Running(c)
  BY <1>1 DEF Running
<1>3. l = "none" => Running(b)' = Running(b) \ {n}
  BY <1>1 DEF Running
<1>4. l # "none" => Running(b)' = Running(b) \cup {n}
  BY <1>1 DEF Running
<1> QED  BY <1>1, <1>2, <1>3, <1>4

\* A process that goes on, to the label l, disturbs no scheduler.
LEMMA GoesOn ==
  ASSUME IInv, NEW b \in Builders, NEW n \in Nodes, NEW l \in Labels \ {"none"}, work[b][n] # "none",
         At(b, n, l), build' = build, gc' = gc, world' = world
  PROVE  /\ \A c \in Builders : Running(c)' = Running(c)
         /\ PlansHold' /\ JobsBound' /\ GcAlone'
<1>1. \A c \in Builders : Running(c)' = Running(c)
  <2>1. n \in Running(b)
    BY DEF Running
  <2>2. Typed /\ l \in Labels /\ l # "none"
    BY DEF IInv
  <2>3. Running(b)' = Running(b) \cup {n} /\ \A c \in Builders \ {b} : Running(c)' = Running(c)
    BY <2>2, AtOf
  <2> QED  BY <2>1, <2>3
<1>2. PlansHold'
  BY <1>1 DEF IInv, PlansHold, Plan, Apart, Accounted
<1>3. JobsBound'
  BY <1>1 DEF IInv, JobsBound
<1>4. GcAlone'
  BY <1>1 DEF IInv, GcAlone, Quiet
<1> QED  BY <1>1, <1>2, <1>3, <1>4

LEMMA ReleaseOf ==
  ASSUME Typed, NEW b \in Builders, NEW n \in Nodes, Release(b, n)
  PROVE  /\ lock' \in [Nodes -> {0} \cup Builders]
         /\ \A m \in Nodes \ {n} : lock'[m] = lock[m]
         /\ lock[n] # b => lock'[n] = lock[n]
  BY DEF Release, Typed

LEMMA DirsAre ==
  /\ Absent \in Dirs /\ ~Absent.there
  /\ \A d \in Dirs : d.there \in BOOLEAN /\ (Whole(d) => Readable(d))
  BY BuildsAssumption DEF Absent, Dirs, Whole, Readable, Torn

LEMMA ProcessStep ==
  ASSUME IInv, NEW b \in Builders, NEW n \in Nodes, Process(b, n), world' = world
  PROVE  IInv'
<1>0. Typed /\ b # 0 /\ 0 \notin Builders
  BY BuildsAssumption DEF IInv
<1>1. CASE Begin(b, n)
  <2>1. PICK l \in {"ok", "failed", "lock"} : At(b, n, l) /\ (l = "ok" => final[n].there)
    BY <1>1 DEF Begin
  <2>2. /\ work[b][n] # "none"
        /\ UNCHANGED <<final, tmp, lock, build, gc, unsynced>> /\ (faults' = faults \/ faults' = faults + 1)
    BY <1>1 DEF Begin
  <2>3. l \in Labels /\ l # "none" /\ l \notin Staging
    BY DEF Labels, Staging
  <2>4. /\ work' \in [Builders -> [Nodes -> Labels]]
        /\ work'[b][n] = l
        /\ \A m \in Nodes \ {n} : work'[b][m] = work[b][m]
        /\ \A c \in Builders \ {b} : work'[c] = work[c]
    BY <1>0, <2>1, <2>3, AtOf
  <2>5. PlansHold' /\ JobsBound' /\ GcAlone'
    BY <2>1, <2>2, <2>3, GoesOn
  <2>6. Typed'
    BY <1>0, <2>2, <2>4 DEF Typed
  <2>7. LocksHold'
    BY <2>2, <2>3, <2>4 DEF IInv, LocksHold
  <2>8. StagedOwn'
    BY <2>1, <2>2, <2>4 DEF IInv, StagedOwn
  <2>9. Stored'
    BY <2>1, <2>2, <2>4 DEF IInv, Stored
  <2>10. FinalWhole'
    BY <2>2 DEF IInv, FinalWhole, StoreSafe
  <2> QED  BY <2>5, <2>6, <2>7, <2>8, <2>9, <2>10 DEF IInv
<1>2. CASE Acquire(b, n)
  <2>1. /\ At(b, n, "commit") /\ lock[n] = 0 /\ work[b][n] # "none" /\ lock' = [lock EXCEPT ![n] = b]
        /\ UNCHANGED <<final, tmp, build, gc, unsynced, faults>>
    BY <1>2 DEF Acquire
  <2>2. /\ work' \in [Builders -> [Nodes -> Labels]]
        /\ work'[b][n] = "commit"
        /\ \A m \in Nodes \ {n} : work'[b][m] = work[b][m]
        /\ \A c \in Builders \ {b} : work'[c] = work[c]
    BY <1>0, <2>1, AtOf DEF Labels
  <2>3. PlansHold' /\ JobsBound' /\ GcAlone'
    BY <2>1, GoesOn DEF Labels
  <2>4. /\ lock' \in [Nodes -> {0} \cup Builders] /\ lock'[n] = b
        /\ \A m \in Nodes \ {n} : lock'[m] = lock[m]
    BY <1>0, <2>1 DEF Typed
  <2>5. Typed'
    BY <1>0, <2>1, <2>2, <2>4 DEF Typed
  <2>6. LocksHold'
    <3>1. \A c \in Builders : work[c][n] \notin Staging
      BY <1>0, <2>1 DEF IInv, LocksHold
    <3> QED  BY <2>2, <2>4, <3>1 DEF IInv, LocksHold
  <2>7. StagedOwn'
    BY <2>1, <2>2 DEF IInv, StagedOwn
  <2>8. Stored'
    BY <2>1, <2>2 DEF IInv, Stored
  <2>9. FinalWhole'
    BY <2>1 DEF IInv, FinalWhole, StoreSafe
  <2> QED  BY <2>3, <2>5, <2>6, <2>7, <2>8, <2>9 DEF IInv
<1>3. CASE Commit(b, n)
  <2>1. lock[n] = b /\ \A c \in Builders \ {b} : work[c][n] \notin Staging
    BY <1>0, <1>3 DEF Commit, IInv, LocksHold, Staging
  <2>2. PICK l \in {"ok", "failed", "payload"} :
          /\ At(b, n, l)
          /\ l = "ok" => final[n].there
          /\ l \in {"ok", "failed"} => Release(b, n) /\ tmp' = tmp
          /\ l = "payload" => tmp' = [tmp EXCEPT ![n] = [Absent EXCEPT !.there = TRUE]] /\ lock' = lock
    BY <1>3 DEF Commit
  <2>3. work[b][n] # "none" /\ UNCHANGED <<final, build, gc, unsynced, faults>>
    BY <1>3 DEF Commit
  <2>4. l \in Labels /\ l # "none"
    BY DEF Labels
  <2>5. /\ work' \in [Builders -> [Nodes -> Labels]]
        /\ work'[b][n] = l
        /\ \A m \in Nodes \ {n} : work'[b][m] = work[b][m]
        /\ \A c \in Builders \ {b} : work'[c] = work[c]
    BY <1>0, <2>2, <2>4, AtOf
  <2>6. PlansHold' /\ JobsBound' /\ GcAlone'
    BY <2>2, <2>3, <2>4, GoesOn
  <2>7. /\ lock' \in [Nodes -> {0} \cup Builders] /\ \A m \in Nodes \ {n} : lock'[m] = lock[m]
        /\ l = "payload" => lock' = lock
    BY <1>0, <2>2, ReleaseOf DEF Typed
  <2>8. /\ tmp' \in [Nodes -> Dirs] /\ \A m \in Nodes \ {n} : tmp'[m] = tmp[m]
        /\ l # "payload" => tmp' = tmp
    <3>1. [Absent EXCEPT !.there = TRUE] \in Dirs
      BY BuildsAssumption DEF Absent, Dirs
    <3> QED  BY <1>0, <2>2, <3>1 DEF Typed
  <2>9. Typed'
    BY <1>0, <2>3, <2>5, <2>7, <2>8 DEF Typed
  <2>10. LocksHold'
    BY <2>1, <2>2, <2>5, <2>7 DEF IInv, LocksHold, Staging
  <2>11. StagedOwn'
    BY <2>1, <2>2, <2>5, <2>8 DEF IInv, StagedOwn, Staging
  <2>12. Stored'
    BY <2>2, <2>3, <2>5 DEF IInv, Stored
  <2>13. FinalWhole'
    BY <2>3 DEF IInv, FinalWhole, StoreSafe
  <2> QED  BY <2>6, <2>9, <2>10, <2>11, <2>12, <2>13 DEF IInv
<1>4. ASSUME NEW from, NEW part, NEW to, Stage(b, n, from, part, to),
             \/ from = "payload" /\ part = "payload" /\ to = "receipt"
             \/ from = "receipt" /\ part = "receipt" /\ to = "rename"
      PROVE  IInv'
  <2>1. lock[n] = b /\ \A c \in Builders \ {b} : work[c][n] \notin Staging
    BY <1>0, <1>4 DEF Stage, IInv, LocksHold, Staging
  <2>2. PICK l \in {"failed", to} :
          /\ At(b, n, l)
          /\ l = "failed" => Release(b, n) /\ tmp' = tmp
          /\ l # "failed" => tmp[n].there /\ tmp' = [tmp EXCEPT ![n][part] = b] /\ lock' = lock
    BY <1>4 DEF Stage
  <2>3. work[b][n] = from /\ from # "none" /\ UNCHANGED <<final, build, gc, unsynced, faults>>
    BY <1>4 DEF Stage
  <2>4. l \in Labels /\ l # "none" /\ l # "ok" /\ from \in Staging
    BY <1>4 DEF Labels, Staging
  <2>5. /\ work' \in [Builders -> [Nodes -> Labels]]
        /\ work'[b][n] = l
        /\ \A m \in Nodes \ {n} : work'[b][m] = work[b][m]
        /\ \A c \in Builders \ {b} : work'[c] = work[c]
    BY <1>0, <2>2, <2>4, AtOf
  <2>6. PlansHold' /\ JobsBound' /\ GcAlone'
    BY <2>2, <2>3, <2>4, GoesOn
  <2>7. /\ lock' \in [Nodes -> {0} \cup Builders] /\ \A m \in Nodes \ {n} : lock'[m] = lock[m]
        /\ l # "failed" => lock' = lock
    BY <1>0, <2>2, ReleaseOf DEF Typed
  <2>8. /\ tmp' \in [Nodes -> Dirs] /\ \A m \in Nodes \ {n} : tmp'[m] = tmp[m]
        /\ l = "failed" => tmp' = tmp
        /\ l = "receipt" => tmp'[n].payload = b
        /\ l = "rename" => tmp'[n].receipt = b /\ tmp'[n].payload = tmp[n].payload
    <3>0. tmp[n] \in Dirs
      BY <1>0 DEF Typed
    <3>1. CASE l = "failed"
      BY <1>0, <2>2, <3>1 DEF Typed
    <3>2. CASE l # "failed" /\ part = "payload"
      <4> DEFINE d == [tmp[n] EXCEPT !.payload = b]
      <4>1. d \in Dirs /\ d.payload = b
        BY <3>0 DEF Dirs
      <4>2. tmp' = [tmp EXCEPT ![n] = d]
        BY <1>4, <2>2, <3>2
      <4> QED  BY <1>0, <1>4, <2>2, <3>2, <4>1, <4>2 DEF Typed
    <3>3. CASE l # "failed" /\ part = "receipt"
      <4> DEFINE d == [tmp[n] EXCEPT !.receipt = b]
      <4>1. d \in Dirs /\ d.receipt = b /\ d.payload = tmp[n].payload
        BY <3>0 DEF Dirs
      <4>2. tmp' = [tmp EXCEPT ![n] = d]
        BY <1>4, <2>2, <3>3
      <4> QED  BY <1>0, <1>4, <2>2, <3>3, <4>1, <4>2 DEF Typed
    <3> QED  BY <1>4, <3>1, <3>2, <3>3
  <2>9. Typed'
    BY <1>0, <2>3, <2>5, <2>7, <2>8 DEF Typed
  <2>10. LocksHold'
    BY <2>1, <2>2, <2>5, <2>7 DEF IInv, LocksHold, Staging
  <2>11. StagedOwn'
    <3>1. l = "rename" => tmp[n].payload = b
      BY <1>4, <2>2, <2>3 DEF IInv, StagedOwn
    <3> QED  BY <1>4, <2>1, <2>2, <2>5, <2>8, <3>1 DEF IInv, StagedOwn, Staging
  <2>12. Stored'
    BY <2>3, <2>4, <2>5 DEF IInv, Stored
  <2>13. FinalWhole'
    BY <2>3 DEF IInv, FinalWhole, StoreSafe
  <2> QED  BY <2>6, <2>9, <2>10, <2>11, <2>12, <2>13 DEF IInv
<1>5. CASE Rename(b, n)
  <2>1. lock[n] = b /\ \A c \in Builders \ {b} : work[c][n] \notin Staging
    BY <1>0, <1>5 DEF Rename, IInv, LocksHold, Staging
  <2>2. PICK l \in {"ok", "failed"} :
          /\ At(b, n, l)
          /\ l = "ok" => /\ tmp[n].there /\ ~final[n].there /\ final' = [final EXCEPT ![n] = tmp[n]]
                         /\ unsynced' \in {unsynced \cup {n}, {}}
          /\ l = "failed" => final' = final /\ unsynced' = unsynced
    BY <1>5 DEF Rename
  <2>3. /\ work[b][n] = "rename" /\ UNCHANGED <<build, gc, faults>> /\ Release(b, n)
        /\ tmp' = [tmp EXCEPT ![n] = Absent]
    BY <1>5 DEF Rename
  <2>4. l \in Labels /\ l # "none" /\ l \notin Staging
    BY DEF Labels, Staging
  <2>5. /\ work' \in [Builders -> [Nodes -> Labels]]
        /\ work'[b][n] = l
        /\ \A m \in Nodes \ {n} : work'[b][m] = work[b][m]
        /\ \A c \in Builders \ {b} : work'[c] = work[c]
    BY <1>0, <2>2, <2>4, AtOf
  <2>6. PlansHold' /\ JobsBound' /\ GcAlone'
    BY <2>2, <2>3, <2>4, GoesOn
  <2>7. lock' \in [Nodes -> {0} \cup Builders] /\ \A m \in Nodes \ {n} : lock'[m] = lock[m]
    BY <1>0, <2>3, ReleaseOf
  <2>8. tmp' \in [Nodes -> Dirs] /\ ~tmp'[n].there /\ \A m \in Nodes \ {n} : tmp'[m] = tmp[m]
    BY <1>0, <2>3, DirsAre DEF Typed
  <2>9. /\ final' \in [Nodes -> Dirs] /\ \A m \in Nodes \ {n} : final'[m] = final[m]
        /\ l = "ok" => final'[n] = tmp[n] /\ tmp[n].there
        /\ l = "failed" => final' = final
    BY <1>0, <2>2 DEF Typed
  <2>10. unsynced' \subseteq Nodes
    BY <1>0, <2>2 DEF Typed
  <2>11. Typed'
    BY <1>0, <2>3, <2>5, <2>7, <2>8, <2>9, <2>10 DEF Typed
  <2>12. LocksHold'
    BY <2>1, <2>4, <2>5, <2>7 DEF IInv, LocksHold
  <2>13. StagedOwn'
    BY <2>5, <2>8 DEF IInv, StagedOwn
  <2>14. \A m \in Nodes : final[m].there => final'[m].there
    BY <2>2, <2>9
  <2>15. Stored'
    <3>1. \A c \in Builders, m \in Nodes : work'[c][m] = "ok" => work[c][m] = "ok" \/ (m = n /\ l = "ok")
      BY <2>5
    <3>2. l = "ok" => final'[n].there
      BY <2>9
    <3>3. \A c \in Builders : build[c].done \subseteq Nodes
      BY <1>0 DEF Typed, Schedulers
    <3> QED  BY <2>3, <2>14, <3>1, <3>2, <3>3 DEF IInv, Stored
  <2>16. FinalWhole'
    <3>1. l = "ok" => Whole(final'[n])
      BY <1>0, <2>3, <2>9 DEF IInv, StagedOwn, Whole
    <3> QED  BY <2>2, <2>3, <2>9, <3>1 DEF IInv, FinalWhole, StoreSafe
  <2> QED  BY <2>6, <2>11, <2>12, <2>13, <2>15, <2>16 DEF IInv
<1>6. CASE StageFails(b, n)
  <2>1. lock[n] = b /\ \A c \in Builders \ {b} : work[c][n] \notin Staging
    BY <1>0, <1>6 DEF StageFails, IInv, LocksHold, Staging
  <2>2. /\ At(b, n, "failed") /\ Release(b, n) /\ tmp' = [tmp EXCEPT ![n] = Absent] /\ faults' = faults + 1
        /\ work[b][n] # "none" /\ UNCHANGED <<final, build, gc, unsynced>>
    BY <1>6 DEF StageFails
  <2>3. "failed" \in Labels /\ "failed" \notin Staging
    BY DEF Labels, Staging
  <2>4. /\ work' \in [Builders -> [Nodes -> Labels]]
        /\ work'[b][n] = "failed"
        /\ \A m \in Nodes \ {n} : work'[b][m] = work[b][m]
        /\ \A c \in Builders \ {b} : work'[c] = work[c]
    BY <1>0, <2>2, <2>3, AtOf
  <2>5. PlansHold' /\ JobsBound' /\ GcAlone'
    BY <2>2, <2>3, GoesOn
  <2>6. lock' \in [Nodes -> {0} \cup Builders] /\ \A m \in Nodes \ {n} : lock'[m] = lock[m]
    BY <1>0, <2>2, ReleaseOf
  <2>7. tmp' \in [Nodes -> Dirs] /\ ~tmp'[n].there /\ \A m \in Nodes \ {n} : tmp'[m] = tmp[m]
    BY <1>0, <2>2, DirsAre DEF Typed
  <2>8. Typed'
    BY <1>0, <2>2, <2>4, <2>6, <2>7 DEF Typed
  <2>9. LocksHold'
    BY <2>1, <2>3, <2>4, <2>6 DEF IInv, LocksHold
  <2>10. StagedOwn'
    BY <2>1, <2>4, <2>7 DEF IInv, StagedOwn, Staging
  <2>11. Stored'
    BY <2>2, <2>4 DEF IInv, Stored
  <2>12. FinalWhole'
    BY <2>2 DEF IInv, FinalWhole, StoreSafe
  <2> QED  BY <2>5, <2>8, <2>9, <2>10, <2>11, <2>12 DEF IInv
<1> QED  BY <1>1, <1>2, <1>3, <1>4, <1>5, <1>6 DEF Process
-----------------------------------------------------------------------------
(* Schedulers. *)

\* A step of b or of a process of b that ends, starts or kills processes of b.
LEMMA BuildMoves ==
  ASSUME IInv, NEW b \in Builders, world' = world, gc = {}, UNCHANGED <<final, tmp, gc, unsynced>>, faults' \in Nat,
         NEW u \in Schedulers, build' = [build EXCEPT ![b] = u],
         work' \in [Builders -> [Nodes -> Labels]], \A c \in Builders \ {b} : work'[c] = work[c],
         \A m \in Nodes : work'[b][m] = work[b][m] \/ work'[b][m] \notin Staging,
         lock' \in [Nodes -> {0} \cup Builders],
         \A m \in Nodes : lock'[m] = lock[m] \/ (lock[m] = b /\ work'[b][m] \notin Staging),
         Plan(u, Running(b)'), Cardinality(Running(b)') <= Jobs,
         u.pc # "idle" => /\ \A m \in u.done : final[m].there
                          /\ \A m \in Nodes : work'[b][m] = "ok" => final[m].there
  PROVE  IInv'
<1>0. Typed
  BY DEF IInv
<1>1. /\ build' \in [Builders -> Schedulers] /\ build'[b] = u
      /\ \A c \in Builders \ {b} : build'[c] = build[c] /\ Running(c)' = Running(c)
  BY <1>0 DEF Typed, Running
<1>2. Typed'
  BY <1>0, <1>1 DEF Typed
<1>3. PlansHold'
  <2>1. \A c \in Builders : Plan(build'[c], Running(c)')
    BY <1>1 DEF IInv, PlansHold
  <2>2. ASSUME NEW s, NEW R, Plan(s, R) PROVE Plan(s, R)'
    BY <2>2 DEF Plan, Apart, Accounted
  <2>3. \A c \in Builders : Plan(build[c], Running(c))'
    BY <2>1, <2>2
  <2> QED  BY <2>3 DEF PlansHold
<1>4. JobsBound'
  BY <1>1 DEF IInv, JobsBound
<1>5. LocksHold'
  <2>1. ASSUME NEW c \in Builders, NEW m \in Nodes, work'[c][m] \in Staging PROVE lock'[m] = c
    <3>1. work'[c][m] = work[c][m]
      BY <2>1
    <3>2. lock[m] = c
      BY <2>1, <3>1 DEF IInv, LocksHold
    <3> QED  BY <2>1, <3>2
  <2> QED  BY <2>1 DEF LocksHold
<1>6. StagedOwn'
  <2>1. \A c \in Builders, m \in Nodes : work'[c][m] \in {"receipt", "rename"} => work'[c][m] = work[c][m]
    BY DEF Staging
  <2> QED  BY <2>1 DEF IInv, StagedOwn
<1>7. GcAlone'
  BY DEF GcAlone
<1>8. Stored'
  <2>1. ASSUME NEW c \in Builders, build'[c].pc # "idle"
        PROVE  /\ \A m \in build'[c].done : final'[m].there
               /\ \A m \in Nodes : work'[c][m] = "ok" => final'[m].there
    <3>1. CASE c = b
      BY <1>1, <2>1, <3>1
    <3>2. CASE c # b
      BY <1>1, <2>1, <3>2 DEF IInv, Stored
    <3> QED  BY <3>1, <3>2
  <2> QED  BY <2>1 DEF Stored
<1>9. FinalWhole'
  BY DEF IInv, FinalWhole, StoreSafe
<1> QED  BY <1>2, <1>3, <1>4, <1>5, <1>6, <1>7, <1>8, <1>9 DEF IInv

\* What IInv says of one build.
LEMMA BuildOf ==
  ASSUME IInv, NEW b \in Builders
  PROVE  /\ Typed /\ build[b] \in Schedulers /\ work[b] \in [Nodes -> Labels] /\ Plan(build[b], Running(b))
         /\ Running(b) \in SUBSET Nodes /\ IsFiniteSet(Running(b)) /\ Cardinality(Running(b)) \in Nat
         /\ Cardinality(Running(b)) <= Jobs
         /\ build[b].pc # "idle" \/ Running(b) # {} => gc = {}
         /\ build[b].own # "none" => build[b].pc # "idle" /\ build[b].own \in Running(b)
         /\ build[b].pc # "idle" => /\ \A m \in build[b].done : final[m].there
                                    /\ \A m \in Nodes : work[b][m] = "ok" => final[m].there
<1>1. Typed /\ Plan(build[b], Running(b)) /\ Cardinality(Running(b)) <= Jobs
  BY DEF IInv, PlansHold, JobsBound
<1>2. build[b] \in Schedulers /\ work[b] \in [Nodes -> Labels]
  BY <1>1 DEF Typed
<1>3. build[b].pc # "idle" \/ Running(b) # {} => gc = {}
  BY DEF IInv, GcAlone, Quiet
<1>4. build[b].own # "none" => build[b].pc # "idle" /\ build[b].own \in Running(b)
  BY <1>1 DEF Plan
<1>5. build[b].pc # "idle" => /\ \A m \in build[b].done : final[m].there
                              /\ \A m \in Nodes : work[b][m] = "ok" => final[m].there
  BY DEF IInv, Stored
<1> QED  BY <1>1, <1>2, <1>3, <1>4, <1>5, RunningAre

LEMMA StartStep ==
  ASSUME IInv, NEW b \in Builders, Start(b), world' = world
  PROVE  IInv'
<1>1. Typed /\ world \in Worlds /\ faults \in Nat
  BY DEF IInv, Typed
<1>2. Begun \in Schedulers /\ Plan(Begun, {})
  BY <1>1, PlanBegins
<1>3. build' = [build EXCEPT ![b] = Begun] /\ UNCHANGED <<final, tmp, lock, gc, unsynced, faults, work>> /\ gc = {}
  BY DEF Start, Begun, Store
<1>4. Running(b)' = {} /\ Running(b) = {}
  BY <1>3 DEF Start, Running
<1>5. Cardinality(Running(b)') <= Jobs
  BY <1>4, FS_EmptySet, BuildsAssumption
<1>6. Begun.done = {} /\ \A m \in Nodes : work'[b][m] # "ok"
  <2>1. Begun.done = {}
    BY DEF Begun, Idle
  <2> QED  BY <1>3, <1>4, <2>1 DEF Running
<1>7. lock' \in [Nodes -> {0} \cup Builders] /\ work' \in [Builders -> [Nodes -> Labels]]
  BY <1>1, <1>3 DEF Typed
<1> QED  BY <1>1, <1>2, <1>3, <1>4, <1>5, <1>6, <1>7, BuildMoves

\* A process of b ends up with the label l, which is not one of staging, and
\* gives up the lock or did not have it.
LEMMA BuildMovesOne ==
  ASSUME IInv, NEW b \in Builders, NEW n \in Nodes, NEW l \in Labels \ Staging, At(b, n, l), world' = world,
         gc = {}, UNCHANGED <<final, tmp, gc, unsynced>>, faults' \in Nat,
         NEW u \in Schedulers, build' = [build EXCEPT ![b] = u],
         lock' = lock \/ Release(b, n),
         Plan(u, IF l = "none" THEN Running(b) \ {n} ELSE Running(b) \cup {n}),
         l = "none" \/ n \in Running(b) \/ Room(b),
         u.pc # "idle" => /\ \A m \in u.done : final[m].there
                          /\ build[b].pc # "idle" /\ l # "ok"
  PROVE  IInv'
<1>0. /\ Typed /\ Running(b) \in SUBSET Nodes /\ IsFiniteSet(Running(b)) /\ Cardinality(Running(b)) \in Nat
      /\ Cardinality(Running(b)) <= Jobs
      /\ build[b].pc # "idle" => \A m \in Nodes : work[b][m] = "ok" => final[m].there
  BY BuildOf
<1>1. l \in Labels
  OBVIOUS
<1>2. /\ work' \in [Builders -> [Nodes -> Labels]]
      /\ work'[b][n] = l
      /\ \A m \in Nodes \ {n} : work'[b][m] = work[b][m]
      /\ \A c \in Builders \ {b} : work'[c] = work[c]
      /\ l = "none" => Running(b)' = Running(b) \ {n}
      /\ l # "none" => Running(b)' = Running(b) \cup {n}
  BY <1>0, <1>1, AtOf
<1>3. Plan(u, Running(b)')
  BY <1>2
<1>4. Cardinality(Running(b)') <= Jobs
  <2>1. CASE l = "none"
    <3>1. Running(b)' \subseteq Running(b)
      BY <1>2, <2>1
    <3>2. Cardinality(Running(b)') \in Nat /\ Cardinality(Running(b)') <= Cardinality(Running(b))
      BY <1>0, <3>1, FS_Subset, FS_CardinalityType
    <3> QED  BY <1>0, <3>2, BuildsAssumption
  <2>2. CASE l # "none" /\ n \in Running(b)
    <3>1. Running(b)' = Running(b)
      BY <1>2, <2>2
    <3> QED  BY <1>0, <3>1
  <2>3. CASE l # "none" /\ n \notin Running(b)
    <3>1. Room(b) /\ Running(b)' = Running(b) \cup {n}
      BY <1>2, <2>3
    <3>2. Cardinality(Running(b) \cup {n}) = Cardinality(Running(b)) + 1
      BY <1>0, <2>3, FS_AddElement
    <3> QED  BY <1>0, <3>1, <3>2, BuildsAssumption DEF Room
  <2> QED  BY <2>1, <2>2, <2>3
<1>5. \A m \in Nodes : work'[b][m] = work[b][m] \/ work'[b][m] \notin Staging
  BY <1>2
<1>6. /\ lock' \in [Nodes -> {0} \cup Builders]
      /\ \A m \in Nodes : lock'[m] = lock[m] \/ (lock[m] = b /\ work'[b][m] \notin Staging)
  <2>1. CASE lock' = lock
    BY <1>0, <2>1 DEF Typed
  <2>2. CASE Release(b, n)
    BY <1>0, <1>2, <2>2, ReleaseOf
  <2> QED  BY <2>1, <2>2
<1>7. u.pc # "idle" => /\ \A m \in u.done : final[m].there
                       /\ \A m \in Nodes : work'[b][m] = "ok" => final[m].there
  BY <1>0, <1>2
<1> QED  BY <1>2, <1>3, <1>4, <1>5, <1>6, <1>7, BuildMoves
LEMMA ScanStep ==
  ASSUME IInv, NEW b \in Builders, Scan(b), world' = world
  PROVE  IInv'
<1> DEFINE s == build[b]
           R == Running(b)
           n == Head(s.pending)
<1>0. /\ Typed /\ s \in Schedulers /\ Plan(s, R) /\ R \in SUBSET Nodes /\ IsFiniteSet(R) /\ Cardinality(R) <= Jobs
      /\ Cardinality(R) \in Nat /\ (s.pc # "idle" => gc = {})
      /\ s.pc # "idle" => /\ \A m \in s.done : final[m].there
                          /\ \A m \in Nodes : work[b][m] = "ok" => final[m].there
  BY BuildOf
<1>1. /\ s.pc = "scan" /\ s.own = "none" /\ s.pending # <<>> /\ gc = {}
      /\ UNCHANGED <<final, tmp, lock, gc, unsynced, faults>>
  BY <1>0 DEF Scan, Store
<1>2. s.pending \in Seq(Nodes) /\ n \in Nodes
  BY <1>0, <1>1 DEF Schedulers
<1>3. faults' \in Nat /\ lock' \in [Nodes -> {0} \cup Builders]
  BY <1>0, <1>1 DEF Typed
<1>4. CASE s.failed \/ ~Ready(b, n) \/ ~Room(b)
  <2>1. s.failed \/ ~(Deps[n] \subseteq s.done) \/ R # {}
    <3>1. Cardinality({}) = 0 /\ 0 < Jobs
      BY FS_EmptySet, BuildsAssumption
    <3>2. R = {} => Room(b)
      BY <3>1 DEF Room
    <3>3. Ready(b, n) <=> Deps[n] \subseteq s.done
      BY DEF Ready
    <3> QED  BY <1>4, <3>2, <3>3
  <2>2. Deferred(s) \in Schedulers /\ Plan(Deferred(s), R)
    BY <1>0, <1>1, <2>1, PlanDefers
  <2>3. build' = [build EXCEPT ![b] = Deferred(s)] /\ work' = work
    <3>1. build' = [build EXCEPT ![b].pending = Tail(s.pending), ![b].waiting = Append(@, n)] /\ work' = work
      BY <1>4 DEF Scan
    <3> QED  BY <1>0, <3>1 DEF Deferred, Typed, Schedulers
  <2>4. Deferred(s).done = s.done
    BY <1>0 DEF Deferred, Schedulers
  <2>5. work' \in [Builders -> [Nodes -> Labels]] /\ Running(b)' = R
    BY <1>0, <2>3 DEF Typed, Running
  <2> HIDE DEF s
  <2> QED  BY <1>0, <1>1, <1>3, <2>2, <2>3, <2>4, <2>5, BuildMoves
<1>5. CASE ~(s.failed \/ ~Ready(b, n) \/ ~Room(b))
  <2>1. PICK o \in {n, "none"} :
          build' = [build EXCEPT ![b].pending = Tail(s.pending), ![b].own = o] /\ At(b, n, "start")
    BY <1>5 DEF Scan
  <2>2. Launched(s, o) \in Schedulers /\ Plan(Launched(s, o), R \cup {n})
    BY <1>0, <1>1, <1>5, PlanLaunches DEF Ready
  <2>3. build' = [build EXCEPT ![b] = Launched(s, o)]
    BY <1>0, <2>1 DEF Launched, Typed, Schedulers
  <2>4. Launched(s, o).done = s.done
    BY <1>0 DEF Launched, Schedulers
  <2>5. Room(b)
    BY <1>5
  <2>6. "start" \in Labels \ Staging
    BY DEF Labels, Staging
  <2>7. Plan(Launched(s, o), IF "start" = "none" THEN R \ {n} ELSE R \cup {n})
    BY <2>2
  <2>8. build[b].pc # "idle" /\ \A m \in Launched(s, o).done : final[m].there
    BY <1>0, <1>1, <2>4
  <2>9. "start" # "ok" /\ At(b, n, "start") /\ lock' = lock /\ gc = {} /\ UNCHANGED <<final, tmp, gc, unsynced>>
    BY <1>1, <2>1
  <2> DEFINE u == Launched(s, o)
             l == "start"
  <2>10. /\ u \in Schedulers /\ build' = [build EXCEPT ![b] = u] /\ l \in Labels \ Staging /\ l # "ok"
         /\ Plan(u, IF l = "none" THEN Running(b) \ {n} ELSE Running(b) \cup {n}) /\ At(b, n, l)
         /\ build[b].pc # "idle" /\ \A m \in u.done : final[m].there
    BY <2>2, <2>3, <2>6, <2>7, <2>8, <2>9
  <2> HIDE DEF s, n, u, l
  <2> QED  BY <1>2, <1>3, <2>5, <2>9, <2>10, BuildMovesOne
<1> QED  BY <1>4, <1>5

LEMMA InlineStep ==
  ASSUME IInv, NEW b \in Builders, Inline(b), world' = world
  PROVE  IInv'
<1> DEFINE s == build[b]
           R == Running(b)
           n == s.own
           u == IF work[b][n] = "ok" THEN Finished(s, n) ELSE [Idle EXCEPT !.end = "failed"]
<1>0. /\ Typed /\ s \in Schedulers /\ Plan(s, R) /\ R \in SUBSET Nodes
      /\ s.pc # "idle" => gc = {}
      /\ s.own # "none" => s.pc # "idle" /\ s.own \in R
      /\ s.pc # "idle" => /\ \A m \in s.done : final[m].there
                          /\ \A m \in Nodes : work[b][m] = "ok" => final[m].there
  BY BuildOf
<1>1. /\ n # "none" /\ At(b, n, "none") /\ UNCHANGED <<final, tmp, lock, gc, unsynced, faults>>
      /\ build' = [build EXCEPT ![b] = u]
  BY DEF Inline, Store
<1>2. n \in R /\ n \in Nodes /\ s.pc # "idle" /\ gc = {}
  BY <1>0, <1>1
<1>3. faults' \in Nat /\ "none" \in Labels \ Staging
  BY <1>0, <1>1 DEF Typed, Labels, Staging
<1>4. u \in Schedulers /\ Plan(u, R \ {n}) /\ (u.pc # "idle" => \A m \in u.done : final[m].there)
  <2>1. CASE work[b][n] = "ok"
    <3>1. Finished(s, n) \in Schedulers /\ Plan(Finished(s, n), R \ {n})
      BY <1>0, <1>2, PlanFinishes
    <3>2. Finished(s, n).done = s.done \cup {n}
      BY <1>0 DEF Finished, Schedulers
    <3>3. final[n].there
      BY <1>0, <1>2, <2>1
    <3>4. u = Finished(s, n)
      BY <2>1
    <3> HIDE DEF u, s
    <3> QED  BY <1>0, <1>2, <3>1, <3>2, <3>3, <3>4
  <2>2. CASE work[b][n] # "ok"
    BY <2>2, PlanBroken
  <2> QED  BY <2>1, <2>2
<1> HIDE DEF u
<1> QED  BY <1>1, <1>2, <1>3, <1>4, BuildMovesOne

LEMMA ChildOkStep ==
  ASSUME IInv, NEW b \in Builders, NEW n \in Nodes, ChildOk(b, n), world' = world
  PROVE  IInv'
<1> DEFINE s == build[b]
           R == Running(b)
           u == IF Readable(final[n]) THEN Finished(s, n) ELSE [Idle EXCEPT !.end = "failed"]
<1>0. /\ Typed /\ s \in Schedulers /\ Plan(s, R) /\ R \in SUBSET Nodes
      /\ s.pc # "idle" => gc = {}
      /\ s.pc # "idle" => /\ \A m \in s.done : final[m].there
                          /\ \A m \in Nodes : work[b][m] = "ok" => final[m].there
  BY BuildOf
<1>1. /\ s.pc = "wait" /\ work[b][n] = "ok" /\ At(b, n, "none") /\ UNCHANGED <<final, tmp, lock, gc, unsynced, faults>>
      /\ build' = [build EXCEPT ![b] = u]
  BY DEF ChildOk, Store
<1>2. n \in R /\ gc = {} /\ final[n].there
  BY <1>0, <1>1 DEF Running
<1>3. faults' \in Nat /\ "none" \in Labels \ Staging
  BY <1>0, <1>1 DEF Typed, Labels, Staging
<1>4. u \in Schedulers /\ Plan(u, R \ {n}) /\ (u.pc # "idle" => \A m \in u.done : final[m].there)
  <2>1. CASE Readable(final[n])
    <3>1. Finished(s, n) \in Schedulers /\ Plan(Finished(s, n), R \ {n})
      BY <1>0, <1>1, <1>2, PlanFinishes
    <3>2. Finished(s, n).done = s.done \cup {n}
      BY <1>0 DEF Finished, Schedulers
    <3>3. u = Finished(s, n)
      BY <2>1
    <3> HIDE DEF u, s
    <3> QED  BY <1>0, <1>1, <1>2, <3>1, <3>2, <3>3
  <2>2. CASE ~Readable(final[n])
    BY <2>2, PlanBroken
  <2> QED  BY <2>1, <2>2
<1> HIDE DEF u
<1> QED  BY <1>1, <1>2, <1>3, <1>4, BuildMovesOne

LEMMA ScannedStep ==
  ASSUME IInv, NEW b \in Builders, Scanned(b), world' = world
  PROVE  IInv'
<1> DEFINE s == build[b]
           R == Running(b)
           e == IF s.failed THEN "failed" ELSE IF s.waiting # <<>> THEN "stuck" ELSE "done"
           u == IF R # {} THEN Rescanned(s) ELSE Over(e, s.done)
<1>0. /\ Typed /\ s \in Schedulers /\ Plan(s, R) /\ R \in SUBSET Nodes /\ Cardinality(R) <= Jobs
      /\ s.pc # "idle" => gc = {}
      /\ s.pc # "idle" => /\ \A m \in s.done : final[m].there
                          /\ \A m \in Nodes : work[b][m] = "ok" => final[m].there
  BY BuildOf
<1>1. /\ s.pc = "scan" /\ s.own = "none" /\ s.pending = <<>> /\ gc = {}
      /\ UNCHANGED <<final, tmp, lock, gc, unsynced, faults, work>>
  BY <1>0 DEF Scanned, Store
<1>2. build' = [build EXCEPT ![b] = u]
  BY DEF Scanned, Rescanned, Over
<1>3. /\ faults' \in Nat /\ lock' \in [Nodes -> {0} \cup Builders]
      /\ work' \in [Builders -> [Nodes -> Labels]] /\ Running(b)' = R
  BY <1>0, <1>1 DEF Typed, Running
<1>4. u \in Schedulers /\ Plan(u, R) /\ (u.pc # "idle" => u.done = s.done)
  <2>1. CASE R # {}
    <3>1. Rescanned(s) \in Schedulers /\ Plan(Rescanned(s), R)
      BY <1>0, <1>1, PlanRescans
    <3>2. Rescanned(s).done = s.done
      BY <1>0 DEF Rescanned, Schedulers
    <3>3. u = Rescanned(s)
      BY <2>1
    <3> HIDE DEF u
    <3> QED  BY <3>1, <3>2, <3>3
  <2>2. CASE R = {}
    <3>1. Plan(s, {})
      BY <1>0, <2>2
    <3>2. Over(e, s.done) \in Schedulers /\ Plan(Over(e, s.done), R)
      BY <1>0, <1>1, <3>1, PlanEnds
    <3>3. Over(e, s.done).done = s.done
      BY DEF Over, Idle
    <3>4. u = Over(e, s.done)
      BY <2>2
    <3> HIDE DEF u, e
    <3> QED  BY <3>2, <3>3, <3>4
  <2> QED  BY <2>1, <2>2
<1> HIDE DEF u, s
<1> QED  BY <1>0, <1>1, <1>2, <1>3, <1>4, BuildMoves

LEMMA ChildFailedStep ==
  ASSUME IInv, NEW b \in Builders, NEW n \in Nodes, ChildFailed(b, n), world' = world
  PROVE  IInv'
<1> DEFINE s == build[b]
           u == Cancelled(s)
<1>0. /\ Typed /\ s \in Schedulers /\ Plan(s, Running(b))
      /\ s.pc # "idle" => gc = {}
      /\ s.pc # "idle" => \A m \in s.done : final[m].there
  BY BuildOf
<1>1. /\ s.pc = "wait" /\ work' = [work EXCEPT ![b] = [m \in Nodes |-> "none"]] /\ UNCHANGED <<final, tmp, gc, unsynced, faults>>
      /\ lock' = [m \in Nodes |-> IF lock[m] = b THEN 0 ELSE lock[m]]
  BY DEF ChildFailed
<1>2. build' = [build EXCEPT ![b] = u]
  <2>1. build' = [build EXCEPT ![b].pc = "scan", ![b].failed = TRUE]
    BY DEF ChildFailed
  <2> QED  BY <1>0, <2>1 DEF Cancelled, Typed, Schedulers
<1>3. u \in Schedulers /\ u.done = s.done /\ Plan(u, {})
  BY <1>0, <1>1, PlanCancelled
<1>4. /\ work' \in [Builders -> [Nodes -> Labels]] /\ \A c \in Builders \ {b} : work'[c] = work[c]
      /\ \A m \in Nodes : work'[b][m] = "none"
  BY <1>0, <1>1 DEF Typed, Labels
<1>5. Running(b)' = {}
  BY <1>4 DEF Running
<1>6. Cardinality(Running(b)') <= Jobs
  BY <1>5, FS_EmptySet, BuildsAssumption
<1>7. /\ lock' \in [Nodes -> {0} \cup Builders] /\ faults' \in Nat
      /\ \A m \in Nodes : lock'[m] = lock[m] \/ lock[m] = b
  BY <1>0, <1>1 DEF Typed
<1>8. \A m \in Nodes : work'[b][m] \notin Staging /\ work'[b][m] # "ok"
  BY <1>4 DEF Staging
<1>9. Plan(u, Running(b)') /\ gc = {} /\ \A m \in u.done : final[m].there
  BY <1>0, <1>1, <1>3, <1>5
<1> HIDE DEF u
<1> QED  BY <1>1, <1>2, <1>3, <1>4, <1>6, <1>7, <1>8, <1>9, BuildMoves

LEMMA SchedulerStep ==
  ASSUME IInv, NEW b \in Builders, Scheduler(b), world' = world
  PROVE  IInv'
  BY ScanStep, InlineStep, ScannedStep, ChildOkStep, ChildFailedStep DEF Scheduler

LEMMA KillBuildStep ==
  ASSUME IInv, NEW b \in Builders, KillBuild(b), world' = world
  PROVE  IInv'
<1> DEFINE s == build[b]
           u == [Idle EXCEPT !.end = "killed"]
           n == s.own
<1>0. /\ Typed /\ Running(b) \in SUBSET Nodes /\ Cardinality(Running(b)) <= Jobs
      /\ s.pc # "idle" => gc = {}
      /\ n # "none" => n \in Running(b)
  BY BuildOf
<1>1. u \in Schedulers /\ u.pc = "idle" /\ \A R : Plan(u, R)
  BY PlanBroken
<1> HIDE DEF u
<1>2. build' = [build EXCEPT ![b] = u] /\ UNCHANGED <<final, tmp, gc, unsynced>> /\ gc = {} /\ faults' \in Nat
  BY <1>0 DEF KillBuild, u, Typed
<1>3. CASE n # "none"
  <2>1. n \in Nodes /\ At(b, n, "none") /\ Release(b, n) /\ "none" \in Labels \ Staging
    BY <1>0, <1>3 DEF KillBuild, Labels, Staging
  <2> HIDE DEF n
  <2> QED  BY <1>1, <1>2, <2>1, BuildMovesOne
<1>4. CASE n = "none"
  <2>1. work' = work /\ lock' = lock
    BY <1>4 DEF KillBuild
  <2>2. /\ work' \in [Builders -> [Nodes -> Labels]] /\ lock' \in [Nodes -> {0} \cup Builders]
        /\ Running(b)' = Running(b)
    BY <1>0, <2>1 DEF Typed, Running
  <2> QED  BY <1>0, <1>1, <1>2, <2>1, <2>2, BuildMoves
<1> QED  BY <1>3, <1>4

LEMMA KillChildStep ==
  ASSUME IInv, NEW b \in Builders, NEW n \in Nodes, KillChild(b, n), world' = world
  PROVE  IInv'
<1> DEFINE u == build[b]
           l == "failed"
<1>0. /\ Typed /\ u \in Schedulers /\ Plan(u, Running(b))
      /\ Running(b) # {} => gc = {}
      /\ u.pc # "idle" => \A m \in u.done : final[m].there
  BY BuildOf
<1>1. /\ n \in Running(b) /\ At(b, n, l) /\ Release(b, n)
      /\ UNCHANGED <<final, tmp, build, gc, unsynced>> /\ faults' \in Nat
  BY <1>0 DEF KillChild, Running, Typed
<1>2. gc = {} /\ build' = [build EXCEPT ![b] = u] /\ Running(b) \cup {n} = Running(b)
  BY <1>0, <1>1 DEF Typed
<1>3. l \in Labels \ Staging /\ l # "ok" /\ Plan(u, IF l = "none" THEN Running(b) \ {n} ELSE Running(b) \cup {n})
  BY <1>0, <1>2 DEF Labels, Staging
<1>4. u.pc # "idle" => build[b].pc # "idle"
  OBVIOUS
<1> HIDE DEF u, l
<1> QED  BY <1>0, <1>1, <1>2, <1>3, <1>4, BuildMovesOne

LEMMA OrphanStep ==
  ASSUME IInv, NEW b \in Builders, NEW n \in Nodes, Orphan(b, n), world' = world
  PROVE  IInv'
<1> DEFINE u == build[b]
<1>0. /\ Typed /\ u \in Schedulers /\ Plan(u, Running(b))
      /\ Running(b) # {} => gc = {}
  BY BuildOf
<1>1. /\ n \in Running(b) /\ At(b, n, "none") /\ u.pc = "idle"
      /\ UNCHANGED <<final, tmp, lock, build, gc, unsynced>> /\ faults' \in Nat
  BY <1>0 DEF Orphan, Running, Typed, Ended
<1>2. gc = {} /\ build' = [build EXCEPT ![b] = u]
  BY <1>0, <1>1 DEF Typed
<1>3. Plan(u, Running(b) \ {n}) /\ "none" \in Labels \ Staging
  BY <1>0, <1>1 DEF Plan, Labels, Staging
<1> HIDE DEF u
<1> QED  BY <1>0, <1>1, <1>2, <1>3, BuildMovesOne

-----------------------------------------------------------------------------
(* Garbage collection and power loss. *)

\* Without schedulers and processes only the store matters.
LEMMA QuietStep ==
  ASSUME IInv, Typed', world' = world, build' = build, work' = work, Quiet,
         gc' # {} => world.collects, \A m, n \in gc' : m = n,
         \A m \in Nodes : StoreSafe => m \in gc' \/ (final'[m].there => Whole(final'[m]))
  PROVE  IInv'
<1>1. \A b \in Builders : build[b].pc = "idle" /\ Running(b) = {}
  BY DEF Quiet
<1>2. \A b \in Builders, n \in Nodes : work'[b][n] = "none"
  BY <1>1 DEF Running
<1>3. \A b \in Builders : Running(b)' = Running(b)
  BY DEF Running
<1>4. PlansHold'
  <2>1. ASSUME NEW s, NEW R, Plan(s, R) PROVE Plan(s, R)'
    BY <2>1 DEF Plan, Apart, Accounted
  <2>2. \A c \in Builders : Plan(build[c], Running(c))'
    BY <1>3, <2>1 DEF IInv, PlansHold
  <2> QED  BY <2>2 DEF PlansHold
<1>5. JobsBound'
  BY <1>3 DEF IInv, JobsBound
<1>6. LocksHold' /\ StagedOwn'
  BY <1>2 DEF LocksHold, StagedOwn, Staging
<1>7. GcAlone'
  BY <1>1, <1>3 DEF GcAlone, Quiet
<1>8. Stored'
  BY <1>1 DEF Stored
<1>9. FinalWhole'
  BY DEF FinalWhole, StoreSafe
<1> QED  BY <1>4, <1>5, <1>6, <1>7, <1>8, <1>9 DEF IInv

LEMMA GcRemoveStep ==
  ASSUME IInv, NEW n \in Nodes, GcRemove(n), world' = world
  PROVE  IInv'
<1>0. Typed /\ FinalWhole
  BY DEF IInv
<1>1. /\ world.collects /\ Quiet /\ gc = {} /\ gc' = {n} /\ final' = [final EXCEPT ![n].payload = 0]
      /\ UNCHANGED <<tmp, lock, build, work, unsynced, faults>>
  BY DEF GcRemove
<1>2. final' \in [Nodes -> Dirs] /\ \A m \in Nodes \ {n} : final'[m] = final[m]
  <2> DEFINE d == [final[n] EXCEPT !.payload = 0]
  <2>1. final[n] \in Dirs
    BY <1>0 DEF Typed
  <2>2. d \in Dirs
    BY <2>1 DEF Dirs
  <2>3. final' = [final EXCEPT ![n] = d]
    BY <1>1
  <2> HIDE DEF d
  <2> QED  BY <1>0, <2>2, <2>3 DEF Typed
<1>3. Typed'
  BY <1>0, <1>1, <1>2 DEF Typed
<1>4. \A m \in Nodes : StoreSafe => m \in gc' \/ (final'[m].there => Whole(final'[m]))
  BY <1>0, <1>1, <1>2 DEF FinalWhole
<1> QED  BY <1>1, <1>3, <1>4, QuietStep

LEMMA GcRemovedStep ==
  ASSUME IInv, NEW n \in Nodes, GcRemoved(n), world' = world
  PROVE  IInv'
<1>0. Typed /\ FinalWhole /\ GcAlone
  BY DEF IInv
<1>1. /\ n \in gc /\ gc' = {} /\ final' = [final EXCEPT ![n] = Absent] /\ lock' = [lock EXCEPT ![n] = 0]
      /\ unsynced' = unsynced \ {n} /\ UNCHANGED <<tmp, build, work, faults>>
  BY DEF GcRemoved
<1>2. Quiet /\ gc = {n}
  BY <1>0, <1>1 DEF GcAlone
<1>3. final' \in [Nodes -> Dirs] /\ ~final'[n].there /\ \A m \in Nodes \ {n} : final'[m] = final[m]
  BY <1>0, <1>1, DirsAre DEF Typed
<1>4. Typed'
  BY <1>0, <1>1, <1>3 DEF Typed
<1>5. \A m \in Nodes : StoreSafe => m \in gc' \/ (final'[m].there => Whole(final'[m]))
  BY <1>0, <1>2, <1>3 DEF FinalWhole
<1> QED  BY <1>1, <1>2, <1>4, <1>5, QuietStep

LEMMA GcTemporaryStep ==
  ASSUME IInv, NEW n \in Nodes, GcTemporary(n), world' = world
  PROVE  IInv'
<1>0. Typed /\ FinalWhole
  BY DEF IInv
<1>1. /\ Quiet /\ gc = {} /\ tmp' = [tmp EXCEPT ![n] = Absent]
      /\ UNCHANGED <<final, lock, build, work, gc, unsynced, faults>>
  BY DEF GcTemporary
<1>2. Typed'
  BY <1>0, <1>1, DirsAre DEF Typed
<1>3. \A m \in Nodes : StoreSafe => m \in gc' \/ (final'[m].there => Whole(final'[m]))
  BY <1>0, <1>1 DEF FinalWhole
<1> QED  BY <1>1, <1>2, <1>3, QuietStep

LEMMA KillGcStep ==
  ASSUME IInv, KillGc, world' = world
  PROVE  IInv'
<1>0. Typed /\ GcAlone
  BY DEF IInv
<1>1. Quiet /\ ~StoreSafe
  BY <1>0 DEF KillGc, GcAlone, StoreSafe
<1>2. gc' = {} /\ build' = build /\ work' = work
  BY DEF KillGc
<1>3. Typed'
  BY <1>0 DEF KillGc, Typed
<1> QED  BY <1>1, <1>2, <1>3, QuietStep

LEMMA PowerLossStep ==
  ASSUME IInv, PowerLoss, world' = world
  PROVE  IInv'
<1>0. Typed
  BY DEF IInv
<1>1. /\ build' = [b \in Builders |-> Idle] /\ work' = [b \in Builders |-> [n \in Nodes |-> "none"]]
      /\ gc' = {} /\ unsynced' = {} /\ lock' = [n \in Nodes |-> 0] /\ tmp' = tmp /\ faults' = faults + 1
  BY DEF PowerLoss
<1>2. final' \in [Nodes -> Dirs]
  <2>1. PICK lost \in SUBSET unsynced :
          final' = [n \in Nodes |-> IF n \in lost THEN [final[n] EXCEPT !.payload = Torn] ELSE final[n]]
    BY DEF PowerLoss
  <2>2. ASSUME NEW n \in Nodes PROVE final[n] \in Dirs /\ [final[n] EXCEPT !.payload = Torn] \in Dirs
    <3>1. final[n] \in Dirs
      BY <1>0 DEF Typed
    <3> QED  BY <3>1 DEF Dirs
  <2> QED  BY <2>1, <2>2
<1>3. Typed'
  <2>1. work' \in [Builders -> [Nodes -> Labels]] /\ build' \in [Builders -> Schedulers]
    BY <1>1, IdleTyped DEF Labels
  <2> QED  BY <1>0, <1>1, <1>2, <2>1 DEF Typed
<1>4. FinalWhole'
  BY DEF PowerLoss, FinalWhole, StoreSafe
<1>5. Idle.pc = "idle" /\ \A R : Plan(Idle, R)'
  BY IdleTyped DEF Plan
<1>6. \A b \in Builders : build'[b] = Idle /\ Running(b)' = {} /\ \A n \in Nodes : work'[b][n] = "none"
  BY <1>1 DEF Running
<1>7. PlansHold'
  BY <1>5, <1>6 DEF PlansHold
<1>8. JobsBound'
  <2>1. Cardinality({}) = 0 /\ 0 <= Jobs
    BY FS_EmptySet, BuildsAssumption
  <2> QED  BY <1>6, <2>1 DEF JobsBound
<1>9. LocksHold' /\ StagedOwn'
  BY <1>6 DEF LocksHold, StagedOwn, Staging
<1>10. GcAlone'
  BY <1>1 DEF GcAlone
<1>11. Stored'
  BY <1>5, <1>6 DEF Stored
<1> QED  BY <1>3, <1>4, <1>7, <1>8, <1>9, <1>10, <1>11 DEF IInv

-----------------------------------------------------------------------------
(* The theorems. *)

LEMMA InitInv ==
  ASSUME Init PROVE IInv
<1>1. /\ build = [b \in Builders |-> Idle] /\ work = [b \in Builders |-> [n \in Nodes |-> "none"]] /\ gc = {}
      /\ world \in Worlds /\ final = [n \in Nodes |-> Absent] /\ tmp = [n \in Nodes |-> Absent]
      /\ lock = [n \in Nodes |-> 0] /\ unsynced = {} /\ faults = 0
  BY DEF Init
<1>2. Typed
  <2>1. work \in [Builders -> [Nodes -> Labels]] /\ build \in [Builders -> Schedulers]
    BY <1>1, IdleTyped DEF Labels
  <2> QED  BY <1>1, <2>1, DirsAre DEF Typed
<1>3. FinalWhole
  BY <1>1, DirsAre DEF FinalWhole
<1>4. Idle.pc = "idle" /\ \A R : Plan(Idle, R)
  BY IdleTyped DEF Plan
<1>5. \A b \in Builders : build[b] = Idle /\ Running(b) = {} /\ \A n \in Nodes : work[b][n] = "none"
  BY <1>1 DEF Running
<1>6. PlansHold
  BY <1>4, <1>5 DEF PlansHold
<1>7. JobsBound
  <2>1. Cardinality({}) = 0 /\ 0 <= Jobs
    BY FS_EmptySet, BuildsAssumption
  <2> QED  BY <1>5, <2>1 DEF JobsBound
<1>8. LocksHold /\ StagedOwn
  BY <1>5 DEF LocksHold, StagedOwn, Staging
<1>9. GcAlone
  BY <1>1 DEF GcAlone
<1>10. Stored
  BY <1>4, <1>5 DEF Stored
<1> QED  BY <1>2, <1>3, <1>6, <1>7, <1>8, <1>9, <1>10 DEF IInv

LEMMA NextInv ==
  ASSUME IInv, Next PROVE IInv'
  BY StartStep, SchedulerStep, KillBuildStep, ProcessStep, KillChildStep, OrphanStep,
     GcRemoveStep, GcRemovedStep, GcTemporaryStep, KillGcStep, PowerLossStep DEF Next

LEMMA StutterInv ==
  ASSUME IInv, UNCHANGED <<vars, world>> PROVE IInv'
<1>1. \A b \in Builders : Running(b)' = Running(b)
  BY DEF Running, vars
<1>2. PlansHold'
  <2>1. ASSUME NEW s, NEW R, Plan(s, R) PROVE Plan(s, R)'
    BY <2>1 DEF Plan, Apart, Accounted, vars
  <2>2. \A c \in Builders : Plan(build[c], Running(c))'
    BY <1>1, <2>1 DEF IInv, PlansHold, vars
  <2> QED  BY <2>2 DEF PlansHold
<1>3. JobsBound' /\ GcAlone'
  BY <1>1 DEF IInv, JobsBound, GcAlone, Quiet, vars
<1> QED  BY <1>2, <1>3 DEF IInv, Typed, LocksHold, StagedOwn, Stored, FinalWhole, StoreSafe, vars

\* The invariant holds in every state: plans are accounted for, who stages has the
\* lock, and the store holds what running builds have done.
THEOREM Invariant == Spec => []IInv
<1>1. Init => IInv
  BY InitInv
<1>2. IInv /\ [Next]_<<vars, world>> => IInv'
  BY NextInv, StutterInv
<1> QED  BY <1>1, <1>2, PTL DEF Spec

\* A root is composed of nodes that are done, because those are closed under what
\* receipts record.
LEMMA ClosureIsDone ==
  ASSUME IInv, NEW b \in Builders, NEW n \in Running(b), build[b].pc # "idle"
  PROVE  Closure(n) \subseteq build[b].done
<1> DEFINE D == build[b].done
<1>1. build[b] \in Schedulers /\ Plan(build[b], Running(b)) /\ Running(b) \in SUBSET Nodes
  BY BuildOf
<1>2. D \in SUBSET Nodes
  BY <1>1 DEF Schedulers
<1>3. Deps[n] \subseteq D /\ \A k \in D : Deps[k] \subseteq D
  BY <1>1 DEF Plan
<1>4. \A k \in D : Runtime[k] \subseteq D
  BY <1>2, <1>3, BuildsAssumption
<1> HIDE DEF D
<1>5. Closure(n) \subseteq D
  BY <1>2, <1>3, <1>4 DEF Closure
<1> QED  BY <1>5 DEF D

LEMMA SoundOf ==
  ASSUME IInv PROVE BuildsSound
<1>1. TypeOK
  <2>1. Typed
    BY DEF IInv
  <2>2. ASSUME NEW b \in Builders
        PROVE  /\ build[b].pc \in {"idle", "scan", "wait"} /\ build[b].done \subseteq Nodes
               /\ build[b].end \in {"none", "done", "failed", "stuck", "killed"}
    <3>1. build[b] \in Schedulers
      BY <2>1 DEF Typed
    <3> QED  BY <3>1 DEF Schedulers
  <2> QED  BY <2>1, <2>2 DEF TypeOK, Typed, Labels
<1>2. RootsComplete
  <2>1. ASSUME StoreSafe, NEW b \in Builders, NEW n \in Nodes, work[b][n] = "start", build[b].pc # "idle",
               NEW m \in Closure(n)
        PROVE  Whole(final[m])
    <3>1. n \in Running(b)
      BY <2>1 DEF Running
    <3>2. m \in build[b].done
      BY <2>1, <3>1, ClosureIsDone
    <3>3. final[m].there /\ gc = {}
      BY <2>1, <3>2, BuildOf
    <3>4. m \in Nodes
      BY DEF Closure
    <3> QED  BY <2>1, <3>3, <3>4 DEF IInv, FinalWhole
  <2> QED  BY <2>1 DEF RootsComplete
<1>3. EndsComplete
  BY DEF IInv, PlansHold, Plan, EndsComplete
<1> QED  BY <1>1, <1>2, <1>3 DEF IInv, BuildsSound

\* Whatever several builds do at the same time, whatever fails and whichever
\* scheduler or child is killed: commit_locked leaves only complete artifacts of
\* one build, execute_node composes its root of stored artifacts, and
\* execute_scheduled keeps to its jobs, never stops with nodes it cannot start,
\* and ends well only with the whole plan done.
THEOREM BuildsAlwaysSound == Spec => []BuildsSound
<1>1. IInv => BuildsSound
  BY SoundOf
<1> QED  BY <1>1, Invariant, PTL

LEMMA StaysStep ==
  ASSUME IInv, Next, StoreSafe, ~world.collects, NEW n \in Nodes, final[n].there
  PROVE  final'[n] = final[n]
<1>1. ASSUME NEW b \in Builders, Start(b) \/ Scheduler(b) \/ KillBuild(b) PROVE final' = final
  BY <1>1 DEF Start, Scheduler, KillBuild, Scan, Inline, Scanned, ChildOk, ChildFailed, Store
<1>2. ASSUME NEW b \in Builders, NEW m \in Nodes, KillChild(b, m) \/ Orphan(b, m) PROVE final' = final
  BY <1>2 DEF KillChild, Orphan
<1>3. ASSUME NEW b \in Builders, NEW m \in Nodes, Process(b, m) PROVE final'[n] = final[n]
  <2>1. CASE Rename(b, m)
    <3>1. final \in [Nodes -> Dirs]
      BY DEF IInv, Typed
    <3> QED  BY <2>1, <3>1 DEF Rename
  <2>2. CASE ~Rename(b, m)
    BY <1>3, <2>2 DEF Process, Begin, Acquire, Commit, Stage, StageFails
  <2> QED  BY <2>1, <2>2
<1>4. ASSUME NEW m \in Nodes, GcRemove(m) \/ GcRemoved(m) \/ GcTemporary(m) PROVE final' = final
  BY <1>4 DEF GcRemove, GcRemoved, GcTemporary, IInv, GcAlone
<1>5. ~KillGc /\ ~PowerLoss
  BY DEF KillGc, PowerLoss, StoreSafe
<1> QED  BY <1>1, <1>2, <1>3, <1>4, <1>5 DEF Next

\* commit_locked takes an artifact that is there and Rename publishes only where
\* none is, so without garbage collection no build replaces or removes one.
THEOREM FinalNeverReplaced == Spec => FinalStays
<1>1. IInv /\ [Next]_<<vars, world>> =>
        [StoreSafe /\ ~world.collects => \A n \in Nodes : final[n].there => final'[n] = final[n]]_vars
  BY StaysStep DEF vars
<1> QED  BY <1>1, Invariant, PTL DEF Spec, FinalStays

=============================================================================
