-------------------------- MODULE ApplyLockProofs --------------------------
(***************************************************************************)
(* Proof that xinfra's host locks exclude, for any number of runs and      *)
(* hosts and any kills, lost sessions, reboots and failed writes and       *)
(* removals, as long as nobody reclaims or forces a lock.                  *)
(***************************************************************************)
EXTENDS ApplyLock, TLAPS

HostIndex == 1 .. Len(Order)

LEMMA OrderFacts ==
  /\ Len(Order) \in Nat /\ Len(Order) > 0
  /\ \A i \in HostIndex : Order[i] \in Hosts
  /\ \A h \in Hosts : \E i \in HostIndex : h = Order[i]
  /\ \A i, j \in HostIndex : Order[i] = Order[j] => i = j
  /\ 0 \notin Runs
  /\ \A r \in Runs, i \in HostIndex : LockOf(r, i) \in Locks /\ LockOf(r, i)[1] = Order[i]
  /\ \A r \in Runs, i, j \in HostIndex : LockOf(r, i) = LockOf(r, j) => i = j
<1>1. /\ Len(Order) \in Nat /\ Len(Order) > 0
      /\ \A i \in HostIndex : Order[i] \in Hosts
      /\ \A h \in Hosts : \E i \in HostIndex : h = Order[i]
      /\ \A i, j \in HostIndex : Order[i] = Order[j] => i = j
      /\ 0 \notin Runs
  BY ApplyLockAssumption DEF Hosts, HostIndex
<1>2. \A r \in Runs, i \in HostIndex : LockOf(r, i) \in Locks /\ LockOf(r, i)[1] = Order[i]
  BY <1>1, ApplyLockAssumption DEF LockOf, Locks
<1>3. \A r \in Runs, i, j \in HostIndex : LockOf(r, i) = LockOf(r, j) => i = j
  BY <1>1 DEF LockOf
<1> QED  BY <1>1, <1>2, <1>3

Locking == {"mkdir", "open", "write", "read", "steal", "remake"}
Pcs == Locking \cup {"idle", "apply", "check", "remove", "end", "killed"}

\* While a run takes its locks it is at the host after those it has; it applies
\* with all of them.
Placed ==
  \A r \in Runs :
    /\ run[r].pc \in Locking => run[r].at \in HostIndex /\ run[r].acquired = run[r].at - 1
    /\ run[r].pc = "apply" => run[r].acquired = Len(Order)
    /\ run[r].pc = "remove" => run[r].at \in HostIndex

\* What run r in state x relies on: over a session that has not been lost, the
\* directory it works on, and those it has locked, are its own.
Holds(r, x, d, o) ==
  /\ x.pc \notin {"steal", "remake"}
  /\ x.pc \in {"open", "write", "remove"} /\ Order[x.at] \in x.sessions => d[LockOf(r, x.at)] = r
  /\ x.pc = "write" /\ Order[x.at] \in x.sessions => x.into = r
  /\ \A i \in HostIndex :
       x.pc \in Locking \cup {"apply"} /\ i <= x.acquired /\ Order[i] \in x.sessions =>
         d[LockOf(r, i)] = r /\ o[LockOf(r, i)].token = r

\* An owner record names the run that made its directory.
TokensMatch == \A h \in Locks : owner[h].token # 0 => owner[h].token = dir[h]

Safe == NotTaken => TokensMatch /\ \A r \in Runs : Holds(r, run[r], dir, owner)

IInv == TypeOK /\ Placed /\ Safe

St(p, a, n, s, i, c) == [pc |-> p, at |-> a, acquired |-> n, sessions |-> s, into |-> i, cut |-> c]

-----------------------------------------------------------------------------
(* The provers take a record apart one field at a time. *)

LEMMA Fields ==
  ASSUME TypeOK, NEW r \in Runs
  PROVE  /\ run[r] \in RunStates
         /\ run[r].pc \in Pcs /\ run[r].at \in 1 .. Len(Order) + 1 /\ run[r].acquired \in 0 .. Len(Order)
         /\ run[r].sessions \in SUBSET Hosts /\ run[r].into \in {0} \cup Runs /\ run[r].cut \in BOOLEAN
  BY DEF TypeOK, RunStates, Pcs, Locking

LEMMA PcAndAt ==
  ASSUME NEW x \in RunStates, NEW p, NEW a
  PROVE  [x EXCEPT !.pc = p, !.at = a] = St(p, a, x.acquired, x.sessions, x.into, x.cut)
<1>1. [x EXCEPT !.pc = p] = St(p, x.at, x.acquired, x.sessions, x.into, x.cut)
  BY DEF RunStates, St
<1>2. [St(p, x.at, x.acquired, x.sessions, x.into, x.cut) EXCEPT !.at = a]
        = St(p, a, x.acquired, x.sessions, x.into, x.cut)
  BY DEF St
<1>3. [x EXCEPT !.pc = p, !.at = a] = [[x EXCEPT !.pc = p] EXCEPT !.at = a]
  OBVIOUS
<1> QED  BY <1>1, <1>2, <1>3

LEMMA PcAndInto ==
  ASSUME NEW x \in RunStates, NEW p, NEW i
  PROVE  [x EXCEPT !.pc = p, !.into = i] = St(p, x.at, x.acquired, x.sessions, i, x.cut)
<1>1. [x EXCEPT !.pc = p] = St(p, x.at, x.acquired, x.sessions, x.into, x.cut)
  BY DEF RunStates, St
<1>2. [St(p, x.at, x.acquired, x.sessions, x.into, x.cut) EXCEPT !.into = i]
        = St(p, x.at, x.acquired, x.sessions, i, x.cut)
  BY DEF St
<1>3. [x EXCEPT !.pc = p, !.into = i] = [[x EXCEPT !.pc = p] EXCEPT !.into = i]
  OBVIOUS
<1> QED  BY <1>1, <1>2, <1>3

LEMMA Acquires ==
  ASSUME NEW x \in RunStates, NEW p, NEW n
  PROVE  [x EXCEPT !.pc = p, !.acquired = n, !.into = 0] = St(p, x.at, n, x.sessions, 0, x.cut)
<1>1. [x EXCEPT !.pc = p] = St(p, x.at, x.acquired, x.sessions, x.into, x.cut)
  BY DEF RunStates, St
<1>2. [St(p, x.at, x.acquired, x.sessions, x.into, x.cut) EXCEPT !.acquired = n]
        = St(p, x.at, n, x.sessions, x.into, x.cut)
  BY DEF St
<1>3. [St(p, x.at, n, x.sessions, x.into, x.cut) EXCEPT !.into = 0] = St(p, x.at, n, x.sessions, 0, x.cut)
  BY DEF St
<1>4. [x EXCEPT !.pc = p, !.acquired = n, !.into = 0]
        = [[[x EXCEPT !.pc = p] EXCEPT !.acquired = n] EXCEPT !.into = 0]
  OBVIOUS
<1> QED  BY <1>1, <1>2, <1>3, <1>4

LEMMA GoesOn ==
  ASSUME NEW x \in RunStates, NEW n, NEW a
  PROVE  [x EXCEPT !.pc = "mkdir", !.acquired = n, !.at = a, !.into = 0] = St("mkdir", a, n, x.sessions, 0, x.cut)
<1>1. [x EXCEPT !.pc = "mkdir"] = St("mkdir", x.at, x.acquired, x.sessions, x.into, x.cut)
  BY DEF RunStates, St
<1>2. [St("mkdir", x.at, x.acquired, x.sessions, x.into, x.cut) EXCEPT !.acquired = n]
        = St("mkdir", x.at, n, x.sessions, x.into, x.cut)
  BY DEF St
<1>3. [St("mkdir", x.at, n, x.sessions, x.into, x.cut) EXCEPT !.at = a] = St("mkdir", a, n, x.sessions, x.into, x.cut)
  BY DEF St
<1>4. [St("mkdir", a, n, x.sessions, x.into, x.cut) EXCEPT !.into = 0] = St("mkdir", a, n, x.sessions, 0, x.cut)
  BY DEF St
<1>5. [x EXCEPT !.pc = "mkdir", !.acquired = n, !.at = a, !.into = 0]
        = [[[[x EXCEPT !.pc = "mkdir"] EXCEPT !.acquired = n] EXCEPT !.at = a] EXCEPT !.into = 0]
  OBVIOUS
<1> QED  BY <1>1, <1>2, <1>3, <1>4, <1>5

LEMMA Leaves ==
  ASSUME NEW x \in RunStates, NEW s
  PROVE  [x EXCEPT !.pc = "end", !.sessions = s, !.at = 1] = St("end", 1, x.acquired, s, x.into, x.cut)
<1>1. [x EXCEPT !.pc = "end"] = St("end", x.at, x.acquired, x.sessions, x.into, x.cut)
  BY DEF RunStates, St
<1>2. [St("end", x.at, x.acquired, x.sessions, x.into, x.cut) EXCEPT !.sessions = s]
        = St("end", x.at, x.acquired, s, x.into, x.cut)
  BY DEF St
<1>3. [St("end", x.at, x.acquired, s, x.into, x.cut) EXCEPT !.at = 1] = St("end", 1, x.acquired, s, x.into, x.cut)
  BY DEF St
<1>4. [x EXCEPT !.pc = "end", !.sessions = s, !.at = 1]
        = [[[x EXCEPT !.pc = "end"] EXCEPT !.sessions = s] EXCEPT !.at = 1]
  OBVIOUS
<1> QED  BY <1>1, <1>2, <1>3, <1>4

LEMMA CutState ==
  ASSUME NEW x \in RunStates, NEW s, NEW c
  PROVE  [x EXCEPT !.sessions = s, !.cut = c] = St(x.pc, x.at, x.acquired, s, x.into, c)
<1>1. [x EXCEPT !.sessions = s] = St(x.pc, x.at, x.acquired, s, x.into, x.cut)
  BY DEF RunStates, St
<1>2. [St(x.pc, x.at, x.acquired, s, x.into, x.cut) EXCEPT !.cut = c] = St(x.pc, x.at, x.acquired, s, x.into, c)
  BY DEF St
<1>3. [x EXCEPT !.sessions = s, !.cut = c] = [[x EXCEPT !.sessions = s] EXCEPT !.cut = c]
  OBVIOUS
<1> QED  BY <1>1, <1>2, <1>3

LEMMA PcAndSessions ==
  ASSUME NEW x \in RunStates, NEW p, NEW s
  PROVE  [x EXCEPT !.pc = p, !.sessions = s] = St(p, x.at, x.acquired, s, x.into, x.cut)
<1>1. [x EXCEPT !.pc = p] = St(p, x.at, x.acquired, x.sessions, x.into, x.cut)
  BY DEF RunStates, St
<1>2. [St(p, x.at, x.acquired, x.sessions, x.into, x.cut) EXCEPT !.sessions = s]
        = St(p, x.at, x.acquired, s, x.into, x.cut)
  BY DEF St
<1>3. [x EXCEPT !.pc = p, !.sessions = s] = [[x EXCEPT !.pc = p] EXCEPT !.sessions = s]
  OBVIOUS
<1> QED  BY <1>1, <1>2, <1>3

LEMMA FreshFields ==
  /\ Fresh \in RunStates /\ Fresh.pc = "idle" /\ Fresh.at = 1 /\ Fresh.acquired = 0
  /\ Fresh.sessions = {} /\ Fresh.into = 0 /\ Fresh.cut = FALSE
  BY OrderFacts DEF Fresh, RunStates

-----------------------------------------------------------------------------
(* One run changes its state, and perhaps one host its lock. *)

LEMMA RunStep ==
  ASSUME IInv, UNCHANGED world, NEW r \in Runs, NEW x \in RunStates,
         run' = [run EXCEPT ![r] = x],
         x.pc \in Locking => x.at \in HostIndex /\ x.acquired = x.at - 1,
         x.pc = "apply" => x.acquired = Len(Order),
         x.pc = "remove" => x.at \in HostIndex,
         dir' \in [Locks -> {0} \cup Runs], owner' \in [Locks -> Owners], boot' \in [Hosts -> Nat], faults' \in Nat,
         NotTaken =>
           /\ TokensMatch'
           /\ Holds(r, x, dir', owner')
           /\ \A h \in Locks : dir[h] \in Runs \ {r} => dir'[h] = dir[h] /\ owner'[h] = owner[h]
  PROVE  IInv'
<1>1. run' \in [Runs -> RunStates]
  BY DEF IInv, TypeOK
<1>2. run'[r] = x /\ \A q \in Runs \ {r} : run'[q] = run[q]
  BY DEF IInv, TypeOK
<1>3. TypeOK'
  BY <1>1 DEF TypeOK
<1>4. Placed'
  BY <1>2 DEF IInv, Placed
<1>5. Safe'
  <2> SUFFICES ASSUME NotTaken, NEW q \in Runs PROVE Holds(q, run'[q], dir', owner')
    BY DEF Safe, NotTaken
  <2>1. CASE q = r
    BY <2>1, <1>2
  <2>2. CASE q # r
    <3>1. run'[q] = run[q] /\ Holds(q, run[q], dir, owner)
      BY <2>2, <1>2 DEF IInv, Safe
    <3>2. \A h \in Locks : dir[h] = q => dir'[h] = q /\ owner'[h] = owner[h]
      BY <2>2
    <3>3. run[q].pc \in {"open", "write", "remove"} => LockOf(q, run[q].at) \in Locks
      BY OrderFacts DEF IInv, Placed, Locking
    <3> QED  BY <3>1, <3>2, <3>3, OrderFacts DEF Holds
  <2> QED  BY <2>1, <2>2
<1> QED  BY <1>3, <1>4, <1>5 DEF IInv

\* A step that touches no host.
LEMMA QuietStep ==
  ASSUME IInv, UNCHANGED <<world, dir, owner, boot>>, faults' \in Nat, NEW r \in Runs, NEW x \in RunStates,
         run' = [run EXCEPT ![r] = x],
         x.pc \in Locking => x.at \in HostIndex /\ x.acquired = x.at - 1,
         x.pc = "apply" => x.acquired = Len(Order),
         x.pc = "remove" => x.at \in HostIndex,
         NotTaken => Holds(r, x, dir, owner)
  PROVE  IInv'
<1>1. NotTaken => TokensMatch' /\ Holds(r, x, dir', owner')
  BY DEF IInv, Safe, TokensMatch
<1>2. dir' \in [Locks -> {0} \cup Runs] /\ owner' \in [Locks -> Owners] /\ boot' \in [Hosts -> Nat]
  BY DEF IInv, TypeOK
<1>3. \A h \in Locks : dir'[h] = dir[h] /\ owner'[h] = owner[h]
  OBVIOUS
<1> HIDE DEF Holds, NotTaken
<1> QED  BY <1>1, <1>2, <1>3, RunStep

\* A state in which a run relies on nothing.
LEMMA Nothing ==
  ASSUME NEW r, NEW x, NEW d, NEW o, x.pc \in {"idle", "check", "end", "killed"}
  PROVE  Holds(r, x, d, o)
  BY DEF Holds, Locking

LEMMA GivesUp ==
  ASSUME IInv, UNCHANGED <<world, dir, owner, boot>>, faults' \in Nat, NEW r \in Runs, GiveUp(r)
  PROVE  IInv'
<1> DEFINE x == St("check", 1, run[r].acquired, run[r].sessions, run[r].into, run[r].cut)
<1>1. run' = [run EXCEPT ![r] = x]
  <2>1. run' = [run EXCEPT ![r] = [run[r] EXCEPT !.pc = "check", !.at = 1]]
    BY DEF IInv, TypeOK, GiveUp
  <2>2. [run[r] EXCEPT !.pc = "check", !.at = 1] = x
    BY Fields, PcAndAt DEF IInv
  <2> QED  BY <2>1, <2>2
<1>2. x \in RunStates
  <2>1. 1 \in 1 .. Len(Order) + 1
    BY OrderFacts
  <2> QED  BY <2>1, Fields DEF IInv, St, RunStates
<1>3. x.pc = "check"
  BY DEF St
<1> HIDE DEF x
<1>4. Holds(r, x, dir, owner)
  BY <1>3, Nothing
<1> QED  BY <1>1, <1>2, <1>3, <1>4, QuietStep DEF Locking

-----------------------------------------------------------------------------
(* The steps of a run. *)

LEMMA ConnectStep ==
  ASSUME IInv, UNCHANGED world, NEW r \in Runs, Connect(r)
  PROVE  IInv'
<1> DEFINE x == St("mkdir", 1, 0, Hosts, 0, FALSE)
<1>1. run' = [run EXCEPT ![r] = x]
  <2>1. [Fresh EXCEPT !.pc = "mkdir", !.sessions = Hosts] = x
    BY FreshFields, PcAndSessions
  <2> QED  BY <2>1 DEF Connect
<1>2. x \in RunStates
  BY OrderFacts DEF St, RunStates
<1>3. x.pc = "mkdir" /\ x.at = 1 /\ x.acquired = 0
  BY DEF St
<1> HIDE DEF x
<1>4. x.at \in HostIndex /\ x.acquired = x.at - 1
  BY <1>3, OrderFacts DEF HostIndex
<1>5. Holds(r, x, dir, owner)
  <2>1. \A i \in HostIndex : ~(i <= x.acquired)
    BY <1>3, OrderFacts DEF HostIndex
  <2> QED  BY <1>3, <2>1 DEF Holds
<1>6. faults' \in Nat
  BY DEF Connect, IInv, TypeOK
<1> QED  BY <1>1, <1>2, <1>3, <1>4, <1>5, <1>6, QuietStep DEF Connect

LEMMA MakeStep ==
  ASSUME IInv, UNCHANGED world, NEW r \in Runs, NEW label \in {"mkdir", "remake"}, Make(r, label)
  PROVE  IInv'
<1> USE DEF IInv
<1>0. Host(r) \in Hosts /\ Lock(r) \in Locks /\ run[r].at \in HostIndex /\ run[r].acquired = run[r].at - 1 /\ faults' \in Nat
  BY OrderFacts DEF Make, Placed, Locking, Host, Lock, TypeOK
<1>1. CASE dir[Lock(r)] = 0
  <2> DEFINE x == St("open", run[r].at, run[r].acquired, run[r].sessions, run[r].into, run[r].cut)
  <2>1. run' = [run EXCEPT ![r] = x]
    BY <1>1, Fields DEF Make, St, TypeOK, RunStates
  <2>2. x \in RunStates
    BY Fields DEF St, RunStates
  <2>3. x.pc = "open" /\ x.at = run[r].at /\ x.acquired = run[r].acquired /\ x.sessions = run[r].sessions
    BY DEF St
  <2>4. dir' = [dir EXCEPT ![Lock(r)] = r] /\ owner' = [owner EXCEPT ![Lock(r)] = NoOwner] /\ UNCHANGED boot
    BY <1>1 DEF Make
  <2>5. NoOwner \in Owners /\ NoOwner.token = 0
    BY DEF NoOwner, Owners
  <2>6. dir' \in [Locks -> {0} \cup Runs] /\ owner' \in [Locks -> Owners] /\ boot' \in [Hosts -> Nat]
    BY <2>4, <2>5 DEF TypeOK
  <2>7. /\ dir'[Lock(r)] = r /\ owner'[Lock(r)].token = 0
        /\ \A h \in Locks \ {Lock(r)} : dir'[h] = dir[h] /\ owner'[h] = owner[h]
    BY <1>0, <2>4, <2>5 DEF TypeOK
  <2>8. TokensMatch => TokensMatch'
    BY <2>7 DEF TokensMatch
  <2>9. \A h \in Locks : dir[h] \in Runs \ {r} => dir'[h] = dir[h] /\ owner'[h] = owner[h]
    BY <1>1, <2>7, OrderFacts
  <2>10. Holds(r, run[r], dir, owner) => Holds(r, x, dir', owner')
    <3> HIDE DEF x
    <3>1. run[r].pc \in {"mkdir", "remake"}
      BY DEF Make
    <3>2. \A i \in HostIndex : i <= x.acquired => LockOf(r, i) \in Locks \ {Lock(r)}
      BY <1>0, <2>3, OrderFacts DEF HostIndex, Host, Lock
    <3> QED  BY <2>3, <2>7, <3>1, <3>2 DEF Holds, Locking, Host, Lock
  <2> HIDE DEF x
  <2> QED  BY <1>0, <2>1, <2>2, <2>3, <2>6, <2>8, <2>9, <2>10, RunStep DEF Safe
<1>2. CASE dir[Lock(r)] # 0 /\ label = "mkdir"
  <2> DEFINE x == St("read", run[r].at, run[r].acquired, run[r].sessions, run[r].into, run[r].cut)
  <2>1. run' = [run EXCEPT ![r] = x] /\ UNCHANGED <<dir, owner, boot>>
    BY <1>2, Fields DEF Make, St, TypeOK, RunStates
  <2>2. x \in RunStates
    BY Fields DEF St, RunStates
  <2>3. x.pc = "read" /\ x.at = run[r].at /\ x.acquired = run[r].acquired /\ x.sessions = run[r].sessions
    BY DEF St
  <2> HIDE DEF x
  <2>4. Holds(r, run[r], dir, owner) => Holds(r, x, dir, owner)
    BY <1>2, <2>3 DEF Holds, Locking, Make
  <2> QED  BY <1>0, <2>1, <2>2, <2>3, <2>4, QuietStep DEF Safe
<1>3. CASE dir[Lock(r)] # 0 /\ label = "remake"
  BY <1>0, <1>3, GivesUp DEF Make
<1> QED  BY <1>1, <1>2, <1>3

\* write_owner opens the file in a directory that is still the run's own.
LEMMA OpenStep ==
  ASSUME IInv, UNCHANGED world, NEW r \in Runs, OpenOwner(r)
  PROVE  IInv'
<1> USE DEF IInv
<1>0. Host(r) \in Hosts /\ Lock(r) \in Locks /\ run[r].at \in HostIndex /\ run[r].acquired = run[r].at - 1 /\ faults' \in Nat
  BY OrderFacts DEF OpenOwner, Placed, Locking, Host, Lock, TypeOK
<1>1. CASE dir[Lock(r)] # 0
  <2> DEFINE x == St("write", run[r].at, run[r].acquired, run[r].sessions, dir[Lock(r)], run[r].cut)
  <2>1. run' = [run EXCEPT ![r] = x]
    <3>1. run' = [run EXCEPT ![r] = [run[r] EXCEPT !.pc = "write", !.into = dir[Lock(r)]]]
      BY <1>1 DEF TypeOK, OpenOwner
    <3>2. [run[r] EXCEPT !.pc = "write", !.into = dir[Lock(r)]] = x
      BY Fields, PcAndInto
    <3> QED  BY <3>1, <3>2
  <2>2. x \in RunStates
    <3>1. dir[Lock(r)] \in {0} \cup Runs
      BY <1>0 DEF TypeOK
    <3> QED  BY <3>1, Fields DEF St, RunStates
  <2>3. /\ x.pc = "write" /\ x.at = run[r].at /\ x.acquired = run[r].acquired
        /\ x.sessions = run[r].sessions /\ x.into = dir[Lock(r)]
    BY DEF St
  <2> HIDE DEF x
  <2>4. owner' = [owner EXCEPT ![Lock(r)] = EmptyOwner] /\ UNCHANGED <<dir, boot>>
    BY <1>1 DEF OpenOwner
  <2>5. EmptyOwner \in Owners /\ EmptyOwner.token = 0
    BY DEF EmptyOwner, Owners
  <2>6. dir' \in [Locks -> {0} \cup Runs] /\ owner' \in [Locks -> Owners] /\ boot' \in [Hosts -> Nat]
    BY <2>4, <2>5 DEF TypeOK
  <2>7. /\ owner'[Lock(r)].token = 0
        /\ \A h \in Locks \ {Lock(r)} : owner'[h] = owner[h]
    BY <1>0, <2>4, <2>5 DEF TypeOK
  <2>8. TokensMatch => TokensMatch'
    BY <2>4, <2>7 DEF TokensMatch
  <2>9. Holds(r, run[r], dir, owner) => dir[Lock(r)] = r
    BY DEF Holds, OpenOwner, Host, Lock, Connected
  <2>10. Holds(r, run[r], dir, owner) =>
           \A h \in Locks : dir[h] \in Runs \ {r} => dir'[h] = dir[h] /\ owner'[h] = owner[h]
    BY <2>4, <2>7, <2>9
  <2>11. Holds(r, run[r], dir, owner) => Holds(r, x, dir', owner')
    <3>1. run[r].pc = "open"
      BY DEF OpenOwner
    <3>2. \A i \in HostIndex : i <= x.acquired => LockOf(r, i) \in Locks \ {Lock(r)}
      BY <1>0, <2>3, OrderFacts DEF HostIndex, Host, Lock
    <3> QED  BY <2>3, <2>4, <2>7, <2>9, <3>1, <3>2 DEF Holds, Locking, Host, Lock
  <2> QED  BY <1>0, <2>1, <2>2, <2>3, <2>6, <2>8, <2>10, <2>11, RunStep DEF Safe
<1>2. CASE dir[Lock(r)] = 0
  BY <1>0, <1>2, GivesUp DEF OpenOwner
<1> QED  BY <1>1, <1>2

\* What is written reaches the directory of the run itself.
LEMMA WriteStep ==
  ASSUME IInv, UNCHANGED world, NEW r \in Runs, WriteOwner(r)
  PROVE  IInv'
<1> USE DEF IInv
<1>0. Host(r) \in Hosts /\ Lock(r) \in Locks /\ run[r].at \in HostIndex /\ run[r].acquired = run[r].at - 1 /\ faults' \in Nat
  BY OrderFacts DEF WriteOwner, Placed, Locking, Host, Lock, TypeOK
<1> DEFINE last == run[r].at = Len(Order)
           x == St(IF last THEN "apply" ELSE "mkdir", IF last THEN run[r].at ELSE run[r].at + 1, run[r].at,
                   run[r].sessions, 0, run[r].cut)
           rec == [file |-> TRUE, token |-> r, boot |-> boot[Host(r)]]
           new == IF dir[Lock(r)] = run[r].into THEN rec ELSE owner[Lock(r)]
<1>1. run' = [run EXCEPT ![r] = x]
  <2>1. CASE last
    <3>1. [run[r] EXCEPT !.pc = "apply", !.acquired = run[r].at, !.into = 0] = x
      BY <2>1, Fields, Acquires
    <3> QED  BY <2>1, <3>1 DEF WriteOwner
  <2>2. CASE ~last
    <3>1. [run[r] EXCEPT !.pc = "mkdir", !.acquired = run[r].at, !.at = run[r].at + 1, !.into = 0] = x
      BY <2>2, Fields, GoesOn
    <3>2. run' = [run EXCEPT ![r] = [run[r] EXCEPT !.pc = "mkdir", !.acquired = run[r].at, !.at = run[r].at + 1, !.into = 0]]
      BY <2>2 DEF WriteOwner
    <3> QED  BY <3>1, <3>2
  <2> QED  BY <2>1, <2>2
<1>2. x \in RunStates
  <2>1. run[r].at \in 0 .. Len(Order) /\ (IF last THEN run[r].at ELSE run[r].at + 1) \in 1 .. Len(Order) + 1
    BY <1>0, OrderFacts DEF HostIndex
  <2> QED  BY <2>1, Fields DEF St, RunStates
<1>3. /\ x.pc = (IF last THEN "apply" ELSE "mkdir") /\ x.at = (IF last THEN run[r].at ELSE run[r].at + 1)
      /\ x.acquired = run[r].at /\ x.sessions = run[r].sessions
  BY DEF St
<1>4. owner' = [owner EXCEPT ![Lock(r)] = new] /\ UNCHANGED <<dir, boot>>
  BY DEF WriteOwner
<1>5. rec \in Owners /\ rec.token = r
  <2>1. boot[Host(r)] \in Int
    BY <1>0 DEF TypeOK
  <2> QED  BY <2>1 DEF Owners
<1> HIDE DEF x, rec
<1>6. new \in Owners
  BY <1>0, <1>5 DEF TypeOK
<1>7. Holds(r, run[r], dir, owner) => dir[Lock(r)] = r /\ new.token = r
  <2> SUFFICES ASSUME Holds(r, run[r], dir, owner) PROVE dir[Lock(r)] = r /\ new.token = r
    OBVIOUS
  <2>1. run[r].pc = "write" /\ Order[run[r].at] \in run[r].sessions
    BY DEF WriteOwner, Connected, Host, Lock
  <2>2. dir[Lock(r)] = r /\ run[r].into = r
    BY <2>1 DEF Holds, Host, Lock
  <2> QED  BY <2>2, <1>5
<1> HIDE DEF new
<1>8. dir' \in [Locks -> {0} \cup Runs] /\ owner' \in [Locks -> Owners] /\ boot' \in [Hosts -> Nat]
  BY <1>4, <1>6 DEF TypeOK
<1>9. owner'[Lock(r)] = new /\ \A h \in Locks \ {Lock(r)} : owner'[h] = owner[h]
  BY <1>0, <1>4 DEF TypeOK
<1>10. TokensMatch /\ Holds(r, run[r], dir, owner) => TokensMatch'
  BY <1>4, <1>7, <1>9 DEF TokensMatch
<1>11. Holds(r, run[r], dir, owner) =>
         \A h \in Locks : dir[h] \in Runs \ {r} => dir'[h] = dir[h] /\ owner'[h] = owner[h]
  BY <1>4, <1>7, <1>9
<1>12. Holds(r, run[r], dir, owner) => Holds(r, x, dir', owner')
  <2> SUFFICES ASSUME Holds(r, run[r], dir, owner),
                      NEW i \in HostIndex, i <= x.acquired, Order[i] \in x.sessions
               PROVE  dir'[LockOf(r, i)] = r /\ owner'[LockOf(r, i)].token = r
    BY <1>3 DEF Holds
  <2>1. CASE i = run[r].at
    BY <2>1, <1>4, <1>7, <1>9 DEF Host, Lock
  <2>2. CASE i # run[r].at
    <3>1. i <= run[r].acquired /\ LockOf(r, i) \in Locks \ {Lock(r)}
      BY <2>2, <1>0, <1>3, OrderFacts DEF HostIndex, Host, Lock
    <3>2. dir[LockOf(r, i)] = r /\ owner[LockOf(r, i)].token = r
      BY <1>3, <3>1 DEF Holds, WriteOwner, Locking
    <3> QED  BY <3>1, <3>2, <1>4, <1>9
  <2> QED  BY <2>1, <2>2
<1>13. /\ x.pc \in Locking => x.at \in HostIndex /\ x.acquired = x.at - 1
       /\ x.pc = "apply" => x.acquired = Len(Order)
       /\ x.pc # "remove"
  BY <1>0, <1>3, OrderFacts DEF HostIndex, Locking
<1> QED  BY <1>0, <1>1, <1>2, <1>8, <1>10, <1>11, <1>12, <1>13, RunStep DEF Safe

\* A run that relies on nothing.
LEMMA RestStep ==
  ASSUME IInv, UNCHANGED <<world, dir, owner, boot>>, faults' \in Nat, NEW r \in Runs, NEW x \in RunStates,
         run' = [run EXCEPT ![r] = x], x.pc \in {"check", "end", "killed"}
  PROVE  IInv'
<1>1. Holds(r, x, dir, owner)
  BY Nothing
<1> QED  BY <1>1, QuietStep DEF Locking

\* What waits for an owner record gives up, or reclaims where that is allowed.
LEMMA ReadStep ==
  ASSUME IInv, UNCHANGED world, NEW r \in Runs, ReadOwner(r)
  PROVE  IInv'
<1> USE DEF IInv
<1>0. run[r].at \in HostIndex /\ run[r].acquired = run[r].at - 1 /\ faults' \in Nat /\ UNCHANGED <<dir, owner, boot>>
  BY DEF ReadOwner, Placed, Locking, TypeOK
<1>1. CASE owner[Lock(r)].file /\ Stale(r)
  <2> DEFINE x == St("steal", run[r].at, run[r].acquired, run[r].sessions, run[r].into, run[r].cut)
  <2>1. run' = [run EXCEPT ![r] = x]
    BY <1>1, Fields DEF ReadOwner, St, TypeOK, RunStates
  <2>2. x \in RunStates
    BY Fields DEF St, RunStates
  <2>3. x.pc = "steal" /\ x.at = run[r].at /\ x.acquired = run[r].acquired
    BY DEF St
  <2> HIDE DEF x
  <2>4. ~NotTaken
    BY <1>1 DEF Stale, NotTaken
  <2> QED  BY <1>0, <2>1, <2>2, <2>3, <2>4, QuietStep
<1>2. CASE ~(owner[Lock(r)].file /\ Stale(r))
  BY <1>0, <1>2, GivesUp DEF ReadOwner
<1> QED  BY <1>1, <1>2

LEMMA RemoveType ==
  ASSUME TypeOK, NEW h \in Locks, Remove(h)
  PROVE  /\ dir' \in [Locks -> {0} \cup Runs] /\ owner' \in [Locks -> Owners]
         /\ dir'[h] = 0 /\ owner'[h].token = 0
         /\ \A k \in Locks \ {h} : dir'[k] = dir[k] /\ owner'[k] = owner[k]
<1>1. NoOwner \in Owners /\ NoOwner.token = 0
  BY DEF NoOwner, Owners
<1> QED  BY <1>1 DEF Remove, TypeOK

LEMMA StealStep ==
  ASSUME IInv, UNCHANGED world, NEW r \in Runs, Steal(r)
  PROVE  IInv'
<1> USE DEF IInv
<1>0. Host(r) \in Hosts /\ Lock(r) \in Locks /\ run[r].at \in HostIndex /\ run[r].acquired = run[r].at - 1
      /\ faults' \in Nat /\ boot' \in [Hosts -> Nat]
  BY OrderFacts DEF Steal, Placed, Locking, Host, Lock, TypeOK
<1> DEFINE x == St("remake", run[r].at, run[r].acquired, run[r].sessions, run[r].into, run[r].cut)
<1>1. run' = [run EXCEPT ![r] = x]
  <2>1. [run[r] EXCEPT !.pc = "remake"] = x
    BY Fields DEF St, RunStates
  <2> QED  BY <2>1 DEF Steal, TypeOK
<1>2. x \in RunStates
  BY Fields DEF St, RunStates
<1>3. x.pc = "remake" /\ x.at = run[r].at /\ x.acquired = run[r].acquired
  BY DEF St
<1> HIDE DEF x
<1>4. ~NotTaken
  BY DEF Steal, Safe, Holds
<1>5. dir' \in [Locks -> {0} \cup Runs] /\ owner' \in [Locks -> Owners]
  BY <1>0, RemoveType DEF Steal
<1> QED  BY <1>0, <1>1, <1>2, <1>3, <1>4, <1>5, RunStep

\* release: the lock that is about to be removed is the run's own.
LEMMA CheckStep ==
  ASSUME IInv, UNCHANGED world, NEW r \in Runs, CheckOwner(r)
  PROVE  IInv'
<1> USE DEF IInv
<1>0. faults' \in Nat /\ UNCHANGED <<dir, owner, boot>>
  BY DEF CheckOwner, TypeOK
<1>1. CASE run[r].at > run[r].acquired
  <2> DEFINE x == St("end", 1, run[r].acquired, {}, run[r].into, run[r].cut)
  <2>1. [run[r] EXCEPT !.pc = "end", !.sessions = {}, !.at = 1] = x
    BY Fields, Leaves
  <2>2. run' = [run EXCEPT ![r] = x]
    BY <1>1, <2>1 DEF CheckOwner
  <2>3. x \in RunStates
    BY OrderFacts, Fields DEF St, RunStates
  <2>4. x.pc = "end"
    BY DEF St
  <2> HIDE DEF x
  <2> QED  BY <1>0, <2>2, <2>3, <2>4, RestStep
<1>2. CASE ~(run[r].at > run[r].acquired)
  <2>1. run[r].at \in HostIndex /\ run[r].at + 1 \in 1 .. Len(Order) + 1
    BY <1>2, Fields, OrderFacts DEF HostIndex
  <2>2. CASE Connected(r) /\ owner[Lock(r)].token = r
    <3> DEFINE x == St("remove", run[r].at, run[r].acquired, run[r].sessions, run[r].into, run[r].cut)
    <3>1. [run[r] EXCEPT !.pc = "remove"] = x
      BY Fields DEF RunStates, St
    <3>2. run' = [run EXCEPT ![r] = x]
      BY <1>2, <2>2, <3>1 DEF CheckOwner
    <3>3. x \in RunStates
      BY Fields DEF St, RunStates
    <3>4. x.pc = "remove" /\ x.at = run[r].at
      BY DEF St
    <3> HIDE DEF x
    <3>5. TokensMatch => dir[Lock(r)] = r
      BY <2>1, <2>2, OrderFacts DEF TokensMatch, Host, Lock
    <3>6. NotTaken => Holds(r, x, dir, owner)
      BY <3>4, <3>5 DEF Safe, Holds, Locking, Host, Lock
    <3> QED  BY <1>0, <2>1, <3>2, <3>3, <3>4, <3>6, QuietStep DEF Locking
  <2>3. CASE ~(Connected(r) /\ owner[Lock(r)].token = r)
    <3> DEFINE x == St(run[r].pc, run[r].at + 1, run[r].acquired, run[r].sessions, run[r].into, run[r].cut)
    <3>1. [run[r] EXCEPT !.at = run[r].at + 1] = x
      BY Fields DEF RunStates, St
    <3>2. run' = [run EXCEPT ![r] = x]
      BY <1>2, <2>3, <3>1 DEF CheckOwner
    <3>3. x \in RunStates
      BY <2>1, Fields DEF St, RunStates
    <3>4. x.pc = "check"
      BY DEF St, CheckOwner
    <3> HIDE DEF x
    <3> QED  BY <1>0, <3>2, <3>3, <3>4, RestStep
  <2> QED  BY <2>2, <2>3
<1> QED  BY <1>1, <1>2

LEMMA ReleaseStep ==
  ASSUME IInv, UNCHANGED world, NEW r \in Runs, Release(r)
  PROVE  IInv'
<1> USE DEF IInv
<1>0. Host(r) \in Hosts /\ Lock(r) \in Locks /\ run[r].at \in HostIndex /\ run[r].at + 1 \in 1 .. Len(Order) + 1
      /\ faults' \in Nat /\ UNCHANGED boot /\ boot' \in [Hosts -> Nat]
  BY OrderFacts DEF Release, Placed, Host, Lock, HostIndex, TypeOK
<1> DEFINE x == St("check", run[r].at + 1, run[r].acquired, run[r].sessions, run[r].into, run[r].cut)
<1>1. run' = [run EXCEPT ![r] = x]
  <2>1. run' = [run EXCEPT ![r] = [run[r] EXCEPT !.pc = "check", !.at = run[r].at + 1]]
    BY DEF Release, TypeOK
  <2>2. [run[r] EXCEPT !.pc = "check", !.at = run[r].at + 1] = x
    BY Fields, PcAndAt
  <2> QED  BY <2>1, <2>2
<1>2. x \in RunStates
  BY <1>0, Fields DEF St, RunStates
<1>3. x.pc = "check"
  BY DEF St
<1> HIDE DEF x
<1>4. CASE Connected(r)
  <2>1. /\ dir' \in [Locks -> {0} \cup Runs] /\ owner' \in [Locks -> Owners]
        /\ dir'[Lock(r)] = 0 /\ owner'[Lock(r)].token = 0
        /\ \A k \in Locks \ {Lock(r)} : dir'[k] = dir[k] /\ owner'[k] = owner[k]
    BY <1>0, <1>4, RemoveType DEF Release
  <2>2. NotTaken => dir[Lock(r)] = r
    BY <1>4 DEF Safe, Holds, Release, Connected, Host, Lock
  <2>3. NotTaken => TokensMatch'
    BY <2>1 DEF Safe, TokensMatch
  <2>4. NotTaken => \A h \in Locks : dir[h] \in Runs \ {r} => dir'[h] = dir[h] /\ owner'[h] = owner[h]
    BY <2>1, <2>2
  <2>5. Holds(r, x, dir', owner')
    BY <1>3, Nothing
  <2> QED  BY <1>0, <1>1, <1>2, <1>3, <2>1, <2>3, <2>4, <2>5, RunStep DEF Locking
<1>5. CASE ~Connected(r)
  BY <1>0, <1>1, <1>2, <1>3, <1>5, RestStep DEF Release
<1> QED  BY <1>4, <1>5

\* A lock that cannot be removed: the run goes on and remembers it.
LEMMA ReleaseFailsRun ==
  ASSUME IInv, NEW r \in Runs, ReleaseFails(r)
  PROVE  \E x \in RunStates : /\ run' = [run EXCEPT ![r] = x] /\ x.pc = "check" /\ x.cut
<1>0. run[r].at \in HostIndex /\ run[r].at + 1 \in 1 .. Len(Order) + 1 /\ run[r] \in RunStates
  BY OrderFacts, Fields DEF ReleaseFails, IInv, Placed, HostIndex
<1> DEFINE a == run[r].at + 1
           c == TRUE
           x == St("check", a, run[r].acquired, run[r].sessions, run[r].into, c)
<1>1. run' = [run EXCEPT ![r] = [run[r] EXCEPT !.pc = "check", !.at = a, !.cut = c]]
  BY DEF ReleaseFails, IInv, TypeOK
<1>3. a \in 1 .. Len(Order) + 1 /\ c \in BOOLEAN /\ c
  BY <1>0
<1> HIDE DEF a, c
<1>2. [run[r] EXCEPT !.pc = "check", !.at = a, !.cut = c] = x
  <2>1. [run[r] EXCEPT !.pc = "check", !.at = a] = St("check", a, run[r].acquired, run[r].sessions, run[r].into, run[r].cut)
    BY <1>0, PcAndAt
  <2>2. [St("check", a, run[r].acquired, run[r].sessions, run[r].into, run[r].cut) EXCEPT !.cut = c] = x
    BY DEF St
  <2>3. [run[r] EXCEPT !.pc = "check", !.at = a, !.cut = c] = [[run[r] EXCEPT !.pc = "check", !.at = a] EXCEPT !.cut = c]
    OBVIOUS
  <2> QED  BY <2>1, <2>2, <2>3
<1>5. x \in RunStates
  BY <1>0, <1>3, Fields DEF St, RunStates, IInv
<1>4. x.pc = "check" /\ x.cut = c
  BY DEF St
<1>6. x.pc = "check" /\ x.cut
  BY <1>3, <1>4
<1>7. run' = [run EXCEPT ![r] = x]
  BY <1>1, <1>2
<1> HIDE DEF x
<1> QED  BY <1>5, <1>6, <1>7

LEMMA ReleaseFailsStep ==
  ASSUME IInv, UNCHANGED world, NEW r \in Runs, ReleaseFails(r)
  PROVE  IInv'
<1> USE DEF IInv
<1>0. Host(r) \in Hosts /\ Lock(r) \in Locks /\ faults' \in Nat /\ boot' \in [Hosts -> Nat] /\ UNCHANGED dir
  BY OrderFacts DEF ReleaseFails, Fault, Placed, Host, Lock, TypeOK
<1>1. PICK x \in RunStates : run' = [run EXCEPT ![r] = x] /\ x.pc = "check"
  BY ReleaseFailsRun
<1>2. NoOwner \in Owners /\ NoOwner.token = 0
  BY DEF NoOwner, Owners
<1>3. /\ owner' \in [Locks -> Owners] /\ owner'[Lock(r)].token \in {owner[Lock(r)].token, 0}
      /\ \A k \in Locks \ {Lock(r)} : owner'[k] = owner[k]
  BY <1>0, <1>2 DEF ReleaseFails, TypeOK
<1>4. NotTaken => dir[Lock(r)] = r
  BY DEF Safe, Holds, ReleaseFails, Connected, Host, Lock
<1>5. NotTaken => TokensMatch'
  BY <1>0, <1>3 DEF Safe, TokensMatch
<1>6. NotTaken => \A h \in Locks : dir[h] \in Runs \ {r} => dir'[h] = dir[h] /\ owner'[h] = owner[h]
  BY <1>0, <1>3, <1>4
<1>7. Holds(r, x, dir', owner')
  BY <1>1, Nothing
<1>8. dir' \in [Locks -> {0} \cup Runs]
  BY <1>0 DEF TypeOK
<1> QED  BY <1>0, <1>1, <1>3, <1>5, <1>6, <1>7, <1>8, RunStep DEF Locking

-----------------------------------------------------------------------------
(* What happens around the runs. *)

LEMMA KillStep ==
  ASSUME IInv, UNCHANGED world, NEW r \in Runs, Kill(r)
  PROVE  IInv'
<1> DEFINE x == [Fresh EXCEPT !.pc = "killed"]
<1>1. run' = [run EXCEPT ![r] = x]
  BY DEF Kill
<1>2. x \in RunStates /\ x.pc = "killed"
  BY FreshFields DEF RunStates
<1>3. faults' \in Nat /\ UNCHANGED <<dir, owner, boot>>
  BY DEF Kill, Fault, IInv, TypeOK
<1> HIDE DEF x
<1> QED  BY <1>1, <1>2, <1>3, RestStep

LEMMA CutFields ==
  ASSUME NEW x \in RunStates, NEW h
  PROVE  LET y == Cut(x, h)
         IN  /\ y \in RunStates /\ y.pc = x.pc /\ y.at = x.at /\ y.acquired = x.acquired
             /\ y.sessions = x.sessions \ {h} /\ y.into = x.into
<1> DEFINE s == x.sessions \ {h}
           c == x.cut \/ h \in x.sessions
<1>1. s \in SUBSET Hosts /\ c \in BOOLEAN
  BY DEF RunStates
<1>2. Cut(x, h) = [x EXCEPT !.sessions = s, !.cut = c]
  BY DEF Cut
<1>3. s = x.sessions \ {h}
  OBVIOUS
<1> HIDE DEF s, c
<1>4. Cut(x, h) = St(x.pc, x.at, x.acquired, s, x.into, c)
  BY <1>2, CutState
<1>5. St(x.pc, x.at, x.acquired, s, x.into, c) \in RunStates
  BY <1>1 DEF St, RunStates
<1> QED  BY <1>3, <1>4, <1>5 DEF St

LEMMA LoseStep ==
  ASSUME IInv, UNCHANGED world, NEW r \in Runs, NEW h \in Hosts, Lose(r, h)
  PROVE  IInv'
<1> USE DEF IInv
<1> DEFINE x == Cut(run[r], h)
<1>1. run' = [run EXCEPT ![r] = x] /\ faults' \in Nat /\ UNCHANGED <<dir, owner, boot>>
  BY DEF Lose, Fault, TypeOK
<1>2. /\ x \in RunStates /\ x.pc = run[r].pc /\ x.at = run[r].at /\ x.acquired = run[r].acquired
      /\ x.sessions = run[r].sessions \ {h} /\ x.into = run[r].into
  BY Fields, CutFields
<1> HIDE DEF x
<1>3. Holds(r, run[r], dir, owner) => Holds(r, x, dir, owner)
  BY <1>2 DEF Holds
<1> QED  BY <1>1, <1>2, <1>3, QuietStep DEF Safe, Placed

LEMMA RebootStep ==
  ASSUME IInv, UNCHANGED world, NEW h \in Hosts, Reboot(h)
  PROVE  IInv'
<1> USE DEF IInv
<1>1. /\ dir' \in [Locks -> {0} \cup Runs] /\ owner' \in [Locks -> Owners]
      /\ \A k \in Locks : k[1] # h => dir'[k] = dir[k] /\ owner'[k] = owner[k]
      /\ TokensMatch => TokensMatch'
  <2>1. NoOwner \in Owners /\ NoOwner.token = 0
    BY DEF NoOwner, Owners
  <2>2. dir' \in [Locks -> {0} \cup Runs] /\ owner' \in [Locks -> Owners]
    BY <2>1 DEF Reboot, TypeOK
  <2>3. \A k \in Locks : \/ dir'[k] = dir[k] /\ owner'[k] = owner[k]
                         \/ k[1] = h /\ dir'[k] = 0 /\ owner'[k] = NoOwner
    BY DEF Reboot
  <2>4. TokensMatch => TokensMatch'
    BY <2>1, <2>3 DEF TokensMatch
  <2> QED  BY <2>2, <2>3, <2>4
<1>2. boot' \in [Hosts -> Nat] /\ faults' \in Nat
  BY DEF Reboot, Fault, TypeOK
<1>3. ASSUME NEW q \in Runs
      PROVE  /\ run'[q] \in RunStates /\ run'[q].pc = run[q].pc /\ run'[q].at = run[q].at
             /\ run'[q].acquired = run[q].acquired
             /\ run'[q].sessions = run[q].sessions \ {h} /\ run'[q].into = run[q].into
  <2>1. run'[q] = Cut(run[q], h)
    BY DEF Reboot
  <2> QED  BY <2>1, Fields, CutFields
<1>4. TypeOK'
  <2>1. run' = [q \in Runs |-> run'[q]]
    BY DEF Reboot
  <2>2. run' \in [Runs -> RunStates]
    BY <2>1, <1>3
  <2> QED  BY <1>1, <1>2, <2>2 DEF TypeOK
<1>5. Placed'
  BY <1>3 DEF Placed
<1>6. Safe'
  <2> SUFFICES ASSUME NotTaken, NEW q \in Runs PROVE Holds(q, run'[q], dir', owner')
    BY <1>1 DEF Safe, NotTaken
  <2>1. Holds(q, run[q], dir, owner)
    BY DEF Safe
  <2>2. \A i \in HostIndex : Order[i] \in run'[q].sessions =>
          Order[i] \in run[q].sessions /\ dir'[LockOf(q, i)] = dir[LockOf(q, i)] /\ owner'[LockOf(q, i)] = owner[LockOf(q, i)]
    BY <1>1, <1>3, OrderFacts
  <2>3. run[q].pc \in {"open", "write", "remove"} => run[q].at \in HostIndex
    BY DEF Placed, Locking
  <2> QED  BY <1>3, <2>1, <2>2, <2>3 DEF Holds
<1> QED  BY <1>4, <1>5, <1>6

LEMMA UnlockStep ==
  ASSUME IInv, UNCHANGED world, NEW h \in Locks, UnlockForce(h)
  PROVE  IInv'
<1> USE DEF IInv
<1>1. ~NotTaken'
  BY DEF UnlockForce, Fault, NotTaken
<1>2. TypeOK'
  BY RemoveType DEF UnlockForce, Fault, TypeOK
<1>3. Placed'
  BY DEF UnlockForce, Placed
<1> QED  BY <1>1, <1>2, <1>3 DEF Safe

-----------------------------------------------------------------------------
(* Theorems. *)

LEMMA InitIInv == Init => IInv
<1> SUFFICES ASSUME Init PROVE IInv
  OBVIOUS
<1>1. NoOwner \in Owners /\ NoOwner.token = 0
  BY DEF NoOwner, Owners
<1>2. \A r \in Runs : run[r] = Fresh
  BY DEF Init
<1>3. TypeOK
  BY <1>1, FreshFields DEF Init, TypeOK
<1>4. Placed
  BY <1>2, FreshFields DEF Placed, Locking
<1>5. Safe
  <2>1. TokensMatch
    BY <1>1 DEF Init, TokensMatch
  <2>2. ASSUME NEW r \in Runs PROVE Holds(r, run[r], dir, owner)
    BY <1>2, FreshFields, Nothing
  <2> QED  BY <2>1, <2>2 DEF Safe
<1> QED  BY <1>3, <1>4, <1>5 DEF IInv

LEMMA NextIInv ==
  ASSUME IInv, [Next]_<<vars, world>>
  PROVE  IInv'
<1>1. CASE UNCHANGED <<vars, world>>
  BY <1>1 DEF vars, IInv, TypeOK, Placed, Safe, NotTaken, TokensMatch, Holds
<1>2. CASE Next
  <2> USE <1>2 DEF Next
  <2>0. UNCHANGED world
    OBVIOUS
  <2>1. ASSUME NEW r \in Runs, Step(r) PROVE IInv'
    <3>1. CASE Connect(r)
      BY <2>0, <3>1, ConnectStep
    <3>2. CASE Make(r, "mkdir") \/ Make(r, "remake")
      BY <2>0, <3>2, MakeStep
    <3>3. CASE OpenOwner(r)
      BY <2>0, <3>3, OpenStep
    <3>4. CASE WriteOwner(r)
      BY <2>0, <3>4, WriteStep
    <3>5. CASE ReadOwner(r)
      BY <2>0, <3>5, ReadStep
    <3>6. CASE Steal(r)
      BY <2>0, <3>6, StealStep
    <3>7. CASE Disconnected(r)
      BY <2>0, <3>7, GivesUp DEF Disconnected, IInv, TypeOK
    <3>8. CASE Applied(r)
      BY <2>0, <3>8, GivesUp DEF Applied, GiveUp, IInv, TypeOK
    <3>9. CASE CheckOwner(r)
      BY <2>0, <3>9, CheckStep
    <3>10. CASE Release(r)
      BY <2>0, <3>10, ReleaseStep
    <3> QED  BY <2>1, <3>1, <3>2, <3>3, <3>4, <3>5, <3>6, <3>7, <3>8, <3>9, <3>10 DEF Step
  <2>2. ASSUME NEW r \in Runs, WriteFails(r) PROVE IInv'
    BY <2>0, <2>2, GivesUp DEF WriteFails, Fault, IInv, TypeOK
  <2>3. ASSUME NEW r \in Runs, Kill(r) PROVE IInv'
    BY <2>0, <2>3, KillStep
  <2>4. ASSUME NEW r \in Runs, NEW h \in Hosts, Lose(r, h) PROVE IInv'
    BY <2>0, <2>4, LoseStep
  <2>5. ASSUME NEW h \in Hosts, Reboot(h) PROVE IInv'
    BY <2>0, <2>5, RebootStep
  <2>6. ASSUME NEW h \in Locks, UnlockForce(h) PROVE IInv'
    BY <2>0, <2>6, UnlockStep
  <2>7. ASSUME NEW r \in Runs, ReleaseFails(r) PROVE IInv'
    BY <2>0, <2>7, ReleaseFailsStep
  <2> QED  BY <2>1, <2>2, <2>3, <2>4, <2>5, <2>6, <2>7
<1> QED  BY <1>1, <1>2

\* The invariant holds in every behaviour of xinfra apply.
THEOREM Invariant == Spec => []IInv
<1>1. Init => IInv
  BY InitIInv
<1>2. IInv /\ [Next]_<<vars, world>> => IInv'
  BY NextIInv
<1> QED  BY <1>1, <1>2, PTL DEF Spec

\* Over a session that is alive, the lock of a host that a run applies to is its
\* own: acquire's mkdir excludes every other run until release removes it.
LEMMA InvariantExcludes ==
  ASSUME IInv
  PROVE  Exclusive /\ LockedWhileApplied
<1>1. LockedWhileApplied
  <2> SUFFICES ASSUME NotTaken, NEW h \in Hosts, NEW r \in Runs, Applying(r, h)
               PROVE  dir[<<h, PathOf[r][h]>>] = r /\ owner[<<h, PathOf[r][h]>>].token = r
    BY DEF LockedWhileApplied
  <2>1. PICK i \in HostIndex : h = Order[i]
    BY OrderFacts
  <2>4. LockOf(r, i) = <<h, PathOf[r][h]>>
    BY <2>1 DEF LockOf
  <2>2. i <= run[r].acquired
    BY OrderFacts DEF IInv, Placed, Applying, HostIndex
  <2>3. Holds(r, run[r], dir, owner)
    BY DEF IInv, Safe
  <2> QED  BY <2>1, <2>2, <2>3, <2>4 DEF Holds, Applying
<1>2. Exclusive
  <2> SUFFICES ASSUME NotTaken, NEW h \in Hosts, NEW r \in Runs, NEW q \in Runs, Applying(r, h), Applying(q, h),
                      PathOf[r][h] = PathOf[q][h]
               PROVE  r = q
    BY DEF Exclusive
  <2>1. dir[<<h, PathOf[r][h]>>] = r /\ dir[<<h, PathOf[q][h]>>] = q
    BY <1>1 DEF LockedWhileApplied
  <2> QED  BY <2>1
<1> QED  BY <1>1, <1>2

\* However runs are killed, sessions lost, hosts rebooted and writes and removals
\* fail, a host is applied to by one at most of the runs that lock the same directory
\* there (lock_path in driver.xsh), whose directory and owner record are on the host
\* (acquire and release in lock.xsh), unless locks are reclaimed or removed by force.
THEOREM HostsAreExclusive == Spec => []HostsExclusive
<1>1. IInv => HostsExclusive
  BY InvariantExcludes DEF IInv, HostsExclusive
<1> QED  BY <1>1, Invariant, PTL
-----------------------------------------------------------------------------
(* What a run leaves behind. *)

\* A run that has lost no session and has not been killed: the directories it has
\* made are those it has locked, with its record in them, and the one it is
\* locking; and those it has released are not among them.
Returns(r, x, d, o) ==
  /\ x.pc = "idle" => ~x.cut /\ x.sessions = {}
  /\ ~x.cut /\ x.pc # "killed" =>
       /\ x.pc \notin {"idle", "end"} => x.sessions = Hosts
       /\ \A i \in HostIndex : d[LockOf(r, i)] = r =>
            /\ x.pc \notin {"idle", "end"}
            /\ i <= x.acquired \/ (x.pc \in {"open", "write"} /\ i = x.at)
            /\ x.pc \in {"check", "remove"} => i >= x.at
            /\ i <= x.acquired => o[LockOf(r, i)].token = r

AllReturn == NotTaken /\ "write" \notin world.faults => \A r \in Runs : Returns(r, run[r], dir, owner)

\* A step of r leaves alone what other runs have made.
LEMMA ReturnsStep ==
  ASSUME IInv, AllReturn, world' = world, NEW r \in Runs, NEW x \in RunStates, run' = [run EXCEPT ![r] = x],
         NotTaken /\ "write" \notin world.faults =>
           /\ Returns(r, x, dir', owner')
           /\ \A h \in Locks : dir'[h] \in Runs \ {r} => dir'[h] = dir[h] /\ owner'[h] = owner[h]
  PROVE  AllReturn'
<1> SUFFICES ASSUME NotTaken, "write" \notin world.faults, NEW q \in Runs PROVE Returns(q, run'[q], dir', owner')
  BY DEF AllReturn, NotTaken
<1>1. run'[r] = x /\ \A p \in Runs \ {r} : run'[p] = run[p]
  BY DEF IInv, TypeOK
<1>2. CASE q = r
  BY <1>1, <1>2
<1>3. CASE q # r
  <2>1. run'[q] = run[q] /\ Returns(q, run[q], dir, owner)
    BY <1>1, <1>3 DEF AllReturn
  <2>2. \A i \in HostIndex : dir'[LockOf(q, i)] = q => dir[LockOf(q, i)] = q /\ owner'[LockOf(q, i)] = owner[LockOf(q, i)]
    BY <1>3, OrderFacts
  <2> QED  BY <2>1, <2>2 DEF Returns
<1> QED  BY <1>2, <1>3

\* A run that gives up has made nothing at the host it stands before.
LEMMA GiveUpReturns ==
  ASSUME IInv, AllReturn, UNCHANGED <<world, dir, owner>>, NEW r \in Runs, GiveUp(r), run[r].pc \in Locking \cup {"apply"},
         NotTaken /\ "write" \notin world.faults /\ ~run[r].cut /\ run[r].pc \in {"open", "write"} =>
           dir[Lock(r)] # r
  PROVE  AllReturn'
<1> DEFINE x == St("check", 1, run[r].acquired, run[r].sessions, run[r].into, run[r].cut)
<1>1. run' = [run EXCEPT ![r] = x]
  <2>1. run' = [run EXCEPT ![r] = [run[r] EXCEPT !.pc = "check", !.at = 1]]
    BY DEF IInv, TypeOK, GiveUp
  <2>2. [run[r] EXCEPT !.pc = "check", !.at = 1] = x
    BY Fields, PcAndAt DEF IInv
  <2> QED  BY <2>1, <2>2
<1>2. x \in RunStates
  <2>1. 1 \in 1 .. Len(Order) + 1
    BY OrderFacts
  <2> QED  BY <2>1, Fields DEF IInv, St, RunStates
<1>3. x.pc = "check" /\ x.at = 1 /\ x.acquired = run[r].acquired /\ x.sessions = run[r].sessions /\ x.cut = run[r].cut
  BY DEF St
<1> HIDE DEF x
<1>4. ASSUME NotTaken, "write" \notin world.faults PROVE Returns(r, x, dir, owner)
  <2> SUFFICES ASSUME ~run[r].cut PROVE Returns(r, x, dir, owner)
    BY <1>3 DEF Returns
  <2>1. Returns(r, run[r], dir, owner) /\ run[r].pc \notin {"idle", "end", "killed"}
    BY <1>4 DEF AllReturn, Locking
  <2>2. x.sessions = Hosts
    BY <1>3, <2>1 DEF Returns
  <2>3. ASSUME NEW i \in HostIndex, dir[LockOf(r, i)] = r PROVE i <= x.acquired /\ i >= x.at /\ owner[LockOf(r, i)].token = r
    <3>1. i >= x.at
      BY <1>3 DEF HostIndex
    <3>2. i <= run[r].acquired \/ (run[r].pc \in {"open", "write"} /\ i = run[r].at)
      BY <2>1, <2>3 DEF Returns
    <3>3. i <= run[r].acquired
      BY <1>4, <2>3, <3>2 DEF Host, Lock
    <3> QED  BY <1>3, <2>1, <2>3, <3>1, <3>3 DEF Returns
  <2> QED  BY <1>3, <2>2, <2>3 DEF Returns
<1>5. NotTaken /\ "write" \notin world.faults => Returns(r, x, dir', owner')
  BY <1>4
<1> QED  BY <1>1, <1>2, <1>5, ReturnsStep

LEMMA ConnectReturns ==
  ASSUME IInv, AllReturn, UNCHANGED world, NEW r \in Runs, Connect(r)
  PROVE  AllReturn'
<1> DEFINE x == St("mkdir", 1, 0, Hosts, 0, FALSE)
<1>1. run' = [run EXCEPT ![r] = x] /\ UNCHANGED <<dir, owner>>
  <2>1. [Fresh EXCEPT !.pc = "mkdir", !.sessions = Hosts] = x
    BY FreshFields, PcAndSessions
  <2> QED  BY <2>1 DEF Connect
<1>2. x \in RunStates
  BY OrderFacts DEF St, RunStates
<1>3. x.pc = "mkdir" /\ x.sessions = Hosts
  BY DEF St
<1> HIDE DEF x
<1>4. ASSUME NotTaken, "write" \notin world.faults PROVE Returns(r, x, dir, owner)
  <2>1. Returns(r, run[r], dir, owner) /\ run[r].pc = "idle"
    BY <1>4 DEF AllReturn, Connect
  <2> QED  BY <1>3, <2>1 DEF Returns
<1> QED  BY <1>1, <1>2, <1>4, ReturnsStep

\* What the step of a run that takes a lock starts from.
LEMMA Before ==
  ASSUME IInv, AllReturn, NotTaken, "write" \notin world.faults, NEW r \in Runs
  PROVE  /\ Returns(r, run[r], dir, owner) /\ Holds(r, run[r], dir, owner)
         /\ run[r].pc \in Locking => run[r].at \in HostIndex /\ run[r].acquired = run[r].at - 1 /\ Host(r) \in Hosts /\ Lock(r) \in Locks
         /\ run[r].pc = "remove" => run[r].at \in HostIndex /\ Host(r) \in Hosts /\ Lock(r) \in Locks
         /\ \A i \in HostIndex : LockOf(r, i) = Lock(r) /\ run[r].at \in HostIndex => i = run[r].at
<1>1. Returns(r, run[r], dir, owner) /\ Holds(r, run[r], dir, owner)
  BY DEF AllReturn, IInv, Safe
<1>2. run[r].pc \in Locking \cup {"remove"} => run[r].at \in HostIndex
  BY DEF IInv, Placed
<1>3. run[r].pc \in Locking => run[r].acquired = run[r].at - 1
  BY DEF IInv, Placed
<1> QED  BY <1>1, <1>2, <1>3, OrderFacts DEF Host, Lock

LEMMA MakeReturns ==
  ASSUME IInv, AllReturn, UNCHANGED world, NEW r \in Runs, NEW label \in {"mkdir", "remake"}, Make(r, label)
  PROVE  AllReturn'
<1>1. CASE dir[Lock(r)] = 0
  <2> DEFINE x == St("open", run[r].at, run[r].acquired, run[r].sessions, run[r].into, run[r].cut)
  <2>1. run' = [run EXCEPT ![r] = x]
    BY <1>1, Fields DEF Make, St, IInv, TypeOK, RunStates
  <2>2. x \in RunStates
    BY Fields DEF St, RunStates, IInv
  <2>3. /\ x.pc = "open" /\ x.at = run[r].at /\ x.acquired = run[r].acquired /\ x.sessions = run[r].sessions
        /\ x.cut = run[r].cut
    BY DEF St
  <2> HIDE DEF x
  <2>4. /\ run[r].pc \in Locking /\ run[r].pc \in {"mkdir", "remake"}
        /\ dir' = [dir EXCEPT ![Lock(r)] = r] /\ owner' = [owner EXCEPT ![Lock(r)] = NoOwner]
    BY <1>1 DEF Make, Locking
  <2>5. ASSUME NotTaken, "write" \notin world.faults
        PROVE  /\ Returns(r, x, dir', owner')
               /\ \A h \in Locks : dir'[h] \in Runs \ {r} => dir'[h] = dir[h] /\ owner'[h] = owner[h]
    <3>1. /\ Returns(r, run[r], dir, owner) /\ run[r].at \in HostIndex /\ run[r].acquired = run[r].at - 1 /\ Host(r) \in Hosts /\ Lock(r) \in Locks
          /\ \A i \in HostIndex : LockOf(r, i) = Lock(r) => i = run[r].at
      BY <2>4, <2>5, Before
    <3>2. dir'[Lock(r)] = r /\ \A h \in Locks \ {Lock(r)} : dir'[h] = dir[h] /\ owner'[h] = owner[h]
      BY <2>4, <3>1 DEF IInv, TypeOK
    <3>3. ASSUME NEW i \in HostIndex, dir'[LockOf(r, i)] = r, ~run[r].cut
          PROVE  /\ i <= run[r].acquired \/ i = run[r].at
                 /\ i <= run[r].acquired => owner'[LockOf(r, i)].token = r
      <4>1. CASE i = run[r].at
        BY <3>1, <4>1 DEF HostIndex
      <4>2. CASE i # run[r].at
        <5>1. LockOf(r, i) \in Locks \ {Lock(r)}
          BY <3>1, <4>2, OrderFacts
        <5> QED  BY <2>4, <3>1, <3>2, <3>3, <5>1 DEF Returns
      <4> QED  BY <4>1, <4>2
    <3>4. Returns(r, x, dir', owner')
      BY <2>3, <2>4, <3>1, <3>3 DEF Returns
    <3> QED  BY <3>2, <3>4
  <2> QED  BY <2>1, <2>2, <2>5, ReturnsStep
<1>2. CASE dir[Lock(r)] # 0 /\ label = "mkdir"
  <2> DEFINE x == St("read", run[r].at, run[r].acquired, run[r].sessions, run[r].into, run[r].cut)
  <2>1. run' = [run EXCEPT ![r] = x] /\ UNCHANGED <<dir, owner>>
    BY <1>2, Fields DEF Make, St, IInv, TypeOK, RunStates
  <2>2. x \in RunStates
    BY Fields DEF St, RunStates, IInv
  <2>3. x.pc = "read" /\ x.acquired = run[r].acquired /\ x.sessions = run[r].sessions /\ x.cut = run[r].cut
    BY DEF St
  <2> HIDE DEF x
  <2>4. ASSUME NotTaken, "write" \notin world.faults PROVE Returns(r, x, dir, owner)
    <3>1. Returns(r, run[r], dir, owner) /\ run[r].pc = "mkdir"
      BY <1>2, <2>4, Before DEF Make
    <3> QED  BY <2>3, <3>1 DEF Returns
  <2> QED  BY <2>1, <2>2, <2>4, ReturnsStep
<1>3. CASE dir[Lock(r)] # 0 /\ label = "remake"
  BY <1>3, GiveUpReturns DEF Make, Locking
<1> QED  BY <1>1, <1>2, <1>3

LEMMA OpenReturns ==
  ASSUME IInv, AllReturn, UNCHANGED world, NEW r \in Runs, OpenOwner(r)
  PROVE  AllReturn'
<1>0. run[r].pc = "open" /\ Connected(r) /\ run[r].pc \in Locking /\ UNCHANGED dir
  BY DEF OpenOwner, Locking
<1>1. CASE dir[Lock(r)] # 0
  <2> DEFINE x == St("write", run[r].at, run[r].acquired, run[r].sessions, dir[Lock(r)], run[r].cut)
  <2>0. Host(r) \in Hosts /\ Lock(r) \in Locks
    BY <1>0, OrderFacts DEF IInv, Placed, Host, Lock
  <2>1. run' = [run EXCEPT ![r] = x]
    <3>1. run' = [run EXCEPT ![r] = [run[r] EXCEPT !.pc = "write", !.into = dir[Lock(r)]]]
      BY <1>1 DEF IInv, TypeOK, OpenOwner
    <3>2. [run[r] EXCEPT !.pc = "write", !.into = dir[Lock(r)]] = x
      BY Fields, PcAndInto DEF IInv
    <3> QED  BY <3>1, <3>2
  <2>2. x \in RunStates
    <3>1. dir[Lock(r)] \in {0} \cup Runs
      BY <2>0 DEF IInv, TypeOK
    <3> QED  BY <3>1, Fields DEF St, RunStates, IInv
  <2>3. /\ x.pc = "write" /\ x.at = run[r].at /\ x.acquired = run[r].acquired /\ x.sessions = run[r].sessions
        /\ x.cut = run[r].cut
    BY DEF St
  <2> HIDE DEF x
  <2>4. owner' = [owner EXCEPT ![Lock(r)] = EmptyOwner]
    BY <1>1 DEF OpenOwner
  <2>5. ASSUME NotTaken, "write" \notin world.faults
        PROVE  /\ Returns(r, x, dir', owner')
               /\ \A h \in Locks : dir'[h] \in Runs \ {r} => dir'[h] = dir[h] /\ owner'[h] = owner[h]
    <3>1. /\ Returns(r, run[r], dir, owner) /\ run[r].at \in HostIndex /\ run[r].acquired = run[r].at - 1
          /\ Holds(r, run[r], dir, owner)
          /\ \A i \in HostIndex : LockOf(r, i) = Lock(r) => i = run[r].at
      BY <1>0, <2>5, Before
    <3>2. dir[Lock(r)] = r
      BY <1>0, <3>1 DEF Holds, Connected, Host, Lock
    <3>3. \A h \in Locks \ {Lock(r)} : owner'[h] = owner[h]
      BY <2>0, <2>4 DEF IInv, TypeOK
    <3>4. \A i \in HostIndex : i <= run[r].acquired => owner'[LockOf(r, i)] = owner[LockOf(r, i)]
      BY <3>1, <3>3, OrderFacts DEF HostIndex
    <3>5. Returns(r, x, dir, owner')
      BY <1>0, <2>3, <3>1, <3>4 DEF Returns
    <3> QED  BY <1>0, <3>2, <3>3, <3>5
  <2> QED  BY <2>1, <2>2, <2>5, ReturnsStep
<1>2. CASE dir[Lock(r)] = 0
  <2>1. dir[Lock(r)] # r
    BY <1>2, OrderFacts
  <2> QED  BY <1>0, <1>2, <2>1, GiveUpReturns DEF OpenOwner
<1> QED  BY <1>1, <1>2

\* The record that is written is in the directory the run has made.
LEMMA WriteReturns ==
  ASSUME IInv, AllReturn, UNCHANGED world, NEW r \in Runs, WriteOwner(r)
  PROVE  AllReturn'
<1> DEFINE last == run[r].at = Len(Order)
           x == IF last THEN St("apply", run[r].at, run[r].at, run[r].sessions, 0, run[r].cut)
                ELSE St("mkdir", run[r].at + 1, run[r].at, run[r].sessions, 0, run[r].cut)
<1>0. /\ run[r].pc = "write" /\ Connected(r) /\ run[r].pc \in Locking /\ UNCHANGED dir
      /\ run[r].at \in HostIndex /\ Host(r) \in Hosts /\ Lock(r) \in Locks
  BY OrderFacts DEF WriteOwner, Locking, IInv, Placed, Host, Lock
<1>1. run' = [run EXCEPT ![r] = x]
  <2>0. run[r] \in RunStates
    BY Fields DEF IInv
  <2>1. CASE last
    <3>1. [run[r] EXCEPT !.pc = "apply", !.acquired = run[r].at, !.into = 0] = x
      BY <2>0, <2>1, Acquires
    <3> QED  BY <2>1, <3>1 DEF WriteOwner
  <2>2. CASE ~last
    <3>1. [run[r] EXCEPT !.pc = "mkdir", !.acquired = run[r].at, !.at = run[r].at + 1, !.into = 0] = x
      BY <2>0, <2>2, GoesOn
    <3> QED  BY <2>2, <3>1 DEF WriteOwner
  <2> QED  BY <2>1, <2>2
<1>2. x \in RunStates
  <2>1. run[r].at \in 0 .. Len(Order) /\ run[r].at + 1 \in 1 .. Len(Order) + 1 /\ run[r].at \in 1 .. Len(Order) + 1
    BY <1>0, OrderFacts DEF HostIndex
  <2> QED  BY <2>1, Fields DEF St, RunStates, IInv
<1>3. x.pc \in {"apply", "mkdir"} /\ x.acquired = run[r].at /\ x.sessions = run[r].sessions /\ x.cut = run[r].cut
  BY DEF St
<1> HIDE DEF x, last
<1>4. ASSUME NotTaken, "write" \notin world.faults
      PROVE  /\ Returns(r, x, dir', owner')
             /\ \A h \in Locks : dir'[h] \in Runs \ {r} => dir'[h] = dir[h] /\ owner'[h] = owner[h]
  <2>1. /\ Returns(r, run[r], dir, owner) /\ run[r].acquired = run[r].at - 1
        /\ Holds(r, run[r], dir, owner)
        /\ \A i \in HostIndex : LockOf(r, i) = Lock(r) => i = run[r].at
    BY <1>0, <1>4, Before
  <2>2. dir[Lock(r)] = r /\ run[r].into = r
    BY <1>0, <2>1 DEF Holds, Connected, Host, Lock
  <2>3. owner'[Lock(r)].token = r /\ \A h \in Locks \ {Lock(r)} : owner'[h] = owner[h]
    <3>1. owner' = [owner EXCEPT ![Lock(r)] = [file |-> TRUE, token |-> r, boot |-> boot[Host(r)]]]
      BY <2>2 DEF WriteOwner
    <3> QED  BY <1>0, <3>1 DEF IInv, TypeOK
  <2>4. ASSUME NEW i \in HostIndex, dir[LockOf(r, i)] = r, ~run[r].cut
        PROVE  i <= run[r].at /\ owner'[LockOf(r, i)].token = r
    <3>1. CASE i = run[r].at
      BY <1>0, <2>3, <3>1 DEF Host, Lock, HostIndex
    <3>2. CASE i # run[r].at
      <4>1. i <= run[r].acquired /\ owner[LockOf(r, i)].token = r
        BY <1>0, <2>1, <2>4, <3>2 DEF Returns
      <4>2. LockOf(r, i) \in Locks \ {Lock(r)}
        BY <2>1, <3>2, OrderFacts
      <4> QED  BY <1>0, <2>1, <2>3, <4>1, <4>2 DEF HostIndex
    <3> QED  BY <3>1, <3>2
  <2>5. Returns(r, x, dir, owner')
    BY <1>0, <1>3, <2>1, <2>4 DEF Returns
  <2> QED  BY <1>0, <2>2, <2>3, <2>5
<1> QED  BY <1>1, <1>2, <1>4, ReturnsStep

LEMMA ReadReturns ==
  ASSUME IInv, AllReturn, UNCHANGED world, NEW r \in Runs, ReadOwner(r)
  PROVE  AllReturn'
<1>0. run[r].pc = "read" /\ run[r].pc \in Locking /\ UNCHANGED <<dir, owner>>
  BY DEF ReadOwner, Locking
<1>1. CASE owner[Lock(r)].file /\ Stale(r)
  BY <1>1 DEF Stale, AllReturn, NotTaken
<1>2. CASE ~(owner[Lock(r)].file /\ Stale(r))
  BY <1>0, <1>2, GiveUpReturns DEF ReadOwner
<1> QED  BY <1>1, <1>2

\* Over sessions that are alive no command fails.
LEMMA DisconnectedReturns ==
  ASSUME IInv, AllReturn, UNCHANGED world, NEW r \in Runs, Disconnected(r)
  PROVE  AllReturn'
<1>0. run[r].pc \in Locking /\ ~Connected(r) /\ GiveUp(r) /\ UNCHANGED <<dir, owner>>
  BY DEF Disconnected, Locking
<1>1. ASSUME NotTaken, "write" \notin world.faults PROVE run[r].cut
  <2>1. Returns(r, run[r], dir, owner) /\ Host(r) \in Hosts /\ Lock(r) \in Locks
    BY <1>0, <1>1, Before
  <2> QED  BY <1>0, <2>1 DEF Returns, Connected, Locking
<1> QED  BY <1>0, <1>1, GiveUpReturns

\* release passes no lock of its own by.
LEMMA CheckReturns ==
  ASSUME IInv, AllReturn, UNCHANGED world, NEW r \in Runs, CheckOwner(r)
  PROVE  AllReturn'
<1>0. run[r].pc = "check" /\ UNCHANGED <<dir, owner>> /\ run[r] \in RunStates
  BY Fields DEF CheckOwner, IInv
<1>1. CASE run[r].at > run[r].acquired
  <2> DEFINE x == St("end", 1, run[r].acquired, {}, run[r].into, run[r].cut)
  <2>1. [run[r] EXCEPT !.pc = "end", !.sessions = {}, !.at = 1] = x
    BY <1>0, Leaves
  <2>2. run' = [run EXCEPT ![r] = x]
    BY <1>1, <2>1 DEF CheckOwner
  <2>3. x \in RunStates
    BY OrderFacts, Fields DEF St, RunStates, IInv
  <2>4. x.pc = "end" /\ x.cut = run[r].cut
    BY DEF St
  <2> HIDE DEF x
  <2>5. ASSUME NotTaken, "write" \notin world.faults PROVE Returns(r, x, dir, owner)
    <3>1. Returns(r, run[r], dir, owner)
      BY <2>5, Before
    <3>2. ASSUME NEW i \in HostIndex, dir[LockOf(r, i)] = r, ~run[r].cut PROVE FALSE
      <4>1. i <= run[r].acquired /\ i >= run[r].at
        BY <1>0, <3>1, <3>2 DEF Returns
      <4>2. run[r].at \in Nat /\ run[r].acquired \in Nat /\ i \in Nat
        BY Fields, OrderFacts DEF IInv, HostIndex
      <4> QED  BY <1>1, <4>1, <4>2
    <3> QED  BY <2>4, <3>2 DEF Returns
  <2> QED  BY <1>0, <2>2, <2>3, <2>5, ReturnsStep
<1>2. CASE ~(run[r].at > run[r].acquired)
  <2>0. /\ run[r].at \in Nat /\ run[r].acquired \in Nat /\ run[r].at \in HostIndex
        /\ run[r].at + 1 \in 1 .. Len(Order) + 1
    BY <1>2, Fields, OrderFacts DEF IInv, HostIndex
  <2>1. CASE Connected(r) /\ owner[Lock(r)].token = r
    <3> DEFINE x == St("remove", run[r].at, run[r].acquired, run[r].sessions, run[r].into, run[r].cut)
    <3>1. [run[r] EXCEPT !.pc = "remove"] = x
      BY <1>0 DEF RunStates, St
    <3>2. run' = [run EXCEPT ![r] = x]
      BY <1>2, <2>1, <3>1 DEF CheckOwner
    <3>3. x \in RunStates
      BY Fields DEF St, RunStates, IInv
    <3>4. /\ x.pc = "remove" /\ x.at = run[r].at /\ x.acquired = run[r].acquired /\ x.sessions = run[r].sessions
          /\ x.cut = run[r].cut
      BY DEF St
    <3> HIDE DEF x
    <3>5. ASSUME NotTaken, "write" \notin world.faults PROVE Returns(r, x, dir, owner)
      <4>1. Returns(r, run[r], dir, owner)
        BY <3>5, Before
      <4> QED  BY <1>0, <3>4, <4>1 DEF Returns
    <3> QED  BY <1>0, <3>2, <3>3, <3>5, ReturnsStep
  <2>2. CASE ~(Connected(r) /\ owner[Lock(r)].token = r)
    <3> DEFINE x == St(run[r].pc, run[r].at + 1, run[r].acquired, run[r].sessions, run[r].into, run[r].cut)
    <3>1. [run[r] EXCEPT !.at = run[r].at + 1] = x
      BY <1>0 DEF RunStates, St
    <3>2. run' = [run EXCEPT ![r] = x]
      BY <1>2, <2>2, <3>1 DEF CheckOwner
    <3>3. x \in RunStates
      BY <2>0, Fields DEF St, RunStates, IInv
    <3>4. /\ x.pc = "check" /\ x.at = run[r].at + 1 /\ x.acquired = run[r].acquired /\ x.sessions = run[r].sessions
          /\ x.cut = run[r].cut
      BY <1>0 DEF St
    <3> HIDE DEF x
    <3>5. ASSUME NotTaken, "write" \notin world.faults PROVE Returns(r, x, dir, owner)
      <4>1. Returns(r, run[r], dir, owner)
        BY <3>5, Before
      <4>2. ASSUME NEW i \in HostIndex, dir[LockOf(r, i)] = r, ~run[r].cut
            PROVE  i <= run[r].acquired /\ i >= run[r].at + 1 /\ owner[LockOf(r, i)].token = r
        <5>1. i <= run[r].acquired /\ i >= run[r].at /\ owner[LockOf(r, i)].token = r /\ run[r].sessions = Hosts
          BY <1>0, <4>1, <4>2 DEF Returns
        <5>2. i # run[r].at
          BY <2>2, <5>1, OrderFacts DEF Connected, Host, Lock
        <5>3. i >= run[r].at + 1
          BY <2>0, <5>1, <5>2 DEF HostIndex
        <5> QED  BY <5>1, <5>3
      <4> QED  BY <1>0, <3>4, <4>1, <4>2 DEF Returns
    <3> QED  BY <1>0, <3>2, <3>3, <3>5, ReturnsStep
  <2> QED  BY <2>1, <2>2
<1> QED  BY <1>1, <1>2

LEMMA ReleaseReturns ==
  ASSUME IInv, AllReturn, UNCHANGED world, NEW r \in Runs, Release(r)
  PROVE  AllReturn'
<1>0. /\ run[r].pc = "remove" /\ run[r].at \in HostIndex /\ Host(r) \in Hosts /\ Lock(r) \in Locks /\ run[r] \in RunStates
      /\ run[r].at + 1 \in 1 .. Len(Order) + 1
  BY Fields, OrderFacts DEF Release, IInv, Placed, Host, Lock, HostIndex
<1> DEFINE x == St("check", run[r].at + 1, run[r].acquired, run[r].sessions, run[r].into, run[r].cut)
<1>1. run' = [run EXCEPT ![r] = x]
  <2>1. run' = [run EXCEPT ![r] = [run[r] EXCEPT !.pc = "check", !.at = run[r].at + 1]]
    BY DEF Release, IInv, TypeOK
  <2>2. [run[r] EXCEPT !.pc = "check", !.at = run[r].at + 1] = x
    BY <1>0, PcAndAt
  <2> QED  BY <2>1, <2>2
<1>2. x \in RunStates
  BY <1>0, Fields DEF St, RunStates, IInv
<1>3. /\ x.pc = "check" /\ x.at = run[r].at + 1 /\ x.acquired = run[r].acquired /\ x.sessions = run[r].sessions
      /\ x.cut = run[r].cut
  BY DEF St
<1> HIDE DEF x
<1>4. /\ \A k \in Locks \ {Lock(r)} : dir'[k] = dir[k] /\ owner'[k] = owner[k]
      /\ Connected(r) => dir'[Lock(r)] = 0
      /\ ~Connected(r) => dir' = dir /\ owner' = owner
  BY <1>0, RemoveType DEF Release, IInv
<1>5. ASSUME NotTaken, "write" \notin world.faults
      PROVE  /\ Returns(r, x, dir', owner')
             /\ \A h \in Locks : dir'[h] \in Runs \ {r} => dir'[h] = dir[h] /\ owner'[h] = owner[h]
  <2>1. Returns(r, run[r], dir, owner)
    BY <1>5, Before
  <2>2. \A h \in Locks : dir'[h] \in Runs => dir'[h] = dir[h] /\ owner'[h] = owner[h]
    BY <1>0, <1>4, OrderFacts
  <2>3. ASSUME NEW i \in HostIndex, dir'[LockOf(r, i)] = r, ~run[r].cut
        PROVE  i <= run[r].acquired /\ i >= run[r].at + 1 /\ owner'[LockOf(r, i)].token = r
    <3>1. dir[LockOf(r, i)] = r /\ owner'[LockOf(r, i)] = owner[LockOf(r, i)]
      BY <2>2, <2>3, OrderFacts
    <3>2. i <= run[r].acquired /\ i >= run[r].at /\ owner[LockOf(r, i)].token = r /\ run[r].sessions = Hosts
      BY <1>0, <2>1, <2>3, <3>1 DEF Returns
    <3>3. Connected(r)
      BY <1>0, <3>2 DEF Connected
    <3>4. i # run[r].at
      BY <1>4, <2>3, <3>3, OrderFacts DEF Host, Lock
    <3>5. i >= run[r].at + 1
      BY <1>0, <3>2, <3>4, OrderFacts DEF HostIndex
    <3> QED  BY <3>1, <3>2, <3>5
  <2>4. Returns(r, x, dir', owner')
    BY <1>0, <1>3, <2>1, <2>3 DEF Returns
  <2> QED  BY <2>2, <2>4
<1> QED  BY <1>1, <1>2, <1>5, ReturnsStep

LEMMA ReleaseFailsReturns ==
  ASSUME IInv, AllReturn, UNCHANGED world, NEW r \in Runs, ReleaseFails(r)
  PROVE  AllReturn'
<1>1. PICK x \in RunStates : run' = [run EXCEPT ![r] = x] /\ x.pc = "check" /\ x.cut
  BY ReleaseFailsRun
<1>2. Returns(r, x, dir', owner')
  BY <1>1 DEF Returns
<1>3. ASSUME NotTaken
      PROVE  \A h \in Locks : dir'[h] \in Runs \ {r} => dir'[h] = dir[h] /\ owner'[h] = owner[h]
  <2>1. dir[Lock(r)] = r /\ Lock(r) \in Locks /\ UNCHANGED dir
    BY <1>3, OrderFacts DEF IInv, Safe, Holds, Placed, ReleaseFails, Connected, Host, Lock
  <2>2. \A k \in Locks \ {Lock(r)} : owner'[k] = owner[k]
    BY <2>1 DEF ReleaseFails, IInv, TypeOK
  <2> QED  BY <2>1, <2>2
<1> QED  BY <1>1, <1>2, <1>3, ReturnsStep

LEMMA KillReturns ==
  ASSUME IInv, AllReturn, UNCHANGED world, NEW r \in Runs, Kill(r)
  PROVE  AllReturn'
<1> DEFINE x == [Fresh EXCEPT !.pc = "killed"]
<1>1. run' = [run EXCEPT ![r] = x] /\ UNCHANGED <<dir, owner>>
  BY DEF Kill
<1>2. x \in RunStates /\ x.pc = "killed"
  BY FreshFields DEF RunStates
<1> HIDE DEF x
<1>3. Returns(r, x, dir, owner)
  BY <1>2 DEF Returns
<1> QED  BY <1>1, <1>2, <1>3, ReturnsStep

\* A session that ends is noticed, and a run that has none left made nothing that
\* it has not released.
LEMMA CutReturns ==
  ASSUME NEW r \in Runs, NEW x \in RunStates, NEW h \in Hosts, NEW d, NEW o, NEW e, NEW p, Returns(r, x, d, o),
         \A k \in Locks : e[k] = r => d[k] = r
  PROVE  h \notin x.sessions \/ x.pc # "idle" => Returns(r, Cut(x, h), e, p)
<1> DEFINE y == Cut(x, h)
<1>1. y.pc = x.pc /\ y.sessions = x.sessions \ {h} /\ y.acquired = x.acquired /\ y.at = x.at
  BY CutFields
<1>2. y.cut = (x.cut \/ h \in x.sessions)
  BY DEF Cut, RunStates
<1>3. x.cut \in BOOLEAN
  BY DEF RunStates
<1> HIDE DEF y
<1>4. ~y.cut /\ x.pc # "killed" => x.pc \in {"idle", "end"}
  BY <1>2, <1>3 DEF Returns
<1>5. ~y.cut => ~x.cut
  BY <1>2
<1>6. h \notin x.sessions /\ x.pc = "idle" => ~y.cut /\ y.sessions = {}
  BY <1>1, <1>2 DEF Returns
<1>7. x.pc \in {"idle", "end"} /\ ~x.cut => \A i \in HostIndex : e[LockOf(r, i)] # r
  BY OrderFacts DEF Returns
<1>8. h \notin x.sessions \/ x.pc # "idle" => Returns(r, y, e, p)
  BY <1>1, <1>4, <1>5, <1>6, <1>7 DEF Returns
<1> QED  BY <1>8 DEF y

LEMMA LoseReturns ==
  ASSUME IInv, AllReturn, UNCHANGED world, NEW r \in Runs, NEW h \in Hosts, Lose(r, h)
  PROVE  AllReturn'
<1> DEFINE x == Cut(run[r], h)
<1>1. run' = [run EXCEPT ![r] = x] /\ UNCHANGED <<dir, owner>> /\ h \in run[r].sessions /\ run[r] \in RunStates
  BY Fields DEF Lose, IInv
<1>2. x \in RunStates
  BY <1>1, CutFields
<1>3. ASSUME NotTaken, "write" \notin world.faults PROVE Returns(r, x, dir, owner)
  <2>1. Returns(r, run[r], dir, owner)
    BY <1>3, Before
  <2>2. run[r].pc # "idle"
    BY <1>1, <2>1 DEF Returns
  <2> QED  BY <1>1, <2>1, <2>2, CutReturns
<1> HIDE DEF x
<1> QED  BY <1>1, <1>2, <1>3, ReturnsStep

LEMMA RebootReturns ==
  ASSUME IInv, AllReturn, UNCHANGED world, NEW h \in Hosts, Reboot(h)
  PROVE  AllReturn'
<1> SUFFICES ASSUME NotTaken, "write" \notin world.faults, NEW q \in Runs PROVE Returns(q, run'[q], dir', owner')
  BY DEF AllReturn, NotTaken
<1>1. Returns(q, run[q], dir, owner) /\ run'[q] = Cut(run[q], h) /\ run[q] \in RunStates
  BY Before, Fields DEF Reboot, IInv
<1>2. \A k \in Locks : dir'[k] = q => dir[k] = q
  BY OrderFacts DEF Reboot
<1>3. h \notin run[q].sessions \/ run[q].pc # "idle"
  BY <1>1 DEF Returns
<1>4. Returns(q, Cut(run[q], h), dir', owner')
  BY <1>1, <1>2, <1>3, CutReturns
<1> QED  BY <1>1, <1>4

LEMMA NextReturns ==
  ASSUME IInv, AllReturn, [Next]_<<vars, world>>
  PROVE  AllReturn'
<1>1. CASE UNCHANGED <<vars, world>>
  BY <1>1 DEF vars, AllReturn, NotTaken, Returns
<1>2. CASE Next
  <2> USE <1>2 DEF Next
  <2>0. UNCHANGED world
    OBVIOUS
  <2>1. ASSUME NEW r \in Runs, Step(r) PROVE AllReturn'
    <3>1. CASE Connect(r)
      BY <2>0, <3>1, ConnectReturns
    <3>2. CASE Make(r, "mkdir") \/ Make(r, "remake")
      BY <2>0, <3>2, MakeReturns
    <3>3. CASE OpenOwner(r)
      BY <2>0, <3>3, OpenReturns
    <3>4. CASE WriteOwner(r)
      BY <2>0, <3>4, WriteReturns
    <3>5. CASE ReadOwner(r)
      BY <2>0, <3>5, ReadReturns
    <3>6. CASE Steal(r)
      <4>1. ~NotTaken
        BY <3>6 DEF Steal, IInv, Safe, Holds
      <4> QED  BY <2>0, <4>1 DEF AllReturn, NotTaken
    <3>7. CASE Disconnected(r)
      BY <2>0, <3>7, DisconnectedReturns
    <3>8. CASE Applied(r)
      BY <2>0, <3>8, GiveUpReturns DEF Applied, GiveUp
    <3>9. CASE CheckOwner(r)
      BY <2>0, <3>9, CheckReturns
    <3>10. CASE Release(r)
      BY <2>0, <3>10, ReleaseReturns
    <3> QED  BY <2>1, <3>1, <3>2, <3>3, <3>4, <3>5, <3>6, <3>7, <3>8, <3>9, <3>10 DEF Step
  <2>2. ASSUME NEW r \in Runs, WriteFails(r) PROVE AllReturn'
    BY <2>0, <2>2 DEF WriteFails, Fault, AllReturn
  <2>3. ASSUME NEW r \in Runs, Kill(r) PROVE AllReturn'
    BY <2>0, <2>3, KillReturns
  <2>4. ASSUME NEW r \in Runs, NEW h \in Hosts, Lose(r, h) PROVE AllReturn'
    BY <2>0, <2>4, LoseReturns
  <2>5. ASSUME NEW h \in Hosts, Reboot(h) PROVE AllReturn'
    BY <2>0, <2>5, RebootReturns
  <2>6. ASSUME NEW h \in Locks, UnlockForce(h) PROVE AllReturn'
    BY <2>0, <2>6 DEF UnlockForce, Fault, AllReturn, NotTaken
  <2>7. ASSUME NEW r \in Runs, ReleaseFails(r) PROVE AllReturn'
    BY <2>0, <2>7, ReleaseFailsReturns
  <2> QED  BY <2>1, <2>2, <2>3, <2>4, <2>5, <2>6, <2>7
<1> QED  BY <1>1, <1>2

\* run_apply releases every lock it has taken, whichever of its hosts it could not
\* lock, as long as its sessions live, its owner records can be written and rm succeeds: when it
\* has ended no host has a lock directory that it made.
THEOREM LocksAreReleased == Spec => []LocksReleased
<1>1. Init => AllReturn
  <2> SUFFICES ASSUME Init, NEW r \in Runs PROVE Returns(r, run[r], dir, owner)
    BY DEF AllReturn
  <2>1. run[r] = Fresh /\ \A h \in Locks : dir[h] # r
    BY OrderFacts DEF Init
  <2> QED  BY <2>1, FreshFields, OrderFacts DEF Returns
<1>2. IInv /\ AllReturn /\ [Next]_<<vars, world>> => AllReturn'
  BY NextReturns
<1>3. AllReturn => LocksReleased
  <2> SUFFICES ASSUME AllReturn, NotTaken, "write" \notin world.faults, NEW h \in Hosts, NEW r \in Runs,
                      run[r].pc = "end", ~run[r].cut
               PROVE  dir[<<h, PathOf[r][h]>>] # r
    BY DEF LocksReleased
  <2>1. PICK i \in HostIndex : h = Order[i]
    BY OrderFacts
  <2>2. Returns(r, run[r], dir, owner) /\ LockOf(r, i) = <<h, PathOf[r][h]>>
    BY <2>1 DEF AllReturn, LockOf
  <2> QED  BY <2>1, <2>2 DEF Returns
<1> QED  BY <1>1, <1>2, <1>3, Invariant, PTL DEF Spec

=============================================================================
