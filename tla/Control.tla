------------------------------ MODULE Control ------------------------------
(***************************************************************************)
(* The xinit commands start, stop, restart and boot, which act on the      *)
(* processes themselves or, while a scanner is marked, post a request to   *)
(* its inbox (src/xinit/xinit.xsh).  Commands, the scanner and processes   *)
(* that come and go share the status files, the marker and the pids.       *)
(*                                                                         *)
(* Abstractions.                                                           *)
(*  - A service is a longrun without hooks, and may be one that announces  *)
(*    its readiness (notify); reload changes no state.                     *)
(*  - Start plans are given (constant): visit_plan is a pure function.     *)
(*  - The scanner is what commands see of it; module Scanner has the rest. *)
(*  - A process is the leader of its group, and its start time tells it    *)
(*    from any other that has its pid.                                     *)
(***************************************************************************)
EXTENDS Integers, Sequences, FiniteSets

CONSTANTS
  Need,         \* services that each service needs
  Notify,       \* services that announce their readiness
  Plan,         \* start order for each service
  BootPlan,     \* start order of the target
  Clients,      \* commands that may run
  PidSpace,     \* process ids
  MaxBorn,      \* bound on the processes that are started
  Settings      \* circumstances to look at

Services == DOMAIN Need

\* Circumstances: whether a scanner is there from the beginning, whether one may
\* come "up", whether kill -9 may end it ("kill", or also while it starts a
\* service, "killStarting"), which commands run, and how many at once.
Setting == [scanner : BOOLEAN, moves : SUBSET {"up", "kill", "killStarting"},
            verbs : SUBSET {"start", "stop", "restart", "boot"}, busy : Nat]

ASSUME ControlAssumption ==
  /\ Need \in [Services -> SUBSET Services] /\ Notify \subseteq Services
  /\ Plan \in [Services -> Seq(Services)] /\ BootPlan \in Seq(Services)
  /\ Settings \subseteq Setting
  /\ MaxBorn \in Nat \ {0} /\ PidSpace \subseteq Nat \ {0} /\ PidSpace # {}
  /\ IsFiniteSet(Clients)

VARIABLES
  setting,  \* circumstances of this behaviour
  status,   \* status file of each service
  table,    \* process table
  cmd,      \* state of each command
  marker,   \* pid in scanner.json, 0 for none
  unit,     \* the scanner's units: desired state, pid and progress
  inbox,    \* request for each service
  born      \* number of processes started

controlVars == <<status, table, cmd, marker, unit, inbox, born>>

Unset == 0
Vacant == [kind |-> "none", svc |-> 0, born |-> 0]
DefaultStatus == [state |-> "down", pid |-> Unset, start |-> 0]
Ready == [pc |-> "idle", verb |-> "none", svc |-> 0, plan |-> <<>>, pid |-> Unset, start |-> 0, seen |-> 0]

Alive(p) == p # Unset /\ table[p].kind # "none"

\* The pid of a scanner's child is not used again before it is reaped.
FreePids == {p \in PidSpace : ~Alive(p) /\ \A s \in Services : unit[s].pid # p}

-----------------------------------------------------------------------------
(* Status files and the marker. *)

\* Mutant: the start time is not compared.
LiveAnyone(p, start) == Alive(p)

\* pid_live_and_ours
LiveAndOurs(p, start) == Alive(p) /\ (start = 0 \/ table[p].born = start)

\* read_status: a process that is gone or recycled makes it dead.
ReadStatus(s) ==
  IF status[s].state = "running" /\ status[s].pid # Unset
       /\ ~LiveAndOurs(status[s].pid, status[s].start)
  THEN [state |-> "dead", pid |-> Unset, start |-> 0]
  ELSE status[s]

Up(s) == ReadStatus(s).state = "running"

ScannerActive == Alive(marker)

-----------------------------------------------------------------------------
(* Commands. *)

Continue(c, label) == cmd' = [cmd EXCEPT ![c].pc = label]
Finish(c) == cmd' = [cmd EXCEPT ![c] = Ready]
Untouched == UNCHANGED <<status, table, marker, unit, inbox, born>>

Issue(c, verb, s) ==
  /\ cmd[c] = Ready
  /\ Cardinality({d \in Clients : cmd[d] # Ready}) < setting.busy
  /\ cmd' = [cmd EXCEPT ![c] =
       [pc |-> IF verb = "boot" THEN "next" ELSE "check", verb |-> verb, svc |-> s,
        plan |-> CASE verb = "boot" -> BootPlan [] verb = "start" -> Plan[s] [] OTHER -> <<>>,
        pid |-> Unset, start |-> 0, seen |-> 0]]
  /\ Untouched

\* scanner_active, before anything else.  restart_service looks twice: once for
\* itself and once in stop_service.
Check(c) ==
  /\ cmd[c].pc = "check"
  /\ Continue(c, IF ScannerActive THEN "post"
                 ELSE CASE cmd[c].verb = "start" -> "next"
                        [] cmd[c].verb = "stop" -> "stop"
                        [] OTHER -> "recheck")
  /\ Untouched

\* What each command posts.
Request(verb) == CASE verb = "start" -> "up" [] verb = "stop" -> "down" [] OTHER -> "restart"

\* request_desired
Post(c) ==
  /\ cmd[c].pc = "post"
  /\ inbox' = [inbox EXCEPT ![cmd[c].svc] = Request(cmd[c].verb)]
  /\ Finish(c)
  /\ UNCHANGED <<status, table, marker, unit, born>>

\* stop_service inside restart_service: a request to stop does not end the
\* command, which goes on to start the service.
Recheck(c) ==
  /\ cmd[c].pc = "recheck"
  /\ IF ScannerActive
     THEN /\ inbox' = [inbox EXCEPT ![cmd[c].svc] = "down"]
          /\ cmd' = [cmd EXCEPT ![c].pc = "next", ![c].plan = <<cmd[c].svc>>]
     ELSE Continue(c, "stop") /\ UNCHANGED inbox
  /\ UNCHANGED <<status, table, marker, unit, born>>

\* running_dependents
RunningDependents(s) == \E d \in Services \ {s} : s \in Need[d] /\ Up(d)

NoUnit == [desired |-> "down", pid |-> Unset, st |-> "none"]
Pending == [desired |-> "up", pid |-> Unset, st |-> "none"]

\* A scanner that a recycled pid exposes to a signal takes its units with it.
UnitsWithout(p) == IF table[p].kind = "scanner" THEN [s \in Services |-> NoUnit] ELSE unit

\* The rest of stop_service: a running dependent refuses it.
Dependents(c) ==
  /\ cmd[c].pc = "stop"
  /\ IF RunningDependents(cmd[c].svc) THEN Finish(c) ELSE Continue(c, "read")
  /\ Untouched

\* The status is read, and pid is what the signals go to.  seen is history: the
\* number of processes started by then.
Read(c) ==
  /\ cmd[c].pc = "read"
  /\ LET current == ReadStatus(cmd[c].svc)
     IN cmd' = [cmd EXCEPT ![c].pc = IF current.pid = Unset THEN "down" ELSE "term",
                           ![c].pid = current.pid, ![c].start = current.start, ![c].seen = born]
  /\ Untouched

\* The process of a group ends, whoever it is by now.
EndOf(p) == table' = [table EXCEPT ![p] = Vacant] /\ unit' = UnitsWithout(p)

\* TERM, which ends the process before the timeout or not.  A group that is gone
\* is an error, which ends the command.
Term(c) ==
  /\ cmd[c].pc = "term"
  /\ \/ Alive(cmd[c].pid) /\ Continue(c, "kill") /\ (EndOf(cmd[c].pid) \/ UNCHANGED <<table, unit>>)
     \/ ~Alive(cmd[c].pid) /\ Finish(c) /\ UNCHANGED <<table, unit>>
  /\ UNCHANGED <<status, marker, inbox, born>>

\* Mutant: no KILL follows.
KillNothing(c) == cmd[c].pc = "kill" /\ Continue(c, "down") /\ Untouched

\* KILL to the same pid after the timeout; a group that is gone is fine.
Kill(c) ==
  /\ cmd[c].pc = "kill"
  /\ IF Alive(cmd[c].pid) THEN EndOf(cmd[c].pid) ELSE UNCHANGED <<table, unit>>
  /\ Continue(c, "down")
  /\ UNCHANGED <<status, marker, inbox, born>>

WriteDown(c) ==
  /\ cmd[c].pc = "down"
  /\ status' = [status EXCEPT ![cmd[c].svc] = DefaultStatus]
  /\ IF cmd[c].verb = "restart"
     THEN cmd' = [cmd EXCEPT ![c].pc = "next", ![c].plan = <<cmd[c].svc>>]
     ELSE Finish(c)
  /\ UNCHANGED <<table, marker, unit, inbox, born>>

\* Mutant: a service that runs is started again.
Starts(s) == TRUE

\* start_one_service leaves a running service alone.
MustStart(s) == ~(ReadStatus(s).pid # Unset /\ Up(s))

StartNext(c) ==
  /\ cmd[c].pc = "next"
  /\ IF cmd[c].plan = <<>> THEN Finish(c)
     ELSE IF MustStart(Head(cmd[c].plan)) THEN Continue(c, "spawn")
     ELSE cmd' = [cmd EXCEPT ![c].plan = Tail(@)]
  /\ Untouched

NewProcess(p, s) == [table EXCEPT ![p] = [kind |-> "service", svc |-> s, born |-> born + 1]]

\* Services needed by s, s included: failing to start one ends the command.
Required(s) ==
  {t \in Services : \A closed \in SUBSET Services :
     s \in closed /\ (\A u \in closed : Need[u] \subseteq closed) => t \in closed}

Spawn(c) ==
  /\ cmd[c].pc = "spawn"
  /\ \/ /\ born < MaxBorn
        /\ \E p \in FreePids :
             /\ table' = NewProcess(p, Head(cmd[c].plan))
             /\ cmd' = [cmd EXCEPT ![c].pc = "write", ![c].pid = p, ![c].start = born + 1]
        /\ born' = born + 1
     \/ /\ IF cmd[c].verb # "start" \/ Head(cmd[c].plan) \in Required(cmd[c].svc) THEN Finish(c)
           ELSE cmd' = [cmd EXCEPT ![c].pc = "next", ![c].plan = Tail(@)]
        /\ UNCHANGED <<table, born>>
  /\ UNCHANGED <<status, marker, unit, inbox>>

\* The start time is read from the kernel after the spawn: a child that has ended
\* since is a zombie, and still has it.
WriteRunning(c) ==
  /\ cmd[c].pc = "write"
  /\ status' = [status EXCEPT ![Head(cmd[c].plan)] =
       [state |-> "running", pid |-> cmd[c].pid, start |-> cmd[c].start]]
  /\ cmd' = [cmd EXCEPT ![c].pc = "next", ![c].plan = Tail(@), ![c].pid = Unset, ![c].start = 0]
  /\ UNCHANGED <<table, marker, unit, inbox, born>>

Command(c) ==
  \/ Check(c) \/ Post(c) \/ Recheck(c) \/ Dependents(c) \/ Read(c) \/ Term(c) \/ Kill(c) \/ WriteDown(c)
  \/ StartNext(c) \/ Spawn(c) \/ WriteRunning(c)

-----------------------------------------------------------------------------
(* The scanner, as commands see it. *)

Scanning == \E p \in PidSpace : table[p].kind = "scanner"

\* A child has been started and its status file is not written yet.
Filing == \E s \in Services : unit[s].st = "spawned"

ScannerUp ==
  /\ "up" \in setting.moves /\ ~Scanning /\ born < MaxBorn
  /\ \E p \in FreePids :
       /\ table' = [table EXCEPT ![p] = [kind |-> "scanner", svc |-> 0, born |-> born + 1]]
       /\ marker' = p
  /\ born' = born + 1
  /\ unit' = [s \in Services |-> Pending]
  /\ UNCHANGED <<status, cmd, inbox>>

\* reconcile_one: its own units are all it looks at.
ScannerSpawn(s) ==
  /\ Scanning /\ ~Filing /\ unit[s] = Pending /\ born < MaxBorn
  /\ \E p \in FreePids :
       /\ table' = NewProcess(p, s)
       /\ unit' = [unit EXCEPT ![s] = [desired |-> "up", pid |-> p, st |-> "spawned"]]
  /\ born' = born + 1
  /\ UNCHANGED <<status, cmd, marker, inbox>>

\* It writes the status, without a start time, once when the child was started
\* and, for a service that announces its readiness, again later.
ScannerFile(s) ==
  /\ Scanning
  /\ \E state \in {"starting", "running"} :
       /\ IF state = "starting" THEN unit[s].st = "spawned" /\ s \in Notify
          ELSE unit[s].st = IF s \in Notify THEN "starting" ELSE "spawned"
       /\ unit[s].st = "starting" => ~Filing
       /\ unit' = [unit EXCEPT ![s].st = state]
       /\ status' = [status EXCEPT ![s] = [state |-> state, pid |-> unit[s].pid, start |-> 0]]
  /\ UNCHANGED <<table, cmd, marker, inbox, born>>

\* drain_inbox: a unit is stopped, left alone, started or restarted.
ScannerDrain(s) ==
  /\ Scanning /\ ~Filing /\ inbox[s] # "none"
  /\ inbox' = [inbox EXCEPT ![s] = "none"]
  /\ LET p == unit[s].pid
         ends == inbox[s] \in {"down", "restart"}
     IN /\ table' = IF ends /\ Alive(p) THEN [table EXCEPT ![p] = Vacant] ELSE table
        /\ unit' = [unit EXCEPT ![s] = [desired |-> IF inbox[s] = "down" THEN "down" ELSE "up",
                                        pid |-> IF ends THEN Unset ELSE p,
                                        st |-> IF ends THEN "none" ELSE unit[s].st]]
        /\ status' = IF inbox[s] = "restart" \/ (inbox[s] = "down" /\ p # Unset)
                     THEN [status EXCEPT ![s] = DefaultStatus] ELSE status
  /\ UNCHANGED <<cmd, marker, born>>

\* A child that exits is reaped, recorded and started again.
ScannerReap(s) ==
  /\ Scanning /\ ~Filing /\ unit[s].pid # Unset
  /\ table' = [table EXCEPT ![unit[s].pid] = Vacant]
  /\ unit' = [unit EXCEPT ![s].pid = Unset, ![s].st = "none"]
  /\ status' = [status EXCEPT ![s] = [state |-> "dead", pid |-> Unset, start |-> 0]]
  /\ UNCHANGED <<cmd, marker, inbox, born>>

\* kill -9: marker, status files and children stay.
ScannerKilled ==
  /\ Scanning
  /\ \/ "killStarting" \in setting.moves
     \/ "kill" \in setting.moves /\ \A s \in Services : unit[s].st \in {"none", "running"}
  /\ table' = [p \in PidSpace |-> IF table[p].kind = "scanner" THEN Vacant ELSE table[p]]
  /\ unit' = [s \in Services |-> NoUnit]
  /\ UNCHANGED <<status, cmd, marker, inbox, born>>

-----------------------------------------------------------------------------
(* Other processes. *)

\* A process exits.  Until its parent has read its start time it is at most a
\* zombie, which keeps its pid and its start time.
Exits(p) ==
  /\ table[p].kind = "service" /\ \A s \in Services : unit[s].pid # p
  /\ \A c \in Clients : ~(cmd[c].pc = "write" /\ cmd[c].pid = p)
  /\ table' = [table EXCEPT ![p] = Vacant]
  /\ UNCHANGED <<status, cmd, marker, unit, inbox, born>>

Stranger(p) ==
  /\ p \in FreePids /\ born < MaxBorn /\ born' = born + 1
  /\ \A q \in PidSpace : table[q].kind # "stranger"
  /\ table' = [table EXCEPT ![p] = [kind |-> "stranger", svc |-> 0, born |-> born + 1]]
  /\ UNCHANGED <<status, cmd, marker, unit, inbox>>

FirstPid == CHOOSE p \in PidSpace : TRUE

ControlInit ==
  /\ setting \in Settings
  /\ status = [s \in Services |-> DefaultStatus]
  /\ inbox = [s \in Services |-> "none"]
  /\ cmd = [c \in Clients |-> Ready]
  /\ born = 1
  /\ marker = IF setting.scanner THEN FirstPid ELSE Unset
  /\ unit = [s \in Services |-> IF setting.scanner THEN Pending ELSE NoUnit]
  /\ table = [p \in PidSpace |-> IF setting.scanner /\ p = FirstPid
                                 THEN [kind |-> "scanner", svc |-> 0, born |-> 1] ELSE Vacant]

ControlNext ==
  /\ \/ \E c \in Clients : Command(c) \/ \E v \in setting.verbs, s \in Services : Issue(c, v, s)
     \/ ScannerUp \/ ScannerKilled
     \/ \E s \in Services : ScannerSpawn(s) \/ ScannerFile(s) \/ ScannerDrain(s) \/ ScannerReap(s)
     \/ \E p \in PidSpace : Exits(p) \/ Stranger(p)
  /\ UNCHANGED setting

ControlSpec == ControlInit /\ [][ControlNext]_<<controlVars, setting>>

-----------------------------------------------------------------------------
(* Properties. *)

\* Everything has its type.
ControlTypeOK ==
  /\ status \in [Services -> [state : {"down", "starting", "running", "dead"}, pid : PidSpace \cup {Unset}, start : 0 .. MaxBorn]]
  /\ table \in [PidSpace -> [kind : {"none", "service", "scanner", "stranger"},
                             svc : Services \cup {0}, born : 0 .. MaxBorn]]
  /\ \A c \in Clients : cmd[c].pc \in {"idle", "check", "post", "recheck", "stop", "read", "term",
                                       "kill", "down", "next", "spawn", "write"}
  /\ marker \in PidSpace \cup {Unset} /\ born \in 0 .. MaxBorn
  /\ inbox \in [Services -> {"none", "up", "down", "restart"}]

\* One command at a time, and nothing else that starts services by itself: no
\* scanner comes up later, no boot runs beside one (it does not look for the
\* marker), and none is killed while it starts a service, which leaves a child
\* that no file or a file that says "starting" tells of.
Lone ==
  /\ setting.busy = 1 /\ ~(setting.scanner /\ "boot" \in setting.verbs)
  /\ setting.moves \subseteq {"kill"}

Runs(p, s) == table[p].kind = "service" /\ table[p].svc = s

\* A service has one instance: start, restart and boot leave a running one alone
\* and take over what a killed scanner left.  (Commands take no lock: Lone.)
OneInstance == Lone => \A s \in Services, p, q \in PidSpace : Runs(p, s) /\ Runs(q, s) => p = q

\* The TERM and the KILL of a stop go to a process of that service or to one that
\* was started after the stop had read the pid, although pids are used again
\* without the status file being written.  (The delay between the reading and
\* the signals, the stop timeout before the KILL above all, is not covered by any
\* check; nor is a status file that a scanner wrote, which has no start time.)
SignalsSpare ==
  \A c \in Clients :
    cmd[c].pc \in {"term", "kill"} /\ cmd[c].start # 0 /\ Alive(cmd[c].pid) =>
      Runs(cmd[c].pid, cmd[c].svc) \/ table[cmd[c].pid].born > cmd[c].seen

\* A direct stop does not end a service under a running one that needs it.
StopRefusesNeeded ==
  Lone => \A c \in Clients, d \in Services, p \in PidSpace :
    cmd[c].pc \in {"read", "term", "kill", "down"} /\ d # cmd[c].svc /\ cmd[c].svc \in Need[d] => ~Runs(p, d)

-----------------------------------------------------------------------------
(* What the runs check. *)

\* Commands leave every service with one instance and readable state files.
ServicesSound == ControlTypeOK /\ OneInstance

\* A stop ends what it was asked to end: no stranger, and nothing that is needed.
StopSpares == SignalsSpare /\ StopRefusesNeeded

\* A direct stop says "down", and a restart goes on to start the service, when no
\* instance is left, whatever the KILL came to and whoever has the pid by then.
StopEnds ==
  Lone => \A c \in Clients, p \in PidSpace : cmd[c].pc = "down" => ~Runs(p, cmd[c].svc)
=============================================================================
