----------------------------- MODULE SeatSocket -----------------------------
(***************************************************************************)
(* How a seatd process gets its socket path and gives it back              *)
(* (src/seatd-rs/src: main.rs, admit.rs, shutdown.rs), with any number of  *)
(* processes starting, being killed and shutting down around one path.     *)
(*                                                                         *)
(* Every system call that looks at or changes the path is a step of its    *)
(* own.  A process is started once; its socket is named after it, which is *)
(* what the device and inode number identify.  The other options and the   *)
(* check of the parent directory are left out: nobody else writes there.   *)
(***************************************************************************)
EXTENDS FiniteSets

CONSTANTS
  Daemons,       \* processes
  Refused,       \* those that may not give the socket to the user they are asked to
  Nothing, File  \* no entry, and a file that is not a socket, at the path

ASSUME SocketAssumption ==
  /\ Refused \subseteq Daemons
  /\ Nothing \notin Daemons /\ File \notin Daemons /\ Nothing # File

VARIABLES
  strict, \* processes started with -z
  path,   \* what is at the socket path
  pc,     \* where each process is
  owner,  \* shutdown.rs: the socket captured after start, per process
  lock    \* holder of the startup lock file, or Nothing

socketVars == <<path, pc, owner, lock>>

Listening(d) == pc[d] \in {"capture", "run"}
Live == path \in Daemons /\ Listening(path)

Ended == {"exit", "killed"}

Go(d, from, to) == pc[d] = from /\ pc' = [pc EXCEPT ![d] = to]

-----------------------------------------------------------------------------
(* main.rs *)

\* Mutant: an old socket always ends the start.
InspectShy(d) ==
  /\ Go(d, "start", IF path = Nothing THEN "lock" ELSE "exit")
  /\ UNCHANGED <<path, owner, lock>>

\* The look at the path before anything else.
Inspect(d) ==
  /\ \/ path = Nothing /\ Go(d, "start", "lock")
     \/ path = File /\ Go(d, "start", "exit")
     \/ path \in Daemons /\ Go(d, "start", IF d \in strict THEN "exit" ELSE "probe")
  /\ UNCHANGED <<path, owner, lock>>

\* probe_live: a connection is accepted or refused.
Probe(d) ==
  /\ Go(d, "probe", IF Live THEN "exit" ELSE "unlink")
  /\ UNCHANGED <<path, owner, lock>>

Unlink(d) ==
  /\ Go(d, "unlink", IF path = Nothing THEN "exit" ELSE "lock")
  /\ path' = Nothing
  /\ UNCHANGED <<owner, lock>>

-----------------------------------------------------------------------------
(* open_socket, under the startup lock. *)

Lock(d) ==
  /\ lock = Nothing /\ lock' = d
  /\ Go(d, "lock", "bind")
  /\ UNCHANGED <<path, owner>>

Unlocked(d) == lock' = IF lock = d THEN Nothing ELSE lock

Bind(d) ==
  \/ /\ path = Nothing /\ path' = d
     /\ Go(d, "bind", "mode")
     /\ UNCHANGED <<owner, lock>>
  \/ /\ path # Nothing
     /\ Go(d, "bind", "inuse")
     /\ UNCHANGED <<path, owner, lock>>

\* Mutant: an address in use is taken to be an old socket.
AssumeStale(d) == Go(d, "inuse", "kind") /\ UNCHANGED <<path, owner, lock>>

ProbeInUse(d) ==
  \/ /\ Live /\ Go(d, "inuse", "exit") /\ Unlocked(d)
     /\ UNCHANGED <<path, owner>>
  \/ /\ ~Live /\ Go(d, "inuse", "kind")
     /\ UNCHANGED <<path, owner, lock>>

Kind(d) ==
  \/ /\ path \in Daemons /\ Go(d, "kind", "reclaim")
     /\ UNCHANGED <<path, owner, lock>>
  \/ /\ path \notin Daemons /\ Go(d, "kind", "exit") /\ Unlocked(d)
     /\ UNCHANGED <<path, owner>>

Reclaim(d) ==
  \/ /\ path # Nothing /\ path' = Nothing /\ Go(d, "reclaim", "rebind")
     /\ UNCHANGED <<owner, lock>>
  \/ /\ path = Nothing /\ Go(d, "reclaim", "exit") /\ Unlocked(d)
     /\ UNCHANGED <<path, owner>>

Rebind(d) ==
  \/ /\ path = Nothing /\ path' = d /\ Go(d, "rebind", "mode")
     /\ UNCHANGED <<owner, lock>>
  \/ /\ path # Nothing /\ Go(d, "rebind", "exit") /\ Unlocked(d)
     /\ UNCHANGED <<path, owner>>

\* chmod and chown go by the path's name: they fail when the entry is gone or
\* the owner is refused, and then whatever is at the path is unlinked.
ChangeMode(d) ==
  \/ /\ path # Nothing /\ d \notin Refused /\ Go(d, "mode", "listen")
     /\ UNCHANGED <<path, owner, lock>>
  \/ /\ path = Nothing \/ d \in Refused
     /\ Go(d, "mode", "exit") /\ path' = Nothing /\ Unlocked(d)
     /\ UNCHANGED owner

Listen(d) ==
  /\ Go(d, "listen", "capture") /\ Unlocked(d)
  /\ UNCHANGED <<path, owner>>

-----------------------------------------------------------------------------
(* shutdown.rs *)

\* SocketPath::capture takes whatever socket is at the path by now.
Capture(d) ==
  /\ Go(d, "capture", IF path \in Daemons THEN "run" ELSE "exit")
  /\ owner' = [owner EXCEPT ![d] = path]
  /\ UNCHANGED <<path, lock>>

\* finish closes the listening socket before the path is looked at.
Stop(d) == Go(d, "run", "compare") /\ UNCHANGED <<path, owner, lock>>

Compare(d) ==
  /\ Go(d, "compare", IF path = owner[d] THEN "remove" ELSE "exit")
  /\ UNCHANGED <<path, owner, lock>>

Remove(d) ==
  /\ Go(d, "remove", "exit") /\ path' = Nothing
  /\ UNCHANGED <<owner, lock>>

-----------------------------------------------------------------------------
(* SIGKILL at any moment; the kernel drops the lock, the path stays. *)
Kill(d) ==
  /\ pc[d] \notin Ended /\ pc' = [pc EXCEPT ![d] = "killed"]
  /\ Unlocked(d)
  /\ UNCHANGED <<path, owner>>

SocketInit ==
  /\ strict \in SUBSET Daemons
  /\ path \in {Nothing, File}
  /\ pc = [d \in Daemons |-> "start"]
  /\ owner = [d \in Daemons |-> Nothing]
  /\ lock = Nothing

Startup(d) ==
  \/ Inspect(d) \/ Probe(d) \/ Unlink(d)
  \/ Lock(d) \/ Bind(d) \/ ProbeInUse(d) \/ Kind(d) \/ Reclaim(d) \/ Rebind(d)
  \/ ChangeMode(d) \/ Listen(d) \/ Capture(d)

Shutdown(d) == Stop(d) \/ Compare(d) \/ Remove(d)

SocketNext == (\E d \in Daemons : Startup(d) \/ Shutdown(d) \/ Kill(d)) /\ UNCHANGED strict

SocketSpec == SocketInit /\ [][SocketNext]_<<socketVars, strict>>
SocketFairSpec == SocketSpec /\ \A d \in Daemons : WF_socketVars(Startup(d))

-----------------------------------------------------------------------------
(* Properties. *)

Locations == {"start", "probe", "unlink", "lock", "bind", "inuse", "kind", "reclaim", "rebind",
              "mode", "listen", "capture", "run", "compare", "remove"} \cup Ended

\* Everything has its type.
SocketTypeOK ==
  /\ strict \subseteq Daemons
  /\ path \in Daemons \cup {Nothing, File}
  /\ pc \in [Daemons -> Locations]
  /\ owner \in [Daemons -> Daemons \cup {Nothing, File}]
  /\ lock \in Daemons \cup {Nothing}

\* With -z everywhere a start never takes the path from a live daemon: while one
\* listens there, only a shutdown changes the path.  (Without -z the path is
\* probed and unlinked before the lock is taken, and a daemon that comes up in
\* between loses it; so does one that replaces a daemon between the comparison
\* and the unlink of its shutdown.)
StartupSpares ==
  [][strict = Daemons /\ Live =>
       path' = path \/ \E d \in Daemons : pc[d] = "remove" /\ pc'[d] = "exit"]_socketVars

\* The startup lock is held from the first bind to the listen, by one process,
\* and what was found or bound under it stays so, or is gone.
LockHeld ==
  \A d \in Daemons :
    /\ pc[d] \in {"bind", "inuse", "kind", "reclaim", "rebind", "mode", "listen"} => lock = d
    /\ pc[d] \in {"kind", "reclaim"} => ~Live
    /\ pc[d] \in {"mode", "listen"} => path \in {d, Nothing}

\* What a process does under the startup lock never removes a live socket.
LockedSpares == [][lock # Nothing /\ pc'[lock] # pc[lock] /\ Live => path' = path]_socketVars

\* The only process left that starts gets the path of those that were killed.
Recovers ==
  \A d \in Daemons \ Refused :
    d \notin strict /\ pc[d] = "start" /\ path # File /\ (\A e \in Daemons \ {d} : pc[e] \in Ended) ~>
      Listening(d) \/ pc[d] = "killed"

\* A start takes the path from no live daemon: not with -z, and not under the
\* startup lock.
LiveSpared == StartupSpares /\ LockedSpares
=============================================================================
