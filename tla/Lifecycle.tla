------------------------------ MODULE Lifecycle ------------------------------
(***************************************************************************)
(* Starting and stopping the daemon (src/voidgate.c: main, pid_lock,       *)
(* write_pidfile, daemon_stop; src/ctl_server.c: vg_ctl_server_alive and   *)
(* vg_ctl_server_listen; src/maps.c: attach and detach).                   *)
(*                                                                         *)
(* Several processes run the binary, to serve or, with -s stop, to end the *)
(* one that serves.  They share the pid file, which is locked by inode and *)
(* unlinked by name, the control socket and the XDP hook of the interface. *)
(* A step is one system call on one of these.  Any process may be killed   *)
(* at any point; the kernel then drops its locks and closes its socket,    *)
(* and leaves the files and the XDP program.                               *)
(***************************************************************************)
EXTENDS Integers, FiniteSets

CONSTANTS
  Daemons,   \* processes started to serve; each may create one inode
  Stops,     \* processes started with -s stop
  None,      \* no file, no owner, no pid
  MaxKills   \* bound: processes that are killed

Procs == Daemons \cup Stops

ASSUME LifecycleAssumption ==
  /\ Daemons \cap Stops = {}
  /\ None \notin Procs
  /\ MaxKills \in Nat

VARIABLES
  pc,     \* where each process is
  path,   \* the inode the pid file's name leads to
  fd,     \* the inode each process has open
  lock,   \* who holds the lock of each inode: one daemon, or stops that share it
  text,   \* the pid written in each inode
  target, \* the pid a stopping process has read
  term,   \* daemons with SIGTERM delivered: g_stop
  ctl,    \* daemons that listen on a socket: ctl_fd
  sock,   \* whose socket the socket's path leads to
  xdp,    \* whose program is attached
  kills   \* kills still to come

file == <<path, lock, text>>
vars == <<pc, file, fd, target, term, ctl, sock, xdp, kills>>

Gone == {"exited", "killed"}

Running(p) == pc[p] \notin Gone \cup {"new"}

\* Its program should be the one on the interface.
Serving(p) ==
  pc[p] \in {"attached", "swept", "bound", "listening", "truncated", "serving"}

At(p, here) == pc[p] = here
Goes(p, there) == pc' = [pc EXCEPT ![p] = there]

\* The kernel drops the locks of a process that ends.
Unlocked(p) == [i \in Daemons |-> lock[i] \ {p}]
----------------------------------------------------------------------------
(***************************************************************************)
(* Starting.                                                               *)
(***************************************************************************)

\* pid_lock: open, with O_CREAT.
OpenPid(p) ==
  /\ At(p, "new")
  /\ IF path = None
     THEN path' = p /\ fd' = [fd EXCEPT ![p] = p]
     ELSE fd' = [fd EXCEPT ![p] = path] /\ UNCHANGED path
  /\ Goes(p, "opened")
  /\ UNCHANGED <<lock, text, target, term, ctl, sock, xdp, kills>>

\* Mutant of pid_lock: the lock is taken by name, on the file that is there
\* by now.
LockByName(p) ==
  /\ At(p, "opened")
  /\ path # None
  /\ IF lock[path] = {}
     THEN lock' = [lock EXCEPT ![path] = {p}] /\ Goes(p, "locked")
     ELSE Goes(p, "exited") /\ UNCHANGED lock
  /\ UNCHANGED <<path, fd, text, target, term, ctl, sock, xdp, kills>>

\* Mutant of pid_lock: the result of flock is not looked at.
LockUnchecked(p) ==
  /\ At(p, "opened")
  /\ lock' = IF lock[fd[p]] = {} THEN [lock EXCEPT ![fd[p]] = {p}] ELSE lock
  /\ Goes(p, "locked")
  /\ UNCHANGED <<path, fd, text, target, term, ctl, sock, xdp, kills>>

\* pid_lock: flock, exclusive, which fails when a daemon, or a stop, holds the file.
pid_lock(p) ==
  /\ At(p, "opened")
  /\ IF lock[fd[p]] = {}
     THEN lock' = [lock EXCEPT ![fd[p]] = {p}] /\ Goes(p, "locked")
     ELSE Goes(p, "exited") /\ UNCHANGED lock
  /\ UNCHANGED <<path, fd, text, target, term, ctl, sock, xdp, kills>>

\* Mutant of vg_ctl_server_alive: a leftover socket file counts as alive.
SocketExists == sock # None

vg_ctl_server_alive == sock \in ctl

CheckAlive(p) ==
  /\ At(p, "locked")
  /\ Goes(p, IF vg_ctl_server_alive THEN "refused" ELSE "alone")
  /\ UNCHANGED <<file, fd, target, term, ctl, sock, xdp, kills>>

\* Another one serves: unlink the pid file, and exit.
Refuse(p) ==
  /\ At(p, "refused")
  /\ path' = None
  /\ Goes(p, "unlinked")
  /\ UNCHANGED <<lock, text, fd, target, term, ctl, sock, xdp, kills>>

\* Replaces whatever program is there.
vg_xdp_attach(p) ==
  /\ At(p, "alone")
  /\ xdp' = p
  /\ Goes(p, "attached")
  /\ UNCHANGED <<file, fd, target, term, ctl, sock, kills>>

\* vg_ctl_server_listen: unlinks whatever socket is there,
UnlinkSocket(p) ==
  /\ At(p, "attached")
  /\ sock' = None
  /\ Goes(p, "swept")
  /\ UNCHANGED <<file, fd, target, term, ctl, xdp, kills>>

\* binds its own, which fails if another one is there by now; the daemon then
\* goes on without,
Bind(p) ==
  /\ At(p, "swept")
  /\ \/ sock = None /\ sock' = p /\ Goes(p, "bound")
     \/ UNCHANGED sock /\ Goes(p, "listening")
  /\ UNCHANGED <<file, fd, target, term, ctl, xdp, kills>>

\* and listens, which does not fail on a socket that is bound.
vg_ctl_server_listen(p) ==
  /\ At(p, "bound")
  /\ ctl' = ctl \cup {p}
  /\ Goes(p, "listening")
  /\ UNCHANGED <<file, fd, target, term, sock, xdp, kills>>

\* write_pidfile: truncates, and writes.
TruncatePid(p) ==
  /\ At(p, "listening")
  /\ text' = [text EXCEPT ![fd[p]] = None]
  /\ Goes(p, "truncated")
  /\ UNCHANGED <<path, lock, fd, target, term, ctl, sock, xdp, kills>>

write_pidfile(p) ==
  /\ At(p, "truncated")
  /\ text' = [text EXCEPT ![fd[p]] = p]
  /\ Goes(p, "serving")
  /\ UNCHANGED <<path, lock, fd, target, term, ctl, sock, xdp, kills>>

\* One of the two fails: unlink the pid file, and die with all that is attached.
WriteFails(p) ==
  /\ pc[p] \in {"listening", "truncated"}
  /\ kills > 0
  /\ kills' = kills - 1
  /\ path' = None
  /\ Goes(p, "failed")
  /\ UNCHANGED <<lock, text, fd, target, term, ctl, sock, xdp>>

Die(p) ==
  /\ At(p, "failed")
  /\ lock' = Unlocked(p)
  /\ ctl' = ctl \ {p}
  /\ Goes(p, "killed")
  /\ UNCHANGED <<path, text, fd, target, term, sock, xdp, kills>>
----------------------------------------------------------------------------
(***************************************************************************)
(* Shutting down.                                                          *)
(***************************************************************************)

\* Mutant of LeaveLoop: a signal that interrupts poll only starts it again.
StayInLoop(p) ==
  /\ At(p, "serving")
  /\ p \in term
  /\ UNCHANGED vars

\* The event loop sees g_stop.
LeaveLoop(p) ==
  /\ At(p, "serving")
  /\ p \in term
  /\ Goes(p, "stopping")
  /\ UNCHANGED <<file, fd, target, term, ctl, sock, xdp, kills>>

\* SIGTERM or SIGINT from elsewhere, once the handler is installed.
on_signal(p) ==
  /\ Serving(p)
  /\ term' = term \cup {p}
  /\ UNCHANGED <<pc, file, fd, target, ctl, sock, xdp, kills>>

\* Detaches whatever program is there.
vg_maps_close(p) ==
  /\ At(p, "stopping")
  /\ xdp' = None
  /\ Goes(p, "detached")
  /\ UNCHANGED <<file, fd, target, term, ctl, sock, kills>>

\* Mutant of CloseSocket: the pid file is closed along with the socket.
CloseBoth(p) ==
  /\ At(p, "detached")
  /\ ctl' = ctl \ {p}
  /\ lock' = Unlocked(p)
  /\ Goes(p, IF p \in ctl THEN "deaf" ELSE "closed")
  /\ UNCHANGED <<path, text, fd, target, term, sock, xdp, kills>>

\* Closes its own socket, if it has one,
CloseSocket(p) ==
  /\ At(p, "detached")
  /\ ctl' = ctl \ {p}
  /\ Goes(p, IF p \in ctl THEN "deaf" ELSE "closed")
  /\ UNCHANGED <<file, fd, target, term, sock, xdp, kills>>

\* and then unlinks whatever socket is there.
LeaveSocket(p) ==
  /\ At(p, "deaf")
  /\ sock' = None
  /\ Goes(p, "closed")
  /\ UNCHANGED <<file, fd, target, term, ctl, xdp, kills>>

UnlinkPid(p) ==
  /\ At(p, "closed")
  /\ path' = None
  /\ Goes(p, "unlinked")
  /\ UNCHANGED <<lock, text, fd, target, term, ctl, sock, xdp, kills>>

\* Closing the pid file releases the lock.
Exit(p) ==
  /\ At(p, "unlinked")
  /\ lock' = Unlocked(p)
  /\ Goes(p, "exited")
  /\ UNCHANGED <<path, text, fd, target, term, ctl, sock, xdp, kills>>
----------------------------------------------------------------------------
(***************************************************************************)
(* daemon_stop.                                                            *)
(***************************************************************************)

OpenToStop(s) ==
  /\ At(s, "new")
  /\ IF path = None
     THEN Goes(s, "exited") /\ UNCHANGED fd
     ELSE Goes(s, "opened") /\ fd' = [fd EXCEPT ![s] = path]
  /\ UNCHANGED <<file, target, term, ctl, sock, xdp, kills>>

ReadPid(s) ==
  /\ At(s, "opened")
  /\ target' = [target EXCEPT ![s] = text[fd[s]]]
  /\ Goes(s, "read")
  /\ UNCHANGED <<file, fd, term, ctl, sock, xdp, kills>>

\* A shared lock that can be had means that no daemon holds the file.
TryLock(s) ==
  /\ At(s, "read")
  /\ IF lock[fd[s]] \subseteq Stops
     THEN lock' = [lock EXCEPT ![fd[s]] = @ \cup {s}] /\ Goes(s, "stale")
     ELSE /\ Goes(s, IF target[s] = None THEN "exited" ELSE "signal")
          /\ UNCHANGED lock
  /\ UNCHANGED <<path, fd, text, target, term, ctl, sock, xdp, kills>>

CloseStale(s) ==
  /\ At(s, "stale")
  /\ lock' = Unlocked(s)
  /\ Goes(s, "unlink")
  /\ UNCHANGED <<path, fd, text, target, term, ctl, sock, xdp, kills>>

Kill(s) ==
  /\ At(s, "signal")
  /\ IF Running(target[s])
     THEN term' = term \cup {target[s]} /\ Goes(s, "wait")
     ELSE Goes(s, "unlink") /\ UNCHANGED term
  /\ UNCHANGED <<file, fd, target, ctl, sock, xdp, kills>>

\* The daemon is gone; or ten seconds are over.
Wait(s) ==
  /\ At(s, "wait")
  /\ \/ ~Running(target[s]) /\ Goes(s, "unlink")
     \/ Goes(s, "exited")
  /\ UNCHANGED <<file, fd, target, term, ctl, sock, xdp, kills>>

StopUnlink(s) ==
  /\ At(s, "unlink")
  /\ path' = None
  /\ Goes(s, "exited")
  /\ UNCHANGED <<lock, text, fd, target, term, ctl, sock, xdp, kills>>
----------------------------------------------------------------------------
\* A crash, kill -9, or vg_die on a call that fails before the attach.  Process
\* ids are not reused.
Killed(p) ==
  /\ Running(p)
  /\ kills > 0
  /\ kills' = kills - 1
  /\ lock' = Unlocked(p)
  /\ ctl' = ctl \ {p}
  /\ Goes(p, "killed")
  /\ UNCHANGED <<path, text, fd, target, term, sock, xdp>>

Init ==
  /\ pc = [p \in Procs |-> "new"]
  /\ path = None
  /\ fd = [p \in Procs |-> None]
  /\ lock = [i \in Daemons |-> {}]
  /\ text = [i \in Daemons |-> None]
  /\ target = [s \in Stops |-> None]
  /\ term = {}
  /\ ctl = {}
  /\ sock = None
  /\ xdp = None
  /\ kills = MaxKills

\* What a daemon does by itself once it is started.
DaemonStep(p) ==
  \/ pid_lock(p)
  \/ CheckAlive(p)
  \/ Refuse(p)
  \/ vg_xdp_attach(p)
  \/ UnlinkSocket(p)
  \/ Bind(p)
  \/ vg_ctl_server_listen(p)
  \/ TruncatePid(p)
  \/ write_pidfile(p)
  \/ WriteFails(p)
  \/ Die(p)
  \/ LeaveLoop(p)
  \/ vg_maps_close(p)
  \/ CloseSocket(p)
  \/ LeaveSocket(p)
  \/ UnlinkPid(p)
  \/ Exit(p)

StopStep(s) ==
  \/ OpenToStop(s)
  \/ ReadPid(s)
  \/ TryLock(s)
  \/ CloseStale(s)
  \/ Kill(s)
  \/ Wait(s)
  \/ StopUnlink(s)

Next ==
  \/ \E p \in Daemons : OpenPid(p) \/ DaemonStep(p) \/ on_signal(p)
  \/ \E s \in Stops : StopStep(s)
  \/ \E p \in Procs : Killed(p)

\* A process that was started is scheduled.
Fairness == \A p \in Daemons : WF_vars(DaemonStep(p))

Spec == Init /\ [][Next]_vars /\ Fairness
----------------------------------------------------------------------------
(***************************************************************************)
(* Properties.                                                             *)
(***************************************************************************)

\* The shape of the state.  A process that has the pid file's lock is one
\* that has the file open and is not gone.
TypeOK ==
  /\ pc \in [Procs -> {"new", "opened", "locked", "refused", "alone", "attached",
                       "swept", "bound", "listening", "truncated", "failed", "serving",
                       "stopping", "detached", "deaf", "closed", "unlinked", "read",
                       "stale", "signal", "wait", "unlink"} \cup Gone]
  /\ path \in Daemons \cup {None}
  /\ fd \in [Procs -> Daemons \cup {None}]
  /\ lock \in [Daemons -> SUBSET Procs]
  /\ \A i \in Daemons : \A p \in lock[i] : fd[p] = i /\ Running(p)
  /\ text \in [Daemons -> Daemons \cup {None}]
  /\ target \in [Stops -> Daemons \cup {None}]
  /\ term \subseteq Daemons
  /\ ctl \subseteq Daemons
  /\ sock \in Daemons \cup {None}
  /\ xdp \in Daemons \cup {None}
  /\ kills \in 0 .. MaxKills

\* The comment on the end of main: once the lock is gone a new instance may
\* start, and XDP and the socket must already be released by then.  From the
\* attach of a daemon that is not killed to its detach, and from its bind to the
\* unlink of the socket, it has the lock of the file it opened, whatever other
\* daemons replace, detach or unlink meanwhile (main, pid_lock, vg_maps_close).
ReleasedBeforeUnlock ==
  \A p \in Daemons :
    pc[p] # "killed" /\ (xdp = p \/ sock = p) => p \in lock[fd[p]]

\* README: after a crash a restart takes over.  Whatever earlier processes
\* left behind, a daemon that starts while no other process runs gets to
\* serve, unless it is killed, is told to stop, or another one is started.
RestartTakesOver ==
  \A p \in Daemons :
     (pc[p] = "opened" /\ \A q \in Procs \ {p} : ~Running(q))
        ~> \/ pc[p] \in {"serving", "killed"}
           \/ \E q \in Procs \ {p} : Running(q)

\* A daemon that gets SIGTERM ends, wherever in its start it was hit (g_stop
\* is looked at by the event loop only).
StopIsHeeded ==
  \A p \in Daemons : p \in term ~> pc[p] \in Gone

\* -s stop opens the file, reads the pid and looks at the lock in three calls,
\* while daemons come, crash and leave their pid behind in a file that the next
\* one locks before it writes.  What it is about to signal is nevertheless gone,
\* or is a daemon that still holds the very file the pid was read from
\* (pid_lock, write_pidfile, daemon_stop).
StopSignalsHolder ==
  \A s \in Stops :
    (pc[s] = "signal" /\ Running(target[s])) => target[s] \in lock[fd[s]]

\* README: only one daemon runs at a time.
OneDaemon == \A p, q \in Daemons : Serving(p) /\ Serving(q) => p = q
=============================================================================
