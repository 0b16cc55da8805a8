--------------------------- MODULE LifecycleProofs ---------------------------
(***************************************************************************)
(* What the pid file's lock ensures, for any number of daemons, of -s stop *)
(* processes and of kills.                                                 *)
(*                                                                         *)
(* The invariant ties the lock of an inode to the place of the processes   *)
(* that have it open (LockFollows), and a pid that was written, and maybe  *)
(* read, to the daemon that wrote it (PidFollows).  The second is what     *)
(* makes it harmless that a stop reads the pid before it looks at the      *)
(* lock: a pid is in no other file than its daemon's, and its daemon has   *)
(* the lock of that file for as long as it runs.                           *)
(***************************************************************************)
EXTENDS Lifecycle, TLAPS

\* Where a daemon is from its flock to the close of the file.
Held == {"locked", "refused", "alone", "attached", "swept", "bound", "listening",
         "truncated", "failed", "serving", "stopping", "detached", "deaf", "closed",
         "unlinked"}

\* Where it is once its pid is in the file.
Written == {"serving", "stopping", "detached", "deaf", "closed", "unlinked"} \cup Gone

\* Daemons hold the lock of their file alone, stops share it for a moment.
LockFollows ==
  /\ \A p \in Procs : Running(p) => fd[p] \in Daemons
  /\ \A p \in Daemons : pc[p] \in Held => p \in lock[fd[p]]
  /\ \A i \in Daemons : \A p \in lock[i] :
       /\ fd[p] = i
       /\ p \in Daemons => pc[p] \in Held /\ lock[i] = {p}
       /\ p \in Stops => pc[p] = "stale"

\* A pid leads to the daemon that wrote it, which has that file open.
PidFollows ==
  /\ \A i \in Daemons :
       text[i] # None => fd[text[i]] = i /\ pc[text[i]] \in Written
  /\ \A s \in Stops :
       /\ target[s] # None => fd[target[s]] = fd[s] /\ pc[target[s]] \in Written
       /\ pc[s] \in {"signal", "wait"} => target[s] # None
       /\ pc[s] \in {"new", "opened"} => target[s] = None

\* Where the owner of the program on the interface, and of the socket, is.
Attached == {"attached", "swept", "bound", "listening", "truncated", "failed", "serving",
             "stopping", "killed"}
Bound == {"bound", "listening", "truncated", "failed", "serving", "stopping", "detached",
          "deaf", "killed"}

\* Where one that could bind listens.
Hears == {"listening", "truncated", "failed", "serving", "stopping", "detached"}

OwnsFollow ==
  /\ xdp # None => pc[xdp] \in Attached
  /\ sock # None => pc[sock] \in Bound /\ (pc[sock] \in Hears => sock \in ctl)

Places == {"new", "opened", "locked", "refused", "alone", "attached", "swept",
           "bound", "listening", "truncated", "failed", "serving", "stopping", "detached",
           "deaf", "closed", "unlinked", "read", "stale", "signal", "wait", "unlink"}
          \cup Gone

\* TypeOK, less what LockFollows says more exactly.
Shapes ==
  /\ pc \in [Procs -> Places]
  /\ path \in Daemons \cup {None}
  /\ fd \in [Procs -> Daemons \cup {None}]
  /\ lock \in [Daemons -> SUBSET Procs]
  /\ text \in [Daemons -> Daemons \cup {None}]
  /\ target \in [Stops -> Daemons \cup {None}]
  /\ term \subseteq Daemons
  /\ ctl \subseteq Daemons
  /\ sock \in Daemons \cup {None}
  /\ xdp \in Daemons \cup {None}
  /\ kills \in 0 .. MaxKills

IInv == Shapes /\ LockFollows /\ PidFollows /\ OwnsFollow

\* What pid_lock does ensure of the README's one daemon at a time: two
\* daemons that serve have different pid files, whatever their names lead to.
OneDaemonPerFile ==
  \A p, q \in Daemons : Serving(p) /\ Serving(q) /\ fd[p] = fd[q] => p = q
----------------------------------------------------------------------------
LEMMA ProcsSplit ==
  /\ Daemons \subseteq Procs /\ Stops \subseteq Procs
  /\ \A p \in Procs : p \in Daemons \/ p \in Stops
  /\ \A p \in Daemons : p \notin Stops
  /\ None \notin Daemons /\ None \notin Stops
  BY LifecycleAssumption DEF Procs

\* Only p moves.
LEMMA OneMoves ==
  ASSUME Shapes, NEW p \in Procs, NEW there \in Places, Goes(p, there)
  PROVE  /\ pc' \in [Procs -> Places]
         /\ pc'[p] = there
         /\ \A q \in Procs : q # p => pc'[q] = pc[q]
  BY DEF Goes, Shapes

\* A daemon that has the lock goes on with it.
LEMMA HeldMoves ==
  ASSUME IInv, NEW p \in Daemons, pc[p] \in Held, NEW there \in Held, Goes(p, there),
         pc[p] \in Written => there \in Written, UNCHANGED <<lock, fd, target>>,
         \A i \in Daemons :
           text'[i] \in {text[i], None} \/ (text'[i] = p /\ i = fd[p] /\ there \in Written)
  PROVE  pc' \in [Procs -> Places] /\ LockFollows' /\ PidFollows'
  <1> USE ProcsSplit
  <1>0. Shapes /\ LockFollows /\ PidFollows /\ p \in Procs
    BY DEF IInv
  <1>1. there \in Places /\ there \notin Gone \cup {"new"}
    BY DEF Held, Places, Gone
  <1>2. pc' \in [Procs -> Places] /\ pc'[p] = there
        /\ \A q \in Procs : q # p => pc'[q] = pc[q]
    BY <1>0, <1>1, OneMoves
  <1>3. pc[p] \notin Gone \cup {"new"} /\ pc[p] # "stale"
    BY DEF Held, Gone
  <1>4. \A q \in Procs : Running(q)' => fd'[q] \in Daemons
    BY <1>0, <1>2, <1>3 DEF LockFollows, Running
  <1>5. \A q \in Daemons : pc'[q] \in Held => q \in lock'[fd'[q]]
    BY <1>0, <1>2 DEF LockFollows
  <1>6. ASSUME NEW i \in Daemons, NEW q \in lock[i]
        PROVE  /\ fd[q] = i
               /\ q \in Daemons => pc'[q] \in Held /\ lock[i] = {q}
               /\ q \in Stops => pc'[q] = "stale"
    <2>1. q \in Procs
      BY <1>0 DEF Shapes
    <2> QED BY <1>0, <1>2, <2>1 DEF LockFollows
  <1>7. LockFollows'
    BY <1>4, <1>5, <1>6 DEF LockFollows
  <1>8. \A q \in Daemons : pc[q] \in Written => pc'[q] \in Written
    BY <1>2
  <1>9. \A t \in Stops : pc'[t] = pc[t]
    BY <1>2
  <1>10. ASSUME NEW i \in Daemons, text'[i] # None
         PROVE  fd'[text'[i]] = i /\ pc'[text'[i]] \in Written
    BY <1>0, <1>2, <1>8, <1>10 DEF PidFollows, Shapes
  <1>11. PidFollows'
    BY <1>0, <1>8, <1>9, <1>10 DEF PidFollows, Shapes
  <1> QED BY <1>2, <1>7, <1>11

\* A process ends, and the kernel drops its locks.
LEMMA EndMoves ==
  ASSUME IInv, NEW p \in Procs, NEW there \in Gone, Goes(p, there),
         lock' = Unlocked(p), UNCHANGED <<fd, text, target>>
  PROVE  /\ pc' \in [Procs -> Places] /\ lock' \in [Daemons -> SUBSET Procs]
         /\ LockFollows' /\ PidFollows'
  <1> USE ProcsSplit
  <1>0. Shapes /\ LockFollows /\ PidFollows
    BY DEF IInv
  <1>1. there \in Places /\ there \in Written /\ there \notin Held
        /\ there \notin {"signal", "wait", "new", "opened"}
    BY DEF Held, Places, Written, Gone
  <1>2. pc' \in [Procs -> Places] /\ pc'[p] = there
        /\ \A q \in Procs : q # p => pc'[q] = pc[q]
    BY <1>0, <1>1, OneMoves
  <1>3. \A i \in Daemons : lock'[i] = lock[i] \ {p}
    BY DEF Unlocked
  <1>4. lock' \in [Daemons -> SUBSET Procs]
    BY <1>0 DEF Unlocked, Shapes
  <1>5. \A q \in Procs : Running(q)' => fd'[q] \in Daemons
    BY <1>0, <1>2 DEF LockFollows, Running
  <1>6. ASSUME NEW q \in Daemons, pc'[q] \in Held PROVE q \in lock'[fd'[q]]
    <2>1. q # p /\ pc[q] \in Held
      BY <1>1, <1>2, <1>6
    <2>2. Running(q)
      BY <2>1 DEF Running, Held, Gone
    <2>3. fd[q] \in Daemons /\ q \in lock[fd[q]]
      BY <1>0, <2>1, <2>2 DEF LockFollows
    <2> QED BY <1>3, <2>1, <2>3
  <1>7. ASSUME NEW i \in Daemons, NEW q \in lock'[i]
        PROVE  /\ fd[q] = i
               /\ q \in Daemons => pc'[q] \in Held /\ lock'[i] = {q}
               /\ q \in Stops => pc'[q] = "stale"
    <2>1. q \in lock[i] /\ q # p /\ q \in Procs
      BY <1>0, <1>3, <1>7 DEF Shapes
    <2>2. pc'[q] = pc[q]
      BY <1>2, <2>1
    <2>3. lock[i] = {q} => lock'[i] = {q}
      BY <1>3, <2>1
    <2> QED BY <1>0, <2>1, <2>2, <2>3 DEF LockFollows
  <1>8. LockFollows'
    BY <1>5, <1>6, <1>7 DEF LockFollows
  <1>9. \A q \in Daemons : pc[q] \in Written => pc'[q] \in Written
    BY <1>1, <1>2
  <1>10. \A t \in Stops : /\ pc'[t] \in {"signal", "wait"} => pc[t] \in {"signal", "wait"}
                          /\ pc'[t] \in {"new", "opened"} => pc[t] \in {"new", "opened"}
    BY <1>1, <1>2
  <1>11. PidFollows'
    BY <1>0, <1>9, <1>10 DEF PidFollows, Shapes
  <1> QED BY <1>2, <1>4, <1>8, <1>11

\* A process in no lock ends.
LEMMA EndUnlocked ==
  ASSUME IInv, NEW p \in Procs, \A i \in Daemons : p \notin lock[i]
  PROVE  lock = Unlocked(p)
  <1>1. lock \in [Daemons -> SUBSET Procs]
    BY DEF IInv, Shapes
  <1>2. \A i \in Daemons : lock[i] = lock[i] \ {p}
    OBVIOUS
  <1> QED BY <1>1, <1>2 DEF Unlocked

\* A stop goes on without a lock.
LEMMA StopMoves ==
  ASSUME IInv, NEW s \in Stops, pc[s] # "stale", Running(s),
         NEW there \in {"signal", "wait", "unlink"}, Goes(s, there),
         there # "unlink" => target[s] # None,
         UNCHANGED <<lock, fd, text, target>>
  PROVE  pc' \in [Procs -> Places] /\ LockFollows' /\ PidFollows'
  <1> USE ProcsSplit
  <1>0. Shapes /\ LockFollows /\ PidFollows /\ s \in Procs
    BY DEF IInv
  <1>1. there \in Places
    BY DEF Places
  <1>2. pc' \in [Procs -> Places] /\ pc'[s] = there
        /\ \A q \in Procs : q # s => pc'[q] = pc[q]
    BY <1>0, <1>1, OneMoves
  <1>3. \A q \in Daemons : pc'[q] = pc[q]
    BY <1>2
  <1>4. \A q \in Procs : Running(q)' => fd'[q] \in Daemons
    BY <1>0, <1>2 DEF LockFollows, Running
  <1>5. ASSUME NEW i \in Daemons, NEW q \in lock[i]
        PROVE  /\ fd[q] = i
               /\ q \in Daemons => pc'[q] \in Held /\ lock[i] = {q}
               /\ q \in Stops => pc'[q] = "stale"
    <2>1. q \in Procs
      BY <1>0 DEF Shapes
    <2> QED BY <1>0, <1>2, <2>1 DEF LockFollows
  <1>6. LockFollows'
    BY <1>0, <1>3, <1>4, <1>5 DEF LockFollows
  <1>7. PidFollows'
    BY <1>0, <1>2, <1>3 DEF PidFollows, Shapes
  <1> QED BY <1>2, <1>6, <1>7
\* A process moves, and what it owns is right for where it goes.
LEMMA OwnsMove ==
  ASSUME IInv, NEW p \in Procs, NEW there \in Places, Goes(p, there),
         xdp' \in {xdp, p, None}, sock' \in {sock, p, None},
         \A q \in ctl : q # p => q \in ctl',
         xdp' = p => there \in Attached,
         sock' = p => there \in Bound /\ (there \in Hears => p \in ctl')
  PROVE  OwnsFollow'
  <1>1. pc'[p] = there /\ \A q \in Procs : q # p => pc'[q] = pc[q]
    BY OneMoves DEF IInv
  <1>2. xdp \in Procs \cup {None} /\ sock \in Procs \cup {None} /\ OwnsFollow
    BY ProcsSplit DEF IInv, Shapes
  <1>3. xdp' # None => pc'[xdp'] \in Attached
    BY <1>1, <1>2 DEF OwnsFollow
  <1>4. sock' # None => pc'[sock'] \in Bound /\ (pc'[sock'] \in Hears => sock' \in ctl')
    BY <1>1, <1>2 DEF OwnsFollow
  <1> QED BY <1>3, <1>4 DEF OwnsFollow

\* Every step of a daemon keeps the inductive invariant.
LEMMA DaemonInv ==
  ASSUME IInv, NEW p \in Daemons, OpenPid(p) \/ DaemonStep(p) \/ on_signal(p)
  PROVE  IInv'
  <1> USE ProcsSplit
  <1>0. Shapes /\ LockFollows /\ PidFollows /\ OwnsFollow /\ p \in Procs
    BY DEF IInv
  <1>a. \A here \in Places : pc[p] = here /\ xdp = p => here \in Attached
    BY <1>0 DEF OwnsFollow
  <1>b. \A here \in Places : pc[p] = here /\ sock = p =>
          here \in Bound /\ (here \in Hears => p \in ctl)
    BY <1>0 DEF OwnsFollow
  <1>1. CASE OpenPid(p)
    <2>1. /\ pc[p] = "new" /\ Goes(p, "opened") /\ path' \in {path, p}
          /\ UNCHANGED <<lock, text, target, term, ctl, sock, xdp, kills>>
      BY <1>1 DEF OpenPid, At
    <2>2. PICK i \in Daemons : fd' = [fd EXCEPT ![p] = i]
      BY <1>0, <1>1 DEF OpenPid, Shapes
    <2>3. "opened" \in Places /\ "opened" \notin Held /\ "opened" \notin {"stale", "signal", "wait"}
          /\ "new" \notin Held /\ "new" \notin Written /\ "new" \notin Attached \cup Bound
      BY DEF Places, Held, Written, Gone, Attached, Bound
    <2>4. pc' \in [Procs -> Places] /\ pc'[p] = "opened"
          /\ \A q \in Procs : q # p => pc'[q] = pc[q]
      BY <1>0, <2>1, <2>3, OneMoves
    <2>5. fd' \in [Procs -> Daemons \cup {None}] /\ fd'[p] = i
          /\ \A q \in Procs : q # p => fd'[q] = fd[q]
      BY <1>0, <2>2 DEF Shapes
    <2>6. Shapes'
      BY <1>0, <2>1, <2>4, <2>5 DEF Shapes
    <2>7. \A j \in Daemons : p \notin lock[j]
      BY <1>0, <2>1, <2>3 DEF LockFollows
    <2>8. \A q \in Procs : Running(q)' => fd'[q] \in Daemons
      BY <1>0, <2>4, <2>5 DEF LockFollows, Running
    <2>9. \A q \in Daemons : pc'[q] \in Held => q \in lock'[fd'[q]]
      BY <1>0, <2>1, <2>3, <2>4, <2>5 DEF LockFollows
    <2>10. ASSUME NEW j \in Daemons, NEW q \in lock[j]
           PROVE  /\ fd'[q] = j
                  /\ q \in Daemons => pc'[q] \in Held /\ lock[j] = {q}
                  /\ q \in Stops => pc'[q] = "stale"
      <3>1. q \in Procs /\ q # p
        BY <1>0, <2>7 DEF Shapes
      <3> QED BY <1>0, <2>4, <2>5, <3>1 DEF LockFollows
    <2>11. LockFollows'
      BY <2>1, <2>8, <2>9, <2>10 DEF LockFollows
    <2>12. ASSUME NEW q \in Daemons, pc[q] \in Written
           PROVE  pc'[q] \in Written /\ fd'[q] = fd[q]
      BY <2>1, <2>3, <2>4, <2>5, <2>12
    <2>13. \A t \in Stops : pc'[t] = pc[t] /\ fd'[t] = fd[t]
      BY <2>4, <2>5
    <2>14. PidFollows'
      BY <1>0, <2>1, <2>12, <2>13 DEF PidFollows, Shapes
    <2>15. OwnsFollow'
      BY <1>0, <2>1, <2>3, OwnsMove DEF OwnsFollow
    <2> QED BY <2>6, <2>11, <2>14, <2>15 DEF IInv
  <1>2. CASE pid_lock(p)
    <2>1. /\ pc[p] = "opened" /\ UNCHANGED <<path, fd, text, target, term, ctl, sock, xdp, kills>>
      BY <1>2 DEF pid_lock, At
    <2>2. fd[p] \in Daemons /\ \A i \in Daemons : p \notin lock[i]
      BY <1>0, <2>1 DEF LockFollows, Running, Held, Gone
    <2>3. CASE lock[fd[p]] # {}
      <3>1. Goes(p, "exited") /\ lock' = Unlocked(p)
        BY <1>2, <2>2, <2>3, EndUnlocked DEF pid_lock
      <3>2. pc' \in [Procs -> Places] /\ lock' \in [Daemons -> SUBSET Procs]
            /\ LockFollows' /\ PidFollows'
        BY <2>1, <3>1, EndMoves DEF Gone
      <3>3. OwnsFollow'
        BY <1>a, <1>b, <2>1, <3>1, OwnsMove DEF Places, Attached, Bound, Gone
      <3>4. Shapes'
        BY <1>0, <2>1, <3>2 DEF Shapes
      <3> QED BY <3>2, <3>3, <3>4 DEF IInv
    <2>4. CASE lock[fd[p]] = {}
      <3>1. Goes(p, "locked") /\ lock' = [lock EXCEPT ![fd[p]] = {p}]
        BY <1>2, <2>4 DEF pid_lock
      <3>2. "locked" \in Places /\ "locked" \in Held /\ "locked" \notin {"signal", "wait"}
            /\ "opened" \notin Written /\ "opened" \notin Held
        BY DEF Places, Held, Written, Gone
      <3>3. pc' \in [Procs -> Places] /\ pc'[p] = "locked"
            /\ \A q \in Procs : q # p => pc'[q] = pc[q]
        BY <1>0, <3>1, <3>2, OneMoves
      <3>4. lock' \in [Daemons -> SUBSET Procs] /\ lock'[fd[p]] = {p}
            /\ \A i \in Daemons : i # fd[p] => lock'[i] = lock[i]
        BY <1>0, <2>2, <3>1 DEF Shapes
      <3>5. Shapes'
        BY <1>0, <2>1, <3>3, <3>4 DEF Shapes
      <3>6. \A q \in Procs : Running(q)' => fd'[q] \in Daemons
        BY <1>0, <2>1, <2>2, <3>3 DEF LockFollows, Running
      <3>7. ASSUME NEW q \in Daemons, pc'[q] \in Held PROVE q \in lock'[fd'[q]]
        <4>1. CASE q = p
          BY <2>1, <3>4, <4>1
        <4>2. CASE q # p
          <5>1. pc[q] \in Held /\ q \in lock[fd[q]]
            BY <1>0, <3>3, <3>7, <4>2 DEF LockFollows
          <5>2. fd[q] \in Daemons
            BY <1>0, <5>1 DEF LockFollows, Running, Held, Gone
          <5> QED BY <2>1, <2>4, <3>4, <5>1, <5>2
        <4> QED BY <4>1, <4>2
      <3>8. ASSUME NEW i \in Daemons, NEW q \in lock'[i]
            PROVE  /\ fd[q] = i
                   /\ q \in Daemons => pc'[q] \in Held /\ lock'[i] = {q}
                   /\ q \in Stops => pc'[q] = "stale"
        <4>1. CASE i = fd[p]
          BY <3>2, <3>3, <3>4, <4>1
        <4>2. CASE i # fd[p]
          <5>1. q \in lock[i] /\ q # p /\ q \in Procs /\ lock'[i] = lock[i]
            BY <1>0, <2>2, <3>4, <4>2 DEF Shapes
          <5> QED BY <1>0, <3>3, <5>1 DEF LockFollows
        <4> QED BY <4>1, <4>2
      <3>9. LockFollows'
        BY <2>1, <3>6, <3>7, <3>8 DEF LockFollows
      <3>10. \A q \in Daemons : pc[q] \in Written => pc'[q] \in Written
        BY <2>1, <3>2, <3>3
      <3>11. \A t \in Stops : pc'[t] = pc[t]
        BY <3>3
      <3>12. PidFollows'
        BY <1>0, <2>1, <3>10, <3>11 DEF PidFollows, Shapes
      <3>13. OwnsFollow'
        BY <1>a, <1>b, <2>1, <3>1, <3>2, OwnsMove DEF Places, Attached, Bound
      <3> QED BY <3>5, <3>9, <3>12, <3>13 DEF IInv
    <2> QED BY <2>3, <2>4
  <1>3. ASSUME NEW here \in Held, NEW there \in Held, pc[p] = here, Goes(p, there),
               here \in Written => there \in Written, UNCHANGED <<lock, fd, target>>,
               text' \in [Daemons -> Daemons \cup {None}],
               \A i \in Daemons :
                 text'[i] \in {text[i], None} \/ (text'[i] = p /\ i = fd[p] /\ there \in Written),
               path' \in {path, None}, term' = term, kills' \in 0 .. MaxKills,
               xdp' \in {xdp, p, None}, sock' \in {sock, p, None},
               ctl' \in {ctl, ctl \cup {p}, ctl \ {p}},
               xdp' = p => there \in Attached,
               sock' = p => there \in Bound /\ (there \in Hears => p \in ctl')
        PROVE  IInv'
    <2>1. pc' \in [Procs -> Places] /\ LockFollows' /\ PidFollows'
      BY <1>3, HeldMoves
    <2>2. OwnsFollow'
      BY <1>0, <1>3, OwnsMove DEF Held, Places
    <2>3. Shapes'
      BY <1>0, <1>3, <2>1 DEF Shapes
    <2> QED BY <2>1, <2>2, <2>3, SMTT(60) DEF IInv
  <1> USE DEF At, file
  <1>c. text \in [Daemons -> Daemons \cup {None}] /\ kills \in 0 .. MaxKills
    BY <1>0, SMTT(60) DEF Shapes
  <1>d. pc[p] \in Held => fd[p] \in Daemons
    BY <1>0 DEF LockFollows, Running, Held, Gone
  <1>4. CASE CheckAlive(p)
    <2>1. PICK there \in {"refused", "alone"} : Goes(p, there)
      BY <1>4 DEF CheckAlive
    <2> QED BY <1>3, <1>4, <1>a, <1>b, <1>c, <2>1
            DEF CheckAlive, Held, Written, Gone, Places, Attached, Bound, Hears
  <1>5. CASE Refuse(p)
    BY <1>3, <1>5, <1>a, <1>b, <1>c
      DEF Refuse, Held, Written, Gone, Places, Attached, Bound, Hears
  <1>6. CASE vg_xdp_attach(p)
    BY <1>3, <1>6, <1>a, <1>b, <1>c
      DEF vg_xdp_attach, Held, Written, Gone, Places, Attached, Bound, Hears
  <1>7. CASE UnlinkSocket(p)
    BY <1>3, <1>7, <1>a, <1>b, <1>c
      DEF UnlinkSocket, Held, Written, Gone, Places, Attached, Bound, Hears
  <1>8. CASE vg_ctl_server_listen(p)
    BY <1>3, <1>8, <1>a, <1>b, <1>c
      DEF vg_ctl_server_listen, Held, Written, Gone, Places, Attached, Bound, Hears
  <1>9. CASE LeaveLoop(p)
    BY <1>3, <1>9, <1>a, <1>b, <1>c
      DEF LeaveLoop, Held, Written, Gone, Places, Attached, Bound, Hears
  <1>10. CASE vg_maps_close(p)
    BY <1>3, <1>10, <1>a, <1>b, <1>c
      DEF vg_maps_close, Held, Written, Gone, Places, Attached, Bound, Hears
  <1>11. CASE LeaveSocket(p)
    BY <1>3, <1>11, <1>a, <1>b, <1>c
      DEF LeaveSocket, Held, Written, Gone, Places, Attached, Bound, Hears
  <1>20. CASE UnlinkPid(p)
    BY <1>3, <1>20, <1>a, <1>b, <1>c
      DEF UnlinkPid, Held, Written, Gone, Places, Attached, Bound, Hears
  <1>30. CASE Bind(p)
    <2>1. CASE sock = None /\ sock' = p /\ Goes(p, "bound")
      BY <1>3, <1>30, <1>a, <1>b, <1>c, <2>1
        DEF Bind, Held, Written, Gone, Places, Attached, Bound, Hears
    <2>2. CASE UNCHANGED sock /\ Goes(p, "listening")
      BY <1>3, <1>30, <1>a, <1>b, <1>c, <2>2
        DEF Bind, Held, Written, Gone, Places, Attached, Bound, Hears
    <2> QED BY <1>30, <2>1, <2>2 DEF Bind
  <1>31. CASE CloseSocket(p)
    <2>1. PICK there \in {"deaf", "closed"} :
            Goes(p, there) /\ (there = "closed" => p \notin ctl)
      BY <1>31 DEF CloseSocket
    <2> QED BY <1>3, <1>31, <1>a, <1>b, <1>c, <2>1
          DEF CloseSocket, Held, Written, Gone, Places, Attached, Bound, Hears
  <1>32. CASE TruncatePid(p)
    <2>1. pc[p] = "listening" /\ "listening" \in Held /\ "truncated" \in Held
      BY <1>32 DEF TruncatePid, Held
    <2>2. text' = [text EXCEPT ![fd[p]] = None]
      BY <1>32 DEF TruncatePid
    <2>3. text' \in [Daemons -> Daemons \cup {None}]
          /\ \A i \in Daemons : text'[i] \in {text[i], None}
      BY <1>c, <1>d, <2>1, <2>2
    <2> QED BY <1>3, <1>32, <1>a, <1>b, <1>c, <2>3
          DEF TruncatePid, Held, Written, Gone, Places, Attached, Bound, Hears
  <1>33. CASE write_pidfile(p)
    <2>1. pc[p] = "truncated" /\ "truncated" \in Held /\ "serving" \in Held
      BY <1>33 DEF write_pidfile, Held
    <2>2. text' = [text EXCEPT ![fd[p]] = p]
      BY <1>33 DEF write_pidfile
    <2>3. text' \in [Daemons -> Daemons \cup {None}]
          /\ \A i \in Daemons : text'[i] = text[i] \/ (text'[i] = p /\ i = fd[p])
      BY <1>c, <1>d, <2>1, <2>2, SMTT(60)
    <2> QED BY <1>3, <1>33, <1>a, <1>b, <1>c, <2>3
          DEF write_pidfile, Held, Written, Gone, Places, Attached, Bound, Hears
  <1>34. CASE WriteFails(p)
    <2>1. kills' \in 0 .. MaxKills
      BY <1>34, <1>c, LifecycleAssumption DEF WriteFails
    <2>2. PICK here \in {"listening", "truncated"} : pc[p] = here
      BY <1>34 DEF WriteFails
    <2> QED BY <1>3, <1>34, <1>a, <1>b, <1>c, <2>1, <2>2
          DEF WriteFails, Held, Written, Gone, Places, Attached, Bound, Hears
  <1>35. CASE Die(p)
    <2>1. /\ pc[p] = "failed" /\ Goes(p, "killed") /\ lock' = Unlocked(p)
          /\ ctl' = ctl \ {p}
          /\ UNCHANGED <<path, text, fd, target, term, sock, xdp, kills>>
      BY <1>35 DEF Die
    <2>2. pc' \in [Procs -> Places] /\ lock' \in [Daemons -> SUBSET Procs]
          /\ LockFollows' /\ PidFollows'
      BY <2>1, EndMoves DEF Gone
    <2>3. OwnsFollow'
      BY <2>1, OwnsMove DEF Places, Attached, Bound, Gone, Hears
    <2>4. Shapes'
      BY <1>0, <2>1, <2>2, SMTT(60) DEF Shapes
    <2> QED BY <2>2, <2>3, <2>4 DEF IInv
  <1>12. CASE Exit(p)
    <2>1. /\ pc[p] = "unlinked" /\ Goes(p, "exited") /\ lock' = Unlocked(p)
          /\ UNCHANGED <<path, text, fd, target, term, ctl, sock, xdp, kills>>
      BY <1>12 DEF Exit
    <2>2. pc' \in [Procs -> Places] /\ lock' \in [Daemons -> SUBSET Procs]
          /\ LockFollows' /\ PidFollows'
      BY <2>1, EndMoves DEF Gone
    <2>3. OwnsFollow'
      BY <1>a, <1>b, <2>1, OwnsMove DEF Places, Attached, Bound, Gone
    <2>4. Shapes'
      BY <1>0, <2>1, <2>2, SMTT(60) DEF Shapes
    <2> QED BY <2>2, <2>3, <2>4 DEF IInv
  <1>13. CASE on_signal(p)
    <2>1. Shapes'
      BY <1>0, <1>13 DEF on_signal, Shapes
    <2> QED BY <1>0, <1>13, <2>1 DEF on_signal, IInv, LockFollows, PidFollows,
                                     OwnsFollow, Running
  <1> QED BY <1>1, <1>2, <1>4, <1>5, <1>6, <1>7, <1>8, <1>9, <1>10, <1>11, <1>20,
             <1>12, <1>13, <1>30, <1>31, <1>32, <1>33, <1>34, <1>35 DEF DaemonStep

\* A stop that holds no lock ends.
LEMMA StopEnds ==
  ASSUME IInv, NEW s \in Stops, pc[s] # "stale", Goes(s, "exited"),
         path' \in {path, None}, UNCHANGED <<lock, text, fd, target, term, ctl, sock, xdp, kills>>
  PROVE  IInv'
  <1> USE ProcsSplit
  <1>0. Shapes /\ LockFollows /\ s \in Procs /\ xdp # s /\ sock # s
    BY SMTT(60) DEF IInv, Shapes
  <1>1. \A i \in Daemons : s \notin lock[i]
    BY <1>0 DEF LockFollows
  <1>2. lock' = Unlocked(s)
    BY <1>0, <1>1, EndUnlocked
  <1>3. pc' \in [Procs -> Places] /\ LockFollows' /\ PidFollows'
    BY <1>0, <1>2, EndMoves DEF Gone
  <1>4. OwnsFollow'
    BY <1>0, OwnsMove DEF Places, Gone
  <1>5. Shapes'
    BY <1>0, <1>3 DEF Shapes
  <1> QED BY <1>3, <1>4, <1>5 DEF IInv

\* Every step of a stop keeps it.
LEMMA StopInv ==
  ASSUME IInv, NEW s \in Stops, StopStep(s)
  PROVE  IInv'
  <1> USE ProcsSplit DEF At, file
  <1>0. Shapes /\ LockFollows /\ PidFollows /\ OwnsFollow /\ s \in Procs
        /\ xdp # s /\ sock # s
    BY SMTT(60) DEF IInv, Shapes
  <1>a. \A i \in Daemons : s \in lock[i] => pc[s] = "stale"
    BY <1>0 DEF LockFollows
  <1>1. ASSUME pc[s] # "stale", Running(s), NEW there \in {"signal", "wait", "unlink"},
               Goes(s, there), there # "unlink" => target[s] # None,
               term' \subseteq Daemons,
               UNCHANGED <<path, lock, text, fd, target, ctl, sock, xdp, kills>>
        PROVE  IInv'
    <2>1. pc' \in [Procs -> Places] /\ LockFollows' /\ PidFollows'
      BY <1>1, StopMoves
    <2>2. OwnsFollow'
      BY <1>0, <1>1, OwnsMove DEF Places
    <2>3. Shapes'
      BY <1>0, <1>1, <2>1 DEF Shapes
    <2> QED BY <2>1, <2>2, <2>3 DEF IInv
  <1>2. CASE OpenToStop(s)
    <2>1. pc[s] = "new" /\ UNCHANGED <<path, lock, text, target, term, ctl, sock, xdp, kills>>
      BY <1>2 DEF OpenToStop
    <2>2. CASE path = None
      BY <1>2, <2>1, <2>2, StopEnds DEF OpenToStop
    <2>3. CASE path # None
      <3>1. PICK i \in Daemons : fd' = [fd EXCEPT ![s] = i]
        BY <1>0, <1>2, <2>3 DEF OpenToStop, Shapes
      <3>2. Goes(s, "opened") /\ "opened" \in Places
            /\ "opened" \notin {"stale", "signal", "wait"}
        BY <1>2, <2>3 DEF OpenToStop, Places
      <3>3. pc' \in [Procs -> Places] /\ pc'[s] = "opened"
            /\ \A q \in Procs : q # s => pc'[q] = pc[q]
        BY <1>0, <3>2, OneMoves
      <3>4. fd' \in [Procs -> Daemons \cup {None}] /\ fd'[s] = i
            /\ \A q \in Procs : q # s => fd'[q] = fd[q]
        BY <1>0, <3>1 DEF Shapes
      <3>5. target[s] = None
        BY <1>0, <2>1 DEF PidFollows
      <3>6. Shapes'
        BY <1>0, <2>1, <3>3, <3>4, SMTT(60) DEF Shapes
      <3>7. \A q \in Procs : Running(q)' => fd'[q] \in Daemons
        BY <1>0, <3>3, <3>4 DEF LockFollows, Running
      <3>8. \A q \in Daemons : pc'[q] = pc[q] /\ fd'[q] = fd[q]
        BY <3>3, <3>4
      <3>9. ASSUME NEW j \in Daemons, NEW q \in lock[j]
            PROVE  /\ fd'[q] = j
                   /\ q \in Daemons => pc'[q] \in Held /\ lock[j] = {q}
                   /\ q \in Stops => pc'[q] = "stale"
        <4>1. q \in Procs /\ q # s
          BY <1>0, <1>a, <2>1, SMTT(60) DEF Shapes
        <4> QED BY <1>0, <3>3, <3>4, <4>1 DEF LockFollows
      <3>10. LockFollows'
        BY <1>0, <2>1, <3>7, <3>8, <3>9 DEF LockFollows
      <3>11. ASSUME NEW t \in Stops
             PROVE  /\ target'[t] # None => fd'[target'[t]] = fd'[t] /\ pc'[target'[t]] \in Written
                    /\ pc'[t] \in {"signal", "wait"} => target'[t] # None
                    /\ pc'[t] \in {"new", "opened"} => target'[t] = None
        <4>1. CASE t = s
          BY <2>1, <3>2, <3>3, <3>5, <4>1
        <4>2. CASE t # s
          BY <1>0, <2>1, <3>3, <3>4, <3>8, <4>2, SMTT(60) DEF PidFollows, Shapes
        <4> QED BY <4>1, <4>2
      <3>12. PidFollows'
        BY <1>0, <2>1, <3>8, <3>11 DEF PidFollows, Shapes
      <3>13. OwnsFollow'
        BY <1>0, <2>1, <3>2, OwnsMove
      <3> QED BY <3>6, <3>10, <3>12, <3>13 DEF IInv
    <2> QED BY <2>2, <2>3, Zenon
  <1>8. CASE ReadPid(s)
    <2>1. pc[s] = "opened" /\ Goes(s, "read")
          /\ UNCHANGED <<path, lock, text, fd, term, ctl, sock, xdp, kills>>
      BY <1>8 DEF ReadPid
    <2>2. "read" \in Places /\ "read" \notin Gone \cup {"new"}
          /\ "read" \notin {"stale", "signal", "wait", "new", "opened"}
      BY DEF Places, Gone
    <2>3. pc' \in [Procs -> Places] /\ pc'[s] = "read"
          /\ \A q \in Procs : q # s => pc'[q] = pc[q]
      BY <1>0, <2>1, <2>2, OneMoves
    <2>4. fd[s] \in Daemons
      BY <1>0, <2>1 DEF LockFollows, Running, Gone
    <2>5. target' \in [Stops -> Daemons \cup {None}] /\ target'[s] = text[fd[s]]
          /\ \A t \in Stops : t # s => target'[t] = target[t]
      BY <1>0, <1>8, <2>4 DEF ReadPid, Shapes
    <2>6. Shapes'
      BY <1>0, <2>1, <2>3, <2>5, SMTT(60) DEF Shapes
    <2>7. \A q \in Procs : Running(q)' => fd'[q] \in Daemons
      BY <1>0, <2>1, <2>3, <2>4 DEF LockFollows, Running
    <2>8. \A q \in Daemons : pc'[q] = pc[q]
      BY <2>3
    <2>9. ASSUME NEW j \in Daemons, NEW q \in lock[j]
          PROVE  /\ fd[q] = j
                 /\ q \in Daemons => pc'[q] \in Held /\ lock[j] = {q}
                 /\ q \in Stops => pc'[q] = "stale"
      <3>1. q \in Procs /\ q # s
        BY <1>0, <1>a, <2>1 DEF Shapes
      <3> QED BY <1>0, <2>3, <3>1 DEF LockFollows
    <2>10. LockFollows'
      BY <1>0, <2>1, <2>7, <2>8, <2>9 DEF LockFollows
    <2>11. ASSUME NEW t \in Stops
           PROVE  /\ target'[t] # None => fd[target'[t]] = fd[t] /\ pc'[target'[t]] \in Written
                  /\ pc'[t] \in {"signal", "wait"} => target'[t] # None
                  /\ pc'[t] \in {"new", "opened"} => target'[t] = None
      <3>1. CASE t = s
        BY <1>0, <2>2, <2>3, <2>4, <2>5, <2>8, <3>1 DEF PidFollows, Shapes
      <3>2. CASE t # s
        BY <1>0, <2>3, <2>5, <2>8, <3>2, SMTT(60) DEF PidFollows, Shapes
      <3> QED BY <3>1, <3>2
    <2>12. PidFollows'
      BY <1>0, <2>1, <2>8, <2>11 DEF PidFollows, Shapes
    <2>13. OwnsFollow'
      BY <1>0, <2>1, <2>2, OwnsMove
    <2> QED BY <2>6, <2>10, <2>12, <2>13 DEF IInv
  <1>3. CASE TryLock(s)
    <2>1. pc[s] = "read" /\ UNCHANGED <<path, fd, text, target, term, ctl, sock, xdp, kills>>
      BY <1>3 DEF TryLock
    <2>2. Running(s)
      BY <2>1 DEF Running, Gone
    <2>3. CASE ~(lock[fd[s]] \subseteq Stops)
      <3>1. UNCHANGED lock /\ Goes(s, IF target[s] = None THEN "exited" ELSE "signal")
        BY <1>3, <2>3 DEF TryLock
      <3>2. CASE target[s] = None
        BY <2>1, <3>1, <3>2, StopEnds
      <3>3. CASE target[s] # None
        <4>1. term' \subseteq Daemons
          BY <1>0, <2>1 DEF Shapes
        <4> QED BY <1>1, <2>1, <2>2, <3>1, <3>3, <4>1
      <3> QED BY <3>2, <3>3, Zenon
    <2>4. CASE lock[fd[s]] \subseteq Stops
      <3>1. lock' = [lock EXCEPT ![fd[s]] = @ \cup {s}] /\ Goes(s, "stale")
        BY <1>3, <2>4 DEF TryLock
      <3>2. "stale" \in Places /\ "stale" \notin {"signal", "wait", "new", "opened"}
        BY DEF Places
      <3>3. pc' \in [Procs -> Places] /\ pc'[s] = "stale"
            /\ \A q \in Procs : q # s => pc'[q] = pc[q]
        BY <1>0, <3>1, <3>2, OneMoves
      <3>4. fd[s] \in Daemons
        BY <1>0, <2>2 DEF LockFollows
      <3>5. lock' \in [Daemons -> SUBSET Procs] /\ lock'[fd[s]] = lock[fd[s]] \cup {s}
            /\ \A i \in Daemons : i # fd[s] => lock'[i] = lock[i]
        BY <1>0, <3>1, <3>4 DEF Shapes
      <3>6. Shapes'
        BY <1>0, <2>1, <3>3, <3>5 DEF Shapes
      <3>7. \A q \in Procs : Running(q)' => fd'[q] \in Daemons
        BY <1>0, <2>1, <3>3, <3>4, Zenon DEF LockFollows, Running
      <3>8. ASSUME NEW q \in Daemons, pc'[q] \in Held PROVE q \in lock'[fd'[q]]
        <4>1. pc[q] \in Held /\ q \in lock[fd[q]]
          BY <1>0, <3>3, <3>8 DEF LockFollows
        <4>2. fd[q] \in Daemons
          BY <1>0, <4>1 DEF LockFollows, Running, Held, Gone
        <4> QED BY <2>1, <3>5, <4>1, <4>2
      <3>9. ASSUME NEW i \in Daemons, NEW q \in lock'[i]
            PROVE  /\ fd[q] = i
                   /\ q \in Daemons => pc'[q] \in Held /\ lock'[i] = {q}
                   /\ q \in Stops => pc'[q] = "stale"
        <4>1. CASE q = s
          <5>1. i = fd[s]
            BY <1>a, <2>1, <3>5, <3>9, <4>1, SMTT(60)
          <5> QED BY <3>3, <4>1, <5>1
        <4>2. CASE q # s
          <5>1. q \in lock[i] /\ q \in Procs /\ pc'[q] = pc[q]
            BY <1>0, <3>3, <3>5, <4>2, SMTT(60) DEF Shapes
          <5>2. q \in Daemons => i # fd[s]
            BY <2>4, <5>1
          <5> QED BY <1>0, <3>5, <5>1, <5>2 DEF LockFollows
        <4> QED BY <4>1, <4>2
      <3>10. LockFollows'
        BY <2>1, <3>7, <3>8, <3>9 DEF LockFollows
      <3>11. PidFollows'
        BY <1>0, <2>1, <3>2, <3>3, SMTT(60) DEF PidFollows, Shapes
      <3>12. OwnsFollow'
        BY <1>0, <2>1, <3>1, <3>2, OwnsMove
      <3> QED BY <3>6, <3>10, <3>11, <3>12 DEF IInv
    <2> QED BY <2>3, <2>4, Zenon
  <1>4. CASE CloseStale(s)
    <2>1. pc[s] = "stale" /\ Goes(s, "unlink") /\ lock' = Unlocked(s)
          /\ UNCHANGED <<path, fd, text, target, term, ctl, sock, xdp, kills>>
      BY <1>4 DEF CloseStale
    <2>2. "unlink" \in Places /\ "unlink" \notin {"signal", "wait", "new", "opened"}
      BY DEF Places
    <2>3. pc' \in [Procs -> Places] /\ pc'[s] = "unlink"
          /\ \A q \in Procs : q # s => pc'[q] = pc[q]
      BY <1>0, <2>1, <2>2, OneMoves
    <2>4. lock' \in [Daemons -> SUBSET Procs] /\ \A i \in Daemons : lock'[i] = lock[i] \ {s}
      BY <1>0, <2>1 DEF Shapes, Unlocked
    <2>5. Shapes'
      BY <1>0, <2>1, <2>3, <2>4, SMTT(60) DEF Shapes
    <2>6. \A q \in Procs : Running(q)' => fd'[q] \in Daemons
      BY <1>0, <2>1, <2>3 DEF LockFollows, Running, Gone
    <2>7. ASSUME NEW q \in Daemons, pc'[q] \in Held PROVE q \in lock'[fd'[q]]
      <3>1. pc[q] \in Held /\ q \in lock[fd[q]]
        BY <1>0, <2>3, <2>7 DEF LockFollows
      <3>2. fd[q] \in Daemons
        BY <1>0, <3>1 DEF LockFollows, Running, Held, Gone
      <3> QED BY <2>1, <2>4, <3>1, <3>2
    <2>8. ASSUME NEW i \in Daemons, NEW q \in lock'[i]
          PROVE  /\ fd[q] = i
                 /\ q \in Daemons => pc'[q] \in Held /\ lock'[i] = {q}
                 /\ q \in Stops => pc'[q] = "stale"
      <3>1. q \in lock[i] /\ q # s /\ q \in Procs /\ pc'[q] = pc[q]
        BY <1>0, <2>3, <2>4, SMTT(60) DEF Shapes
      <3>2. lock[i] = {q} => lock'[i] = {q}
        BY <2>4, <3>1, SMTT(60)
      <3> QED BY <1>0, <3>1, <3>2 DEF LockFollows
    <2>9. LockFollows'
      BY <2>1, <2>6, <2>7, <2>8 DEF LockFollows
    <2>10. PidFollows'
      BY <1>0, <2>1, <2>2, <2>3 DEF PidFollows, Shapes
    <2>11. OwnsFollow'
      BY <1>0, <2>1, <2>2, OwnsMove
    <2> QED BY <2>5, <2>9, <2>10, <2>11 DEF IInv
  <1>5. CASE Kill(s)
    <2>1. pc[s] = "signal" /\ UNCHANGED <<path, lock, text, fd, target, ctl, sock, xdp, kills>>
      BY <1>5, Zenon DEF Kill
    <2>2. target[s] \in Daemons /\ Running(s)
      BY <1>0, <2>1, SMTT(60) DEF PidFollows, Shapes, Running, Gone
    <2>3. CASE Running(target[s])
      <3>1. Goes(s, "wait") /\ term' \subseteq Daemons
        BY <1>0, <1>5, <2>2, <2>3, SMTT(60) DEF Kill, Shapes
      <3> QED BY <1>1, <2>1, <2>2, <3>1, Zenon
    <2>4. CASE ~Running(target[s])
      <3>1. Goes(s, "unlink") /\ term' \subseteq Daemons
        BY <1>0, <1>5, <2>4, SMTT(60) DEF Kill, Shapes
      <3> QED BY <1>1, <2>1, <2>2, <3>1, Zenon
    <2> QED BY <2>3, <2>4, Zenon
  <1>6. CASE Wait(s)
    <2>1. pc[s] = "wait" /\ UNCHANGED <<path, lock, text, fd, target, term, ctl, sock, xdp, kills>>
      BY <1>6 DEF Wait
    <2>2. Running(s) /\ term' \subseteq Daemons
      BY <1>0, <2>1, SMTT(60) DEF Running, Gone, Shapes
    <2>3. CASE Goes(s, "unlink")
      BY <1>1, <2>1, <2>2, <2>3
    <2>4. CASE Goes(s, "exited")
      BY <2>1, <2>4, StopEnds
    <2> QED BY <1>6, <2>3, <2>4 DEF Wait
  <1>7. CASE StopUnlink(s)
    BY <1>7, StopEnds DEF StopUnlink
  <1> QED BY <1>2, <1>3, <1>4, <1>5, <1>6, <1>7, <1>8 DEF StopStep

\* A kill at any point keeps it.
LEMMA KilledInv ==
  ASSUME IInv, NEW p \in Procs, Killed(p)
  PROVE  IInv'
  <1>0. Shapes /\ OwnsFollow
    BY DEF IInv
  <1>1. /\ kills > 0 /\ kills' = kills - 1 /\ lock' = Unlocked(p) /\ Goes(p, "killed")
        /\ ctl' = ctl \ {p}
        /\ UNCHANGED <<path, text, fd, target, term, sock, xdp>>
    BY DEF Killed
  <1>2. pc' \in [Procs -> Places] /\ lock' \in [Daemons -> SUBSET Procs]
        /\ LockFollows' /\ PidFollows'
    BY <1>1, EndMoves DEF Gone
  <1>3. OwnsFollow'
    BY <1>0, <1>1, OwnsMove DEF Places, Attached, Bound, Hears, Gone
  <1>4. kills' \in 0 .. MaxKills
    BY <1>0, <1>1, LifecycleAssumption DEF Shapes
  <1>5. Shapes'
    BY <1>0, <1>1, <1>2, <1>4 DEF Shapes
  <1> QED BY <1>2, <1>3, <1>5 DEF IInv

LEMMA InitInv == Init => IInv
  <1> SUFFICES ASSUME Init PROVE IInv
    OBVIOUS
  <1> USE ProcsSplit
  <1>1. Shapes
    BY LifecycleAssumption DEF Init, Shapes, Places
  <1>2. LockFollows
    BY DEF Init, LockFollows, Running, Held
  <1>3. PidFollows
    BY DEF Init, PidFollows
  <1>4. OwnsFollow
    BY DEF Init, OwnsFollow
  <1> QED BY <1>1, <1>2, <1>3, <1>4 DEF IInv

LEMMA NextInv == IInv /\ [Next]_vars => IInv'
  <1>1. IInv /\ UNCHANGED vars => IInv'
    BY DEF vars, file, IInv, Shapes, LockFollows, PidFollows, OwnsFollow, Running
  <1> QED BY <1>1, DaemonInv, StopInv, KilledInv, SMTT(60) DEF Next

\* The invariant above holds in every reachable state.
THEOREM Invariance == Spec => []IInv
  BY InitInv, NextInv, PTL DEF Spec

\* Whoever has the pid file's lock has the file open and runs (pid_lock,
\* daemon_stop and the kernel's flock).
THEOREM TypeCorrect == Spec => []TypeOK
  <1>1. IInv => TypeOK
    <2> SUFFICES ASSUME IInv PROVE TypeOK
      OBVIOUS
    <2>1. ASSUME NEW i \in Daemons, NEW p \in lock[i] PROVE fd[p] = i /\ Running(p)
      <3>1. p \in Daemons \/ p \in Stops
        BY ProcsSplit DEF IInv, Shapes
      <3> QED BY <3>1 DEF IInv, LockFollows, Running, Held, Gone
    <2> QED BY <2>1 DEF IInv, Shapes, Places, TypeOK
  <1> QED BY <1>1, Invariance, PTL

\* A daemon that is not killed has its lock for as long as its program is on the
\* interface or its socket at the path, whatever daemons and stops ran or were
\* killed meanwhile: it releases both before the lock (the end of main:
\* vg_maps_close, the unlink of VG_SOCK_PATH).
THEOREM ReleasesFirst == Spec => []ReleasedBeforeUnlock
  <1>1. IInv => ReleasedBeforeUnlock
    <2> SUFFICES ASSUME IInv, NEW p \in Daemons, pc[p] # "killed", xdp = p \/ sock = p
                 PROVE  p \in lock[fd[p]]
      BY DEF ReleasedBeforeUnlock
    <2>1. pc[p] \in Attached \cup Bound
      BY ProcsSplit DEF IInv, OwnsFollow
    <2>2. pc[p] \in Held
      BY <2>1 DEF Attached, Bound, Held
    <2> QED BY <2>2 DEF IInv, LockFollows
  <1> QED BY <1>1, Invariance, PTL

\* A stop signals the daemon that holds the file it read, or one that is
\* gone, although it reads the pid before it looks at the lock (daemon_stop,
\* write_pidfile).
THEOREM SignalsTheHolder == Spec => []StopSignalsHolder
  <1>1. IInv => StopSignalsHolder
    <2> SUFFICES ASSUME IInv, NEW s \in Stops, pc[s] = "signal", Running(target[s])
                 PROVE  target[s] \in lock[fd[s]]
      BY DEF StopSignalsHolder
    <2>1. target[s] \in Daemons /\ fd[target[s]] = fd[s] /\ pc[target[s]] \in Written
      BY DEF IInv, Shapes, PidFollows
    <2>2. pc[target[s]] \in Held
      BY <2>1 DEF Running, Written, Held, Gone
    <2> QED BY <2>1, <2>2 DEF IInv, LockFollows
  <1> QED BY <1>1, Invariance, PTL

\* Two daemons that serve at once have two different pid files: pid_lock is
\* exclusive for each inode, though not for the file's name.
THEOREM OneServesPerFile == Spec => []OneDaemonPerFile
  <1>1. IInv => OneDaemonPerFile
    <2> SUFFICES ASSUME IInv, NEW p \in Daemons, NEW q \in Daemons,
                        Serving(p), Serving(q), fd[p] = fd[q]
                 PROVE  p = q
      BY DEF OneDaemonPerFile
    <2>1. pc[p] \in Held /\ pc[q] \in Held /\ Running(p)
      BY DEF Serving, Held, Running, Gone
    <2>2. fd[p] \in Daemons /\ p \in lock[fd[p]] /\ q \in lock[fd[p]]
      BY <2>1, ProcsSplit DEF IInv, LockFollows
    <2>3. lock[fd[p]] = {p}
      BY <2>2, Zenon DEF IInv, LockFollows
    <2> QED BY <2>2, <2>3, Zenon
  <1> QED BY <1>1, Invariance, PTL
=============================================================================
