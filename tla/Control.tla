------------------------------- MODULE Control -------------------------------
(***************************************************************************)
(* The event loop (src/voidgate.c: main), the control connections it       *)
(* serves (src/ctl_server.c: vg_ctl_server_handle; src/http.c) and the     *)
(* programs at their other end: the OpenResty client                       *)
(* (lua/resty/voidgate.lua), voidgatectl, and anything else that opens the *)
(* socket.                                                                 *)
(*                                                                         *)
(* The daemon is one thread: it blocks in poll, or in a read of the one    *)
(* connection it serves, and time passes only while it blocks or is down.  *)
(* A line is counted in units of which ReqMax fit the daemon's buffer; the *)
(* newline is one.  The drop list is reduced to what DropContract says of  *)
(* it.  Fewer clients connect at once than listen's backlog holds.         *)
(***************************************************************************)
EXTENDS Integers, Sequences

CONSTANTS
  Addrs,          \* client addresses that get banned
  Timers,         \* connections opened by ban's timers
  Others,         \* connections of ban_now, voidgatectl and other programs
  Nobody,         \* no connection
  ToolOps,        \* what voidgatectl is asked to send
  IdlePoll,       \* idle_poll_ms
  SockTimeout,    \* sock_timeout: SO_RCVTIMEO of a connection
  ClientTimeout,  \* how long the OpenResty client waits for a reply
  ReqMax,         \* sizeof(req) - 1, the bytes of a command the daemon holds
  Window,         \* how long ban's shared dict keeps an address
  Ttl,            \* the ttl of the bans
  MaxTimers,      \* lua_max_pending_timers
  MaxFaults       \* bound: daemons that end, refusals, timers cut short

Conns == Timers \cup Others

ASSUME ControlAssumption ==
  /\ Timers \cap Others = {}
  /\ Nobody \notin Conns
  /\ ToolOps \subseteq {"drop", "undrop", "disarm", "long"}
  /\ {IdlePoll, SockTimeout, ClientTimeout, Window, Ttl, MaxTimers} \subseteq Nat \ {0}
  /\ ReqMax \in Nat /\ ReqMax > 2
  /\ MaxFaults \in Nat

VARIABLES
  pc,      \* where the daemon is in its loop, or "down"
  ready,   \* the listening sockets poll reported and the round has still to serve
  cur,     \* the control connection being served
  used,    \* units of its command read so far
  waited,  \* how long the present read has blocked
  since,   \* time since the last tick
  queue,   \* control connections to be accepted
  web,     \* the connection to the metrics port
  conn,    \* the control connections, as both ends see them
  ban,     \* the drop list
  key,     \* time left to each address in the shared dict, 0 if it is not there
  timers,  \* the addresses of the pending timers
  faults   \* faults still to come

daemon == <<pc, ready, cur, used, waited, since>>
nginx == <<key, timers>>
vars == <<daemon, queue, web, conn, ban, nginx, faults>>

\* did is what the daemon did with the command.
Closed ==
  [st |-> "free", by |-> "nobody", op |-> "none", addr |-> Nobody, sent |-> 0,
   eof |-> FALSE, idle |-> 0, reply |-> "none", did |-> "nothing"]

NoBan == [kind |-> "none", left |-> 0]

\* The command of a line, without its newline; a long one does not fit.
Size(op) == IF op = "long" THEN ReqMax + 1 ELSE ReqMax - 1

\* The daemon has closed the connection; its slot is free again after the
\* present instant.
Over(r, reply, did) ==
  [Closed EXCEPT !.st = "over", !.by = r.by, !.reply = reply, !.did = did]

up == pc # "down"

Fault == faults > 0 /\ faults' = faults - 1
----------------------------------------------------------------------------
(***************************************************************************)
(* The clients.                                                            *)
(***************************************************************************)

\* A client connects, and its first units are there at once.
Connect(c, by, op, a, sent, eof) ==
  /\ conn[c].st = "free"
  /\ conn' = [conn EXCEPT ![c] = [Closed EXCEPT !.st = "wait", !.by = by, !.op = op,
                                    !.addr = a, !.sent = sent, !.eof = eof]]
  /\ queue' = Append(queue, c)

\* request: one line, sent whole.  With no daemon there is no connection.
request(c, a) ==
  IF up
  THEN Connect(c, "resty", "ban", a, Size("ban") + 1, FALSE)
  ELSE UNCHANGED <<conn, queue>>

\* One of the timers of address a runs.
Fire(a) ==
  \E i \in DOMAIN timers :
    /\ timers[i] = a
    /\ timers' = SubSeq(timers, 1, i - 1) \o SubSeq(timers, i + 1, Len(timers))

\* Mutant of M_ban: the key is set anew by every call, as with dict:set.
BanRenewsKey(a, dict, ok) ==
  /\ ok
  /\ key' = IF dict THEN [key EXCEPT ![a] = Window] ELSE key
  /\ timers' = IF key[a] = 0 /\ Len(timers) < MaxTimers
               THEN Append(timers, a) ELSE timers
  /\ UNCHANGED <<daemon, queue, web, conn, ban, faults>>

\* M.ban, by any worker, with or without a dict to keep it from sending the
\* same address again.  The key is set before the timer is asked for, and stays
\* when there are too many of them.
M_ban(a, dict, ok) ==
  /\ \/ /\ dict
        /\ key[a] > 0
        /\ ok
        /\ UNCHANGED nginx
     \/ /\ dict => key[a] = 0
        /\ key' = IF dict THEN [key EXCEPT ![a] = Window] ELSE key
        /\ ok = (Len(timers) < MaxTimers)
        /\ timers' = IF ok THEN Append(timers, a) ELSE timers
  /\ UNCHANGED <<daemon, queue, web, conn, ban, faults>>

ban_timer(c, a) ==
  /\ conn[c].st = "free"
  /\ Fire(a)
  /\ request(c, a)
  /\ UNCHANGED <<daemon, web, ban, key, faults>>

\* The worker exits: its timers run early, and do nothing.
ban_timer_premature(a) ==
  /\ Fire(a)
  /\ Fault
  /\ UNCHANGED <<daemon, queue, web, conn, ban, key>>

M_ban_now(c, a) ==
  /\ up
  /\ request(c, a)
  /\ UNCHANGED <<daemon, web, ban, nginx, faults>>

\* Mutant of commit: whatever is not an error is taken for success.
CommitTakesAny(reply) == IF reply = "error" THEN "error" ELSE "true"

\* What the OpenResty client returns for a reply.
commit(reply) ==
  CASE reply = "ok" -> "true" [] reply = "error" -> "error" [] OTHER -> "lost"

\* What voidgatectl exits with for a reply.
ExitCode(reply) ==
  CASE reply = "error" -> "error" [] reply = "none" -> "lost" [] OTHER -> "true"

\* What the program at the other end reports.
Heard(r) == IF r.by = "resty" THEN commit(r.reply) ELSE ExitCode(r.reply)

\* The client gives up; its line stays in the socket.
ReceiveTimeout(c) ==
  /\ conn[c].st = "wait"
  /\ conn[c].by = "resty"
  /\ conn[c].idle = ClientTimeout
  /\ conn' = [conn EXCEPT ![c].st = "left", ![c].eof = TRUE]
  /\ UNCHANGED <<daemon, queue, web, ban, nginx, faults>>

\* voidgatectl: what fits its own buffer, the newline last, and no more to come.
voidgatectl(c, op, a) ==
  /\ up
  /\ Connect(c, "tool", op, a, IF op = "long" THEN ReqMax ELSE Size(op) + 1, TRUE)
  /\ UNCHANGED <<daemon, web, ban, nginx, faults>>

\* Any other program, which sends its line, a drop with a ttl, as it likes.
PeerConnect(c, a) ==
  /\ up
  /\ Connect(c, "peer", "ban", a, 0, FALSE)
  /\ UNCHANGED <<daemon, web, ban, nginx, faults>>

PeerSend(c) ==
  /\ conn[c].st = "wait"
  /\ conn[c].by = "peer"
  /\ ~conn[c].eof
  /\ conn[c].sent <= Size(conn[c].op)
  /\ conn' = [conn EXCEPT ![c].sent = @ + 1]
  /\ UNCHANGED <<daemon, queue, web, ban, nginx, faults>>

PeerClose(c) ==
  /\ conn[c].st = "wait"
  /\ conn[c].by = "peer"
  /\ conn' = [conn EXCEPT ![c].eof = TRUE, ![c].st = "left"]
  /\ UNCHANGED <<daemon, queue, web, ban, nginx, faults>>

WebConnect ==
  /\ up
  /\ web = "free"
  /\ web' = "wait"
  /\ UNCHANGED <<daemon, queue, conn, ban, nginx, faults>>
----------------------------------------------------------------------------
(***************************************************************************)
(* The commands a connection may carry.  The daemon refuses one it does    *)
(* not know, cannot parse or cannot carry out (Policy).                    *)
(***************************************************************************)

Timed(b) == IF b.kind = "manual" THEN b ELSE [kind |-> "timed", left |-> Ttl]

\* The drop list after op on a.
Run(op, a) ==
  CASE op = "ban"    -> [ban EXCEPT ![a] = Timed(@)]
    [] op = "drop"   -> [ban EXCEPT ![a] = [kind |-> "manual", left |-> 0]]
    [] op = "undrop" -> [ban EXCEPT ![a] = NoBan]
    [] op = "disarm" -> [b \in Addrs |-> NoBan]

\* The drop list after op failed: it is as it was, but for a disarm, which has
\* emptied the maps and the list before the commit that can fail.
Failed(op, a) == IF op = "disarm" THEN Run(op, a) ELSE ban

\* The end of vg_ctl_server_handle: the reply, if there is one and the client
\* is still there to get it, and the close.
Finish(reply, did) ==
  /\ conn' = [conn EXCEPT ![cur] =
                 Over(@, IF @.st = "left" THEN "none" ELSE reply, did)]
  /\ cur' = Nobody
  /\ used' = 0
  /\ waited' = 0
  /\ pc' = "accept"

\* The first n units of the command run.  Of a drop with a ttl that lost its
\* end, a drop without one may be left.
Dispatch(n) ==
  LET r == conn[cur]
  IN  IF n = Size(r.op)
      THEN \/ Finish("ok", "ran") /\ ban' = Run(r.op, r.addr) /\ UNCHANGED faults
           \/ Finish("error", "failed") /\ ban' = Failed(r.op, r.addr) /\ Fault
      ELSE /\ \/ Finish("error", "cut") /\ UNCHANGED ban
              \/ /\ r.op = "ban"
                 /\ Finish("ok", "cut")
                 /\ ban' = Run("drop", r.addr)
           /\ UNCHANGED faults
----------------------------------------------------------------------------
(***************************************************************************)
(* The event loop.                                                         *)
(***************************************************************************)

Waiting ==
  (IF queue # <<>> THEN {"ctl"} ELSE {}) \cup (IF web = "wait" THEN {"http"} ELSE {})

\* Mutant of PollReady: a round serves one connection, the metrics port's first.
PollServesOne ==
  /\ pc = "poll"
  /\ Waiting # {}
  /\ ready' = IF web = "wait" THEN {"http"} ELSE {"ctl"}
  /\ pc' = "accept"
  /\ UNCHANGED <<cur, used, waited, since, queue, web, conn, ban, faults>>

\* poll finds connections.
PollReady ==
  /\ pc = "poll"
  /\ Waiting # {}
  /\ ready' = Waiting
  /\ pc' = "accept"
  /\ UNCHANGED <<cur, used, waited, since, queue, web, conn, ban, faults>>

\* vg_ctrl_tick lifts the timed bans that are over.
Tick ==
  /\ ban' = [a \in Addrs |->
               IF ban[a].kind = "timed" /\ ban[a].left = 0 THEN NoBan ELSE ban[a]]
  /\ since' = 0

\* poll's time is over.
PollTimeout ==
  /\ pc = "poll"
  /\ Waiting = {}
  /\ since >= IdlePoll
  /\ Tick
  /\ UNCHANGED <<pc, ready, cur, used, waited, queue, web, conn, faults>>

\* One connection of each listening socket, the control socket's first.
AcceptCtl ==
  /\ pc = "accept"
  /\ "ctl" \in ready
  /\ ready' = ready \ {"ctl"}
  /\ cur' = Head(queue)
  /\ queue' = Tail(queue)
  /\ pc' = "read"
  /\ UNCHANGED <<used, waited, since, web, conn, ban, faults>>

AcceptHttp ==
  /\ pc = "accept"
  /\ ready = {"http"}
  /\ ready' = {}
  /\ web' = "rest"
  /\ pc' = "http"
  /\ UNCHANGED <<cur, used, waited, since, queue, conn, ban, faults>>

\* vg_http_handle: one read, which may time out, and a reply.
vg_http_handle ==
  /\ pc = "http"
  /\ pc' = "accept"
  /\ waited' = 0
  /\ UNCHANGED <<ready, cur, used, since, queue, web, conn, ban, faults>>

\* Mutant of EndRound: a tick only when poll had nothing to report.
EndRoundWithoutTick ==
  /\ pc = "accept"
  /\ ready = {}
  /\ pc' = "poll"
  /\ UNCHANGED <<ready, cur, used, waited, since, queue, web, conn, ban, faults>>

EndRound ==
  /\ pc = "accept"
  /\ ready = {}
  /\ IF since >= IdlePoll THEN Tick ELSE UNCHANGED <<ban, since>>
  /\ pc' = "poll"
  /\ UNCHANGED <<ready, cur, used, waited, queue, web, conn, faults>>

Unread == conn[cur].sent - used

\* Mutant of TooLong: what fits the buffer is run.
TooLongRuns == Dispatch(ReqMax)

\* The buffer is full, with no newline in it.
TooLong == Finish("error", "failed") /\ UNCHANGED <<ban, faults>>

\* A read has something: up to the newline, or as much as the buffer takes.
ReadSome ==
  /\ pc = "read"
  /\ Unread > 0
  /\ LET n == used + Unread
         size == Size(conn[cur].op)
     IN  \/ /\ size < n
            /\ size < ReqMax
            /\ Dispatch(size)
         \/ /\ n >= ReqMax
            /\ size >= ReqMax
            /\ TooLong
         \/ /\ n <= size
            /\ n < ReqMax
            /\ used' = n
            /\ waited' = 0
            /\ UNCHANGED <<pc, cur, conn, ban, faults>>
  /\ UNCHANGED <<ready, since, queue, web>>

\* The end of the stream: what came is run, unless there is nothing.
ReadEof ==
  /\ pc = "read"
  /\ Unread = 0
  /\ conn[cur].eof
  /\ \/ used = 0 /\ Finish("none", "nothing") /\ UNCHANGED <<ban, faults>>
     \/ used > 0 /\ Dispatch(used)
  /\ UNCHANGED <<ready, since, queue, web>>

\* Mutant of ReadTimeout: the connection is not closed.
ReadTimeoutLeaks ==
  /\ pc = "read"
  /\ Unread = 0
  /\ ~conn[cur].eof
  /\ waited = SockTimeout
  /\ cur' = Nobody
  /\ used' = 0
  /\ waited' = 0
  /\ pc' = "accept"
  /\ UNCHANGED <<ready, since, queue, web, conn, ban, faults>>

\* Nothing for SockTimeout: close, without a reply.
ReadTimeout ==
  /\ pc = "read"
  /\ Unread = 0
  /\ ~conn[cur].eof
  /\ waited = SockTimeout
  /\ Finish("none", "nothing")
  /\ UNCHANGED <<ready, since, queue, web, ban, faults>>

\* The daemon stops or is killed: its connections break, its list is gone.
Down ==
  /\ up
  /\ pc' = "down"
  /\ ready' = {}
  /\ cur' = Nobody
  /\ used' = 0
  /\ waited' = 0
  /\ since' = 0
  /\ queue' = <<>>
  /\ web' = IF web = "wait" THEN "rest" ELSE web
  /\ conn' = [c \in Conns |->
       IF conn[c].st \in {"wait", "left"} THEN Over(conn[c], "none", "nothing") ELSE conn[c]]
  /\ ban' = [a \in Addrs |-> NoBan]
  /\ Fault
  /\ UNCHANGED nginx

Start ==
  /\ ~up
  /\ pc' = "poll"
  /\ UNCHANGED <<ready, cur, used, waited, since, queue, web, conn, ban, nginx, faults>>
----------------------------------------------------------------------------
\* The daemon waits, or there is none.
Blocked ==
  \/ pc = "down"
  \/ pc = "poll" /\ Waiting = {} /\ since < IdlePoll
  \/ pc = "read" /\ Unread = 0 /\ ~conn[cur].eof /\ waited < SockTimeout
  \/ pc = "http" /\ waited < SockTimeout

\* The longest time from one tick to the next: poll, one control connection
\* that takes a timeout for each unit, and one metrics connection.
TickGap == IdlePoll + (ReqMax + 1) * SockTimeout

AtLeast(n, low) == IF n < low THEN low ELSE n
AtMost(n, high) == IF n > high THEN high ELSE n

Pass ==
  /\ Blocked
  /\ since' = IF up THEN AtMost(since + 1, TickGap + 1) ELSE 0
  /\ waited' = IF pc \in {"read", "http"} THEN waited + 1 ELSE waited
  /\ key' = [a \in Addrs |-> AtLeast(key[a] - 1, 0)]
  /\ ban' = [a \in Addrs |->
       [ban[a] EXCEPT !.left = AtLeast(@ - 1, 0)]]
  /\ conn' = [c \in Conns |->
       CASE conn[c].st = "over" -> Closed
         [] conn[c].st = "wait" /\ conn[c].by = "resty" ->
              [conn[c] EXCEPT !.idle = AtMost(@ + 1, ClientTimeout)]
         [] OTHER -> conn[c]]
  /\ web' = IF web = "rest" THEN "free" ELSE web
  /\ UNCHANGED <<pc, ready, cur, used, queue, timers, faults>>

Init ==
  /\ pc = "poll"
  /\ ready = {}
  /\ cur = Nobody
  /\ used = 0
  /\ waited = 0
  /\ since = 0
  /\ queue = <<>>
  /\ web = "free"
  /\ conn = [c \in Conns |-> Closed]
  /\ ban = [a \in Addrs |-> NoBan]
  /\ key = [a \in Addrs |-> 0]
  /\ timers = <<>>
  /\ faults = MaxFaults

Serve ==
  /\ \/ PollReady
     \/ PollTimeout
     \/ AcceptCtl
     \/ AcceptHttp
     \/ vg_http_handle
     \/ EndRound
     \/ ReadSome
     \/ ReadEof
     \/ ReadTimeout
  /\ UNCHANGED nginx

Client ==
  \/ \E a \in Addrs, dict, ok \in BOOLEAN : M_ban(a, dict, ok)
  \/ \E c \in Timers, a \in Addrs : ban_timer(c, a)
  \/ \E a \in Addrs : ban_timer_premature(a)
  \/ \E c \in Others, a \in Addrs : M_ban_now(c, a)
  \/ \E c \in Conns : ReceiveTimeout(c)
  \/ \E c \in Others, a \in Addrs, op \in ToolOps :
       voidgatectl(c, op, a)
  \/ \E c \in Others, a \in Addrs : PeerConnect(c, a)
  \/ \E c \in Others : PeerSend(c)
  \/ \E c \in Others : PeerClose(c)
  \/ WebConnect

Next == Serve \/ Client \/ Down \/ Start \/ Pass

\* The kernel runs the daemon and init restarts it; time goes on; nginx runs its
\* timers; and a client whose packets still come in goes on offending.
Fairness ==
  /\ WF_vars(Serve)
  /\ WF_vars(Start)
  /\ WF_vars(Pass)
  /\ \A c \in Timers, a \in Addrs : WF_vars(ban_timer(c, a))
  /\ \A a \in Addrs : WF_vars(\E ok \in BOOLEAN : M_ban(a, TRUE, ok))

Spec == Init /\ [][Next]_vars /\ Fairness
----------------------------------------------------------------------------
(***************************************************************************)
(* Properties.                                                             *)
(***************************************************************************)

\* The shape of the state.  A connection the daemon has still to close is in
\* the queue, once, or is the one being served.
TypeOK ==
  /\ pc \in {"poll", "accept", "read", "http", "down"}
  /\ ready \subseteq Waiting
  /\ cur \in Conns \cup {Nobody}
  /\ (cur = Nobody) = (pc # "read")
  /\ used \in 0 .. ReqMax - 1
  /\ waited \in 0 .. SockTimeout
  /\ since \in 0 .. TickGap + 1
  /\ web \in {"free", "wait", "rest"}
  /\ \A c \in Conns : conn[c].st \in {"free", "wait", "left", "over"}
  /\ \A i, j \in DOMAIN queue : queue[i] = queue[j] => i = j
  /\ \A c \in Conns :
       conn[c].st \in {"wait", "left"} <=> c = cur \/ \E i \in DOMAIN queue : queue[i] = c
  /\ \A a \in Addrs : ban[a].kind \in {"none", "timed", "manual"}
  /\ key \in [Addrs -> 0 .. Window]
  /\ timers \in Seq(Addrs) /\ Len(timers) <= MaxTimers
  /\ faults \in 0 .. MaxFaults

\* However many clients connect and however slowly they write, a round serves
\* one of each kind, and the tick, which lifts the bans that are over and looks
\* at the traffic, is late by no more than that round (the event loop of main,
\* sock_timeout, the size of req).
TickIsOnTime == since <= TickGap

\* When ban_now returns true, or voidgatectl exits with 0, the daemon has carried
\* out the whole command; when they report an error, it has left the drop list
\* as it was, except that a disarm that fails has still lifted every drop, since
\* vg_ctrl_disarm flushes before it commits.  A connection that the daemon
\* drops, in a timeout or as it goes down, is neither (request, commit,
\* vg_ctl_server_handle, ctl_disarm, voidgatectl's main).
AnswerIsTruthful ==
  [][\A c \in Conns :
       conn[c].st \in {"wait", "left"} /\ conn'[c].st = "over" =>
         /\ Heard(conn'[c]) = "true" => ban' = Run(conn[c].op, conn[c].addr)
         /\ Heard(conn'[c]) = "error" =>
              ban' = ban \/ (conn[c].op = "disarm" /\ ban' = [b \in Addrs |-> NoBan])]_vars

\* A command that voidgatectl or the OpenResty client sends runs as a whole or
\* not at all: one too long for voidgatectl's buffer, which sends the beginning
\* without a newline and then ends the stream, is refused, although the end of
\* the stream otherwise ends a command (the sizes of cmd and req).
WholeCommandRuns ==
  \A c \in Conns : conn[c].did = "cut" => conn[c].by = "peer"

\* The daemon is done with every connection in the end, behind whatever clients
\* that send nothing, send slowly or have left (sock_timeout).
EveryRequestEnds ==
  \A c \in Conns :
    conn[c].st \in {"wait", "left"} ~> conn[c].st \notin {"wait", "left"}

\* doc/l7-bridge.md: after a restart or a disarm the next offending request
\* after the dedup window bans again.  An address that keeps offending gets
\* banned again and again, through lost timers and timed-out requests (M.ban).
OffenderIsBanned ==
  \A a \in Addrs : []<>(ban[a].kind # "none")
=============================================================================
