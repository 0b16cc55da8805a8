---------------------------- MODULE ControlProofs ----------------------------
(***************************************************************************)
(* The event loop and the answers on its control socket, for any number of *)
(* clients, addresses and timers, every timeout and every size of buffer.  *)
(*                                                                         *)
(* The invariant has three parts: a connection that is not closed is in    *)
(* the queue once or is being served (Queued); what its client has sent by *)
(* then, and that only a client other than voidgatectl and the OpenResty   *)
(* one is read in pieces (Lines); and the time a round has taken up to     *)
(* here, as a sum of the timeouts it has waited for (OnTime).  On it rests *)
(* what holds of the drop list and of nginx (Kept): a line that is run is  *)
(* a command of the daemon's.                                              *)
(***************************************************************************)
EXTENDS Control, TLAPS

Open == {"wait", "left"}
Ops == {"ban", "drop", "undrop", "disarm", "long"}

Record ==
  [st : {"free", "wait", "left", "over"}, by : {"nobody", "resty", "tool", "peer"},
   op : Ops \cup {"none"}, addr : Addrs \cup {Nobody}, sent : Nat, eof : BOOLEAN,
   idle : Nat, reply : {"none", "ok", "error"},
   did : {"nothing", "ran", "failed", "cut"}]

\* What a connection that the daemon has not closed holds.
Line(r) ==
  /\ r.op \in Ops
  /\ r.sent <= ReqMax
  /\ r.did = "nothing"
  /\ r.by # "tool" => r.op # "long"
  /\ r.by # "peer" => r.sent = ReqMax
  /\ r.by = "tool" => r.st = "wait"
  /\ r.by = "peer" /\ r.eof => r.st = "left"

\* What is left of one that it has.
Answered(r) ==
  /\ r.st = "free" => r.did = "nothing"
  /\ r.did = "cut" => r.by = "peer"

Lines ==
  /\ conn \in [Conns -> Record]
  /\ \A c \in Conns :
       IF conn[c].st \in Open THEN Line(conn[c]) ELSE Answered(conn[c])
  /\ used \in 0 .. ReqMax - 1
  /\ pc = "read" => used <= conn[cur].sent /\ (used > 0 => conn[cur].by = "peer")

In(q, c) == \E i \in DOMAIN q : q[i] = c
Once(q) == \A i, j \in DOMAIN q : q[i] = q[j] => i = j

Queued ==
  /\ pc \in {"poll", "accept", "read", "http", "down"}
  /\ queue \in Seq(Conns)
  /\ cur \in Conns \cup {Nobody}
  /\ cur = Nobody <=> pc # "read"
  /\ Once(queue)
  /\ ~In(queue, cur)
  /\ \A c \in Conns : conn[c].st \in Open <=> c = cur \/ In(queue, c)
  /\ ready \subseteq Waiting
  /\ pc \in {"poll", "http", "down"} => ready = {}
  /\ pc = "read" => "ctl" \notin ready

OnTime ==
  /\ since \in Nat
  /\ waited \in 0 .. SockTimeout
  /\ pc # "read" => used = 0
  /\ pc \notin {"read", "http"} => waited = 0
  /\ pc = "down" => since = 0
  /\ pc = "poll" \/ "ctl" \in ready => since <= IdlePoll
  /\ pc = "read" => since <= IdlePoll + used * SockTimeout + waited
  /\ pc = "accept" /\ "http" \in ready => since <= IdlePoll + ReqMax * SockTimeout
  /\ pc = "http" => since <= IdlePoll + ReqMax * SockTimeout + waited
  /\ since <= TickGap

IInv == Queued /\ Lines /\ OnTime
----------------------------------------------------------------------------
\* The queue of the listening socket.
LEMMA AppendOnce ==
  ASSUME NEW q \in Seq(Conns), Once(q), NEW c \in Conns, ~In(q, c)
  PROVE  /\ Append(q, c) \in Seq(Conns)
         /\ Append(q, c) # <<>>
         /\ Once(Append(q, c))
         /\ \A x : In(Append(q, c), x) <=> x = c \/ In(q, x)
  <1> DEFINE r == Append(q, c)
  <1>1. r \in Seq(Conns) /\ DOMAIN r = 1 .. Len(q) + 1 /\ r[Len(q) + 1] = c
        /\ \A i \in 1 .. Len(q) : r[i] = q[i]
    OBVIOUS
  <1>2. DOMAIN q = 1 .. Len(q) /\ Len(q) \in Nat
    OBVIOUS
  <1>3. r # <<>>
    <2>1. Len(r) = Len(q) + 1 /\ Len(<<>>) = 0
      OBVIOUS
    <2> HIDE DEF r
    <2> QED BY <1>2, <2>1
  <1> HIDE DEF r
  <1>4. Once(r)
    BY <1>1, <1>2 DEF Once, In
  <1>5. \A x : In(r, x) <=> x = c \/ In(q, x)
    BY <1>1, <1>2 DEF In
  <1> QED BY <1>1, <1>3, <1>4, <1>5 DEF r

LEMMA TailOnce ==
  ASSUME NEW q \in Seq(Conns), Once(q), q # <<>>
  PROVE  /\ Tail(q) \in Seq(Conns)
         /\ Head(q) \in Conns
         /\ In(q, Head(q))
         /\ Once(Tail(q))
         /\ \A x : In(Tail(q), x) <=> x # Head(q) /\ In(q, x)
  <1> DEFINE r == Tail(q)
  <1>1. DOMAIN q = 1 .. Len(q) /\ Len(q) \in Nat \ {0} /\ Head(q) = q[1] /\ q[1] \in Conns
    OBVIOUS
  <1>2. r \in Seq(Conns) /\ DOMAIN r = 1 .. Len(q) - 1
        /\ \A i \in 1 .. Len(q) - 1 : r[i] = q[i + 1]
    BY <1>1
  <1> HIDE DEF r
  <1>3. Once(r)
    <2> SUFFICES ASSUME NEW i \in 1 .. Len(q) - 1, NEW j \in 1 .. Len(q) - 1, r[i] = r[j]
                 PROVE  i = j
      BY <1>2 DEF Once
    <2>1. i + 1 \in DOMAIN q /\ j + 1 \in DOMAIN q
      BY <1>1
    <2>2. q[i + 1] = q[j + 1]
      BY <1>2
    <2>3. i + 1 = j + 1
      BY <2>1, <2>2 DEF Once
    <2> QED BY <2>3
  <1>4. ASSUME NEW x, In(r, x) PROVE x # Head(q) /\ In(q, x)
    <2>1. PICK i \in 1 .. Len(q) - 1 : q[i + 1] = x
      BY <1>2, <1>4 DEF In
    <2>2. i + 1 \in DOMAIN q /\ 1 \in DOMAIN q /\ i + 1 # 1
      BY <1>1
    <2> QED BY <1>1, <2>1, <2>2 DEF In, Once
  <1>5. ASSUME NEW x, x # Head(q), In(q, x) PROVE In(r, x)
    <2>1. PICK i \in 1 .. Len(q) : q[i] = x
      BY <1>1, <1>5 DEF In
    <2>2. i # 1 /\ i - 1 \in 1 .. Len(q) - 1 /\ (i - 1) + 1 = i
      BY <1>1, <1>5, <2>1
    <2>3. r[i - 1] = x
      BY <1>2, <2>1, <2>2
    <2> QED BY <1>2, <2>2, <2>3 DEF In
  <1>6. In(q, Head(q))
    BY <1>1 DEF In
  <1> QED BY <1>1, <1>2, <1>3, <1>4, <1>5, <1>6 DEF r

LEMMA Sizes ==
  /\ ReqMax \in Nat /\ ReqMax > 2 /\ SockTimeout \in Nat \ {0} /\ IdlePoll \in Nat \ {0}
  /\ ClientTimeout \in Nat
  /\ \A op \in Ops : op # "long" => Size(op) = ReqMax - 1
  /\ Size("long") = ReqMax + 1
  BY ControlAssumption DEF Size

\* Products of the timeout, which the provers do not multiply out themselves.
LEMMA Products ==
  /\ TickGap = IdlePoll + ReqMax * SockTimeout + SockTimeout
  /\ \A n \in Nat : n * SockTimeout \in Nat
  /\ \A m, n \in Nat : m < n => m * SockTimeout + SockTimeout <= n * SockTimeout
  /\ 0 * SockTimeout = 0
  <1>1. SockTimeout \in Nat /\ ReqMax \in Nat /\ IdlePoll \in Nat
    BY Sizes
  <1>2. TickGap = IdlePoll + ReqMax * SockTimeout + SockTimeout
    BY <1>1 DEF TickGap
  <1>3. \A t, m, n \in Nat : m < n => m * t + t <= n * t
    OBVIOUS
  <1> QED BY <1>1, <1>2, <1>3
----------------------------------------------------------------------------
(***************************************************************************)
(* The clients.                                                            *)
(***************************************************************************)

\* Records, one field at a time.
LEMMA Fields ==
  /\ Closed \in Record
  /\ \A r \in Record, v \in {"free", "wait", "left", "over"} : [r EXCEPT !.st = v] \in Record
  /\ \A r \in Record, v \in {"nobody", "resty", "tool", "peer"} : [r EXCEPT !.by = v] \in Record
  /\ \A r \in Record, v \in Ops : [r EXCEPT !.op = v] \in Record
  /\ \A r \in Record, v \in Addrs : [r EXCEPT !.addr = v] \in Record
  /\ \A r \in Record, v \in Nat : [r EXCEPT !.sent = v] \in Record
  /\ \A r \in Record, v \in BOOLEAN : [r EXCEPT !.eof = v] \in Record
  /\ \A r \in Record, v \in Nat : [r EXCEPT !.idle = v] \in Record
  /\ \A r \in Record, v \in {"none", "ok", "error"} : [r EXCEPT !.reply = v] \in Record
  /\ \A r \in Record, v \in {"nothing", "ran", "failed", "cut"} : [r EXCEPT !.did = v] \in Record
  <1>1. Closed \in Record
    BY DEF Closed, Record
  <1>2. ASSUME NEW r \in Record, NEW v \in {"free", "wait", "left", "over"}
        PROVE  [r EXCEPT !.st = v] \in Record
    BY DEF Record
  <1>3. ASSUME NEW r \in Record, NEW v \in {"nobody", "resty", "tool", "peer"}
        PROVE  [r EXCEPT !.by = v] \in Record
    BY DEF Record
  <1>4. ASSUME NEW r \in Record, NEW v \in Ops PROVE [r EXCEPT !.op = v] \in Record
    BY DEF Record
  <1>5. ASSUME NEW r \in Record, NEW v \in Addrs PROVE [r EXCEPT !.addr = v] \in Record
    BY DEF Record
  <1>6. ASSUME NEW r \in Record, NEW v \in Nat PROVE [r EXCEPT !.sent = v] \in Record
    BY DEF Record
  <1>7. ASSUME NEW r \in Record, NEW v \in BOOLEAN PROVE [r EXCEPT !.eof = v] \in Record
    BY DEF Record
  <1>8. ASSUME NEW r \in Record, NEW v \in Nat PROVE [r EXCEPT !.idle = v] \in Record
    BY DEF Record
  <1>9. ASSUME NEW r \in Record, NEW v \in {"none", "ok", "error"}
        PROVE  [r EXCEPT !.reply = v] \in Record
    BY DEF Record
  <1>10. ASSUME NEW r \in Record, NEW v \in {"nothing", "ran", "failed", "cut"}
         PROVE  [r EXCEPT !.did = v] \in Record
    BY DEF Record
  <1> QED BY <1>1, <1>2, <1>3, <1>4, <1>5, <1>6, <1>7, <1>8, <1>9, <1>10, Zenon

\* A step that changes no more than the drop list, the dict and the timers.
LEMMA Apart ==
  ASSUME IInv, UNCHANGED <<daemon, queue, web, conn>>
  PROVE  IInv'
  BY DEF IInv, Queued, Lines, OnTime, Waiting, Line, Answered, In, Once, daemon

LEMMA ConnectInv ==
  ASSUME IInv, up, NEW c \in Conns,
         NEW by \in {"resty", "tool", "peer"}, NEW op \in Ops, NEW a \in Addrs,
         NEW sent \in Nat, NEW eof \in BOOLEAN,
         sent = ReqMax \/ (by = "peer" /\ sent = 0),
         by = "tool" \/ (op # "long" /\ ~eof),
         Connect(c, by, op, a, sent, eof), UNCHANGED <<daemon, web>>
  PROVE  IInv'
  <1> DEFINE r == [Closed EXCEPT !.st = "wait", !.by = by, !.op = op,
                                 !.addr = a, !.sent = sent, !.eof = eof]
  <1>1. conn' = [conn EXCEPT ![c] = r] /\ queue' = Append(queue, c) /\ conn[c].st = "free"
    BY DEF Connect
  <1>2. r \in Record /\ r.st = "wait" /\ Line(r)
    <2>1. r = [[[[[[Closed EXCEPT !.st = "wait"] EXCEPT !.by = by] EXCEPT !.op = op]
                 EXCEPT !.addr = a] EXCEPT !.sent = sent] EXCEPT !.eof = eof]
      OBVIOUS
    <2>2. r \in Record
      BY <2>1, Fields, Zenon
    <2>3. sent <= ReqMax
      BY Sizes
    <2>4. r.st = "wait" /\ r.by = by /\ r.op = op /\ r.sent = sent /\ r.did = "nothing"
      BY DEF Closed
    <2>5. r.eof = eof
      BY DEF Closed
    <2>6. Line(r)
      BY <2>3, <2>4, <2>5 DEF Line
    <2> QED BY <2>2, <2>4, <2>6
  <1> HIDE DEF r
  <1>3. conn \in [Conns -> Record] /\ conn' \in [Conns -> Record] /\ conn'[c] = r
        /\ \A x \in Conns : x # c => conn'[x] = conn[x]
    BY <1>1, <1>2 DEF IInv, Lines
  <1>4. conn[c].st \notin Open /\ c # cur /\ ~In(queue, c)
    BY <1>1 DEF IInv, Queued, Open
  <1>5. /\ queue' \in Seq(Conns)
        /\ queue' # <<>>
        /\ Once(queue')
        /\ \A x : In(queue', x) <=> x = c \/ In(queue, x)
    BY <1>1, <1>4, AppendOnce DEF IInv, Queued
  <1>6. ready' \subseteq Waiting'
    BY <1>5 DEF IInv, Queued, Waiting, daemon
  <1>7. ~In(queue, cur)' /\ \A x \in Conns : (conn[x].st \in Open <=> x = cur \/ In(queue, x))'
    BY <1>2, <1>3, <1>4, <1>5 DEF IInv, Queued, Open, daemon
  <1>8. Queued'
    BY <1>5, <1>6, <1>7 DEF IInv, Queued, daemon
  <1>9. Lines'
    <2>1. \A x \in Conns : IF conn'[x].st \in Open THEN Line(conn'[x]) ELSE Answered(conn'[x])
      BY <1>2, <1>3 DEF IInv, Lines, Open
    <2>2. pc' = "read" => cur' # c /\ cur' \in Conns
      BY <1>4 DEF IInv, Queued, daemon
    <2> QED BY <1>3, <2>1, <2>2 DEF IInv, Lines, daemon
  <1>10. OnTime'
    BY DEF IInv, OnTime, daemon
  <1> QED BY <1>8, <1>9, <1>10 DEF IInv

\* The client of a connection that is still open does something to it.
LEMMA AmendInv ==
  ASSUME IInv, NEW c \in Conns, NEW r \in Record, conn' = [conn EXCEPT ![c] = r],
         conn[c].st \in Open, r.st \in Open, Line(r), r.by = conn[c].by, r.sent >= conn[c].sent,
         UNCHANGED <<daemon, queue, web>>
  PROVE  IInv'
  <1>1. conn \in [Conns -> Record] /\ conn' \in [Conns -> Record] /\ conn'[c] = r
        /\ \A x \in Conns : x # c => conn'[x] = conn[x]
    BY DEF IInv, Lines
  <1>2. Queued'
    BY <1>1 DEF IInv, Queued, Waiting, daemon
  <1>3. Lines'
    <2>1. \A x \in Conns : IF conn'[x].st \in Open THEN Line(conn'[x]) ELSE Answered(conn'[x])
      BY <1>1 DEF IInv, Lines
    <2>2. pc = "read" => cur \in Conns
      BY DEF IInv, Queued
    <2>3. pc' = "read" => used' <= conn'[cur'].sent /\ (used' > 0 => conn'[cur'].by = "peer")
      BY <1>1, <2>2, Sizes DEF IInv, Lines, Record, daemon
    <2> QED BY <1>1, <2>1, <2>3 DEF IInv, Lines, daemon
  <1>4. OnTime'
    BY DEF IInv, OnTime, daemon
  <1> QED BY <1>2, <1>3, <1>4 DEF IInv

LEMMA ClientInv ==
  ASSUME IInv, Client
  PROVE  IInv'
  <1> Size("ban") + 1 = ReqMax /\ "ban" \in Ops /\ ReqMax \in Nat /\ 0 \in Nat
    BY Sizes DEF Size, Ops
  <1> \A c : c \in Timers \/ c \in Others => c \in Conns
    BY DEF Conns
  <1>1. ASSUME NEW a \in Addrs, NEW dict \in BOOLEAN, NEW ok \in BOOLEAN, M_ban(a, dict, ok)
        PROVE  IInv'
    BY <1>1, Apart, Zenon DEF M_ban
  <1>2. ASSUME NEW c \in Timers, NEW a \in Addrs, ban_timer(c, a) PROVE IInv'
    <2>1. CASE up
      <3>1. Connect(c, "resty", "ban", a, ReqMax, FALSE)
        BY <1>2, <2>1, Zenon DEF ban_timer, request
      <3>2. UNCHANGED <<daemon, web>>
        BY <1>2 DEF ban_timer
      <3> QED BY <2>1, <3>1, <3>2, ConnectInv, Zenon
    <2>2. CASE ~up
      BY <1>2, <2>2, Apart DEF ban_timer, request
    <2> QED BY <2>1, <2>2
  <1>3. ASSUME NEW a \in Addrs, ban_timer_premature(a) PROVE IInv'
    BY <1>3, Apart DEF ban_timer_premature
  <1>4. ASSUME NEW c \in Others, NEW a \in Addrs, M_ban_now(c, a) PROVE IInv'
    <2>1. Connect(c, "resty", "ban", a, ReqMax, FALSE)
      BY <1>4, Zenon DEF M_ban_now, request
    <2>2. up /\ UNCHANGED <<daemon, web>>
      BY <1>4 DEF M_ban_now
    <2> QED BY <2>1, <2>2, ConnectInv, Zenon
  <1>5. ASSUME NEW c \in Conns, ReceiveTimeout(c) PROVE IInv'
    <2>1. PICK r \in Record : r = [conn[c] EXCEPT !.st = "left", !.eof = TRUE]
      <3>1. conn[c] \in Record
        BY DEF IInv, Lines
      <3> QED BY <3>1, Zenon DEF Record
    <2>2. conn[c] \in Record /\ Line(conn[c]) /\ conn[c].st \in Open
      BY <1>5 DEF IInv, Lines, ReceiveTimeout, Open
    <2>3. r.st \in Open /\ Line(r) /\ r.by = conn[c].by /\ r.sent >= conn[c].sent
      BY <1>5, <2>1, <2>2 DEF ReceiveTimeout, Record, Line, Open
    <2>4. conn' = [conn EXCEPT ![c] = r]
      BY <1>5, <2>1, Zenon DEF ReceiveTimeout
    <2> QED BY <1>5, <2>2, <2>3, <2>4, AmendInv, Zenon DEF ReceiveTimeout
  <1>6. ASSUME NEW c \in Others, NEW a \in Addrs, NEW op \in ToolOps, voidgatectl(c, op, a)
        PROVE  IInv'
    <2>1. op \in Ops
      BY ControlAssumption DEF Ops
    <2>2. Connect(c, "tool", op, a, ReqMax, TRUE)
      <3>1. (IF op = "long" THEN ReqMax ELSE Size(op) + 1) = ReqMax
        BY <2>1, Sizes
      <3> QED BY <1>6, <3>1, Zenon DEF voidgatectl
    <2>3. up /\ UNCHANGED <<daemon, web>>
      BY <1>6 DEF voidgatectl
    <2> QED BY <2>1, <2>2, <2>3, ConnectInv, Zenon
  <1>7. ASSUME NEW c \in Others, NEW a \in Addrs, PeerConnect(c, a) PROVE IInv'
    <2>1. Connect(c, "peer", "ban", a, 0, FALSE)
      BY <1>7, Zenon DEF PeerConnect
    <2>2. up /\ UNCHANGED <<daemon, web>>
      BY <1>7 DEF PeerConnect
    <2> QED BY <2>1, <2>2, ConnectInv, Zenon
  <1>8. ASSUME NEW c \in Others, PeerSend(c) PROVE IInv'
    <2>1. conn[c] \in Record /\ Line(conn[c]) /\ conn[c].st \in Open
      BY <1>8 DEF IInv, Lines, PeerSend, Open
    <2>2. conn[c].sent + 1 <= ReqMax
      <3>1. conn[c].op \in Ops /\ conn[c].op # "long" /\ conn[c].sent \in Nat
        BY <1>8, <2>1 DEF PeerSend, Line, Record
      <3>2. Size(conn[c].op) = ReqMax - 1
        BY <3>1, Sizes
      <3> QED BY <1>8, <3>1, <3>2 DEF PeerSend
    <2>3. PICK r \in Record : r = [conn[c] EXCEPT !.sent = @ + 1]
      <3>1. conn[c].sent + 1 \in Nat
        BY <2>1 DEF Record
      <3> QED BY <2>1, <3>1, Fields, Zenon
    <2>4. r.st \in Open /\ Line(r) /\ r.by = conn[c].by /\ r.sent >= conn[c].sent
      BY <1>8, <2>1, <2>2, <2>3 DEF PeerSend, Record, Line, Open
    <2>5. conn' = [conn EXCEPT ![c] = r]
      BY <1>8, <2>3 DEF PeerSend
    <2> QED BY <1>8, <2>1, <2>4, <2>5, AmendInv, Zenon DEF PeerSend
  <1>9. ASSUME NEW c \in Others, PeerClose(c) PROVE IInv'
    <2>1. conn[c] \in Record /\ Line(conn[c]) /\ conn[c].st \in Open
      BY <1>9 DEF IInv, Lines, PeerClose, Open
    <2>2. PICK r \in Record : r = [conn[c] EXCEPT !.eof = TRUE, !.st = "left"]
      BY <2>1, Zenon DEF Record
    <2>3. r.st \in Open /\ Line(r) /\ r.by = conn[c].by /\ r.sent >= conn[c].sent
      BY <1>9, <2>1, <2>2 DEF PeerClose, Record, Line, Open
    <2>4. conn' = [conn EXCEPT ![c] = r]
      BY <1>9, <2>2, Zenon DEF PeerClose
    <2> QED BY <1>9, <2>1, <2>3, <2>4, AmendInv, Zenon DEF PeerClose
  <1>10. ASSUME WebConnect PROVE IInv'
    <2>1. Queued'
      BY <1>10 DEF IInv, Queued, WebConnect, Waiting, daemon
    <2>2. Lines' /\ OnTime'
      BY <1>10 DEF IInv, Lines, OnTime, WebConnect, daemon
    <2> QED BY <2>1, <2>2 DEF IInv
  <1> QED BY <1>1, <1>2, <1>3, <1>4, <1>5, <1>6, <1>7, <1>8, <1>9, <1>10 DEF Client
----------------------------------------------------------------------------
(***************************************************************************)
(* The event loop.                                                         *)
(***************************************************************************)

\* The record of a connection that is over.
LEMMA OverIs ==
  ASSUME NEW r \in Record, NEW reply \in {"none", "ok", "error"},
         NEW did \in {"nothing", "ran", "failed", "cut"}
  PROVE  /\ Over(r, reply, did) \in Record
         /\ Over(r, reply, did).st = "over"
         /\ Over(r, reply, did).by = r.by
         /\ Over(r, reply, did).reply = reply
         /\ Over(r, reply, did).did = did
  <1>1. r.by \in {"nobody", "resty", "tool", "peer"}
    BY DEF Record
  <1>2. Over(r, reply, did)
          = [[[[Closed EXCEPT !.st = "over"] EXCEPT !.by = r.by] EXCEPT !.reply = reply]
             EXCEPT !.did = did]
    BY DEF Over
  <1>3. Over(r, reply, did) \in Record
    <2>1. PICK a \in Record : a = [[Closed EXCEPT !.st = "over"] EXCEPT !.by = r.by]
      BY <1>1, Fields, Zenon
    <2>2. [[a EXCEPT !.reply = reply] EXCEPT !.did = did] \in Record
      BY Fields, Zenon
    <2> QED BY <1>2, <2>1, <2>2
  <1> QED BY <1>3 DEF Over, Closed

LEMMA Ticks ==
  TickGap \in Nat /\ IdlePoll <= TickGap
  BY Products, Sizes

LEMMA ReadTakes ==
  ASSUME IInv, pc = "read"
  PROVE  since <= IdlePoll + ReqMax * SockTimeout
  <1>1. used * SockTimeout + SockTimeout <= ReqMax * SockTimeout
    BY Products, Sizes DEF IInv, Lines
  <1>2. used * SockTimeout \in Nat /\ ReqMax * SockTimeout \in Nat
    BY Products, Sizes DEF IInv, Lines
  <1>3. since \in Nat /\ waited \in 0 .. SockTimeout
        /\ since <= IdlePoll + used * SockTimeout + waited
    BY DEF IInv, OnTime
  <1> QED BY <1>1, <1>2, <1>3, Sizes

LEMMA FinishInv ==
  ASSUME IInv, pc = "read",
         NEW reply \in {"none", "ok", "error"},
         NEW did \in {"nothing", "ran", "failed", "cut"},
         did = "cut" => conn[cur].by = "peer" /\ conn[cur].st = "left",
         Finish(reply, did), UNCHANGED <<ready, since, queue, web>>
  PROVE  IInv'
  <1> DEFINE r == Over(conn[cur], IF conn[cur].st = "left" THEN "none" ELSE reply, did)
  <1>1. conn' = [conn EXCEPT ![cur] = r] /\ cur' = Nobody /\ used' = 0 /\ waited' = 0
        /\ pc' = "accept"
    BY DEF Finish
  <1>2. cur \in Conns /\ conn[cur] \in Record /\ Nobody \notin Conns
    BY ControlAssumption DEF IInv, Queued, Lines
  <1>3. r \in Record /\ r.st = "over" /\ Answered(r)
    <2>1. PICK e \in {"none", "ok", "error"} : e = IF conn[cur].st = "left" THEN "none" ELSE reply
      OBVIOUS
    <2>2. r = Over(conn[cur], e, did)
      BY <2>1
    <2>3. r \in Record /\ r.st = "over" /\ r.by = conn[cur].by /\ r.reply = e /\ r.did = did
      BY <1>2, <2>2, OverIs
    <2> HIDE DEF r
    <2> QED BY <2>1, <2>3 DEF Answered
  <1> HIDE DEF r
  <1>4. conn' \in [Conns -> Record] /\ conn'[cur] = r
        /\ \A x \in Conns : x # cur => conn'[x] = conn[x]
    BY <1>1, <1>2, <1>3 DEF IInv, Lines
  <1>5. Queued'
    <2>1. \A x \in Conns : conn'[x].st \in Open <=> In(queue, x)
      BY <1>3, <1>4 DEF IInv, Queued, Open
    <2>2. ~In(queue, Nobody)
      BY <1>2 DEF IInv, Queued, In
    <2>3. \A x \in Conns : conn'[x].st \in Open <=> x = cur' \/ In(queue', x)
      BY <1>1, <1>2, <2>1
    <2>4. ~In(queue', cur')
      BY <1>1, <2>2
    <2> QED BY <1>1, <2>3, <2>4 DEF IInv, Queued, Waiting
  <1>6. Lines'
    <2>1. \A x \in Conns : IF conn'[x].st \in Open THEN Line(conn'[x]) ELSE Answered(conn'[x])
      BY <1>3, <1>4 DEF IInv, Lines, Open
    <2>2. used' \in 0 .. ReqMax - 1
      BY <1>1, Sizes
    <2> QED BY <1>1, <1>4, <2>1, <2>2 DEF Lines
  <1>7. OnTime'
    BY <1>1, ReadTakes, Sizes DEF IInv, Queued, OnTime
  <1> QED BY <1>5, <1>6, <1>7 DEF IInv

\* Running n units of a command.
LEMMA DispatchInv ==
  ASSUME IInv, pc = "read", NEW n, Dispatch(n), UNCHANGED <<ready, since, queue, web>>,
         n # Size(conn[cur].op) => conn[cur].by = "peer" /\ conn[cur].st = "left"
  PROVE  IInv'
  <1>1. CASE n = Size(conn[cur].op)
    <2>1. Finish("ok", "ran") \/ Finish("error", "failed")
      BY <1>1 DEF Dispatch
    <2> QED BY <2>1, FinishInv
  <1>2. CASE n # Size(conn[cur].op)
    <2>1. Finish("error", "cut") \/ Finish("ok", "cut")
      BY <1>2 DEF Dispatch
    <2> QED BY <1>2, <2>1, FinishInv
  <1> QED BY <1>1, <1>2

LEMMA ReadInv ==
  ASSUME IInv, ReadSome \/ ReadEof \/ ReadTimeout
  PROVE  IInv'
  <1>1. pc = "read" /\ UNCHANGED <<ready, since, queue, web>>
    BY DEF ReadSome, ReadEof, ReadTimeout
  <1>2. cur \in Conns /\ conn[cur] \in Record /\ Line(conn[cur])
        /\ used \in 0 .. ReqMax - 1 /\ used <= conn[cur].sent
        /\ (used > 0 => conn[cur].by = "peer")
    BY <1>1 DEF IInv, Queued, Lines
  <1>3. CASE ReadSome
    <2>1. CASE Dispatch(Size(conn[cur].op))
      BY <1>1, <2>1, DispatchInv
    <2>2. CASE TooLong
      BY <1>1, <2>2, FinishInv DEF TooLong
    <2>3. CASE /\ conn[cur].sent - used > 0
               /\ used + (conn[cur].sent - used) < ReqMax
               /\ used' = used + (conn[cur].sent - used)
               /\ waited' = 0
               /\ UNCHANGED <<pc, cur, conn>>
      <3>1. conn[cur].sent \in Nat /\ used \in Nat
        BY <1>2 DEF Record
      <3>2. used' = conn[cur].sent /\ used < used' /\ used' < ReqMax /\ used' \in Nat
        BY <2>3, <3>1, Sizes
      <3>3. conn[cur].by = "peer"
        BY <1>2, <3>2, Sizes DEF Line
      <3>4. used' \in 0 .. ReqMax - 1
        BY <3>2, Sizes
      <3>5. Lines'
        BY <1>1, <2>3, <3>2, <3>3, <3>4 DEF IInv, Lines
      <3>6. Queued'
        BY <1>1, <2>3 DEF IInv, Queued, Waiting
      <3>7. since <= IdlePoll + used' * SockTimeout
        <4>1. PICK m \in Nat : m = used * SockTimeout
          BY <3>1, Products
        <4>2. PICK n \in Nat : n = used' * SockTimeout
          BY <3>2, Products
        <4>3. m + SockTimeout <= n
          BY <3>1, <3>2, <4>1, <4>2, Products
        <4>4. since <= IdlePoll + m + waited /\ since \in Nat /\ waited \in 0 .. SockTimeout
          BY <1>1, <4>1 DEF IInv, OnTime
        <4>5. since <= IdlePoll + n
          BY <4>3, <4>4, Sizes
        <4> QED BY <4>2, <4>5
      <3>8. since' <= IdlePoll + used' * SockTimeout + waited'
        <4>1. PICK n \in Nat : n = used' * SockTimeout
          BY <3>2, Products
        <4>2. since' <= IdlePoll + n + waited'
          BY <1>1, <2>3, <3>7, <4>1, Sizes
        <4> QED BY <4>1, <4>2
      <3>9. OnTime'
        BY <1>1, <2>3, <3>8, Sizes DEF IInv, Queued, OnTime
      <3> QED BY <3>5, <3>6, <3>9 DEF IInv
    <2> QED BY <1>3, <2>1, <2>2, <2>3 DEF ReadSome, Unread
  <1>4. CASE ReadEof
    <2>1. CASE Finish("none", "nothing")
      BY <1>1, <2>1, FinishInv
    <2>2. CASE used > 0 /\ Dispatch(used)
      <3>1. conn[cur].by = "peer" /\ conn[cur].st = "left"
        BY <1>2, <1>4, <2>2 DEF ReadEof, Line
      <3> QED BY <1>1, <2>2, <3>1, DispatchInv
    <2> QED BY <1>4, <2>1, <2>2 DEF ReadEof
  <1>5. CASE ReadTimeout
    BY <1>1, <1>5, FinishInv DEF ReadTimeout
  <1> QED BY <1>3, <1>4, <1>5

LEMMA ServeInv ==
  ASSUME IInv, Serve
  PROVE  IInv'
  <1>1. CASE PollReady
    <2>1. Queued'
      BY <1>1 DEF IInv, Queued, PollReady, Waiting
    <2>2. Lines'
      BY <1>1 DEF IInv, Lines, PollReady
    <2>3. PICK m \in Nat : m = ReqMax * SockTimeout
      BY Products, Sizes
    <2>4. since \in Nat /\ since <= IdlePoll
      BY <1>1 DEF IInv, OnTime, PollReady
    <2>5. since <= IdlePoll + ReqMax * SockTimeout
      BY <2>3, <2>4, Sizes
    <2>6. OnTime'
      BY <1>1, <2>4, <2>5 DEF IInv, OnTime, PollReady
    <2> QED BY <2>1, <2>2, <2>6 DEF IInv
  <1>2. CASE PollTimeout
    <2>1. Queued' /\ Lines'
      BY <1>2 DEF IInv, Queued, Lines, PollTimeout, Waiting
    <2>2. 0 <= TickGap
      BY Ticks
    <2>3. OnTime'
      BY <1>2, <2>2, Sizes DEF IInv, OnTime, PollTimeout, Tick
    <2> QED BY <2>1, <2>3 DEF IInv
  <1>3. CASE AcceptCtl
    <2>1. queue # <<>>
      BY <1>3 DEF IInv, Queued, AcceptCtl, Waiting
    <2>2. /\ queue' \in Seq(Conns)
          /\ cur' \in Conns
          /\ In(queue, cur')
          /\ Once(queue')
          /\ \A x : In(queue', x) <=> x # cur' /\ In(queue, x)
      BY <1>3, <2>1, TailOnce DEF IInv, Queued, AcceptCtl
    <2>3. cur = Nobody /\ Nobody \notin Conns /\ used = 0 /\ waited = 0
      BY <1>3, ControlAssumption DEF IInv, Queued, OnTime, AcceptCtl
    <2>4. \A x \in Conns : conn'[x].st \in Open <=> x = cur' \/ In(queue', x)
      BY <1>3, <2>2, <2>3 DEF IInv, Queued, AcceptCtl
    <2>5. ready' \subseteq Waiting' /\ "ctl" \notin ready'
      BY <1>3 DEF IInv, Queued, AcceptCtl, Waiting
    <2>6. Queued'
      BY <1>3, <2>2, <2>3, <2>4, <2>5 DEF IInv, Queued, AcceptCtl
    <2>7. used' <= conn'[cur'].sent
      BY <1>3, <2>2, <2>3 DEF IInv, Lines, AcceptCtl, Record
    <2>8. Lines'
      BY <1>3, <2>3, <2>7 DEF IInv, Lines, AcceptCtl
    <2>9. since \in Nat /\ since <= IdlePoll
      BY <1>3 DEF IInv, OnTime, AcceptCtl
    <2>10. since <= IdlePoll + used' * SockTimeout + waited'
      <3>1. used' = 0 /\ waited' = 0
        BY <1>3, <2>3 DEF AcceptCtl
      <3> QED BY <2>9, <3>1, Products, Sizes
    <2>11. OnTime'
      BY <1>3, <2>3, <2>5, <2>9, <2>10, Sizes DEF IInv, OnTime, AcceptCtl
    <2> QED BY <2>6, <2>8, <2>11 DEF IInv
  <1>4. CASE AcceptHttp
    <2>1. Queued' /\ Lines'
      BY <1>4 DEF IInv, Queued, Lines, AcceptHttp, Waiting
    <2>2. waited = 0 /\ since <= IdlePoll + ReqMax * SockTimeout
      BY <1>4 DEF IInv, OnTime, AcceptHttp
    <2>3. since <= IdlePoll + ReqMax * SockTimeout + 0
      BY <2>2, Products, Sizes
    <2>4. OnTime'
      BY <1>4, <2>2, <2>3, Sizes DEF IInv, OnTime, AcceptHttp
    <2> QED BY <2>1, <2>4 DEF IInv
  <1>5. CASE vg_http_handle
    <2>1. Queued' /\ Lines'
      BY <1>5 DEF IInv, Queued, Lines, vg_http_handle, Waiting
    <2>2. OnTime'
      BY <1>5, Sizes DEF IInv, Queued, OnTime, vg_http_handle
    <2> QED BY <2>1, <2>2 DEF IInv
  <1>6. CASE EndRound
    <2>1. Queued' /\ Lines'
      BY <1>6 DEF IInv, Queued, Lines, EndRound, Waiting
    <2>2. since' \in Nat /\ since' <= IdlePoll /\ since' <= TickGap
      BY <1>6, Sizes, Ticks DEF IInv, OnTime, EndRound, Tick
    <2>3. OnTime'
      BY <1>6, <2>2 DEF IInv, OnTime, EndRound
    <2> QED BY <2>1, <2>3 DEF IInv
  <1> QED BY <1>1, <1>2, <1>3, <1>4, <1>5, <1>6, ReadInv DEF Serve

LEMMA DownInv ==
  ASSUME IInv, Down
  PROVE  IInv'
  <1>1. \A x \in Conns :
          /\ conn[x] \in Record
          /\ conn[x].st \in Open => conn'[x] = Over(conn[x], "none", "nothing")
          /\ conn[x].st \notin Open => conn'[x] = conn[x]
    BY DEF IInv, Lines, Down, Open
  <1>2. \A x \in Conns : conn'[x] \in Record /\ conn'[x].st \notin Open /\ Answered(conn'[x])
    <2> SUFFICES ASSUME NEW x \in Conns
                 PROVE  conn'[x] \in Record /\ conn'[x].st \notin Open /\ Answered(conn'[x])
      OBVIOUS
    <2>1. CASE conn[x].st \in Open
      BY <1>1, <2>1, OverIs DEF Open, Answered
    <2>2. CASE conn[x].st \notin Open
      BY <1>1, <2>2 DEF IInv, Lines
    <2> QED BY <2>1, <2>2
  <1>3. conn' \in [Conns -> Record]
    BY <1>2 DEF Down
  <1>4. Lines'
    BY <1>2, <1>3, Sizes DEF Lines, Down
  <1>5. Queued'
    <2>1. queue' = <<>> /\ queue' \in Seq(Conns) /\ \A x : ~In(queue', x)
      BY DEF Down, In
    <2>2. Once(queue')
      BY <2>1 DEF Once, Down
    <2>3. cur' = Nobody /\ Nobody \notin Conns /\ pc' = "down" /\ ready' = {}
      BY ControlAssumption DEF Down
    <2> QED BY <1>2, <2>1, <2>2, <2>3, SMTT(60) DEF Queued
  <1>6. OnTime'
    BY Sizes, Ticks DEF OnTime, Down
  <1> QED BY <1>4, <1>5, <1>6 DEF IInv

LEMMA StartInv ==
  ASSUME IInv, Start
  PROVE  IInv'
  <1>1. Queued' /\ Lines'
    BY DEF IInv, Queued, Lines, Start, up, Waiting
  <1>2. OnTime'
    BY Sizes, SMTT(60) DEF IInv, OnTime, Start, up
  <1> QED BY <1>1, <1>2 DEF IInv

\* What the time does to a connection.
LEMMA PassConn ==
  ASSUME IInv, Pass, NEW x \in Conns
  PROVE  /\ conn'[x] \in Record
         /\ conn[x].st = "over" => conn'[x] = Closed
         /\ conn[x].st # "over" =>
              /\ conn'[x].st = conn[x].st /\ conn'[x].by = conn[x].by
              /\ conn'[x].op = conn[x].op /\ conn'[x].sent = conn[x].sent
              /\ conn'[x].eof = conn[x].eof /\ conn'[x].reply = conn[x].reply
              /\ conn'[x].did = conn[x].did
  <1> DEFINE i == AtMost(conn[x].idle + 1, ClientTimeout)
  <1>1. conn[x] \in Record
    BY DEF IInv, Lines
  <1>2. conn'[x] = CASE conn[x].st = "over" -> Closed
                     [] conn[x].st = "wait" /\ conn[x].by = "resty" ->
                          [conn[x] EXCEPT !.idle = AtMost(@ + 1, ClientTimeout)]
                     [] OTHER -> conn[x]
    BY Zenon DEF Pass
  <1>3. CASE conn[x].st = "over"
    <2>1. conn'[x] = Closed
      BY <1>2, <1>3, Zenon
    <2> QED BY <1>3, <2>1, Fields
  <1>4. CASE conn[x].st = "wait" /\ conn[x].by = "resty"
    <2>1. conn'[x] = [conn[x] EXCEPT !.idle = i]
      BY <1>2, <1>4, Zenon
    <2>2. i \in Nat
      BY <1>1, Sizes DEF Record, AtMost
    <2> HIDE DEF i
    <2>3. conn'[x] \in Record
      BY <1>1, <2>1, <2>2, Fields
    <2>4. /\ conn'[x].st = conn[x].st /\ conn'[x].by = conn[x].by
          /\ conn'[x].op = conn[x].op /\ conn'[x].sent = conn[x].sent
          /\ conn'[x].reply = conn[x].reply /\ conn'[x].did = conn[x].did
      BY <1>1, <2>1 DEF Record
    <2>5. conn'[x].eof = conn[x].eof
      BY <1>1, <2>1 DEF Record
    <2> QED BY <1>4, <2>3, <2>4, <2>5
  <1>5. CASE conn[x].st # "over" /\ ~(conn[x].st = "wait" /\ conn[x].by = "resty")
    <2>1. conn'[x] = conn[x]
      BY <1>2, <1>5, Zenon
    <2> QED BY <1>1, <1>5, <2>1
  <1> QED BY <1>3, <1>4, <1>5

LEMMA PassInv ==
  ASSUME IInv, Pass
  PROVE  IInv'
  <1>1. \A x \in Conns : conn'[x].st \in Open <=> conn[x].st \in Open
    BY PassConn DEF Open, Closed
  <1>2. conn' \in [Conns -> Record]
    <2>1. conn' = [x \in Conns |-> conn'[x]]
      BY Zenon DEF Pass
    <2> QED BY <2>1, PassConn
  <1>3. Queued'
    <2>1. ready \subseteq Waiting'
      BY DEF IInv, Queued, Pass, Waiting
    <2>2. UNCHANGED <<pc, ready, cur, queue>>
      BY DEF Pass
    <2> QED BY <1>1, <2>1, <2>2 DEF IInv, Queued
  <1>4. Lines'
    <2>1. ASSUME NEW x \in Conns
          PROVE  IF conn'[x].st \in Open THEN Line(conn'[x]) ELSE Answered(conn'[x])
      <3>1. CASE conn[x].st = "over"
        BY <3>1, PassConn, SMTT(60) DEF Closed, Answered, Open
      <3>2. CASE conn[x].st # "over"
        BY <3>2, PassConn DEF IInv, Lines, Line, Answered
      <3> QED BY <3>1, <3>2
    <2>2. UNCHANGED <<pc, cur, used>>
      BY DEF Pass
    <2>3. pc = "read" => cur \in Conns /\ conn[cur].st # "over"
      BY SMTT(60) DEF IInv, Queued, Open
    <2>4. pc' = "read" => used' <= conn'[cur'].sent /\ (used' > 0 => conn'[cur'].by = "peer")
      BY <2>2, <2>3, PassConn DEF IInv, Lines
    <2> QED BY <1>2, <2>1, <2>2, <2>4 DEF IInv, Lines
  <1>5. OnTime'
    <2>1. UNCHANGED <<pc, ready, used>> /\ since \in Nat /\ waited \in 0 .. SockTimeout
          /\ used \in Nat
      BY DEF Pass, IInv, OnTime, Lines
    <2>2. PICK m \in Nat : m = used * SockTimeout
      BY <2>1, Products
    <2>3. PICK n \in Nat : n = ReqMax * SockTimeout
      BY Products, Sizes
    <2>4. TickGap = IdlePoll + n + SockTimeout
      BY <2>3, Products
    <2>5. CASE pc = "down"
      <3>1. since' = 0 /\ waited' = waited
        BY <2>5 DEF Pass, up
      <3> QED BY <2>1, <2>5, <3>1, Ticks DEF IInv, Queued, OnTime
    <2>6. CASE pc = "poll"
      <3>1. since < IdlePoll /\ waited' = waited
        BY <2>6 DEF Pass, Blocked
      <3>2. since' = since + 1
        BY <2>1, <2>6, <3>1, Ticks, Sizes DEF Pass, up, AtMost
      <3>3. since' \in Nat /\ since' <= IdlePoll /\ since' <= TickGap
        BY <2>1, <3>1, <3>2, Ticks, Sizes
      <3> QED BY <2>1, <2>6, <3>1, <3>3 DEF IInv, Queued, OnTime
    <2>7. CASE pc = "read"
      <3>1. waited < SockTimeout /\ waited' = waited + 1
        BY <2>7 DEF Pass, Blocked
      <3>2. m + SockTimeout <= n /\ since <= IdlePoll + m + waited
        BY <2>1, <2>2, <2>3, <2>7, Products, Sizes DEF IInv, Lines, OnTime
      <3>3. since' = since + 1
        BY <2>1, <2>4, <2>7, <3>1, <3>2, Sizes DEF Pass, up, AtMost
      <3>4. since' \in Nat /\ since' <= IdlePoll + m + waited' /\ since' <= TickGap
            /\ waited' \in 0 .. SockTimeout
        BY <2>1, <2>4, <3>1, <3>2, <3>3, Sizes
      <3>5. since' <= IdlePoll + used' * SockTimeout + waited'
        BY <2>1, <2>2, <3>4
      <3> QED BY <2>1, <2>7, <3>4, <3>5 DEF IInv, Queued, OnTime
    <2>8. CASE pc = "http"
      <3>1. waited < SockTimeout /\ waited' = waited + 1
        BY <2>8 DEF Pass, Blocked
      <3>2. since <= IdlePoll + n + waited
        BY <2>3, <2>8 DEF IInv, OnTime
      <3>3. since' = since + 1
        BY <2>1, <2>4, <2>8, <3>1, <3>2, Sizes DEF Pass, up, AtMost
      <3>4. since' \in Nat /\ since' <= IdlePoll + n + waited' /\ since' <= TickGap
            /\ waited' \in 0 .. SockTimeout
        BY <2>1, <2>4, <3>1, <3>2, <3>3, Sizes
      <3>5. since' <= IdlePoll + ReqMax * SockTimeout + waited'
        BY <2>3, <3>4
      <3> QED BY <2>1, <2>8, <3>4, <3>5 DEF IInv, Queued, OnTime
    <2> QED BY <2>5, <2>6, <2>7, <2>8 DEF Pass, Blocked
  <1> QED BY <1>3, <1>4, <1>5 DEF IInv
----------------------------------------------------------------------------
LEMMA InitInv ==
  ASSUME Init
  PROVE  IInv
  <1>1. Lines
    <2>1. conn \in [Conns -> Record]
      BY Fields DEF Init
    <2>2. \A c \in Conns : conn[c].st \notin Open /\ Answered(conn[c])
      BY DEF Init, Closed, Open, Answered
    <2> QED BY <2>1, <2>2, Sizes DEF Init, Lines
  <1>2. Queued
    <2>1. queue \in Seq(Conns) /\ Once(queue) /\ \A x : ~In(queue, x)
      BY DEF Init, In, Once
    <2>2. \A c \in Conns : conn[c].st \notin Open /\ c # cur
      BY ControlAssumption DEF Init, Closed, Open
    <2> QED BY <2>1, <2>2 DEF Init, Queued
  <1>3. OnTime
    BY Sizes, Ticks DEF Init, OnTime
  <1> QED BY <1>1, <1>2, <1>3 DEF IInv

LEMMA NextInv ==
  ASSUME IInv, [Next]_vars
  PROVE  IInv'
  <1>1. CASE UNCHANGED vars
    BY <1>1, Apart DEF vars
  <1> QED BY <1>1, ServeInv, ClientInv, DownInv, StartInv, PassInv DEF Next

\* The invariant holds throughout.
THEOREM Invariance == Spec => []IInv
  BY InitInv, NextInv, PTL DEF Spec

\* The daemon loses no connection and serves none twice.
ServedInTurn ==
  /\ \A i, j \in DOMAIN queue : queue[i] = queue[j] => i = j
  /\ \A c \in Conns :
       conn[c].st \in {"wait", "left"} <=> c = cur \/ \E i \in DOMAIN queue : queue[i] = c
  /\ \A i \in DOMAIN queue : queue[i] # cur
  /\ pc = "read" <=> cur # Nobody

\* A connection that is not closed is being read or is in the queue once, and
\* nothing else is: whatever way a read ends, and when the daemon goes down, it
\* closes the connection it accepted (vg_ctl_server_handle, the loop of main).
THEOREM ConnectionsAreKept == Spec => []ServedInTurn
  <1>1. IInv => ServedInTurn
    BY DEF IInv, Queued, ServedInTurn, In, Once, Open
  <1> QED BY <1>1, Invariance, PTL

\* The tick is late by no more than one round, for any number of clients that
\* connect, each as slow as sock_timeout lets it be, and every size of req (the
\* event loop of main).
THEOREM TicksOnTime == Spec => []TickIsOnTime
  <1>1. IInv => TickIsOnTime
    BY DEF IInv, OnTime, TickIsOnTime
  <1> QED BY <1>1, Invariance, PTL

\* What the programs make of a reply.
LEMMA HeardIs ==
  ASSUME NEW r \in Record
  PROVE  /\ Heard(r) = "true" => r.reply = "ok"
         /\ Heard(r) = "error" => r.reply = "error"
  <1>1. r.reply \in {"none", "ok", "error"}
    BY DEF Record
  <1>2. CASE r.reply = "ok"
    BY <1>2, Zenon DEF Heard, commit, ExitCode
  <1>3. CASE r.reply = "error"
    BY <1>3, Zenon DEF Heard, commit, ExitCode
  <1>4. CASE r.reply = "none"
    BY <1>4, Zenon DEF Heard, commit, ExitCode
  <1> QED BY <1>1, <1>2, <1>3, <1>4

\* What AnswerIsTruthful says of a step and a connection that it closes.
Told(c) ==
  conn[c].st \in Open /\ conn'[c].st = "over" =>
    /\ Heard(conn'[c]) = "true" => ban' = Run(conn[c].op, conn[c].addr)
    /\ Heard(conn'[c]) = "error" =>
         ban' = ban \/ (conn[c].op = "disarm" /\ ban' = [b \in Addrs |-> NoBan])

\* A reply is heard on the connection that was served, by a client still there.
LEMMA FinishTells ==
  ASSUME IInv, pc = "read",
         NEW reply \in {"none", "ok", "error"}, NEW did \in {"nothing", "ran", "failed", "cut"},
         Finish(reply, did),
         NEW c \in Conns, conn[c].st \in Open, conn'[c].st = "over"
  PROVE  /\ c = cur
         /\ Heard(conn'[c]) = "true" => reply = "ok" /\ conn[c].st # "left"
         /\ Heard(conn'[c]) = "error" => reply = "error" /\ conn[c].st # "left"
  <1>1. conn \in [Conns -> Record] /\ cur \in Conns
    BY ControlAssumption DEF IInv, Queued, Lines
  <1>2. PICK e \in {"none", "ok", "error"} : e = IF conn[cur].st = "left" THEN "none" ELSE reply
    OBVIOUS
  <1>3. conn' = [conn EXCEPT ![cur] = Over(conn[cur], e, did)]
    BY <1>2 DEF Finish
  <1>4. c = cur
    <2> SUFFICES ASSUME c # cur PROVE FALSE
      OBVIOUS
    <2>1. conn'[c] = conn[c]
      BY <1>1, <1>3
    <2> QED BY <2>1 DEF Open
  <1>5. conn'[c] = Over(conn[c], e, did)
    BY <1>1, <1>3, <1>4
  <1>6. Over(conn[c], e, did) \in Record /\ Over(conn[c], e, did).reply = e
    BY <1>1, OverIs
  <1>7. (Heard(conn'[c]) = "true" => e = "ok") /\ (Heard(conn'[c]) = "error" => e = "error")
    BY <1>5, <1>6, HeardIs
  <1> QED BY <1>2, <1>4, <1>7

LEMMA DispatchTells ==
  ASSUME IInv, pc = "read", NEW n, Dispatch(n), NEW c \in Conns,
         n # Size(conn[cur].op) => conn[cur].st = "left"
  PROVE  Told(c)
  <1> SUFFICES ASSUME conn[c].st \in Open, conn'[c].st = "over"
               PROVE  /\ Heard(conn'[c]) = "true" => ban' = Run(conn[c].op, conn[c].addr)
                      /\ Heard(conn'[c]) = "error" =>
                           ban' = ban \/ (conn[c].op = "disarm" /\ ban' = [b \in Addrs |-> NoBan])
    BY DEF Told
  <1>1. CASE n = Size(conn[cur].op)
    <2>1. CASE Finish("ok", "ran") /\ ban' = Run(conn[cur].op, conn[cur].addr)
      BY <2>1, FinishTells, SMTT(60)
    <2>2. CASE Finish("error", "failed") /\ ban' = Failed(conn[cur].op, conn[cur].addr)
      <3>1. c = cur /\ (Heard(conn'[c]) = "true" => FALSE)
        BY <2>2, FinishTells
      <3>2. CASE conn[c].op = "disarm"
        <4>1. Failed(conn[c].op, conn[c].addr) = [b \in Addrs |-> NoBan]
          BY <3>2, Zenon DEF Failed, Run
        <4> QED BY <2>2, <3>1, <3>2, <4>1
      <3>3. CASE conn[c].op # "disarm"
        BY <2>2, <3>1, <3>3 DEF Failed
      <3> QED BY <3>2, <3>3
    <2> QED BY <1>1, <2>1, <2>2, Zenon DEF Dispatch
  <1>2. CASE n # Size(conn[cur].op)
    <2>1. Finish("error", "cut") \/ Finish("ok", "cut")
      BY <1>2 DEF Dispatch
    <2> QED BY <1>2, <2>1, FinishTells
  <1> QED BY <1>1, <1>2

LEMMA ServeTells ==
  ASSUME IInv, Serve, NEW c \in Conns
  PROVE  Told(c)
  <1>1. ASSUME conn' = conn PROVE Told(c)
    BY <1>1 DEF Told, Open
  <1>2. ASSUME pc = "read", Finish("none", "nothing") PROVE Told(c)
    BY <1>2, FinishTells DEF Told
  <1>3. CASE ReadSome
    <2>1. pc = "read"
      BY <1>3 DEF ReadSome
    <2>2. CASE Dispatch(Size(conn[cur].op))
      BY <2>1, <2>2, DispatchTells
    <2>3. CASE Finish("error", "failed") /\ ban' = ban
      BY <2>1, <2>3, FinishTells DEF Told
    <2> QED BY <1>1, <1>3, <2>2, <2>3 DEF ReadSome, TooLong
  <1>4. CASE ReadEof
    <2>1. pc = "read"
      BY <1>4 DEF ReadEof
    <2>2. CASE used > 0 /\ Dispatch(used)
      <3>1. cur \in Conns /\ Line(conn[cur]) /\ conn[cur].by = "peer" /\ conn[cur].eof
        BY <1>4, <2>1, <2>2, ControlAssumption DEF ReadEof, IInv, Queued, Lines
      <3> QED BY <2>1, <2>2, <3>1, DispatchTells, SMTT(60) DEF Line
    <2> QED BY <1>2, <1>4, <2>1, <2>2 DEF ReadEof
  <1>5. CASE ReadTimeout
    BY <1>2, <1>5 DEF ReadTimeout
  <1> QED BY <1>1, <1>3, <1>4, <1>5
    DEF Serve, PollReady, PollTimeout, AcceptCtl, AcceptHttp, vg_http_handle, EndRound

\* No step of a client closes a connection at the daemon's end.
LEMMA ClientTells ==
  ASSUME IInv, Client, NEW c \in Conns
  PROVE  Told(c)
  <1>1. conn \in [Conns -> Record]
    BY DEF IInv, Lines
  <1>2. ASSUME conn' = conn PROVE Told(c)
    BY <1>2 DEF Told, Open
  <1>3. ASSUME NEW d, NEW by, NEW op, NEW a, NEW sent, NEW eof, Connect(d, by, op, a, sent, eof)
        PROVE  Told(c)
    <2>1. conn[d].st = "free" /\ (c # d => conn'[c] = conn[c])
      BY <1>1, <1>3 DEF Connect
    <2> QED BY <2>1 DEF Told, Open
  <1>4. ASSUME NEW d, ReceiveTimeout(d) \/ PeerSend(d) \/ PeerClose(d) PROVE Told(c)
    <2>1. conn'[c].st \in {conn[c].st, "left"}
      BY <1>1, <1>4 DEF ReceiveTimeout, PeerSend, PeerClose, Record
    <2> QED BY <2>1 DEF Told, Open
  <1>5. ASSUME NEW d, NEW a, request(d, a) PROVE Told(c)
    BY <1>2, <1>3, <1>5, ZenonT(60) DEF request
  <1> QED BY <1>2, <1>3, <1>4, <1>5, Zenon
    DEF Client, M_ban, ban_timer, ban_timer_premature, M_ban_now, voidgatectl, PeerConnect,
        WebConnect

\* ban_now and voidgatectl report success only of a command that the daemon has
\* just carried out whole, and an error only when the drop list is as it was, or
\* empty after a disarm (request, commit, vg_ctl_server_handle, vg_ctrl_disarm,
\* voidgatectl's main).
THEOREM AnswersAreTruthful == Spec => AnswerIsTruthful
  <1>1. ASSUME IInv, [Next]_vars, NEW c \in Conns PROVE Told(c)
    <2>1. conn \in [Conns -> Record]
      BY <1>1 DEF IInv, Lines
    <2>2. CASE Down
      <3>1. CASE conn[c].st \in Open
        <4>1. conn'[c] = Over(conn[c], "none", "nothing")
          BY <2>2, <3>1 DEF Down, Open
        <4>2. conn'[c] \in Record /\ conn'[c].reply = "none"
          BY <2>1, <4>1, OverIs
        <4> QED BY <4>2, HeardIs DEF Told
      <3> QED BY <3>1 DEF Told
    <2>3. CASE Pass
      <3>1. conn[c].st \in Open => conn'[c].st = conn[c].st
        BY <2>1, <2>3 DEF Pass, Open, Record
      <3> QED BY <3>1 DEF Told, Open
    <2>4. CASE Start \/ UNCHANGED vars
      BY <2>4 DEF Start, vars, Told, Open
    <2> QED BY <1>1, <2>2, <2>3, <2>4, ServeTells, ClientTells DEF Next
  <1>2. IInv /\ [Next]_vars =>
          [\A c \in Conns :
             conn[c].st \in {"wait", "left"} /\ conn'[c].st = "over" =>
               /\ Heard(conn'[c]) = "true" => ban' = Run(conn[c].op, conn[c].addr)
               /\ Heard(conn'[c]) = "error" =>
                    ban' = ban \/ (conn[c].op = "disarm" /\ ban' = [b \in Addrs |-> NoBan])]_vars
    BY <1>1, Zenon DEF Told, Open
  <1> QED BY <1>2, Invariance, PTL DEF Spec, AnswerIsTruthful

\* A command of voidgatectl or of the OpenResty client runs as a whole or not at
\* all, whatever the size of the daemon's buffer (the sizes of cmd and req).
THEOREM CommandsRunWhole == Spec => []WholeCommandRuns
  <1>1. IInv => WholeCommandRuns
    BY DEF IInv, Lines, Line, Answered, WholeCommandRuns
  <1> QED BY <1>1, Invariance, PTL
----------------------------------------------------------------------------
(***************************************************************************)
(* The drop list, the dict and the timers of nginx.                        *)
(***************************************************************************)

Bans == [kind : {"none", "timed", "manual"}, left : Nat]

Kept ==
  /\ ban \in [Addrs -> Bans]
  /\ key \in [Addrs -> 0 .. Window]
  /\ timers \in Seq(Addrs)
  /\ Len(timers) <= MaxTimers
  /\ web \in {"free", "wait", "rest"}
  /\ faults \in 0 .. MaxFaults

LEMMA Limits ==
  /\ Window \in Nat /\ Ttl \in Nat /\ MaxTimers \in Nat /\ MaxFaults \in Nat
  /\ ReqMax \in Nat /\ ReqMax > 2 /\ Nobody \notin Conns
  BY ControlAssumption

LEMMA BansAre ==
  /\ NoBan \in Bans
  /\ [kind |-> "manual", left |-> 0] \in Bans
  /\ \A b \in Bans : Timed(b) \in Bans
  BY Limits DEF NoBan, Bans, Timed

\* A command leaves a ban, or none, for each address.
LEMMA RunIs ==
  ASSUME ban \in [Addrs -> Bans], NEW op \in {"ban", "drop", "undrop", "disarm"}, NEW a
  PROVE  Run(op, a) \in [Addrs -> Bans]
  <1>1. CASE op = "ban"
    <2>1. Run(op, a) = [ban EXCEPT ![a] = Timed(@)]
      BY <1>1, Zenon DEF Run
    <2> QED BY <2>1, BansAre, Zenon
  <1>2. CASE op = "drop"
    <2>1. Run(op, a) = [ban EXCEPT ![a] = [kind |-> "manual", left |-> 0]]
      BY <1>2, Zenon DEF Run
    <2> QED BY <2>1, BansAre, Zenon
  <1>3. CASE op = "undrop"
    <2>1. Run(op, a) = [ban EXCEPT ![a] = NoBan]
      BY <1>3, Zenon DEF Run
    <2> QED BY <2>1, BansAre, Zenon
  <1>4. CASE op = "disarm"
    <2>1. Run(op, a) = [b \in Addrs |-> NoBan]
      BY <1>4, Zenon DEF Run
    <2> QED BY <2>1, BansAre
  <1> QED BY <1>1, <1>2, <1>3, <1>4

\* Of a timer that runs, no more is left.
LEMMA FireIs ==
  ASSUME timers \in Seq(Addrs), NEW a, Fire(a)
  PROVE  timers' \in Seq(Addrs) /\ Len(timers') < Len(timers)
  <1>1. PICK i \in DOMAIN timers :
          timers' = SubSeq(timers, 1, i - 1) \o SubSeq(timers, i + 1, Len(timers))
    BY Zenon DEF Fire
  <1>2. i \in 1 .. Len(timers) /\ Len(timers) \in Nat
    OBVIOUS
  <1>3. /\ SubSeq(timers, 1, i - 1) \in Seq(Addrs)
        /\ Len(SubSeq(timers, 1, i - 1)) = i - 1
    BY <1>2
  <1>4. /\ SubSeq(timers, i + 1, Len(timers)) \in Seq(Addrs)
        /\ Len(SubSeq(timers, i + 1, Len(timers))) = Len(timers) - i
    BY <1>2
  <1>5. timers' \in Seq(Addrs) /\ Len(timers') = i - 1 + (Len(timers) - i)
    BY <1>1, <1>3, <1>4
  <1> QED BY <1>2, <1>5

LEMMA TickKeeps ==
  ASSUME ban \in [Addrs -> Bans], Tick
  PROVE  ban' \in [Addrs -> Bans]
  BY BansAre DEF Tick

LEMMA FaultKeeps ==
  ASSUME faults \in 0 .. MaxFaults, Fault
  PROVE  faults' \in 0 .. MaxFaults
  BY Limits DEF Fault

\* The line of a connection is one of the daemon's commands, or does not fit.
LEMMA DispatchKeeps ==
  ASSUME Kept, NEW n \in Nat, n < ReqMax, conn[cur].op \in Ops, Dispatch(n)
  PROVE  ban' \in [Addrs -> Bans] /\ faults' \in 0 .. MaxFaults
  <1>1. CASE n = Size(conn[cur].op)
    <2>1. conn[cur].op \in {"ban", "drop", "undrop", "disarm"}
      BY <1>1, Limits DEF Ops, Size
    <2>2. \/ ban' = Run(conn[cur].op, conn[cur].addr) /\ faults' = faults
          \/ ban' = Failed(conn[cur].op, conn[cur].addr) /\ Fault
      BY <1>1, Zenon DEF Dispatch
    <2>3. Failed(conn[cur].op, conn[cur].addr) \in {ban, Run(conn[cur].op, conn[cur].addr)}
      BY DEF Failed
    <2> QED BY <2>1, <2>2, <2>3, RunIs, FaultKeeps DEF Kept
  <1>2. CASE n # Size(conn[cur].op)
    <2>1. /\ ban' = ban \/ ban' = Run("drop", conn[cur].addr)
          /\ faults' = faults
      BY <1>2, Zenon DEF Dispatch
    <2> QED BY <2>1, RunIs DEF Kept
  <1> QED BY <1>1, <1>2

LEMMA ServeKeeps ==
  ASSUME IInv, Kept, Serve
  PROVE  Kept'
  <1>1. key' = key /\ timers' = timers
    BY SMTT(60) DEF Serve, nginx
  <1>2. ASSUME pc = "read"
        PROVE  conn[cur].op \in Ops /\ conn[cur].sent \in Nat /\ used \in Nat /\ used < ReqMax
    <2>1. cur \in Conns /\ conn[cur].st \in Open
      BY <1>2, Limits DEF IInv, Queued
    <2>2. conn[cur] \in Record /\ Line(conn[cur])
      BY <2>1 DEF IInv, Lines
    <2> QED BY <2>2, Limits, SMTT(60) DEF IInv, Lines, Line, Record
  <1>3. CASE PollReady
    BY <1>1, <1>3 DEF PollReady, Kept
  <1>4. CASE PollTimeout
    BY <1>1, <1>4, TickKeeps DEF PollTimeout, Kept
  <1>5. CASE AcceptCtl
    BY <1>1, <1>5 DEF AcceptCtl, Kept
  <1>6. CASE AcceptHttp
    BY <1>1, <1>6 DEF AcceptHttp, Kept
  <1>7. CASE vg_http_handle
    BY <1>1, <1>7 DEF vg_http_handle, Kept
  <1>8. CASE EndRound
    BY <1>1, <1>8, TickKeeps DEF EndRound, Kept
  <1>9. CASE ReadSome
    <2>1. pc = "read" /\ web' = web
      BY <1>9 DEF ReadSome
    <2>2. CASE Size(conn[cur].op) < ReqMax /\ Dispatch(Size(conn[cur].op))
      <3>1. Size(conn[cur].op) \in Nat
        BY Limits DEF Size
      <3> QED BY <1>1, <1>2, <2>1, <2>2, <3>1, DispatchKeeps DEF Kept
    <2>3. CASE ban' = ban /\ faults' = faults
      BY <1>1, <2>1, <2>3 DEF Kept
    <2> QED BY <1>9, <2>2, <2>3 DEF ReadSome, TooLong
  <1>10. CASE ReadEof
    <2>1. pc = "read" /\ web' = web
      BY <1>10 DEF ReadEof
    <2>2. CASE Dispatch(used)
      BY <1>1, <1>2, <2>1, <2>2, DispatchKeeps DEF Kept
    <2>3. CASE ban' = ban /\ faults' = faults
      BY <1>1, <2>1, <2>3 DEF Kept
    <2> QED BY <1>10, <2>2, <2>3 DEF ReadEof
  <1>11. CASE ReadTimeout
    BY <1>1, <1>11 DEF ReadTimeout, Kept
  <1> QED BY <1>3, <1>4, <1>5, <1>6, <1>7, <1>8, <1>9, <1>10, <1>11 DEF Serve

LEMMA ClientKeeps ==
  ASSUME Kept, Client
  PROVE  Kept'
  <1>1. ASSUME NEW a \in Addrs, NEW dict \in BOOLEAN, NEW ok \in BOOLEAN, M_ban(a, dict, ok)
        PROVE  Kept'
    <2>1. web' = web /\ ban' = ban /\ faults' = faults
      BY <1>1 DEF M_ban
    <2>2. key' \in [Addrs -> 0 .. Window]
      <3>1. key' = key \/ key' = [key EXCEPT ![a] = Window]
        BY <1>1, Zenon DEF M_ban, nginx
      <3> QED BY <3>1, Limits, SMTT(60) DEF Kept
    <2>3. timers' \in Seq(Addrs) /\ Len(timers') <= MaxTimers
      <3>1. timers' = timers \/ (Len(timers) < MaxTimers /\ timers' = Append(timers, a))
        BY <1>1, Zenon DEF M_ban, nginx
      <3>2. CASE timers' = Append(timers, a) /\ Len(timers) < MaxTimers
        BY <3>2, Limits DEF Kept
      <3> QED BY <3>1, <3>2, Zenon DEF Kept
    <2> QED BY <2>1, <2>2, <2>3 DEF Kept
  <1>2. ASSUME NEW c, NEW a, ban_timer(c, a) PROVE Kept'
    BY <1>2, FireIs, Limits DEF ban_timer, Kept
  <1>3. ASSUME NEW a, ban_timer_premature(a) PROVE Kept'
    BY <1>3, FireIs, FaultKeeps, Limits DEF ban_timer_premature, Kept
  <1>4. ASSUME UNCHANGED <<web, ban, nginx, faults>> PROVE Kept'
    BY <1>4 DEF nginx, Kept
  <1>5. CASE WebConnect
    BY <1>5 DEF WebConnect, nginx, Kept
  <1> QED BY <1>1, <1>2, <1>3, <1>4, <1>5, Zenon
    DEF Client, M_ban_now, ReceiveTimeout, voidgatectl, PeerConnect, PeerSend, PeerClose

LEMMA PassKeeps ==
  ASSUME Kept, Pass
  PROVE  Kept'
  <1>1. key' \in [Addrs -> 0 .. Window]
    BY Limits DEF Kept, Pass, AtLeast
  <1>2. ban' \in [Addrs -> Bans]
    <2>1. ASSUME NEW b \in Bans PROVE [b EXCEPT !.left = AtLeast(@ - 1, 0)] \in Bans
      BY DEF Bans, AtLeast
    <2>2. ban' = [a \in Addrs |-> [ban[a] EXCEPT !.left = AtLeast(@ - 1, 0)]]
      BY Zenon DEF Pass
    <2> QED BY <2>1, <2>2 DEF Kept
  <1> QED BY <1>1, <1>2 DEF Kept, Pass

LEMMA NextKeeps ==
  ASSUME IInv, Kept, [Next]_vars
  PROVE  Kept'
  <1>1. CASE UNCHANGED vars
    BY <1>1 DEF vars, nginx, Kept
  <1>2. CASE Down
    BY <1>2, BansAre, FaultKeeps DEF Down, nginx, Kept
  <1>3. CASE Start
    BY <1>3 DEF Start, nginx, Kept
  <1> QED BY <1>1, <1>2, <1>3, ServeKeeps, ClientKeeps, PassKeeps DEF Next

\* Of all clients, bans and pending timers there are no more than the limits
\* allow, a connection that the daemon has still to close is in its queue once or
\* is the one it serves, and it holds less than a full buffer between two reads
\* (the event loop of main, vg_ctl_server_handle, M.ban).
THEOREM TypeCorrect == Spec => []TypeOK
  <1>1. Init => Kept
    BY BansAre, Limits DEF Init, Kept
  <1>2. IInv /\ Kept /\ [Next]_vars => Kept'
    BY NextKeeps, SMTT(60)
  <1>3. IInv /\ Kept => TypeOK
    <2> SUFFICES ASSUME IInv, Kept PROVE TypeOK
      OBVIOUS
    <2>1. \A c \in Conns : conn[c].st \in {"free", "wait", "left", "over"}
      BY DEF IInv, Lines, Record
    <2>2. \A a \in Addrs : ban[a].kind \in {"none", "timed", "manual"}
      BY DEF Kept, Bans
    <2>3. since \in 0 .. TickGap + 1
      BY Ticks DEF IInv, OnTime
    <2>4. (cur = Nobody) = (pc # "read")
      BY DEF IInv, Queued
    <2> QED BY <2>1, <2>2, <2>3, <2>4
      DEF IInv, Queued, Lines, OnTime, Kept, In, Once, Open, TypeOK
  <1> QED BY <1>1, <1>2, <1>3, Invariance, PTL DEF Spec
=============================================================================
