------------------------------- MODULE Packet -------------------------------
(***************************************************************************)
(* What voidgate_xdp reads of a frame (src/bpf/voidgate.bpf.c): VLAN tags, *)
(* the IPv4 or IPv6 header, the IPv6 extension headers, the ports; and     *)
(* what it then does with a frame of a source on the drop list.  Gate has  *)
(* the lookups themselves, and the maps that change between them.          *)
(*                                                                         *)
(* A frame is a row of headers, of which the first `whole' are inside it   *)
(* from end to end.  Each header names the type of the next.               *)
(***************************************************************************)
EXTENDS Integers, Sequences

CONSTANTS
  MaxVlans,    \* VG_MAX_VLANS
  MaxExt,      \* VG_MAX_IPV6_EXT
  DhcpServer,  \* the ports 67 and 547
  DhcpClient,  \* the ports 68 and 546
  NdiscRs,     \* VG_NDISC_RS, the first and
  NdiscLast    \* VG_NDISC_REDIRECT, the last ICMPv6 type of NDP

ASSUME PacketAssumption ==
  /\ MaxVlans \in Nat
  /\ MaxExt \in Nat
  /\ {DhcpServer, DhcpClient} \subseteq Nat \ {0}
  /\ DhcpServer # DhcpClient
  /\ NdiscRs \in Nat \ {0}
  /\ NdiscLast \in Nat

\* ip4_later is a fragment other than the first, ip4_bad has a header length
\* that is too small or leads out of the frame.
V4 == {"ip4", "ip4_later", "ip4_bad"}

\* An options, routing or authentication header; the fragment header of a
\* first and of a later fragment.
Ext == {"opt", "first", "later"}

L4 == {"tcp", "udp", "icmp6", "none"}

Headers(f) ==
  <<"eth">> \o [i \in 1 .. f.vlans |-> "vlan"] \o <<f.net>> \o f.ext \o <<f.l4>>

\* The type the headers up to i give the next one, whether or not it is there.
Type(f, i) == IF i <= Len(Headers(f)) THEN Headers(f)[i] ELSE "none"

Whole(f, i) == i <= f.whole

\* One turn of the loop over the tags.
PastTag(f, i) ==
  IF i = 0 \/ Type(f, i) # "vlan" THEN i ELSE IF Whole(f, i) THEN i + 1 ELSE 0

\* Where the network header is, after at most MaxVlans tags; 0 if a tag, or
\* the Ethernet header, is cut off.
NetworkHeader(f) ==
  LET after[n \in 0 .. MaxVlans] ==
        IF n = 0
        THEN IF Whole(f, 1) THEN 2 ELSE 0
        ELSE PastTag(f, after[n - 1])
  IN  after[MaxVlans]

Unread == [sport |-> 0, dport |-> 0, icmp6_type |-> 0]

\* The ports of a TCP or UDP header and the type of an ICMPv6 message, which
\* only IPv6 asks for; 0 where there is none or it is cut off.
parse_l4(f, i, v6) ==
  LET has(types) == Whole(f, i) /\ Type(f, i) \in types
  IN  [sport |-> IF has({"tcp", "udp"}) THEN f.sport ELSE 0,
       dport |-> IF has({"tcp", "udp"}) THEN f.dport ELSE 0,
       icmp6_type |-> IF v6 /\ has({"icmp6"}) THEN f.icmp6_type ELSE 0]

\* Mutant of PastExt: the offset of a fragment is not looked at.
PastLaterFragment(f, i, w) ==
  IF w.rc # 1 \/ Type(f, w.at) \notin Ext THEN w
  ELSE IF ~Whole(f, w.at) THEN [rc |-> -1, at |-> i]
  ELSE [rc |-> 1, at |-> w.at + 1]

\* One turn of the walk from i, at w.
PastExt(f, i, w) ==
  IF w.rc # 1 \/ Type(f, w.at) \notin Ext THEN w
  ELSE IF ~Whole(f, w.at) THEN [rc |-> -1, at |-> i]
  ELSE [rc |-> IF Type(f, w.at) = "later" THEN 0 ELSE 1, at |-> w.at + 1]

\* Mutant of v6_walk_ext: the walk is one header short.
WalkOneLess(f, i) ==
  LET after[n \in 0 .. MaxExt] ==
        IF n = 0 THEN [rc |-> 1, at |-> i] ELSE PastExt(f, i, after[n - 1])
  IN  after[MaxExt - 1]

\* Walk at most MaxExt extension headers from i.  rc is 1 to read on at `at',
\* 0 in a later fragment, and -1 when a header is cut off, which leaves the
\* caller where it was.
v6_walk_ext(f, i) ==
  LET after[n \in 0 .. MaxExt] ==
        IF n = 0 THEN [rc |-> 1, at |-> i] ELSE PastExt(f, i, after[n - 1])
  IN  after[MaxExt]

DhcpPair(sport, dport) ==
  \/ dport = DhcpClient /\ sport = DhcpServer
  \/ dport = DhcpServer /\ sport \in {DhcpClient, DhcpServer}

\* What exempts an IP frame from the drop list, given what was read of it:
\* link-local addresses, NDP, the service ports of a local address, DHCP.
Exempt(f, ports, v6, proto, h) ==
  \/ v6 /\ "link" \in {f.src, f.dst}
  \/ v6 /\ f.hop_limit_255 /\ h.icmp6_type \in NdiscRs .. NdiscLast
  \/ /\ proto = "tcp"
     /\ \/ h.dport \in ports /\ f.dst = "local"
        \/ h.sport \in ports /\ f.src = "local"
  \/ /\ proto = "udp"
     /\ DhcpPair(h.sport, h.dport)
     /\ f.dst = "local" \/ (~v6 /\ f.dst = "broadcast")

\* The verdict on a frame whose source or destination is on the drop list and
\* not on the allow list.  What cannot be read to the end of its IP header,
\* or is not IP, passes.
voidgate_xdp(f, ports) ==
  LET i == NetworkHeader(f)
      net == Type(f, i)
      w == v6_walk_ext(f, i + 1)
      exempt ==
        IF net = "ip6"
        THEN Exempt(f, ports, TRUE, Type(f, w.at),
                    IF w.rc = 1 THEN parse_l4(f, w.at, TRUE) ELSE Unread)
        ELSE Exempt(f, ports, FALSE, Type(f, i + 1),
                    IF net = "ip4" THEN parse_l4(f, i + 1, FALSE) ELSE Unread)
  IN  IF i = 0 \/ net \notin V4 \cup {"ip6"} \/ ~Whole(f, i) \/ exempt
      THEN "pass"
      ELSE "drop"
----------------------------------------------------------------------------
(***************************************************************************)
(* What the program is to find, in terms of the frame as a whole.          *)
(***************************************************************************)

\* Both addresses are there, behind no more tags than the program looks for.
Readable(f) ==
  /\ f.vlans <= MaxVlans
  /\ f.net \in V4 \cup {"ip6"}
  /\ f.whole >= f.vlans + 2

\* The last header begins a TCP, UDP or ICMPv6 message: it is whole and belongs
\* to a first fragment.
BeginsL4(f) ==
  /\ Readable(f)
  /\ f.net \notin {"ip4_later", "ip4_bad"}
  /\ \A i \in DOMAIN f.ext : f.ext[i] # "later"
  /\ Len(f.ext) <= MaxExt
  /\ Whole(f, Len(Headers(f)))

\* AGENT.md, what is never dropped.
Earned(f, ports) ==
  \/ f.net = "ip6" /\ "link" \in {f.src, f.dst}
  \/ /\ BeginsL4(f)
     /\ \/ /\ f.l4 = "icmp6" /\ f.net = "ip6"
           /\ f.icmp6_type \in NdiscRs .. NdiscLast /\ f.hop_limit_255
        \/ /\ f.l4 = "tcp"
           /\ \/ f.dport \in ports /\ f.dst = "local"
              \/ f.sport \in ports /\ f.src = "local"
        \/ /\ f.l4 = "udp"
           /\ DhcpPair(f.sport, f.dport)
           /\ f.dst = "local" \/ (f.dst = "broadcast" /\ f.net = "ip4")
=============================================================================
