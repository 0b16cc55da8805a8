------------------------------- MODULE MCInputs -------------------------------
(***************************************************************************)
(* What comes in from outside, for TLC: the configuration file (Config),   *)
(* frames that arrive under the ports of the configuration in use          *)
(* (Packet), and the prefixes and numbers of commands (Cidr).              *)
(***************************************************************************)
EXTENDS Config, Packet, Cidr

CONSTANTS
  FrameSet,   \* the frames that arrive
  DigitSet    \* the numbers in commands, by their digits

VARIABLE input   \* what is being read, besides the file

\* Every frame: any number of tags and extension headers, cut off anywhere.
Frames ==
  {f \in [vlans : Nat, net : V4 \cup {"ip6", "arp"}, ext : Seq(Ext), l4 : L4,
          sport : Nat, dport : Nat, icmp6_type : Nat, hop_limit_255 : BOOLEAN,
          src : {"local", "link", "else"}, dst : {"local", "broadcast", "link", "else"},
          whole : Nat] :
     f.net # "ip6" => f.ext = <<>>}

ASSUME InputsAssumption ==
  FrameSet \subseteq Frames /\ DigitSet \subseteq Seq(0 .. 9)

Num(n) == [n |-> n, junk |-> FALSE]
Junk == [n |-> 0, junk |-> TRUE]

Line(key, words) == [key |-> key, blank |-> words = <<>>, words |-> words]

MCDefaults ==
  [interface |-> 1, drop_map_size |-> 4, wake_pps |-> 2, idle_poll_ms |-> 2,
   allow_ports |-> <<1>>, local |-> <<>>, allow |-> <<1>>, auto_local |-> TRUE]

Lines ==
  {Line("interface", <<Num(2)>>), Line("drop_map_size", <<Num(7)>>),
   Line("drop_map_size", <<Num(8)>>), Line("wake_pps", <<Num(-1)>>),
   Line("wake_pps", <<Num(20)>>), Line("wake_pps", <<Junk>>), Line("wake_pps", <<>>),
   Line("idle_poll_ms", <<Num(0)>>), Line("idle_poll_ms", <<Num(3)>>),
   Line("idle_poll_ms", <<Num(-1)>>),
   Line("allow_ports", <<>>), Line("allow_ports", <<Num(0)>>),
   Line("allow_ports", <<Num(-15)>>),
   Line("allow_ports", <<Num(2), Num(1)>>), Line("allow_ports", <<Num(1), Num(2), Num(3)>>),
   Line("local_networks", <<>>), Line("local_networks", <<Num(3)>>),
   [Line("local_networks", <<>>) EXCEPT !.blank = FALSE],
   Line("local_networks", <<Num(1), Num(2), Num(3)>>),
   Line("allow_networks", <<>>), Line("allow_networks", <<Num(2), Num(3)>>),
   Line("other", <<>>), Line("eio", <<>>)}

\* The sequences of at most n of S.
UpTo(n, S) == UNION {[1 .. m -> S] : m \in 0 .. n}

MCFiles == UpTo(2, Lines)

MCNics == {<<>>, <<7, 8, 9>>}
----------------------------------------------------------------------------
\* Every row of headers, cut off anywhere, of SSH, DHCP or NDP to this host.
\* Extension headers follow IPv6 only.
Rows ==
  {f \in [vlans : 0 .. MaxVlans + 1, net : V4 \cup {"ip6", "arp"},
          ext : UpTo(MaxExt + 1, Ext), l4 : L4, sport : {0, 2}, dport : {1, 3},
          icmp6_type : {2}, hop_limit_255 : {TRUE}, src : {"else"}, dst : {"local"},
          whole : 0 .. MaxVlans + MaxExt + 5] :
     /\ IF f.l4 = "tcp" THEN f.sport = 0 /\ f.dport = 1 ELSE f.sport = 2 /\ f.dport = 3
     /\ f.net # "ip6" => f.ext = <<>>
     /\ f.whole <= Len(Headers(f))}

\* Every pair of ports and of addresses, and ICMPv6 types on both sides of
\* those of NDP, in a frame that is whole.
Ends ==
  [vlans : {0}, net : {"ip4", "ip6"}, ext : {<<>>}, l4 : {"tcp", "udp"},
   sport : 0 .. 3, dport : 0 .. 3, icmp6_type : {0}, hop_limit_255 : {FALSE},
   src : {"local", "link", "else"}, dst : {"local", "broadcast", "link", "else"}, whole : {3}]
  \cup
  [vlans : {0}, net : {"ip4", "ip6"}, ext : {<<>>}, l4 : {"icmp6"},
   sport : {0}, dport : {0}, icmp6_type : 0 .. 4, hop_limit_255 : BOOLEAN,
   src : {"else"}, dst : {"local", "link"}, whole : {3}]

MCFrames == Rows \cup Ends
----------------------------------------------------------------------------
MCBytes == [v4 |-> 1, v6 |-> 2]

MCDigits == UpTo(4, {0, 1, 3, 9})

Nothing == [kind |-> "none"]

MCInit == Init /\ input = Nothing

\* Bound: frames arrive under files of at most one line, and the rest, which
\* does not depend on the configuration, under the empty one.
Arrive ==
  /\ input = Nothing
  /\ override = 0
  /\ nic = <<>>
  /\ \/ Len(file) < 2 /\ \E f \in FrameSet : input' = [kind |-> "frame", frame |-> f]
     \/ file = <<>> /\ \E p, q \in RawPrefixes : input' = [kind |-> "pair", p |-> p, q |-> q]
     \/ file = <<>> /\ \E d \in DigitSet : input' = [kind |-> "digits", digits |-> d]
  /\ UNCHANGED vars

Leave ==
  /\ input # Nothing
  /\ input' = Nothing
  /\ UNCHANGED vars

MCNext ==
  \/ input = Nothing /\ Reload /\ UNCHANGED input
  \/ Arrive
  \/ Leave

MCSpec == MCInit /\ [][MCNext]_<<vars, input>>
----------------------------------------------------------------------------
Ports == {cfg.allow_ports[i] : i \in DOMAIN cfg.allow_ports}

\* Of a source on the drop list only what AGENT.md exempts gets through, and
\* what the program cannot read: a later fragment, a header cut off or a chain
\* too long is no way past the list, because the ports it reads there are 0
\* and no file can make 0 a service port (v6_walk_ext, parse_l4,
\* voidgate_xdp, parse_allow_ports).
DropListHolds ==
  (input.kind = "frame" /\ voidgate_xdp(input.frame, Ports) = "pass")
     => ~Readable(input.frame) \/ Earned(input.frame, Ports)

\* What AGENT.md exempts passes, behind as many tags and extension headers as
\* the program reads, in a first fragment as in a whole packet.
ExemptPass ==
  (input.kind = "frame" /\ Earned(input.frame, Ports))
     => voidgate_xdp(input.frame, Ports) = "pass"

\* The byte arithmetic of prefixes is that of sets of addresses, which Policy
\* and Gate take it for: the operator MeansSet, on every two prefixes as they
\* may be written (vg_cidr_mask, vg_cidr_contains, vg_cidr_covers_or_overlaps).
PrefixMeansSet == input.kind = "pair" => MeansSet(input.p, input.q)

\* A number in a command is read as what is written or refused, however many
\* digits it has, and none wraps around into its range: the operator Exact, on
\* every row of digits (parse_ttl, vg_parse_cidr_len).
NumbersAreExact == input.kind = "digits" => Exact(input.digits)
=============================================================================
