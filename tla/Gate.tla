--------------------------------- MODULE Gate ---------------------------------
(***************************************************************************)
(* The XDP program and the daemon around the maps they share               *)
(* (src/bpf/voidgate.bpf.c, src/maps.c, vg_ctrl_reload of                  *)
(* src/ctl_server.c).                                                      *)
(*                                                                         *)
(* The daemon is single-threaded, but a reload replaces the allow and      *)
(* local maps one entry at a time while packets keep arriving, and a       *)
(* packet makes its lookups one after the other.  One packet in flight is  *)
(* enough: packets do not disturb each other's verdicts.                   *)
(*                                                                         *)
(* A prefix is the set of its addresses.  Of a packet only what the        *)
(* lookups use is kept: its addresses and its kind.  Every commit of the   *)
(* cfg map may fail; deletes and updates of single prefixes do not fail    *)
(* here (Policy has what they do to the drop list).                        *)
(***************************************************************************)
EXTENDS Integers, FiniteSets

CONSTANTS
  Addrs,     \* addresses
  Drops,     \* prefixes an operator or the policy may want dropped
  Configs,   \* configurations a reload may find in the file
  Packets    \* packets that may arrive

\* tcp_in and tcp_out have an allow_ports port on the destination's and on
\* the source's side, dhcp is a DHCP port pair, link is what passes without a
\* map (NDP, link-local, DHCP to the broadcast address) and plain the rest.
Kinds == {"tcp_in", "tcp_out", "dhcp", "link", "plain"}

Config == [local : SUBSET SUBSET Addrs, allow : SUBSET SUBSET Addrs, ports : BOOLEAN]

Packet == [src : Addrs, dst : Addrs, kind : Kinds]

ASSUME GateAssumption ==
  /\ Drops \subseteq SUBSET Addrs \ {{}}
  /\ Configs \subseteq Config
  /\ Packets \subseteq Packet

VARIABLES
  cfg,      \* the daemon's configuration
  pc,       \* "poll", or where a reload or a disarm is
  armed,    \* kernel: cfg.armed
  ports,    \* kernel: whether cfg.allow_ports has the service port
  allow,    \* kernel: prefixes of allow_v4/v6
  local,    \* kernel: prefixes of local_v4/v6
  drop,     \* kernel: prefixes of drop_v4/v6
  stage,    \* lookup the packet in flight makes next, 0 when there is none
  pkt,      \* the packet in flight, or the last one
  verdict,  \* what became of it: "none" yet, "pass" or "drop"
  live,     \* history: configurations since the last reload that completed
  seen,     \* history: those of the packet's time in flight
  failed    \* history: a reload has failed since the last that completed

daemon == <<cfg, pc, live, failed>>
maps == <<armed, ports, allow, local, drop>>
xdp == <<stage, pkt, verdict>>
vars == <<daemon, maps, xdp, seen>>

in_lpm(map, a) == \E p \in map : a \in p

vg_cidr_covers_or_overlaps(p, q) == p \cap q # {}

vg_cidr_is_protected(c, p) ==
  \E q \in c.local \cup c.allow : vg_cidr_covers_or_overlaps(p, q)
----------------------------------------------------------------------------
(***************************************************************************)
(* The daemon.  Each of its steps is one system call on a map; the         *)
(* packet in flight has then also seen the configurations that are live.   *)
(***************************************************************************)

Daemon ==
  /\ UNCHANGED xdp
  /\ seen' = IF stage = 0 THEN seen ELSE seen \cup live'

\* vg_cfg_commit writes the whole of cfg: the armed flag with the ports.
Commit(a) ==
  /\ armed' = a
  /\ ports' = cfg.ports

\* Mutant of drop_add: protected prefixes are not refused.
DropAnything(d) ==
  /\ pc = "poll"
  /\ IF armed THEN UNCHANGED <<armed, ports>> ELSE Commit(TRUE)
  /\ drop' = drop \cup {d}
  /\ UNCHANGED <<daemon, allow, local>>
  /\ Daemon

\* Refuses a protected prefix, arms, inserts.  A packet between the two
\* writes sees what it sees after vg_ctrl_arm.
drop_add(d) ==
  /\ pc = "poll"
  /\ ~vg_cidr_is_protected(cfg, d)
  /\ IF armed THEN UNCHANGED <<armed, ports>> ELSE Commit(TRUE)
  /\ drop' = drop \cup {d}
  /\ UNCHANGED <<daemon, allow, local>>
  /\ Daemon

\* An undrop, or an expiry.
drop_remove(d) ==
  /\ pc = "poll"
  /\ d \in drop
  /\ drop' = drop \ {d}
  /\ UNCHANGED <<daemon, armed, ports, allow, local>>
  /\ Daemon

\* A commit that fails changes nothing.
vg_ctrl_arm ==
  /\ pc = "poll"
  /\ ~armed
  /\ Commit(TRUE)
  /\ UNCHANGED <<daemon, allow, local, drop>>
  /\ Daemon

\* Flushes the drops and then commits, which may fail.
vg_ctrl_disarm ==
  /\ pc = "poll"
  /\ pc' = "flush_drop"
  /\ UNCHANGED <<cfg, live, failed, maps>>
  /\ Daemon

FlushDrop ==
  /\ pc = "flush_drop"
  /\ IF drop # {}
     THEN /\ \E d \in drop : drop' = drop \ {d}
          /\ UNCHANGED <<pc, armed, ports>>
     ELSE /\ pc' = "poll"
          /\ Commit(FALSE) \/ UNCHANGED <<armed, ports>>
          /\ UNCHANGED drop
  /\ UNCHANGED <<cfg, live, failed, allow, local>>
  /\ Daemon

\* vg_ctrl_reload, once the file has been read.
vg_ctrl_reload(c) ==
  /\ pc = "poll"
  /\ pc' = "prune"
  /\ cfg' = c
  /\ live' = live \cup {c}
  /\ UNCHANGED <<failed, maps>>
  /\ Daemon

\* Mutant of ToPrune: no drop is lifted.
PrunesNothing == {}

ToPrune == {p \in drop : vg_cidr_is_protected(cfg, p)}

vg_ctrl_prune_protected ==
  /\ pc = "prune"
  /\ \E p \in ToPrune : drop' = drop \ {p}
  /\ UNCHANGED <<daemon, armed, ports, allow, local>>
  /\ Daemon

vg_cfg_commit(ok) ==
  /\ pc = "prune"
  /\ ToPrune = {}
  /\ pc' = IF ok THEN "flush_allow" ELSE "poll"
  /\ IF ok THEN Commit(armed) ELSE UNCHANGED <<armed, ports>>
  /\ failed' = (failed \/ ~ok)
  /\ UNCHANGED <<cfg, live, allow, local, drop>>
  /\ Daemon

\* vg_populate_allow: flush, then add the new entries one by one.
FlushAllow ==
  /\ pc = "flush_allow"
  /\ IF allow # {}
     THEN /\ \E p \in allow : allow' = allow \ {p}
          /\ UNCHANGED pc
     ELSE /\ pc' = "add_allow"
          /\ UNCHANGED allow
  /\ UNCHANGED <<cfg, live, failed, armed, ports, local, drop>>
  /\ Daemon

AddAllow ==
  /\ pc = "add_allow"
  /\ IF cfg.allow \ allow # {}
     THEN /\ \E p \in cfg.allow \ allow : allow' = allow \cup {p}
          /\ UNCHANGED pc
     ELSE /\ pc' = "flush_local"
          /\ UNCHANGED allow
  /\ UNCHANGED <<cfg, live, failed, armed, ports, local, drop>>
  /\ Daemon

\* Mutant of FlushLocal: the old entries are left for AddLocal to add to.
KeepLocal ==
  /\ pc = "flush_local"
  /\ pc' = "add_local"
  /\ UNCHANGED <<cfg, live, failed, maps>>
  /\ Daemon

\* vg_populate_local.
FlushLocal ==
  /\ pc = "flush_local"
  /\ IF local # {}
     THEN /\ \E p \in local : local' = local \ {p}
          /\ UNCHANGED pc
     ELSE /\ pc' = "add_local"
          /\ UNCHANGED local
  /\ UNCHANGED <<cfg, live, failed, armed, ports, allow, drop>>
  /\ Daemon

\* The last entry completes the reload.
AddLocal ==
  /\ pc = "add_local"
  /\ IF cfg.local \ local # {}
     THEN /\ \E p \in cfg.local \ local : local' = local \cup {p}
          /\ UNCHANGED <<pc, live, failed>>
     ELSE /\ pc' = "poll"
          /\ live' = {cfg}
          /\ failed' = FALSE
          /\ UNCHANGED local
  /\ UNCHANGED <<cfg, armed, ports, allow, drop>>
  /\ Daemon
----------------------------------------------------------------------------
(***************************************************************************)
(* voidgate_xdp.                                                           *)
(***************************************************************************)

\* Idle passes everything, and so does what needs no map.
Arrive(p) ==
  /\ stage = 0
  /\ pkt' = p
  /\ seen' = live
  /\ IF ~armed \/ p.kind = "link"
     THEN stage' = 0 /\ verdict' = "pass"
     ELSE stage' = 1 /\ verdict' = "none"
  /\ UNCHANGED <<daemon, maps>>

v4_tcp_allowed ==
  /\ ports
  /\ \/ pkt.kind = "tcp_in" /\ in_lpm(local, pkt.dst)
     \/ pkt.kind = "tcp_out" /\ in_lpm(local, pkt.src)

v4_dhcp_allowed == pkt.kind = "dhcp" /\ in_lpm(local, pkt.dst)

\* The lookups that exempt a packet, in their order.
Exempts ==
  [i \in 1 .. 4 |->
     CASE i = 1 -> in_lpm(allow, pkt.src)
       [] i = 2 -> in_lpm(allow, pkt.dst)
       [] i = 3 -> v4_tcp_allowed
       [] i = 4 -> v4_dhcp_allowed]

\* The two lookups that drop it, after all of those.
Condemns == [i \in 5 .. 6 |-> in_lpm(drop, IF i = 5 THEN pkt.src ELSE pkt.dst)]

ExemptLookup ==
  /\ stage \in 1 .. 4
  /\ IF Exempts[stage]
     THEN stage' = 0 /\ verdict' = "pass"
     ELSE stage' = stage + 1 /\ UNCHANGED verdict
  /\ UNCHANGED <<daemon, maps, pkt, seen>>

\* Mutant of DropLookup: no verdict after the last lookup.
LookupRunsOn ==
  /\ stage \in 5 .. 6
  /\ IF Condemns[stage]
     THEN stage' = 0 /\ verdict' = "drop"
     ELSE stage' = stage + 1 /\ UNCHANGED verdict
  /\ UNCHANGED <<daemon, maps, pkt, seen>>

DropLookup ==
  /\ stage \in 5 .. 6
  /\ \/ /\ Condemns[stage]
        /\ stage' = 0
        /\ verdict' = "drop"
     \/ /\ ~Condemns[stage]
        /\ stage' = IF stage = 5 THEN 6 ELSE 0
        /\ verdict' = IF stage = 5 THEN "none" ELSE "pass"
  /\ UNCHANGED <<daemon, maps, pkt, seen>>
----------------------------------------------------------------------------
\* The daemon fills the maps before it attaches the program.
Init ==
  /\ cfg \in Configs
  /\ pc = "poll"
  /\ armed = FALSE
  /\ ports = cfg.ports
  /\ allow = cfg.allow
  /\ local = cfg.local
  /\ drop = {}
  /\ stage = 0
  /\ pkt \in Packets
  /\ verdict = "none"
  /\ live = {cfg}
  /\ seen = {cfg}
  /\ failed = FALSE

Serve ==
  \/ \E p \in Drops : drop_add(p) \/ drop_remove(p)
  \/ vg_ctrl_arm
  \/ vg_ctrl_disarm
  \/ FlushDrop
  \/ \E c \in Configs : vg_ctrl_reload(c)
  \/ vg_ctrl_prune_protected
  \/ \E ok \in BOOLEAN : vg_cfg_commit(ok)
  \/ FlushAllow
  \/ AddAllow
  \/ FlushLocal
  \/ AddLocal

voidgate_xdp ==
  \/ \E p \in Packets : Arrive(p)
  \/ ExemptLookup
  \/ DropLookup

Next == Serve \/ voidgate_xdp

Spec == Init /\ [][Next]_vars
----------------------------------------------------------------------------
(***************************************************************************)
(* Properties.                                                             *)
(***************************************************************************)

\* The shape of the state; a packet in flight is at one of its six lookups.
TypeOK ==
  /\ cfg \in Configs
  /\ pc \in {"poll", "flush_drop", "prune", "flush_allow", "add_allow",
             "flush_local", "add_local"}
  /\ armed \in BOOLEAN
  /\ ports \in BOOLEAN
  /\ allow \subseteq SUBSET Addrs
  /\ local \subseteq SUBSET Addrs
  /\ drop \subseteq Drops
  /\ stage \in 0 .. 6
  /\ pkt \in Packets
  /\ verdict \in {"none", "pass", "drop"}
  /\ live \subseteq Configs
  /\ seen \subseteq Configs
  /\ failed \in BOOLEAN

\* Never drop what the daemon protects: a packet whose two addresses were
\* each local or allow-listed in every configuration of its time in flight
\* passes, also through the moments in which a reload has emptied the allow
\* and local maps.  It is the order of vg_ctrl_reload, drops lifted before
\* the maps are replaced, and the refusal in drop_add that ensure it.
Shielded(a) == \A c \in seen : \E q \in c.local \cup c.allow : a \in q

ProtectedTrafficPasses ==
  verdict = "drop" => ~(Shielded(pkt.src) /\ Shielded(pkt.dst))

\* "Before the new local map goes live": no drop overlaps an entry of the
\* local or allow map, at any step of a reload, as long as no reload has
\* left the daemon's configuration ahead of the maps.
MapsAreDisjoint ==
  ~failed => \A d \in drop, q \in local \cup allow : ~vg_cidr_covers_or_overlaps(d, q)

\* A reload that completes leaves the kernel with its configuration and with
\* nothing of the ones before it, whatever reload failed in between.
ReloadIsWhole ==
  (pc = "poll" /\ ~failed) => /\ allow = cfg.allow
                              /\ local = cfg.local
                              /\ ports = cfg.ports
                              /\ live = {cfg}

\* AGENT.md, invariant 4: TCP to an allow_ports port of a local address is
\* never dropped.  Every configuration of the packet's time in flight has the
\* port and the address.
ServicePortPasses ==
  (verdict = "drop" /\ pkt.kind = "tcp_in")
     => ~ \A c \in seen : c.ports /\ in_lpm(c.local, pkt.dst)
=============================================================================
