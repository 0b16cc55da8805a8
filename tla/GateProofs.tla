------------------------------ MODULE GateProofs ------------------------------
(***************************************************************************)
(* What a packet may meet while a reload replaces the maps, for every set  *)
(* of addresses, configurations, drops and packets.                        *)
(*                                                                         *)
(* The inductive invariant follows the reload: which parts of the kernel's *)
(* maps already are the new configuration's at each value of pc            *)
(* (MapsFollow), and that each drop was clear of some configuration that   *)
(* the packet in flight has seen (DropsAreClear).                          *)
(***************************************************************************)
EXTENDS Gate, TLAPS

\* The kernel's maps at each point of a reload.
MapsFollow ==
  /\ pc \in {"poll", "flush_drop"} /\ ~failed
       => allow = cfg.allow /\ local = cfg.local /\ ports = cfg.ports /\ live = {cfg}
  /\ pc \in {"flush_allow", "add_allow", "flush_local", "add_local"}
       => ports = cfg.ports
  /\ pc = "add_allow" => allow \subseteq cfg.allow
  /\ pc \in {"flush_local", "add_local"} => allow = cfg.allow
  /\ pc = "add_local" => local \subseteq cfg.local

\* A drop is clear of the daemon's configuration, or, while that is new and
\* the pruning pass is not over, of one before it.
DropsAreClear ==
  /\ cfg \in live
  /\ \A d \in drop : \E c \in live : ~vg_cidr_is_protected(c, d)
  /\ pc # "prune" => \A d \in drop : ~vg_cidr_is_protected(cfg, d)

\* The packet in flight has seen every configuration that is live.
PacketSees == stage # 0 => live \subseteq seen /\ verdict = "none"

IInv ==
  /\ TypeOK
  /\ MapsFollow
  /\ DropsAreClear
  /\ PacketSees
  /\ MapsAreDisjoint
  /\ ProtectedTrafficPasses

\* A daemon step may add to what the packet in flight has seen, no more.
LEMMA DaemonKeepsPacket ==
  ASSUME PacketSees, ProtectedTrafficPasses, Daemon
  PROVE  PacketSees' /\ ProtectedTrafficPasses'
  <1>1. CASE stage = 0
    BY <1>1 DEF Daemon, xdp, PacketSees, ProtectedTrafficPasses, Shielded
  <1>2. CASE stage # 0
    BY <1>2 DEF Daemon, xdp, PacketSees, ProtectedTrafficPasses
  <1> QED BY <1>1, <1>2

\* Deleting from the drop maps leaves them as clear as they were.
LEMMA FewerDrops ==
  ASSUME drop' \subseteq drop, UNCHANGED <<allow, local, cfg, live, failed>>,
         DropsAreClear, MapsAreDisjoint, pc = "prune" => pc' = "prune"
  PROVE  DropsAreClear' /\ MapsAreDisjoint'
  BY DEF DropsAreClear, MapsAreDisjoint, vg_cidr_is_protected,
         vg_cidr_covers_or_overlaps

\* A drop that is clear of a configuration overlaps none of its networks.
LEMMA ClearOfNets ==
  ASSUME NEW c, NEW d, ~vg_cidr_is_protected(c, d), NEW q \in c.local \cup c.allow
  PROVE  ~vg_cidr_covers_or_overlaps(d, q)
  BY DEF vg_cidr_is_protected

\* Every step of the daemon keeps the inductive invariant.
LEMMA ServeInv == IInv /\ Serve => IInv'
  <1> SUFFICES ASSUME IInv, Serve PROVE IInv'
    OBVIOUS
  <1> USE GateAssumption
  <1>0. TypeOK /\ MapsFollow /\ DropsAreClear /\ PacketSees
        /\ MapsAreDisjoint /\ ProtectedTrafficPasses
    BY DEF IInv
  <1>1. Daemon
    BY Zenon DEF Serve, drop_add, drop_remove, vg_ctrl_arm, vg_ctrl_disarm, FlushDrop,
           vg_ctrl_reload, vg_ctrl_prune_protected, vg_cfg_commit, FlushAllow,
           AddAllow, FlushLocal, AddLocal
  <1>2. PacketSees' /\ ProtectedTrafficPasses'
    BY <1>0, <1>1, DaemonKeepsPacket
  <1>3. ASSUME NEW live1, live' = live1, live1 \subseteq Configs
        PROVE  /\ stage' \in 0 .. 6 /\ pkt' \in Packets
               /\ verdict' \in {"none", "pass", "drop"}
               /\ live' \subseteq Configs /\ seen' \subseteq Configs
    BY <1>0, <1>1, <1>3 DEF Daemon, xdp, TypeOK
  <1>4. cfg.ports \in BOOLEAN /\ cfg.allow \subseteq SUBSET Addrs
        /\ cfg.local \subseteq SUBSET Addrs
    BY <1>0 DEF TypeOK, Config
  <1>5. SUFFICES TypeOK' /\ MapsFollow' /\ DropsAreClear' /\ MapsAreDisjoint'
    BY <1>2 DEF IInv
  <1>6. ASSUME NEW d \in Drops, drop_add(d)
        PROVE  TypeOK' /\ MapsFollow' /\ DropsAreClear' /\ MapsAreDisjoint'
    <2>1. TypeOK'
      BY <1>0, <1>3, <1>4, <1>6, Zenon DEF drop_add, daemon, Commit, TypeOK
    <2>2. MapsFollow'
      BY <1>0, <1>6 DEF drop_add, daemon, Commit, MapsFollow
    <2>3. DropsAreClear'
      BY <1>0, <1>6 DEF drop_add, daemon, DropsAreClear, vg_cidr_is_protected
    <2>4. MapsAreDisjoint'
      BY <1>0, <1>6, ClearOfNets
         DEF drop_add, daemon, MapsAreDisjoint, MapsFollow, vg_cidr_covers_or_overlaps
    <2> QED BY <2>1, <2>2, <2>3, <2>4
  <1>7. ASSUME NEW d \in Drops, drop_remove(d)
        PROVE  TypeOK' /\ MapsFollow' /\ DropsAreClear' /\ MapsAreDisjoint'
    <2>1. TypeOK'
      BY <1>0, <1>3, <1>7 DEF drop_remove, daemon, TypeOK
    <2>2. MapsFollow'
      BY <1>0, <1>7 DEF drop_remove, daemon, MapsFollow
    <2> QED BY <1>0, <1>7, <2>1, <2>2, FewerDrops DEF drop_remove, daemon
  <1>8. CASE vg_ctrl_arm
    <2>1. TypeOK'
      BY <1>0, <1>3, <1>4, <1>8 DEF vg_ctrl_arm, daemon, Commit, TypeOK
    <2>2. MapsFollow'
      BY <1>0, <1>8 DEF vg_ctrl_arm, daemon, Commit, MapsFollow
    <2> QED BY <1>0, <1>8, <2>1, <2>2, FewerDrops DEF vg_ctrl_arm, daemon
  <1>9. CASE vg_ctrl_disarm
    <2>1. TypeOK'
      BY <1>0, <1>3, <1>9 DEF vg_ctrl_disarm, maps, TypeOK
    <2>2. MapsFollow'
      BY <1>0, <1>9 DEF vg_ctrl_disarm, maps, MapsFollow
    <2> QED BY <1>0, <1>9, <2>1, <2>2, FewerDrops DEF vg_ctrl_disarm, maps
  <1>10. CASE FlushDrop
    <2>1. TypeOK'
      BY <1>0, <1>3, <1>4, <1>10, Zenon DEF FlushDrop, Commit, TypeOK
    <2>2. MapsFollow'
      BY <1>0, <1>10 DEF FlushDrop, Commit, MapsFollow
    <2>3. drop' \subseteq drop
      BY <1>10, Zenon DEF FlushDrop
    <2> QED BY <1>0, <1>10, <2>1, <2>2, <2>3, FewerDrops DEF FlushDrop
  <1>11. ASSUME NEW c \in Configs, vg_ctrl_reload(c)
         PROVE  TypeOK' /\ MapsFollow' /\ DropsAreClear' /\ MapsAreDisjoint'
    <2>1. TypeOK'
      BY <1>0, <1>3, <1>11 DEF vg_ctrl_reload, maps, TypeOK
    <2>2. MapsFollow'
      BY <1>11 DEF vg_ctrl_reload, MapsFollow
    <2>3. DropsAreClear'
      BY <1>0, <1>11 DEF vg_ctrl_reload, maps, DropsAreClear
    <2>4. MapsAreDisjoint'
      BY <1>0, <1>11 DEF vg_ctrl_reload, maps, MapsAreDisjoint
    <2> QED BY <2>1, <2>2, <2>3, <2>4
  <1>12. CASE vg_ctrl_prune_protected
    <2>1. TypeOK' /\ drop' \subseteq drop
      BY <1>0, <1>3, <1>12 DEF vg_ctrl_prune_protected, daemon, TypeOK
    <2>2. MapsFollow'
      BY <1>0, <1>12 DEF vg_ctrl_prune_protected, daemon, MapsFollow
    <2> QED BY <1>0, <1>12, <2>1, <2>2, FewerDrops
            DEF vg_ctrl_prune_protected, daemon
  <1>13. ASSUME NEW ok \in BOOLEAN, vg_cfg_commit(ok)
         PROVE  TypeOK' /\ MapsFollow' /\ DropsAreClear' /\ MapsAreDisjoint'
    <2>1. TypeOK'
      BY <1>0, <1>3, <1>4, <1>13 DEF vg_cfg_commit, Commit, TypeOK
    <2>2. MapsFollow'
      BY <1>13, Zenon DEF vg_cfg_commit, Commit, MapsFollow
    <2>3. DropsAreClear'
      BY <1>0, <1>13 DEF vg_cfg_commit, ToPrune, DropsAreClear
    <2>4. MapsAreDisjoint'
      BY <1>0, <1>13, Zenon DEF vg_cfg_commit, MapsAreDisjoint
    <2> QED BY <2>1, <2>2, <2>3, <2>4
  <1>14. CASE FlushAllow
    <2>1. TypeOK'
      BY <1>0, <1>3, <1>14 DEF FlushAllow, TypeOK
    <2>2. MapsFollow'
      BY <1>0, <1>14 DEF FlushAllow, MapsFollow
    <2>3. DropsAreClear'
      BY <1>0, <1>14 DEF FlushAllow, DropsAreClear
    <2>4. MapsAreDisjoint'
      BY <1>0, <1>14 DEF FlushAllow, MapsAreDisjoint
    <2> QED BY <2>1, <2>2, <2>3, <2>4
  <1>15. CASE AddAllow
    <2>1. TypeOK'
      BY <1>0, <1>3, <1>4, <1>15 DEF AddAllow, TypeOK
    <2>2. MapsFollow'
      <3>1. CASE cfg.allow \ allow # {}
        BY <1>0, <1>15, <3>1 DEF AddAllow, MapsFollow
      <3>2. CASE cfg.allow \ allow = {}
        <4>1. allow = cfg.allow
          BY <1>0, <1>15, <3>2, Zenon DEF AddAllow, MapsFollow
        <4> QED BY <1>0, <1>15, <3>2, <4>1 DEF AddAllow, MapsFollow
      <3> QED BY <3>1, <3>2
    <2>3. DropsAreClear'
      BY <1>0, <1>15 DEF AddAllow, DropsAreClear
    <2>4. MapsAreDisjoint'
      <3>1. allow' \cup local' \subseteq allow \cup local \cup cfg.allow
        BY <1>15 DEF AddAllow
      <3>2. \A d \in drop, q \in cfg.allow : ~vg_cidr_covers_or_overlaps(d, q)
        BY <1>0, <1>15, ClearOfNets DEF AddAllow, DropsAreClear
      <3> QED BY <1>0, <1>15, <3>1, <3>2 DEF AddAllow, MapsAreDisjoint
    <2> QED BY <2>1, <2>2, <2>3, <2>4
  <1>16. CASE FlushLocal
    <2>1. TypeOK'
      BY <1>0, <1>3, <1>16 DEF FlushLocal, TypeOK
    <2>2. MapsFollow'
      BY <1>0, <1>16 DEF FlushLocal, MapsFollow
    <2>3. DropsAreClear'
      BY <1>0, <1>16 DEF FlushLocal, DropsAreClear
    <2>4. MapsAreDisjoint'
      BY <1>0, <1>16 DEF FlushLocal, MapsAreDisjoint
    <2> QED BY <2>1, <2>2, <2>3, <2>4
  <1>17. CASE AddLocal
    <2>1. TypeOK'
      <3>1. live' \in {live, {cfg}} /\ failed' \in {failed, FALSE}
            /\ pc' \in {"add_local", "poll"}
        BY <1>17, Zenon DEF AddLocal
      <3>2. local' \subseteq local \cup cfg.local
        BY <1>17 DEF AddLocal
      <3>3. live' \subseteq Configs /\ failed' \in BOOLEAN /\ local' \subseteq SUBSET Addrs
        BY <1>0, <1>4, <3>1, <3>2, Zenon DEF TypeOK
      <3>4. UNCHANGED <<cfg, armed, ports, allow, drop>>
        BY <1>17 DEF AddLocal
      <3> QED BY <1>0, <1>3, <3>1, <3>3, <3>4 DEF TypeOK
    <2>2. MapsFollow'
      <3>1. CASE cfg.local \ local # {}
        BY <1>0, <1>17, <3>1 DEF AddLocal, MapsFollow
      <3>2. CASE cfg.local \ local = {}
        <4>1. local = cfg.local
          BY <1>0, <1>17, <3>2, Zenon DEF AddLocal, MapsFollow
        <4> QED BY <1>0, <1>17, <3>2, <4>1 DEF AddLocal, MapsFollow
      <3> QED BY <3>1, <3>2
    <2>3. DropsAreClear'
      <3>1. \A d \in drop : ~vg_cidr_is_protected(cfg, d)
        BY <1>0, <1>17 DEF AddLocal, DropsAreClear
      <3>2. CASE live' = live /\ pc' = pc
        BY <1>0, <1>17, <3>2 DEF AddLocal, DropsAreClear
      <3>3. CASE live' = {cfg}
        BY <1>17, <3>1, <3>3 DEF AddLocal, DropsAreClear
      <3> QED BY <1>17, <3>2, <3>3 DEF AddLocal
    <2>4. MapsAreDisjoint'
      <3>1. allow' \cup local' \subseteq allow \cup local \cup cfg.local
        BY <1>17 DEF AddLocal
      <3>2. \A d \in drop, q \in cfg.local \cup cfg.allow : ~vg_cidr_covers_or_overlaps(d, q)
        BY <1>0, <1>17, ClearOfNets DEF AddLocal, DropsAreClear
      <3>3. CASE UNCHANGED failed
        BY <1>0, <1>17, <3>1, <3>2, <3>3 DEF AddLocal, MapsAreDisjoint
      <3>4. CASE local \subseteq cfg.local /\ allow = cfg.allow /\ UNCHANGED local
        BY <1>17, <3>2, <3>4 DEF AddLocal, MapsAreDisjoint
      <3> QED BY <1>0, <1>17, <3>3, <3>4 DEF AddLocal, MapsFollow
    <2> QED BY <2>1, <2>2, <2>3, <2>4
  <1> QED BY <1>6, <1>7, <1>8, <1>9, <1>10, <1>11, <1>12, <1>13, <1>14, <1>15,
             <1>16, <1>17 DEF Serve

\* Every step of the program on a packet keeps it.
LEMMA PacketInv == IInv /\ voidgate_xdp => IInv'
  <1> SUFFICES ASSUME IInv, voidgate_xdp PROVE IInv'
    OBVIOUS
  <1>0. TypeOK /\ MapsFollow /\ DropsAreClear /\ PacketSees
        /\ MapsAreDisjoint /\ ProtectedTrafficPasses
    BY DEF IInv
  <1>1. UNCHANGED <<daemon, maps>>
    BY DEF voidgate_xdp, Arrive, ExemptLookup, DropLookup
  <1>2. MapsFollow' /\ DropsAreClear' /\ MapsAreDisjoint'
    BY <1>0, <1>1 DEF daemon, maps, MapsFollow, DropsAreClear, MapsAreDisjoint
  <1>3. ASSUME stage' \in 0 .. 6, pkt' \in Packets,
               verdict' \in {"none", "pass", "drop"}, seen' \subseteq Configs
        PROVE  TypeOK'
    BY <1>0, <1>1, <1>3 DEF daemon, maps, TypeOK
  <1>4. ASSUME NEW p \in Packets, Arrive(p) PROVE IInv'
    <2>1. TypeOK'
      BY <1>0, <1>3, <1>4 DEF Arrive, TypeOK
    <2>2. PacketSees' /\ ProtectedTrafficPasses'
      BY <1>4 DEF Arrive, daemon, PacketSees, ProtectedTrafficPasses
    <2> QED BY <1>2, <2>1, <2>2 DEF IInv
  <1>5. CASE ExemptLookup
    <2>1. TypeOK'
      BY <1>0, <1>3, <1>5 DEF ExemptLookup, TypeOK
    <2>2. PacketSees' /\ ProtectedTrafficPasses'
      BY <1>0, <1>5 DEF ExemptLookup, daemon, TypeOK, PacketSees, ProtectedTrafficPasses
    <2> QED BY <1>2, <2>1, <2>2 DEF IInv
  <1>6. CASE DropLookup
    <2>1. TypeOK'
      BY <1>0, <1>3, <1>6 DEF DropLookup, TypeOK
    <2>2. PacketSees'
      BY <1>0, <1>6 DEF DropLookup, daemon, TypeOK, PacketSees
    <2>3. ProtectedTrafficPasses'
      <3> SUFFICES ASSUME verdict' = "drop"
                   PROVE  ~(Shielded(pkt.src)' /\ Shielded(pkt.dst)')
        BY DEF ProtectedTrafficPasses
      <3>1. Condemns[stage] /\ stage \in {5, 6} /\ UNCHANGED <<pkt, seen>>
        BY <1>6 DEF DropLookup
      <3>2. PICK a \in {pkt.src, pkt.dst} : in_lpm(drop, a)
        BY <3>1 DEF Condemns
      <3>3. PICK d \in drop : a \in d
        BY <3>2 DEF in_lpm
      <3>4. PICK c \in live : ~vg_cidr_is_protected(c, d)
        BY <1>0, <3>3 DEF DropsAreClear
      <3>5. c \in seen
        BY <1>0, <3>1, <3>4 DEF PacketSees
      <3>6. ~ \E q \in c.local \cup c.allow : a \in q
        BY <3>3, <3>4 DEF vg_cidr_is_protected, vg_cidr_covers_or_overlaps
      <3>7. ~Shielded(a)
        BY <3>5, <3>6 DEF Shielded
      <3> QED BY <3>1, <3>2, <3>7 DEF Shielded
    <2> QED BY <1>2, <2>1, <2>2, <2>3 DEF IInv
  <1> QED BY <1>4, <1>5, <1>6 DEF voidgate_xdp

LEMMA InitInv == Init => IInv
  <1> SUFFICES ASSUME Init PROVE IInv
    OBVIOUS
  <1>1. cfg.ports \in BOOLEAN /\ cfg.allow \subseteq SUBSET Addrs
        /\ cfg.local \subseteq SUBSET Addrs
    BY GateAssumption DEF Init, Config
  <1>2. TypeOK
    <2>1. armed \in BOOLEAN /\ ports \in BOOLEAN /\ failed \in BOOLEAN
      BY <1>1, Zenon DEF Init
    <2>2. allow \subseteq SUBSET Addrs /\ local \subseteq SUBSET Addrs
      BY <1>1, Zenon DEF Init
    <2> QED BY <2>1, <2>2 DEF Init, TypeOK
  <1> QED BY <1>2 DEF Init, IInv, MapsFollow, DropsAreClear, PacketSees,
                      MapsAreDisjoint, ProtectedTrafficPasses

LEMMA NextInv == IInv /\ [Next]_vars => IInv'
  <1>1. IInv /\ UNCHANGED vars => IInv'
    <2> SUFFICES ASSUME IInv, UNCHANGED vars PROVE IInv'
      OBVIOUS
    <2>1. TypeOK' /\ MapsFollow'
      BY DEF vars, daemon, maps, xdp, IInv, TypeOK, MapsFollow
    <2>2. DropsAreClear' /\ PacketSees' /\ MapsAreDisjoint' /\ ProtectedTrafficPasses'
      BY DEF vars, daemon, maps, xdp, IInv, DropsAreClear, PacketSees,
             MapsAreDisjoint, ProtectedTrafficPasses, Shielded
    <2> QED BY <2>1, <2>2 DEF IInv
  <1> QED BY <1>1, ServeInv, PacketInv DEF Next

\* The invariant above holds in every reachable state.
THEOREM Invariance == Spec => []IInv
  BY InitInv, NextInv, PTL DEF Spec

\* A packet leaves its six lookups with a verdict, and the maps hold only
\* what configurations and drops put there (voidgate_xdp, maps.c).
THEOREM TypeCorrect == Spec => []TypeOK
  <1>1. IInv => TypeOK
    BY DEF IInv
  <1> QED BY <1>1, Invariance, PTL

\* A packet between addresses that every configuration of its time in
\* flight protects is never dropped, wherever a reload is with the maps
\* (vg_ctrl_reload lifts drops first, drop_add refuses protected prefixes).
THEOREM NeverDropsProtected == Spec => []ProtectedTrafficPasses
  <1>1. IInv => ProtectedTrafficPasses
    BY DEF IInv
  <1> QED BY <1>1, Invariance, PTL

\* No drop overlaps an entry of the local or allow maps, at any step of any
\* reload that follows none that failed (vg_ctrl_prune_protected).
THEOREM DropsStayApart == Spec => []MapsAreDisjoint
  <1>1. IInv => MapsAreDisjoint
    BY DEF IInv
  <1> QED BY <1>1, Invariance, PTL

\* A reload that completes leaves the kernel's maps equal to the daemon's
\* configuration (vg_cfg_commit, vg_populate_allow, vg_populate_local).
THEOREM ReloadCompletes == Spec => []ReloadIsWhole
  <1>1. IInv => ReloadIsWhole
    BY DEF IInv, MapsFollow, ReloadIsWhole
  <1> QED BY <1>1, Invariance, PTL
=============================================================================
