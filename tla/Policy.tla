------------------------------- MODULE Policy -------------------------------
(***************************************************************************)
(* The control plane of voidgate (src/policy.c): the IDLE/ACTIVE state     *)
(* machine, the drop list with its record pool, and the drop maps and the  *)
(* armed flag in the kernel that mirror them.                              *)
(*                                                                         *)
(* The daemon is one thread.  A control command is one action.  A tick is  *)
(* a chain of actions ordered by pc, because each of its phases reads the  *)
(* wall clock for itself; no command runs until the tick is back at        *)
(* "poll".                                                                 *)
(*                                                                         *)
(* A CIDR prefix is the set of the addresses it covers: containment is     *)
(* \subseteq, and two prefixes overlap when they share an address.         *)
(***************************************************************************)
EXTENDS Integers, FiniteSets

CONSTANTS
  V4, V6,       \* the IPv4 and the IPv6 prefixes a drop can name
  Hosts,        \* those of one address: the remotes the policy walks
  NetOf,        \* the /24 or /64 around a host
  DropMapSize,  \* drop_map_size: entries of each of drop_v4 and drop_v6
  U32,          \* 2^32: what an unsigned of the daemon wraps at
  Configs,      \* what a (re)load may read from the configuration file
  Ttls,         \* seconds a timed drop may ask for
  Horizon,      \* bound: the last second of the wall clock
  Faults,       \* the kinds of kernel call that may fail
  MaxFaults     \* bound: how many calls fail in a behaviour

Prefix == V4 \cup V6

FaultKinds == {"update", "delete", "flush", "commit", "metrics"}

Reasons == {"MANUAL", "POLICY", "AGGREGATE", "TIMED"}

ASSUME PrefixAssumption ==
  /\ IsFiniteSet(V4)
  /\ IsFiniteSet(V6)
  /\ V4 \cap V6 = {}
  /\ {} \notin Prefix
  /\ Hosts \subseteq Prefix
  /\ NetOf \in [Hosts -> Prefix]
  /\ \A h \in Hosts : h \subseteq NetOf[h]

ASSUME BoundAssumption ==
  /\ U32 \in Nat
  /\ DropMapSize \in 1 .. U32 - 1
  /\ Ttls \subseteq Nat \ {0}
  /\ Horizon \in Nat \ {0}
  /\ Faults \subseteq FaultKinds
  /\ MaxFaults \in Nat

ASSUME ConfigAssumption ==
  /\ Configs # {}
  /\ \A c \in Configs :
       /\ c.ban_time \in Nat
       /\ c.clear_seconds \in Nat
       /\ c.aggregate_k \in Nat

VARIABLES
  state,        \* "IDLE" or "ACTIVE"
  quiet_since,  \* when the traffic fell below the wake thresholds, 0 if not
  drops,        \* the record of each prefix, NoRec when it is not listed
  drop_count,   \* length of the list drop_all
  drop_used,    \* pool records ever handed out
  drop_free,    \* length of the list of lifted records
  cfg,          \* the configuration in force
  kdrops,       \* kernel: the keys of drop_v4 and drop_v6
  karmed,       \* kernel: the armed flag XDP reads
  now,          \* wall clock, time(NULL)
  pc,           \* where the daemon is in its loop
  over,         \* remotes over threshold the walk has still to visit
  net,          \* the prefix maybe_aggregate looks at, {} outside it
  faults        \* kernel calls that may still fail

pool == <<drop_count, drop_used, drop_free>>
kernel == <<kdrops, karmed>>
walk == <<pc, over, net>>
vars == <<state, quiet_since, drops, pool, cfg, kernel, now, walk, faults>>
----------------------------------------------------------------------------
NoRec == [reason |-> "NONE", inserted |-> 0, expires |-> 0]

Listed == {p \in Prefix : drops[p] # NoRec}

\* Mutant of PoolCap: a pool for one of the two maps.
PoolCapOfOneMap == DropMapSize

\* drop_pool_cap: a record for each entry of the two maps, in 32 bits.  It wraps
\* from a drop_map_size of 2^31 on, which the configuration accepts.
PoolCap == (2 * DropMapSize) % U32

Family(p) == IF p \in V4 THEN V4 ELSE V6

\* vg_cidr_is_protected: p overlaps a local or an allow network.
Protected(c, p) == \E n \in c.nets : n \cap p # {}

\* Kernel calls of these kinds fail in this step, which uses up one of the
\* failures; with none, none is used.
Failing(kinds) ==
  \/ kinds = {} /\ UNCHANGED faults
  \/ /\ kinds # {}
     /\ kinds \subseteq Faults
     /\ faults > 0
     /\ faults' = faults - 1

\* The kind, when the call succeeded or not.
Unless(ok, kind) == IF ok THEN {} ELSE {kind}

\* An LPM update of a new key needs room in the map of its family.
HasRoom(p) ==
  \/ p \in kdrops
  \/ Cardinality(kdrops \cap Family(p)) < DropMapSize

UpdateFails(p) ==
  \/ Failing({"update"})
  \/ ~HasRoom(p) /\ UNCHANGED faults
----------------------------------------------------------------------------
(***************************************************************************)
(* Arming and disarming.                                                   *)
(***************************************************************************)

\* The kernel takes the configuration: the gate is armed.
Armed ==
  /\ state' = "ACTIVE"
  /\ karmed' = TRUE
  /\ quiet_since' = IF state = "ACTIVE" THEN quiet_since ELSE 0

\* The commit fails after the snapshots and quiet_since were cleared.
ArmFails ==
  /\ state # "ACTIVE"
  /\ Failing({"commit"})
  /\ quiet_since' = 0
  /\ UNCHANGED <<state, karmed>>

drops_reset ==
  /\ drops' = [p \in Prefix |-> NoRec]
  /\ drop_count' = 0
  /\ drop_used' = 0
  /\ drop_free' = 0

\* Mutant of vg_ctrl_disarm: the maps are flushed and the list is kept.
DisarmKeepsList(quiet) ==
  /\ kdrops' = {}
  /\ state' = "IDLE"
  /\ karmed' = FALSE
  /\ quiet_since' = 0
  /\ UNCHANGED <<drops, pool, faults>>

\* Mutant of vg_ctrl_disarm: IDLE whether or not the commit succeeded.
DisarmIgnoresCommit(quiet) ==
  /\ drops_reset
  /\ kdrops' = {}
  /\ state' = "IDLE"
  /\ quiet_since' = 0
  /\ \E committed \in BOOLEAN :
       /\ Failing(Unless(committed, "commit"))
       /\ karmed' = (karmed /\ ~committed)

\* vg_ctrl_disarm.  flush_lpm looks at no delete's result, so entries may
\* stay in the maps of a list that is emptied; and when the commit fails the
\* maps and the list are gone, and the gate stays armed.
vg_ctrl_disarm(quiet) ==
  /\ drops_reset
  /\ \E flushed, committed \in BOOLEAN :
       /\ Failing(Unless(flushed, "flush") \cup Unless(committed, "commit"))
       /\ kdrops' \in IF flushed THEN {{}} ELSE SUBSET kdrops
       /\ IF committed
          THEN state' = "IDLE" /\ karmed' = FALSE /\ quiet_since' = 0
          ELSE quiet_since' = quiet /\ UNCHANGED <<state, karmed>>
----------------------------------------------------------------------------
(***************************************************************************)
(* drop_add and drop_remove.                                               *)
(***************************************************************************)

\* drop_alloc: a lifted record first, else the next of the pool.
PoolHasRecord == drop_free > 0 \/ drop_used < PoolCap

\* Mutant of TakeRecord: the free list is not tested for being empty.
TakeFreeRecord ==
  drop_free' = drop_free - 1 /\ UNCHANGED drop_used

TakeRecord ==
  IF drop_free > 0
  THEN drop_free' = drop_free - 1 /\ UNCHANGED drop_used
  ELSE drop_used' = drop_used + 1 /\ UNCHANGED drop_free

\* Mutant of TakeAndReturnRecord: the record is not put back.
TakeAndLoseRecord == TakeRecord

\* The record goes back to the free list: a map update failed.
TakeAndReturnRecord ==
  IF drop_free > 0
  THEN UNCHANGED <<drop_used, drop_free>>
  ELSE drop_used' = drop_used + 1 /\ drop_free' = 1

SetRecord(p, reason, expires) ==
  drops' = [drops EXCEPT ![p] =
              [reason |-> reason, inserted |-> now, expires |-> expires]]

\* p is not listed yet.
DropNew(p, reason, expires, ok) ==
  \/ /\ ~PoolHasRecord
     /\ ~ok
     /\ UNCHANGED <<drops, pool, kdrops, faults>>
  \/ /\ PoolHasRecord
     /\ ~ok
     /\ UpdateFails(p)
     /\ TakeAndReturnRecord
     /\ UNCHANGED <<drops, drop_count, kdrops>>
  \/ /\ PoolHasRecord
     /\ ok
     /\ HasRoom(p)
     /\ TakeRecord
     /\ kdrops' = kdrops \cup {p}
     /\ SetRecord(p, reason, expires)
     /\ drop_count' = drop_count + 1
     /\ UNCHANGED faults

\* When a listed drop of an automatic reason ends; what a timed one must
\* not undercut.
EndOf(r) == IF r.reason = "TIMED" THEN r.expires ELSE r.inserted + cfg.ban_time

\* Mutant of Later: a new timed drop replaces the end of the old one.
Replaced(a, b) == a

Later(a, b) == IF a < b THEN b ELSE a

\* The record's expires is set before the map is asked, so a failed update
\* leaves it behind in a record that stays POLICY or AGGREGATE.
TimedAgain(p, expires, ok) ==
  /\ drops[p].reason # "MANUAL"
  /\ \/ /\ ok
        /\ HasRoom(p)
        /\ kdrops' = kdrops \cup {p}
        /\ SetRecord(p, "TIMED", Later(expires, EndOf(drops[p])))
        /\ UNCHANGED faults
     \/ /\ ~ok
        /\ UpdateFails(p)
        /\ drops' = [drops EXCEPT ![p].expires = EndOf(drops[p])]
        /\ UNCHANGED kdrops

OtherAgain(p, reason, ok) ==
  \/ /\ ok
     /\ HasRoom(p)
     /\ kdrops' = kdrops \cup {p}
     /\ IF reason = "MANUAL" THEN SetRecord(p, reason, 0) ELSE UNCHANGED drops
     /\ UNCHANGED faults
  \/ /\ ~ok
     /\ UpdateFails(p)
     /\ UNCHANGED <<drops, kdrops>>

\* p is listed: manual wins over everything, timed only ever extends.
DropAgain(p, reason, expires, ok) ==
  /\ \/ /\ reason = "TIMED"
        /\ drops[p].reason = "MANUAL"
        /\ ok
        /\ UNCHANGED <<drops, kdrops, faults>>
     \/ reason = "TIMED" /\ TimedAgain(p, expires, ok)
     \/ reason # "TIMED" /\ OtherAgain(p, reason, ok)
  /\ UNCHANGED pool

\* ok is what drop_add returns: TRUE for 0, FALSE for -1.
drop_add(p, reason, expires, ok) ==
  \/ /\ Protected(cfg, p)
     /\ ~ok
     /\ UNCHANGED <<state, quiet_since, karmed, drops, pool, kdrops, faults>>
  \/ /\ ~Protected(cfg, p)
     /\ ~ok
     /\ ArmFails
     /\ UNCHANGED <<drops, pool, kdrops>>
  \/ /\ ~Protected(cfg, p)
     /\ Armed
     /\ \/ p \notin Listed /\ DropNew(p, reason, expires, ok)
        \/ p \in Listed /\ DropAgain(p, reason, expires, ok)

\* Mutant of drop_remove: the record goes also when the kernel delete fails.
RemoveForgets(ps, kept) ==
  /\ kdrops' = kdrops \ (ps \ kept)
  /\ drops' = [p \in Prefix |-> IF p \in ps THEN NoRec ELSE drops[p]]
  /\ drop_count' = drop_count - Cardinality(ps)
  /\ drop_free' = drop_free + Cardinality(ps)
  /\ UNCHANGED drop_used

\* Mutant of drop_remove: the kernel entry is not deleted.
RemoveKeepsKey(ps, kept) ==
  /\ drops' = [p \in Prefix |-> IF p \in ps \ kept THEN NoRec ELSE drops[p]]
  /\ drop_count' = drop_count - Cardinality(ps \ kept)
  /\ drop_free' = drop_free + Cardinality(ps \ kept)
  /\ UNCHANGED <<kdrops, drop_used>>

\* drop_remove on each prefix of ps: its kernel entry first, then its
\* record, which goes to the free list.  A prefix of kept, whose kernel
\* delete fails, stays as it is.
drop_remove(ps, kept) ==
  LET gone == ps \ kept
  IN  /\ kdrops' = kdrops \ gone
      /\ drops' = [p \in Prefix |-> IF p \in gone THEN NoRec ELSE drops[p]]
      /\ drop_count' = drop_count - Cardinality(gone)
      /\ drop_free' = drop_free + Cardinality(gone)
      /\ UNCHANGED drop_used
----------------------------------------------------------------------------
(***************************************************************************)
(* Control commands (src/ctl_server.c), run between ticks.                 *)
(***************************************************************************)

ctl_drop(p) ==
  /\ pc = "poll"
  /\ \E ok \in BOOLEAN : drop_add(p, "MANUAL", 0, ok)
  /\ UNCHANGED <<cfg, now, walk>>

ctl_drop_ttl(p, ttl) ==
  /\ pc = "poll"
  /\ \E ok \in BOOLEAN : drop_add(p, "TIMED", now + ttl, ok)
  /\ UNCHANGED <<cfg, now, walk>>

\* An unlisted prefix still has its stray kernel entry cleared.
ctl_undrop(p) ==
  /\ pc = "poll"
  /\ IF p \in Listed
     THEN \E kept \in SUBSET {p} :
            drop_remove({p}, kept) /\ Failing(Unless(kept = {}, "delete"))
     ELSE /\ \E ok \in BOOLEAN :
               /\ kdrops' = IF ok THEN kdrops \ {p} ELSE kdrops
               /\ Failing(Unless(ok, "delete"))
          /\ UNCHANGED <<drops, pool>>
  /\ UNCHANGED <<state, quiet_since, karmed, cfg, now, walk>>

ctl_arm ==
  /\ pc = "poll"
  /\ \/ Armed /\ UNCHANGED faults
     \/ ArmFails
  /\ UNCHANGED <<drops, pool, kdrops, cfg, now, walk>>

ctl_disarm ==
  /\ pc = "poll"
  /\ vg_ctrl_disarm(quiet_since)
  /\ UNCHANGED <<cfg, now, walk>>

\* Mutant of ctl_reload: no drop is lifted.
ReloadKeepsDrops(c) ==
  /\ pc = "poll"
  /\ cfg' = c
  /\ UNCHANGED <<state, quiet_since, drops, pool, kernel, now, walk, faults>>

\* vg_ctrl_reload once the file was read: the new configuration is in force
\* before the drops it protects are lifted, and the result of that pass is
\* not looked at.  The commit that follows rewrites the armed flag.
ctl_reload(c) ==
  /\ pc = "poll"
  /\ cfg' = c
  /\ LET ps == {p \in Listed : Protected(c, p)}
     IN  \E kept \in SUBSET ps, committed \in BOOLEAN :
           /\ drop_remove(ps, kept)
           /\ karmed' = IF committed THEN state = "ACTIVE" ELSE karmed
           /\ Failing(Unless(kept = {}, "delete") \cup Unless(committed, "commit"))
  /\ UNCHANGED <<state, quiet_since, now, walk>>
----------------------------------------------------------------------------
(***************************************************************************)
(* The tick (vg_ctrl_tick).                                                *)
(***************************************************************************)

\* The counters could not be read: the tick does nothing else.
TickFails ==
  /\ pc = "poll"
  /\ Failing({"metrics"})
  /\ UNCHANGED <<state, quiet_since, drops, pool, cfg, kernel, now, walk>>

\* IDLE, and the traffic is above no wake threshold.
TickIdle ==
  /\ pc = "poll"
  /\ state = "IDLE"
  /\ UNCHANGED vars

\* IDLE, and the traffic is above a wake threshold.
TickWake ==
  /\ pc = "poll"
  /\ state = "IDLE"
  /\ \/ Armed /\ UNCHANGED faults
     \/ ArmFails
  /\ UNCHANGED <<drops, pool, kdrops, cfg, now, walk>>

\* ACTIVE: walk_remotes will find the hosts of hs over threshold.
TickWalk(hs) ==
  /\ pc = "poll"
  /\ state = "ACTIVE"
  /\ pc' = "walk"
  /\ over' = hs
  /\ UNCHANGED <<state, quiet_since, drops, pool, cfg, kernel, now, net, faults>>

\* policy_one_remote above the threshold; only a drop that took is followed
\* by maybe_aggregate.
policy_one_remote(h) ==
  /\ pc = "walk"
  /\ h \in over
  /\ over' = over \ {h}
  /\ \E ok \in BOOLEAN :
       /\ drop_add(h, "POLICY", 0, ok)
       /\ pc' = IF ok THEN "aggregate" ELSE "walk"
       /\ net' = IF ok THEN NetOf[h] ELSE {}
  /\ UNCHANGED <<cfg, now>>

\* Timed drops come from outside and do not count.
InNet == {p \in Listed : drops[p].reason # "TIMED" /\ p \subseteq net}

maybe_aggregate ==
  /\ pc = "aggregate"
  /\ IF Cardinality(InNet) >= cfg.aggregate_k
     THEN \E ok \in BOOLEAN : drop_add(net, "AGGREGATE", 0, ok)
     ELSE UNCHANGED <<state, quiet_since, karmed, drops, pool, kdrops, faults>>
  /\ pc' = "walk"
  /\ net' = {}
  /\ UNCHANGED <<cfg, now, over>>

\* A manual drop is never due.
Due(p) ==
  /\ drops[p].reason # "MANUAL"
  /\ IF drops[p].reason = "TIMED"
     THEN now >= drops[p].expires
     ELSE now - drops[p].inserted >= cfg.ban_time

expire_drops ==
  /\ pc = "walk"
  /\ over = {}
  /\ LET ps == {p \in Listed : Due(p)}
     IN  \E kept \in SUBSET ps :
           drop_remove(ps, kept) /\ Failing(Unless(kept = {}, "delete"))
  /\ pc' = "quiet"
  /\ UNCHANGED <<state, quiet_since, karmed, cfg, now, over, net>>

\* Mutant of TickLoud: quiet_since is not reset.
LoudKeepsQuiet ==
  /\ pc = "quiet"
  /\ pc' = "poll"
  /\ UNCHANGED <<state, quiet_since, drops, pool, cfg, kernel, now, over, net, faults>>

\* The end of the tick, when the traffic is not below both wake thresholds.
TickLoud ==
  /\ pc = "quiet"
  /\ pc' = "poll"
  /\ quiet_since' = 0
  /\ UNCHANGED <<state, drops, pool, cfg, kernel, now, over, net, faults>>

\* Mutant of TickQuiet: every quiet tick restarts the wait.
QuietRestarts ==
  /\ pc = "quiet"
  /\ pc' = "poll"
  /\ quiet_since' = now
  /\ UNCHANGED <<state, drops, pool, cfg, kernel, now, over, net, faults>>

\* The end of the tick, when it is.
TickQuiet ==
  /\ pc = "quiet"
  /\ pc' = "poll"
  /\ LET since == IF quiet_since = 0 THEN now ELSE quiet_since
     IN  IF drop_count = 0 /\ now - since >= cfg.clear_seconds
         THEN vg_ctrl_disarm(since)
         ELSE /\ quiet_since' = since
              /\ UNCHANGED <<state, drops, pool, kernel, faults>>
  /\ UNCHANGED <<cfg, now, over, net>>

Clock ==
  /\ now < Horizon
  /\ now' = now + 1
  /\ UNCHANGED <<state, quiet_since, drops, pool, cfg, kernel, walk, faults>>
----------------------------------------------------------------------------
\* vg_ctrl_init on freshly loaded maps.
Init ==
  /\ state = "IDLE"
  /\ quiet_since = 0
  /\ drops = [p \in Prefix |-> NoRec]
  /\ drop_count = 0
  /\ drop_used = 0
  /\ drop_free = 0
  /\ cfg \in Configs
  /\ kdrops = {}
  /\ karmed = FALSE
  /\ now = 1
  /\ pc = "poll"
  /\ over = {}
  /\ net = {}
  /\ faults = MaxFaults

Command ==
  \/ \E p \in Prefix : ctl_drop(p)
  \/ \E p \in Prefix, ttl \in Ttls : ctl_drop_ttl(p, ttl)
  \/ \E p \in Prefix : ctl_undrop(p)
  \/ ctl_arm
  \/ ctl_disarm
  \/ \E c \in Configs : ctl_reload(c)

Tick ==
  \/ TickFails
  \/ TickIdle
  \/ TickWake
  \/ \E hs \in SUBSET Hosts : TickWalk(hs)
  \/ \E h \in Hosts : policy_one_remote(h)
  \/ maybe_aggregate
  \/ expire_drops
  \/ TickLoud
  \/ TickQuiet

Next == Command \/ Tick \/ Clock

Spec == Init /\ [][Next]_vars
----------------------------------------------------------------------------
(***************************************************************************)
(* Properties.                                                             *)
(***************************************************************************)

Record ==
  [reason : Reasons \cup {"NONE"}, inserted : Nat, expires : Nat]

\* The type invariant of the variables of struct vg_ctrl and of the kernel.
TypeOK ==
  /\ state \in {"IDLE", "ACTIVE"}
  /\ quiet_since \in Nat
  /\ drops \in [Prefix -> Record]
  /\ \A p \in Listed : drops[p].reason \in Reasons /\ drops[p].inserted > 0
  /\ drop_count \in Nat
  /\ drop_used \in Nat
  /\ drop_free \in Nat
  /\ cfg \in Configs
  /\ kdrops \subseteq Prefix
  /\ karmed \in BOOLEAN
  /\ now \in Nat \ {0}
  /\ pc \in {"poll", "walk", "aggregate", "quiet"}
  /\ over \subseteq Hosts
  /\ net \in Prefix \cup {{}}
  /\ pc = "aggregate" => net \in Prefix
  /\ faults \in Nat

\* Whatever fails on the way, a drop the list shows is a drop XDP makes: the
\* gate is armed and the prefix is a key of a kernel map.  It is also what
\* lets the tick expire it, since expiry only runs while ACTIVE
\* (drop_add, vg_ctrl_arm, vg_ctrl_disarm).
DropsAreEnforced ==
  Listed # {} => state = "ACTIVE" /\ karmed /\ Listed \subseteq kdrops

\* The armed flag in the kernel is the daemon's state, also after a failed
\* arm, disarm or reload (vg_cfg_commit comes before each state change).
ArmedIffActive == karmed <=> state = "ACTIVE"

\* No pool record is lost or handed out twice, through failed map updates,
\* failed lifts and disarms: the records ever used are the listed and the
\* free ones, and drop_count counts the listed prefixes (drop_alloc,
\* drop_add, drop_remove, drops_reset).
PoolIsAccountedFor ==
  /\ drop_count = Cardinality(Listed)
  /\ drop_used = drop_count + drop_free
  /\ drop_used <= PoolCap

\* The comment on drop_alloc: it finds no record only when both drop maps
\* are full, so the pool never refuses a drop the kernel would take.  So it is
\* as long as twice drop_map_size fits 32 bits (vg_ctrl_init).
PoolOutlastsMaps ==
  ~PoolHasRecord => \A p \in Prefix : ~(p \notin kdrops /\ HasRoom(p))

\* When kernel deletes succeed, no listed drop overlaps a local or an allow
\* network, across reloads that change them (drop_add,
\* vg_ctrl_prune_protected).
NoProtectedDrop == \A p \in Listed : ~Protected(cfg, p)

\* When the flush of a disarm succeeds, the keys of the drop maps are exactly the
\* listed prefixes: no entry that nothing tracks (drop_remove).
KernelMirrorsList == kdrops = Listed

Strays == kdrops \ Listed

\* A failed kernel call leaves an entry that nothing tracks only in the
\* disarm command, whose flush looks at no result; expiry, undrop and reload
\* keep the record of an entry they could not delete.
OnlyDisarmOrphans == [][Strays' \subseteq Strays \/ ctl_disarm]_vars

\* The promise behind the record of a listed prefix.
BanOf(p) ==
  CASE drops[p] = NoRec -> [kind |-> "none", end |-> 0]
    [] drops[p].reason = "MANUAL" -> [kind |-> "manual", end |-> 0]
    [] drops[p].reason = "TIMED" -> [kind |-> "timed", end |-> drops[p].expires]
    [] OTHER -> [kind |-> "auto", end |-> drops[p].inserted + cfg.ban_time]

Contract == INSTANCE DropContract WITH
  ban <- [p \in Prefix |-> BanOf(p)],
  ticking <- pc # "poll",
  prot <- {p \in Prefix : Protected(cfg, p)}

\* The control plane keeps the contract of its drops: no merge of a manual,
\* a timed and an automatic drop shortens one, and the tick lifts nothing
\* early (drop_add, expire_drops, vg_ctrl_tick).
KeepsContract == Contract!CSpec
=============================================================================
