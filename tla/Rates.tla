-------------------------------- MODULE Rates --------------------------------
(***************************************************************************)
(* How a tick finds the remotes that are over threshold (src/policy.c:     *)
(* walk_remotes, policy_one_remote and the rate snapshots).                *)
(*                                                                         *)
(* XDP counts the packets of each source in an LRU map per family while    *)
(* armed, and runs between any two steps of the daemon.  The walk reads    *)
(* the counters one key at a time, at most remote_map_size keys a family,  *)
(* and compares each with the snapshot its last visit left.  A disarm      *)
(* flushes neither the maps nor the snapshots.                             *)
(*                                                                         *)
(* The byte counters follow the same rules with their own threshold and    *)
(* are not repeated here.                                                  *)
(***************************************************************************)
EXTENDS Integers, FiniteSets

CONSTANTS
  R4, R6,        \* the IPv4 and IPv6 sources
  RemoteMapSize, \* remote_map_size: entries of each LRU map, budget of a walk
  U32,           \* 2^32: what an unsigned of the daemon wraps at
  Threshold,     \* packets a second that make a remote an attacker
  Order,         \* place of each source in the kernel's iteration order
  NoKey,         \* no key: a walk starts from the first one
  GenMod,        \* generations before snap_gen wraps to 0 (2^32 in the code)
  MaxDt,         \* bound: seconds between two ticks
  MaxCount       \* bound: packets the counter of each source reaches

Remotes == R4 \cup R6

\* snap_cap: one snapshot for each entry of the two maps, in 32 bits.
SnapCap == (2 * RemoteMapSize) % U32

ASSUME RatesAssumption ==
  /\ R4 \cap R6 = {}
  /\ IsFiniteSet(R4) /\ IsFiniteSet(R6)
  /\ U32 \in Nat
  /\ RemoteMapSize \in 1 .. U32 - 1
  /\ Threshold \in Nat \ {0}
  /\ Order \in [Remotes -> Nat]
  /\ \A q, r \in Remotes : Order[q] = Order[r] => q = r
  /\ NoKey \notin Remotes
  /\ GenMod \in Nat \ {0, 1}
  /\ MaxDt \in Nat \ {0}
  /\ MaxCount \in [Remotes -> Nat]

VARIABLES
  state,      \* "IDLE" or "ACTIVE"
  keys,       \* kernel: the sources in the LRU maps
  in_pkts,    \* kernel: their counters, 0 for one that is not there
  snap_gen,   \* generation of the running walk
  snaps,      \* the snapshot of each source, NoSnap when there is none
  snap_free,  \* pool entries on the free list
  pc,         \* "poll", or in foreach_family: "next" key, "read" its counter
  dt,         \* seconds this tick covers
  family,     \* the sources of the map being walked, R4 and then R6
  cur,        \* the key last returned, NoKey before the first
  visited,    \* keys of the family visited so far
  c4,         \* whether the walk of the IPv4 map was complete
  over        \* sources this walk found over threshold

kernel == <<keys, in_pkts>>
pool == <<snap_gen, snaps, snap_free>>
cursor == <<family, cur, visited, c4>>
vars == <<state, kernel, pool, pc, dt, cursor, over>>

NoSnap == [gen |-> 0, in_pkts |-> 0]

Snapped == {r \in Remotes : snaps[r] # NoSnap}

snap_reset_pool ==
  /\ snaps' = [r \in Remotes |-> NoSnap]
  /\ snap_free' = SnapCap
----------------------------------------------------------------------------
(***************************************************************************)
(* XDP.                                                                    *)
(***************************************************************************)

FamilyOf(r) == IF r \in R4 THEN R4 ELSE R6

\* The keys that may have to make room for r: none, or one of its family.
Evictable(r) ==
  LET there == keys \cap FamilyOf(r)
  IN  IF r \in there \/ Cardinality(there) < RemoteMapSize
      THEN {{}}
      ELSE {{v} : v \in there}

\* A counted packet from r.  The counter of an evicted key is lost.
Packet(r) ==
  /\ state = "ACTIVE"
  /\ in_pkts[r] < MaxCount[r]
  /\ \E gone \in Evictable(r) :
       /\ keys' = (keys \ gone) \cup {r}
       /\ in_pkts' = [q \in Remotes |->
                        IF q = r THEN in_pkts[r] + 1
                        ELSE IF q \in gone THEN 0 ELSE in_pkts[q]]
  /\ UNCHANGED <<state, pool, pc, dt, cursor, over>>
----------------------------------------------------------------------------
(***************************************************************************)
(* The daemon.                                                             *)
(***************************************************************************)

\* Mutant of vg_ctrl_arm: the snapshots of the last attack are kept.
ArmKeepsSnapshots(ok) ==
  /\ pc = "poll"
  /\ state = "IDLE"
  /\ state' = IF ok THEN "ACTIVE" ELSE "IDLE"
  /\ UNCHANGED <<kernel, pool, pc, dt, cursor, over>>

\* The snapshots are cleared before the commit, which may fail.
vg_ctrl_arm(ok) ==
  /\ pc = "poll"
  /\ state = "IDLE"
  /\ snap_reset_pool
  /\ state' = IF ok THEN "ACTIVE" ELSE "IDLE"
  /\ UNCHANGED <<kernel, snap_gen, pc, dt, cursor, over>>

vg_ctrl_disarm ==
  /\ pc = "poll"
  /\ state = "ACTIVE"
  /\ state' = "IDLE"
  /\ UNCHANGED <<kernel, pool, pc, dt, cursor, over>>

StartFamily(f) ==
  /\ family' = f
  /\ cur' = NoKey
  /\ visited' = 0

\* Mutant of NextGeneration: the wrap of snap_gen keeps the old snapshots.
WrapKeepsSnapshots ==
  /\ snap_gen' = IF (snap_gen + 1) % GenMod = 0 THEN 1 ELSE snap_gen + 1
  /\ UNCHANGED <<snaps, snap_free>>

\* 0 marks a free entry, so the generation that wraps to it starts over.
NextGeneration ==
  IF (snap_gen + 1) % GenMod = 0
  THEN snap_reset_pool /\ snap_gen' = 1
  ELSE snap_gen' = snap_gen + 1 /\ UNCHANGED <<snaps, snap_free>>

\* A tick d seconds after the last one starts a walk.
WalkBegin(d) ==
  /\ pc = "poll"
  /\ state = "ACTIVE"
  /\ pc' = "next"
  /\ dt' = d
  /\ over' = {}
  /\ NextGeneration
  /\ StartFamily(R4)
  /\ UNCHANGED <<state, kernel, c4>>

\* The keys bpf_map_get_next_key still has to return; it starts again at the
\* first one when the key it is given has been evicted.
Ahead ==
  {r \in keys \cap family : cur \in keys => Order[r] > Order[cur]}

get_next_key ==
  /\ pc = "next"
  /\ visited < RemoteMapSize
  /\ \E r \in Ahead :
       /\ \A q \in Ahead : Order[r] =< Order[q]
       /\ cur' = r
  /\ visited' = visited + 1
  /\ pc' = "read"
  /\ UNCHANGED <<state, kernel, pool, dt, family, c4, over>>

Snapshot(r) == [gen |-> snap_gen, in_pkts |-> in_pkts[r]]

\* A counter below its snapshot was evicted and started again.
Delta(r) ==
  IF in_pkts[r] >= snaps[r].in_pkts THEN in_pkts[r] - snaps[r].in_pkts ELSE 0

\* Mutant of policy_one_remote: an empty pool is not noticed.
OneRemoteTakesAnyway(r) ==
  \/ /\ r \in Snapped
     /\ snaps' = [snaps EXCEPT ![r] = Snapshot(r)]
     /\ over' = IF Delta(r) >= Threshold * dt THEN over \cup {r} ELSE over
     /\ UNCHANGED snap_free
  \/ /\ r \notin Snapped
     /\ snaps' = [snaps EXCEPT ![r] = Snapshot(r)]
     /\ snap_free' = snap_free - 1
     /\ UNCHANGED over

\* First sight is a baseline, and none is taken when the pool is empty.
policy_one_remote(r) ==
  \/ /\ r \in Snapped
     /\ snaps' = [snaps EXCEPT ![r] = Snapshot(r)]
     /\ over' = IF Delta(r) >= Threshold * dt THEN over \cup {r} ELSE over
     /\ UNCHANGED snap_free
  \/ /\ r \notin Snapped
     /\ snap_free > 0
     /\ snaps' = [snaps EXCEPT ![r] = Snapshot(r)]
     /\ snap_free' = snap_free - 1
     /\ UNCHANGED over
  \/ /\ r \notin Snapped
     /\ snap_free = 0
     /\ UNCHANGED <<snaps, snap_free, over>>

\* The lookup fails for a key that was evicted after it was returned.
ReadRemote ==
  /\ pc = "read"
  /\ IF cur \in keys
     THEN policy_one_remote(cur)
     ELSE UNCHANGED <<snaps, snap_free, over>>
  /\ pc' = "next"
  /\ UNCHANGED <<state, kernel, snap_gen, dt, cursor>>

\* foreach_family returns: it ran out of keys, or of budget with keys left.
Exhausted == Ahead = {}
FamilyDone == pc = "next" /\ (Exhausted \/ visited = RemoteMapSize)

EndV4 ==
  /\ FamilyDone
  /\ family = R4
  /\ c4' = Exhausted
  /\ StartFamily(R6)
  /\ UNCHANGED <<state, kernel, pool, pc, dt, over>>

\* Mutant of snap_prune: the entries are unlinked and not put back.
PruneLeaks ==
  /\ snaps' = [r \in Remotes |->
                 IF snaps[r].gen # snap_gen THEN NoSnap ELSE snaps[r]]
  /\ UNCHANGED snap_free

\* Only the snapshots of this generation stay.
snap_prune ==
  LET stale == {r \in Snapped : snaps[r].gen # snap_gen}
  IN  /\ snaps' = [r \in Remotes |-> IF r \in stale THEN NoSnap ELSE snaps[r]]
      /\ snap_free' = snap_free + Cardinality(stale)

\* A truncated walk prunes nothing.
EndV6 ==
  /\ FamilyDone
  /\ family = R6
  /\ IF c4 /\ Exhausted THEN snap_prune ELSE UNCHANGED <<snaps, snap_free>>
  /\ pc' = "poll"
  /\ UNCHANGED <<state, kernel, snap_gen, dt, cursor, over>>
----------------------------------------------------------------------------
Init ==
  /\ state = "IDLE"
  /\ keys = {}
  /\ in_pkts = [r \in Remotes |-> 0]
  /\ snap_gen = 0
  /\ snaps = [r \in Remotes |-> NoSnap]
  /\ snap_free = SnapCap
  /\ pc = "poll"
  /\ dt = 0
  /\ family = R6
  /\ cur = NoKey
  /\ visited = 0
  /\ c4 = FALSE
  /\ over = {}

Next ==
  \/ \E r \in Remotes : Packet(r)
  \/ \E ok \in BOOLEAN : vg_ctrl_arm(ok)
  \/ vg_ctrl_disarm
  \/ \E d \in 1 .. MaxDt : WalkBegin(d)
  \/ get_next_key
  \/ ReadRemote
  \/ EndV4
  \/ EndV6

Spec == Init /\ [][Next]_vars
----------------------------------------------------------------------------
(***************************************************************************)
(* Properties.                                                             *)
(***************************************************************************)

\* The shape of the state.  A snapshot is only ever stamped with a generation
\* that is in use, and the LRU maps never hold more than they have room for.
TypeOK ==
  /\ state \in {"IDLE", "ACTIVE"}
  /\ keys \subseteq Remotes
  /\ \A f \in {R4, R6} : Cardinality(keys \cap f) =< RemoteMapSize
  /\ in_pkts \in [Remotes -> Nat]
  /\ snap_gen \in 0 .. GenMod - 1
  /\ snaps \in [Remotes -> [gen : 0 .. GenMod - 1, in_pkts : Nat]]
  /\ snap_free \in 0 .. SnapCap
  /\ pc \in {"poll", "next", "read"}
  /\ dt \in 0 .. MaxDt
  /\ family \in {R4, R6}
  /\ cur \in family \cup {NoKey}
  /\ visited \in 0 .. RemoteMapSize
  /\ c4 \in BOOLEAN
  /\ over \subseteq Remotes

\* The snapshot pool of policy.c loses no entry and lends none twice: what is
\* not on the free list is in the hash, through arms, disarms, truncated
\* walks and the wrap of snap_gen.
SnapPoolAddsUp == snap_free + Cardinality(Snapped) = SnapCap

\* A walk starts with no snapshot that already carries its generation, so
\* snap_prune can tell the remotes this walk has seen from those an earlier
\* one left, also after snap_gen has wrapped to 1 over truncated walks.
GenerationIsFresh ==
  (pc = "next" /\ family = R4 /\ visited = 0)
     => \A r \in Snapped : snaps[r].gen # snap_gen
=============================================================================
