----------------------------- MODULE RatesProofs -----------------------------
(***************************************************************************)
(* The snapshot pool and the generations of walk_remotes, for every set of *)
(* sources, map size, threshold and width of snap_gen; and what a source   *)
(* must have sent to be found over threshold, over the specification with  *)
(* the history of MCRates.                                                 *)
(*                                                                         *)
(* The invariant says of the generations that those of the snapshots are   *)
(* between 1 and the current one (GenerationsPast): this is what makes the *)
(* next one fresh, and what the wrap to 1 would break if it kept a         *)
(* snapshot.  Of the counters it says that a source's counter is past its  *)
(* snapshot by no more than it sent since the gate was armed (SentCovers). *)
(***************************************************************************)
EXTENDS MCRates, FiniteSetTheorems, TLAPS

\* No snapshot is of a generation that is still to come, or of the free mark.
GenerationsPast ==
  /\ \A r \in Snapped : snaps[r].gen \in 1 .. snap_gen
  /\ pc # "poll" => snap_gen > 0 /\ state = "ACTIVE"
  /\ pc = "read" => visited > 0

IInv ==
  /\ TypeOK
  /\ SnapPoolAddsUp
  /\ GenerationsPast
  /\ GenerationIsFresh

\* Since the gate was armed, a source has sent what its counter is past its
\* snapshot, unless the history has stopped counting.
SentCovers ==
  /\ sent \in [Remotes -> 0 .. MaxSent]
  /\ state = "ACTIVE"
       => \A r \in Snapped : in_pkts[r] <= snaps[r].in_pkts + sent[r] \/ sent[r] = MaxSent

AttackInv == IInv /\ SentCovers /\ FloodIsOfThisAttack
----------------------------------------------------------------------------
LEMMA SubFinite ==
  \A S : S \subseteq Remotes => IsFiniteSet(S) /\ Cardinality(S) \in Nat
  <1>1. IsFiniteSet(Remotes)
    BY RatesAssumption, FS_Union, Zenon DEF Remotes
  <1> QED BY <1>1, FS_Subset, FS_CardinalityType

LEMMA SnappedSub == Snapped \subseteq Remotes
  BY DEF Snapped

\* A packet leaves each LRU map within its size: it evicts when it must.
LEMMA KeysFit ==
  ASSUME TypeOK, NEW r \in Remotes, Packet(r)
  PROVE  /\ keys' \subseteq Remotes
         /\ \A f \in {R4, R6} : Cardinality(keys' \cap f) =< RemoteMapSize
  <1> DEFINE F == FamilyOf(r)
             There == keys \cap F
  <1>0. F \in {R4, R6} /\ r \in F /\ keys \subseteq Remotes /\ RemoteMapSize \in Nat
        /\ \A f \in {R4, R6} : f # F => f \cap F = {}
    BY RatesAssumption DEF FamilyOf, Remotes, TypeOK
  <1>1. PICK gone \in Evictable(r) : keys' = (keys \ gone) \cup {r}
    BY DEF Packet
  <1>2. IsFiniteSet(There) /\ Cardinality(There) \in Nat
        /\ Cardinality(There) =< RemoteMapSize
    BY <1>0, SubFinite, Zenon DEF TypeOK
  <1>3. gone \subseteq There
    BY <1>1 DEF Evictable
  <1>4. keys' \subseteq Remotes
    BY <1>0, <1>1
  <1>5. keys' \cap F = (There \ gone) \cup {r}
    BY <1>0, <1>1
  <1>6. Cardinality(keys' \cap F) =< RemoteMapSize
    <2>1. CASE r \in There
      <3>1. gone = {}
        BY <1>1, <2>1 DEF Evictable
      <3>2. keys' \cap F = There
        BY <1>5, <2>1, <3>1
      <3> QED BY <1>2, <3>2
    <2>2. CASE r \notin There /\ Cardinality(There) < RemoteMapSize
      <3>1. gone = {}
        BY <1>1, <2>2 DEF Evictable
      <3>2. keys' \cap F = There \cup {r}
        BY <1>5, <3>1
      <3>3. Cardinality(There \cup {r}) = Cardinality(There) + 1
        BY <1>2, <2>2, FS_AddElement, Zenon
      <3> HIDE DEF There, F
      <3> QED BY <1>0, <1>2, <2>2, <3>2, <3>3
    <2>3. CASE r \notin There /\ ~(Cardinality(There) < RemoteMapSize)
      <3>1. PICK v \in There : gone = {v}
        BY <1>1, <2>3 DEF Evictable
      <3>2. IsFiniteSet(There \ {v}) /\ Cardinality(There \ {v}) = Cardinality(There) - 1
        BY <1>2, FS_RemoveElement
      <3>3. r \notin There \ {v}
        BY <2>3
      <3>4. Cardinality((There \ {v}) \cup {r}) = Cardinality(There \ {v}) + 1
        BY <3>2, <3>3, FS_AddElement
      <3>5. keys' \cap F = (There \ {v}) \cup {r}
        BY <1>5, <3>1
      <3> HIDE DEF There, F
      <3>6. Cardinality((There \ {v}) \cup {r}) = Cardinality(There)
        BY <1>2, <3>2, <3>4
      <3> QED BY <1>2, <3>5, <3>6, Zenon
    <2> QED BY <2>1, <2>2, <2>3
  <1>7. ASSUME NEW f \in {R4, R6}, f # F PROVE Cardinality(keys' \cap f) =< RemoteMapSize
    <2>1. keys' \cap f = keys \cap f
      BY <1>0, <1>1, <1>3, <1>7
    <2> QED BY <2>1, Zenon DEF TypeOK
  <1> QED BY <1>4, <1>6, <1>7

\* A snapshot that is taken, again or for the first time.
LEMMA SnapOne ==
  ASSUME IInv, NEW r \in Remotes, pc # "poll",
         snaps' = [snaps EXCEPT ![r] = Snapshot(r)]
  PROVE  /\ snaps' \in [Remotes -> [gen : 0 .. GenMod - 1, in_pkts : Nat]]
         /\ Snapped' = Snapped \cup {r}
         /\ snaps'[r] = Snapshot(r)
         /\ \A q \in Remotes \ {r} : snaps'[q] = snaps[q]
  <1>1. snap_gen \in 0 .. GenMod - 1 /\ snap_gen > 0 /\ in_pkts[r] \in Nat
        /\ snaps \in [Remotes -> [gen : 0 .. GenMod - 1, in_pkts : Nat]]
    BY DEF IInv, TypeOK, GenerationsPast
  <1>2. Snapshot(r) \in [gen : 0 .. GenMod - 1, in_pkts : Nat]
    BY <1>1 DEF Snapshot
  <1>3. Snapshot(r) # NoSnap
    BY <1>1 DEF Snapshot, NoSnap
  <1>4. snaps'[r] = Snapshot(r) /\ \A q \in Remotes \ {r} : snaps'[q] = snaps[q]
    BY <1>1
  <1>5. snaps' \in [Remotes -> [gen : 0 .. GenMod - 1, in_pkts : Nat]]
    BY <1>1, <1>2
  <1>6. Snapped' = Snapped \cup {r}
    BY <1>3, <1>4 DEF Snapped
  <1> QED BY <1>4, <1>5, <1>6

\* The pool when all snapshots are cleared.
LEMMA ResetPool ==
  ASSUME snap_reset_pool
  PROVE  /\ snaps' \in [Remotes -> [gen : 0 .. GenMod - 1, in_pkts : Nat]]
         /\ Snapped' = {}
         /\ snap_free' \in 0 .. SnapCap
         /\ SnapPoolAddsUp'
  <1>1. NoSnap \in [gen : 0 .. GenMod - 1, in_pkts : Nat]
    BY RatesAssumption DEF NoSnap
  <1>2. Snapped' = {}
    BY DEF snap_reset_pool, Snapped
  <1>3. SnapCap \in Nat /\ snap_free' = SnapCap
    BY RatesAssumption DEF SnapCap, snap_reset_pool
  <1>4. Cardinality(Snapped') = 0
    BY <1>2, FS_EmptySet
  <1>5. SnapPoolAddsUp'
    BY <1>3, <1>4 DEF SnapPoolAddsUp
  <1> QED BY <1>1, <1>2, <1>3, <1>5 DEF snap_reset_pool

\* What is on the free list, the pool being accounted for.
LEMMA FreeBound ==
  ASSUME NEW S \in SUBSET Remotes, NEW n \in Nat, n + Cardinality(S) = SnapCap
  PROVE  n \in 0 .. SnapCap
  <1>1. SnapCap \in Nat /\ Cardinality(S) \in Nat
    BY RatesAssumption, SubFinite DEF SnapCap
  <1> QED BY <1>1

\* policy_one_remote takes one entry of the pool for a first sight, and none
\* otherwise.
LEMMA OneRemotePool ==
  ASSUME IInv, NEW r \in Remotes, pc # "poll", policy_one_remote(r)
  PROVE  /\ snaps' \in [Remotes -> [gen : 0 .. GenMod - 1, in_pkts : Nat]]
         /\ Snapped \subseteq Snapped' /\ Snapped' \subseteq Snapped \cup {r}
         /\ \A q \in Remotes : snaps'[q] = snaps[q] \/ (q = r /\ snaps'[r] = Snapshot(r))
         /\ snap_free' \in Nat
         /\ SnapPoolAddsUp'
         /\ over' \subseteq over \cup {r}
  <1>0. snap_free \in Nat /\ SnapPoolAddsUp
        /\ snaps \in [Remotes -> [gen : 0 .. GenMod - 1, in_pkts : Nat]]
    BY DEF IInv, TypeOK
  <1>1. IsFiniteSet(Snapped) /\ Cardinality(Snapped) \in Nat
    BY SubFinite, SnappedSub
  <1>2. CASE /\ r \in Snapped
             /\ snaps' = [snaps EXCEPT ![r] = Snapshot(r)]
             /\ over' = IF Delta(r) >= Threshold * dt THEN over \cup {r} ELSE over
             /\ UNCHANGED snap_free
    <2>0. /\ snaps' \in [Remotes -> [gen : 0 .. GenMod - 1, in_pkts : Nat]]
          /\ Snapped' = Snapped \cup {r}
          /\ snaps'[r] = Snapshot(r)
          /\ \A q \in Remotes \ {r} : snaps'[q] = snaps[q]
      BY <1>2, SnapOne, Zenon
    <2>1. Snapped' = Snapped
      BY <1>2, <2>0
    <2>2. SnapPoolAddsUp'
      BY <1>0, <1>2, <2>1 DEF SnapPoolAddsUp
    <2>3. over' \subseteq over \cup {r}
      BY <1>2
    <2> QED BY <1>0, <1>2, <2>0, <2>1, <2>2, <2>3
  <1>3. CASE /\ r \notin Snapped
             /\ snap_free > 0
             /\ snaps' = [snaps EXCEPT ![r] = Snapshot(r)]
             /\ snap_free' = snap_free - 1
             /\ UNCHANGED over
    <2>1. /\ snaps' \in [Remotes -> [gen : 0 .. GenMod - 1, in_pkts : Nat]]
          /\ Snapped' = Snapped \cup {r}
          /\ snaps'[r] = Snapshot(r)
          /\ \A q \in Remotes \ {r} : snaps'[q] = snaps[q]
      BY <1>3, SnapOne, Zenon
    <2>2. Cardinality(Snapped \cup {r}) = Cardinality(Snapped) + 1
      BY <1>1, <1>3, FS_AddElement, Zenon
    <2>3. Cardinality(Snapped') = Cardinality(Snapped) + 1
      BY <2>1, <2>2
    <2>4. SnapPoolAddsUp'
      BY <1>0, <1>1, <1>3, <2>3 DEF SnapPoolAddsUp
    <2>5. snap_free' \in Nat
      BY <1>0, <1>3
    <2>6. over' \subseteq over \cup {r}
      BY <1>3
    <2> QED BY <2>1, <2>4, <2>5, <2>6
  <1>4. CASE UNCHANGED <<snaps, snap_free, over>>
    BY <1>0, <1>4 DEF SnapPoolAddsUp, Snapped
  <1> QED BY <1>2, <1>3, <1>4 DEF policy_one_remote

\* snap_prune puts back what it unlinks.
LEMMA PrunePool ==
  ASSUME IInv, snap_prune
  PROVE  /\ snaps' \in [Remotes -> [gen : 0 .. GenMod - 1, in_pkts : Nat]]
         /\ Snapped' \subseteq Snapped
         /\ \A q \in Snapped' : snaps'[q] = snaps[q]
         /\ snap_free' \in Nat
         /\ SnapPoolAddsUp'
  <1> DEFINE stale == {r \in Snapped : snaps[r].gen # snap_gen}
  <1>0. snap_free \in Nat /\ SnapPoolAddsUp
        /\ snaps \in [Remotes -> [gen : 0 .. GenMod - 1, in_pkts : Nat]]
    BY DEF IInv, TypeOK
  <1>1. /\ snaps' = [r \in Remotes |-> IF r \in stale THEN NoSnap ELSE snaps[r]]
        /\ snap_free' = snap_free + Cardinality(stale)
    BY DEF snap_prune
  <1>2. stale \subseteq Snapped /\ stale \subseteq Remotes
    BY SnappedSub
  <1>3. NoSnap \in [gen : 0 .. GenMod - 1, in_pkts : Nat]
    BY RatesAssumption DEF NoSnap
  <1> HIDE DEF stale
  <1>4. snaps' \in [Remotes -> [gen : 0 .. GenMod - 1, in_pkts : Nat]]
    BY <1>0, <1>1, <1>3
  <1>5. Snapped' = Snapped \ stale /\ \A q \in Snapped' : snaps'[q] = snaps[q]
    BY <1>1, <1>2 DEF Snapped
  <1>6. /\ IsFiniteSet(Snapped) /\ Cardinality(Snapped) \in Nat
        /\ IsFiniteSet(stale) /\ Cardinality(stale) \in Nat
    BY <1>2, SubFinite, SnappedSub
  <1>7. Cardinality(Snapped \ stale) = Cardinality(Snapped) - Cardinality(Snapped \cap stale)
    BY <1>6, FS_Difference, Zenon
  <1>8. Snapped \cap stale = stale
    BY <1>2
  <1>9. Cardinality(Snapped') = Cardinality(Snapped) - Cardinality(stale)
    BY <1>5, <1>7, <1>8
  <1>10. SnapPoolAddsUp'
    BY <1>0, <1>1, <1>6, <1>9 DEF SnapPoolAddsUp
  <1> QED BY <1>0, <1>1, <1>4, <1>5, <1>6, <1>10

LEMMA SelfMod == \A n \in Nat \ {0} : n % n = 0
  OBVIOUS

\* Every step of XDP and of the daemon keeps the inductive invariant.
LEMMA NextInv == IInv /\ [Next]_vars => IInv'
  <1> SUFFICES ASSUME IInv, [Next]_vars PROVE IInv'
    OBVIOUS
  <1>0. TypeOK /\ SnapPoolAddsUp /\ GenerationsPast /\ GenerationIsFresh
    BY DEF IInv
  <1>a. SnapCap \in Nat /\ RemoteMapSize \in Nat /\ GenMod \in Nat \ {0, 1}
    BY RatesAssumption DEF SnapCap
  <1>b. ASSUME UNCHANGED pool
        PROVE  /\ SnapPoolAddsUp' /\ Snapped' = Snapped
               /\ UNCHANGED <<snap_gen, snaps, snap_free>>
    BY <1>0, <1>b DEF pool, SnapPoolAddsUp, Snapped
  <1>1. ASSUME NEW r \in Remotes, Packet(r) PROVE IInv'
    <2>1. UNCHANGED <<state, snap_gen, snaps, snap_free, pc, dt, family, cur,
                      visited, c4, over>>
      BY <1>1 DEF Packet, pool, cursor
    <2>2. in_pkts' \in [Remotes -> Nat]
      BY <1>0, <1>1 DEF Packet, TypeOK
    <2>3. TypeOK'
      BY <1>0, <1>1, <2>1, <2>2, KeysFit, Zenon DEF TypeOK
    <2> QED BY <1>0, <2>1, <2>3
            DEF IInv, SnapPoolAddsUp, GenerationsPast, GenerationIsFresh, Snapped
  <1>2. ASSUME NEW ok \in BOOLEAN, vg_ctrl_arm(ok) PROVE IInv'
    <2>1. snap_reset_pool /\ pc = "poll" /\ state' \in {"ACTIVE", "IDLE"}
          /\ UNCHANGED <<keys, in_pkts, snap_gen, pc, dt, family, cur, visited, c4, over>>
      BY <1>2 DEF vg_ctrl_arm, kernel, cursor
    <2>2. TypeOK'
      BY <1>0, <2>1, ResetPool DEF TypeOK
    <2>3. GenerationsPast' /\ GenerationIsFresh'
      BY <2>1, ResetPool DEF GenerationsPast, GenerationIsFresh
    <2> QED BY <2>1, <2>2, <2>3, ResetPool DEF IInv
  <1>3. CASE vg_ctrl_disarm
    <2>1. pc = "poll" /\ state' = "IDLE"
          /\ UNCHANGED <<keys, in_pkts, pool, pc, dt, family, cur, visited, c4, over>>
      BY <1>3 DEF vg_ctrl_disarm, kernel, cursor
    <2>2. TypeOK'
      BY <1>0, <1>b, <2>1 DEF TypeOK
    <2>3. GenerationsPast' /\ GenerationIsFresh'
      BY <1>0, <1>b, <2>1 DEF GenerationsPast, GenerationIsFresh
    <2> QED BY <1>b, <2>1, <2>2, <2>3 DEF IInv
  <1>4. ASSUME NEW d \in 1 .. MaxDt, WalkBegin(d) PROVE IInv'
    <2>1. /\ pc' = "next" /\ dt' = d /\ over' = {} /\ NextGeneration /\ state = "ACTIVE"
          /\ family' = R4 /\ cur' = NoKey /\ visited' = 0
          /\ UNCHANGED <<state, keys, in_pkts, c4>>
      BY <1>4 DEF WalkBegin, StartFamily, kernel
    <2>2. dt' \in 0 .. MaxDt
      BY <2>1, RatesAssumption
    <2>3. CASE (snap_gen + 1) % GenMod = 0
      <3>1. snap_reset_pool /\ snap_gen' = 1
        BY <2>1, <2>3 DEF NextGeneration
      <3>2. TypeOK'
        BY <1>0, <1>a, <2>1, <2>2, <3>1, ResetPool DEF TypeOK
      <3>3. GenerationsPast' /\ GenerationIsFresh'
        BY <2>1, <3>1, ResetPool DEF GenerationsPast, GenerationIsFresh
      <3> QED BY <3>1, <3>2, <3>3, ResetPool DEF IInv
    <2>4. CASE (snap_gen + 1) % GenMod # 0
      <3>1. snap_gen' = snap_gen + 1 /\ UNCHANGED <<snaps, snap_free>>
        BY <2>1, <2>4 DEF NextGeneration
      <3>2. snap_gen \in 0 .. GenMod - 1 /\ snap_gen + 1 # GenMod
        BY <1>0, <1>a, <2>4, SelfMod DEF TypeOK
      <3>3. TypeOK'
        BY <1>0, <1>a, <2>1, <2>2, <3>1, <3>2 DEF TypeOK
      <3>4. Snapped' = Snapped
        BY <3>1 DEF Snapped
      <3>5. \A r \in Snapped : snaps[r].gen \in 1 .. snap_gen
        BY <1>0 DEF GenerationsPast
      <3>6. GenerationsPast' /\ GenerationIsFresh'
        BY <2>1, <3>1, <3>2, <3>4, <3>5 DEF GenerationsPast, GenerationIsFresh
      <3>7. SnapPoolAddsUp'
        BY <1>0, <3>1, <3>4 DEF SnapPoolAddsUp
      <3> QED BY <3>3, <3>6, <3>7 DEF IInv
    <2> QED BY <2>3, <2>4
  <1>5. CASE get_next_key
    <2>1. /\ pc = "next" /\ pc' = "read" /\ visited < RemoteMapSize
          /\ visited' = visited + 1 /\ cur' \in family
          /\ UNCHANGED <<state, keys, in_pkts, pool, dt, family, c4, over>>
      BY <1>5 DEF get_next_key, Ahead, kernel
    <2>2. TypeOK'
      BY <1>0, <1>a, <1>b, <2>1 DEF TypeOK
    <2>3. GenerationsPast' /\ GenerationIsFresh'
      BY <1>0, <1>b, <2>1 DEF GenerationsPast, GenerationIsFresh, TypeOK
    <2> QED BY <1>b, <2>1, <2>2, <2>3 DEF IInv
  <1>6. CASE ReadRemote
    <2>1. /\ pc = "read" /\ pc' = "next" /\ visited > 0
          /\ UNCHANGED <<state, keys, in_pkts, snap_gen, dt, family, cur, visited, c4>>
      BY <1>0, <1>6 DEF ReadRemote, kernel, cursor, GenerationsPast
    <2>2. CASE cur \in keys
      <3>1. cur \in Remotes /\ policy_one_remote(cur)
        BY <1>0, <1>6, <2>2 DEF ReadRemote, TypeOK
      <3>2. PICK r \in Remotes : policy_one_remote(r)
        BY <3>1
      <3>3. /\ snaps' \in [Remotes -> [gen : 0 .. GenMod - 1, in_pkts : Nat]]
            /\ Snapped' \subseteq Snapped \cup {r}
            /\ \A q \in Remotes : snaps'[q] = snaps[q] \/ (q = r /\ snaps'[r] = Snapshot(r))
            /\ snap_free' \in Nat
            /\ SnapPoolAddsUp'
            /\ over' \subseteq over \cup {r}
        BY <2>1, <3>2, OneRemotePool
      <3>4. snap_free' \in 0 .. SnapCap
        BY <3>3, FreeBound, SnappedSub DEF SnapPoolAddsUp, Snapped
      <3>5. TypeOK'
        BY <1>0, <2>1, <3>3, <3>4 DEF TypeOK
      <3>6. \A q \in Snapped' : snaps'[q].gen \in 1 .. snap_gen
        <4> SUFFICES ASSUME NEW q \in Snapped' PROVE snaps'[q].gen \in 1 .. snap_gen
          OBVIOUS
        <4>1. CASE snaps'[q] = snaps[q]
          <5>1. q \in Snapped
            BY <4>1 DEF Snapped
          <5> QED BY <1>0, <4>1, <5>1 DEF GenerationsPast
        <4>2. CASE snaps'[q] = Snapshot(r)
          BY <1>0, <2>1, <4>2 DEF Snapshot, GenerationsPast, TypeOK
        <4> QED BY <3>3, <4>1, <4>2 DEF Snapped
      <3>7. GenerationsPast' /\ GenerationIsFresh'
        BY <1>0, <2>1, <3>6 DEF GenerationsPast, GenerationIsFresh
      <3> QED BY <3>3, <3>5, <3>7 DEF IInv
    <2>3. CASE cur \notin keys
      <3>1. UNCHANGED pool /\ UNCHANGED over
        BY <1>6, <2>3 DEF ReadRemote, pool
      <3>2. TypeOK'
        BY <1>0, <1>b, <2>1, <3>1 DEF TypeOK
      <3>3. GenerationsPast' /\ GenerationIsFresh'
        BY <1>0, <1>b, <2>1, <3>1 DEF GenerationsPast, GenerationIsFresh
      <3> QED BY <1>b, <3>1, <3>2, <3>3 DEF IInv
    <2> QED BY <2>2, <2>3
  <1>7. CASE EndV4
    <2>1. /\ pc = "next" /\ c4' \in BOOLEAN /\ family' = R6 /\ cur' = NoKey /\ visited' = 0
          /\ UNCHANGED <<state, keys, in_pkts, pool, pc, dt, over>>
      BY <1>7 DEF EndV4, FamilyDone, Exhausted, StartFamily, kernel
    <2>2. TypeOK'
      BY <1>0, <1>a, <1>b, <2>1 DEF TypeOK
    <2>3. GenerationsPast'
      BY <1>0, <1>b, <2>1 DEF GenerationsPast
    <2>4. R6 = R4 => Snapped' = {}
      BY <1>b, <2>1, RatesAssumption, SnappedSub DEF Remotes
    <2>5. GenerationIsFresh'
      BY <2>1, <2>4 DEF GenerationIsFresh
    <2> QED BY <1>b, <2>1, <2>2, <2>3, <2>5 DEF IInv
  <1>8. CASE EndV6
    <2>1. /\ pc' = "poll"
          /\ UNCHANGED <<state, keys, in_pkts, snap_gen, dt, family, cur, visited, c4, over>>
      BY <1>8 DEF EndV6, kernel, cursor
    <2>2. CASE snap_prune
      <3>1. snap_free' \in 0 .. SnapCap
        BY <2>2, PrunePool, FreeBound, SnappedSub DEF SnapPoolAddsUp
      <3>2. TypeOK'
        <4>1. snaps' \in [Remotes -> [gen : 0 .. GenMod - 1, in_pkts : Nat]]
          BY <2>2, PrunePool
        <4> QED BY <1>0, <2>1, <3>1, <4>1 DEF TypeOK
      <3>3. \A r \in Snapped' : snaps'[r].gen \in 1 .. snap_gen
        BY <1>0, <2>2, PrunePool DEF GenerationsPast
      <3>4. GenerationsPast' /\ GenerationIsFresh'
        BY <2>1, <3>3 DEF GenerationsPast, GenerationIsFresh
      <3> QED BY <2>2, <3>2, <3>4, PrunePool DEF IInv
    <2>3. CASE UNCHANGED <<snaps, snap_free>>
      <3>1. UNCHANGED pool
        BY <2>1, <2>3 DEF pool
      <3>2. TypeOK'
        BY <1>0, <1>b, <2>1, <3>1 DEF TypeOK
      <3>3. \A r \in Snapped' : snaps'[r].gen \in 1 .. snap_gen
        BY <1>0, <1>b, <2>3, <3>1 DEF GenerationsPast
      <3>4. GenerationsPast' /\ GenerationIsFresh'
        BY <2>1, <3>3 DEF GenerationsPast, GenerationIsFresh
      <3> QED BY <1>b, <3>1, <3>2, <3>4 DEF IInv
    <2> QED BY <1>8, <2>2, <2>3 DEF EndV6
  <1>9. CASE UNCHANGED vars
    <2>1. TypeOK'
      BY <1>0, <1>9 DEF vars, kernel, pool, cursor, TypeOK
    <2> QED BY <1>0, <1>9, <2>1 DEF vars, kernel, pool, cursor, IInv, SnapPoolAddsUp,
               GenerationsPast, GenerationIsFresh, Snapped
  <1> QED BY <1>1, <1>2, <1>3, <1>4, <1>5, <1>6, <1>7, <1>8, <1>9 DEF Next

LEMMA InitInv == Init => IInv
  <1> SUFFICES ASSUME Init PROVE IInv
    OBVIOUS
  <1>0. SnapCap \in Nat /\ RemoteMapSize \in Nat /\ GenMod \in Nat \ {0, 1} /\ MaxDt \in Nat
    BY RatesAssumption DEF SnapCap
  <1>1. NoSnap \in [gen : 0 .. GenMod - 1, in_pkts : Nat]
    BY <1>0 DEF NoSnap
  <1>2. Snapped = {}
    BY DEF Init, Snapped
  <1>3. \A f \in {R4, R6} : Cardinality(keys \cap f) = 0
    <2>1. \A f : keys \cap f = {}
      BY DEF Init
    <2> QED BY <2>1, FS_EmptySet, Zenon
  <1>4. TypeOK
    <2>1. c4 \in BOOLEAN /\ keys \subseteq Remotes /\ over \subseteq Remotes
      BY Zenon DEF Init
    <2>2. snaps \in [Remotes -> [gen : 0 .. GenMod - 1, in_pkts : Nat]]
      BY <1>1 DEF Init
    <2>3. \A f \in {R4, R6} : Cardinality(keys \cap f) =< RemoteMapSize
      BY <1>0, <1>3
    <2> QED BY <1>0, <2>1, <2>2, <2>3 DEF Init, TypeOK
  <1>5. Cardinality(Snapped) = 0
    BY <1>2, FS_EmptySet, Zenon
  <1>6. SnapPoolAddsUp
    BY <1>0, <1>5 DEF Init, SnapPoolAddsUp
  <1> QED BY <1>2, <1>4, <1>6 DEF Init, IInv, GenerationsPast, GenerationIsFresh

\* The invariant above holds in every reachable state.
THEOREM Invariance == Spec => []IInv
  BY InitInv, NextInv, PTL DEF Spec

\* The LRU maps stay within remote_map_size, the walk within its budget, and
\* snap_gen within its width (walk_remotes, foreach_family).
THEOREM TypeCorrect == Spec => []TypeOK
  <1>1. IInv => TypeOK
    BY DEF IInv
  <1> QED BY <1>1, Invariance, PTL

\* The snapshot pool loses no entry and lends none twice (snap_get,
\* snap_prune, snap_reset_pool).
THEOREM SnapshotsAddUp == Spec => []SnapPoolAddsUp
  <1>1. IInv => SnapPoolAddsUp
    BY DEF IInv
  <1> QED BY <1>1, Invariance, PTL

\* A walk starts with a generation that no snapshot carries, for every width
\* of snap_gen and over every number of truncated walks (walk_remotes).
THEOREM FreshGenerations == Spec => []GenerationIsFresh
  <1>1. IInv => GenerationIsFresh
    BY DEF IInv
  <1> QED BY <1>1, Invariance, PTL
----------------------------------------------------------------------------
(***************************************************************************)
(* What a source over threshold has sent.                                  *)
(***************************************************************************)

LEMMA MaxSentType ==
  /\ MaxSent \in Nat
  /\ \A d \in 0 .. MaxDt : Threshold * d \in Nat /\ Threshold * d <= MaxSent
  <1>1. Threshold \in Nat /\ MaxDt \in Nat
    BY RatesAssumption
  <1>2. \A t, d, m \in Nat : d <= m => t * d <= t * m
    OBVIOUS
  <1> QED BY <1>1, <1>2 DEF MaxSent

\* The history only grows while the gate is armed.
LEMMA SentGrows ==
  ASSUME sent \in [Remotes -> 0 .. MaxSent], sent' = Plus(sent)
  PROVE  /\ sent' \in [Remotes -> 0 .. MaxSent]
         /\ \A q \in Remotes : sent'[q] >= sent[q]
         /\ \A q \in Remotes :
              in_pkts'[q] > in_pkts[q] => sent'[q] = sent[q] + 1 \/ sent'[q] = MaxSent
  BY MaxSentType DEF Plus

\* What was sent covers the counters also after a packet, which may evict.
LEMMA PacketSent ==
  ASSUME IInv, SentCovers, NEW r \in Remotes, Packet(r), sent' = Plus(sent)
  PROVE  SentCovers'
  <1>0. state = "ACTIVE" /\ in_pkts \in [Remotes -> Nat]
        /\ snaps \in [Remotes -> [gen : 0 .. GenMod - 1, in_pkts : Nat]]
        /\ sent \in [Remotes -> 0 .. MaxSent]
    BY DEF IInv, TypeOK, SentCovers, Packet
  <1>1. UNCHANGED <<state, snaps>> /\ Snapped' = Snapped
    BY DEF Packet, pool, Snapped
  <1>2. /\ in_pkts'[r] = in_pkts[r] + 1
        /\ \A q \in Remotes \ {r} : in_pkts'[q] \in {in_pkts[q], 0}
    BY DEF Packet
  <1>3. ASSUME NEW q \in Snapped
        PROVE  in_pkts'[q] <= snaps[q].in_pkts + sent'[q] \/ sent'[q] = MaxSent
    <2>1. /\ q \in Remotes /\ snaps[q].in_pkts \in Nat /\ in_pkts[q] \in Nat
          /\ sent[q] \in 0 .. MaxSent /\ sent'[q] \in 0 .. MaxSent /\ sent'[q] >= sent[q]
          /\ MaxSent \in Nat
      BY <1>0, SnappedSub, SentGrows, MaxSentType
    <2>2. in_pkts[q] <= snaps[q].in_pkts + sent[q] \/ sent[q] = MaxSent
      BY <1>0 DEF SentCovers
    <2>3. CASE q = r
      <3>1. sent'[q] = sent[q] + 1 \/ sent'[q] = MaxSent
        BY <1>0, <1>2, <2>1, <2>3, SentGrows
      <3> QED BY <1>2, <2>1, <2>2, <2>3, <3>1
    <2>4. CASE q # r
      <3>1. in_pkts'[q] \in {in_pkts[q], 0}
        BY <1>2, <2>1, <2>4
      <3> QED BY <2>1, <2>2, <3>1
    <2> QED BY <2>3, <2>4
  <1> QED BY <1>0, <1>1, <1>3, SentGrows DEF SentCovers

\* A source is found over threshold for what it sent in this attack.
LEMMA OverSent ==
  ASSUME AttackInv, NEW r \in Remotes, pc # "poll", policy_one_remote(r),
         NEW q \in over'
  PROVE  sent[q] >= Threshold * dt
  <1>1. CASE q \in over
    BY <1>1 DEF AttackInv, FloodIsOfThisAttack
  <1>2. CASE q \notin over
    <2>1. q = r /\ r \in Snapped /\ Delta(r) >= Threshold * dt
      BY <1>2 DEF policy_one_remote
    <2>2. /\ in_pkts[r] \in Nat /\ snaps[r].in_pkts \in Nat /\ sent[r] \in 0 .. MaxSent
          /\ dt \in 0 .. MaxDt /\ state = "ACTIVE"
      BY DEF AttackInv, IInv, TypeOK, SentCovers, GenerationsPast
    <2>3. in_pkts[r] <= snaps[r].in_pkts + sent[r] \/ sent[r] = MaxSent
      BY <2>1, <2>2 DEF AttackInv, SentCovers
    <2>4. PICK limit \in Nat : limit = Threshold * dt /\ limit <= MaxSent
      BY <2>2, MaxSentType
    <2>5. Delta(r) >= limit
      BY <2>1, <2>4
    <2>6. sent[r] >= limit
      BY <2>2, <2>3, <2>4, <2>5, MaxSentType, SMTT(60) DEF Delta
    <2> QED BY <2>1, <2>4, <2>6
  <1> QED BY <1>1, <1>2

\* Every step keeps what the history says of the counters.
LEMMA AttackStep == AttackInv /\ IInv' /\ [AttackNext]_mvars => AttackInv'
  <1> SUFFICES ASSUME AttackInv, IInv', [AttackNext]_mvars PROVE AttackInv'
    OBVIOUS
  <1>0. IInv /\ SentCovers /\ FloodIsOfThisAttack
    BY DEF AttackInv
  <1>1. /\ sent \in [Remotes -> 0 .. MaxSent] /\ in_pkts \in [Remotes -> Nat]
        /\ state \in {"IDLE", "ACTIVE"} /\ over \subseteq Remotes
        /\ dt \in 0 .. MaxDt /\ MaxSent \in Nat
        /\ (pc # "poll" => state = "ACTIVE")
    BY <1>0, MaxSentType DEF SentCovers, IInv, TypeOK, GenerationsPast
  <1>2. SUFFICES SentCovers' /\ FloodIsOfThisAttack'
    BY DEF AttackInv
  <1>3. ASSUME state' = "ACTIVE", UNCHANGED in_pkts, AttackNext PROVE sent' = sent
    BY <1>1, <1>3 DEF AttackNext, Plus
  <1>4. ASSUME UNCHANGED <<state, in_pkts, snaps, sent>> PROVE SentCovers'
    BY <1>0, <1>4 DEF SentCovers, Snapped
  <1>5. ASSUME NEW r \in Remotes, Packet(r), AttackNext
        PROVE  SentCovers' /\ FloodIsOfThisAttack'
    <2>1. sent' = Plus(sent) /\ UNCHANGED <<pc, over, dt>>
      BY <1>5 DEF Packet, AttackNext
    <2>2. \A q \in Remotes : sent'[q] >= sent[q] /\ sent'[q] \in Nat /\ sent[q] \in Nat
      BY <1>1, <2>1, SentGrows
    <2>3. Threshold * dt \in Nat
      BY <1>1, MaxSentType
    <2>4. PICK limit \in Nat : limit = Threshold * dt
      BY <2>3
    <2>5. ASSUME pc # "poll", NEW q \in over PROVE sent'[q] >= limit
      <3>1. sent[q] >= limit /\ q \in Remotes
        BY <1>0, <1>1, <2>4, <2>5 DEF FloodIsOfThisAttack
      <3> QED BY <2>2, <3>1
    <2>6. FloodIsOfThisAttack'
      BY <2>1, <2>4, <2>5 DEF FloodIsOfThisAttack
    <2> QED BY <1>0, <1>5, <2>1, <2>6, PacketSent
  <1>6. ASSUME NEW ok \in BOOLEAN, vg_ctrl_arm(ok), AttackNext
        PROVE  SentCovers' /\ FloodIsOfThisAttack'
    <2>1. pc' = "poll" /\ Snapped' = {} /\ UNCHANGED in_pkts /\ state' \in {"ACTIVE", "IDLE"}
      BY <1>6, ResetPool DEF vg_ctrl_arm, kernel
    <2>2. sent' \in {sent, Zero}
      BY <1>3, <1>6, <2>1 DEF AttackNext
    <2>3. sent' \in [Remotes -> 0 .. MaxSent]
      BY <1>1, <2>2 DEF Zero
    <2> QED BY <2>1, <2>3 DEF SentCovers, FloodIsOfThisAttack
  <1>7. ASSUME vg_ctrl_disarm, AttackNext
        PROVE  SentCovers' /\ FloodIsOfThisAttack'
    <2>1. pc' = "poll" /\ state' = "IDLE" /\ sent' = Zero
      BY <1>7 DEF vg_ctrl_disarm, AttackNext
    <2>2. sent' \in [Remotes -> 0 .. MaxSent]
      BY <1>1, <2>1 DEF Zero
    <2> QED BY <2>1, <2>2 DEF SentCovers, FloodIsOfThisAttack
  <1>8. ASSUME NEW d \in 1 .. MaxDt, WalkBegin(d), AttackNext
        PROVE  SentCovers' /\ FloodIsOfThisAttack'
    <2>1. state = "ACTIVE" /\ over' = {} /\ UNCHANGED <<state, in_pkts>> /\ NextGeneration
      BY <1>8 DEF WalkBegin, kernel
    <2>2. sent' = sent
      BY <1>3, <1>8, <2>1
    <2>3. Snapped' = {} \/ UNCHANGED snaps
      BY <2>1, ResetPool DEF NextGeneration
    <2>4. SentCovers'
      BY <1>0, <1>1, <1>4, <2>1, <2>2, <2>3 DEF SentCovers
    <2> QED BY <2>1, <2>4 DEF FloodIsOfThisAttack
  <1>9. ASSUME get_next_key \/ EndV4, AttackNext
        PROVE  SentCovers' /\ FloodIsOfThisAttack'
    <2>1. pc = "next" /\ UNCHANGED <<state, in_pkts, snaps, over, dt>>
      BY <1>9 DEF get_next_key, EndV4, FamilyDone, kernel, pool
    <2>2. sent' = sent
      BY <1>1, <1>3, <1>9, <2>1
    <2> QED BY <1>0, <1>4, <2>1, <2>2 DEF FloodIsOfThisAttack
  <1>10. ASSUME ReadRemote, AttackNext
         PROVE  SentCovers' /\ FloodIsOfThisAttack'
    <2>1. pc = "read" /\ UNCHANGED <<state, in_pkts, dt>>
      BY <1>10 DEF ReadRemote, kernel
    <2>2. sent' = sent /\ state' = "ACTIVE"
      BY <1>1, <1>3, <1>10, <2>1
    <2>3. CASE cur \in keys
      <3>1. PICK r \in Remotes : policy_one_remote(r)
        BY <1>0, <1>10, <2>3 DEF ReadRemote, IInv, TypeOK
      <3>2. FloodIsOfThisAttack'
        BY <2>1, <2>2, <3>1, OverSent, SMTT(60) DEF FloodIsOfThisAttack
      <3>3. \A q \in Remotes : snaps'[q] = snaps[q] \/ (q = r /\ snaps'[r] = Snapshot(r))
        BY <1>0, <2>1, <3>1, OneRemotePool
      <3>4. ASSUME NEW q \in Snapped'
            PROVE  in_pkts[q] <= snaps'[q].in_pkts + sent[q] \/ sent[q] = MaxSent
        <4>1. q \in Remotes /\ in_pkts[q] \in Nat /\ sent[q] \in Nat
          BY <1>1 DEF Snapped
        <4>2. CASE snaps'[q] = snaps[q]
          <5>1. q \in Snapped
            BY <4>1, <4>2 DEF Snapped
          <5> QED BY <1>0, <1>1, <2>1, <4>2, <5>1 DEF SentCovers
        <4>3. CASE q = r /\ snaps'[r] = Snapshot(r)
          BY <4>1, <4>3 DEF Snapshot
        <4> QED BY <3>3, <4>1, <4>2, <4>3
      <3> QED BY <1>1, <2>1, <2>2, <3>2, <3>4, SMTT(60) DEF SentCovers
    <2>4. CASE cur \notin keys
      <3>1. UNCHANGED <<snaps, over>>
        BY <1>10, <2>4 DEF ReadRemote
      <3> QED BY <1>0, <1>4, <2>1, <2>2, <3>1 DEF FloodIsOfThisAttack
    <2> QED BY <2>3, <2>4
  <1>11. ASSUME EndV6, AttackNext
         PROVE  SentCovers' /\ FloodIsOfThisAttack'
    <2>1. pc = "next" /\ pc' = "poll" /\ UNCHANGED <<state, in_pkts>>
      BY <1>11 DEF EndV6, FamilyDone, kernel
    <2>2. sent' = sent /\ state' = "ACTIVE"
      BY <1>1, <1>3, <1>11, <2>1
    <2>3. CASE snap_prune
      <3>1. \A q \in Snapped' : q \in Snapped /\ snaps'[q] = snaps[q]
        BY <1>0, <2>3, PrunePool
      <3> QED BY <1>0, <1>1, <2>1, <2>2, <3>1 DEF SentCovers, FloodIsOfThisAttack
    <2>4. CASE UNCHANGED snaps
      BY <1>4, <2>1, <2>2, <2>4 DEF FloodIsOfThisAttack
    <2> QED BY <1>11, <2>3, <2>4 DEF EndV6
  <1>12. CASE UNCHANGED mvars
    BY <1>0, <1>4, <1>12 DEF mvars, vars, kernel, pool, FloodIsOfThisAttack
  <1> QED BY <1>5, <1>6, <1>7, <1>8, <1>9, <1>10, <1>11, <1>12 DEF AttackNext, Next

\* A source is condemned only for at least Threshold * dt packets that it
\* sent since the gate was armed: what the last attack left in the maps, what
\* the LRU restarted and old snapshots make no flood (policy_one_remote).
THEOREM FloodsAreReal == AttackSpec => []FloodIsOfThisAttack
  <1>1. MInit => AttackInv
    <2> SUFFICES ASSUME MInit PROVE AttackInv
      OBVIOUS
    <2>1. IInv
      BY InitInv DEF MInit
    <2>2. sent \in [Remotes -> 0 .. MaxSent]
      BY MaxSentType DEF MInit, Zero
    <2> QED BY <2>1, <2>2 DEF AttackInv, SentCovers, FloodIsOfThisAttack, MInit, Init
  <1>2. AttackInv /\ [AttackNext]_mvars => IInv'
    BY NextInv DEF AttackInv, AttackNext, mvars, vars
  <1>3. AttackInv => FloodIsOfThisAttack
    BY DEF AttackInv
  <1> QED BY <1>1, <1>2, <1>3, AttackStep, PTL DEF AttackSpec
=============================================================================
