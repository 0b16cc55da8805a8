------------------------------- MODULE DropList -------------------------------
(***************************************************************************)
(* The drop list as it is in memory (src/policy.c with src/list.h): every  *)
(* record is a node of drop_all or of drop_free, and a listed one also of  *)
(* the bucket its prefix hashes to.  Every assignment to a pointer is      *)
(* there.  A walk of the list lifts records as it goes.                    *)
(***************************************************************************)
EXTENDS Integers, Sequences

CONSTANTS
  Cidrs,
  Buckets,
  Hash,              \* drop_hash: the bucket of each prefix
  Cap,               \* drop_pool_cap
  Null, All, Free    \* NULL, the heads of drop_all and drop_free

ASSUME DropListAssumption ==
  /\ Hash \in [Cidrs -> Buckets]
  /\ Cap \in Nat \ {0}
  /\ {Null, All, Free} \cap (1 .. Cap) = {}
  /\ Null # All /\ Null # Free /\ All # Free

VARIABLES
  list,    \* struct vg_list of the heads and of every record: next and prev
  hash,    \* drop_heads, and struct vg_hlist_node of every record
  cidr,    \* the prefix of every record
  used,    \* drop_used
  count,   \* drop_count
  pos,     \* where a walk is, All when there is none
  ahead,   \* and its n, the node after
  walked,  \* history: records it has been at
  todo     \* history: records listed when it began

records == <<list, hash, cidr, used, count>>
walk == <<pos, ahead, walked, todo>>
vars == <<records, walk>>

Pool == 1 .. Cap
----------------------------------------------------------------------------
(***************************************************************************)
(* src/list.h.                                                             *)
(***************************************************************************)

vg_list_add_tail(l, node, head) ==
  LET a == [l EXCEPT !.prev[node] = l.prev[head], !.next[node] = head]
      b == [a EXCEPT !.next[a.prev[head]] = node]
  IN  [b EXCEPT !.prev[head] = node]

vg_list_del(l, node) ==
  LET a == [l EXCEPT !.next[l.prev[node]] = l.next[node]]
      b == [a EXCEPT !.prev[a.next[node]] = a.prev[node]]
  IN  [b EXCEPT !.prev[node] = node, !.next[node] = node]

\* pprev is the place that holds the pointer to a node: a bucket's first or
\* another node's next.
First(b) == [bucket |-> b, node |-> Null]
NextOf(n) == [bucket |-> Null, node |-> n]

Store(h, place, v) ==
  IF place.node = Null
  THEN [h EXCEPT !.first[place.bucket] = v]
  ELSE [h EXCEPT !.next[place.node] = v]

vg_hlist_add_head(h, node, b) ==
  LET a == [h EXCEPT !.next[node] = h.first[b]]
      c == IF a.next[node] = Null THEN a ELSE [a EXCEPT !.pprev[a.next[node]] = NextOf(node)]
  IN  [c EXCEPT !.first[b] = node, !.pprev[node] = First(b)]

\* Mutant of vg_hlist_del: the next node still points back at the one removed.
HlistDelOneWay(h, node) ==
  LET a == Store(h, h.pprev[node], h.next[node])
  IN  [a EXCEPT !.next[node] = Null, !.pprev[node] = First(Null)]

vg_hlist_del(h, node) ==
  LET a == Store(h, h.pprev[node], h.next[node])
      c == IF a.next[node] = Null THEN a ELSE [a EXCEPT !.pprev[a.next[node]] = a.pprev[node]]
  IN  [c EXCEPT !.next[node] = Null, !.pprev[node] = First(Null)]

\* The nodes from start to before stop.
Nodes(next, start, stop) ==
  LET from[n \in 0 .. Cap + 1] ==
        [at \in Pool \cup {Null, All, Free} |->
           IF n = 0 \/ at = stop THEN <<>> ELSE <<at>> \o from[n - 1][next[at]]]
  IN  from[Cap + 1][start]

Listed == Nodes(list.next, list.next[All], All)
Lifted == Nodes(list.next, list.next[Free], Free)
Bucket(b) == Nodes(hash.next, hash.first[b], Null)
----------------------------------------------------------------------------
(***************************************************************************)
(* src/policy.c.  A command finds no walk under way: the daemon has one    *)
(* thread.                                                                 *)
(***************************************************************************)

Lowest(S) == CHOOSE i \in S : \A j \in S : i <= j

\* The record of p, or Null.
drops_find(p) ==
  LET b == Bucket(Hash[p])
      found == {i \in DOMAIN b : cidr[b[i]] = p}
  IN  IF found = {} THEN Null ELSE b[Lowest(found)]

\* The record, the lists without it, and what is used of the pool then.
drop_alloc ==
  LET l == list.next[Free]
  IN  CASE l # Free -> [r |-> l, list |-> vg_list_del(list, l), used |-> used]
        [] l = Free /\ used < Cap -> [r |-> used + 1, list |-> list, used |-> used + 1]
        [] OTHER -> [r |-> Null, list |-> list, used |-> used]

\* drop_add of a prefix that is not listed, with a map update that may fail.
\* One that is listed keeps its record.
drop_add(p, ok) ==
  /\ pos = All
  /\ drops_find(p) = Null
  /\ drop_alloc.r # Null
  /\ LET r == drop_alloc.r
     IN  IF ok
         THEN /\ cidr' = [cidr EXCEPT ![r] = p]
              /\ hash' = vg_hlist_add_head(hash, r, Hash[p])
              /\ list' = vg_list_add_tail(drop_alloc.list, r, All)
              /\ count' = count + 1
         ELSE /\ list' = vg_list_add_tail(drop_alloc.list, r, Free)
              /\ UNCHANGED <<cidr, hash, count>>
  /\ used' = drop_alloc.used
  /\ UNCHANGED walk

\* Mutant of drop_remove: the record is unlinked and never handed out again.
RemoveLosesRecord(r) ==
  /\ hash' = vg_hlist_del(hash, r)
  /\ list' = vg_list_del(list, r)
  /\ count' = count - 1
  /\ UNCHANGED <<cidr, used>>

drop_remove(r) ==
  /\ hash' = vg_hlist_del(hash, r)
  /\ list' = vg_list_add_tail(vg_list_del(list, r), r, Free)
  /\ count' = count - 1
  /\ UNCHANGED <<cidr, used>>

vg_ctrl_undrop(p) ==
  /\ pos = All
  /\ drops_find(p) # Null
  /\ drop_remove(drops_find(p))
  /\ UNCHANGED walk

\* The records keep their pointers.
drops_reset ==
  /\ pos = All
  /\ hash' = [hash EXCEPT !.first = [b \in Buckets |-> Null]]
  /\ list' = [list EXCEPT !.next[Free] = Free, !.prev[Free] = Free,
                          !.next[All] = All, !.prev[All] = All]
  /\ used' = 0
  /\ count' = 0
  /\ UNCHANGED <<cidr, walk>>

\* vg_list_for_each_safe in expire_drops and vg_ctrl_prune_protected.
WalkBegin ==
  /\ pos = All
  /\ Listed # <<>>
  /\ pos' = list.next[All]
  /\ ahead' = list.next[pos']
  /\ todo' = Listed
  /\ UNCHANGED <<records, walked>>

\* Mutant of Advance: vg_list_for_each, which asks the node for its successor
\* after the body.
AdvanceFromNode ==
  /\ pos' = list'.next[pos]
  /\ ahead' = list'.next[pos']

Advance ==
  /\ pos' = ahead
  /\ ahead' = list'.next[pos']

\* One turn, which lifts a drop that is over or protected if the delete
\* succeeds.
WalkStep(lift) ==
  /\ pos # All
  /\ IF lift THEN drop_remove(pos) ELSE UNCHANGED records
  /\ Advance
  /\ IF pos' = All
     THEN walked' = <<>> /\ todo' = <<>>
     ELSE walked' = Append(walked, pos) /\ UNCHANGED todo

Init ==
  /\ list = [next |-> [n \in Pool \cup {All, Free} |-> IF n \in Pool THEN Null ELSE n],
             prev |-> [n \in Pool \cup {All, Free} |-> IF n \in Pool THEN Null ELSE n]]
  /\ hash = [first |-> [b \in Buckets |-> Null], next |-> [r \in Pool |-> Null],
             pprev |-> [r \in Pool |-> First(Null)]]
  /\ cidr = [r \in Pool |-> Null]
  /\ used = 0
  /\ count = 0
  /\ pos = All
  /\ ahead = All
  /\ walked = <<>>
  /\ todo = <<>>

Next ==
  \/ \E p \in Cidrs, ok \in BOOLEAN : drop_add(p, ok)
  \/ \E p \in Cidrs : vg_ctrl_undrop(p)
  \/ drops_reset
  \/ WalkBegin
  \/ \E lift \in BOOLEAN : WalkStep(lift)

Spec == Init /\ [][Next]_vars
----------------------------------------------------------------------------
(***************************************************************************)
(* Properties.                                                             *)
(***************************************************************************)

\* vg_ctrl_drops_check, which the unit tests call: drop_all and the buckets
\* hold the same records, as many as are counted, every link agrees with its
\* neighbour, each record is in the bucket of its prefix and is what a lookup
\* of that prefix returns.  Also in the middle of a walk, and for records that
\* drops_reset left with the pointers they had.
ListsAgree ==
  LET s == Listed
  IN  /\ Len(s) = count
      /\ \A i \in DOMAIN s :
           /\ list.prev[list.next[s[i]]] = s[i]
           /\ s[i] \in 1 .. used
           /\ drops_find(cidr[s[i]]) = s[i]
      /\ \A b \in Buckets :
           LET c == Bucket(b)
           IN  \A i \in DOMAIN c :
                 /\ hash.pprev[c[i]] = IF i = 1 THEN First(b) ELSE NextOf(c[i - 1])
                 /\ Hash[cidr[c[i]]] = b
                 /\ \E j \in DOMAIN s : s[j] = c[i]

\* "pos may be unlinked in the body": a walk comes to every record that was
\* listed when it began, once and in order, and to nothing else, although a
\* record it lifts is put on drop_free by the very links it walks along.
WalkMeetsAll ==
  pos # All => walked \o <<pos>> \o Nodes(list.next, ahead, All) = todo

Prefixes == LET s == Listed IN [i \in DOMAIN s |-> cidr[s[i]]]

\* The pointers implement the list of prefixes that the control plane takes
\* them for: oldest first, each prefix once, and no record lost or in two
\* places (drop_add, drop_alloc, drop_remove, drops_reset).
Abstract == INSTANCE DropSet WITH listed <- Prefixes, free <- Len(Lifted)

IsDropSet == Abstract!Spec
=============================================================================
