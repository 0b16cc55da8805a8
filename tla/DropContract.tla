---------------------------- MODULE DropContract ----------------------------
(***************************************************************************)
(* What a drop promises, whatever the daemon keeps to honour it: how long  *)
(* each prefix stays dropped, and who may end that.                        *)
(*                                                                         *)
(* A manual drop ends only by command.  A timed drop has an end that later *)
(* drops, and a reload, never bring forward.  An automatic drop (a remote  *)
(* over threshold, or an aggregate) has an end that only a reload re-times *)
(* (it may change ban_time).  The tick lifts a drop only once its end has  *)
(* come; before that it takes an undrop of that very prefix, a disarm, or  *)
(* a reload that protects it.                                              *)
(***************************************************************************)
EXTENDS Integers

CONSTANT Prefix

VARIABLES
  ban,       \* what is promised for each prefix
  now,       \* wall clock
  ticking,   \* the daemon is inside a tick, not at a command
  prot       \* the prefixes the configuration in force protects

cvars == <<ban, now, ticking, prot>>

NoBan == [kind |-> "none", end |-> 0]

Ban == {NoBan} \cup [kind : {"manual", "timed", "auto"}, end : Nat]

Banned == {p \in Prefix : ban[p] # NoBan}

CInit ==
  /\ ban = [p \in Prefix |-> NoBan]
  /\ now = 1
  /\ ~ticking
  /\ prot \subseteq Prefix

\* b keeps what a promised: a manual ban stays, any other ends no sooner.
NoWeaker(a, b) ==
  \/ a = NoBan
  \/ b.kind = "manual"
  \/ a.kind # "manual" /\ b.kind \in {"timed", "auto"} /\ a.end <= b.end

\* A drop, by command or by the tick; the tick makes automatic ones only,
\* and none falls on a protected prefix.
NewBan(p) ==
  /\ p \notin prot
  /\ ban' \in [Prefix -> Ban]
  /\ ban'[p] # NoBan
  /\ NoWeaker(ban[p], ban'[p])
  /\ ticking => ban'[p] \in {ban[p]} \cup [kind : {"auto"}, end : Nat]
  /\ \A q \in Prefix \ {p} : ban'[q] = ban[q]
  /\ UNCHANGED <<now, ticking, prot>>

Without(ps) == [p \in Prefix |-> IF p \in ps THEN NoBan ELSE ban[p]]

Undrop(p) ==
  /\ ~ticking
  /\ ban' = Without({p})
  /\ UNCHANGED <<now, ticking, prot>>

Disarm ==
  /\ ~ticking
  /\ ban' = Without(Prefix)
  /\ UNCHANGED <<now, ticking, prot>>

\* b is a after a reload: only the end of an automatic ban may move.
Retimed(a, b) == a = b \/ (a.kind = "auto" /\ b.kind = "auto")

Reload ==
  /\ ~ticking
  /\ prot' \subseteq Prefix
  /\ ban' \in [Prefix -> Ban]
  /\ \A p \in Prefix :
       Retimed(ban[p], ban'[p]) \/ (p \in prot' /\ ban'[p] = NoBan)
  /\ UNCHANGED <<now, ticking>>

\* A tick lifts what is due.
Expire(ps) ==
  /\ ticking
  /\ \A p \in ps : ban[p].kind \in {"timed", "auto"} /\ ban[p].end <= now
  /\ ban' = Without(ps)
  /\ UNCHANGED <<now, ticking, prot>>

Clock ==
  /\ now' > now
  /\ UNCHANGED <<ban, ticking, prot>>

EnterOrLeaveTick ==
  /\ ticking' = ~ticking
  /\ UNCHANGED <<ban, now, prot>>

CNext ==
  \/ \E p \in Prefix : NewBan(p)
  \/ \E p \in Prefix : Undrop(p)
  \/ Disarm
  \/ Reload
  \/ \E ps \in SUBSET Prefix : Expire(ps)
  \/ Clock
  \/ EnterOrLeaveTick

CSpec == CInit /\ [][CNext]_cvars
=============================================================================
