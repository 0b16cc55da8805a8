------------------------------- MODULE MCRates -------------------------------
(***************************************************************************)
(* Instances of Rates for TLC, with a history of what each source really   *)
(* sent.  The histories stop at MaxSent, which no property can tell from   *)
(* more.                                                                   *)
(***************************************************************************)
EXTENDS Rates, TLC

CONSTANTS a, b, c

VARIABLES
  sent,     \* packets counted since the gate was armed
  recent,   \* packets counted since the running or last tick began
  earlier   \* packets counted in the tick before that one

mvars == <<vars, sent, recent, earlier>>

\* Two IPv4 sources share a map of one entry, so each evicts the other, and
\* with the IPv6 source they are one more than the snapshot pool has entries.
PairR4 == {a, b}
PairR6 == {c}

\* Three IPv4 sources share a map of two.
TrioR4 == {a, b, c}
TrioR6 == {}

TwoEach == [r \in {a, b, c} |-> 2]
ThreeOfB == a :> 1 @@ b :> 3 @@ c :> 1

MCOrder == a :> 1 @@ c :> 2 @@ b :> 3

MaxSent == Threshold * MaxDt

Zero == [r \in Remotes |-> 0]

Plus(h) ==
  [r \in Remotes |->
     IF in_pkts'[r] > in_pkts[r] /\ h[r] < MaxSent THEN h[r] + 1 ELSE h[r]]

MInit == Init /\ sent = Zero /\ recent = Zero /\ earlier = Zero

AttackNext ==
  /\ Next
  /\ sent' = IF state' = "IDLE" THEN Zero ELSE Plus(sent)
  /\ UNCHANGED <<recent, earlier>>

AttackSpec == MInit /\ [][AttackNext]_mvars

TickNext ==
  /\ Next
  /\ IF pc = "poll" /\ pc' = "next"
     THEN recent' = Zero /\ earlier' = recent
     ELSE recent' = Plus(recent) /\ UNCHANGED earlier
  /\ UNCHANGED sent

TickSpec == MInit /\ [][TickNext]_mvars
----------------------------------------------------------------------------
\* policy_one_remote condemns a remote only for packets of this attack: since
\* the gate was armed it has sent at least what the threshold allows in one
\* tick.  Counters left in the maps by the last attack, counters the LRU
\* restarted and snapshots from before the arm never make a flood.
FloodIsOfThisAttack ==
  pc # "poll" => \A r \in over : sent[r] >= Threshold * dt

\* threshold_pps is a rate, in packets a second (configs/voidgate.conf): a
\* remote is over it only if since the tick before, dt seconds ago, it sent
\* Threshold packets for each of those seconds.
RateIsPerSecond ==
  pc # "poll" => \A r \in over : earlier[r] + recent[r] >= Threshold * dt
=============================================================================
