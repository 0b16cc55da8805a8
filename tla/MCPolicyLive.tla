---------------------------- MODULE MCPolicyLive ----------------------------
(***************************************************************************)
(* Policy after the attack: commands, floods and loud ticks happen up to   *)
(* LastEvent, and then the traffic stays below the wake thresholds.        *)
(*                                                                         *)
(* The event loop ticks at least once a second (idle_poll_ms is 1000 by    *)
(* default and a tick takes less), so the clock waits for a tick.          *)
(***************************************************************************)
EXTENDS MCPolicy

CONSTANT LastEvent   \* bound: the last second with commands and floods

ASSUME LastEventAssumption == LastEvent \in Nat

VARIABLE ticked      \* a tick was completed in this second

CalmTick ==
  \/ TickFails
  \/ TickIdle
  \/ TickWalk({})
  \/ \E h \in Hosts : policy_one_remote(h)
  \/ maybe_aggregate
  \/ expire_drops
  \/ TickQuiet

LInit == Init /\ ticked = FALSE

Second ==
  /\ Clock
  /\ pc = "poll"
  /\ ticked \/ state = "IDLE"
  /\ ticked' = FALSE

Work ==
  /\ CalmTick
  /\ ticked' = (pc' = "poll" \/ ticked)

Event ==
  /\ now <= LastEvent
  /\ Command \/ Tick
  /\ ticked' = ((pc # "poll" /\ pc' = "poll") \/ ticked)

LNext == Second \/ Work \/ Event

lvars == <<vars, ticked>>

LSpec == LInit /\ [][LNext]_lvars /\ SF_lvars(Second) /\ WF_lvars(Work)

\* After an attack everything the gate dropped by itself, and every timed
\* drop, is lifted again, and with no manual drop left the gate disarms: a
\* lift, disarm or metrics read that fails is tried again
\* (expire_drops, vg_ctrl_tick).
CalmClears ==
  <>[](/\ \A p \in Listed : drops[p].reason = "MANUAL"
       /\ Listed = {} => state = "IDLE")
=============================================================================
