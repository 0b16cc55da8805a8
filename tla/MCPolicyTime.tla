---------------------------- MODULE MCPolicyTime ----------------------------
(***************************************************************************)
(* Policy with a memory of the traffic: when a tick last saw it above the  *)
(* wake thresholds, or the gate was armed.                                 *)
(***************************************************************************)
EXTENDS MCPolicy

VARIABLE loud_at

TInit == Init /\ loud_at = 0

TNext ==
  /\ Next
  /\ loud_at' = IF TickLoud \/ (state = "IDLE" /\ state' = "ACTIVE")
                THEN now ELSE loud_at

TSpec == TInit /\ [][TNext]_<<vars, loud_at>>

\* The gate goes back to IDLE by itself only with nothing listed and after
\* clear_seconds in which no tick saw loud traffic, however arming, failed
\* disarms and reloads came in between (vg_ctrl_tick, quiet_since).
OnlyCalmDisarms ==
  [][state = "ACTIVE" /\ state' = "IDLE"
       => \/ ctl_disarm
          \/ Listed = {} /\ now - loud_at >= cfg.clear_seconds]_vars
=============================================================================
