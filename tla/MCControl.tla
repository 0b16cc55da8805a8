----------------------------- MODULE MCControl -----------------------------
(***************************************************************************)
(* Control with a memory of what M.ban told its callers.                   *)
(***************************************************************************)
EXTENDS Control

VARIABLES
  queued,  \* addresses with a ban queued since their key was set
  told     \* addresses for which ban has returned true since then

BInit == Init /\ queued = {} /\ told = {}

BNext ==
  /\ Next
  /\ queued' = {a \in Addrs : key'[a] > 0 /\ (a \in queued \/ \E i \in DOMAIN timers' : timers'[i] = a)}
  /\ told' = {a \in Addrs : key'[a] > 0 /\ (a \in told \/ M_ban(a, TRUE, TRUE))}

BSpec == BInit /\ [][BNext]_<<vars, queued, told>>

\* The comment on M.ban: it returns true once the ban is queued, or was queued
\* within the window.
TrueMeansQueued == told \subseteq queued
=============================================================================
