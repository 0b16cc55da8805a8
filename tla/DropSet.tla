------------------------------- MODULE DropSet -------------------------------
(***************************************************************************)
(* What the rest of the control plane takes the drop list for: prefixes,   *)
(* each listed once and oldest first, in records of a pool of which used   *)
(* have been handed out and free of those are back.                        *)
(***************************************************************************)
EXTENDS Integers, Sequences

CONSTANTS
  Cidrs,
  Cap        \* drop_pool_cap

VARIABLES listed, used, free

vars == <<listed, used, free>>

Init ==
  /\ listed = <<>>
  /\ used = 0
  /\ free = 0

\* A record that came back is taken first.
Take(back) ==
  \/ /\ free > 0
     /\ free' = free - 1 + back
     /\ UNCHANGED used
  \/ /\ free = 0
     /\ used < Cap
     /\ used' = used + 1
     /\ free' = back

Add(p) ==
  /\ \A i \in DOMAIN listed : listed[i] # p
  /\ listed' = Append(listed, p)
  /\ Take(0)

\* The kernel's map takes no more: the record goes back.
AddFails ==
  /\ Take(1)
  /\ UNCHANGED listed

\* s without its k-th element.
Without(s, k) == [i \in 1 .. Len(s) - 1 |-> IF i < k THEN s[i] ELSE s[i + 1]]

Lift(p) ==
  /\ \E k \in DOMAIN listed : listed[k] = p /\ listed' = Without(listed, k)
  /\ free' = free + 1
  /\ UNCHANGED used

Forget ==
  /\ listed' = <<>>
  /\ used' = 0
  /\ free' = 0

Next ==
  \/ \E p \in Cidrs : Add(p) \/ Lift(p)
  \/ AddFails
  \/ Forget

Spec == Init /\ [][Next]_vars
=============================================================================
