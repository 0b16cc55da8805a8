-------------------------------- MODULE MCGate --------------------------------
(***************************************************************************)
(* Instance of Gate for TLC.  The address r1 is remote; p is a peer that   *)
(* one configuration allows and another does not; l1 is local in every     *)
(* configuration and l2 becomes local.  The drops cover the remote alone,  *)
(* the remote with the peer, and the address that becomes local.           *)
(***************************************************************************)
EXTENDS Gate

CONSTANTS r1, p, l1, l2

MCAddrs == {r1, p, l1, l2}

MCDrops == {{r1}, {r1, p}, {l2}}

MCConfigs == {
  [local |-> {{l1}}, allow |-> {}, ports |-> TRUE],
  [local |-> {{l1}}, allow |-> {{p}}, ports |-> TRUE],
  [local |-> {{l1}, {l2}}, allow |-> {{p}}, ports |-> FALSE]}

MCPackets == {
  [src |-> r1, dst |-> l1, kind |-> "tcp_in"],
  [src |-> l1, dst |-> r1, kind |-> "tcp_out"],
  [src |-> r1, dst |-> l2, kind |-> "dhcp"],
  [src |-> p, dst |-> l1, kind |-> "plain"],
  [src |-> r1, dst |-> p, kind |-> "plain"],
  [src |-> r1, dst |-> l2, kind |-> "link"]}
=============================================================================
