------------------------------ MODULE MCPolicy ------------------------------
(***************************************************************************)
(* Policy on small instances: two IPv4 hosts and their /24, which are one  *)
(* prefix more than the IPv4 map holds, and two IPv6 prefixes, which fill  *)
(* theirs: with both full the pool is empty.                               *)
(***************************************************************************)
EXTENDS Policy, TLC

H1 == {1}
H2 == {2}
Net24 == {1, 2}
H3 == {3}
H4 == {4}

Cfg(nets, ban, clear, k) ==
  [nets |-> nets, ban_time |-> ban, clear_seconds |-> clear, aggregate_k |-> k]

\* Two hosts of one /24, which flood, and two IPv6 prefixes: aggregation,
\* full maps and an empty pool.
MCV4 == {H1, H2, Net24}
MCV6 == {H3, H4}
MCHosts == {H1, H2}
MCNetOf == (H1 :> Net24) @@ (H2 :> Net24)
MCConfigs == {Cfg({}, 0, 1, 2), Cfg({H1}, 1, 1, 2)}

\* One host and its /24, over a longer time.
OneHostV4 == {H1, Net24}
OneHost == {H1}
OneHostNetOf == H1 :> Net24
TimeConfigs == {Cfg({}, 2, 1, 1), Cfg({H2}, 1, 2, 2)}
=============================================================================
