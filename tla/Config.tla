------------------------------- MODULE Config -------------------------------
(***************************************************************************)
(* The configuration (src/config.c) as the daemon starts with it           *)
(* (src/voidgate.c: main) and reloads it (src/ctl_server.c:                *)
(* vg_ctrl_reload) from a file that is edited meanwhile.                   *)
(*                                                                         *)
(* A file is a sequence of lines key = value.  A value is a sequence of    *)
(* words: one for a scalar, the entries of a list.  Names and prefixes are *)
(* numbers here like everything else; junk is a word that its key cannot   *)
(* take (not a number, a name too long, not a prefix).  Of the scalars     *)
(* there is one of each kind the parser has, and of those a reload keeps   *)
(* one number and one name.                                                *)
(***************************************************************************)
EXTENDS Integers, Sequences

CONSTANTS
  Files,      \* what the file may hold
  Nics,       \* addresses the interface may have, as sequences of prefixes
  Overrides,  \* -i: an interface, or 0 for none
  U64Max, U32Max, IntMax,
  PortMax,    \* 65535
  MaxPorts,   \* VG_MAX_ALLOW_PORTS
  MaxCidrs,   \* VG_MAX_CIDR_LIST
  Defaults    \* vg_config_defaults

Scalars == {"interface", "drop_map_size", "wake_pps", "idle_poll_ms"}

\* A line that is a comment, has no = or an unknown key has key "other";
\* reading on fails at "eio".
Keys == Scalars \cup {"allow_ports", "local_networks", "allow_networks", "other", "eio"}

Word == [n : Int, junk : BOOLEAN]

FileLine == [key : Keys, blank : BOOLEAN, words : Seq(Word)]

AtMost(n, S) == {s \in Seq(S) : Len(s) <= n}

\* struct vg_config.
vg_config ==
  [interface : Int, drop_map_size : 0 .. U32Max, wake_pps : 0 .. U64Max,
   idle_poll_ms : 0 .. IntMax, allow_ports : AtMost(MaxPorts, 1 .. PortMax),
   local : AtMost(MaxCidrs, Int), allow : AtMost(MaxCidrs, Int), auto_local : BOOLEAN]

ASSUME ConfigAssumption ==
  /\ {U64Max, U32Max, IntMax, PortMax, MaxPorts, MaxCidrs} \subseteq Nat
  /\ 0 < IntMax /\ IntMax < U32Max /\ U32Max < U64Max
  /\ 0 < PortMax /\ PortMax < U64Max
  /\ Files \subseteq Seq(FileLine)
  /\ Nics \subseteq Seq(Int)
  /\ Overrides \subseteq Int
  /\ Defaults \in vg_config
  /\ Defaults.idle_poll_ms # 0
  /\ Defaults.auto_local

VARIABLES
  cfg,       \* the daemon's configuration
  override,  \* -i
  begun,     \* history: the interface and map size the daemon started with
  file,      \* history: the file of the last load that took effect
  nic        \* history: the addresses found then

vars == <<cfg, override, begun, file, nic>>

\* strtoull takes a sign, wraps, and stops at the largest value.
strtoull(n) ==
  IF n > U64Max \/ -n > U64Max THEN U64Max ELSE n % (U64Max + 1)

\* The words a scalar of each kind takes: any number, one that fits, a name.
Takes(key, w) ==
  /\ ~w.junk
  /\ key = "drop_map_size" => strtoull(w.n) <= U32Max
  /\ key = "idle_poll_ms" => strtoull(w.n) <= IntMax

ValueOf(key, w) == IF key = "interface" THEN w.n ELSE strtoull(w.n)

Bad(c) == [ok |-> FALSE, c |-> c]
Good(c) == [ok |-> TRUE, c |-> c]

\* An empty value is no number and no name.
apply_scalar(c, line) ==
  IF line.words # <<>> /\ Takes(line.key, line.words[1])
  THEN Good([c EXCEPT ![line.key] = ValueOf(line.key, line.words[1])])
  ELSE Bad(c)

\* Mutant of TakesPort: port 0 is a port.
TakesPortZero(w) == ~w.junk /\ strtoull(w.n) \in 0 .. PortMax

TakesPort(w) == ~w.junk /\ strtoull(w.n) \in 1 .. PortMax

PortNumbers(words) == [i \in DOMAIN words |-> strtoull(words[i].n)]

parse_allow_ports(c, words) ==
  IF Len(words) <= MaxPorts /\ \A i \in DOMAIN words : TakesPort(words[i])
  THEN Good([c EXCEPT !.allow_ports = PortNumbers(words)])
  ELSE Bad(c)

Numbers(words) == [i \in DOMAIN words |-> words[i].n]

parse_csv_cidrs(words) ==
  Len(words) <= MaxCidrs /\ \A i \in DOMAIN words : ~words[i].junk

\* A list of networks that is empty is as good as none.
apply_line(c, line) ==
  CASE line.key \in Scalars -> apply_scalar(c, line)
    [] line.key = "allow_ports" -> parse_allow_ports(c, line.words)
    [] line.key \in {"local_networks", "allow_networks"} /\ line.blank -> Good(c)
    [] line.key = "local_networks" /\ ~line.blank ->
         IF parse_csv_cidrs(line.words)
         THEN Good([c EXCEPT !.auto_local = FALSE, !.local = Numbers(line.words)])
         ELSE Bad(c)
    [] line.key = "allow_networks" /\ ~line.blank ->
         IF parse_csv_cidrs(line.words)
         THEN Good([c EXCEPT !.allow = Numbers(line.words)])
         ELSE Bad(c)
    [] line.key = "eio" -> Bad(c)
    [] line.key = "other" -> Good(c)

\* What is read after one more line.  A bad line ends the reading.
PastLine(s, line) == IF s.ok THEN apply_line(s.c, line) ELSE s

\* Mutant of vg_config_load: the file is read over the configuration in use.
LoadOver(c0, f) ==
  LET after[n \in 0 .. Len(f)] == IF n = 0 THEN Good(c0) ELSE PastLine(after[n - 1], f[n])
      r == after[Len(f)]
  IN  [r EXCEPT !.c.idle_poll_ms = IF @ <= 0 THEN Defaults.idle_poll_ms ELSE @]

\* Reads f into the defaults, whatever there was before (c0).  A file that is
\* not there is as good as an empty one.
vg_config_load(c0, f) ==
  LET after[n \in 0 .. Len(f)] == IF n = 0 THEN Good(Defaults) ELSE PastLine(after[n - 1], f[n])
      r == after[Len(f)]
  IN  [r EXCEPT !.c.idle_poll_ms = IF @ <= 0 THEN Defaults.idle_poll_ms ELSE @]

\* The first MaxCidrs addresses of the interface.
vg_config_auto_local(c, addrs) ==
  IF c.auto_local
  THEN [c EXCEPT !.local = SubSeq(addrs, 1, IF Len(addrs) < MaxCidrs THEN Len(addrs) ELSE MaxCidrs)]
  ELSE c

WithInterface(c) ==
  IF override = 0 THEN c ELSE [c EXCEPT !.interface = override]

\* Mutant of Kept: the new size of the drop map is taken over.
KeptButSize(n) == [n EXCEPT !.interface = cfg.interface]

\* What a reload keeps of the configuration in use.
Kept(n) == [n EXCEPT !.interface = cfg.interface, !.drop_map_size = cfg.drop_map_size]

\* vg_ctrl_reload: the configuration is replaced only when the file was read
\* and the addresses were found (found), and whatever happens to the maps then.
vg_ctrl_reload(f, addrs, found) ==
  LET r == vg_config_load(cfg, f)
      n == WithInterface(Kept(r.c))
  IN  IF r.ok /\ (found \/ ~n.auto_local)
      THEN /\ cfg' = vg_config_auto_local(n, addrs)
           /\ file' = f
           /\ nic' = addrs
           /\ UNCHANGED <<override, begun>>
      ELSE UNCHANGED vars

\* main: the daemon starts only with a file it could read.
Init ==
  /\ override \in Overrides
  /\ file \in Files
  /\ nic \in Nics
  /\ vg_config_load(Defaults, file).ok
  /\ cfg = vg_config_auto_local(WithInterface(vg_config_load(Defaults, file).c), nic)
  /\ begun = <<cfg.interface, cfg.drop_map_size>>

Reload == \E f \in Files, addrs \in Nics, found \in BOOLEAN : vg_ctrl_reload(f, addrs, found)
----------------------------------------------------------------------------
(***************************************************************************)
(* Properties.                                                             *)
(***************************************************************************)

\* Whatever the file holds, the numbers fit their fields and the lists their
\* arrays, a port is a port, and the tick has a period (apply_scalar,
\* parse_int, parse_allow_ports, parse_csv_cidrs, vg_config_load).
TypeOK == cfg \in vg_config /\ cfg.idle_poll_ms # 0

\* The lines of a key, and those that are not empty.
Of(f, key) == {i \in DOMAIN f : f[i].key = key}
Filled(f, key) == {i \in Of(f, key) : ~f[i].blank}

\* The words of the last of some lines.
WordsOf(f, lines) == f[CHOOSE i \in lines : \A j \in lines : j <= i].words

Number(f, key) ==
  IF Of(f, key) = {} THEN Defaults[key] ELSE strtoull(WordsOf(f, Of(f, key))[1].n)

\* c is what the file f says, with the interface's addresses addrs for local.
Means(c, f, addrs) ==
  /\ c.wake_pps = Number(f, "wake_pps")
  /\ c.idle_poll_ms =
       IF Number(f, "idle_poll_ms") = 0 THEN Defaults.idle_poll_ms ELSE Number(f, "idle_poll_ms")
  /\ c.allow_ports =
       IF Of(f, "allow_ports") = {} THEN Defaults.allow_ports
       ELSE PortNumbers(WordsOf(f, Of(f, "allow_ports")))
  /\ c.allow =
       IF Filled(f, "allow_networks") = {} THEN Defaults.allow
       ELSE Numbers(WordsOf(f, Filled(f, "allow_networks")))
  /\ IF Filled(f, "local_networks") = {}
     THEN c.local = SubSeq(addrs, 1, Len(c.local)) /\ (c.local = addrs \/ Len(c.local) = MaxCidrs)
     ELSE c.local = Numbers(WordsOf(f, Filled(f, "local_networks")))

\* After any number of reloads, some of which failed halfway down the file, the
\* configuration is what the last file that was accepted says, with nothing
\* left of the files before it: the last line of a key counts, a list of
\* networks that is not empty replaces the default, and only a file without
\* one has the interface's addresses for local (vg_config_load, vg_ctrl_reload).
ConfigMeansFile == Means(cfg, file, nic)

\* A reload never moves the daemon to another interface or changes the size of
\* maps that are already made, to which the pool of drop records was fitted
\* (vg_ctrl_reload, vg_ctrl_init).
StartupFieldsStay ==
  /\ begun = <<cfg.interface, cfg.drop_map_size>>
  /\ override # 0 => cfg.interface = override
=============================================================================
