# voidgate in TLA+

A model of voidgate: the daemon that decides which prefixes are dropped, the
kernel maps it keeps them in, the XDP program that reads those maps, the
processes that start and stop the daemon, the clients that send it commands, and
what comes in from outside: configuration files, frames, prefixes. Most
properties here are about what a test hardly reaches: a system call that fails in
the middle of a command, a packet that arrives in the middle of a reload, an LRU
entry evicted in the middle of a walk, a process that starts in the middle of
another one's exit, a client that gives up while its command waits.

## The system

| Part | State | Operations | What is hard |
|---|---|---|---|
| control plane (`policy.c`) | IDLE/ACTIVE, `quiet_since`, drop list, record pool, configuration | `drop`, `drop ttl=`, `undrop`, `arm`, `disarm`, `reload`, the tick (wake, walk, aggregate, expire, disarm when calm) | kernel calls that fail half way; merging drops of four reasons; boundaries of expiry |
| rate snapshots (`policy.c`, `maps.c`) | per-remote counters in two LRU maps, snapshots with generations, their pool | walk key by key, first-sight baseline, prune | eviction under the cursor, budgets, leftovers of an earlier attack, wrap of the generation |
| XDP program (`voidgate.bpf.c`) | reads `cfg`, `allow`, `local`, `drop` | the lookups of one packet | maps that change between two lookups |
| reload (`ctl_server.c`, `maps.c`) | the same maps, written | prune, commit, flush and refill | not atomic; a commit that fails |
| lifecycle (`voidgate.c`) | pid file (name, inode, lock, contents), socket, XDP hook | start, SIGTERM, exit, `-s stop`, crash | file locked by inode and unlinked by name; order of release |
| event loop, control protocol (`voidgate.c`, `ctl_server.c`, `http.c`) | one connection or tick at a time | poll, accept, read a line, run, reply | slow clients, truncated lines, a late tick |
| OpenResty client, `voidgatectl` | deduplication dictionary, timers | `ban`, `ban_now`, one command | timers that fail, time-outs while the command is applied, restarts of the daemon |
| drop list (`policy.c`, `list.h`) | two intrusive lists and a hash table over one pool | link, unlink, walk, reset | unlinking under a walk, stale pointers |
| configuration (`config.c`) | the fields of `vg_config` | load, reload | files half read, limits of numbers and lists |
| addresses (`ipaddr.c`), logging | - | - | bits inside a byte |

The daemon has one thread. Commands and ticks therefore never overlap; XDP runs
concurrently with every step, and so do other processes.

## Modules

* **Policy** - the control plane. A command is one action. A tick is a chain of
  actions (`pc`: walk, aggregate, quiet), since each phase reads the clock for
  itself; no command runs inside it. `drops` maps each prefix to its record,
  which stands for the list `drop_all` with its hash index; the pool is counted
  (`drop_used`, `drop_free`, `drop_count`). `kdrops` and `karmed` are the
  kernel's side. `Faults` names the kinds of kernel call that may fail and
  `MaxFaults` how many do. A failed flush may leave any of the entries. Which
  remotes are over threshold is an input.
* **DropContract** - what a drop promises, without pool, kernel or failures: who
  may end a ban and when. `Policy` implements it (`KeepsContract`, a refinement
  that maps a record to a ban).
* **Rates** - where that input comes from: XDP counting in LRU maps, the walk
  with its cursor and budget (`Ahead` is what `bpf_map_get_next_key` has left),
  snapshots, generations and prune. `GenMod` stands for 2^32.
* **Gate** - XDP and daemon on the shared maps. Each lookup of a packet is a step
  and so is each map write of a reload or a disarm. A packet is its two addresses
  and a kind (service port, DHCP, link-local, anything else). `live` and `seen`
  remember the configurations a packet has lived through.
* **Lifecycle** - processes on pid file, socket and XDP hook, killed anywhere. A
  step is one system call on one of these: `open`, `flock`, `read`, `ftruncate`,
  `pwrite` and `unlink` of the pid file, `connect`, `unlink`, `bind`, `listen` and
  `close` of the socket, attach and detach. A `bind` may fail, and the daemon then
  serves without a socket.
* **Control** - the event loop in discrete time, the connections it serves and the
  programs at their other end. The daemon is at one place of its loop (`pc`);
  time passes (`Pass`) only while it blocks in `poll` or in a read, or is down, so
  ticks and commands take none. A connection is a record that both ends see. A
  line is counted in units of which `ReqMax` fit the daemon's buffer. The drop
  list is what DropContract says of it. A command that fails leaves it as it was,
  but for a disarm, which has flushed maps and list before the commit that fails.
  `MCControl` adds what `ban` has told its callers.
* **Config** - the configuration through start and reloads. A file is a sequence
  of lines, a value a sequence of words; reading is a loop over the lines that
  stops at the first bad one.
* **Packet** - what XDP reads of a frame: a row of headers of which the first
  `whole` are inside it. Each bounds check of the program is a comparison with
  `whole`. It gives the verdict on a frame of a dropped source; the lookups are in
  Gate. `NdiscRs .. NdiscLast` is the range 133 to 137 of the types of NDP.
* **Cidr** - the arithmetic of prefixes by bytes, and of numbers by digits, next to
  what they mean.
* **DropList** - the drop list with every pointer assignment of `list.h`: `drop_all`
  and `drop_free` as circular lists, the buckets as chains with `pprev`, and a walk
  with its `pos` and `n`. A record keeps its pointers when the list is reset, as in
  the code.
* **DropSet** - what Policy takes that list for: prefixes in order, each once, and
  two counters of the pool. `DropList` implements it (`IsDropSet`).
* **MCPolicy, MCPolicyTime, MCPolicyLive, MCRates, MCGate, MCControl, MCInputs,
  MCDropList** - instances for TLC with the histories their properties need.
  MCInputs puts Config, Packet and Cidr together: frames arrive under the ports of
  the configuration in use.
* **PolicyProofs, GateProofs, RatesProofs, LifecycleProofs, ControlProofs,
  DropListProofs, CidrProofs, InputProofs** - theorems: about Policy and the
  refinement of DropContract; Gate; Rates; Lifecycle; Control; DropList and the
  refinement of DropSet; Cidr; and Packet and Config with MCInputs.

In each module an operator whose comment begins "Mutant of" is a plausible bug in
the definition it names; put in its place, it must break a property.

In Policy and Gate a prefix is the set of addresses it covers. That the bytes and
masks of `ipaddr.c` decide equality, containment and overlap of these sets is
`PrefixMeansSet`, which is proved for bytes and addresses of every width.
In the same way IsDropSet justifies the list of Policy, and `DropListHolds` and `ExemptPass` the kinds of packet in Gate.

## Runs

| Run | Checks | Instance |
|---|---|---|
| `policy_faults` | a listed drop is enforced; armed flag = state; only `disarm` orphans an entry; pool accounting; the pool outlasts the maps; after an attack everything is lifted and the gate disarms | two hosts, their /24 and two IPv6 prefixes, maps of two entries, so that both maps fill and the pool is empty; any two failures; events in the first two seconds of five, with a `ban_time` of 0 and of 1 |
| `policy_time` | the drop contract, no protected drop, maps = list, disarm only when calm | one host and its /24, five seconds, ttl 1 and 3, two configurations that differ in `ban_time`, `clear_seconds`, `aggregate_k` and local networks; updates, commits and metric reads fail |
| `droplist` | links and buckets agree; a walk meets every record; the list refines DropSet | three prefixes in one bucket, a pool of three |
| `rates` | no phantom flood; pool; generations | two IPv4 sources in a map of one entry, one IPv6 source, three generations |
| `rates_truncated` | *violated:* a rate is per second | three sources in a map of two |
| `gate` | protected traffic passes; maps disjoint; reload whole | three configurations, three drops, six packets |
| `gate_reload` | *violated:* service ports are never dropped | the same |
| `lifecycle` | a daemon has its lock while attached or bound; `-s stop` signals only the holder; restart takes over; SIGTERM heeded | two daemons, one stop, one crash or failed write |
| `lifecycle_two` | *violated:* one daemon at a time | three daemons, no crash |
| `control` | the tick is on time; answers are truthful; commands run whole; every connection ends; an offender gets banned | one address, a timer's connection and another one, buffer of three units, one fault |
| `control_ban` | *violated:* `ban` returns true only with the ban queued | two addresses, one pending timer allowed |
| `inputs` | the configuration means the file; start-up fields stay; nothing slips past the drop list; exempt frames pass; prefixes mean sets; numbers are exact | see below |

The bounds are the smallest in which the cases meet: two failures, because a
repair can fail as well; five seconds, so that a ban of three can be merged with
one of one, re-timed by a reload and expire; one source more than snapshots; a
reload between configurations that agree and disagree about a peer, a port and
an address; unsigned numbers of three bits, in which twice a map of two still fits.

`inputs` has every file of up to two lines out of 23, which cover each kind of key
with values that fit, do not fit, wrap and are missing, and reloads from any of
them to any other. Numbers have 4 bits at most (the limits of 16, 31, 32 and 64
bits keep their order), lists two entries, an interface none or one address too
many. Frames have up to one tag and one extension header more than the program
reads (limits 1 and 2 in place of 2 and 8), are cut after any header, and have any
pair of four ports and ICMPv6 types below, in and above a range of two. Bytes have
two bits, addresses one or two bytes, and every two prefixes are compared, with any
bits behind them. Numbers have up to four digits, two for a documented length,
against a ttl limit of 31 in a word of 512, which keeps ten times the limit inside
the word, as one year and 2^32 do. A file that is not there is an empty one.

In `control`, two units make the shortest line that can be cut, and one connection
besides the timer's is enough to be ahead of it or behind it. `Window` is longer
than `Ttl`, so that a ban ends while its key is still there.

In `droplist` the three prefixes share a bucket, so that records are removed from
its head, middle and end; a pool of three is the least in which a walk has a
record before and behind the one it unlinks.

*Fairness.* `policy_faults` assumes that a tick that can go on does (weak fairness
of `Work`) and that the clock advances (strong fairness of `Second`, which a
running tick disables); the event loop ticks at least once a second and the
commands of other clients stop. `lifecycle` assumes that a started process is
scheduled. `control` assumes that the daemon is scheduled (`Serve`), that the
service manager restarts it, that time passes, that nginx runs a timer that is
due, and, for `OffenderIsBanned` only, that the address goes on offending through
`ban` with a dict. Nothing is assumed of `voidgatectl`, `ban_now` or other
programs: they may connect for ever, and send nothing. The instance has one
address, because timers of others may keep the pool of timers full for ever.

`policy_time` leaves out failing deletes and flushes. After a delete that fails in a
reload a protected prefix stays dropped, which `NoProtectedDrop` excludes; after a
flush that fails in a disarm the maps have entries that are not listed, which
`KernelMirrorsList` excludes. What holds with both is `OnlyDisarmOrphans` in
`policy_faults`: a failed delete leaves the record, too, and only a disarm leaves
entries that nothing tracks.

## What the violated runs show

* *Rates.* A truncated walk rightly keeps the snapshots it did not reach. The
  next visit then counts two ticks of packets, and `policy_one_remote` divides by
  the time of one. Half of `threshold_pps` is enough to be dropped.
* *Reload.* `vg_populate_local` empties the local map before refilling it. In
  between, a packet to a service port of a local address is not exempt, and one
  from a dropped source is dropped. The same window is harmless for traffic
  between protected addresses, because no drop covers them: that is
  `ProtectedTrafficPasses`.
* *Lifecycle.* B opens the pid file; A unlinks it and exits; B locks the file that
  has lost its name; C creates and locks a new one. If C looks for a socket before
  B listens, both attach.
* *Ban.* `M.ban` sets the key first and asks for the timer then. When there are too
  many timers it returns the error, but the key stays, and for a window every call
  for that address returns true with nothing queued. `OffenderIsBanned` shows that
  this ends with the window.

Two more differences were met and have no run. The comment on `vg_parse_cidr` has a
length of 1 to 3 digits and everything else rejected; the loop of `vg_parse_cidr_len`
bounds the value and not the number of digits, so that `/0024` is read as `/24`.
`NumbersAreExact` says what holds either way: a length is read as the number that is
written or refused, and never refused when it is written as documented. And
`policy.h` gives the pool a record for each entry of both maps; `vg_ctrl_init` doubles
in 32 bits, and a `drop_map_size` of 2^31, which `config.c` lets through, makes a pool
of none (`WrappedPoolIsEmpty`).

## Proofs

The theorems hold for every value of the constants that the assumptions named in
the modules allow (each `ASSUME` is in the module that declares the constants, and
TLC evaluates it on the instances): that sets that are finite in the code are
finite; that families, processes, ports of DHCP and marks are distinct; that
prefixes are not empty, and a host is in its network; that sizes and times are
natural numbers, positive where the code has them so; that integer types are
ordered as their widths are; that defaults have the types of the configuration;
that no address is longer than `MaxBits` (128); that ten times the largest ttl, and a
digit, fit 32 bits (`VG_MAX_DROP_TTL` is a year); that map sizes fit 32 bits (`U32`),
while twice a map size need not. `FrameSet` and `DigitSet` of MCInputs
are any frames and any digits.
The bounds that keep TLC's state spaces finite (`Horizon`, `MaxFaults`, `MaxKills`,
`MaxCount`) are constants like the others: a theorem is about any of them.

A module about a state machine proves `Invariance`, that its `IInv` (`InputInv` in
InputProofs) always holds, and gets the properties from it. What `IInv` adds to the properties is what the code relies on
without saying so.

**PolicyProofs**, for any prefixes, map size, configurations and failing calls.

* `TypeCorrect`, `Enforcement`, `ArmedAgrees`, `PoolAddsUp`: `TypeOK`,
  `DropsAreEnforced`, `ArmedIffActive`, `PoolIsAccountedFor`. That the pool does not
  overflow needs that the maps do not (`MapsFit`) and that listed prefixes are in
  the maps; enforcement needs that the gate is armed whenever something is listed.
  `IInv` is split in `DropInv` (list, pool, maps) and `LoopInv` (the rest), so that
  an action that leaves one alone gets it from a frame lemma.
* `PoolSuffices` (`PoolOutlastsMaps`), if twice `drop_map_size` is less than 2^32,
  counts: the listed prefixes of the two families are in two maps of which one has
  room, and the pool has a record for each entry of both. `WrappedPoolIsEmpty`: if it
  is 2^32 the pool has none, and nothing is ever listed.
* `OrphansComeFromDisarm` (`OnlyDisarmOrphans`, an action property),
  `ProtectedStayOut` (`NoProtectedDrop`, if deletes do not fail) and
  `MapsMirrorList` (`KernelMirrorsList`, if flushes do not). All three follow from
  `ListStep`: every step adds one prefix to list and maps, lifts some from both,
  forgets the list, or leaves it. The two conditions are necessary:
  `vg_ctrl_prune_protected` keeps the record of a drop it could not delete, and a
  disarm forgets a list it could not flush.
* `ContractIsKept`: Policy implements DropContract. One lemma (`AddBans`) says what
  `drop_add`, which merges a drop with the one already there, makes of a promise;
  each action is then a step of the contract or leaves it as it is.
* `DisarmIsCalm` (`OnlyCalmDisarms`, an action property): while the quiet lasts, the
  last loud tick (`loud_at`, a history variable) is not after its beginning
  (`LoudInv`).

**GateProofs**, for any addresses, configurations, drops and packets.

* `NeverDropsProtected` (`ProtectedTrafficPasses`), `DropsStayApart`
  (`MapsAreDisjoint`), `ReloadCompletes` (`ReloadIsWhole`), `TypeCorrect`. `MapsFollow`
  says which maps are the new configuration's at each point of a reload,
  `DropsAreClear` that each drop is clear of a configuration still live, and
  `PacketSees` that the packet in flight has seen all of these. Its lookups are
  steps of their own, between any steps of the daemon.

**RatesProofs**, for any sources, map size, threshold and width of `snap_gen`.

* `TypeCorrect`, `SnapshotsAddUp` (`SnapPoolAddsUp`), `FreshGenerations`
  (`GenerationIsFresh`): the generations of snapshots are between 1 and the current
  one, which a wrap would break if it kept a snapshot.
* `FloodsAreReal` (`FloodIsOfThisAttack`, over `AttackSpec`): a counter is past its
  snapshot by no more than was sent since the gate was armed (`SentCovers`).

**LifecycleProofs**, for any number of daemons, stops and kills.

* `TypeCorrect`, `ReleasesFirst` (`ReleasedBeforeUnlock`): while its program is on the
  interface or its socket at the path, a daemon that lives has its lock, because it
  is between its attach and its detach, or its bind and its unlink (`OwnsFollow`).
  A daemon that could not bind unlinks no socket at its end; that it then has none
  at the path needs that one that did bind listens.
* `SignalsTheHolder` (`StopSignalsHolder`): `PidFollows` says that a pid leads to the
  daemon that wrote it and has that file open, which is why a stop may read it
  before it looks at the lock.
* `OneServesPerFile`: what is true of one daemon at a time, which `lifecycle_two`
  violates: it holds for each inode.

**ControlProofs**, for any number of clients, addresses and timers, all timeouts and
buffers of more than two units.

* `TicksOnTime` (`TickIsOnTime`): the time of a round is at most the poll's, one
  timeout for each unit read, and what it has waited for the next (`OnTime`).
* `AnswersAreTruthful` (`AnswerIsTruthful`, an action property): the step that closes
  a connection is the one that runs its command, and a success is heard only when
  the drop list has changed as the command says. After an error it is unchanged, or
  empty if the command is a disarm.
* `CommandsRunWhole` (`WholeCommandRuns`): `Lines` says what a client has sent by the
  time it is served, and that only other programs are read in pieces. Both rest on
  it: a line that is cut short is that of a client that has left.
* `ConnectionsAreKept`: a connection that is not closed is served or queued, once.
* `TypeCorrect` (`TypeOK`): besides the above, what the daemon runs is one of its
  commands, since a line that is too long is refused before it is run, and there
  are never more pending timers than nginx allows (`Kept`).

**DropListProofs**, for any number of records, prefixes and buckets, and every hash.

* The invariant describes pointers by sequences (`Shape`): s, the records on
  `drop_all`, and t, those on `drop_free`, are circular lists without a record in
  common (`Ring`, `Rings`), together they are the records handed out, and each
  bucket is a chain of the records of s that hash to it (`Chain`, `Table`). It says
  nothing of the pointers of records that are on no list, which after a reset are
  old ones. One lemma for each function of `list.h` says what it makes of the
  sequence of its list, and that every list apart from it stays as it is.
* `LinksAgree` (`ListsAgree`), `WalksMeetAll` (`WalkMeetsAll`): a walk stands at the k-th
  of s, n is the one behind it, and the records it has still to meet are those of
  the list at its beginning (`Walk`). The body unlinks only the record it stands at.
* `Refines` (`IsDropSet`): every operation is that of DropSet on the prefixes of s, or
  changes none of them. That a prefix has one record needs that `drops_find` looks
  in the bucket it is in (`Table`).

**CidrProofs**, for every width of byte, length of address and number of digits.

* `NumbersAreRight`: `parse_ttl` and the digits of `vg_parse_cidr_len` give the decimal
  number or refuse it, as `NumbersAreExact` says. By induction over the digits: up
  to the first value past the limit nothing has wrapped, and after it all is
  refused (`TtlIs`, `PlenIs`).
* `PrefixesAreSets`: an address is a number (`Value`) in base 2^ByteBits, and its first n
  bits are that number divided by a power of two (`CutIs`). So masking is rounding
  down to a block (`MaskIs`), `bits_equal` is equality of quotients, and containment,
  equality and overlap of prefixes are those of blocks, of which two are disjoint
  or one is inside the other.

**InputProofs**, for frames with any number of headers, files of any length, and all
limits of headers, numbers and lists.

* `VerdictIsEarned`: as long as 0 is not an allowed port, a frame of a dropped
  source is dropped exactly if its addresses can be read and it has earned no
  exemption. The two loops of the
  program (tags, extension headers) are recursive functions; `NetworkHeaderIs` and
  `WalkIs` say where they end.
* `FileIsConfig` (`ConfigMeansFile`), `FieldsFit` (`TypeOK`), `StartupIsKept`
  (`StartupFieldsStay`): by induction over the lines, what is read of the first n is
  what they say (`MeansTo`).
* `NoWayPast` (`DropListHolds`), `ExemptAlwaysPass` (`ExemptPass`): `VerdictIsEarned`
  for the frames of MCInputs, and that no file makes 0 a port.
* `PrefixesMeanSets` (`PrefixMeansSet`), `NumbersStayExact` (`NumbersAreExact`): the theorems
  of CidrProofs for the prefixes and digits of MCInputs.

*Induction.* The induction theorems of the library take an operator, which the
provers cannot instantiate. CidrProofs and DropListProofs have them for sets
(`Induct`, `InductTo`), from the well-foundedness of the naturals, and CidrProofs has
from these that a loop, written as a recursive function, exists and has the values
its body gives it (`LoopExists`). The lemmas of DropListProofs have induction as a
hypothesis (`Induction`), and those of PolicyProofs on contract and calm that an empty
pool count is an empty list (`CountTells`): `NatInduct` and `CountIsRight` prove these, and
the theorems cite them. The library's theorems come into scope only there, which
keeps the provers' context small.

*What the proofs changed in the models.* In Packet, guards of CASE expressions
overlapped; TLC takes the first that is true, TLA+ leaves open which, and nothing
could be proved: they are IFs now, in the order of the code. `ConfigMeansFile` said
that `allow_ports` has the numbers as written. A port below zero that `strtoull`
wraps into the range is accepted as what it wraps to; the property now says so,
and the instance has such a line. Loops over bytes, digits and nodes, and powers of
two, are recursive functions in place of folds; what a loop does in one turn has a
name (`PlenDigit`, `TtlDigit`). The pending timers of Control are a sequence in place of
a count for each address, so that their number is its length and not a sum.

*Only model-checked.* Liveness under fairness, which is
out of the prover's reach: `CalmClears`, `RestartTakesOver`, `StopIsHeeded`,
`EveryRequestEnds` and `OffenderIsBanned`. Every invariant and every action property
that a run checks, and both refinements, are proved.

## Not modelled, and next

Left out of Gate: deletes and updates of single prefixes that fail (the code warns
and goes on; Policy has what that does to the drop list). Left out of Lifecycle:
process ids that are reused, the readiness pipe between the forked daemon and its
parent. Left out of DropList: the doubling of `drop_nbuckets` in 32 bits, which for a
pool of more than 2^31 records comes to 0 and does not end.
Left out of Control: more clients at once than the backlog of 16 holds, keys that
nginx evicts from a dict that is full, replies that the client is too slow to
take, and the commands `arm`, `reload`, `status`, `stats` and `drops`, which go the
same way. Of the scalars of a configuration there is one of each kind.

Left out altogether: the text of replies, of the log and of the metrics page;
splitting lines into words; `inet_pton`; the metrics and per-host counters of XDP and
their sums over the CPUs; loading the BPF object. These format or add and decide
nothing. Byte rates repeat packet rates. The wall clock does not jump.

In order:

1. Rates composed with Policy, in place of the arbitrary set of remotes;
2. the start of the daemon with the readiness pipe;
3. DropSet in place of the function from prefixes to records in Policy, so that the
   proofs about the pointers and about the commands make one chain.
