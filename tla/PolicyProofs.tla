---------------------------- MODULE PolicyProofs ----------------------------
(***************************************************************************)
(* Proofs about Policy, for every set of prefixes, map size, set of        *)
(* configurations and pattern of failing kernel calls.                     *)
(*                                                                         *)
(* The inductive invariant IInv adds to the type invariant the facts that  *)
(* depend on one another: the pool adds up only because a drop is taken    *)
(* off the list exactly when it is on it, the list is enforced only        *)
(* because a record is made after its map entry and while armed, and the   *)
(* pool outlasts the maps only because no map holds more than its size.    *)
(***************************************************************************)
EXTENDS MCPolicyTime, TLAPS

\* Neither drop map holds more than drop_map_size entries.
MapsFit ==
  /\ Cardinality(kdrops \cap V4) <= DropMapSize
  /\ Cardinality(kdrops \cap V6) <= DropMapSize

\* The part of the invariant that a drop, a lift or a disarm can disturb.
DropInv ==
  /\ state \in {"IDLE", "ACTIVE"}
  /\ quiet_since \in Nat
  /\ drops \in [Prefix -> Record]
  /\ \A p \in Listed : drops[p].reason \in Reasons /\ drops[p].inserted > 0
  /\ drop_count \in Nat
  /\ drop_used \in Nat
  /\ drop_free \in Nat
  /\ kdrops \subseteq Prefix
  /\ karmed \in BOOLEAN
  /\ faults \in Nat
  /\ DropsAreEnforced
  /\ ArmedIffActive
  /\ PoolIsAccountedFor
  /\ MapsFit

\* The part that only the clock, a reload and the tick's phases touch.
LoopInv ==
  /\ cfg \in Configs
  /\ now \in Nat \ {0}
  /\ pc \in {"poll", "walk", "aggregate", "quiet"}
  /\ over \subseteq Hosts
  /\ net \in Prefix \cup {{}}
  /\ pc = "aggregate" => net \in Prefix

IInv == DropInv /\ LoopInv

\* The pool's count tells when nothing is listed: CountIsRight, below.
CountTells == DropInv /\ drop_count = 0 => Listed = {}

LEMMA ListedSub == Listed \subseteq Prefix
  BY DEF Listed

----------------------------------------------------------------------------
(***************************************************************************)
(* The control plane implements DropContract, and disarms by itself only   *)
(* after the calm that the configuration asks for.                         *)
(*                                                                         *)
(* The step proof rests on what drop_add, the one operation that merges a  *)
(* new drop with an old one, makes of the record of its prefix (AddBans),  *)
(* and on the pool's count telling the tick that nothing is listed.        *)
(***************************************************************************)

\* The promise behind a record, as a function of the record alone.
Promise(r, ban_time) ==
  CASE r = NoRec -> [kind |-> "none", end |-> 0]
    [] r.reason = "MANUAL" -> [kind |-> "manual", end |-> 0]
    [] r.reason = "TIMED" -> [kind |-> "timed", end |-> r.expires]
    [] OTHER -> [kind |-> "auto", end |-> r.inserted + ban_time]

LEMMA PromiseOfRecord ==
  ASSUME NEW p
  PROVE  /\ BanOf(p) = Promise(drops[p], cfg.ban_time)
         /\ BanOf(p)' = Promise(drops'[p], cfg'.ban_time)
  BY DEF BanOf, Promise

\* A record that lists its prefix.
Lists(r) == r \in Record /\ r.reason \in Reasons

LEMMA PromiseCases ==
  ASSUME NEW r, Lists(r), NEW t \in Nat
  PROVE  /\ r.reason = "MANUAL" => Promise(r, t) = [kind |-> "manual", end |-> 0]
         /\ r.reason = "TIMED" => Promise(r, t) = [kind |-> "timed", end |-> r.expires]
         /\ r.reason \in {"POLICY", "AGGREGATE"}
              => Promise(r, t) = [kind |-> "auto", end |-> r.inserted + t]
  <1>1. r # NoRec
    BY DEF Lists, Reasons, NoRec
  <1>2. CASE r.reason = "MANUAL"
    BY <1>1, <1>2, Zenon DEF Promise
  <1>3. CASE r.reason = "TIMED"
    BY <1>1, <1>3 DEF Promise
  <1>4. CASE r.reason \in {"POLICY", "AGGREGATE"}
    BY <1>1, <1>4 DEF Promise
  <1> QED BY <1>2, <1>3, <1>4 DEF Lists, Reasons

LEMMA PromiseOfNone == \A t : Promise(NoRec, t) = Contract!NoBan
  <1>1. NoRec.reason # "MANUAL" /\ NoRec.reason # "TIMED"
    BY DEF NoRec
  <1> QED BY <1>1, Zenon DEF Promise, Contract!NoBan

\* A record that lists its prefix promises a ban.
LEMMA PromiseType ==
  ASSUME NEW r, Lists(r), NEW t \in Nat
  PROVE  /\ Promise(r, t) \in [kind : {"manual", "timed", "auto"}, end : Nat]
         /\ Promise(r, t) # Contract!NoBan
  <1>1. r.expires \in Nat /\ r.inserted + t \in Nat /\ r.reason \in Reasons
    BY DEF Lists, Record
  <1>2. CASE r.reason = "MANUAL"
    BY <1>2, PromiseCases DEF Contract!NoBan
  <1>3. CASE r.reason = "TIMED"
    BY <1>1, <1>3, PromiseCases DEF Contract!NoBan
  <1>4. CASE r.reason \in {"POLICY", "AGGREGATE"}
    BY <1>1, <1>4, PromiseCases DEF Contract!NoBan
  <1> QED BY <1>1, <1>2, <1>3, <1>4 DEF Reasons

\* In a state of the invariant a record lists its prefix or is NoRec.
LEMMA RecordsList ==
  ASSUME IInv, NEW p \in Prefix
  PROVE  /\ drops[p] = NoRec \/ Lists(drops[p])
         /\ cfg.ban_time \in Nat
         /\ BanOf(p) \in Contract!Ban
         /\ BanOf(p) = Contract!NoBan <=> p \notin Listed
  <1>1. /\ drops[p] \in Record
        /\ p \in Listed => drops[p].reason \in Reasons
        /\ cfg.ban_time \in Nat
    BY ConfigAssumption DEF IInv, DropInv, LoopInv
  <1>2. drops[p] = NoRec \/ Lists(drops[p])
    BY <1>1 DEF Listed, Lists
  <1>3. CASE drops[p] = NoRec
    BY <1>1, <1>2, <1>3, PromiseOfRecord, PromiseOfNone, SMTT(60) DEF Contract!Ban, Listed
  <1>4. CASE Lists(drops[p])
    <2>1. drops[p] # NoRec
      BY <1>4 DEF Lists, NoRec, Reasons
    <2> QED BY <1>1, <1>4, <2>1, PromiseOfRecord, PromiseType DEF Contract!Ban, Listed
  <1> QED BY <1>1, <1>2, <1>3, <1>4

\* What drop_add takes for the end of a listed drop is its promised end.
LEMMA EndIsPromised ==
  ASSUME IInv, NEW p \in Listed, drops[p].reason # "MANUAL"
  PROVE  /\ BanOf(p).kind \in {"timed", "auto"}
         /\ BanOf(p).end = EndOf(drops[p])
         /\ EndOf(drops[p]) \in Nat
  <1>1. p \in Prefix /\ Lists(drops[p]) /\ cfg.ban_time \in Nat
    BY RecordsList, SMTT(60) DEF Listed
  <1>2. CASE drops[p].reason = "TIMED"
    <2>1. BanOf(p) = [kind |-> "timed", end |-> drops[p].expires]
      BY <1>1, <1>2, PromiseOfRecord, PromiseCases, Zenon
    <2> QED BY <1>1, <1>2, <2>1, SMTT(60) DEF EndOf, Lists, Record
  <1>3. CASE drops[p].reason \in {"POLICY", "AGGREGATE"}
    <2>1. BanOf(p) = [kind |-> "auto", end |-> drops[p].inserted + cfg.ban_time]
      BY <1>1, <1>3, PromiseOfRecord, PromiseCases, Zenon
    <2> QED BY <1>1, <1>3, <2>1, SMTT(60) DEF EndOf, Lists, Record
  <1> QED BY <1>1, <1>2, <1>3 DEF Lists, Reasons

\* Steps that leave the records and the ban time leave the promises.
LEMMA SamePromises ==
  ASSUME cfg' = cfg, NEW q, drops'[q] = drops[q]
  PROVE  BanOf(q)' = BanOf(q)
  BY PromiseOfRecord

\* A record written for p promises what was asked for, and the other
\* prefixes keep their promises.
LEMMA SetRecordBans ==
  ASSUME IInv, cfg' = cfg, NEW p \in Prefix, NEW reason \in Reasons,
         NEW expires \in Nat, SetRecord(p, reason, expires)
  PROVE  /\ BanOf(p)' # Contract!NoBan
         /\ reason = "MANUAL" => BanOf(p)'.kind = "manual"
         /\ reason = "TIMED" => BanOf(p)' = [kind |-> "timed", end |-> expires]
         /\ reason \in {"POLICY", "AGGREGATE"} => BanOf(p)' \in [kind : {"auto"}, end : Nat]
         /\ \A q \in Prefix \ {p} : BanOf(q)' = BanOf(q)
  <1> DEFINE r == [reason |-> reason, inserted |-> now, expires |-> expires]
  <1>1. now \in Nat /\ cfg.ban_time \in Nat /\ drops \in [Prefix -> Record]
    BY RecordsList DEF IInv, LoopInv, DropInv
  <1>2. drops' = [drops EXCEPT ![p] = r]
    BY DEF SetRecord
  <1>3. Lists(r) /\ r.reason = reason /\ r.expires = expires /\ r.inserted = now
    BY <1>1 DEF Lists, Record, Reasons
  <1> HIDE DEF r
  <1>4. drops'[p] = r /\ \A q \in Prefix \ {p} : drops'[q] = drops[q]
    BY <1>1, <1>2, SMTT(60)
  <1>5. BanOf(p)' = Promise(r, cfg.ban_time)
    BY <1>4, PromiseOfRecord
  <1>6. \A q \in Prefix \ {p} : BanOf(q)' = BanOf(q)
    BY <1>4, SamePromises
  <1>7. BanOf(p)' # Contract!NoBan
    BY <1>1, <1>3, <1>5, PromiseType, SMTT(60)
  <1>8. reason = "MANUAL" => BanOf(p)' = [kind |-> "manual", end |-> 0]
    BY <1>1, <1>3, <1>5, PromiseCases, SMTT(60)
  <1>9. reason = "TIMED" => BanOf(p)' = [kind |-> "timed", end |-> expires]
    BY <1>1, <1>3, <1>5, PromiseCases, SMTT(60)
  <1>10. reason \in {"POLICY", "AGGREGATE"}
           => BanOf(p)' = [kind |-> "auto", end |-> now + cfg.ban_time]
    BY <1>1, <1>3, <1>5, PromiseCases, SMTT(60)
  <1> QED BY <1>1, <1>6, <1>7, <1>8, <1>9, <1>10, SMTT(60)

\* What a drop of p, for this reason, makes of the promises.
Banning(p, reason) ==
  /\ ~Protected(cfg, p)
  /\ BanOf(p)' # Contract!NoBan
  /\ Contract!NoWeaker(BanOf(p), BanOf(p)')
  /\ reason \in {"POLICY", "AGGREGATE"}
       => BanOf(p)' \in {BanOf(p)} \cup [kind : {"auto"}, end : Nat]
  /\ \A q \in Prefix \ {p} : BanOf(q)' = BanOf(q)

SameBans == \A q \in Prefix : BanOf(q)' = BanOf(q)

\* drop_add keeps the promise to every prefix, whatever is listed, whatever
\* reason it has and whichever call fails.
LEMMA AddBans ==
  ASSUME IInv, cfg' = cfg, NEW p \in Prefix, NEW reason \in Reasons,
         NEW expires \in Nat, NEW ok \in BOOLEAN,
         drop_add(p, reason, expires, ok)
  PROVE  SameBans \/ Banning(p, reason)
  <1>1. CASE UNCHANGED drops
    BY <1>1, SamePromises DEF SameBans
  <1>2. CASE ~Protected(cfg, p) /\ p \notin Listed /\ SetRecord(p, reason, expires)
    <2>1. BanOf(p) = Contract!NoBan
      BY <1>2, RecordsList
    <2> QED BY <1>2, <2>1, SetRecordBans DEF Banning, Contract!NoWeaker
  <1>3. CASE ~Protected(cfg, p) /\ p \in Listed /\ reason = "TIMED" /\ TimedAgain(p, expires, ok)
    <2> DEFINE end == EndOf(drops[p])
    <2>1. BanOf(p).kind \in {"timed", "auto"} /\ BanOf(p).end = end /\ end \in Nat
      BY <1>3, EndIsPromised, SMTT(60) DEF TimedAgain
    <2>2. CASE SetRecord(p, "TIMED", Later(expires, end))
      <3>1. Later(expires, end) \in Nat /\ end <= Later(expires, end)
        BY <2>1 DEF Later
      <3>2. "TIMED" \in Reasons
        BY SMTT(60) DEF Reasons
      <3>3. /\ BanOf(p)' # Contract!NoBan
            /\ BanOf(p)' = [kind |-> "timed", end |-> Later(expires, end)]
            /\ \A q \in Prefix \ {p} : BanOf(q)' = BanOf(q)
        BY <2>2, <3>1, <3>2, SetRecordBans, SMTT(60)
      <3>4. Contract!NoWeaker(BanOf(p), BanOf(p)')
        BY <2>1, <3>1, <3>3, SMTT(60) DEF Contract!NoWeaker
      <3> QED BY <1>3, <3>3, <3>4 DEF Banning
    <2>3. CASE drops' = [drops EXCEPT ![p].expires = end]
      <3>1. p \in Prefix /\ Lists(drops[p]) /\ cfg.ban_time \in Nat
            /\ drops \in [Prefix -> Record] /\ drops[p].reason # "MANUAL"
        BY <1>3, RecordsList DEF Listed, IInv, DropInv, TimedAgain
      <3>2. /\ Lists(drops'[p])
            /\ drops'[p].reason = drops[p].reason
            /\ drops'[p].inserted = drops[p].inserted
            /\ drops'[p].expires = end
            /\ \A q \in Prefix \ {p} : drops'[q] = drops[q]
        BY <2>1, <2>3, <3>1, SMTT(60) DEF Lists, Record
      <3>3. Promise(drops'[p], cfg.ban_time) = Promise(drops[p], cfg.ban_time)
        <4>1. CASE drops[p].reason = "TIMED"
          <5>1. drops'[p].expires = drops[p].expires
            BY <3>2, <4>1, Zenon DEF EndOf
          <5>2. Promise(drops[p], cfg.ban_time) = [kind |-> "timed", end |-> drops[p].expires]
            BY <3>1, <4>1, PromiseCases, Zenon
          <5>3. Promise(drops'[p], cfg.ban_time) = [kind |-> "timed", end |-> drops'[p].expires]
            BY <3>1, <3>2, <4>1, PromiseCases, ZenonT(20)
          <5> QED BY <5>1, <5>2, <5>3, Zenon
        <4>2. CASE drops[p].reason \in {"POLICY", "AGGREGATE"}
          <5>1. Promise(drops[p], cfg.ban_time)
                  = [kind |-> "auto", end |-> drops[p].inserted + cfg.ban_time]
            BY <3>1, <4>2, PromiseCases, Zenon
          <5>2. Promise(drops'[p], cfg.ban_time)
                  = [kind |-> "auto", end |-> drops'[p].inserted + cfg.ban_time]
            BY <3>1, <3>2, <4>2, PromiseCases, ZenonT(20)
          <5> QED BY <3>2, <5>1, <5>2, Zenon
        <4> QED BY <3>1, <4>1, <4>2, ZenonT(60) DEF Lists, Reasons
      <3>4. BanOf(p)' = BanOf(p)
        BY <3>3, PromiseOfRecord
      <3> QED BY <3>2, <3>4, SamePromises, Zenon DEF SameBans
    <2> QED BY <1>3, <2>2, <2>3 DEF TimedAgain
  <1>4. CASE ~Protected(cfg, p) /\ p \in Listed /\ reason = "MANUAL" /\ SetRecord(p, "MANUAL", 0)
    <2>1. "MANUAL" \in Reasons /\ 0 \in Nat
      BY DEF Reasons
    <2> QED BY <1>4, <2>1, SetRecordBans DEF Banning, Contract!NoWeaker
  <1> QED BY <1>1, <1>2, <1>3, <1>4, Zenon DEF drop_add, DropNew, DropAgain, OtherAgain

\* The loop stays inside the tick, or outside it.
SamePhase == (pc' = "poll") = (pc = "poll")

\* The promises are a function from the prefixes to bans.
BansOK == [p \in Prefix |-> BanOf(p)] \in [Prefix -> Contract!Ban]

LEMMA BansTypeNow == IInv => BansOK
  BY RecordsList DEF BansOK

LEMMA BansType == (IInv => BansOK) /\ (IInv' => BansOK')
  BY BansTypeNow, PTL

\* A step that leaves the promises, the clock and the phase is a stutter.
LEMMA ContractStutter ==
  ASSUME SameBans, cfg' = cfg, now' = now, SamePhase
  PROVE  UNCHANGED Contract!cvars
  <1>1. [p \in Prefix |-> BanOf(p)]' = [p \in Prefix |-> BanOf(p)]
    BY DEF SameBans
  <1>2. {p \in Prefix : Protected(cfg, p)}' = {p \in Prefix : Protected(cfg, p)}
    BY DEF Protected
  <1>3. (pc # "poll")' = (pc # "poll")
    BY DEF SamePhase
  <1> QED BY <1>1, <1>2, <1>3 DEF Contract!cvars

\* A drop is one of the contract's, and the tick makes automatic ones only.
LEMMA ContractNewBan ==
  ASSUME IInv, IInv', NEW p \in Prefix, NEW reason \in Reasons,
         SameBans \/ Banning(p, reason),
         pc # "poll" => reason \in {"POLICY", "AGGREGATE"},
         cfg' = cfg, now' = now, SamePhase
  PROVE  Contract!CNext \/ UNCHANGED Contract!cvars
  <1>1. CASE SameBans
    BY <1>1, ContractStutter
  <1>2. CASE Banning(p, reason)
    <2>1. p \notin {q \in Prefix : Protected(cfg, q)}
      BY <1>2 DEF Banning
    <2>2. {q \in Prefix : Protected(cfg, q)}' = {q \in Prefix : Protected(cfg, q)}
      BY DEF Protected
    <2>3. (pc # "poll")' = (pc # "poll")
      BY SMTT(60) DEF SamePhase
    <2>4. Contract!NewBan(p)
      BY <1>2, <2>1, <2>2, <2>3, BansType, SMTT(60) DEF BansOK, Contract!NewBan, Banning
    <2> QED BY <2>4 DEF Contract!CNext
  <1> QED BY <1>1, <1>2

\* Lifted prefixes are promised nothing, and the others what they were.
LEMMA RemoveBans ==
  ASSUME cfg' = cfg, NEW ps, NEW kept, drop_remove(ps, kept)
  PROVE  [p \in Prefix |-> BanOf(p)]' = Contract!Without(ps \ kept)
  <1>1. drops' = [p \in Prefix |-> IF p \in ps \ kept THEN NoRec ELSE drops[p]]
    BY DEF drop_remove
  <1>2. \A p \in Prefix :
          BanOf(p)' = IF p \in ps \ kept THEN Contract!NoBan ELSE BanOf(p)
    BY <1>1, PromiseOfRecord, PromiseOfNone
  <1> QED BY <1>2 DEF Contract!Without

\* An entry to the tick or an exit from it, with the list as it was.
LEMMA ContractPhase ==
  ASSUME SameBans, cfg' = cfg, now' = now, ~SamePhase
  PROVE  Contract!CNext
  <1>1. [p \in Prefix |-> BanOf(p)]' = [p \in Prefix |-> BanOf(p)]
    BY DEF SameBans
  <1>2. {p \in Prefix : Protected(cfg, p)}' = {p \in Prefix : Protected(cfg, p)}
    BY DEF Protected
  <1>3. (pc # "poll")' = ~(pc # "poll")
    BY DEF SamePhase
  <1>4. Contract!EnterOrLeaveTick
    BY <1>1, <1>2, <1>3 DEF Contract!EnterOrLeaveTick
  <1> QED BY <1>4 DEF Contract!CNext

\* A reload re-times automatic bans, and lifts protected ones only.
LEMMA ContractReload ==
  ASSUME IInv, IInv', NEW c \in Configs, ctl_reload(c)
  PROVE  Contract!CNext
  <1> DEFINE ps == {p \in Listed : Protected(c, p)}
  <1>1. PICK kept \in SUBSET ps :
          drops' = [p \in Prefix |-> IF p \in ps \ kept THEN NoRec ELSE drops[p]]
    BY Zenon DEF ctl_reload, drop_remove
  <1>2. cfg' = c /\ now' = now /\ pc' = pc /\ pc = "poll"
    BY DEF ctl_reload, walk
  <1>3. cfg.ban_time \in Nat /\ c.ban_time \in Nat
    BY ConfigAssumption DEF IInv, LoopInv
  <1>4. ASSUME NEW p \in Prefix
        PROVE  \/ Contract!Retimed(BanOf(p), BanOf(p)')
               \/ Protected(c, p) /\ BanOf(p)' = Contract!NoBan
    <2>1. CASE p \in ps \ kept
      BY <1>1, <2>1, PromiseOfRecord, PromiseOfNone, ZenonT(60)
    <2>2. CASE p \notin ps \ kept
      <3>1. drops'[p] = drops[p]
        BY <1>1, <2>2, SMTT(60)
      <3>2. BanOf(p) = Promise(drops[p], cfg.ban_time) /\ BanOf(p)' = Promise(drops[p], c.ban_time)
        BY <1>2, <3>1, PromiseOfRecord, SMTT(60)
      <3>3. CASE drops[p] = NoRec
        BY <3>2, <3>3, PromiseOfNone, SMTT(60) DEF Contract!Retimed
      <3>4. CASE Lists(drops[p])
        <4>1. CASE drops[p].reason \in {"MANUAL", "TIMED"}
          BY <1>3, <3>2, <3>4, <4>1, PromiseCases, ZenonT(60) DEF Contract!Retimed
        <4>2. CASE drops[p].reason \in {"POLICY", "AGGREGATE"}
          BY <1>3, <3>2, <3>4, <4>2, PromiseCases, SMTT(60) DEF Contract!Retimed
        <4> QED BY <3>4, <4>1, <4>2, SMTT(60) DEF Lists, Reasons
      <3> QED BY <3>3, <3>4, RecordsList
    <2> QED BY <2>1, <2>2, SMTT(60)
  <1>5. \A p \in Prefix :
          p \in {q \in Prefix : Protected(cfg, q)}' <=> Protected(c, p)
    BY <1>2 DEF Protected
  <1>6. Contract!Reload
    BY <1>2, <1>4, <1>5, BansType DEF BansOK, Contract!Reload
  <1> QED BY <1>6 DEF Contract!CNext

\* A tick lifts only what is due.
LEMMA ContractExpire ==
  ASSUME IInv, expire_drops
  PROVE  Contract!CNext
  <1> DEFINE ps == {p \in Listed : Due(p)}
  <1>1. PICK kept \in SUBSET ps : drop_remove(ps, kept)
    BY SMTT(60) DEF expire_drops
  <1>2. cfg' = cfg /\ now' = now /\ pc' = "quiet" /\ pc = "walk"
    BY DEF expire_drops
  <1>3. ASSUME NEW p \in ps
        PROVE  BanOf(p).kind \in {"timed", "auto"} /\ BanOf(p).end <= now
    <2>1. p \in Listed /\ Due(p) /\ drops[p].reason # "MANUAL"
      BY <1>3, SMTT(60) DEF Due
    <2>2. /\ BanOf(p).kind \in {"timed", "auto"}
          /\ BanOf(p).end = EndOf(drops[p]) /\ EndOf(drops[p]) \in Nat
      BY <2>1, EndIsPromised
    <2>3. drops[p].inserted \in Nat /\ cfg.ban_time \in Nat /\ now \in Nat
      BY <2>1, ConfigAssumption, ListedSub DEF IInv, DropInv, LoopInv, Record
    <2> QED BY <2>1, <2>2, <2>3, SMTT(60) DEF Due, EndOf
  <1>4. ps \ kept \in SUBSET Prefix /\ \A p \in ps \ kept : p \in ps
    BY ListedSub
  <1>5. [p \in Prefix |-> BanOf(p)]' = Contract!Without(ps \ kept)
    BY <1>1, <1>2, RemoveBans
  <1>6. {p \in Prefix : Protected(cfg, p)}' = {p \in Prefix : Protected(cfg, p)}
    BY <1>2 DEF Protected
  <1> HIDE DEF ps
  <1>7. Contract!Expire(ps \ kept)
    BY <1>2, <1>3, <1>4, <1>5, <1>6, SMTT(60) DEF Contract!Expire
  <1> QED BY <1>4, <1>7 DEF Contract!CNext

\* Every step of the control plane is a step of the contract, or a stutter.
LEMMA NextKeepsContract ==
  IInv /\ IInv' /\ CountTells /\ [Next]_vars => [Contract!CNext]_(Contract!cvars)
  <1> SUFFICES ASSUME IInv, IInv', CountTells, [Next]_vars
               PROVE  Contract!CNext \/ UNCHANGED Contract!cvars
    OBVIOUS
  <1>a. "MANUAL" \in Reasons /\ "TIMED" \in Reasons
        /\ "POLICY" \in Reasons /\ "AGGREGATE" \in Reasons
    BY DEF Reasons
  <1>b. ASSUME UNCHANGED <<drops, cfg, now, pc>> PROVE UNCHANGED Contract!cvars
    BY <1>b, SamePromises, ContractStutter DEF SameBans, SamePhase
  <1>1. ASSUME NEW p \in Prefix, ctl_drop(p)
        PROVE  Contract!CNext \/ UNCHANGED Contract!cvars
    <2>1. cfg' = cfg /\ now' = now /\ pc' = pc /\ pc = "poll"
      BY <1>1 DEF ctl_drop, walk
    <2>2. SameBans \/ Banning(p, "MANUAL")
      BY <1>1, <1>a, <2>1, AddBans, SMTT(60) DEF ctl_drop
    <2> QED BY <1>a, <2>1, <2>2, ContractNewBan DEF SamePhase
  <1>2. ASSUME NEW p \in Prefix, NEW ttl \in Ttls, ctl_drop_ttl(p, ttl)
        PROVE  Contract!CNext \/ UNCHANGED Contract!cvars
    <2>1. cfg' = cfg /\ now' = now /\ pc' = pc /\ pc = "poll"
      BY <1>2 DEF ctl_drop_ttl, walk
    <2>2. PICK e \in Nat : e = now + ttl
      BY BoundAssumption DEF IInv, LoopInv
    <2>3. SameBans \/ Banning(p, "TIMED")
      BY <1>2, <1>a, <2>1, <2>2, AddBans, SMTT(60) DEF ctl_drop_ttl
    <2> QED BY <1>a, <2>1, <2>3, ContractNewBan DEF SamePhase
  <1>3. ASSUME NEW p \in Prefix, ctl_undrop(p)
        PROVE  Contract!CNext \/ UNCHANGED Contract!cvars
    <2>1. cfg' = cfg /\ now' = now /\ pc' = pc /\ pc = "poll"
      BY <1>3 DEF ctl_undrop, walk
    <2>2. {q \in Prefix : Protected(cfg, q)}' = {q \in Prefix : Protected(cfg, q)}
      BY <2>1, SMTT(60) DEF Protected
    <2>3. CASE drop_remove({p}, {})
      <3>1. [q \in Prefix |-> BanOf(q)]' = Contract!Without({p} \ {})
        BY <2>1, <2>3, RemoveBans
      <3>2. {p} \ {} = {p}
        OBVIOUS
      <3>3. Contract!Undrop(p)
        BY <2>1, <2>2, <3>1, <3>2, SMTT(60) DEF Contract!Undrop
      <3> QED BY <3>3 DEF Contract!CNext
    <2>4. CASE drop_remove({p}, {p})
      <3>1. \A q \in Prefix : drops'[q] = drops[q]
        BY <2>4 DEF drop_remove
      <3> QED BY <2>1, <3>1, SamePromises, ContractStutter, SMTT(60) DEF SameBans, SamePhase
    <2>5. CASE UNCHANGED drops
      BY <1>b, <2>1, <2>5, SMTT(60)
    <2> QED BY <1>3, <2>3, <2>4, <2>5, SMTT(60) DEF ctl_undrop
  <1>4. CASE ctl_arm
    BY <1>4, <1>b DEF ctl_arm, walk
  <1>5. CASE ctl_disarm
    <2>1. cfg' = cfg /\ now' = now /\ pc' = pc /\ pc = "poll"
      BY <1>5, SMTT(60) DEF ctl_disarm, walk
    <2>2. \A q \in Prefix : BanOf(q)' = Contract!NoBan
      BY <1>5, PromiseOfRecord, PromiseOfNone DEF ctl_disarm, vg_ctrl_disarm, drops_reset
    <2>3. [q \in Prefix |-> BanOf(q)]' = Contract!Without(Prefix)
      BY <2>2 DEF Contract!Without
    <2>4. {q \in Prefix : Protected(cfg, q)}' = {q \in Prefix : Protected(cfg, q)}
      BY <2>1 DEF Protected
    <2>5. Contract!Disarm
      BY <2>1, <2>3, <2>4 DEF Contract!Disarm
    <2> QED BY <2>5 DEF Contract!CNext
  <1>6. ASSUME NEW c \in Configs, ctl_reload(c)
        PROVE  Contract!CNext \/ UNCHANGED Contract!cvars
    BY <1>6, ContractReload
  <1>7. CASE TickFails \/ TickIdle \/ TickWake
    BY <1>7, <1>b, SMTT(60) DEF TickFails, TickIdle, TickWake, vars, walk
  <1>8. ASSUME NEW hs \in SUBSET Hosts, TickWalk(hs)
        PROVE  Contract!CNext \/ UNCHANGED Contract!cvars
    BY <1>8, SamePromises, ContractPhase, SMTT(60) DEF TickWalk, SameBans, SamePhase
  <1>9. ASSUME NEW h \in Hosts, policy_one_remote(h)
        PROVE  Contract!CNext \/ UNCHANGED Contract!cvars
    <2>1. cfg' = cfg /\ now' = now /\ pc = "walk" /\ pc' \in {"aggregate", "walk"}
      BY <1>9 DEF policy_one_remote
    <2>2. h \in Prefix
      BY PrefixAssumption, SMTT(60)
    <2>3. SameBans \/ Banning(h, "POLICY")
      BY <1>9, <1>a, <2>1, <2>2, AddBans, ZenonT(60) DEF policy_one_remote
    <2> QED BY <1>a, <2>1, <2>2, <2>3, ContractNewBan, SMTT(60) DEF SamePhase
  <1>10. CASE maybe_aggregate
    <2>1. cfg' = cfg /\ now' = now /\ pc = "aggregate" /\ pc' = "walk"
      BY <1>10 DEF maybe_aggregate
    <2>2. PICK n \in Prefix : n = net
      BY <2>1 DEF IInv, LoopInv
    <2>3. SameBans \/ Banning(n, "AGGREGATE")
      <3>1. CASE \E ok \in BOOLEAN : drop_add(net, "AGGREGATE", 0, ok)
        BY <1>a, <2>1, <2>2, <3>1, AddBans, SMTT(60)
      <3>2. CASE UNCHANGED drops
        BY <2>1, <3>2, SamePromises DEF SameBans
      <3> QED BY <1>10, <3>1, <3>2 DEF maybe_aggregate
    <2> QED BY <1>a, <2>1, <2>3, ContractNewBan DEF SamePhase
  <1>11. CASE expire_drops
    BY <1>11, ContractExpire, SMTT(60)
  <1>12. CASE TickLoud
    BY <1>12, SamePromises, ContractPhase, SMTT(60) DEF TickLoud, SameBans, SamePhase
  <1>13. CASE TickQuiet
    <2>1. cfg' = cfg /\ now' = now /\ pc = "quiet" /\ pc' = "poll"
      BY <1>13, SMTT(60) DEF TickQuiet
    <2>2. SameBans
      <3>1. CASE UNCHANGED drops
        BY <2>1, <3>1, SamePromises, SMTT(60) DEF SameBans
      <3>2. CASE drop_count = 0 /\ drops_reset
        <4>1. Listed = {}
          BY <3>2, Zenon DEF IInv, CountTells
        <4>2. \A q \in Prefix : drops[q] = NoRec /\ drops'[q] = NoRec
          BY <3>2, <4>1 DEF Listed, drops_reset
        <4> QED BY <2>1, <4>2, SamePromises DEF SameBans
      <3> QED BY <1>13, <3>1, <3>2, SMTT(60) DEF TickQuiet, vg_ctrl_disarm
    <2> QED BY <2>1, <2>2, ContractPhase, SMTT(60) DEF SamePhase
  <1>14. CASE Clock
    <2>1. now' > now /\ UNCHANGED <<drops, cfg, pc>>
      BY <1>14 DEF Clock, walk, IInv, LoopInv
    <2>2. [p \in Prefix |-> BanOf(p)]' = [p \in Prefix |-> BanOf(p)]
      BY <2>1, SamePromises
    <2>3. {p \in Prefix : Protected(cfg, p)}' = {p \in Prefix : Protected(cfg, p)}
      BY <2>1 DEF Protected
    <2>4. Contract!Clock
      BY <2>1, <2>2, <2>3, SMTT(60) DEF Contract!Clock
    <2> QED BY <2>4 DEF Contract!CNext
  <1>15. CASE UNCHANGED vars
    BY <1>15, <1>b DEF vars, walk
  <1> QED BY <1>1, <1>2, <1>3, <1>4, <1>5, <1>6, <1>7, <1>8, <1>9, <1>10, <1>11,
             <1>12, <1>13, <1>14, <1>15, SMTT(60) DEF Next, Command, Tick

\* The daemon starts with no promises, outside a tick.
LEMMA InitKeepsContract == Init => Contract!CInit
  <1> SUFFICES ASSUME Init PROVE Contract!CInit
    OBVIOUS
  <1>1. \A p \in Prefix : BanOf(p) = Contract!NoBan
    BY PromiseOfRecord, PromiseOfNone DEF Init
  <1> QED BY <1>1, SMTT(60) DEF Init, Contract!CInit

----------------------------------------------------------------------------
(***************************************************************************)
(* The wait for calm, over the specification that remembers loud ticks.    *)
(***************************************************************************)

\* When the quiet began, as the end of a quiet tick takes it.
Since == IF quiet_since = 0 THEN now ELSE quiet_since

\* What a step may do to quiet_since and to the state: the wait is kept, ended
\* or begun now; waking ends it; only a disarm sleeps.
CalmStep ==
  /\ now' >= now
  /\ quiet_since' \in {0, quiet_since, Since}
  /\ quiet_since' # quiet_since => now' = now
  /\ state = "IDLE" /\ state' = "ACTIVE" => quiet_since' = 0
  /\ \/ ~(state = "ACTIVE" /\ state' = "IDLE")
     \/ ctl_disarm
     \/ Listed = {} /\ now - Since >= cfg.clear_seconds

\* drop_add wakes an IDLE gate, or fails to, before it touches a drop.
LEMMA AddArms ==
  ASSUME NEW p \in Prefix, NEW reason, NEW expires, NEW ok,
         drop_add(p, reason, expires, ok), state \in {"IDLE", "ACTIVE"}
  PROVE  /\ quiet_since' \in {0, quiet_since}
         /\ state = "ACTIVE" => state' = "ACTIVE"
         /\ state = "IDLE" /\ state' = "ACTIVE" => quiet_since' = 0
  BY DEF drop_add, Armed, ArmFails

\* A disarm keeps the wait it was given only when its commit fails.
LEMMA DisarmWaits ==
  ASSUME NEW quiet, vg_ctrl_disarm(quiet)
  PROVE  \/ state' = "IDLE" /\ quiet_since' = 0
         \/ state' = state /\ quiet_since' = quiet
  BY DEF vg_ctrl_disarm

LEMMA NextCalmStep == IInv /\ CountTells /\ [Next]_vars => CalmStep
  <1> SUFFICES ASSUME IInv, CountTells, [Next]_vars PROVE CalmStep
    OBVIOUS
  <1>0. now \in Nat /\ quiet_since \in Nat /\ state \in {"IDLE", "ACTIVE"} /\ DropInv
    BY DEF IInv, DropInv, LoopInv
  <1>a. ASSUME UNCHANGED <<state, quiet_since>>, now' >= now PROVE CalmStep
    BY <1>0, <1>a DEF CalmStep
  <1>b. ASSUME NEW p \in Prefix, NEW reason, NEW expires, NEW ok,
               drop_add(p, reason, expires, ok), now' = now
        PROVE  CalmStep
    BY <1>0, <1>b, AddArms, SMTT(60) DEF CalmStep
  <1>1. ASSUME NEW p \in Prefix, ctl_drop(p) PROVE CalmStep
    BY <1>1, <1>b DEF ctl_drop
  <1>2. ASSUME NEW p \in Prefix, NEW ttl \in Ttls, ctl_drop_ttl(p, ttl) PROVE CalmStep
    BY <1>2, <1>b DEF ctl_drop_ttl
  <1>3. ASSUME NEW p \in Prefix, ctl_undrop(p) PROVE CalmStep
    BY <1>0, <1>3, <1>a, SMTT(60) DEF ctl_undrop
  <1>4. CASE ctl_arm \/ TickWake
    BY <1>0, <1>4, SMTT(60) DEF ctl_arm, TickWake, Armed, ArmFails, CalmStep
  <1>5. CASE ctl_disarm
    <2>1. now' = now /\ quiet_since' \in {0, quiet_since} /\ state' \in {"IDLE", state}
      BY <1>5, DisarmWaits DEF ctl_disarm
    <2> QED BY <1>0, <1>5, <2>1 DEF CalmStep
  <1>6. ASSUME NEW c \in Configs, ctl_reload(c) PROVE CalmStep
    BY <1>0, <1>6, <1>a, SMTT(60) DEF ctl_reload
  <1>7. CASE TickFails \/ TickIdle
    BY <1>0, <1>7, <1>a DEF TickFails, TickIdle, vars
  <1>8. ASSUME NEW hs \in SUBSET Hosts, TickWalk(hs) PROVE CalmStep
    BY <1>0, <1>8, <1>a, SMTT(60) DEF TickWalk
  <1>9. ASSUME NEW h \in Hosts, policy_one_remote(h) PROVE CalmStep
    BY <1>9, <1>b, PrefixAssumption, SMTT(60) DEF policy_one_remote
  <1>10. CASE maybe_aggregate
    <2>1. now' = now /\ net \in Prefix
      BY <1>10 DEF maybe_aggregate, IInv, LoopInv
    <2>2. CASE \E ok \in BOOLEAN : drop_add(net, "AGGREGATE", 0, ok)
      BY <1>b, <2>1, <2>2, SMTT(60)
    <2>3. CASE UNCHANGED <<state, quiet_since>>
      BY <1>0, <1>a, <2>1, <2>3, SMTT(60)
    <2> QED BY <1>10, <2>2, <2>3 DEF maybe_aggregate
  <1>11. CASE expire_drops
    BY <1>0, <1>11, <1>a, SMTT(60) DEF expire_drops
  <1>12. CASE TickLoud
    BY <1>0, <1>12 DEF TickLoud, CalmStep
  <1>13. CASE TickQuiet
    <2>1. now' = now
      BY <1>13, SMTT(60) DEF TickQuiet
    <2>2. CASE drop_count = 0 /\ now - Since >= cfg.clear_seconds /\ vg_ctrl_disarm(Since)
      <3>1. Listed = {}
        BY <1>0, <2>2, Zenon DEF CountTells
      <3>2. quiet_since' \in {0, Since} /\ state' \in {"IDLE", state}
        BY <2>2, DisarmWaits, SMTT(60)
      <3> QED BY <1>0, <2>1, <2>2, <3>1, <3>2 DEF CalmStep
    <2>3. CASE quiet_since' = Since /\ UNCHANGED state
      BY <1>0, <2>1, <2>3, SMTT(60) DEF CalmStep
    <2> QED BY <1>13, <2>2, <2>3, SMTT(60) DEF TickQuiet, Since
  <1>14. CASE Clock
    BY <1>0, <1>14, <1>a DEF Clock
  <1>15. CASE UNCHANGED vars
    BY <1>0, <1>15, <1>a, SMTT(60) DEF vars
  <1> QED BY <1>1, <1>2, <1>3, <1>4, <1>5, <1>6, <1>7, <1>8, <1>9, <1>10, <1>11,
             <1>12, <1>13, <1>14, <1>15, SMTT(60) DEF Next, Command, Tick

\* The last loud tick is no later than the beginning of the quiet.
LoudInv ==
  /\ loud_at \in Nat
  /\ loud_at <= now
  /\ quiet_since # 0 => loud_at <= quiet_since

LEMMA LoudNext ==
  IInv /\ IInv' /\ CountTells /\ LoudInv /\ [TNext]_<<vars, loud_at>> => LoudInv'
  <1> SUFFICES ASSUME IInv, IInv', CountTells, LoudInv, [TNext]_<<vars, loud_at>> PROVE LoudInv'
    OBVIOUS
  <1>0. now \in Nat /\ now' \in Nat /\ quiet_since \in Nat
    BY DEF IInv, DropInv, LoopInv
  <1>1. CalmStep
    BY NextCalmStep, SMTT(60) DEF TNext, vars
  <1>2. CASE UNCHANGED loud_at
    BY <1>0, <1>1, <1>2 DEF LoudInv, CalmStep, Since
  <1>3. CASE loud_at' = now /\ (TickLoud \/ (state = "IDLE" /\ state' = "ACTIVE"))
    <2>1. quiet_since' = 0
      BY <1>1, <1>3 DEF CalmStep, TickLoud
    <2> QED BY <1>0, <1>1, <1>3, <2>1, SMTT(60) DEF LoudInv, CalmStep
  <1> QED BY <1>2, <1>3 DEF TNext

----------------------------------------------------------------------------
(***************************************************************************)
(* The inductive invariant.  The theorems on finite sets are brought in    *)
(* here, where the pool and the maps are counted.                          *)
(***************************************************************************)
INSTANCE FiniteSetTheorems

LEMMA PrefixFinite == IsFiniteSet(Prefix)
  BY PrefixAssumption, FS_Union DEF Prefix

LEMMA SubFinite == \A S : S \subseteq Prefix => IsFiniteSet(S) /\ Cardinality(S) \in Nat
  BY PrefixFinite, FS_Subset, FS_CardinalityType

\* The size of the pool: twice that of a map, if that fits 32 bits.
LEMMA CapIs ==
  /\ PoolCap \in Nat
  /\ 2 * DropMapSize < U32 => PoolCap = 2 * DropMapSize
  /\ 2 * DropMapSize = U32 => PoolCap = 0
  BY BoundAssumption DEF PoolCap

LEMMA CountIsRight == CountTells
  <1>1. DropInv /\ drop_count = 0 => Cardinality(Listed) = 0
    BY DEF DropInv, PoolIsAccountedFor
  <1>2. IsFiniteSet(Listed)
    BY SubFinite, ListedSub
  <1> QED BY <1>1, <1>2, FS_EmptySet, Zenon DEF CountTells

LEMMA NoRecType == NoRec \in Record
  BY DEF NoRec, Record

\* A record that an operation writes is a listed one.
LEMMA NewRecType ==
  ASSUME NEW reason \in Reasons, NEW expires \in Nat, NEW t \in Nat \ {0}
  PROVE  LET r == [reason |-> reason, inserted |-> t, expires |-> expires]
         IN  r \in Record /\ r # NoRec
  BY DEF Record, Reasons, NoRec

\* Failing leaves a count of failures.
LEMMA FailingType ==
  ASSUME faults \in Nat, NEW kinds, Failing(kinds)
  PROVE  faults' \in Nat
  BY DEF Failing

\* Maps that lose entries stay within their size.
LEMMA ShrinkFits ==
  ASSUME kdrops \subseteq Prefix, MapsFit, kdrops' \subseteq kdrops
  PROVE  MapsFit'
  <1>1. IsFiniteSet(kdrops \cap V4) /\ IsFiniteSet(kdrops \cap V6)
    BY SubFinite DEF Prefix
  <1>2. kdrops' \cap V4 \subseteq kdrops \cap V4 /\ kdrops' \cap V6 \subseteq kdrops \cap V6
    OBVIOUS
  <1>3. /\ Cardinality(kdrops' \cap V4) <= Cardinality(kdrops \cap V4)
        /\ Cardinality(kdrops' \cap V6) <= Cardinality(kdrops \cap V6)
        /\ Cardinality(kdrops \cap V4) \in Nat /\ Cardinality(kdrops \cap V6) \in Nat
        /\ Cardinality(kdrops' \cap V4) \in Nat /\ Cardinality(kdrops' \cap V6) \in Nat
    BY <1>1, <1>2, FS_Subset, FS_CardinalityType, SMTT(60)
  <1> QED BY <1>3, BoundAssumption DEF MapsFit

\* A step that leaves the list and the maps alone.
LEMMA SameDrops ==
  ASSUME DropInv, state' = state, drops' = drops, pool' = pool,
         kdrops' = kdrops, karmed' = karmed,
         quiet_since' = quiet_since \/ quiet_since' \in Nat,
         faults' = faults \/ faults' \in Nat
  PROVE  DropInv'
  BY DEF DropInv, pool, Listed, DropsAreEnforced, ArmedIffActive,
         PoolIsAccountedFor, MapsFit

\* A lift takes exactly the prefixes whose delete took off the list and out
\* of the maps, and gives their records to the free list.
LEMMA RemoveInv ==
  ASSUME DropInv, NEW ps \in SUBSET Listed, NEW kept \in SUBSET ps,
         drop_remove(ps, kept),
         faults' \in Nat, UNCHANGED <<state, quiet_since>>,
         karmed' \in BOOLEAN, ArmedIffActive'
  PROVE  DropInv' /\ Listed' = Listed \ (ps \ kept)
  <1> DEFINE gone == ps \ kept
  <1>1. /\ kdrops' = kdrops \ gone
        /\ drops' = [p \in Prefix |-> IF p \in gone THEN NoRec ELSE drops[p]]
        /\ drop_count' = drop_count - Cardinality(gone)
        /\ drop_free' = drop_free + Cardinality(gone)
        /\ drop_used' = drop_used
    BY DEF drop_remove
  <1>2. gone \subseteq Listed /\ gone \subseteq Prefix
    BY ListedSub
  <1>3. Cardinality(gone) \in Nat /\ Cardinality(Listed) \in Nat
        /\ Cardinality(gone) <= Cardinality(Listed)
    BY <1>2, SubFinite, ListedSub, FS_Subset
  <1>4. Listed' = Listed \ gone
    BY <1>1, <1>2 DEF Listed, DropInv
  <1>5. Cardinality(Listed') = Cardinality(Listed) - Cardinality(gone)
    <2>1. Listed \cap gone = gone
      BY <1>2
    <2>2. IsFiniteSet(Listed)
      BY SubFinite, ListedSub
    <2>3. Cardinality(Listed \ gone) = Cardinality(Listed) - Cardinality(gone)
      BY <2>1, <2>2, FS_Difference, Zenon
    <2>4. QED BY <1>4, <2>3
  <1>6. drops' \in [Prefix -> Record]
    BY <1>1, NoRecType DEF DropInv
  <1>7. \A p \in Listed' : drops'[p].reason \in Reasons /\ drops'[p].inserted > 0
    BY <1>1, <1>4, ListedSub DEF DropInv
  <1>8. PoolIsAccountedFor' /\ drop_count' \in Nat /\ drop_used' \in Nat /\ drop_free' \in Nat
    BY <1>1, <1>3, <1>5, CapIs, SMTT(60) DEF DropInv, PoolIsAccountedFor
  <1>9. MapsFit'
    BY <1>1, ShrinkFits DEF DropInv
  <1>10. kdrops' \subseteq Prefix /\ (Listed \subseteq kdrops => Listed' \subseteq kdrops')
    BY <1>1, <1>4 DEF DropInv
  <1>11. DropsAreEnforced'
    BY <1>4, <1>10 DEF DropInv, DropsAreEnforced, ArmedIffActive
  <1> QED BY <1>4, <1>6, <1>7, <1>8, <1>9, <1>10, <1>11, SMTT(60) DEF DropInv

\* An update that finds room leaves the maps within their size.
LEMMA UpdateFits ==
  ASSUME kdrops \subseteq Prefix, MapsFit, NEW p \in Prefix, HasRoom(p),
         kdrops' = kdrops \cup {p}
  PROVE  MapsFit' /\ kdrops' \subseteq Prefix
  <1>0. kdrops' \subseteq Prefix
    OBVIOUS
  <1>1. IsFiniteSet(kdrops \cap V4) /\ IsFiniteSet(kdrops \cap V6)
        /\ Cardinality(kdrops \cap V4) \in Nat /\ Cardinality(kdrops \cap V6) \in Nat
    BY SubFinite DEF Prefix
  <1>2. CASE p \in kdrops
    <2>1. kdrops' = kdrops
      BY <1>2
    <2> QED BY <2>1 DEF MapsFit
  <1>3. CASE p \notin kdrops /\ p \in V4
    <2>1. /\ kdrops' \cap V4 = (kdrops \cap V4) \cup {p}
          /\ kdrops' \cap V6 = kdrops \cap V6
      BY <1>3, PrefixAssumption
    <2>2. Cardinality(kdrops \cap V4) < DropMapSize
      BY <1>3 DEF HasRoom, Family
    <2>3. Cardinality((kdrops \cap V4) \cup {p}) = Cardinality(kdrops \cap V4) + 1
      BY <1>1, <1>3, FS_AddElement, Zenon
    <2>4. /\ Cardinality(kdrops' \cap V4) = Cardinality(kdrops \cap V4) + 1
          /\ Cardinality(kdrops' \cap V6) = Cardinality(kdrops \cap V6)
      BY <2>1, <2>3, Zenon
    <2> QED BY <1>0, <1>1, <2>2, <2>4, BoundAssumption DEF MapsFit
  <1>4. CASE p \notin kdrops /\ p \notin V4
    <2>1. /\ kdrops' \cap V6 = (kdrops \cap V6) \cup {p}
          /\ kdrops' \cap V4 = kdrops \cap V4
      BY <1>4 DEF Prefix
    <2>2. Cardinality(kdrops \cap V6) < DropMapSize
      BY <1>4 DEF HasRoom, Family
    <2>3. Cardinality((kdrops \cap V6) \cup {p}) = Cardinality(kdrops \cap V6) + 1
      BY <1>1, <1>4, FS_AddElement, Zenon
    <2>4. /\ Cardinality(kdrops' \cap V6) = Cardinality(kdrops \cap V6) + 1
          /\ Cardinality(kdrops' \cap V4) = Cardinality(kdrops \cap V4)
      BY <2>1, <2>3, Zenon
    <2> QED BY <1>0, <1>1, <2>2, <2>4, BoundAssumption DEF MapsFit
  <1> QED BY <1>2, <1>3, <1>4

\* A record written for p lists it, and leaves the others.
LEMMA SetRecordInv ==
  ASSUME DropInv, NEW p \in Prefix, NEW reason \in Reasons,
         NEW expires \in Nat, now \in Nat \ {0}, SetRecord(p, reason, expires)
  PROVE  /\ drops' \in [Prefix -> Record]
         /\ \A q \in Listed' : drops'[q].reason \in Reasons /\ drops'[q].inserted > 0
         /\ Listed' = Listed \cup {p}
  <1> DEFINE r == [reason |-> reason, inserted |-> now, expires |-> expires]
  <1>1. drops' = [drops EXCEPT ![p] = r]
    BY DEF SetRecord
  <1>2. r \in Record /\ r # NoRec /\ r.reason \in Reasons /\ r.inserted > 0
    BY DEF Record, Reasons, NoRec
  <1> HIDE DEF r
  <1>3. drops' \in [Prefix -> Record]
    BY <1>1, <1>2 DEF DropInv
  <1>4. Listed' = Listed \cup {p}
    BY <1>1, <1>2 DEF Listed, DropInv
  <1>5. \A q \in Listed' : drops'[q].reason \in Reasons /\ drops'[q].inserted > 0
    BY <1>1, <1>2, <1>4, ListedSub, SMTT(60) DEF DropInv
  <1> QED BY <1>3, <1>4, <1>5

\* What a drop of p does to the list and to the maps: nothing, or both have
\* it then.
Added(p) ==
  \/ Listed' = Listed /\ kdrops' = kdrops
  \/ /\ ~Protected(cfg, p)
     /\ Listed' = Listed \cup {p}
     /\ kdrops' = kdrops \cup {p}

\* A drop of a prefix that is not listed keeps the invariant, whether the
\* pool, the map or the kernel call refuses it or not.
LEMMA DropNewInv ==
  ASSUME DropInv, now \in Nat \ {0},
         NEW p \in Prefix, NEW reason \in Reasons, NEW expires \in Nat,
         NEW ok \in BOOLEAN, p \notin Listed, ~Protected(cfg, p),
         Armed, DropNew(p, reason, expires, ok)
  PROVE  DropInv' /\ Added(p)
  <1> USE DEF DropInv
  <1>1. state' = "ACTIVE" /\ karmed' = TRUE /\ quiet_since' \in Nat
    BY DEF Armed
  <1>2. IsFiniteSet(Listed) /\ Cardinality(Listed) \in Nat
    BY SubFinite, ListedSub
  <1>3. PoolCap \in Nat
    BY CapIs, SMTT(60)
  <1>4. CASE UNCHANGED <<drops, pool, kdrops, faults>>
    BY <1>1, <1>4, SMTT(60) DEF pool, Listed, DropsAreEnforced, ArmedIffActive,
                     PoolIsAccountedFor, MapsFit, Added
  <1>5. CASE /\ PoolHasRecord /\ UpdateFails(p) /\ TakeAndReturnRecord
             /\ UNCHANGED <<drops, drop_count, kdrops>>
    <2>1. faults' \in Nat
      BY <1>5 DEF UpdateFails, Failing
    <2>2. Listed' = Listed
      BY <1>5 DEF Listed
    <2>3. PoolIsAccountedFor' /\ drop_used' \in Nat /\ drop_free' \in Nat
      BY <1>2, <1>3, <1>5, <2>2, SMTT(60)
         DEF PoolIsAccountedFor, TakeAndReturnRecord, PoolHasRecord
    <2> QED BY <1>1, <1>5, <2>1, <2>2, <2>3, SMTT(60)
            DEF DropsAreEnforced, ArmedIffActive, MapsFit, Added
  <1>6. CASE /\ PoolHasRecord /\ HasRoom(p) /\ TakeRecord
             /\ kdrops' = kdrops \cup {p}
             /\ SetRecord(p, reason, expires)
             /\ drop_count' = drop_count + 1
             /\ UNCHANGED faults
    <2>1. MapsFit' /\ kdrops' \subseteq Prefix
      BY <1>6, UpdateFits, SMTT(60)
    <2>2. /\ drops' \in [Prefix -> Record]
          /\ \A q \in Listed' : drops'[q].reason \in Reasons /\ drops'[q].inserted > 0
          /\ Listed' = Listed \cup {p}
      BY <1>6, SetRecordInv
    <2>3. Cardinality(Listed \cup {p}) = Cardinality(Listed) + 1
      BY <1>2, FS_AddElement, Zenon
    <2>4. PoolIsAccountedFor' /\ drop_count' \in Nat /\ drop_used' \in Nat /\ drop_free' \in Nat
      BY <1>2, <1>3, <1>6, <2>2, <2>3, SMTT(60)
         DEF PoolIsAccountedFor, TakeRecord, PoolHasRecord
    <2>5. Listed' \subseteq kdrops'
      BY <1>6, <2>2, SMTT(60) DEF DropsAreEnforced
    <2> QED BY <1>1, <1>6, <2>1, <2>2, <2>4, <2>5, SMTT(60)
            DEF DropsAreEnforced, ArmedIffActive, Added
  <1> QED BY <1>4, <1>5, <1>6 DEF DropNew

\* A drop of a listed prefix keeps it listed.
LEMMA DropAgainInv ==
  ASSUME DropInv, LoopInv,
         NEW p \in Prefix, NEW reason \in Reasons, NEW expires \in Nat,
         NEW ok \in BOOLEAN, p \in Listed,
         Armed, DropAgain(p, reason, expires, ok)
  PROVE  DropInv' /\ Added(p)
  <1> USE DEF DropInv
  <1>1. state' = "ACTIVE" /\ karmed' = TRUE /\ quiet_since' \in Nat
    BY DEF Armed
  <1>2. UNCHANGED <<drop_count, drop_used, drop_free>>
    BY DEF DropAgain, pool
  <1>3. p \in kdrops
    BY DEF DropsAreEnforced
  <1>4. drops[p] \in Record /\ drops[p].expires \in Nat /\ EndOf(drops[p]) \in Nat
    <2>1. cfg.ban_time \in Nat
      BY ConfigAssumption DEF LoopInv
    <2> QED BY <2>1 DEF Record, EndOf
  <1>5. \/ UNCHANGED drops
        \/ \E r \in Reasons, e \in Nat : SetRecord(p, r, e)
        \/ drops' = [drops EXCEPT ![p].expires = EndOf(drops[p])]
    <2>1. Later(expires, EndOf(drops[p])) \in Nat
      BY <1>4 DEF Later
    <2>2. CASE reason = "TIMED" /\ TimedAgain(p, expires, ok)
      BY <2>1, <2>2 DEF TimedAgain, Reasons
    <2>3. CASE reason # "TIMED" /\ OtherAgain(p, reason, ok)
      BY <2>3 DEF OtherAgain, Reasons
    <2> QED BY <2>2, <2>3 DEF DropAgain
  <1>6. /\ drops' \in [Prefix -> Record]
        /\ \A q \in Listed' : drops'[q].reason \in Reasons /\ drops'[q].inserted > 0
        /\ Listed' = Listed
    <2>1. CASE UNCHANGED drops
      BY <2>1 DEF Listed
    <2>2. CASE \E r \in Reasons, e \in Nat : SetRecord(p, r, e)
      <3>1. PICK r \in Reasons, e \in Nat : SetRecord(p, r, e)
        BY <2>2
      <3>2. now \in Nat \ {0}
        BY DEF LoopInv
      <3>3. /\ drops' \in [Prefix -> Record]
            /\ \A q \in Listed' : drops'[q].reason \in Reasons /\ drops'[q].inserted > 0
            /\ Listed' = Listed \cup {p}
        BY <3>1, <3>2, SetRecordInv, SMTT(60)
      <3>4. Listed \cup {p} = Listed
        OBVIOUS
      <3> QED BY <3>3, <3>4
    <2>3. CASE drops' = [drops EXCEPT ![p].expires = EndOf(drops[p])]
      <3> DEFINE r == [drops[p] EXCEPT !.expires = EndOf(drops[p])]
      <3>1. drops' = [drops EXCEPT ![p] = r]
        BY <2>3
      <3>2. r \in Record /\ r.reason = drops[p].reason /\ r.inserted = drops[p].inserted
        BY <1>4 DEF Record
      <3>3. r.reason \in Reasons /\ r.inserted > 0
        BY <3>2
      <3>4. r # NoRec
        BY <3>3 DEF NoRec, Reasons
      <3> HIDE DEF r
      <3>5. drops' \in [Prefix -> Record]
        BY <3>1, <3>2
      <3>6. Listed' = Listed
        BY <3>1, <3>4 DEF Listed
      <3> QED BY <3>1, <3>3, <3>5, <3>6, ListedSub, SMTT(60)
    <2> QED BY <1>5, <2>1, <2>2, <2>3, SMTT(60)
  <1>7. kdrops' = kdrops /\ faults' \in Nat
    BY <1>3, FailingType, SMTT(60) DEF DropAgain, TimedAgain, OtherAgain, UpdateFails
  <1> QED BY <1>1, <1>2, <1>6, <1>7
          DEF DropsAreEnforced, ArmedIffActive, PoolIsAccountedFor, MapsFit, Added

\* drop_add keeps the invariant whatever it returns.
LEMMA AddInv ==
  ASSUME DropInv, LoopInv,
         NEW p \in Prefix, NEW reason \in Reasons, NEW expires \in Nat,
         NEW ok \in BOOLEAN, drop_add(p, reason, expires, ok)
  PROVE  DropInv' /\ Added(p)
  <1>1. CASE UNCHANGED <<state, quiet_since, karmed, drops, pool, kdrops, faults>>
    BY <1>1, SMTT(60) DEF DropInv, pool, Listed, DropsAreEnforced, ArmedIffActive,
                PoolIsAccountedFor, MapsFit, Added
  <1>2. CASE ArmFails /\ UNCHANGED <<drops, pool, kdrops>>
    BY <1>2, FailingType DEF ArmFails, DropInv, pool, Listed, DropsAreEnforced,
                ArmedIffActive, PoolIsAccountedFor, MapsFit, Added
  <1>3. CASE ~Protected(cfg, p) /\ Armed /\ p \notin Listed /\ DropNew(p, reason, expires, ok)
    BY <1>3, DropNewInv DEF LoopInv
  <1>4. CASE Armed /\ p \in Listed /\ DropAgain(p, reason, expires, ok)
    BY <1>4, DropAgainInv
  <1> QED BY <1>1, <1>2, <1>3, <1>4, SMTT(60) DEF drop_add

\* Arming, or failing to, without a drop.
LEMMA ArmInv ==
  ASSUME DropInv, (Armed /\ UNCHANGED faults) \/ ArmFails,
         UNCHANGED <<drops, pool, kdrops>>
  PROVE  DropInv'
  <1>1. CASE Armed /\ UNCHANGED faults
    BY <1>1, SMTT(60) DEF Armed, DropInv, pool, Listed, DropsAreEnforced,
                ArmedIffActive, PoolIsAccountedFor, MapsFit
  <1>2. CASE ArmFails
    BY <1>2, FailingType, SMTT(60) DEF ArmFails, DropInv, pool, Listed, DropsAreEnforced,
                ArmedIffActive, PoolIsAccountedFor, MapsFit
  <1> QED BY <1>1, <1>2, SMTT(60)

\* A disarm empties the list, and leaves the maps no fuller.
LEMMA DisarmInv ==
  ASSUME DropInv, NEW quiet \in Nat, vg_ctrl_disarm(quiet)
  PROVE  /\ DropInv'
         /\ Listed' = {}
         /\ kdrops' \subseteq kdrops
         /\ "flush" \notin Faults => kdrops' = {}
  <1> USE DEF DropInv
  <1>1. PICK flushed \in BOOLEAN, committed \in BOOLEAN :
          /\ Failing(Unless(flushed, "flush") \cup Unless(committed, "commit"))
          /\ kdrops' \in IF flushed THEN {{}} ELSE SUBSET kdrops
          /\ IF committed
             THEN state' = "IDLE" /\ karmed' = FALSE /\ quiet_since' = 0
             ELSE quiet_since' = quiet /\ UNCHANGED <<state, karmed>>
    BY Zenon DEF vg_ctrl_disarm
  <1>2. drops_reset
    BY DEF vg_ctrl_disarm
  <1>3. Listed' = {} /\ drops' \in [Prefix -> Record]
    BY <1>2, NoRecType, SMTT(60) DEF drops_reset, Listed
  <1>4. PoolIsAccountedFor' /\ drop_count' \in Nat /\ drop_used' \in Nat /\ drop_free' \in Nat
    BY <1>2, <1>3, FS_EmptySet, CapIs, SMTT(60)
       DEF drops_reset, PoolIsAccountedFor
  <1>5. faults' \in Nat
    BY <1>1, FailingType
  <1>6. kdrops' \subseteq kdrops
    BY <1>1
  <1>7. MapsFit'
    BY <1>6, ShrinkFits
  <1>8. state' \in {"IDLE", "ACTIVE"} /\ karmed' \in BOOLEAN /\ quiet_since' \in Nat
        /\ ArmedIffActive'
    <2>1. CASE committed
      <3>1. state' = "IDLE" /\ karmed' = FALSE /\ quiet_since' = 0
        BY <1>1, <2>1
      <3> QED BY <3>1, Zenon DEF ArmedIffActive
    <2>2. CASE ~committed
      <3>1. state' = state /\ karmed' = karmed /\ quiet_since' = quiet
        BY <1>1, <2>2
      <3> QED BY <3>1 DEF ArmedIffActive
    <2> QED BY <2>1, <2>2
  <1>9. "flush" \notin Faults => kdrops' = {}
    BY <1>1, SMTT(60) DEF Failing, Unless
  <1> QED BY <1>3, <1>4, <1>5, <1>6, <1>7, <1>8, <1>9, SMTT(60) DEF DropsAreEnforced

\* Every step keeps the inductive invariant.
LEMMA NextInv == IInv /\ [Next]_vars => IInv'
  <1> SUFFICES ASSUME IInv, [Next]_vars PROVE IInv'
    OBVIOUS
  <1> USE DEF IInv
  <1>0. DropInv /\ LoopInv
    OBVIOUS
  <1>a. "MANUAL" \in Reasons /\ "TIMED" \in Reasons
        /\ "POLICY" \in Reasons /\ "AGGREGATE" \in Reasons
    BY DEF Reasons
  <1>1. ASSUME NEW p \in Prefix, ctl_drop(p) PROVE IInv'
    <2>1. PICK ok \in BOOLEAN : drop_add(p, "MANUAL", 0, ok)
      BY <1>1 DEF ctl_drop
    <2>2. DropInv'
      BY <1>a, <2>1, AddInv
    <2> QED BY <1>1, <2>2 DEF ctl_drop, walk, LoopInv
  <1>2. ASSUME NEW p \in Prefix, NEW ttl \in Ttls, ctl_drop_ttl(p, ttl) PROVE IInv'
    <2>1. PICK ok \in BOOLEAN : drop_add(p, "TIMED", now + ttl, ok)
      BY <1>2 DEF ctl_drop_ttl
    <2>2. now + ttl \in Nat
      BY BoundAssumption DEF LoopInv
    <2>3. PICK e \in Nat : e = now + ttl
      BY <2>2
    <2>4. DropInv'
      BY <1>a, <2>1, <2>3, AddInv
    <2> QED BY <1>2, <2>4 DEF ctl_drop_ttl, walk, LoopInv
  <1>3. ASSUME NEW p \in Prefix, ctl_undrop(p) PROVE IInv'
    <2>1. CASE p \in Listed
      <3>1. PICK kept \in SUBSET {p} :
              drop_remove({p}, kept) /\ Failing(Unless(kept = {}, "delete"))
        BY <1>3, <2>1 DEF ctl_undrop
      <3>2. {p} \in SUBSET Listed
        BY <2>1, SMTT(60)
      <3>3. faults' \in Nat /\ UNCHANGED <<state, quiet_since, karmed>>
        BY <1>0, <1>3, <3>1, FailingType, SMTT(60) DEF ctl_undrop, DropInv
      <3>4. karmed' \in BOOLEAN /\ ArmedIffActive'
        BY <1>0, <3>3 DEF DropInv, ArmedIffActive
      <3>5. DropInv'
        BY <1>0, <3>1, <3>2, <3>3, <3>4, RemoveInv, SMTT(60)
      <3> QED BY <1>3, <3>5 DEF ctl_undrop, walk, LoopInv
    <2>2. CASE p \notin Listed
      <3>1. kdrops' \subseteq kdrops /\ UNCHANGED <<drops, drop_count, drop_used, drop_free>>
            /\ UNCHANGED <<state, quiet_since, karmed>>
        BY <1>3, <2>2, SMTT(60) DEF ctl_undrop, pool
      <3>2. faults' \in Nat
        BY <1>0, <1>3, <2>2, FailingType, SMTT(60) DEF ctl_undrop, DropInv
      <3>3. Listed' = Listed /\ (Listed \subseteq kdrops => Listed' \subseteq kdrops')
        BY <1>3, <2>2, <3>1 DEF ctl_undrop, Listed
      <3>4. MapsFit'
        BY <1>0, <3>1, ShrinkFits, SMTT(60) DEF DropInv
      <3>5. DropInv'
        BY <1>0, <3>1, <3>2, <3>3, <3>4, SMTT(60)
           DEF DropInv, DropsAreEnforced, ArmedIffActive, PoolIsAccountedFor
      <3> QED BY <1>3, <3>5 DEF ctl_undrop, walk, LoopInv
    <2> QED BY <2>1, <2>2, SMTT(60)
  <1>4. CASE ctl_arm
    <2>1. DropInv'
      BY <1>0, <1>4, ArmInv DEF ctl_arm
    <2> QED BY <1>4, <2>1 DEF ctl_arm, walk, LoopInv
  <1>5. CASE ctl_disarm
    <2>1. PICK q \in Nat : q = quiet_since
      BY <1>0 DEF DropInv
    <2>2. DropInv'
      BY <1>0, <1>5, <2>1, DisarmInv, SMTT(60) DEF ctl_disarm
    <2> QED BY <1>5, <2>2 DEF ctl_disarm, walk, LoopInv
  <1>6. ASSUME NEW c \in Configs, ctl_reload(c) PROVE IInv'
    <2>1. PICK ps : ps = {p \in Listed : Protected(c, p)}
      BY Zenon
    <2>2. PICK kept \in SUBSET ps, committed \in BOOLEAN :
            /\ drop_remove(ps, kept)
            /\ karmed' = IF committed THEN state = "ACTIVE" ELSE karmed
            /\ Failing(Unless(kept = {}, "delete") \cup Unless(committed, "commit"))
      BY <1>6, <2>1, Zenon DEF ctl_reload
    <2>3. faults' \in Nat /\ UNCHANGED <<state, quiet_since>>
      BY <1>0, <1>6, <2>2, FailingType, SMTT(60) DEF ctl_reload, DropInv
    <2>4. karmed' \in BOOLEAN /\ ArmedIffActive'
      <3>1. CASE committed
        BY <2>2, <2>3, <3>1, Zenon DEF ArmedIffActive
      <3>2. CASE ~committed
        BY <1>0, <2>2, <2>3, <3>2, SMTT(60) DEF ArmedIffActive, DropInv
      <3> QED BY <3>1, <3>2
    <2>5. ps \in SUBSET Listed
      BY <2>1
    <2>6. DropInv'
      BY <1>0, <2>2, <2>3, <2>4, <2>5, RemoveInv, SMTT(60)
    <2> QED BY <1>6, <2>6 DEF ctl_reload, walk, LoopInv
  <1>7. CASE TickFails
    <2>1. faults' \in Nat
      BY <1>0, <1>7, FailingType DEF TickFails, DropInv
    <2>2. DropInv'
      BY <1>0, <1>7, <2>1, SameDrops, SMTT(60) DEF TickFails, kernel
    <2> QED BY <1>7, <2>2 DEF TickFails, walk, LoopInv
  <1>8. CASE TickIdle
    <2>1. DropInv'
      BY <1>0, <1>8, SameDrops DEF TickIdle, vars, kernel
    <2> QED BY <1>8, <2>1 DEF TickIdle, vars, walk, LoopInv
  <1>9. CASE TickWake
    <2>1. DropInv'
      BY <1>0, <1>9, ArmInv DEF TickWake
    <2> QED BY <1>9, <2>1 DEF TickWake, walk, LoopInv
  <1>10. ASSUME NEW hs \in SUBSET Hosts, TickWalk(hs) PROVE IInv'
    <2>1. DropInv'
      BY <1>0, <1>10, SameDrops DEF TickWalk, kernel
    <2> QED BY <1>10, <2>1 DEF TickWalk, walk, LoopInv
  <1>11. ASSUME NEW h \in Hosts, policy_one_remote(h) PROVE IInv'
    <2>1. PICK ok \in BOOLEAN :
            /\ drop_add(h, "POLICY", 0, ok)
            /\ pc' = IF ok THEN "aggregate" ELSE "walk"
            /\ net' = IF ok THEN NetOf[h] ELSE {}
      BY <1>11 DEF policy_one_remote
    <2>2. h \in Prefix /\ NetOf[h] \in Prefix
      BY PrefixAssumption
    <2>3. DropInv'
      BY <1>0, <1>a, <2>1, <2>2, AddInv, SMTT(60)
    <2>4. LoopInv'
      BY <1>11, <2>1, <2>2, SMTT(60) DEF policy_one_remote, LoopInv
    <2> QED BY <2>3, <2>4, SMTT(60)
  <1>12. CASE maybe_aggregate
    <2>1. PICK n \in Prefix : n = net
      BY <1>0, <1>12, SMTT(60) DEF maybe_aggregate, LoopInv
    <2>2. CASE \E ok \in BOOLEAN : drop_add(net, "AGGREGATE", 0, ok)
      BY <1>0, <1>a, <1>12, <2>1, <2>2, AddInv, SMTT(60) DEF maybe_aggregate, LoopInv
    <2>3. CASE UNCHANGED <<state, quiet_since, karmed, drops, pool, kdrops, faults>>
      <3>1. DropInv'
        BY <1>0, <2>3, SameDrops, SMTT(60)
      <3> QED BY <1>12, <3>1 DEF maybe_aggregate, LoopInv
    <2> QED BY <1>12, <2>2, <2>3, SMTT(60) DEF maybe_aggregate
  <1>13. CASE expire_drops
    <2>1. PICK ps : ps = {p \in Listed : Due(p)}
      BY Zenon
    <2>2. PICK kept \in SUBSET ps :
            drop_remove(ps, kept) /\ Failing(Unless(kept = {}, "delete"))
      BY <1>13, <2>1, SMTT(60) DEF expire_drops
    <2>3. faults' \in Nat /\ UNCHANGED <<state, quiet_since, karmed>>
      BY <1>0, <1>13, <2>2, FailingType, SMTT(60) DEF expire_drops, DropInv
    <2>4. karmed' \in BOOLEAN /\ ArmedIffActive'
      BY <1>0, <2>3 DEF DropInv, ArmedIffActive
    <2>5. ps \in SUBSET Listed
      BY <2>1
    <2>6. DropInv'
      BY <1>0, <2>2, <2>3, <2>4, <2>5, RemoveInv, SMTT(60)
    <2> QED BY <1>13, <2>6 DEF expire_drops, LoopInv
  <1>14. CASE TickLoud
    <2>1. DropInv'
      BY <1>0, <1>14, SameDrops, SMTT(60) DEF TickLoud, kernel
    <2> QED BY <1>14, <2>1 DEF TickLoud, walk, LoopInv
  <1>15. CASE TickQuiet
    <2>1. PICK since \in Nat : since = IF quiet_since = 0 THEN now ELSE quiet_since
      BY <1>0, SMTT(60) DEF DropInv, LoopInv
    <2>2. CASE vg_ctrl_disarm(since)
      BY <1>0, <1>15, <2>2, DisarmInv, SMTT(60) DEF TickQuiet, LoopInv
    <2>3. CASE quiet_since' = since /\ UNCHANGED <<state, drops, pool, kernel, faults>>
      <3>1. DropInv'
        BY <1>0, <2>3, SameDrops, SMTT(60) DEF kernel
      <3> QED BY <1>15, <3>1 DEF TickQuiet, LoopInv
    <2> QED BY <1>15, <2>1, <2>2, <2>3, SMTT(60) DEF TickQuiet
  <1>16. CASE Clock
    <2>1. DropInv'
      BY <1>0, <1>16, SameDrops, SMTT(60) DEF Clock, kernel
    <2> QED BY <1>16, <2>1, SMTT(60) DEF Clock, walk, LoopInv
  <1>17. CASE UNCHANGED vars
    <2>1. DropInv'
      BY <1>0, <1>17, SameDrops DEF vars, kernel
    <2> QED BY <1>17, <2>1 DEF vars, walk, LoopInv
  <1> QED BY SMTT(60), <1>1, <1>2, <1>3, <1>4, <1>5, <1>6, <1>7, <1>8, <1>9, <1>10, <1>11,
             <1>12, <1>13, <1>14, <1>15, <1>16, <1>17, SMTT(60) DEF Next, Command, Tick

\* The daemon starts in the invariant.
LEMMA InitInv == Init => IInv
  <1> SUFFICES ASSUME Init PROVE IInv
    OBVIOUS
  <1>1. Listed = {} /\ drops \in [Prefix -> Record]
    BY NoRecType DEF Init, Listed
  <1>2. Cardinality(kdrops \cap V4) = 0 /\ Cardinality(kdrops \cap V6) = 0
    <2>1. kdrops \cap V4 = {} /\ kdrops \cap V6 = {}
      BY DEF Init
    <2> QED BY <2>1, FS_EmptySet
  <1>3. DropInv
    <2>1. PoolIsAccountedFor
      BY <1>1, FS_EmptySet, CapIs DEF Init, PoolIsAccountedFor
    <2>2. MapsFit
      BY <1>2, BoundAssumption DEF MapsFit
    <2>3. karmed = FALSE /\ state = "IDLE"
      BY DEF Init
    <2>4. ArmedIffActive
      BY <2>3, SMTT(60) DEF ArmedIffActive
    <2> QED BY <1>1, <2>1, <2>2, <2>3, <2>4, BoundAssumption, Zenon
            DEF Init, DropInv, DropsAreEnforced
  <1>4. LoopInv
    BY DEF Init, LoopInv
  <1> QED BY <1>3, <1>4, SMTT(60) DEF IInv

\* IInv holds in every reachable state of the control plane.
THEOREM Invariance == Spec => []IInv
  BY InitInv, NextInv, PTL DEF Spec

\* Every variable of the control plane keeps its type, whatever kernel
\* calls fail: in particular no count of the pool goes below zero.
THEOREM TypeCorrect == Spec => []TypeOK
  <1>1. IInv => TypeOK
    BY DEF IInv, DropInv, LoopInv, TypeOK
  <1> QED BY <1>1, Invariance, PTL

\* A listed drop is armed and in a kernel map, in every reachable state
\* (drop_add, vg_ctrl_arm, vg_ctrl_disarm).
THEOREM Enforcement == Spec => []DropsAreEnforced
  <1>1. IInv => DropsAreEnforced
    BY SMTT(60) DEF IInv, DropInv
  <1> QED BY <1>1, Invariance, PTL

\* The kernel's armed flag is the daemon's state (vg_cfg_commit).
THEOREM ArmedAgrees == Spec => []ArmedIffActive
  <1>1. IInv => ArmedIffActive
    BY DEF IInv, DropInv
  <1> QED BY <1>1, Invariance, PTL

\* The pool neither leaks nor hands out a record twice (drop_alloc,
\* drop_remove, drops_reset).
THEOREM PoolAddsUp == Spec => []PoolIsAccountedFor
  <1>1. IInv => PoolIsAccountedFor
    BY DEF IInv, DropInv
  <1> QED BY <1>1, Invariance, PTL

\* Two full maps are what an empty pool means.
LEMMA FullMaps ==
  ASSUME 2 * DropMapSize < U32
  PROVE  IInv => PoolOutlastsMaps
  <1> SUFFICES ASSUME IInv, ~PoolHasRecord, NEW p \in Prefix, p \notin kdrops
               PROVE  ~HasRoom(p)
    BY DEF PoolOutlastsMaps
  <1>1. /\ drop_count = Cardinality(Listed)
        /\ drop_count = 2 * DropMapSize
    BY CapIs DEF IInv, DropInv, PoolIsAccountedFor, PoolHasRecord
  <1>2. /\ kdrops \subseteq Prefix /\ MapsFit
        /\ IsFiniteSet(kdrops) /\ Cardinality(kdrops) \in Nat
    BY SubFinite DEF IInv, DropInv
  <1>3. Listed # {}
    <2>1. Listed = {} => Cardinality(Listed) = 0
      BY FS_EmptySet, Zenon
    <2> QED BY <1>1, <2>1, BoundAssumption
  <1>4. Listed \subseteq kdrops
    BY <1>3 DEF IInv, DropInv, DropsAreEnforced
  <1>5. 2 * DropMapSize <= Cardinality(kdrops)
    <2>1. Cardinality(Listed) <= Cardinality(kdrops)
      BY <1>2, <1>4, FS_Subset, Zenon
    <2> QED BY <1>1, <2>1
  <1> DEFINE four == kdrops \cap V4
             six == kdrops \cap V6
  <1>6. /\ IsFiniteSet(four) /\ Cardinality(four) \in Nat
        /\ IsFiniteSet(six) /\ Cardinality(six) \in Nat
    BY SubFinite DEF Prefix
  <1>7. kdrops = four \cup six /\ four \cap six = {}
    BY <1>2, PrefixAssumption DEF Prefix
  <1>8. Cardinality(kdrops) = Cardinality(four) + Cardinality(six)
    <2>1. Cardinality(four \cup six)
            = Cardinality(four) + Cardinality(six) - Cardinality(four \cap six)
      BY <1>6, FS_Union
    <2>2. Cardinality(four \cap six) = 0
      BY <1>7, FS_EmptySet
    <2>3. Cardinality(kdrops) = Cardinality(four \cup six)
      BY <1>7, Zenon
    <2> HIDE DEF four, six
    <2> QED BY <1>6, <2>1, <2>2, <2>3, SMTT(60)
  <1>9. Cardinality(four) <= DropMapSize /\ Cardinality(six) <= DropMapSize
    BY <1>2 DEF MapsFit
  <1>10. Cardinality(four) = DropMapSize /\ Cardinality(six) = DropMapSize
    <2> HIDE DEF four, six
    <2> QED BY <1>5, <1>6, <1>8, <1>9, BoundAssumption, SMTT(60)
  <1>11. Cardinality(kdrops \cap Family(p)) = DropMapSize
    BY <1>10, Zenon DEF Family
  <1> QED BY <1>11, BoundAssumption DEF HasRoom

\* The comment on drop_alloc: the pool refuses no drop that a kernel map has
\* room for, after any history of lifts, failed updates and stray entries, for
\* every map size whose double drop_pool_cap can hold.
THEOREM PoolSuffices ==
  ASSUME 2 * DropMapSize < U32
  PROVE  Spec => []PoolOutlastsMaps
  BY FullMaps, Invariance, PTL

\* That condition is needed: with a drop_map_size of 2^31, which vg_config_load
\* takes, drop_pool_cap wraps to 0, and no drop is ever listed, whatever room
\* the maps have (vg_ctrl_init, drop_alloc).
THEOREM WrappedPoolIsEmpty ==
  ASSUME 2 * DropMapSize = U32
  PROVE  Spec => [](Listed = {})
  <1>1. IInv => Listed = {}
    BY CapIs, CountIsRight DEF CountTells, IInv, DropInv, PoolIsAccountedFor
  <1> QED BY <1>1, Invariance, PTL

(***************************************************************************)
(* What a step may do to the list and the maps together.                   *)
(***************************************************************************)

\* The list stays, and at most an entry that nothing tracks is deleted.
Steady ==
  /\ cfg' = cfg
  /\ Listed' = Listed
  /\ kdrops' \subseteq kdrops
  /\ kdrops \cap Listed \subseteq kdrops'

\* Drops are lifted from both.  A reload leaves no protected one, unless
\* deletes fail.
Lifts ==
  /\ \E gone \in SUBSET Listed :
       /\ Listed' = Listed \ gone
       /\ kdrops' = kdrops \ gone
  /\ \/ cfg' = cfg
     \/ "delete" \notin Faults => \A p \in Listed' : ~Protected(cfg', p)

\* A disarm forgets the list, and the maps are flushed or not.  The tick
\* disarms only when there is nothing to forget.
Forgets ==
  /\ cfg' = cfg
  /\ Listed' = {}
  /\ kdrops' \subseteq kdrops
  /\ "flush" \notin Faults => kdrops' = {}
  /\ Listed = {} \/ ctl_disarm

ListStep ==
  \/ Steady
  \/ \E p \in Prefix : Added(p) /\ cfg' = cfg
  \/ Lifts
  \/ Forgets

\* drop_remove lifts from the list and the maps alike.
LEMMA RemoveLifts ==
  ASSUME NEW ps \in SUBSET Listed, NEW kept \in SUBSET ps, drop_remove(ps, kept)
  PROVE  Listed' = Listed \ (ps \ kept) /\ kdrops' = kdrops \ (ps \ kept)
  BY DEF drop_remove, Listed

\* Every step of the control plane is one of the four.
LEMMA NextListStep == IInv /\ [Next]_vars => ListStep
  <1> SUFFICES ASSUME IInv, [Next]_vars PROVE ListStep
    OBVIOUS
  <1>0. DropInv /\ LoopInv
    BY DEF IInv
  <1>a. "MANUAL" \in Reasons /\ "TIMED" \in Reasons
        /\ "POLICY" \in Reasons /\ "AGGREGATE" \in Reasons
    BY DEF Reasons
  <1>b. ASSUME UNCHANGED <<drops, kdrops, cfg>> PROVE ListStep
    BY <1>b DEF ListStep, Steady, Listed
  <1>1. ASSUME NEW p \in Prefix, ctl_drop(p) PROVE ListStep
    <2>1. PICK ok \in BOOLEAN : drop_add(p, "MANUAL", 0, ok)
      BY <1>1 DEF ctl_drop
    <2>2. Added(p)
      BY <1>0, <1>a, <2>1, AddInv
    <2> QED BY <1>1, <2>2 DEF ctl_drop, ListStep
  <1>2. ASSUME NEW p \in Prefix, NEW ttl \in Ttls, ctl_drop_ttl(p, ttl) PROVE ListStep
    <2>1. PICK ok \in BOOLEAN : drop_add(p, "TIMED", now + ttl, ok)
      BY <1>2 DEF ctl_drop_ttl
    <2>2. PICK e \in Nat : e = now + ttl
      BY <1>0, BoundAssumption DEF LoopInv
    <2>3. Added(p)
      BY <1>0, <1>a, <2>1, <2>2, AddInv
    <2> QED BY <1>2, <2>3 DEF ctl_drop_ttl, ListStep
  <1>3. ASSUME NEW p \in Prefix, ctl_undrop(p) PROVE ListStep
    <2>1. CASE p \in Listed
      <3>1. PICK kept \in SUBSET {p} : drop_remove({p}, kept)
        BY <1>3, <2>1 DEF ctl_undrop
      <3>2. {p} \in SUBSET Listed
        BY <2>1
      <3>3. Listed' = Listed \ ({p} \ kept) /\ kdrops' = kdrops \ ({p} \ kept)
        BY <3>1, <3>2, RemoveLifts, Zenon
      <3> QED BY <1>3, <3>2, <3>3, Zenon DEF ctl_undrop, ListStep, Lifts
    <2>2. CASE p \notin Listed
      BY <1>3, <2>2 DEF ctl_undrop, ListStep, Steady, Listed
    <2> QED BY <2>1, <2>2
  <1>4. CASE ctl_arm
    BY <1>4, <1>b DEF ctl_arm
  <1>5. CASE ctl_disarm
    <2>1. PICK q \in Nat : q = quiet_since
      BY <1>0 DEF DropInv
    <2>2. /\ Listed' = {} /\ kdrops' \subseteq kdrops
          /\ "flush" \notin Faults => kdrops' = {}
      BY <1>0, <1>5, <2>1, DisarmInv DEF ctl_disarm
    <2> QED BY <1>5, <2>2 DEF ctl_disarm, ListStep, Forgets
  <1>6. ASSUME NEW c \in Configs, ctl_reload(c) PROVE ListStep
    <2> DEFINE ps == {p \in Listed : Protected(c, p)}
    <2>1. PICK kept \in SUBSET ps, committed \in BOOLEAN :
            /\ drop_remove(ps, kept)
            /\ Failing(Unless(kept = {}, "delete") \cup Unless(committed, "commit"))
      BY <1>6, Zenon DEF ctl_reload
    <2>2. Listed' = Listed \ (ps \ kept) /\ kdrops' = kdrops \ (ps \ kept)
      <3>1. ps \in SUBSET Listed
        OBVIOUS
      <3> HIDE DEF ps
      <3> QED BY <2>1, <3>1, RemoveLifts
    <2>3. "delete" \notin Faults => kept = {}
      BY <2>1, SMTT(60) DEF Failing, Unless
    <2>4. "delete" \notin Faults => \A p \in Listed' : ~Protected(cfg', p)
      BY <1>6, <2>2, <2>3, SMTT(60) DEF ctl_reload
    <2> QED BY <2>2, <2>4, Zenon DEF ListStep, Lifts
  <1>7. CASE TickFails
    BY <1>7, <1>b, SMTT(60) DEF TickFails, kernel
  <1>8. CASE TickIdle
    BY <1>8, <1>b DEF TickIdle, vars, kernel
  <1>9. CASE TickWake
    BY <1>9, <1>b DEF TickWake
  <1>10. ASSUME NEW hs \in SUBSET Hosts, TickWalk(hs) PROVE ListStep
    BY <1>10, <1>b, SMTT(60) DEF TickWalk, kernel
  <1>11. ASSUME NEW h \in Hosts, policy_one_remote(h) PROVE ListStep
    <2>1. PICK ok \in BOOLEAN : drop_add(h, "POLICY", 0, ok)
      BY <1>11 DEF policy_one_remote
    <2>2. h \in Prefix
      BY PrefixAssumption
    <2>3. Added(h)
      BY <1>0, <1>a, <2>1, <2>2, AddInv, SMTT(60)
    <2> QED BY <1>11, <2>2, <2>3, SMTT(60) DEF policy_one_remote, ListStep
  <1>12. CASE maybe_aggregate
    <2>1. PICK n \in Prefix : n = net
      BY <1>0, <1>12 DEF maybe_aggregate, LoopInv
    <2>2. CASE \E ok \in BOOLEAN : drop_add(net, "AGGREGATE", 0, ok)
      <3>1. Added(net)
        BY <1>0, <1>a, <2>1, <2>2, AddInv, SMTT(60)
      <3> QED BY <1>12, <2>1, <3>1 DEF maybe_aggregate, ListStep
    <2>3. CASE UNCHANGED <<state, quiet_since, karmed, drops, pool, kdrops, faults>>
      BY <1>12, <1>b, <2>3 DEF maybe_aggregate
    <2> QED BY <1>12, <2>2, <2>3, SMTT(60) DEF maybe_aggregate
  <1>13. CASE expire_drops
    <2> DEFINE ps == {p \in Listed : Due(p)}
    <2>1. PICK kept \in SUBSET ps : drop_remove(ps, kept)
      BY <1>13, SMTT(60) DEF expire_drops
    <2>2. ps \in SUBSET Listed
      OBVIOUS
    <2> HIDE DEF ps
    <2>3. Listed' = Listed \ (ps \ kept) /\ kdrops' = kdrops \ (ps \ kept)
      BY <2>1, <2>2, RemoveLifts
    <2> QED BY <1>13, <2>2, <2>3, Zenon DEF expire_drops, ListStep, Lifts
  <1>14. CASE TickLoud
    BY <1>14, <1>b, SMTT(60) DEF TickLoud, kernel
  <1>15. CASE TickQuiet
    <2>1. PICK since \in Nat : since = IF quiet_since = 0 THEN now ELSE quiet_since
      BY <1>0 DEF DropInv, LoopInv
    <2>2. CASE drop_count = 0 /\ vg_ctrl_disarm(since)
      <3>1. /\ Listed' = {} /\ kdrops' \subseteq kdrops
            /\ "flush" \notin Faults => kdrops' = {}
        BY <1>0, <2>2, DisarmInv
      <3>2. Listed = {}
        BY <1>0, <2>2, CountIsRight, Zenon DEF CountTells
      <3> QED BY <1>15, <3>1, <3>2 DEF TickQuiet, ListStep, Forgets
    <2>3. CASE quiet_since' = since /\ UNCHANGED <<state, drops, pool, kernel, faults>>
      BY <1>15, <1>b, <2>3, SMTT(60) DEF TickQuiet, kernel
    <2> QED BY <1>15, <2>1, <2>2, <2>3, SMTT(60) DEF TickQuiet
  <1>16. CASE Clock
    BY <1>16, <1>b DEF Clock, kernel
  <1>17. CASE UNCHANGED vars
    BY <1>17, <1>b DEF vars, kernel
  <1> QED BY SMTT(60), <1>1, <1>2, <1>3, <1>4, <1>5, <1>6, <1>7, <1>8, <1>9, <1>10, <1>11,
             <1>12, <1>13, <1>14, <1>15, <1>16, <1>17, SMTT(60) DEF Next, Command, Tick

\* A kernel entry that the list does not know is left only by the disarm
\* command, whichever deletes and flushes fail (expire_drops, vg_ctrl_undrop,
\* vg_ctrl_prune_protected keep the record; drop_add updates first).
THEOREM OrphansComeFromDisarm == Spec => OnlyDisarmOrphans
  <1>1. IInv /\ [Next]_vars => [Strays' \subseteq Strays \/ ctl_disarm]_vars
    BY NextListStep DEF ListStep, Steady, Added, Lifts, Forgets, Strays
  <1> QED BY <1>1, Invariance, PTL DEF Spec, OnlyDisarmOrphans

\* As long as kernel deletes do not fail, no reload and no drop leaves a
\* protected prefix listed (drop_add's refusal, vg_ctrl_prune_protected).
THEOREM ProtectedStayOut ==
  ASSUME "delete" \notin Faults
  PROVE  Spec => []NoProtectedDrop
  <1>1. Init => NoProtectedDrop
    BY DEF Init, NoProtectedDrop, Listed
  <1>2. IInv /\ NoProtectedDrop /\ [Next]_vars => NoProtectedDrop'
    <2> SUFFICES ASSUME IInv, NoProtectedDrop, [Next]_vars
                 PROVE  NoProtectedDrop'
      OBVIOUS
    <2>1. CASE cfg' = cfg /\ \A p \in Listed' : p \in Listed \/ ~Protected(cfg, p)
      BY <2>1 DEF NoProtectedDrop, Protected
    <2>2. CASE \A p \in Listed' : ~Protected(cfg', p)
      BY <2>2 DEF NoProtectedDrop, Protected
    <2> QED BY <2>1, <2>2, NextListStep DEF ListStep, Steady, Added, Lifts, Forgets
  <1> QED BY <1>1, <1>2, Invariance, PTL DEF Spec

\* As long as the flush of a disarm clears the maps, they hold the listed
\* prefixes and nothing else, also when single deletes, updates or commits
\* fail (drop_add, drop_remove, flush_lpm).
THEOREM MapsMirrorList ==
  ASSUME "flush" \notin Faults
  PROVE  Spec => []KernelMirrorsList
  <1>1. Init => KernelMirrorsList
    BY DEF Init, KernelMirrorsList, Listed
  <1>2. IInv /\ KernelMirrorsList /\ [Next]_vars => KernelMirrorsList'
    BY NextListStep DEF ListStep, Steady, Added, Lifts, Forgets, KernelMirrorsList
  <1> QED BY <1>1, <1>2, Invariance, PTL DEF Spec

----------------------------------------------------------------------------
(***************************************************************************)
(* The contract, and the wait for calm.                                    *)
(***************************************************************************)

\* The control plane refines DropContract: no merge of drops shortens one,
\* the tick lifts none early, and only an undrop, a disarm or a reload that
\* protects the prefix ends one before its time (drop_add, expire_drops,
\* vg_ctrl_prune_protected, vg_ctrl_tick).
THEOREM ContractIsKept == Spec => KeepsContract
  BY InitKeepsContract, NextKeepsContract, CountIsRight, Invariance, PTL
     DEF Spec, KeepsContract, Contract!CSpec

\* The gate goes back to IDLE by itself only with an empty list and after
\* clear_seconds in which no tick saw loud traffic (vg_ctrl_tick, quiet_since).
THEOREM DisarmIsCalm == TSpec => OnlyCalmDisarms
  <1>1. TInit => IInv /\ LoudInv
    BY InitInv DEF TInit, Init, LoudInv
  <1>2. IInv /\ [TNext]_<<vars, loud_at>> => IInv'
    BY NextInv DEF TNext, vars
  <1>3. IInv /\ LoudInv /\ [TNext]_<<vars, loud_at>>
          => [state = "ACTIVE" /\ state' = "IDLE"
                => \/ ctl_disarm
                   \/ Listed = {} /\ now - loud_at >= cfg.clear_seconds]_vars
    <2> SUFFICES ASSUME IInv, LoudInv, [TNext]_<<vars, loud_at>>,
                        state = "ACTIVE", state' = "IDLE", ~ctl_disarm
                 PROVE  Listed = {} /\ now - loud_at >= cfg.clear_seconds
      OBVIOUS
    <2>1. CalmStep
      BY NextCalmStep, CountIsRight, SMTT(60) DEF TNext, vars
    <2>2. now \in Nat /\ quiet_since \in Nat /\ cfg.clear_seconds \in Nat
      BY ConfigAssumption DEF IInv, DropInv, LoopInv
    <2> QED BY <2>1, <2>2 DEF CalmStep, LoudInv, Since
  <1> QED BY <1>1, <1>2, <1>3, LoudNext, CountIsRight, PTL DEF TSpec, OnlyCalmDisarms
=============================================================================
