----------------------------- MODULE InputProofs -----------------------------
(***************************************************************************)
(* Theorems about what comes in from outside (MCInputs): frames with any   *)
(* number of headers under every limit on them (Packet), files of any      *)
(* length (Config), and the numbers and prefixes of CidrProofs.            *)
(***************************************************************************)
EXTENDS MCInputs, CidrProofs

(***************************************************************************)
(* The XDP program.                                                        *)
(***************************************************************************)
Kinds == {"eth", "vlan", "ip6", "arp"} \cup V4 \cup Ext \cup L4

LEMMA Concat ==
  ASSUME NEW S, NEW s \in Seq(S), NEW t \in Seq(S)
  PROVE  /\ s \o t \in Seq(S)
         /\ Len(s \o t) = Len(s) + Len(t)
         /\ \A i \in 1 .. Len(s) : (s \o t)[i] = s[i]
         /\ \A j \in 1 .. Len(t) : (s \o t)[Len(s) + j] = t[j]
  OBVIOUS

\* Which header is where.
LEMMA HeadersAre ==
  ASSUME NEW f \in Frames
  PROVE  /\ \A i \in 2 .. f.vlans + 1 : Type(f, i) = "vlan"
         /\ Type(f, f.vlans + 2) = f.net
         /\ \A j \in 1 .. Len(f.ext) : Type(f, f.vlans + 2 + j) = f.ext[j]
         /\ Type(f, f.vlans + 3 + Len(f.ext)) = f.l4
         /\ Len(Headers(f)) = f.vlans + 3 + Len(f.ext)
  <1> DEFINE tags == [i \in 1 .. f.vlans |-> "vlan"]
  <1>1. f.vlans \in Nat /\ f.ext \in Seq(Ext) /\ f.net \in Kinds /\ f.l4 \in Kinds
    BY DEF Frames, Kinds
  <1>2. f.ext \in Seq(Kinds) /\ Len(f.ext) \in Nat
    BY <1>1 DEF Kinds
  <1>3. tags \in Seq(Kinds) /\ Len(tags) = f.vlans /\ \A i \in 1 .. f.vlans : tags[i] = "vlan"
    <2>1. "vlan" \in Kinds
      BY DEF Kinds
    <2> QED BY <1>1, <2>1
  <1> HIDE DEF tags
  <1>4. <<"eth">> \in Seq(Kinds) /\ Len(<<"eth">>) = 1 /\ <<f.net>> \in Seq(Kinds)
        /\ Len(<<f.net>>) = 1 /\ <<f.l4>> \in Seq(Kinds) /\ Len(<<f.l4>>) = 1
    <2>1. "eth" \in Kinds
      BY DEF Kinds
    <2> QED BY <1>1, <2>1
  <1> DEFINE a == <<"eth">> \o tags
             b == a \o <<f.net>>
             c == b \o f.ext
             d == c \o <<f.l4>>
  <1>5. Headers(f) = d
    BY DEF Headers, tags
  <1>6. a \in Seq(Kinds) /\ Len(a) = 1 + f.vlans
        /\ \A i \in 2 .. f.vlans + 1 : a[i] = "vlan"
    BY <1>1, <1>3, <1>4
  <1> HIDE DEF a
  <1>7. b \in Seq(Kinds) /\ Len(b) = 2 + f.vlans /\ b[f.vlans + 2] = f.net
        /\ \A i \in 2 .. f.vlans + 1 : b[i] = "vlan"
    BY <1>1, <1>4, <1>6, SMTT(60)
  <1> HIDE DEF b
  <1>8. c \in Seq(Kinds) /\ Len(c) = 2 + f.vlans + Len(f.ext) /\ c[f.vlans + 2] = f.net
        /\ (\A i \in 2 .. f.vlans + 1 : c[i] = "vlan")
        /\ \A j \in 1 .. Len(f.ext) : c[f.vlans + 2 + j] = f.ext[j]
    <2>1. c \in Seq(Kinds) /\ Len(c) = Len(b) + Len(f.ext)
          /\ (\A i \in 1 .. Len(b) : c[i] = b[i])
          /\ \A j \in 1 .. Len(f.ext) : c[Len(b) + j] = f.ext[j]
      <3>1. PICK e \in Seq(Kinds) : e = f.ext
        BY <1>2
      <3>2. b \in Seq(Kinds)
        BY <1>7
      <3>3. b \o e \in Seq(Kinds) /\ Len(b \o e) = Len(b) + Len(e)
            /\ (\A i \in 1 .. Len(b) : (b \o e)[i] = b[i])
            /\ \A j \in 1 .. Len(e) : (b \o e)[Len(b) + j] = e[j]
        BY <3>2, Concat
      <3> QED BY <3>1, <3>3
    <2> HIDE DEF c
    <2>2. \A j \in 1 .. Len(f.ext) : f.vlans + 2 + j = Len(b) + j
      BY <1>1, <1>2, <1>7
    <2>3. \A i \in 2 .. f.vlans + 2 : i \in 1 .. Len(b)
      BY <1>1, <1>7
    <2>4. f.vlans + 2 \in 2 .. f.vlans + 2 /\ \A i \in 2 .. f.vlans + 1 : i \in 2 .. f.vlans + 2
      BY <1>1
    <2> QED BY <1>1, <1>2, <1>7, <2>1, <2>2, <2>3, <2>4, Zenon
  <1> HIDE DEF c
  <1>9. d \in Seq(Kinds) /\ Len(d) = 3 + f.vlans + Len(f.ext) /\ d[f.vlans + 2] = f.net
        /\ (\A i \in 2 .. f.vlans + 1 : d[i] = "vlan")
        /\ (\A j \in 1 .. Len(f.ext) : d[f.vlans + 2 + j] = f.ext[j])
        /\ d[f.vlans + 3 + Len(f.ext)] = f.l4
    <2>1. d \in Seq(Kinds) /\ Len(d) = Len(c) + 1
          /\ (\A i \in 1 .. Len(c) : d[i] = c[i]) /\ d[Len(c) + 1] = f.l4
      BY <1>4, <1>8
    <2> HIDE DEF d
    <2>2. \A j \in 1 .. Len(f.ext) : f.vlans + 2 + j \in 1 .. Len(c)
      BY <1>1, <1>2, <1>8, SMTT(60)
    <2>3. \A i \in 2 .. f.vlans + 2 : i \in 1 .. Len(c)
      BY <1>1, <1>2, <1>8
    <2>4. f.vlans + 2 \in 2 .. f.vlans + 2 /\ \A i \in 2 .. f.vlans + 1 : i \in 2 .. f.vlans + 2
      BY <1>1
    <2>5. Len(c) + 1 = f.vlans + 3 + Len(f.ext)
      BY <1>1, <1>2, <1>8, SMTT(60)
    <2>6. Len(d) = 3 + f.vlans + Len(f.ext)
      BY <1>1, <1>2, <1>8, <2>1
    <2>7. d[f.vlans + 3 + Len(f.ext)] = f.l4
      BY <2>1, <2>5
    <2>8. \A j \in 1 .. Len(f.ext) : d[f.vlans + 2 + j] = f.ext[j]
      BY <1>8, <2>1, <2>2
    <2>9. d[f.vlans + 2] = f.net /\ \A i \in 2 .. f.vlans + 1 : d[i] = "vlan"
      BY <1>8, <2>1, <2>3, <2>4
    <2> QED BY <2>1, <2>6, <2>7, <2>8, <2>9
  <1> HIDE DEF d
  <1>10. Len(d) = f.vlans + 3 + Len(f.ext) /\ \A i \in 1 .. Len(d) : Type(f, i) = d[i]
    BY <1>1, <1>2, <1>5, <1>9 DEF Type
  <1>11. \A i \in 2 .. f.vlans + 2 : i \in 1 .. Len(d)
    BY <1>1, <1>2, <1>10
  <1>12. \A i \in 2 .. f.vlans + 1 : i \in 2 .. f.vlans + 2
    BY <1>1
  <1>13. \A j \in 1 .. Len(f.ext) : f.vlans + 2 + j \in 1 .. Len(d)
    BY <1>1, <1>2, <1>10, SMTT(60)
  <1>14. f.vlans + 3 + Len(f.ext) \in 1 .. Len(d) /\ f.vlans + 2 \in 2 .. f.vlans + 2
    BY <1>1, <1>2, <1>10, SMTT(60)
  <1>15. \A i \in 2 .. f.vlans + 1 : Type(f, i) = "vlan"
    BY <1>9, <1>10, <1>11, <1>12
  <1>16. Type(f, f.vlans + 2) = f.net
    BY <1>9, <1>10, <1>11, <1>14
  <1>17. \A j \in 1 .. Len(f.ext) : Type(f, f.vlans + 2 + j) = f.ext[j]
    BY <1>9, <1>10, <1>13
  <1>18. Type(f, f.vlans + 3 + Len(f.ext)) = f.l4
    BY <1>9, <1>10, <1>14
  <1> QED BY <1>5, <1>10, <1>15, <1>16, <1>17, <1>18

\* Tags that n turns pass, and where the loop is then.
Tags(f, n) == IF f.vlans <= n THEN f.vlans ELSE n
TagsEnd(f, n) == IF f.whole >= Tags(f, n) + 1 THEN Tags(f, n) + 2 ELSE 0

LEMMA TagGoesOn ==
  ASSUME NEW f \in Frames, NEW n \in Nat \ {0}
  PROVE  PastTag(f, TagsEnd(f, n - 1)) = TagsEnd(f, n)
  <1> DEFINE i == TagsEnd(f, n - 1)
  <1>1. f.vlans \in Nat /\ f.whole \in Nat /\ f.net # "vlan"
    BY DEF Frames, V4
  <1>2. CASE i = 0
    <2>1. TagsEnd(f, n) = 0
      BY <1>1, <1>2 DEF TagsEnd, Tags
    <2> QED BY <1>2, <2>1 DEF PastTag
  <1>3. CASE i # 0 /\ f.vlans <= n - 1
    <2>1. i = f.vlans + 2 /\ TagsEnd(f, n) = i
      BY <1>1, <1>3 DEF TagsEnd, Tags
    <2>2. Type(f, i) # "vlan"
      BY <1>1, <2>1, HeadersAre
    <2> QED BY <2>1, <2>2 DEF PastTag
  <1>4. CASE i # 0 /\ f.vlans > n - 1
    <2>1. i = n + 1 /\ TagsEnd(f, n) = IF i <= f.whole THEN i + 1 ELSE 0
      BY <1>1, <1>4 DEF TagsEnd, Tags
    <2>2. i \in 2 .. f.vlans + 1
      BY <1>1, <1>4, <2>1
    <2>3. Type(f, i) = "vlan"
      BY <2>2, HeadersAre
    <2> QED BY <1>4, <2>1, <2>3 DEF PastTag, Whole
  <1>5. i = 0 \/ (i # 0 /\ f.vlans <= n - 1) \/ (i # 0 /\ f.vlans > n - 1)
    BY <1>1
  <1> QED BY <1>2, <1>3, <1>4, <1>5

LEMMA NetworkHeaderIs ==
  ASSUME NEW f \in Frames
  PROVE  NetworkHeader(f) = TagsEnd(f, MaxVlans)
  <1> DEFINE Turn(g) == [n \in 0 .. MaxVlans |-> IF n = 0 THEN IF Whole(f, 1) THEN 2 ELSE 0
                                                ELSE PastTag(f, g[n - 1])]
             ends == [n \in 0 .. MaxVlans |-> TagsEnd(f, n)]
             after == CHOOSE g : g = Turn(g)
  <1>1. NetworkHeader(f) = after[MaxVlans]
    BY Zenon DEF NetworkHeader
  <1>2. f.vlans \in Nat /\ f.whole \in Nat /\ MaxVlans \in Nat
    BY PacketAssumption DEF Frames
  <1>3. TagsEnd(f, 0) = IF Whole(f, 1) THEN 2 ELSE 0
    BY <1>2 DEF TagsEnd, Tags, Whole
  <1>4. ends = Turn(ends)
    <2>1. \A n \in 0 .. MaxVlans : n # 0 => TagsEnd(f, n) = PastTag(f, ends[n - 1])
      <3> SUFFICES ASSUME NEW n \in 0 .. MaxVlans, n # 0
                   PROVE  TagsEnd(f, n) = PastTag(f, ends[n - 1])
        OBVIOUS
      <3>1. ends[n - 1] = TagsEnd(f, n - 1) /\ n \in Nat \ {0}
        BY <1>2
      <3> QED BY <3>1, TagGoesOn
    <2> QED BY <1>3, <2>1
  <1>5. after = Turn(after)
    <2> HIDE DEF Turn, ends
    <2> QED BY <1>4
  <1>6. DOMAIN after = 0 .. MaxVlans /\ after[0] = TagsEnd(f, 0)
        /\ \A n \in 1 .. MaxVlans : after[n] = PastTag(f, after[n - 1])
    <2> HIDE DEF after
    <2> QED BY <1>2, <1>3, <1>5
  <1> HIDE DEF after
  <1> DEFINE T == {n \in 0 .. MaxVlans : after[n] = TagsEnd(f, n)}
  <1>7. 0 \in T
    BY <1>2, <1>6
  <1>8. ASSUME NEW n \in 1 .. MaxVlans, n - 1 \in T PROVE n \in T
    <2>1. n \in Nat \ {0} /\ n \in 0 .. MaxVlans
      BY <1>2
    <2> QED BY <1>6, <1>8, <2>1, TagGoesOn
  <1>9. MaxVlans \in T
    <2> HIDE DEF T
    <2>1. MaxVlans \in 0 .. MaxVlans
      BY <1>2
    <2> QED BY <1>2, <1>7, <1>8, <2>1, InductTo
  <1> QED BY <1>1, <1>9

\* Where the extension headers begin, and how many of them n turns pass.
ExtAt(f) == f.vlans + 3
Exts(f, n) == IF Len(f.ext) <= n THEN Len(f.ext) ELSE n

Walks == [rc : {-1, 0, 1}, at : Nat]

\* A walk of n turns that may read on has passed all headers so far, none of a
\* later fragment; one that may not has met a later fragment or the end.
Walked(f, n, w) ==
  /\ w \in Walks
  /\ w.rc = 1 => /\ w.at = ExtAt(f) + Exts(f, n)
                 /\ \A j \in 1 .. Exts(f, n) : f.ext[j] # "later"
  /\ w.rc = 0 => \E j \in 1 .. Len(f.ext) : f.ext[j] = "later"
  /\ w.rc = -1 => f.whole < ExtAt(f) + Len(f.ext)

LEMMA ExtGoesOn ==
  ASSUME NEW f \in Frames, NEW n \in Nat \ {0}, NEW w, Walked(f, n - 1, w)
  PROVE  Walked(f, n, PastExt(f, ExtAt(f), w))
  <1> DEFINE k == Exts(f, n - 1)
             E == Len(f.ext)
             i == ExtAt(f)
  <1>1. f.vlans \in Nat /\ f.whole \in Nat /\ f.ext \in Seq(Ext) /\ E \in Nat /\ f.l4 \in L4
    BY DEF Frames
  <1>2. k \in Nat /\ k <= E /\ i \in Nat /\ i = f.vlans + 3
    BY <1>1 DEF Exts, ExtAt
  <1>3. CASE w.rc # 1
    BY <1>3 DEF PastExt, Walked
  <1>4. CASE w.rc = 1 /\ k = E
    <2>1. w.at = f.vlans + 3 + Len(f.ext)
      BY <1>2, <1>4 DEF Walked
    <2>2. Type(f, w.at) = f.l4
      BY <2>1, HeadersAre
    <2>3. Type(f, w.at) \notin Ext
      BY <1>1, <2>2 DEF Ext, L4
    <2>4. Exts(f, n) = k
      BY <1>1, <1>4 DEF Exts
    <2> HIDE DEF k
    <2> QED BY <2>3, <2>4 DEF PastExt, Walked, k
  <1>5. CASE w.rc = 1 /\ k # E
    <2>1. k + 1 \in 1 .. E /\ k = n - 1 /\ Exts(f, n) = k + 1
      BY <1>1, <1>2, <1>5 DEF Exts
    <2>2. w.at = i + k /\ w.at = f.vlans + 2 + (k + 1) /\ w.at \in Nat
      BY <1>1, <1>2, <1>5 DEF Walked
    <2>3. Type(f, w.at) = f.ext[k + 1] /\ f.ext[k + 1] \in Ext
      <3> HIDE DEF k
      <3>1. PICK j \in 1 .. E : j = k + 1
        BY <2>1
      <3>2. Type(f, f.vlans + 2 + j) = f.ext[j]
        BY HeadersAre
      <3>3. f.ext[j] \in Ext
        BY <1>1
      <3> QED BY <2>2, <3>1, <3>2, <3>3
    <2>4. \A j \in 1 .. k : f.ext[j] # "later"
      BY <1>5 DEF Walked
    <2> HIDE DEF k, i, E
    <2>5. CASE ~Whole(f, w.at)
      <3>1. f.whole < i + E
        <4>1. k < E /\ f.whole < i + k
          BY <1>1, <1>2, <2>1, <2>2, <2>5, SMTT(60) DEF Whole
        <4>2. f.whole \in Nat /\ E \in Nat /\ k \in Nat /\ i \in Nat
          BY <1>1, <1>2, Zenon
        <4> QED BY <4>1, <4>2
      <3>2. PastExt(f, i, w) = [rc |-> -1, at |-> i]
        BY <1>5, <2>3, <2>5 DEF PastExt
      <3> QED BY <1>2, <3>1, <3>2 DEF Walked, Walks, i, E
    <2>6. CASE Whole(f, w.at) /\ f.ext[k + 1] = "later"
      <3>1. PastExt(f, i, w) = [rc |-> 0, at |-> w.at + 1]
        BY <1>5, <2>3, <2>6 DEF PastExt
      <3>2. \E j \in 1 .. E : f.ext[j] = "later"
        BY <2>1, <2>6
      <3> QED BY <2>2, <3>1, <3>2 DEF Walked, Walks, i, E
    <2>7. CASE Whole(f, w.at) /\ f.ext[k + 1] # "later"
      <3>1. PastExt(f, i, w) = [rc |-> 1, at |-> w.at + 1]
        BY <1>5, <2>3, <2>7 DEF PastExt
      <3>2. \A j \in 1 .. k + 1 : f.ext[j] # "later"
        <4>1. \A j \in 1 .. k + 1 : j \in 1 .. k \/ j = k + 1
          BY <1>2
        <4> QED BY <2>4, <2>7, <4>1
      <3>3. w.at + 1 = i + (k + 1) /\ w.at + 1 \in Nat
        BY <1>2, <2>2
      <3> QED BY <2>1, <3>1, <3>2, <3>3 DEF Walked, Walks, i
    <2> QED BY <2>5, <2>6, <2>7
  <1> QED BY <1>3, <1>4, <1>5

LEMMA WalkIs ==
  ASSUME NEW f \in Frames
  PROVE  Walked(f, MaxExt, v6_walk_ext(f, ExtAt(f)))
  <1> DEFINE i == ExtAt(f)
             Turn(g) == [n \in 0 .. MaxExt |-> IF n = 0 THEN [rc |-> 1, at |-> i]
                                               ELSE PastExt(f, i, g[n - 1])]
             after == CHOOSE g : g = Turn(g)
             step == [n \in 1 .. MaxExt |-> [w \in Walks |-> PastExt(f, i, w)]]
  <1>1. v6_walk_ext(f, i) = after[MaxExt]
    BY Zenon DEF v6_walk_ext
  <1>2. MaxExt \in Nat /\ i \in Nat /\ Len(f.ext) \in Nat
    BY PacketAssumption DEF Frames, ExtAt
  <1>3. [rc |-> 1, at |-> i] \in Walks
    BY <1>2 DEF Walks
  <1>4. \A w \in Walks : PastExt(f, i, w) \in Walks
    BY <1>2 DEF Walks, PastExt
  <1>5. step \in [1 .. MaxExt -> [Walks -> Walks]]
    BY <1>4
  <1>6. PICK g : Runs(Walks, MaxExt, [rc |-> 1, at |-> i], step, g)
    <2>1. IsLoop(Walks, MaxExt, [rc |-> 1, at |-> i], step)
      BY <1>2, <1>3, <1>5 DEF IsLoop
    <2> QED BY <2>1, LoopExists, Zenon
  <1>7. \A n \in 1 .. MaxExt : g[n] = PastExt(f, i, g[n - 1])
    <2> SUFFICES ASSUME NEW n \in 1 .. MaxExt PROVE g[n] = PastExt(f, i, g[n - 1])
      OBVIOUS
    <2>1. n - 1 \in 0 .. MaxExt
      BY <1>2
    <2> QED BY <1>6, <2>1, Zenon DEF Runs
  <1>8. g = Turn(g)
    BY <1>2, <1>6, <1>7 DEF Runs
  <1>9. after = Turn(after)
    <2> HIDE DEF Turn
    <2> QED BY <1>8
  <1>10. after[0] = [rc |-> 1, at |-> i]
         /\ \A n \in 1 .. MaxExt : after[n] = PastExt(f, i, after[n - 1])
    <2> HIDE DEF after
    <2> QED BY <1>2, <1>9
  <1> HIDE DEF after
  <1> DEFINE T == {n \in 0 .. MaxExt : Walked(f, n, after[n])}
  <1>11. 0 \in T
    BY <1>2, <1>3, <1>10 DEF Walked, Exts
  <1>12. ASSUME NEW n \in 1 .. MaxExt, n - 1 \in T PROVE n \in T
    <2>1. n \in Nat \ {0} /\ n \in 0 .. MaxExt
      BY <1>2
    <2> QED BY <1>10, <1>12, <2>1, ExtGoesOn
  <1>13. MaxExt \in T
    <2> HIDE DEF T
    <2>1. MaxExt \in 0 .. MaxExt
      BY <1>2
    <2> QED BY <1>2, <1>11, <1>12, <2>1, InductTo, Zenon
  <1> QED BY <1>1, <1>13

\* What the program makes of a frame whose addresses it has found.
Exempted(f, ports) ==
  LET w == v6_walk_ext(f, ExtAt(f))
  IN  IF f.net = "ip6"
      THEN Exempt(f, ports, TRUE, Type(f, w.at),
                  IF w.rc = 1 THEN parse_l4(f, w.at, TRUE) ELSE Unread)
      ELSE Exempt(f, ports, FALSE, f.l4,
                  IF f.net = "ip4" THEN parse_l4(f, ExtAt(f), FALSE) ELSE Unread)

LEMMA VerdictIs ==
  ASSUME NEW f \in Frames, NEW ports
  PROVE  voidgate_xdp(f, ports) =
           IF ~Readable(f) \/ Exempted(f, ports) THEN "pass" ELSE "drop"
  <1>1. f.vlans \in Nat /\ f.whole \in Nat /\ MaxVlans \in Nat
        /\ f.net \in V4 \cup {"ip6", "arp"} /\ (f.net # "ip6" => f.ext = <<>>)
    BY PacketAssumption DEF Frames
  <1>2. NetworkHeader(f) = TagsEnd(f, MaxVlans)
    BY NetworkHeaderIs
  <1>3. CASE f.vlans > MaxVlans
    <2>1. ~Readable(f)
      BY <1>1, <1>3 DEF Readable
    <2>2. MaxVlans + 2 \in 2 .. f.vlans + 1
      BY <1>1, <1>3
    <2>3. Type(f, MaxVlans + 2) = "vlan"
      BY <2>2, HeadersAre
    <2>4. TagsEnd(f, MaxVlans) = 0 \/ TagsEnd(f, MaxVlans) = MaxVlans + 2
      BY <1>1, <1>3 DEF TagsEnd, Tags
    <2>5. NetworkHeader(f) = 0 \/ Type(f, NetworkHeader(f)) \notin V4 \cup {"ip6"}
      BY <1>2, <2>3, <2>4 DEF V4
    <2> QED BY <2>1, <2>5, Zenon DEF voidgate_xdp
  <1>4. CASE f.vlans <= MaxVlans /\ f.whole < f.vlans + 1
    <2>1. ~Readable(f)
      BY <1>1, <1>4 DEF Readable
    <2>2. NetworkHeader(f) = 0
      BY <1>1, <1>2, <1>4 DEF TagsEnd, Tags
    <2> QED BY <2>1, <2>2 DEF voidgate_xdp
  <1>5. CASE f.vlans <= MaxVlans /\ f.whole >= f.vlans + 1
    <2>1. NetworkHeader(f) = f.vlans + 2 /\ f.vlans + 2 # 0 /\ (f.vlans + 2) + 1 = ExtAt(f)
      BY <1>1, <1>2, <1>5 DEF TagsEnd, Tags, ExtAt
    <2>2. Type(f, f.vlans + 2) = f.net
      BY HeadersAre
    <2>3. Readable(f) <=> f.net \in V4 \cup {"ip6"} /\ Whole(f, f.vlans + 2)
      BY <1>1, <1>5 DEF Readable, Whole
    <2>4. f.net # "ip6" => Type(f, ExtAt(f)) = f.l4
      <3>1. Type(f, f.vlans + 3 + Len(f.ext)) = f.l4
        BY HeadersAre
      <3>2. f.ext = <<>> => f.vlans + 3 + Len(f.ext) = f.vlans + 3
        BY <1>1
      <3> QED BY <1>1, <3>1, <3>2 DEF ExtAt
    <2> QED BY <2>1, <2>2, <2>3, <2>4, Zenon DEF voidgate_xdp, Exempted
  <1> QED BY <1>1, <1>3, <1>4, <1>5

\* The type that stands for an unread one is not among those of NDP.
LEMMA NoneIsNoNdp ==
  0 \notin NdiscRs .. NdiscLast
  BY PacketAssumption

\* Nothing that was not read exempts a frame, because no port is 0.
LEMMA UnreadExempts ==
  ASSUME NEW f \in Frames, NEW ports, 0 \notin ports, NEW v6 \in BOOLEAN, NEW proto, NEW h,
         h.icmp6_type = 0, proto \in {"tcp", "udp"} => h.sport = 0 /\ h.dport = 0
  PROVE  Exempt(f, ports, v6, proto, h) <=> v6 /\ "link" \in {f.src, f.dst}
  <1>1. ~DhcpPair(0, 0)
    BY PacketAssumption DEF DhcpPair
  <1> QED BY <1>1, NoneIsNoNdp DEF Exempt

LEMMA ReadExempts ==
  ASSUME NEW f \in Frames, NEW ports, BeginsL4(f), NEW v6 \in BOOLEAN, v6 <=> f.net = "ip6",
         NEW h,
         f.l4 \in {"tcp", "udp"} => h.sport = f.sport /\ h.dport = f.dport,
         h.icmp6_type = IF v6 /\ f.l4 = "icmp6" THEN f.icmp6_type ELSE 0
  PROVE  Exempt(f, ports, v6, f.l4, h) <=> Earned(f, ports)
  <1>1. f.net = "ip6" \/ f.net = "ip4"
    BY DEF BeginsL4, Readable, V4
  <1>2. CASE f.l4 = "tcp"
    BY <1>1, <1>2, NoneIsNoNdp DEF Exempt, Earned
  <1>3. CASE f.l4 = "udp"
    BY <1>1, <1>3, NoneIsNoNdp DEF Exempt, Earned
  <1>4. CASE f.l4 = "icmp6"
    BY <1>1, <1>4, NoneIsNoNdp DEF Exempt, Earned
  <1>5. CASE f.l4 = "none"
    BY <1>1, <1>5, NoneIsNoNdp DEF Exempt, Earned
  <1> QED BY <1>2, <1>3, <1>4, <1>5 DEF Frames, L4

\* The header that the program takes for the last one, at i.  Either it is, of
\* a first fragment, or it is another extension header, or nothing was read.
LEMMA LastExempts ==
  ASSUME NEW f \in Frames, Readable(f), NEW ports, 0 \notin ports,
         NEW v6 \in BOOLEAN, v6 <=> f.net = "ip6", f.net \in {"ip4", "ip6"},
         (\A j \in DOMAIN f.ext : f.ext[j] # "later"), Len(f.ext) <= MaxExt,
         NEW i, i = Len(Headers(f)), Type(f, i) = f.l4
  PROVE  Exempt(f, ports, v6, f.l4, parse_l4(f, i, v6)) <=> Earned(f, ports)
  <1> DEFINE h == parse_l4(f, i, v6)
  <1>1. CASE Whole(f, i)
    <2>1. BeginsL4(f)
      BY <1>1 DEF BeginsL4
    <2>2. f.l4 \in {"tcp", "udp"} => h.sport = f.sport /\ h.dport = f.dport
      BY <1>1 DEF parse_l4
    <2>3. h.icmp6_type = IF v6 /\ f.l4 = "icmp6" THEN f.icmp6_type ELSE 0
      BY <1>1 DEF parse_l4
    <2> HIDE DEF h
    <2> QED BY <2>1, <2>2, <2>3, ReadExempts DEF h
  <1>2. CASE ~Whole(f, i)
    <2>1. ~BeginsL4(f)
      BY <1>2 DEF BeginsL4
    <2>2. h.icmp6_type = 0 /\ h.sport = 0 /\ h.dport = 0
      BY <1>2 DEF parse_l4
    <2>3. Exempt(f, ports, v6, f.l4, h) <=> v6 /\ "link" \in {f.src, f.dst}
      <3> HIDE DEF h
      <3> QED BY <2>2, UnreadExempts
    <2> QED BY <2>1, <2>3 DEF Earned
  <1> QED BY <1>1, <1>2

LEMMA ExemptedIsEarned ==
  ASSUME NEW f \in Frames, Readable(f), NEW ports, 0 \notin ports
  PROVE  Exempted(f, ports) <=> Earned(f, ports)
  <1> DEFINE E == Len(f.ext)
             w == v6_walk_ext(f, ExtAt(f))
             h == IF w.rc = 1 THEN parse_l4(f, w.at, TRUE) ELSE Unread
  <1>1. f.vlans \in Nat /\ f.whole \in Nat /\ f.ext \in Seq(Ext) /\ E \in Nat /\ f.l4 \in L4
        /\ MaxExt \in Nat /\ f.net \in V4 \cup {"ip6"} /\ (f.net # "ip6" => f.ext = <<>>)
    BY PacketAssumption DEF Frames, Readable
  <1>2. /\ Len(Headers(f)) = f.vlans + 3 + E
        /\ Type(f, f.vlans + 3 + E) = f.l4
    BY HeadersAre
  <1>3. DOMAIN f.ext = 1 .. E
    BY <1>1
  <1>4. CASE f.net = "ip6"
    <2>1. Walked(f, MaxExt, w)
      BY WalkIs
    <2>2. Exempted(f, ports) <=> Exempt(f, ports, TRUE, Type(f, w.at), h)
      BY <1>4 DEF Exempted
    <2> HIDE DEF w
    <2>3. CASE w.rc # 1
      <3>1. w.rc = 0 \/ w.rc = -1
        BY <2>1, <2>3 DEF Walked, Walks
      <3>2. ~BeginsL4(f)
        BY <1>1, <1>2, <1>3, <2>1, <3>1, SMTT(60) DEF Walked, BeginsL4, Whole, ExtAt
      <3>3. h.icmp6_type = 0 /\ h.sport = 0 /\ h.dport = 0
        BY <2>3 DEF Unread
      <3>4. Exempt(f, ports, TRUE, Type(f, w.at), h) <=> "link" \in {f.src, f.dst}
        <4> HIDE DEF h
        <4> QED BY <3>3, UnreadExempts, Zenon
      <3> QED BY <1>4, <2>2, <3>2, <3>4, Zenon DEF Earned
    <2>4. CASE w.rc = 1 /\ E <= MaxExt
      <3>1. w.at = f.vlans + 3 + E /\ \A j \in 1 .. E : f.ext[j] # "later"
        BY <2>1, <2>4 DEF Walked, Exts, ExtAt
      <3>2. (\A j \in DOMAIN f.ext : f.ext[j] # "later")
        BY <1>3, <3>1
      <3>3. w.at = Len(Headers(f)) /\ Type(f, w.at) = f.l4
        BY <1>2, <3>1
      <3>4. Exempt(f, ports, TRUE, f.l4, parse_l4(f, w.at, TRUE)) <=> Earned(f, ports)
        BY <1>4, <2>4, <3>2, <3>3, LastExempts, Zenon
      <3> QED BY <2>2, <2>4, <3>3, <3>4, Zenon
    <2>5. CASE w.rc = 1 /\ E > MaxExt
      <3>1. w.at = f.vlans + 2 + (MaxExt + 1) /\ MaxExt + 1 \in 1 .. E
        <4>1. Exts(f, MaxExt) = MaxExt
          BY <1>1, <2>5 DEF Exts
        <4>2. w.at = (f.vlans + 3) + MaxExt
          BY <2>1, <2>5, <4>1 DEF Walked, ExtAt
        <4> QED BY <1>1, <2>5, <4>2, SMTT(60)
      <3>2. Type(f, w.at) = f.ext[MaxExt + 1] /\ f.ext[MaxExt + 1] \in Ext
        <4>1. PICK j \in 1 .. E : j = MaxExt + 1
          BY <3>1
        <4>2. Type(f, f.vlans + 2 + j) = f.ext[j]
          BY HeadersAre
        <4>3. f.ext[j] \in Ext
          BY <1>1
        <4> QED BY <3>1, <4>1, <4>2, <4>3
      <3>3. Type(f, w.at) \notin {"tcp", "udp", "icmp6"}
        BY <3>2 DEF Ext
      <3>4. ~BeginsL4(f)
        BY <1>1, <2>5 DEF BeginsL4
      <3>5. h.icmp6_type = 0 /\ h.sport = 0 /\ h.dport = 0
        BY <2>5, <3>3 DEF parse_l4
      <3>6. Exempt(f, ports, TRUE, Type(f, w.at), h) <=> "link" \in {f.src, f.dst}
        <4> HIDE DEF h
        <4> QED BY <3>5, UnreadExempts, Zenon
      <3> QED BY <1>4, <2>2, <3>4, <3>6, Zenon DEF Earned
    <2> QED BY <1>1, <2>3, <2>4, <2>5
  <1>5. CASE f.net = "ip4"
    <2>1. E = 0 /\ (\A j \in DOMAIN f.ext : f.ext[j] # "later") /\ E <= MaxExt
      BY <1>1, <1>3, <1>5
    <2>2. ExtAt(f) = Len(Headers(f)) /\ Type(f, ExtAt(f)) = f.l4
      BY <1>1, <1>2, <2>1 DEF ExtAt
    <2>3. Exempt(f, ports, FALSE, f.l4, parse_l4(f, ExtAt(f), FALSE)) <=> Earned(f, ports)
      BY <1>5, <2>1, <2>2, LastExempts, Zenon
    <2> QED BY <1>5, <2>3, Zenon DEF Exempted
  <1>6. CASE f.net \in {"ip4_later", "ip4_bad"}
    <2>1. ~BeginsL4(f) /\ f.net # "ip6"
      BY <1>6 DEF BeginsL4
    <2>2. PICK u : u = Unread
      OBVIOUS
    <2>3. u.icmp6_type = 0 /\ u.sport = 0 /\ u.dport = 0
      BY <2>2 DEF Unread
    <2>4. ~Exempt(f, ports, FALSE, f.l4, u)
      BY <2>3, UnreadExempts, Zenon
    <2> QED BY <1>6, <2>1, <2>2, <2>4, Zenon DEF Exempted, Earned
  <1> QED BY <1>1, <1>4, <1>5, <1>6 DEF V4

\* The verdict on every frame, with any number of tags and extension headers
\* and cut off anywhere: it is dropped exactly if its addresses can be read and
\* it has not earned its way (voidgate_xdp, v6_walk_ext, parse_l4).
THEOREM VerdictIsEarned ==
  ASSUME NEW f \in Frames, NEW ports, 0 \notin ports
  PROVE  voidgate_xdp(f, ports) = "pass" <=> ~Readable(f) \/ Earned(f, ports)
  BY VerdictIs, ExemptedIsEarned
----------------------------------------------------------------------------
(***************************************************************************)
(* The configuration.                                                      *)
(***************************************************************************)

LEMMA StrtoullIs ==
  ASSUME NEW n \in Int
  PROVE  strtoull(n) \in 0 .. U64Max
  BY ConfigAssumption DEF strtoull

\* The lines of a key among the first n of a file, and those not empty.
OfTo(f, n, key) == {i \in 1 .. n : f[i].key = key}
FilledTo(f, n, key) == {i \in 1 .. n : f[i].key = key /\ ~f[i].blank}

NumberTo(f, n, key) ==
  IF OfTo(f, n, key) = {} THEN Defaults[key] ELSE strtoull(WordsOf(f, OfTo(f, n, key))[1].n)

\* c is what the first n lines of f say.
MeansTo(c, f, n) ==
  /\ c.wake_pps = NumberTo(f, n, "wake_pps")
  /\ c.idle_poll_ms = NumberTo(f, n, "idle_poll_ms")
  /\ c.allow_ports = IF OfTo(f, n, "allow_ports") = {} THEN Defaults.allow_ports
                     ELSE PortNumbers(WordsOf(f, OfTo(f, n, "allow_ports")))
  /\ c.allow = IF FilledTo(f, n, "allow_networks") = {} THEN Defaults.allow
               ELSE Numbers(WordsOf(f, FilledTo(f, n, "allow_networks")))
  /\ c.auto_local = (FilledTo(f, n, "local_networks") = {})
  /\ FilledTo(f, n, "local_networks") # {} =>
       c.local = Numbers(WordsOf(f, FilledTo(f, n, "local_networks")))

LEMMA MaxIsLast ==
  ASSUME NEW n \in Nat, NEW T \in SUBSET (1 .. n), n \in T
  PROVE  (CHOOSE i \in T : \A j \in T : j <= i) = n
  <1>1. \A m \in T : m <= n
    OBVIOUS
  <1>2. \A x \in T : (\A m \in T : m <= x) => x = n
    OBVIOUS
  <1> QED BY <1>1, <1>2, Zenon

\* One more line: it is the last of its key, and the other keys keep theirs.
LEMMA OneMoreLine ==
  ASSUME NEW f, NEW n \in Nat \ {0}, NEW key
  PROVE  /\ f[n].key # key => OfTo(f, n, key) = OfTo(f, n - 1, key)
         /\ f[n].key = key => /\ OfTo(f, n, key) # {}
                              /\ WordsOf(f, OfTo(f, n, key)) = f[n].words
         /\ f[n].key # key \/ f[n].blank => FilledTo(f, n, key) = FilledTo(f, n - 1, key)
         /\ f[n].key = key /\ ~f[n].blank =>
              /\ FilledTo(f, n, key) # {}
              /\ WordsOf(f, FilledTo(f, n, key)) = f[n].words
  <1>1. 1 .. n = (1 .. n - 1) \cup {n} /\ n \in 1 .. n /\ n \in Nat
    OBVIOUS
  <1>2. f[n].key # key => OfTo(f, n, key) = OfTo(f, n - 1, key)
    BY <1>1 DEF OfTo
  <1>3. f[n].key # key \/ f[n].blank => FilledTo(f, n, key) = FilledTo(f, n - 1, key)
    BY <1>1 DEF FilledTo
  <1>4. ASSUME NEW T \in SUBSET (1 .. n), n \in T PROVE T # {} /\ WordsOf(f, T) = f[n].words
    <2>1. (CHOOSE i \in T : \A j \in T : j <= i) = n
      BY <1>1, <1>4, MaxIsLast, Zenon
    <2>2. WordsOf(f, T) = f[n].words
      BY <2>1, Zenon DEF WordsOf
    <2> QED BY <1>4, <2>2, Zenon
  <1>5. f[n].key = key => n \in OfTo(f, n, key) /\ OfTo(f, n, key) \in SUBSET (1 .. n)
    BY <1>1 DEF OfTo
  <1>6. f[n].key = key /\ ~f[n].blank =>
          n \in FilledTo(f, n, key) /\ FilledTo(f, n, key) \in SUBSET (1 .. n)
    BY <1>1 DEF FilledTo
  <1> QED BY <1>2, <1>3, <1>4, <1>5, <1>6

\* What a file has been read into, so far.
Reads == [ok : BOOLEAN, c : vg_config]

LEMMA Outcomes ==
  ASSUME NEW c \in vg_config
  PROVE  /\ Good(c) \in Reads /\ Good(c).ok /\ Good(c).c = c
         /\ Bad(c) \in Reads /\ ~Bad(c).ok /\ Bad(c).c = c
  BY DEF Good, Bad, Reads

\* A line takes nothing that does not fit, and changes its own field only.
LineGives(c, line, r) ==
  /\ r \in Reads
  /\ r.ok =>
       /\ r.c.wake_pps = IF line.key = "wake_pps" THEN strtoull(line.words[1].n) ELSE c.wake_pps
       /\ r.c.idle_poll_ms = IF line.key = "idle_poll_ms" THEN strtoull(line.words[1].n)
                             ELSE c.idle_poll_ms
       /\ r.c.allow_ports = IF line.key = "allow_ports" THEN PortNumbers(line.words)
                            ELSE c.allow_ports
       /\ r.c.allow = IF line.key = "allow_networks" /\ ~line.blank THEN Numbers(line.words)
                      ELSE c.allow
       /\ r.c.auto_local = (c.auto_local /\ ~(line.key = "local_networks" /\ ~line.blank))
       /\ r.c.local = IF line.key = "local_networks" /\ ~line.blank THEN Numbers(line.words)
                      ELSE c.local

LEMMA ScalarGives ==
  ASSUME NEW c \in vg_config, NEW line \in FileLine, line.key \in Scalars
  PROVE  LineGives(c, line, apply_scalar(c, line))
  <1> DEFINE w == line.words[1]
             v == ValueOf(line.key, w)
  <1>1. CASE ~(line.words # <<>> /\ Takes(line.key, w))
    <2>1. apply_scalar(c, line) = Bad(c)
      BY <1>1 DEF apply_scalar
    <2> QED BY <2>1, Outcomes DEF LineGives
  <1>2. CASE line.words # <<>> /\ Takes(line.key, w)
    <2>1. w.n \in Int
      <3>1. line.words \in Seq(Word)
        BY DEF FileLine
      <3>2. 1 \in 1 .. Len(line.words)
        BY <1>2, <3>1
      <3>3. w \in Word
        BY <3>1, <3>2
      <3> QED BY <3>3 DEF Word
    <2>2. apply_scalar(c, line) = Good([c EXCEPT ![line.key] = v])
      BY <1>2 DEF apply_scalar
    <2>3. strtoull(w.n) \in 0 .. U64Max
      BY <2>1, StrtoullIs
    <2>4. CASE line.key = "interface"
      <3>1. PICK d \in vg_config : d = [c EXCEPT !.interface = w.n]
        BY <2>1, Zenon DEF vg_config
      <3>2. apply_scalar(c, line) = Good(d)
        BY <2>2, <2>4, <3>1 DEF ValueOf
      <3> QED BY <2>4, <3>1, <3>2, Outcomes DEF LineGives, vg_config
    <2>5. CASE line.key = "drop_map_size"
      <3>1. PICK d \in vg_config : d = [c EXCEPT !.drop_map_size = strtoull(w.n)]
        <4>1. strtoull(w.n) <= U32Max
          BY <1>2, <2>5 DEF Takes
        <4>2. strtoull(w.n) \in 0 .. U32Max
          BY <2>3, <4>1, ConfigAssumption
        <4> QED BY <4>2, Zenon DEF vg_config
      <3>2. apply_scalar(c, line) = Good(d)
        BY <2>2, <2>5, <3>1 DEF ValueOf
      <3> QED BY <2>5, <3>1, <3>2, Outcomes DEF LineGives, vg_config
    <2>6. CASE line.key = "wake_pps"
      <3>1. PICK d \in vg_config : d = [c EXCEPT !.wake_pps = strtoull(w.n)]
        BY <2>3, Zenon DEF vg_config
      <3>2. apply_scalar(c, line) = Good(d)
        BY <2>2, <2>6, <3>1 DEF ValueOf
      <3> QED BY <2>6, <3>1, <3>2, Outcomes DEF LineGives, vg_config
    <2>7. CASE line.key = "idle_poll_ms"
      <3>1. PICK d \in vg_config : d = [c EXCEPT !.idle_poll_ms = strtoull(w.n)]
        <4>1. strtoull(w.n) <= IntMax
          BY <1>2, <2>7 DEF Takes
        <4>2. strtoull(w.n) \in 0 .. IntMax
          BY <2>3, <4>1, ConfigAssumption
        <4> QED BY <4>2, Zenon DEF vg_config
      <3>2. apply_scalar(c, line) = Good(d)
        BY <2>2, <2>7, <3>1 DEF ValueOf
      <3> QED BY <2>7, <3>1, <3>2, Outcomes DEF LineGives, vg_config
    <2> QED BY <2>4, <2>5, <2>6, <2>7 DEF Scalars
  <1> QED BY <1>1, <1>2

LEMMA PortsGive ==
  ASSUME NEW c \in vg_config, NEW line \in FileLine, line.key = "allow_ports"
  PROVE  LineGives(c, line, parse_allow_ports(c, line.words))
  <1> DEFINE words == line.words
  <1>1. words \in Seq(Word)
    BY DEF FileLine
  <1>2. CASE ~(Len(words) <= MaxPorts /\ \A i \in DOMAIN words : TakesPort(words[i]))
    <2>1. parse_allow_ports(c, words) = Bad(c)
      BY <1>2 DEF parse_allow_ports
    <2> QED BY <2>1, Outcomes DEF LineGives
  <1>3. CASE Len(words) <= MaxPorts /\ \A i \in DOMAIN words : TakesPort(words[i])
    <2>1. PortNumbers(words) \in AtMost(MaxPorts, 1 .. PortMax)
      <3>1. DOMAIN words = 1 .. Len(words) /\ Len(words) \in Nat
        BY <1>1
      <3>2. \A i \in 1 .. Len(words) : strtoull(words[i].n) \in 1 .. PortMax
        BY <1>3, <3>1 DEF TakesPort
      <3> QED BY <1>3, <3>1, <3>2 DEF PortNumbers, AtMost
    <2>2. PICK d \in vg_config : d = [c EXCEPT !.allow_ports = PortNumbers(words)]
      BY <2>1, Zenon DEF vg_config
    <2>3. parse_allow_ports(c, words) = Good(d)
      BY <1>3, <2>2 DEF parse_allow_ports
    <2> QED BY <2>2, <2>3, Outcomes DEF LineGives, vg_config
  <1> QED BY <1>2, <1>3

LEMMA NumbersAre ==
  ASSUME NEW words \in Seq(Word), parse_csv_cidrs(words)
  PROVE  Numbers(words) \in AtMost(MaxCidrs, Int)
  <1>1. DOMAIN words = 1 .. Len(words) /\ Len(words) \in Nat /\ Len(words) <= MaxCidrs
    BY DEF parse_csv_cidrs
  <1>2. \A i \in 1 .. Len(words) : words[i].n \in Int
    <2>1. \A i \in 1 .. Len(words) : words[i] \in Word
      BY <1>1
    <2> QED BY <2>1 DEF Word
  <1> QED BY <1>1, <1>2 DEF Numbers, AtMost

LEMMA LineGivesIt ==
  ASSUME NEW c \in vg_config, NEW line \in FileLine
  PROVE  LineGives(c, line, apply_line(c, line))
  <1> DEFINE words == line.words
             d == [c EXCEPT !.auto_local = FALSE, !.local = Numbers(words)]
             e == [c EXCEPT !.allow = Numbers(words)]
  <1>1. line.key \in Keys /\ line.blank \in BOOLEAN /\ words \in Seq(Word)
    BY DEF FileLine
  <1>2. CASE line.key \in Scalars
    <2>1. apply_line(c, line) = apply_scalar(c, line)
      BY <1>2 DEF apply_line, Scalars
    <2> QED BY <1>2, <2>1, ScalarGives
  <1>3. CASE line.key = "allow_ports"
    <2>1. apply_line(c, line) = parse_allow_ports(c, words)
      BY <1>3 DEF apply_line, Scalars
    <2> QED BY <1>3, <2>1, PortsGive
  <1>4. CASE line.key \in {"local_networks", "allow_networks"} /\ line.blank
    <2>1. apply_line(c, line) = Good(c)
      BY <1>4 DEF apply_line, Scalars
    <2> QED BY <1>4, <2>1, Outcomes DEF LineGives, vg_config
  <1>5. CASE line.key = "local_networks" /\ ~line.blank
    <2>1. apply_line(c, line) = IF parse_csv_cidrs(words) THEN Good(d) ELSE Bad(c)
      BY <1>5 DEF apply_line, Scalars
    <2>2. CASE parse_csv_cidrs(words)
      <3>1. Numbers(words) \in AtMost(MaxCidrs, Int)
        BY <1>1, <2>2, NumbersAre
      <3>2. d \in vg_config
        BY <3>1, Zenon DEF vg_config
      <3>3. d.local = Numbers(words) /\ d.auto_local = FALSE /\ d.allow = c.allow
            /\ d.wake_pps = c.wake_pps /\ d.idle_poll_ms = c.idle_poll_ms
            /\ d.allow_ports = c.allow_ports
        BY DEF vg_config
      <3> HIDE DEF d
      <3> QED BY <1>5, <2>1, <2>2, <3>2, <3>3, Outcomes, Zenon DEF LineGives
    <2>3. CASE ~parse_csv_cidrs(words)
      BY <2>1, <2>3, Outcomes DEF LineGives
    <2> QED BY <2>2, <2>3
  <1>6. CASE line.key = "allow_networks" /\ ~line.blank
    <2>1. apply_line(c, line) = IF parse_csv_cidrs(words) THEN Good(e) ELSE Bad(c)
      BY <1>6, SMTT(60) DEF apply_line, Scalars
    <2>2. CASE parse_csv_cidrs(words)
      <3>1. Numbers(words) \in AtMost(MaxCidrs, Int)
        BY <1>1, <2>2, NumbersAre
      <3>2. e \in vg_config
        BY <3>1 DEF vg_config
      <3>3. e.allow = Numbers(words) /\ e.auto_local = c.auto_local /\ e.local = c.local
            /\ e.wake_pps = c.wake_pps /\ e.idle_poll_ms = c.idle_poll_ms
            /\ e.allow_ports = c.allow_ports /\ c.auto_local \in BOOLEAN
        BY DEF vg_config
      <3> HIDE DEF e
      <3> QED BY <1>6, <2>1, <2>2, <3>2, <3>3, Outcomes, SMTT(60) DEF LineGives
    <2>3. CASE ~parse_csv_cidrs(words)
      BY <2>1, <2>3, Outcomes, SMTT(60) DEF LineGives
    <2> QED BY <2>2, <2>3
  <1>7. CASE line.key = "eio"
    <2>1. apply_line(c, line) = Bad(c)
      BY <1>7, SMTT(60) DEF apply_line, Scalars
    <2> QED BY <2>1, Outcomes DEF LineGives
  <1>8. CASE line.key = "other"
    <2>1. apply_line(c, line) = Good(c)
      BY <1>8 DEF apply_line, Scalars
    <2> QED BY <1>8, <2>1, Outcomes DEF LineGives, vg_config
  <1> QED BY <1>1, <1>2, <1>3, <1>4, <1>5, <1>6, <1>7, <1>8 DEF Keys

\* What is read of the first n lines: if none was bad, what they say.
ReadTo(f, n, s) == s \in Reads /\ (s.ok => MeansTo(s.c, f, n))

LEMMA ReadGoesOn ==
  ASSUME NEW f \in Seq(FileLine), NEW n \in 1 .. Len(f), NEW s, ReadTo(f, n - 1, s)
  PROVE  ReadTo(f, n, PastLine(s, f[n]))
  <1> DEFINE line == f[n]
             r == apply_line(s.c, line)
  <1>1. n \in Nat \ {0} /\ line \in FileLine /\ s \in Reads
    BY DEF ReadTo
  <1>2. s.c \in vg_config /\ s.ok \in BOOLEAN
    BY <1>1 DEF Reads
  <1>3. CASE ~s.ok
    BY <1>3, SMTT(60) DEF PastLine, ReadTo
  <1>4. CASE s.ok
    <2>1. PastLine(s, line) = r
      BY <1>4 DEF PastLine
    <2>2. LineGives(s.c, line, r)
      BY <1>1, <1>2, LineGivesIt
    <2>3. MeansTo(s.c, f, n - 1)
      BY <1>4, SMTT(60) DEF ReadTo
    <2> HIDE DEF r
    <2>4. ASSUME r.ok PROVE MeansTo(r.c, f, n)
      <3>1. ASSUME NEW key
            PROVE  /\ line.key # key => OfTo(f, n, key) = OfTo(f, n - 1, key)
                   /\ line.key = key => /\ OfTo(f, n, key) # {}
                                        /\ WordsOf(f, OfTo(f, n, key)) = line.words
                   /\ line.key # key \/ line.blank => FilledTo(f, n, key) = FilledTo(f, n - 1, key)
                   /\ line.key = key /\ ~line.blank =>
                        /\ FilledTo(f, n, key) # {}
                        /\ WordsOf(f, FilledTo(f, n, key)) = line.words
        BY <1>1, OneMoreLine
      <3> HIDE DEF line
      <3>2. r.c.wake_pps = NumberTo(f, n, "wake_pps")
        BY <2>2, <2>3, <2>4, <3>1, Zenon DEF LineGives, MeansTo, NumberTo
      <3>3. r.c.idle_poll_ms = NumberTo(f, n, "idle_poll_ms")
        BY <2>2, <2>3, <2>4, <3>1, Zenon DEF LineGives, MeansTo, NumberTo
      <3>4. r.c.allow_ports = IF OfTo(f, n, "allow_ports") = {} THEN Defaults.allow_ports
                              ELSE PortNumbers(WordsOf(f, OfTo(f, n, "allow_ports")))
        BY <2>2, <2>3, <2>4, <3>1, ZenonT(60) DEF LineGives, MeansTo
      <3>5. r.c.allow = IF FilledTo(f, n, "allow_networks") = {} THEN Defaults.allow
                        ELSE Numbers(WordsOf(f, FilledTo(f, n, "allow_networks")))
        BY <2>2, <2>3, <2>4, <3>1 DEF LineGives, MeansTo
      <3>6. r.c.auto_local = (FilledTo(f, n, "local_networks") = {})
        BY <2>2, <2>3, <2>4, <3>1, Zenon DEF LineGives, MeansTo
      <3>7. FilledTo(f, n, "local_networks") # {} =>
              r.c.local = Numbers(WordsOf(f, FilledTo(f, n, "local_networks")))
        BY <2>2, <2>3, <2>4, <3>1, ZenonT(60) DEF LineGives, MeansTo
      <3> QED BY <3>2, <3>3, <3>4, <3>5, <3>6, <3>7, SMTT(60) DEF MeansTo
    <2> QED BY <2>1, <2>2, <2>4 DEF LineGives, ReadTo
  <1> QED BY <1>2, <1>3, <1>4

\* What vg_config_load returns.
Loaded(f, q) ==
  /\ q \in Reads
  /\ q.c.idle_poll_ms # 0
  /\ q.ok => \E c \in vg_config :
       /\ MeansTo(c, f, Len(f))
       /\ q.c = [c EXCEPT !.idle_poll_ms = IF c.idle_poll_ms = 0 THEN Defaults.idle_poll_ms
                                           ELSE c.idle_poll_ms]

LEMMA LoadIs ==
  ASSUME NEW f \in Seq(FileLine), NEW c0
  PROVE  Loaded(f, vg_config_load(c0, f))
  <1> DEFINE N == Len(f)
             base == Good(Defaults)
             Turn(g) == [n \in 0 .. N |-> IF n = 0 THEN base ELSE PastLine(g[n - 1], f[n])]
             after == CHOOSE g : g = Turn(g)
             step == [n \in 1 .. N |-> [s \in Reads |-> PastLine(s, f[n])]]
             r == after[N]
             v == IF r.c.idle_poll_ms <= 0 THEN Defaults.idle_poll_ms ELSE r.c.idle_poll_ms
  <1>1. vg_config_load(c0, f) = [r EXCEPT !.c.idle_poll_ms = v]
    BY Zenon DEF vg_config_load
  <1>2. N \in Nat /\ base \in Reads /\ base.ok /\ base.c = Defaults
        /\ Defaults \in vg_config /\ Defaults.idle_poll_ms # 0 /\ Defaults.auto_local
    BY ConfigAssumption, Outcomes
  <1>3. ASSUME NEW n \in 1 .. N, NEW s \in Reads PROVE PastLine(s, f[n]) \in Reads
    <2>1. f[n] \in FileLine /\ s.c \in vg_config
      BY DEF Reads
    <2>2. apply_line(s.c, f[n]) \in Reads
      BY <2>1, LineGivesIt DEF LineGives
    <2> QED BY <2>2 DEF PastLine
  <1>4. step \in [1 .. N -> [Reads -> Reads]]
    BY <1>3
  <1>5. PICK g : Runs(Reads, N, base, step, g)
    <2>1. IsLoop(Reads, N, base, step)
      BY <1>2, <1>4 DEF IsLoop
    <2> QED BY <2>1, LoopExists, Zenon
  <1>6. \A n \in 1 .. N : g[n] = PastLine(g[n - 1], f[n])
    <2> SUFFICES ASSUME NEW n \in 1 .. N PROVE g[n] = PastLine(g[n - 1], f[n])
      OBVIOUS
    <2>1. n - 1 \in 0 .. N
      BY <1>2
    <2> QED BY <1>5, <2>1, Zenon DEF Runs
  <1>7. g = Turn(g)
    BY <1>2, <1>5, <1>6 DEF Runs
  <1>8. after = Turn(after)
    <2> HIDE DEF Turn
    <2> QED BY <1>7
  <1>9. after[0] = base /\ \A n \in 1 .. N : after[n] = PastLine(after[n - 1], f[n])
    <2> HIDE DEF after, base
    <2> QED BY <1>2, <1>8
  <1> HIDE DEF after, base
  <1> DEFINE T == {n \in 0 .. N : ReadTo(f, n, after[n])}
  <1>10. 0 \in T
    <2>1. \A key : OfTo(f, 0, key) = {} /\ FilledTo(f, 0, key) = {}
      BY DEF OfTo, FilledTo
    <2>2. Defaults.auto_local = TRUE
      BY <1>2 DEF vg_config
    <2>3. MeansTo(Defaults, f, 0)
      BY <2>1, <2>2, Zenon DEF MeansTo, NumberTo
    <2> QED BY <1>2, <1>9, <2>3 DEF ReadTo
  <1>11. ASSUME NEW n \in 1 .. N, n - 1 \in T PROVE n \in T
    <2>1. n \in 0 .. N
      BY <1>2
    <2> QED BY <1>9, <1>11, <2>1, ReadGoesOn
  <1>12. ReadTo(f, N, r)
    <2> HIDE DEF T
    <2>1. N \in 0 .. N
      BY <1>2
    <2>2. N \in T
      BY <1>2, <1>10, <1>11, <2>1, InductTo, Zenon
    <2> QED BY <2>2 DEF T
  <1> HIDE DEF r
  <1>13. r \in Reads /\ r.c \in vg_config /\ (r.ok => MeansTo(r.c, f, N))
    BY <1>12 DEF ReadTo, Reads
  <1>14. PICK c \in vg_config : c = r.c
    BY <1>13
  <1>15. c.idle_poll_ms \in 0 .. IntMax /\ Defaults.idle_poll_ms \in 0 .. IntMax /\ IntMax \in Nat
    BY <1>2, ConfigAssumption DEF vg_config
  <1>16. v = (IF c.idle_poll_ms = 0 THEN Defaults.idle_poll_ms ELSE c.idle_poll_ms)
         /\ v \in 0 .. IntMax /\ v # 0
    BY <1>2, <1>14, <1>15
  <1> HIDE DEF v
  <1>17. PICK d \in vg_config : d = [c EXCEPT !.idle_poll_ms = v]
    BY <1>16, Zenon DEF vg_config
  <1>18. [r EXCEPT !.c.idle_poll_ms = v] = [ok |-> r.ok, c |-> d]
    BY <1>13, <1>14, <1>17 DEF Reads
  <1>19. d.idle_poll_ms # 0
    BY <1>16, <1>17 DEF vg_config
  <1>20. [ok |-> r.ok, c |-> d] \in Reads
    BY <1>13 DEF Reads
  <1> QED BY <1>1, <1>13, <1>14, <1>16, <1>17, <1>18, <1>19, <1>20, Zenon DEF Loaded

LEMMA AllLines ==
  ASSUME NEW f \in Seq(FileLine), NEW key
  PROVE  /\ OfTo(f, Len(f), key) = Of(f, key)
         /\ FilledTo(f, Len(f), key) = Filled(f, key)
         /\ NumberTo(f, Len(f), key) = Number(f, key)
  <1>1. DOMAIN f = 1 .. Len(f)
    OBVIOUS
  <1>2. OfTo(f, Len(f), key) = Of(f, key)
    BY <1>1 DEF OfTo, Of
  <1>3. FilledTo(f, Len(f), key) = Filled(f, key)
    BY <1>1 DEF FilledTo, Filled, Of
  <1> QED BY <1>2, <1>3 DEF NumberTo, Number

\* The addresses of the interface fill local as far as they fit.
LEMMA FirstAddresses ==
  ASSUME NEW addrs \in Seq(Int), NEW n, n = IF Len(addrs) < MaxCidrs THEN Len(addrs) ELSE MaxCidrs
  PROVE  /\ SubSeq(addrs, 1, n) \in AtMost(MaxCidrs, Int)
         /\ SubSeq(addrs, 1, n) = SubSeq(addrs, 1, Len(SubSeq(addrs, 1, n)))
         /\ SubSeq(addrs, 1, n) = addrs \/ Len(SubSeq(addrs, 1, n)) = MaxCidrs
  <1>1. n \in Nat /\ n <= Len(addrs) /\ n <= MaxCidrs /\ MaxCidrs \in Nat
        /\ (n = Len(addrs) \/ n = MaxCidrs)
    BY ConfigAssumption
  <1> DEFINE s == SubSeq(addrs, 1, n)
  <1>2. s \in Seq(Int) /\ Len(s) = n /\ \A i \in 1 .. n : s[i] = addrs[i]
    BY <1>1
  <1>3. SubSeq(s, 1, n) = s
    <2> HIDE DEF s
    <2> QED BY <1>1, <1>2
  <1>4. n = Len(addrs) => s = addrs
    BY <1>1, SMTT(60)
  <1> HIDE DEF s
  <1> QED BY <1>1, <1>2, <1>3, <1>4 DEF AtMost, s

\* n is c but for the fields that are not the file's to set.
ButKept(n, c) == \E i, z : n = [c EXCEPT !.interface = i, !.drop_map_size = z]

\* A load that is accepted, with the fields kept and the addresses filled in.
LEMMA LoadMeans ==
  ASSUME NEW f \in Seq(FileLine), NEW addrs \in Seq(Int), NEW q, Loaded(f, q), q.ok,
         NEW n \in vg_config, ButKept(n, q.c),
         NEW c, c = vg_config_auto_local(n, addrs)
  PROVE  /\ c \in vg_config
         /\ c.idle_poll_ms # 0
         /\ c.interface = n.interface
         /\ c.drop_map_size = n.drop_map_size
         /\ Means(c, f, addrs)
  <1> DEFINE m == IF Len(addrs) < MaxCidrs THEN Len(addrs) ELSE MaxCidrs
             s == SubSeq(addrs, 1, m)
  <1>1. s \in AtMost(MaxCidrs, Int) /\ s = SubSeq(addrs, 1, Len(s)) /\ (s = addrs \/ Len(s) = MaxCidrs)
    BY FirstAddresses, Zenon
  <1>2. PICK b \in vg_config :
          /\ MeansTo(b, f, Len(f))
          /\ q.c = [b EXCEPT !.idle_poll_ms = IF b.idle_poll_ms = 0 THEN Defaults.idle_poll_ms
                                              ELSE b.idle_poll_ms]
    BY SMTT(60) DEF Loaded
  <1>3. q.c \in vg_config /\ q.c.idle_poll_ms # 0
    BY DEF Loaded, Reads
  <1>4. /\ n.wake_pps = q.c.wake_pps /\ n.idle_poll_ms = q.c.idle_poll_ms
        /\ n.allow_ports = q.c.allow_ports /\ n.allow = q.c.allow
        /\ n.local = q.c.local /\ n.auto_local = q.c.auto_local
    BY <1>3 DEF vg_config, ButKept
  <1>5. /\ q.c.wake_pps = b.wake_pps
        /\ q.c.allow_ports = b.allow_ports /\ q.c.allow = b.allow
        /\ q.c.local = b.local /\ q.c.auto_local = b.auto_local
        /\ q.c.idle_poll_ms = IF b.idle_poll_ms = 0 THEN Defaults.idle_poll_ms ELSE b.idle_poll_ms
    BY <1>2, <1>3 DEF vg_config
  <1>6. /\ c \in vg_config
        /\ c.wake_pps = n.wake_pps /\ c.idle_poll_ms = n.idle_poll_ms
        /\ c.allow_ports = n.allow_ports /\ c.allow = n.allow
        /\ c.interface = n.interface /\ c.drop_map_size = n.drop_map_size
        /\ c.local = IF n.auto_local THEN s ELSE n.local
    <2> HIDE DEF s
    <2>1. c = IF n.auto_local THEN [n EXCEPT !.local = s] ELSE n
      BY DEF vg_config_auto_local, s
    <2>2. CASE n.auto_local
      BY <1>1, <2>1, <2>2, Zenon DEF vg_config
    <2>3. CASE ~n.auto_local
      BY <2>1, <2>3
    <2> QED BY <2>2, <2>3
  <1> HIDE DEF s
  <1>7. \A key : /\ OfTo(f, Len(f), key) = Of(f, key)
                 /\ FilledTo(f, Len(f), key) = Filled(f, key)
                 /\ NumberTo(f, Len(f), key) = Number(f, key)
    BY AllLines
  <1>8. Means(c, f, addrs)
    <2>1. c.wake_pps = Number(f, "wake_pps")
      BY <1>2, <1>4, <1>5, <1>6, <1>7 DEF MeansTo
    <2>2. c.idle_poll_ms = IF Number(f, "idle_poll_ms") = 0 THEN Defaults.idle_poll_ms
                           ELSE Number(f, "idle_poll_ms")
      BY <1>2, <1>4, <1>5, <1>6, <1>7 DEF MeansTo
    <2>3. c.allow_ports = IF Of(f, "allow_ports") = {} THEN Defaults.allow_ports
                          ELSE PortNumbers(WordsOf(f, Of(f, "allow_ports")))
      BY <1>2, <1>4, <1>5, <1>6, <1>7 DEF MeansTo
    <2>4. c.allow = IF Filled(f, "allow_networks") = {} THEN Defaults.allow
                    ELSE Numbers(WordsOf(f, Filled(f, "allow_networks")))
      BY <1>2, <1>4, <1>5, <1>6, <1>7 DEF MeansTo
    <2>5. IF Filled(f, "local_networks") = {}
          THEN c.local = SubSeq(addrs, 1, Len(c.local)) /\ (c.local = addrs \/ Len(c.local) = MaxCidrs)
          ELSE c.local = Numbers(WordsOf(f, Filled(f, "local_networks")))
      BY <1>1, <1>2, <1>4, <1>5, <1>6, <1>7, Zenon DEF MeansTo
    <2> QED BY <2>1, <2>2, <2>3, <2>4, <2>5, Zenon DEF Means
  <1> QED BY <1>3, <1>4, <1>6, <1>8

ConfigInv == TypeOK /\ ConfigMeansFile /\ StartupFieldsStay /\ override \in Int

LEMMA InitConfig ==
  Init => ConfigInv
  <1> SUFFICES ASSUME Init PROVE ConfigInv
    OBVIOUS
  <1> DEFINE q == vg_config_load(Defaults, file)
             n == WithInterface(q.c)
  <1>1. file \in Seq(FileLine) /\ nic \in Seq(Int) /\ override \in Int
    BY ConfigAssumption DEF Init
  <1>2. Loaded(file, q) /\ q.ok
    BY <1>1, LoadIs DEF Init
  <1>3. q.c \in vg_config
    BY <1>2 DEF Loaded, Reads
  <1> HIDE DEF q
  <1>4. n \in vg_config /\ (override # 0 => n.interface = override)
    BY <1>1, <1>3, Zenon DEF WithInterface, vg_config
  <1>5. n = [q.c EXCEPT !.interface = n.interface, !.drop_map_size = q.c.drop_map_size]
    <2>1. CASE override = 0
      BY <1>3, <2>1, Zenon DEF WithInterface, vg_config
    <2>2. CASE override # 0
      BY <1>3, <2>2, Zenon DEF WithInterface, vg_config
    <2> QED BY <2>1, <2>2
  <1>6. cfg = vg_config_auto_local(n, nic) /\ begun = <<cfg.interface, cfg.drop_map_size>>
    BY DEF Init, q
  <1> HIDE DEF n
  <1>7. cfg \in vg_config /\ cfg.idle_poll_ms # 0 /\ cfg.interface = n.interface
        /\ Means(cfg, file, nic)
    <2>1. ButKept(n, q.c)
      BY <1>5, Zenon DEF ButKept
    <2> QED BY <1>1, <1>2, <1>4, <1>6, <2>1, LoadMeans
  <1> QED BY <1>1, <1>4, <1>6, <1>7 DEF ConfigInv, TypeOK, ConfigMeansFile, StartupFieldsStay

LEMMA ReloadConfig ==
  ConfigInv /\ Reload => ConfigInv'
  <1> SUFFICES ASSUME ConfigInv,
                      NEW f \in Files, NEW addrs \in Nics, NEW found \in BOOLEAN,
                      vg_ctrl_reload(f, addrs, found)
               PROVE  ConfigInv'
    BY DEF Reload
  <1> DEFINE q == vg_config_load(cfg, f)
             n == WithInterface(Kept(q.c))
  <1>1. f \in Seq(FileLine) /\ addrs \in Seq(Int)
    BY ConfigAssumption
  <1>2. cfg \in vg_config /\ override \in Int
        /\ begun = <<cfg.interface, cfg.drop_map_size>>
        /\ (override # 0 => cfg.interface = override)
    BY DEF ConfigInv, TypeOK, StartupFieldsStay
  <1>3. Loaded(f, q)
    BY <1>1, LoadIs
  <1>4. CASE UNCHANGED vars
    BY <1>4 DEF ConfigInv, TypeOK, ConfigMeansFile, StartupFieldsStay, vars
  <1>5. CASE q.ok /\ cfg' = vg_config_auto_local(n, addrs) /\ file' = f /\ nic' = addrs
             /\ UNCHANGED <<override, begun>>
    <2>1. q.c \in vg_config /\ cfg.interface \in Int /\ cfg.drop_map_size \in 0 .. U32Max
      BY <1>2, <1>3 DEF Loaded, Reads, vg_config
    <2> HIDE DEF q
    <2>2. PICK k \in vg_config : k = Kept(q.c)
      BY <2>1, Zenon DEF Kept, vg_config
    <2>3. k.interface = cfg.interface /\ k.drop_map_size = cfg.drop_map_size
      BY <2>1, <2>2 DEF Kept, vg_config
    <2>4. n = k
      <3>1. CASE override = 0
        BY <2>2, <3>1 DEF WithInterface
      <3>2. CASE override # 0
        <4>1. n = [k EXCEPT !.interface = k.interface]
          BY <1>2, <2>2, <2>3, <3>2 DEF WithInterface
        <4> QED BY <4>1 DEF vg_config
      <3> QED BY <3>1, <3>2
    <2>5. n \in vg_config /\ n = [q.c EXCEPT !.interface = cfg.interface,
                                            !.drop_map_size = cfg.drop_map_size]
      BY <2>2, <2>4 DEF Kept
    <2> HIDE DEF n
    <2>6. PICK c : c = vg_config_auto_local(n, addrs)
      OBVIOUS
    <2>7. c \in vg_config /\ c.idle_poll_ms # 0 /\ c.interface = n.interface
          /\ c.drop_map_size = n.drop_map_size /\ Means(c, f, addrs)
      <3>1. ButKept(n, q.c)
        BY <2>5, Zenon DEF ButKept
      <3>2. n \in vg_config /\ q.ok
        BY <1>5, <2>5
      <3> QED BY <1>1, <1>3, <2>6, <3>1, <3>2, LoadMeans
    <2>8. cfg' = c /\ file' = f /\ nic' = addrs /\ override' = override /\ begun' = begun
      BY <1>5, <2>6
    <2>9. Means(cfg', file', nic')
      BY <2>7, <2>8
    <2>10. begun' = <<cfg'.interface, cfg'.drop_map_size>>
           /\ (override' # 0 => cfg'.interface = override')
      BY <1>2, <2>3, <2>4, <2>7, <2>8
    <2> QED BY <1>2, <2>7, <2>8, <2>9, <2>10 DEF ConfigInv, TypeOK, ConfigMeansFile, StartupFieldsStay
  <1> QED BY <1>4, <1>5 DEF vg_ctrl_reload
----------------------------------------------------------------------------
(***************************************************************************)
(* Frames, prefixes and numbers, under a configuration that is reloaded.   *)
(***************************************************************************)

InputInv ==
  /\ ConfigInv
  /\ input.kind = "frame" => input.frame \in Frames
  /\ input.kind = "pair" => input.p \in RawPrefixes /\ input.q \in RawPrefixes
  /\ input.kind = "digits" => input.digits \in DigitRows

\* What is true of the configuration and the frame at hand after every reload
\* and every arrival (vg_config_load, vg_ctrl_reload, voidgate_xdp).
THEOREM Invariance ==
  MCSpec => []InputInv
  <1>1. MCInit => InputInv
    BY InitConfig DEF MCInit, InputInv, Nothing
  <1>2. InputInv /\ [MCNext]_<<vars, input>> => InputInv'
    <2> SUFFICES ASSUME InputInv, [MCNext]_<<vars, input>> PROVE InputInv'
      OBVIOUS
    <2>1. UNCHANGED vars => ConfigInv'
      BY DEF InputInv, ConfigInv, TypeOK, ConfigMeansFile, StartupFieldsStay, vars
    <2>2. CASE Reload /\ UNCHANGED input
      BY <2>2, ReloadConfig, SMTT(60) DEF InputInv
    <2>3. CASE Arrive
      <3>1. ConfigInv'
        BY <2>1, <2>3, Zenon DEF Arrive
      <3>2. CASE \E f \in FrameSet : input' = [kind |-> "frame", frame |-> f]
        <4>1. PICK f \in FrameSet : input' = [kind |-> "frame", frame |-> f]
          BY <3>2, Zenon
        <4>2. input'.kind = "frame" /\ input'.frame = f /\ f \in Frames
          BY <4>1, InputsAssumption
        <4> QED BY <3>1, <4>2 DEF InputInv
      <3>3. CASE \E p, q \in RawPrefixes : input' = [kind |-> "pair", p |-> p, q |-> q]
        <4>1. PICK p \in RawPrefixes, q \in RawPrefixes :
                input' = [kind |-> "pair", p |-> p, q |-> q]
          BY <3>3, Zenon
        <4>2. input'.kind = "pair" /\ input'.p = p /\ input'.q = q
          BY <4>1
        <4> QED BY <3>1, <4>2 DEF InputInv
      <3>4. CASE \E d \in DigitSet : input' = [kind |-> "digits", digits |-> d]
        <4>1. PICK d \in DigitSet : input' = [kind |-> "digits", digits |-> d]
          BY <3>4, Zenon
        <4>2. input'.kind = "digits" /\ input'.digits = d /\ d \in DigitRows
          BY <4>1, InputsAssumption DEF DigitRows
        <4> QED BY <3>1, <4>2 DEF InputInv
      <3> QED BY <2>3, <3>2, <3>3, <3>4, Zenon DEF Arrive
    <2>4. CASE Leave
      BY <2>1, <2>4 DEF InputInv, Leave, Nothing
    <2>5. CASE UNCHANGED <<vars, input>>
      BY <2>1, <2>5 DEF InputInv
    <2> QED BY <2>2, <2>3, <2>4, <2>5 DEF MCNext
  <1> QED BY <1>1, <1>2, PTL DEF MCSpec

\* Whatever files are loaded one after the other, of any length: numbers fit
\* their fields, lists their arrays, and the tick has a period (apply_scalar,
\* parse_int, parse_allow_ports, parse_csv_cidrs).
THEOREM FieldsFit ==
  MCSpec => []TypeOK
  <1>1. InputInv => TypeOK
    BY DEF InputInv, ConfigInv
  <1> QED BY <1>1, Invariance, PTL

\* The configuration is that of the last file accepted, of any length, and no
\* other (vg_config_load, vg_ctrl_reload).
THEOREM FileIsConfig ==
  MCSpec => []ConfigMeansFile
  <1>1. InputInv => ConfigMeansFile
    BY DEF InputInv, ConfigInv
  <1> QED BY <1>1, Invariance, PTL

\* A reload leaves the interface and the size of the maps (vg_ctrl_reload).
THEOREM StartupIsKept ==
  MCSpec => []StartupFieldsStay
  <1>1. InputInv => StartupFieldsStay
    BY DEF InputInv, ConfigInv
  <1> QED BY <1>1, Invariance, PTL

LEMMA ElementsAre ==
  ASSUME NEW S, NEW s \in Seq(S)
  PROVE  \A i \in DOMAIN s : s[i] \in S
  OBVIOUS

LEMMA NoPortZero ==
  TypeOK => 0 \notin Ports
  <1> SUFFICES ASSUME TypeOK PROVE 0 \notin Ports
    OBVIOUS
  <1>1. cfg.allow_ports \in AtMost(MaxPorts, 1 .. PortMax)
    BY DEF TypeOK, vg_config
  <1>2. cfg.allow_ports \in Seq(1 .. PortMax)
    BY <1>1 DEF AtMost
  <1>3. \A i \in DOMAIN cfg.allow_ports : cfg.allow_ports[i] \in 1 .. PortMax
    BY <1>2, ElementsAre, Zenon
  <1>4. \A i \in DOMAIN cfg.allow_ports : cfg.allow_ports[i] # 0
    BY <1>3
  <1> QED BY <1>4 DEF Ports

\* No frame gets past the drop list but what is exempt or cannot be read: no
\* file makes 0, which is what the program reads where there is no port, a
\* service port (voidgate_xdp, parse_l4, parse_allow_ports).
THEOREM NoWayPast ==
  MCSpec => []DropListHolds
  <1>1. InputInv => DropListHolds
    BY NoPortZero, VerdictIsEarned, SMTT(60) DEF InputInv, ConfigInv, DropListHolds
  <1> QED BY <1>1, Invariance, PTL

\* What is exempt passes, under every configuration (voidgate_xdp).
THEOREM ExemptAlwaysPass ==
  MCSpec => []ExemptPass
  <1>1. InputInv => ExemptPass
    BY NoPortZero, VerdictIsEarned, SMTT(60) DEF InputInv, ConfigInv, ExemptPass
  <1> QED BY <1>1, Invariance, PTL

\* The byte comparisons of the daemon are those of sets of addresses, for every
\* two prefixes (vg_cidr_mask, vg_cidr_contains, vg_cidr_covers_or_overlaps).
THEOREM PrefixesMeanSets ==
  MCSpec => []PrefixMeansSet
  <1>1. InputInv => PrefixMeansSet
    BY PrefixesAreSets DEF InputInv, PrefixMeansSet
  <1> QED BY <1>1, Invariance, PTL

\* No number in a command wraps around, whatever its digits (parse_ttl,
\* vg_parse_cidr_len).
THEOREM NumbersStayExact ==
  MCSpec => []NumbersAreExact
  <1>1. InputInv => NumbersAreExact
    BY NumbersAreRight DEF InputInv, NumbersAreExact
  <1> QED BY <1>1, Invariance, PTL
=============================================================================
