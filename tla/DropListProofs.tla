---------------------------- MODULE DropListProofs ----------------------------
(***************************************************************************)
(* Theorems about DropList, for every number of records, prefixes and      *)
(* buckets.  The pointers of a list are described by the sequence of its   *)
(* nodes: what each operation of src/list.h does to the pointers is shown  *)
(* to be what it does to that sequence, and to no other list.              *)
(***************************************************************************)
EXTENDS DropList, TLAPS

\* Induction on the naturals, for the set of the numbers that have a property:
\* what the lemmas below assume, and NatInduct shows.
Induction ==
  \A T \in SUBSET Nat : 0 \in T /\ (\A n \in T : n + 1 \in T) => T = Nat

LEMMA Induct ==
  ASSUME Induction, NEW T \in SUBSET Nat, 0 \in T, \A n \in T : n + 1 \in T
  PROVE  T = Nat
  BY Zenon DEF Induction

\* Induction up to a bound.
LEMMA InductTo ==
  ASSUME Induction, NEW N \in Nat, NEW T, 0 \in T, \A n \in 1 .. N : n - 1 \in T => n \in T
  PROVE  \A n \in 0 .. N : n \in T
  <1> DEFINE U == {n \in Nat : n <= N => n \in T}
  <1>1. 0 \in U
    OBVIOUS
  <1>2. \A n \in U : n + 1 \in U
    <2> SUFFICES ASSUME NEW n \in U, n + 1 <= N PROVE n + 1 \in T
      OBVIOUS
    <2>1. n \in T /\ n + 1 \in 1 .. N /\ (n + 1) - 1 = n
      OBVIOUS
    <2> QED BY <2>1
  <1>3. U = Nat
    <2> HIDE DEF U
    <2>1. U \in SUBSET Nat
      BY DEF U
    <2> QED BY <1>1, <1>2, <2>1, Induct
  <1> QED BY <1>3
----------------------------------------------------------------------------
(***************************************************************************)
(* Sequences of records.                                                   *)
(***************************************************************************)

\* A function from 1 .. m to 1 .. n that takes no value twice, and the most
\* that m can be.
OneToOne(f, m, n) ==
  /\ m \in Nat
  /\ f \in [1 .. m -> 1 .. n]
  /\ \A i, j \in 1 .. m : f[i] = f[j] => i = j

LEMMA Pigeons ==
  ASSUME Induction, NEW n \in Nat, NEW m, NEW f, OneToOne(f, m, n)
  PROVE  m <= n
  <1> DEFINE T == {k \in Nat : \A x, g : OneToOne(g, x, k) => x <= k}
  <1>1. 0 \in T
    <2> SUFFICES ASSUME NEW x, NEW g, OneToOne(g, x, 0) PROVE x <= 0
      OBVIOUS
    <2>1. x \in Nat /\ g \in [1 .. x -> 1 .. 0]
      BY DEF OneToOne
    <2>2. ASSUME 1 <= x PROVE FALSE
      <3>1. 1 \in 1 .. x
        BY <2>1, <2>2
      <3>2. g[1] \in 1 .. 0
        BY <2>1, <3>1
      <3> QED BY <3>2
    <2> QED BY <2>1, <2>2
  <1>2. ASSUME NEW k \in T PROVE k + 1 \in T
    <2> SUFFICES ASSUME NEW x, NEW g, OneToOne(g, x, k + 1), x # 0 PROVE x <= k + 1
      BY <1>2
    <2>1. k \in Nat /\ x \in Nat \ {0} /\ g \in [1 .. x -> 1 .. k + 1]
      BY DEF OneToOne
    <2> DEFINE h == [i \in 1 .. x - 1 |-> IF g[i] = k + 1 THEN g[x] ELSE g[i]]
    <2>2. ASSUME NEW i \in 1 .. x - 1
          PROVE  g[i] # g[x] /\ g[i] \in 1 .. k + 1 /\ g[x] \in 1 .. k + 1
      <3>1. i \in 1 .. x /\ x \in 1 .. x /\ i # x
        BY <2>1
      <3> QED BY <2>1, <3>1 DEF OneToOne
    <2>3. h \in [1 .. x - 1 -> 1 .. k]
      <3> SUFFICES ASSUME NEW i \in 1 .. x - 1
                   PROVE  (IF g[i] = k + 1 THEN g[x] ELSE g[i]) \in 1 .. k
        OBVIOUS
      <3> QED BY <2>1, <2>2
    <2>4. ASSUME NEW i \in 1 .. x - 1, NEW j \in 1 .. x - 1, h[i] = h[j] PROVE i = j
      <3>1. i \in 1 .. x /\ j \in 1 .. x
        BY <2>1
      <3>2. g[i] = g[j]
        BY <2>2, <2>4
      <3> QED BY <3>1, <3>2 DEF OneToOne
    <2>5. OneToOne(h, x - 1, k)
      <3> HIDE DEF h
      <3> QED BY <2>1, <2>3, <2>4 DEF OneToOne
    <2>6. x - 1 <= k
      <3> HIDE DEF h
      <3> QED BY <1>2, <2>5
    <2> QED BY <2>1, <2>6
  <1>3. T = Nat
    <2> HIDE DEF T
    <2>1. T \in SUBSET Nat
      BY DEF T
    <2> QED BY <1>1, <1>2, <2>1, Induct
  <1> QED BY <1>3

\* The i-th node of the list of s, and its head, or Null, past either end.
At(h, s, i) == IF i \in 1 .. Len(s) THEN s[i] ELSE h

Has(s, r) == \E i \in 1 .. Len(s) : s[i] = r
Once(s) == \A i, j \in 1 .. Len(s) : s[i] = s[j] => i = j
Without(s, k) == [i \in 1 .. Len(s) - 1 |-> IF i < k THEN s[i] ELSE s[i + 1]]
Rest(s, k) == [i \in 1 .. Len(s) - k + 1 |-> s[i + k - 1]]

Ends == {Null, All, Free}
Places == Pool \cup Ends

LEMMA PoolIs ==
  /\ Pool \subseteq Nat \ {0}
  /\ Cap \in Nat \ {0}
  /\ \A e \in Ends : e \notin Pool
  /\ Null # All /\ Null # Free /\ All # Free
  /\ All \in Ends /\ Free \in Ends /\ Null \in Ends
  BY DropListAssumption DEF Pool, Ends

LEMMA SameSeq ==
  ASSUME NEW S, NEW s \in Seq(S), NEW t \in Seq(S), Len(s) = Len(t),
         \A i \in 1 .. Len(s) : s[i] = t[i]
  PROVE  s = t
  OBVIOUS

LEMMA RestIs ==
  ASSUME NEW S, NEW s \in Seq(S), NEW k \in 1 .. Len(s) + 1
  PROVE  /\ Rest(s, k) \in Seq(S)
         /\ Len(Rest(s, k)) = Len(s) - k + 1
         /\ \A i \in 1 .. Len(s) - k + 1 : Rest(s, k)[i] = s[i + k - 1]
  <1>1. Len(s) - k + 1 \in Nat /\ \A i \in 1 .. Len(s) - k + 1 : s[i + k - 1] \in S
    OBVIOUS
  <1> QED BY <1>1 DEF Rest

LEMMA RestAll ==
  ASSUME NEW S, NEW s \in Seq(S)
  PROVE  Rest(s, 1) = s
  <1>1. 1 \in 1 .. Len(s) + 1 /\ Len(s) - 1 + 1 = Len(s) /\ \A i \in 1 .. Len(s) : i + 1 - 1 = i
    OBVIOUS
  <1> QED BY <1>1, RestIs, SameSeq

LEMMA RestEmpty ==
  ASSUME NEW S, NEW s \in Seq(S)
  PROVE  Rest(s, Len(s) + 1) = <<>>
  <1>1. Len(s) + 1 \in 1 .. Len(s) + 1 /\ Len(s) - (Len(s) + 1) + 1 = 0
    OBVIOUS
  <1>2. Rest(s, Len(s) + 1) \in Seq(S) /\ Len(Rest(s, Len(s) + 1)) = 0
    BY <1>1, RestIs, SMTT(60)
  <1> QED BY <1>2

LEMMA ConsIs ==
  ASSUME NEW S, NEW x \in S, NEW r \in Seq(S), NEW c, c = <<x>> \o r
  PROVE  /\ c \in Seq(S)
         /\ Len(c) = Len(r) + 1
         /\ c[1] = x
         /\ \A i \in 1 .. Len(r) : c[i + 1] = r[i]
  <1>1. <<x>> \in Seq(S) /\ Len(<<x>>) = 1 /\ <<x>>[1] = x
    OBVIOUS
  <1>2. PICK u \in Seq(S) : u = <<x>> /\ Len(u) = 1 /\ u[1] = x
    BY <1>1, Zenon
  <1>3. c = u \o r
    BY <1>2
  <1> QED BY <1>2, <1>3

LEMMA RestStep ==
  ASSUME NEW S, NEW s \in Seq(S), NEW k \in 1 .. Len(s)
  PROVE  <<s[k]>> \o Rest(s, k + 1) = Rest(s, k)
  <1>1. k \in 1 .. Len(s) + 1 /\ s[k] \in S /\ Len(s) \in Nat
    OBVIOUS
  <1>2. PICK x \in S, m \in 1 .. Len(s) + 1 : x = s[k] /\ m = k + 1
    BY <1>1
  <1>3. PICK r \in Seq(S) : r = Rest(s, m)
    BY <1>2, RestIs
  <1>4. PICK q \in Seq(S) : q = Rest(s, k)
    BY <1>1, RestIs
  <1>5. Len(r) = Len(s) - m + 1 /\ \A i \in 1 .. Len(s) - m + 1 : r[i] = s[i + m - 1]
    BY <1>3, RestIs, Zenon
  <1>6. Len(q) = Len(s) - k + 1 /\ \A i \in 1 .. Len(s) - k + 1 : q[i] = s[i + k - 1]
    BY <1>1, <1>4, RestIs, SMTT(60)
  <1>11. PICK c : c = <<x>> \o r
    BY Zenon
  <1>7. /\ c \in Seq(S) /\ Len(c) = Len(r) + 1 /\ c[1] = x
        /\ \A i \in 1 .. Len(r) : c[i + 1] = r[i]
    BY <1>11, ConsIs
  <1>8. ASSUME NEW i \in 1 .. Len(c) PROVE c[i] = q[i]
    <2>1. CASE i = 1
      <3>1. 1 \in 1 .. Len(s) - k + 1 /\ 1 + k - 1 = k
        BY <1>1, SMTT(60)
      <3>2. q[1] = s[1 + k - 1]
        BY <1>6, <3>1, Zenon
      <3> QED BY <1>2, <1>7, <2>1, <3>1, <3>2, Zenon
    <2>2. CASE i # 1
      <3>1. i - 1 \in 1 .. Len(r) /\ (i - 1) + 1 = i
        BY <1>1, <1>5, <1>7, <2>2
      <3>2. c[i] = r[i - 1]
        BY <1>7, <3>1
      <3>3. /\ i - 1 \in 1 .. Len(s) - m + 1 /\ i \in 1 .. Len(s) - k + 1
            /\ (i - 1) + m - 1 = i + k - 1
        BY <1>1, <1>2, <1>5, <3>1, SMTT(60)
      <3>4. r[i - 1] = s[(i - 1) + m - 1] /\ q[i] = s[i + k - 1]
        BY <1>5, <1>6, <3>3, Zenon
      <3> QED BY <3>2, <3>3, <3>4, Zenon
    <2> QED BY <2>1, <2>2
  <1>9. Len(c) = Len(q)
    BY <1>1, <1>2, <1>5, <1>6, <1>7
  <1>10. c = q
    BY <1>7, <1>8, <1>9, SameSeq, SMTT(60)
  <1> QED BY <1>11, <1>2, <1>3, <1>4, <1>10
----------------------------------------------------------------------------
(***************************************************************************)
(* The nodes a list is found to have are those of the sequence its         *)
(* pointers follow.                                                        *)
(***************************************************************************)

\* next leads from each record of s to the one after it, and then to stop.
Path(next, s, stop) == \A i \in 1 .. Len(s) : next[s[i]] = At(stop, s, i + 1)

\* g[n][at] has the nodes from at on, of which there are no more than n.
Ahead(next, stop, k, g) ==
  g = [n \in 0 .. k |->
         [at \in Places |->
            IF n = 0 \/ at = stop THEN <<>> ELSE <<at>> \o g[n - 1][next[at]]]]

LEMMA AheadExists ==
  ASSUME Induction, NEW next, NEW stop, NEW N \in Nat
  PROVE  \E g : Ahead(next, stop, N, g)
  <1> DEFINE T == {k \in Nat : \E g : Ahead(next, stop, k, g)}
  <1>1. 0 \in T
    <2> DEFINE g == [n \in 0 .. 0 |-> [at \in Places |-> <<>>]]
    <2>1. Ahead(next, stop, 0, g)
      BY DEF Ahead
    <2> QED BY <2>1
  <1>2. ASSUME NEW k \in T PROVE k + 1 \in T
    <2>1. PICK g : Ahead(next, stop, k, g)
      BY <1>2
    <2> DEFINE last == [at \in Places |-> IF at = stop THEN <<>> ELSE <<at>> \o g[k][next[at]]]
               h == [n \in 0 .. k + 1 |-> IF n = k + 1 THEN last ELSE g[n]]
               body(n) == [at \in Places |->
                             IF n = 0 \/ at = stop THEN <<>> ELSE <<at>> \o h[n - 1][next[at]]]
    <2>2. ASSUME NEW n \in 0 .. k + 1 PROVE h[n] = body(n)
      <3>1. CASE n = k + 1
        <4>1. k \in 0 .. k + 1 /\ k # k + 1 /\ n - 1 = k /\ n # 0
          BY <1>2, <3>1
        <4>2. h[n - 1] = g[k]
          BY <4>1
        <4>3. h[n] = last
          BY <3>1
        <4> HIDE DEF h
        <4> QED BY <4>1, <4>2, <4>3
      <3>2. CASE n # k + 1
        <4>1. n \in 0 .. k /\ h[n] = g[n]
          BY <1>2, <3>2
        <4>2. n # 0 => h[n - 1] = g[n - 1]
          BY <1>2, <3>2, SMTT(60)
        <4>3. g[n] = [at \in Places |->
                        IF n = 0 \/ at = stop THEN <<>> ELSE <<at>> \o g[n - 1][next[at]]]
          BY <2>1, <4>1, Zenon DEF Ahead
        <4> HIDE DEF h
        <4> QED BY <4>1, <4>2, <4>3
      <3> QED BY <3>1, <3>2, Zenon
    <2>3. h = [n \in 0 .. k + 1 |-> h[n]]
      OBVIOUS
    <2> HIDE DEF h
    <2>4. h = [n \in 0 .. k + 1 |-> body(n)]
      BY <2>2, <2>3, Zenon
    <2>5. Ahead(next, stop, k + 1, h)
      BY <2>4, Zenon DEF Ahead
    <2> QED BY <1>2, <2>5
  <1>3. T = Nat
    <2> HIDE DEF T
    <2>1. T \in SUBSET Nat
      BY DEF T
    <2> QED BY <1>1, <1>2, <2>1, Induct
  <1> QED BY <1>3

LEMMA NodesAre ==
  ASSUME Induction, NEW next, NEW s \in Seq(Pool), NEW stop \in Ends, Len(s) <= Cap,
         Path(next, s, stop), NEW k \in 1 .. Len(s) + 1
  PROVE  Nodes(next, At(stop, s, k), stop) = Rest(s, k)
  <1>1. Cap + 1 \in Nat /\ Len(s) \in Nat
    BY PoolIs
  <1>2. PICK g : Ahead(next, stop, Cap + 1, g) /\ Nodes(next, At(stop, s, k), stop) = g[Cap + 1][At(stop, s, k)]
    <2> DEFINE g == CHOOSE g : Ahead(next, stop, Cap + 1, g)
    <2>1. Ahead(next, stop, Cap + 1, g)
      BY <1>1, AheadExists, Zenon
    <2>2. Nodes(next, At(stop, s, k), stop) = g[Cap + 1][At(stop, s, k)]
      BY DEF Nodes, Ahead, Places, Ends
    <2> QED BY <2>1, <2>2, Zenon
  <1> DEFINE T == {n \in 0 .. Cap + 1 : \A i \in 1 .. Len(s) + 1 :
                     Len(s) + 1 - i <= n => g[n][At(stop, s, i)] = Rest(s, i)}
  <1>3. ASSUME NEW i \in 1 .. Len(s) + 1
        PROVE  /\ At(stop, s, i) \in Places
               /\ At(stop, s, i) = stop <=> i = Len(s) + 1
    BY PoolIs DEF At, Places
  <1>4. ASSUME NEW n \in 0 .. Cap + 1, NEW at \in Places
        PROVE  g[n][at] = IF n = 0 \/ at = stop THEN <<>> ELSE <<at>> \o g[n - 1][next[at]]
    <2>1. g[n] = [a \in Places |->
                    IF n = 0 \/ a = stop THEN <<>> ELSE <<a>> \o g[n - 1][next[a]]]
      BY <1>2, Zenon DEF Ahead
    <2> QED BY <2>1, SMTT(60)
  <1>5. 0 \in T
    <2> SUFFICES ASSUME NEW i \in 1 .. Len(s) + 1, Len(s) + 1 - i <= 0
                 PROVE  g[0][At(stop, s, i)] = Rest(s, i)
      BY <1>1
    <2>1. i = Len(s) + 1 /\ 0 \in 0 .. Cap + 1
      BY <1>1
    <2> QED BY <1>3, <1>4, <2>1, RestEmpty, Zenon
  <1>6. ASSUME NEW n \in 1 .. Cap + 1, n - 1 \in T PROVE n \in T
    <2> SUFFICES ASSUME NEW i \in 1 .. Len(s) + 1, Len(s) + 1 - i <= n
                 PROVE  g[n][At(stop, s, i)] = Rest(s, i)
      BY <1>1
    <2>1. n \in 0 .. Cap + 1 /\ n # 0
      BY <1>1
    <2>2. CASE i = Len(s) + 1
      BY <1>3, <1>4, <2>1, <2>2, RestEmpty, Zenon
    <2>3. CASE i # Len(s) + 1
      <3>1. i \in 1 .. Len(s) /\ i + 1 \in 1 .. Len(s) + 1 /\ Len(s) + 1 - (i + 1) <= n - 1
        BY <1>1, <2>3
      <3>2. At(stop, s, i) = s[i] /\ next[s[i]] = At(stop, s, i + 1)
        BY <3>1 DEF Path, At
      <3>3. g[n - 1][At(stop, s, i + 1)] = Rest(s, i + 1)
        BY <1>6, <3>1
      <3>4. g[n][s[i]] = <<s[i]>> \o Rest(s, i + 1)
        <4>1. s[i] \in Places /\ s[i] # stop
          BY <1>3, <2>3, <3>2
        <4>2. g[n][s[i]] = <<s[i]>> \o g[n - 1][next[s[i]]]
          BY <1>4, <2>1, <4>1, Zenon
        <4> QED BY <3>2, <3>3, <4>2, Zenon
      <3> QED BY <3>1, <3>2, <3>4, RestStep, SMTT(60)
    <2> QED BY <2>2, <2>3
  <1>7. Cap + 1 \in T
    <2> HIDE DEF T
    <2>1. \A n \in 0 .. Cap + 1 : n \in T
      BY <1>1, <1>5, <1>6, InductTo, Zenon
    <2> QED BY <1>1, <2>1
  <1>8. Len(s) + 1 - k <= Cap + 1
    BY <1>1, PoolIs
  <1> QED BY <1>2, <1>7, <1>8
----------------------------------------------------------------------------
(***************************************************************************)
(* vg_list_add_tail and vg_list_del.                                       *)
(***************************************************************************)

Node == Pool \cup {All, Free}
Links == [next : [Node -> Places], prev : [Node -> Places]]

\* The list of head h has the nodes of s.
Ring(l, h, s) ==
  \A i \in 0 .. Len(s) : /\ l.next[At(h, s, i)] = At(h, s, i + 1)
                          /\ l.prev[At(h, s, i + 1)] = At(h, s, i)

LEMMA AtIs ==
  ASSUME NEW s \in Seq(Pool), NEW h \in {All, Free}, Once(s)
  PROVE  /\ \A i \in Int : At(h, s, i) \in Node
         /\ \A i, j \in 0 .. Len(s) : At(h, s, i) = At(h, s, j) => i = j
         /\ \A i, j \in 1 .. Len(s) + 1 : At(h, s, i) = At(h, s, j) => i = j
         /\ At(h, s, 0) = h /\ At(h, s, Len(s) + 1) = h
         /\ \A i \in 1 .. Len(s) : At(h, s, i) = s[i]
  <1>1. h \notin Pool /\ h \in Node /\ \A i \in 1 .. Len(s) : s[i] \in Pool /\ s[i] \in Node
    BY PoolIs DEF Node
  <1> QED BY <1>1 DEF At, Once

LEMMA WithoutIs ==
  ASSUME NEW S, NEW s \in Seq(S), NEW k \in 1 .. Len(s), NEW t, t = Without(s, k)
  PROVE  /\ t \in Seq(S) /\ Len(t) = Len(s) - 1
         /\ \A i \in 1 .. Len(s) - 1 : t[i] = IF i < k THEN s[i] ELSE s[i + 1]
         /\ Once(s) => Once(t) /\ \A r : Has(t, r) <=> Has(s, r) /\ r # s[k]
  <1>1. Len(s) - 1 \in Nat /\ Len(s) \in Nat
    OBVIOUS
  <1>2. /\ t \in Seq(S) /\ Len(t) = Len(s) - 1
        /\ \A i \in 1 .. Len(s) - 1 : t[i] = IF i < k THEN s[i] ELSE s[i + 1]
    BY <1>1 DEF Without
  <1>3. ASSUME Once(s) PROVE Once(t)
    BY <1>1, <1>2, <1>3 DEF Once
  <1>4. ASSUME Once(s), NEW r, Has(t, r) PROVE Has(s, r) /\ r # s[k]
    <2>1. PICK i \in 1 .. Len(t) : t[i] = r
      BY <1>4 DEF Has
    <2>2. PICK j \in 1 .. Len(s) : j # k /\ s[j] = r
      BY <1>1, <1>2, <2>1
    <2> QED BY <1>4, <2>2 DEF Has, Once
  <1>5. ASSUME NEW r, Has(s, r), r # s[k] PROVE Has(t, r)
    <2>1. PICK i \in 1 .. Len(s) : s[i] = r /\ i # k
      BY <1>5 DEF Has
    <2>2. CASE i < k
      <3>1. i \in 1 .. Len(t) /\ t[i] = r
        BY <1>1, <1>2, <2>1, <2>2
      <3> QED BY <3>1 DEF Has
    <2>3. CASE i > k
      <3>1. i - 1 \in 1 .. Len(t) /\ (i - 1) + 1 = i /\ ~(i - 1 < k)
        BY <1>1, <1>2, <2>1, <2>3
      <3>2. t[i - 1] = r
        BY <1>2, <2>1, <3>1
      <3> QED BY <3>1, <3>2 DEF Has
    <2> QED BY <2>1, <2>2, <2>3
  <1> QED BY <1>2, <1>3, <1>4, <1>5

LEMMA AppendIs ==
  ASSUME NEW S, NEW s \in Seq(S), NEW x \in S, NEW t, t = Append(s, x)
  PROVE  /\ t \in Seq(S) /\ Len(t) = Len(s) + 1 /\ t[Len(s) + 1] = x
         /\ \A i \in 1 .. Len(s) : t[i] = s[i]
         /\ \A r : Has(t, r) <=> Has(s, r) \/ r = x
         /\ Once(s) /\ ~Has(s, x) => Once(t)
  <1>1. /\ t \in Seq(S) /\ Len(t) = Len(s) + 1 /\ t[Len(s) + 1] = x
        /\ \A i \in 1 .. Len(s) : t[i] = s[i]
        /\ Len(s) \in Nat
    OBVIOUS
  <1>2. ASSUME NEW r PROVE Has(t, r) <=> Has(s, r) \/ r = x
    <2>1. ASSUME Has(t, r), r # x PROVE Has(s, r)
      BY <1>1, <2>1 DEF Has
    <2>2. ASSUME Has(s, r) PROVE Has(t, r)
      <3>1. PICK i \in 1 .. Len(s) : s[i] = r
        BY <2>2 DEF Has
      <3>2. i \in 1 .. Len(t) /\ t[i] = r
        BY <1>1, <3>1
      <3> QED BY <3>2 DEF Has
    <2>3. Has(t, x)
      <3>1. Len(s) + 1 \in 1 .. Len(t)
        BY <1>1
      <3> QED BY <1>1, <3>1 DEF Has
    <2> QED BY <2>1, <2>2, <2>3
  <1>3. ASSUME Once(s), ~Has(s, x) PROVE Once(t)
    BY <1>1, <1>3 DEF Once, Has
  <1> QED BY <1>1, <1>2, <1>3

\* A list that shares no node with the one that changes.
Clear(t, g, s, h) == g # h /\ \A r : ~(Has(s, r) /\ Has(t, r))

LEMMA ClearIs ==
  ASSUME NEW s \in Seq(Pool), NEW t \in Seq(Pool), NEW h \in {All, Free}, NEW g \in {All, Free},
         Clear(t, g, s, h)
  PROVE  \A i, j \in Int : At(h, s, i) # At(g, t, j)
  <1>1. h \notin Pool /\ g \notin Pool /\ g # h
    BY PoolIs DEF Clear
  <1>2. ASSUME NEW i \in 1 .. Len(s), NEW j \in 1 .. Len(t) PROVE s[i] # t[j]
    BY DEF Clear, Has
  <1>3. \A i \in 1 .. Len(s) : s[i] \in Pool
    OBVIOUS
  <1>4. \A j \in 1 .. Len(t) : t[j] \in Pool
    OBVIOUS
  <1> QED BY <1>1, <1>2, <1>3, <1>4 DEF At

\* A node that is unlinked leaves the others of its list in their order, and the
\* other list as it is.
LEMMA DelRing ==
  ASSUME NEW l \in Links, NEW h \in {All, Free}, NEW s \in Seq(Pool), Once(s), Ring(l, h, s),
         NEW k \in 1 .. Len(s), NEW d, d = vg_list_del(l, s[k]), NEW t, t = Without(s, k),
         NEW g \in {All, Free}, NEW u \in Seq(Pool), Once(u), Ring(l, g, u), Clear(u, g, s, h)
  PROVE  d \in Links /\ Ring(d, h, t) /\ Ring(d, g, u)
  <1>1. /\ \A i \in Int : At(h, s, i) \in Node
        /\ \A i, j \in 0 .. Len(s) : At(h, s, i) = At(h, s, j) => i = j
        /\ \A i, j \in 1 .. Len(s) + 1 : At(h, s, i) = At(h, s, j) => i = j
        /\ At(h, s, k) = s[k]
    BY AtIs
  <1>2. Len(s) \in Nat
    OBVIOUS
  <1>3. PICK node \in Node, p \in Node, n \in Node :
          node = At(h, s, k) /\ p = At(h, s, k - 1) /\ n = At(h, s, k + 1)
    BY <1>1
  <1>4. l.prev[node] = p /\ l.next[node] = n
    <2>1. k - 1 \in 0 .. Len(s) /\ k \in 0 .. Len(s) /\ (k - 1) + 1 = k
      BY <1>2
    <2> QED BY <1>3, <2>1 DEF Ring
  <1>5. p # node /\ n # node
    BY <1>1, <1>2, <1>3
  <1>6. /\ d \in Links
        /\ \A x \in Node :
             /\ d.next[x] = IF x = node THEN node ELSE IF x = p THEN n ELSE l.next[x]
             /\ d.prev[x] = IF x = node THEN node ELSE IF x = n THEN p ELSE l.prev[x]
    <2>1. Node \subseteq Places
      BY DEF Node, Places, Ends
    <2>2. PICK a : a = [l EXCEPT !.next[p] = n]
      BY Zenon
    <2>3. /\ a \in Links /\ a.prev = l.prev
          /\ \A x \in Node : a.next[x] = IF x = p THEN n ELSE l.next[x]
      BY <2>1, <2>2, Zenon DEF Links
    <2>4. PICK b : b = [a EXCEPT !.prev[a.next[node]] = a.prev[node]]
      BY Zenon
    <2>5. a.next[node] = n /\ a.prev[node] = p
      BY <1>4, <1>5, <2>3
    <2>6. /\ b \in Links /\ b.next = a.next
          /\ \A x \in Node : b.prev[x] = IF x = n THEN p ELSE a.prev[x]
      BY <2>1, <2>3, <2>4, <2>5, Zenon DEF Links
    <2>7. d = [b EXCEPT !.prev[node] = node, !.next[node] = node]
      BY <1>1, <1>3, <1>4, <2>2, <2>4 DEF vg_list_del
    <2>8. /\ d \in Links
          /\ \A x \in Node : d.next[x] = IF x = node THEN node ELSE b.next[x]
          /\ \A x \in Node : d.prev[x] = IF x = node THEN node ELSE b.prev[x]
      <3>1. b \in Links /\ node \in Places
        BY <2>1, <2>6
      <3>2. d = [next |-> [b.next EXCEPT ![node] = node], prev |-> [b.prev EXCEPT ![node] = node]]
        BY <2>7, <3>1, Zenon DEF Links
      <3>3. b.next \in [Node -> Places] /\ b.prev \in [Node -> Places]
        BY <3>1 DEF Links
      <3> QED BY <3>1, <3>2, <3>3 DEF Links
    <2> QED BY <2>3, <2>6, <2>8
  <1>7. ASSUME NEW i \in 0 .. Len(s)
        PROVE  At(h, t, i) = IF i < k THEN At(h, s, i) ELSE At(h, s, i + 1)
    <2>1. Len(t) = Len(s) - 1
      BY WithoutIs, SMTT(60)
    <2>2. \A j \in 1 .. Len(s) - 1 : t[j] = IF j < k THEN s[j] ELSE s[j + 1]
      BY DEF Without
    <2> QED BY <1>2, <2>1, <2>2 DEF At
  <1>8. ASSUME NEW i \in 0 .. Len(s) - 1
        PROVE  d.next[At(h, t, i)] = At(h, t, i + 1) /\ d.prev[At(h, t, i + 1)] = At(h, t, i)
    <2>1. i \in 0 .. Len(s) /\ i + 1 \in 0 .. Len(s) /\ i + 1 \in 1 .. Len(s) + 1
          /\ i + 2 \in 1 .. Len(s) + 1 /\ (i + 1) + 1 = i + 2
      BY <1>2
    <2>2. /\ l.next[At(h, s, i)] = At(h, s, i + 1) /\ l.prev[At(h, s, i + 1)] = At(h, s, i)
          /\ l.next[At(h, s, i + 1)] = At(h, s, i + 2) /\ l.prev[At(h, s, i + 2)] = At(h, s, i + 1)
      BY <2>1 DEF Ring
    <2>3. /\ At(h, s, i) \in Node /\ At(h, s, i + 1) \in Node /\ At(h, s, i + 2) \in Node
      BY <1>1, <2>1, SMTT(60)
    <2>4. CASE i + 1 < k
      <3>1. At(h, t, i) = At(h, s, i) /\ At(h, t, i + 1) = At(h, s, i + 1)
        BY <1>2, <1>7, <2>1, <2>4
      <3>2. At(h, s, i) # node /\ At(h, s, i) # p
        BY <1>1, <1>2, <1>3, <2>1, <2>4
      <3>3. At(h, s, i + 1) # node /\ At(h, s, i + 1) # n
        BY <1>1, <1>2, <1>3, <2>1, <2>4
      <3> QED BY <1>6, <2>2, <2>3, <3>1, <3>2, <3>3
    <2>5. CASE i + 1 = k
      <3>1. At(h, t, i) = p /\ At(h, t, i + 1) = n
        BY <1>2, <1>3, <1>7, <2>1, <2>5
      <3> QED BY <1>5, <1>6, <3>1
    <2>6. CASE i + 1 > k
      <3>1. At(h, t, i) = At(h, s, i + 1) /\ At(h, t, i + 1) = At(h, s, i + 2)
        BY <1>2, <1>7, <2>1, <2>6
      <3>2. At(h, s, i + 1) # node /\ At(h, s, i + 1) # p
        BY <1>1, <1>2, <1>3, <2>1, <2>6
      <3>3. At(h, s, i + 2) # node /\ At(h, s, i + 2) # n
        BY <1>1, <1>2, <1>3, <2>1, <2>6
      <3> QED BY <1>6, <2>2, <2>3, <3>1, <3>2, <3>3
    <2> QED BY <1>2, <2>4, <2>5, <2>6
  <1>9. Len(t) = Len(s) - 1
    BY WithoutIs
  <1>10. Ring(d, g, u)
    <2>1. \A j \in Int : At(g, u, j) # node /\ At(g, u, j) # p /\ At(g, u, j) # n
      BY <1>3, ClearIs
    <2>2. \A j \in Int : At(g, u, j) \in Node
      BY AtIs, SMTT(60)
    <2> QED BY <1>6, <2>1, <2>2 DEF Ring
  <1> QED BY <1>6, <1>8, <1>9, <1>10 DEF Ring

\* A node that is linked in at the tail comes after the others of its list, and
\* leaves the other list as it is.
LEMMA AddRing ==
  ASSUME NEW l \in Links, NEW h \in {All, Free}, NEW s \in Seq(Pool), Once(s), Ring(l, h, s),
         NEW node \in Pool, ~Has(s, node),
         NEW d, d = vg_list_add_tail(l, node, h), NEW t, t = Append(s, node),
         NEW g \in {All, Free}, NEW u \in Seq(Pool), Once(u), Ring(l, g, u), Clear(u, g, s, h),
         ~Has(u, node)
  PROVE  d \in Links /\ Ring(d, h, t) /\ Ring(d, g, u)
  <1>1. /\ \A i \in Int : At(h, s, i) \in Node
        /\ \A i, j \in 0 .. Len(s) : At(h, s, i) = At(h, s, j) => i = j
        /\ \A i, j \in 1 .. Len(s) + 1 : At(h, s, i) = At(h, s, j) => i = j
        /\ At(h, s, Len(s) + 1) = h /\ At(h, s, 0) = h
    BY AtIs
  <1>2. Len(s) \in Nat /\ node # h /\ node \in Node /\ h \in Node
    BY PoolIs DEF Node
  <1>3. PICK p \in Node : p = At(h, s, Len(s))
    BY <1>1, <1>2
  <1>4. l.prev[h] = p
    BY <1>1, <1>2, <1>3 DEF Ring
  <1>5. \A i \in 0 .. Len(s) + 1 : At(h, s, i) # node
    BY <1>2 DEF At, Has
  <1>6. /\ d \in Links
        /\ \A x \in Node :
             /\ d.next[x] = IF x = p THEN node ELSE IF x = node THEN h ELSE l.next[x]
             /\ d.prev[x] = IF x = h THEN node ELSE IF x = node THEN p ELSE l.prev[x]
    <2>1. p # node
      BY <1>2, <1>3, <1>5
    <2>2. Node \subseteq Places
      BY DEF Node, Places, Ends
    <2>3. PICK a : a = [l EXCEPT !.prev[node] = l.prev[h], !.next[node] = h]
      OBVIOUS
    <2>4. /\ a \in Links
          /\ \A x \in Node : a.next[x] = IF x = node THEN h ELSE l.next[x]
          /\ \A x \in Node : a.prev[x] = IF x = node THEN p ELSE l.prev[x]
      BY <1>2, <1>4, <2>2, <2>3, Zenon DEF Links
    <2>5. PICK b : b = [a EXCEPT !.next[a.prev[h]] = node]
      BY Zenon
    <2>6. a.prev[h] = p
      BY <1>2, <1>4, <2>4
    <2>7. /\ b \in Links /\ b.prev = a.prev
          /\ \A x \in Node : b.next[x] = IF x = p THEN node ELSE a.next[x]
      BY <1>2, <2>2, <2>4, <2>5, <2>6, Zenon DEF Links
    <2>8. d = [b EXCEPT !.prev[h] = node]
      BY <2>3, <2>5 DEF vg_list_add_tail
    <2>9. /\ d \in Links /\ d.next = b.next
          /\ \A x \in Node : d.prev[x] = IF x = h THEN node ELSE b.prev[x]
      <3>1. d = [next |-> b.next, prev |-> [b.prev EXCEPT ![h] = node]]
        BY <2>7, <2>8, Zenon DEF Links
      <3>2. b.next \in [Node -> Places] /\ b.prev \in [Node -> Places] /\ node \in Places
        BY <1>2, <2>2, <2>7 DEF Links
      <3> QED BY <1>2, <3>1, <3>2 DEF Links
    <2> QED BY <1>2, <2>1, <2>4, <2>7, <2>9
  <1>7. Len(t) = Len(s) + 1 /\ t[Len(s) + 1] = node /\ \A i \in 1 .. Len(s) : t[i] = s[i]
    BY AppendIs
  <1>8. /\ \A i \in 0 .. Len(s) : At(h, t, i) = At(h, s, i)
        /\ At(h, t, Len(s) + 1) = node /\ At(h, t, Len(s) + 2) = h
    BY <1>2, <1>7, SMTT(60) DEF At
  <1>9. ASSUME NEW i \in 0 .. Len(s) + 1
        PROVE  d.next[At(h, t, i)] = At(h, t, i + 1) /\ d.prev[At(h, t, i + 1)] = At(h, t, i)
    <2>1. CASE i < Len(s)
      <3>1. i \in 0 .. Len(s) /\ i + 1 \in 0 .. Len(s) /\ i + 1 \in 1 .. Len(s) + 1
        BY <1>2, <2>1
      <3>2. l.next[At(h, s, i)] = At(h, s, i + 1) /\ l.prev[At(h, s, i + 1)] = At(h, s, i)
        BY <3>1 DEF Ring
      <3>3. At(h, s, i) # p /\ At(h, s, i + 1) # h
        BY <1>1, <1>2, <1>3, <2>1, <3>1
      <3>4. At(h, s, i) \in Node /\ At(h, s, i + 1) \in Node
            /\ At(h, s, i) # node /\ At(h, s, i + 1) # node
        BY <1>1, <1>5, <3>1
      <3> QED BY <1>6, <1>8, <3>1, <3>2, <3>3, <3>4
    <2>2. CASE i = Len(s)
      BY <1>2, <1>3, <1>6, <1>8, <2>2
    <2>3. CASE i = Len(s) + 1
      <3>1. At(h, t, i) = node /\ At(h, t, i + 1) = h
        BY <1>2, <1>8, <2>3
      <3>2. node # p
        BY <1>2, <1>3, <1>5
      <3> QED BY <1>2, <1>6, <3>1, <3>2
    <2> QED BY <1>2, <2>1, <2>2, <2>3, SMTT(60)
  <1>10. Ring(d, g, u)
    <2>1. \A j \in Int : At(g, u, j) # h /\ At(g, u, j) # p
      BY <1>1, <1>2, <1>3, ClearIs
    <2>2. \A j \in Int : At(g, u, j) \in Node /\ At(g, u, j) # node
      <3>1. g # node
        BY PoolIs
      <3> QED BY <3>1, AtIs DEF At, Has
    <2> QED BY <1>6, <2>1, <2>2 DEF Ring
  <1> QED BY <1>6, <1>7, <1>9, <1>10 DEF Ring

----------------------------------------------------------------------------
(***************************************************************************)
(* vg_hlist_add_head and vg_hlist_del.                                     *)
(***************************************************************************)

Record == Pool \cup {Null}
Place == [bucket : Buckets \cup {Null}, node : Record]
Heads == [first : [Buckets -> Record], next : [Pool -> Record], pprev : [Pool -> Place]]

\* The place that holds the pointer to the i-th record of bucket b.
Back(b, c, i) == IF i = 1 THEN First(b) ELSE NextOf(c[i - 1])

\* Bucket b has the records of c.
Chain(h, b, c) ==
  /\ h.first[b] = At(Null, c, 1)
  /\ \A i \in 1 .. Len(c) : /\ h.next[c[i]] = At(Null, c, i + 1)
                            /\ h.pprev[c[i]] = Back(b, c, i)

LEMMA PlaceIs ==
  /\ \A b \in Buckets \cup {Null} : First(b) \in Place /\ First(b).node = Null /\ First(b).bucket = b
  /\ \A r \in Pool : NextOf(r) \in Place /\ NextOf(r).node = r
  BY DEF First, NextOf, Place, Record

\* The pprev of a node that may be NULL.
SetBack(a, n, place) == IF n = Null THEN a ELSE [a EXCEPT !.pprev[n] = place]

LEMMA PointBack ==
  ASSUME NEW a \in Heads, NEW n \in Record, NEW place \in Place, NEW c,
         c = SetBack(a, n, place)
  PROVE  /\ c \in Heads /\ c.first = a.first /\ c.next = a.next
         /\ \A r \in Pool : c.pprev[r] = IF r = n THEN place ELSE a.pprev[r]
  <1>1. Null \notin Pool
    BY PoolIs
  <1>2. CASE n = Null
    BY <1>1, <1>2 DEF SetBack
  <1>3. CASE n # Null
    <2>1. n \in Pool /\ c = [a EXCEPT !.pprev[n] = place]
      BY <1>3 DEF Record, SetBack
    <2> QED BY <2>1 DEF Heads
  <1> QED BY <1>2, <1>3

\* A record that is unlinked leaves the others of its bucket in their order,
\* and the other buckets as they are.
LEMMA HlistDelChain ==
  ASSUME NEW h \in Heads, NEW b \in Buckets, NEW c \in Seq(Pool), Once(c), Chain(h, b, c),
         NEW k \in 1 .. Len(c), NEW d, d = vg_hlist_del(h, c[k]), NEW t, t = Without(c, k)
  PROVE  /\ d \in Heads /\ Chain(d, b, t)
         /\ \A x \in Buckets, e \in Seq(Pool) :
              x # b /\ Chain(h, x, e) /\ (\A r : ~(Has(c, r) /\ Has(e, r))) => Chain(d, x, e)
  <1>0. /\ At(Null, c, k + 1) \in Record /\ At(Null, c, k + 1) # c[k]
        /\ Back(b, c, k) \in Place /\ Back(b, c, k).node # c[k]
        /\ Back(b, c, k).node = Null <=> k = 1
        /\ k = 1 => Back(b, c, k).bucket = b
        /\ k # 1 => Back(b, c, k).node = c[k - 1]
    <2>1. Null \notin Pool /\ \A i \in 1 .. Len(c) : c[i] \in Pool
      BY PoolIs
    <2>2. At(Null, c, k + 1) \in Record /\ At(Null, c, k + 1) # c[k]
      BY <2>1, SMTT(60) DEF At, Record, Once
    <2>3. CASE k = 1
      BY <2>1, <2>2, <2>3, PlaceIs DEF Back
    <2>4. CASE k # 1
      <3>1. k - 1 \in 1 .. Len(c) /\ k - 1 # k
        BY <2>4
      <3>2. c[k - 1] \in Pool /\ c[k - 1] # c[k]
        BY <2>1, <3>1 DEF Once
      <3> QED BY <2>1, <2>2, <2>4, <3>2, PlaceIs DEF Back
    <2> QED BY <2>3, <2>4
  <1>1. PICK node \in Pool, n \in Record, place \in Place :
          node = c[k] /\ n = At(Null, c, k + 1) /\ place = Back(b, c, k)
    BY <1>0
  <1>2. /\ n # node /\ place.node # node
        /\ place.node = Null <=> k = 1
        /\ k = 1 => place.bucket = b
        /\ k # 1 => place.node = c[k - 1]
    BY <1>0, <1>1
  <1>3. h.next[node] = n /\ h.pprev[node] = place
    BY <1>1 DEF Chain
  <1>4. /\ d \in Heads
        /\ \A x \in Buckets :
             d.first[x] = IF place.node = Null /\ x = place.bucket THEN n ELSE h.first[x]
        /\ \A r \in Pool :
             /\ d.next[r] = IF r = node THEN Null ELSE IF r = place.node THEN n ELSE h.next[r]
             /\ d.pprev[r] = IF r = node THEN First(Null) ELSE IF r = n THEN place ELSE h.pprev[r]
    <2>1. PICK a : a = Store(h, place, n)
      OBVIOUS
    <2>2. /\ a \in Heads /\ a.pprev = h.pprev
          /\ \A x \in Buckets :
               a.first[x] = IF place.node = Null /\ x = place.bucket THEN n ELSE h.first[x]
          /\ \A r \in Pool : a.next[r] = IF r = place.node THEN n ELSE h.next[r]
      <3>1. Null \notin Pool
        BY PoolIs
      <3>2. CASE place.node = Null
        <4>1. PICK q \in Buckets : q = place.bucket
          BY <1>2, <3>2
        <4>2. a = [h EXCEPT !.first[q] = n]
          BY <2>1, <3>2, <4>1 DEF Store
        <4>3. /\ a \in Heads /\ a.pprev = h.pprev /\ a.next = h.next
              /\ \A x \in Buckets : a.first[x] = IF x = q THEN n ELSE h.first[x]
          BY <4>2 DEF Heads
        <4> QED BY <3>1, <3>2, <4>1, <4>3
      <3>3. CASE place.node # Null
        <4>1. PICK q \in Pool : q = place.node
          BY <3>3 DEF Place, Record
        <4>2. a = [h EXCEPT !.next[q] = n]
          BY <2>1, <3>3, <4>1 DEF Store
        <4>3. /\ a \in Heads /\ a.pprev = h.pprev /\ a.first = h.first
              /\ \A r \in Pool : a.next[r] = IF r = q THEN n ELSE h.next[r]
          BY <4>2, SMTT(60) DEF Heads
        <4> QED BY <3>3, <4>1, <4>3
      <3> QED BY <3>2, <3>3
    <2>3. a.next[node] = n /\ a.pprev[node] = place
      BY <1>2, <1>3, <2>2
    <2>4. PICK m : m = SetBack(a, n, place)
      OBVIOUS
    <2>5. /\ m \in Heads /\ m.first = a.first /\ m.next = a.next
          /\ \A r \in Pool : m.pprev[r] = IF r = n THEN place ELSE a.pprev[r]
      BY <2>2, <2>4, PointBack
    <2>6. d = [m EXCEPT !.next[node] = Null, !.pprev[node] = First(Null)]
      BY <1>1, <1>3, <2>1, <2>3, <2>4, Zenon DEF vg_hlist_del, SetBack
    <2>7. /\ d \in Heads /\ d.first = m.first
          /\ \A r \in Pool : d.next[r] = IF r = node THEN Null ELSE m.next[r]
          /\ \A r \in Pool : d.pprev[r] = IF r = node THEN First(Null) ELSE m.pprev[r]
      <3>1. m \in Heads /\ Null \in Record /\ First(Null) \in Place
        BY <2>5, PlaceIs DEF Record
      <3>2. d = [first |-> m.first, next |-> [m.next EXCEPT ![node] = Null],
                 pprev |-> [m.pprev EXCEPT ![node] = First(Null)]]
        BY <2>6, <3>1, Zenon DEF Heads
      <3>3. /\ m.first \in [Buckets -> Record] /\ m.next \in [Pool -> Record]
            /\ m.pprev \in [Pool -> Place]
        BY <3>1 DEF Heads
      <3> QED BY <3>1, <3>2, <3>3 DEF Heads
    <2> QED BY <2>2, <2>5, <2>7
  <1>5. Len(c) \in Nat /\ Null \notin Pool /\ \A i \in 1 .. Len(c) : c[i] \in Pool
    BY PoolIs
  <1>6. Len(t) = Len(c) - 1
    BY WithoutIs
  <1>7. \A i \in 1 .. Len(c) - 1 : t[i] = IF i < k THEN c[i] ELSE c[i + 1]
    BY DEF Without
  <1>8. ASSUME NEW i \in 1 .. Len(c)
        PROVE  At(Null, t, i) = IF i < k THEN c[i] ELSE At(Null, c, i + 1)
    BY <1>5, <1>6, <1>7, SMTT(60) DEF At
  <1>9. Chain(d, b, t)
    <2>1. d.first[b] = At(Null, t, 1)
      <3>1. CASE k = 1
        BY <1>1, <1>2, <1>4, <1>5, <1>8, <3>1
      <3>2. CASE k # 1
        <4>1. h.first[b] = c[1] /\ 1 \in 1 .. Len(c) /\ 1 < k
          BY <1>5, <3>2, SMTT(60) DEF Chain, At
        <4> QED BY <1>2, <1>4, <1>8, <3>2, <4>1, SMTT(60)
      <3> QED BY <3>1, <3>2, SMTT(60)
    <2>2. ASSUME NEW i \in 1 .. Len(c) - 1
          PROVE  d.next[t[i]] = At(Null, t, i + 1) /\ d.pprev[t[i]] = Back(b, t, i)
      <3>0. i \in 1 .. Len(c) - 1 /\ k \in 1 .. Len(c) /\ Once(c)
        OBVIOUS
      <3>1. i \in 1 .. Len(c) /\ i + 1 \in 1 .. Len(c)
        BY ONLY <1>5, <3>0
      <3>2. CASE i < k
        <4>1. t[i] = c[i] /\ c[i] \in Pool /\ c[i] # node /\ c[i] # n
          <5>1. t[i] = c[i] /\ c[i] \in Pool
            BY ONLY <1>5, <1>7, <3>0, <3>1, <3>2
          <5>2. c[i] # c[k]
            BY ONLY <1>5, <3>0, <3>1, <3>2 DEF Once
          <5>3. k + 1 \in 1 .. Len(c) => c[i] # c[k + 1]
            BY ONLY <1>5, <3>0, <3>1, <3>2 DEF Once
          <5> QED BY ONLY <1>1, <1>5, <5>1, <5>2, <5>3, SMTT(60) DEF At
        <4>2. h.next[c[i]] = At(Null, c, i + 1) /\ h.pprev[c[i]] = Back(b, c, i)
          BY <3>1 DEF Chain
        <4>3. Back(b, t, i) = Back(b, c, i)
          <5>1. CASE i = 1
            BY <5>1 DEF Back
          <5>2. CASE i # 1
            <6>1. i - 1 \in 1 .. Len(c) - 1 /\ i - 1 < k
              BY <1>5, <3>2, <5>2
            <6>2. t[i - 1] = c[i - 1]
              BY <1>7, <6>1
            <6> QED BY <5>2, <6>2 DEF Back
          <5> QED BY <5>1, <5>2
        <4>4. d.pprev[t[i]] = Back(b, t, i)
          BY <1>4, <4>1, <4>2, <4>3
        <4>5. CASE i + 1 < k
          <5>1. At(Null, t, i + 1) = c[i + 1] /\ At(Null, c, i + 1) = c[i + 1]
            BY <1>8, <3>1, <4>5, SMTT(60) DEF At
          <5>2. c[i] # place.node
            <6>1. k # 1 /\ k - 1 \in 1 .. Len(c) /\ i # k - 1
              BY <1>5, <4>5
            <6> QED BY <1>2, <3>1, <6>1 DEF Once
          <5> QED BY <1>4, <4>1, <4>2, <4>4, <5>1, <5>2, SMTT(60)
        <4>6. CASE i + 1 = k
          <5>1. At(Null, t, i + 1) = n
            BY <1>1, <1>8, <3>1, <4>6, SMTT(60)
          <5>2. c[i] = place.node
            BY <1>2, <1>5, <4>6
          <5> QED BY <1>4, <4>1, <4>4, <5>1, <5>2
        <4> QED BY <1>5, <3>2, <4>5, <4>6, SMTT(60)
      <3>3. CASE i >= k
        <4>1. t[i] = c[i + 1] /\ c[i + 1] \in Pool /\ c[i + 1] # node
          <5>1. t[i] = c[i + 1] /\ c[i + 1] \in Pool
            BY ONLY <1>5, <1>7, <3>0, <3>1, <3>3
          <5>2. c[i + 1] # c[k]
            BY ONLY <1>5, <3>0, <3>1, <3>3 DEF Once
          <5> QED BY <1>1, <5>1, <5>2, Zenon
        <4>2. h.next[c[i + 1]] = At(Null, c, i + 2) /\ h.pprev[c[i + 1]] = Back(b, c, i + 1)
          <5>1. Chain(h, b, c)
            OBVIOUS
          <5>2. h.next[c[i + 1]] = At(Null, c, i + 1 + 1) /\ h.pprev[c[i + 1]] = Back(b, c, i + 1)
            BY ONLY <3>1, <5>1, Zenon DEF Chain
          <5> QED BY ONLY <1>5, <3>0, <5>2
        <4>3. c[i + 1] # place.node
          <5>1. CASE k = 1
            BY <1>2, <1>5, <3>1, <4>1, <5>1
          <5>2. CASE k # 1
            <6>1. k - 1 \in 1 .. Len(c) /\ k - 1 # i + 1
              BY <1>5, <3>3, <5>2
            <6> QED BY <1>2, <3>1, <5>2, <6>1 DEF Once
          <5> QED BY <5>1, <5>2
        <4>4. At(Null, t, i + 1) = At(Null, c, i + 2)
          BY <1>5, <1>8, <3>1, <3>3, SMTT(60)
        <4>5. d.next[t[i]] = At(Null, t, i + 1)
          BY <1>4, <4>1, <4>2, <4>3, <4>4, SMTT(60)
        <4>6. CASE i = k
          <5>1. c[i + 1] = n
            BY <1>1, <3>1, <4>6 DEF At
          <5>2. Back(b, t, i) = place
            <6>1. CASE k = 1
              BY <1>1, <4>6, <6>1 DEF Back
            <6>2. CASE k # 1
              <7>1. k - 1 \in 1 .. Len(c) - 1 /\ k - 1 < k
                BY <1>5, <6>2
              <7>2. t[k - 1] = c[k - 1]
                BY <1>7, <7>1, SMTT(60)
              <7> QED BY <1>1, <4>6, <6>2, <7>2 DEF Back
            <6> QED BY <6>1, <6>2
          <5> QED BY <1>4, <4>1, <4>5, <5>1, <5>2
        <4>7. CASE i > k
          <5>1. c[i + 1] # n
            <6>1. k + 1 \in 1 .. Len(c) /\ k + 1 # i + 1
              BY <1>5, <4>7
            <6> QED BY <1>1, <3>1, <6>1 DEF At, Once
          <5>2. i # 1 /\ i - 1 \in 1 .. Len(c) - 1 /\ ~(i - 1 < k) /\ i + 1 # 1
            BY <1>5, <4>7
          <5>3. Back(b, t, i) = NextOf(c[i]) /\ Back(b, c, i + 1) = NextOf(c[i])
            BY <1>7, <5>2, SMTT(60) DEF Back
          <5> QED BY <1>4, <4>1, <4>2, <4>5, <5>1, <5>3
        <4> QED BY <1>5, <3>3, <4>6, <4>7, SMTT(60)
      <3> QED BY <1>5, <3>2, <3>3
    <2> QED BY <1>6, <2>1, <2>2 DEF Chain
  <1>10. ASSUME NEW x \in Buckets, NEW e \in Seq(Pool), x # b, Chain(h, x, e),
                \A r : ~(Has(c, r) /\ Has(e, r))
         PROVE  Chain(d, x, e)
    <2>1. d.first[x] = h.first[x]
      BY <1>2, <1>4, <1>10
    <2>2. ASSUME NEW i \in 1 .. Len(e)
          PROVE  d.next[e[i]] = h.next[e[i]] /\ d.pprev[e[i]] = h.pprev[e[i]]
      <3>1. e[i] \in Pool /\ \A j \in 1 .. Len(c) : e[i] # c[j]
        <4>1. e[i] \in Pool /\ Has(e, e[i])
          BY DEF Has
        <4>2. \A j \in 1 .. Len(c) : Has(c, c[j])
          BY DEF Has
        <4> QED BY <1>10, <4>1, <4>2
      <3>2. e[i] # node /\ e[i] # n
        BY <1>1, <1>5, <3>1 DEF At
      <3>3. e[i] # place.node
        <4>1. CASE k = 1
          BY <1>2, <1>5, <3>1, <4>1
        <4>2. CASE k # 1
          <5>1. k - 1 \in 1 .. Len(c)
            BY <1>5, <4>2
          <5> QED BY <1>2, <3>1, <4>2, <5>1
        <4> QED BY <4>1, <4>2
      <3> QED BY <1>4, <3>1, <3>2, <3>3
    <2>3. Chain(h, x, e)
      BY <1>10
    <2> QED BY ONLY <2>1, <2>2, <2>3, ZenonT(60) DEF Chain
  <1> QED BY <1>4, <1>9, <1>10

Cons(x, s) == <<x>> \o s

\* A record that is linked in comes before the others of its bucket.
LEMMA HlistAddChain ==
  ASSUME NEW h \in Heads, NEW b \in Buckets, NEW c \in Seq(Pool), Once(c), Chain(h, b, c),
         NEW node \in Pool, ~Has(c, node), NEW d, d = vg_hlist_add_head(h, node, b),
         NEW t, t = Cons(node, c)
  PROVE  /\ d \in Heads /\ Chain(d, b, t)
         /\ \A x \in Buckets, e \in Seq(Pool) :
              /\ x # b /\ Chain(h, x, e) /\ ~Has(e, node)
              /\ \A r : ~(Has(c, r) /\ Has(e, r))
              => Chain(d, x, e)
  <1>1. Len(c) \in Nat /\ Null \notin Pool /\ \A i \in 1 .. Len(c) : c[i] \in Pool /\ c[i] # node
    BY PoolIs DEF Has
  <1>2. PICK n \in Record : n = At(Null, c, 1) /\ n # node
    BY <1>1, SMTT(60) DEF At, Record
  <1>3. /\ d \in Heads
        /\ \A x \in Buckets : d.first[x] = IF x = b THEN node ELSE h.first[x]
        /\ \A r \in Pool :
             /\ d.next[r] = IF r = node THEN n ELSE h.next[r]
             /\ d.pprev[r] = IF r = node THEN First(b) ELSE IF r = n THEN NextOf(node) ELSE h.pprev[r]
    <2>1. h.first[b] = n
      BY <1>2 DEF Chain
    <2>2. PICK a : a = [h EXCEPT !.next[node] = n]
      BY Zenon
    <2>3. /\ a \in Heads /\ a.pprev = h.pprev /\ a.first = h.first
          /\ \A r \in Pool : a.next[r] = IF r = node THEN n ELSE h.next[r]
      BY <2>2, Zenon DEF Heads
    <2>4. PICK m : m = SetBack(a, n, NextOf(node))
      BY SMTT(60)
    <2>5. /\ m \in Heads /\ m.first = a.first /\ m.next = a.next
          /\ \A r \in Pool : m.pprev[r] = IF r = n THEN NextOf(node) ELSE a.pprev[r]
      <3>1. NextOf(node) \in Place
        BY PlaceIs
      <3> QED BY <2>3, <2>4, <3>1, PointBack
    <2>6. d = [m EXCEPT !.first[b] = node, !.pprev[node] = First(b)]
      <3>1. a.next[node] = n
        BY <2>3
      <3> QED BY <2>1, <2>2, <2>4, <3>1, ZenonT(60) DEF vg_hlist_add_head, SetBack
    <2>7. /\ d \in Heads /\ d.next = m.next
          /\ \A x \in Buckets : d.first[x] = IF x = b THEN node ELSE m.first[x]
          /\ \A r \in Pool : d.pprev[r] = IF r = node THEN First(b) ELSE m.pprev[r]
      <3>1. m \in Heads /\ node \in Record /\ First(b) \in Place
        BY <2>5, PlaceIs DEF Record
      <3>2. d = [first |-> [m.first EXCEPT ![b] = node], next |-> m.next,
                 pprev |-> [m.pprev EXCEPT ![node] = First(b)]]
        BY <2>6, <3>1, Zenon DEF Heads
      <3>3. /\ m.first \in [Buckets -> Record] /\ m.next \in [Pool -> Record]
            /\ m.pprev \in [Pool -> Place]
        BY <3>1 DEF Heads
      <3> QED BY <3>1, <3>2, <3>3 DEF Heads
    <2> QED BY <1>2, <2>3, <2>5, <2>7, SMTT(60)
  <1>4. /\ Len(t) = Len(c) + 1 /\ t[1] = node
        /\ \A i \in 1 .. Len(c) : t[i + 1] = c[i]
    BY ConsIs DEF Cons
  <1>5. At(Null, t, 1) = node /\ \A i \in 1 .. Len(c) + 1 : At(Null, t, i + 1) = At(Null, c, i)
    BY <1>1, <1>4, SMTT(60) DEF At
  <1>6. ASSUME NEW i \in 1 .. Len(t)
        PROVE  d.next[t[i]] = At(Null, t, i + 1) /\ d.pprev[t[i]] = Back(b, t, i)
    <2>1. CASE i = 1
      <3>1. At(Null, t, i + 1) = n /\ t[i] = node /\ Back(b, t, i) = First(b)
        BY <1>1, <1>2, <1>4, <1>5, <2>1, SMTT(60) DEF Back
      <3> QED BY <1>3, <3>1
    <2>2. CASE i # 1
      <3>1. PICK j \in 1 .. Len(c) : i = j + 1
        <4>1. i - 1 \in 1 .. Len(c) /\ i = (i - 1) + 1
          BY <1>1, <1>4, <2>2
        <4> QED BY <4>1
      <3>2. t[i] = c[j] /\ c[j] \in Pool /\ c[j] # node
        BY <1>1, <1>4, <3>1
      <3>3. h.next[c[j]] = At(Null, c, j + 1) /\ h.pprev[c[j]] = Back(b, c, j)
        BY DEF Chain
      <3>4. At(Null, t, i + 1) = At(Null, c, j + 1)
        BY <1>1, <1>5, <3>1
      <3>5. Back(b, t, i) = NextOf(t[j])
        BY <1>1, <2>2, <3>1, SMTT(60) DEF Back
      <3>6. CASE j = 1
        <4>1. c[j] = n
          BY <1>1, <1>2, <3>6, SMTT(60) DEF At
        <4> QED BY <1>3, <1>4, <3>2, <3>3, <3>4, <3>5, <3>6, <4>1
      <3>7. CASE j # 1
        <4>1. c[j] # n
          BY <1>1, <1>2, <3>7 DEF At, Once
        <4>2. t[j] = c[j - 1]
          <5>1. j - 1 \in 1 .. Len(c) /\ (j - 1) + 1 = j
            BY <1>1, <3>7
          <5> QED BY <1>4, <5>1
        <4>3. Back(b, c, j) = NextOf(c[j - 1])
          BY <3>7, SMTT(60) DEF Back
        <4> QED BY <1>3, <3>2, <3>3, <3>4, <3>5, <4>1, <4>2, <4>3, SMTT(60)
      <3> QED BY <3>6, <3>7
    <2> QED BY <2>1, <2>2, SMTT(60)
  <1>7. Chain(d, b, t)
    BY <1>3, <1>5, <1>6, SMTT(60) DEF Chain
  <1>8. ASSUME NEW x \in Buckets, NEW e \in Seq(Pool), x # b, Chain(h, x, e), ~Has(e, node),
               \A r : ~(Has(c, r) /\ Has(e, r))
        PROVE  Chain(d, x, e)
    <2>1. d.first[x] = h.first[x]
      BY <1>3, <1>8
    <2>2. ASSUME NEW i \in 1 .. Len(e)
          PROVE  d.next[e[i]] = h.next[e[i]] /\ d.pprev[e[i]] = h.pprev[e[i]]
      <3>1. e[i] \in Pool /\ Has(e, e[i])
        BY DEF Has
      <3>2. \A j \in 1 .. Len(c) : Has(c, c[j])
        BY DEF Has
      <3>3. e[i] # node /\ \A j \in 1 .. Len(c) : e[i] # c[j]
        BY <1>8, <3>1, <3>2
      <3>4. e[i] # n
        BY <1>1, <1>2, <3>1, <3>3 DEF At
      <3> QED BY <1>3, <3>1, <3>3, <3>4
    <2> QED BY <1>8, <2>1, <2>2, SMTT(60) DEF Chain
  <1> QED BY <1>3, <1>7, <1>8

----------------------------------------------------------------------------
(***************************************************************************)
(* drop_all and drop_free: a record that was handed out is on one of them, *)
(* or is the one that an operation has in hand.                            *)
(***************************************************************************)

Both(l, u, s, t) ==
  /\ l \in Links
  /\ s \in Seq(Pool) /\ Once(s) /\ Ring(l, All, s)
  /\ t \in Seq(Pool) /\ Once(t) /\ Ring(l, Free, t)
  /\ u \in 0 .. Cap
  /\ \A r : Has(s, r) => r \in 1 .. u /\ ~Has(t, r)
  /\ \A r : Has(t, r) => r \in 1 .. u

Rings(l, u, s, t) == Both(l, u, s, t) /\ Len(s) + Len(t) = u

InHand(l, u, s, t, r) ==
  /\ Both(l, u, s, t)
  /\ Len(s) + Len(t) + 1 = u
  /\ r \in 1 .. u /\ ~Has(s, r) /\ ~Has(t, r)

LEMMA Apart ==
  ASSUME NEW l, NEW u, NEW s, NEW t, Both(l, u, s, t)
  PROVE  /\ Clear(t, Free, s, All) /\ Clear(s, All, t, Free)
         /\ All \in {All, Free} /\ Free \in {All, Free}
         /\ u \in Nat /\ 1 .. u \subseteq Pool
  BY PoolIs DEF Both, Clear, Pool

LEMMA DelAll ==
  ASSUME NEW l, NEW u, NEW s, NEW t, Rings(l, u, s, t), NEW k \in 1 .. Len(s),
         NEW d, d = vg_list_del(l, s[k]), NEW s2, s2 = Without(s, k)
  PROVE  InHand(d, u, s2, t, s[k])
  <1>1. Both(l, u, s, t) /\ Len(s) + Len(t) = u
    BY DEF Rings
  <1>2. /\ Clear(t, Free, s, All)
        /\ All \in {All, Free} /\ Free \in {All, Free} /\ u \in Nat
    BY <1>1, Apart
  <1>3. /\ s2 \in Seq(Pool) /\ Len(s2) = Len(s) - 1 /\ Once(s2)
        /\ \A r : Has(s2, r) <=> Has(s, r) /\ r # s[k]
    BY <1>1, WithoutIs, SMTT(60) DEF Both
  <1>4. d \in Links /\ Ring(d, All, s2) /\ Ring(d, Free, t)
    BY <1>1, <1>2, DelRing DEF Both
  <1>6. Has(s, s[k])
    BY DEF Has
  <1>7. Both(d, u, s2, t)
    BY <1>1, <1>3, <1>4 DEF Both
  <1>8. Len(s2) + Len(t) + 1 = u
    BY <1>1, <1>2, <1>3 DEF Both
  <1>9. s[k] \in 1 .. u /\ ~Has(s2, s[k]) /\ ~Has(t, s[k])
    BY <1>1, <1>3, <1>6 DEF Both
  <1> QED BY <1>7, <1>8, <1>9 DEF InHand

LEMMA DelFree ==
  ASSUME NEW l, NEW u, NEW s, NEW t, Rings(l, u, s, t), NEW k \in 1 .. Len(t),
         NEW d, d = vg_list_del(l, t[k]), NEW t2, t2 = Without(t, k)
  PROVE  InHand(d, u, s, t2, t[k])
  <1>1. Both(l, u, s, t) /\ Len(s) + Len(t) = u
    BY DEF Rings
  <1>2. /\ Clear(s, All, t, Free)
        /\ All \in {All, Free} /\ Free \in {All, Free} /\ u \in Nat
    BY <1>1, Apart
  <1>3. /\ t2 \in Seq(Pool) /\ Len(t2) = Len(t) - 1 /\ Once(t2)
        /\ \A r : Has(t2, r) <=> Has(t, r) /\ r # t[k]
    BY <1>1, WithoutIs, SMTT(60) DEF Both
  <1>4. d \in Links /\ Ring(d, Free, t2) /\ Ring(d, All, s)
    BY <1>1, <1>2, DelRing DEF Both
  <1>6. Has(t, t[k])
    BY DEF Has
  <1>7. Both(d, u, s, t2)
    BY <1>1, <1>3, <1>4 DEF Both
  <1>8. Len(s) + Len(t2) + 1 = u
    BY <1>1, <1>2, <1>3 DEF Both
  <1>9. t[k] \in 1 .. u /\ ~Has(s, t[k]) /\ ~Has(t2, t[k])
    BY <1>1, <1>3, <1>6 DEF Both
  <1> QED BY <1>7, <1>8, <1>9 DEF InHand

LEMMA AddAll ==
  ASSUME NEW l, NEW u, NEW s, NEW t, NEW r, InHand(l, u, s, t, r),
         NEW d, d = vg_list_add_tail(l, r, All), NEW s2, s2 = Append(s, r)
  PROVE  Rings(d, u, s2, t)
  <1>1. /\ Both(l, u, s, t) /\ Len(s) + Len(t) + 1 = u
        /\ r \in 1 .. u /\ ~Has(s, r) /\ ~Has(t, r)
    BY DEF InHand
  <1>2. /\ Clear(t, Free, s, All) /\ r \in Pool
        /\ All \in {All, Free} /\ Free \in {All, Free} /\ u \in Nat
    BY <1>1, Apart
  <1>3. /\ s2 \in Seq(Pool) /\ Len(s2) = Len(s) + 1 /\ Once(s2)
        /\ \A q : Has(s2, q) <=> Has(s, q) \/ q = r
    <2>1. s \in Seq(Pool) /\ Once(s)
      BY <1>1 DEF Both
    <2>2. r \in Pool /\ ~Has(s, r)
      BY <1>1, <1>2
    <2> QED BY <2>1, <2>2, AppendIs, ZenonT(60)
  <1>4. d \in Links /\ Ring(d, All, s2) /\ Ring(d, Free, t)
    BY <1>1, <1>2, AddRing, Zenon DEF Both
  <1>6. Both(d, u, s2, t)
    BY <1>1, <1>3, <1>4 DEF Both
  <1>7. Len(s2) + Len(t) = u
    BY <1>1, <1>2, <1>3 DEF Both
  <1> QED BY <1>6, <1>7 DEF Rings

LEMMA AddFree ==
  ASSUME NEW l, NEW u, NEW s, NEW t, NEW r, InHand(l, u, s, t, r),
         NEW d, d = vg_list_add_tail(l, r, Free), NEW t2, t2 = Append(t, r)
  PROVE  Rings(d, u, s, t2)
  <1>1. /\ Both(l, u, s, t) /\ Len(s) + Len(t) + 1 = u
        /\ r \in 1 .. u /\ ~Has(s, r) /\ ~Has(t, r)
    BY DEF InHand
  <1>2. /\ Clear(s, All, t, Free) /\ r \in Pool
        /\ All \in {All, Free} /\ Free \in {All, Free} /\ u \in Nat
    BY <1>1, Apart
  <1>3. /\ t2 \in Seq(Pool) /\ Len(t2) = Len(t) + 1 /\ Once(t2)
        /\ \A q : Has(t2, q) <=> Has(t, q) \/ q = r
    <2>1. t \in Seq(Pool) /\ Once(t)
      BY <1>1 DEF Both
    <2>2. r \in Pool /\ ~Has(t, r)
      BY <1>1, <1>2
    <2> QED BY <2>1, <2>2, AppendIs, ZenonT(60)
  <1>4. d \in Links /\ Ring(d, Free, t2) /\ Ring(d, All, s)
    BY <1>1, <1>2, AddRing, Zenon DEF Both
  <1>6. Both(d, u, s, t2)
    BY <1>1, <1>3, <1>4 DEF Both
  <1>7. Len(s) + Len(t2) = u
    BY <1>1, <1>2, <1>3 DEF Both
  <1> QED BY <1>6, <1>7 DEF Rings

LEMMA NextOfPool ==
  ASSUME NEW l, NEW u, NEW s, NEW t, Rings(l, u, s, t), u < Cap
  PROVE  InHand(l, u + 1, s, t, u + 1)
  <1>1. u \in Nat /\ u + 1 \in 0 .. Cap /\ u + 1 \in 1 .. u + 1 /\ u + 1 \notin 1 .. u
        /\ 1 .. u \subseteq 1 .. u + 1
    BY PoolIs DEF Rings, Both
  <1>2. Both(l, u, s, t) /\ Len(s) + Len(t) = u
    BY DEF Rings
  <1>3. Both(l, u + 1, s, t)
    BY <1>1, <1>2 DEF Both
  <1>4. ~Has(s, u + 1) /\ ~Has(t, u + 1)
    BY <1>1, <1>2 DEF Both
  <1>5. Len(s) + Len(t) + 1 = u + 1
    BY <1>2
  <1> QED BY <1>1, <1>3, <1>4, <1>5 DEF InHand

\* The nodes that are found on the two lists, and on what is left of a walk.
LEMMA RingsAre ==
  ASSUME Induction, NEW l, NEW u, NEW s, NEW t, Rings(l, u, s, t)
  PROVE  /\ Nodes(l.next, l.next[All], All) = s
         /\ Nodes(l.next, l.next[Free], Free) = t
         /\ \A k \in 1 .. Len(s) + 1 : Nodes(l.next, At(All, s, k), All) = Rest(s, k)
  <1>1. /\ s \in Seq(Pool) /\ t \in Seq(Pool) /\ Ring(l, All, s) /\ Ring(l, Free, t)
        /\ Once(s) /\ Once(t)
        /\ u \in 0 .. Cap /\ Len(s) + Len(t) = u
    BY DEF Rings, Both
  <1>2. Len(s) \in Nat /\ Len(t) \in Nat /\ Len(s) <= Cap /\ Len(t) <= Cap
    BY <1>1, PoolIs
  <1>3. ASSUME NEW h \in {All, Free}, NEW q \in Seq(Pool), Once(q), Ring(l, h, q), Len(q) <= Cap,
               NEW k \in 1 .. Len(q) + 1
        PROVE  /\ l.next[h] = At(h, q, 1)
               /\ Nodes(l.next, At(h, q, k), h) = Rest(q, k)
    <2>1. At(h, q, 0) = h /\ \A i \in 1 .. Len(q) : At(h, q, i) = q[i]
      BY <1>3, AtIs
    <2>2. 0 \in 0 .. Len(q) /\ 0 + 1 = 1 /\ \A i \in 1 .. Len(q) : i \in 0 .. Len(q)
      BY <1>3
    <2>3. l.next[h] = At(h, q, 1)
      BY <1>3, <2>1, <2>2 DEF Ring
    <2>4. Path(l.next, q, h)
      BY <1>3, <2>1, <2>2 DEF Ring, Path
    <2>5. h \in Ends
      BY DEF Ends
    <2> QED BY <1>3, <2>3, <2>4, <2>5, NodesAre
  <1>4. \A k \in 1 .. Len(s) + 1 : l.next[All] = At(All, s, 1) /\ Nodes(l.next, At(All, s, k), All) = Rest(s, k)
    BY <1>1, <1>2, <1>3
  <1>5. \A k \in 1 .. Len(t) + 1 : l.next[Free] = At(Free, t, 1) /\ Nodes(l.next, At(Free, t, k), Free) = Rest(t, k)
    BY <1>1, <1>2, <1>3
  <1>6. 1 \in 1 .. Len(s) + 1 /\ 1 \in 1 .. Len(t) + 1
    BY <1>2
  <1>7. Rest(s, 1) = s /\ Rest(t, 1) = t
    BY <1>1, RestAll
  <1> QED BY <1>4, <1>5, <1>6, <1>7

----------------------------------------------------------------------------
(***************************************************************************)
(* The buckets: each has the listed records whose prefix hashes to it, and *)
(* no two of those have the same prefix.                                   *)
(***************************************************************************)

Table(h, c, s, B) ==
  /\ h \in Heads
  /\ c \in [Pool -> Cidrs \cup {Null}]
  /\ B \in [Buckets -> Seq(Pool)]
  /\ \A r : Has(s, r) => r \in Pool /\ c[r] \in Cidrs
  /\ \A q, r : Has(s, q) /\ Has(s, r) /\ c[q] = c[r] => q = r
  /\ \A b \in Buckets : Once(B[b]) /\ Chain(h, b, B[b])
  /\ \A b \in Buckets, r \in Pool : Has(B[b], r) <=> Has(s, r) /\ Hash[c[r]] = b

LEMMA HasPool ==
  ASSUME NEW s \in Seq(Pool), NEW r, Has(s, r)
  PROVE  r \in Pool
  BY DEF Has

\* Buckets share no record.
LEMMA BucketsApart ==
  ASSUME NEW h, NEW c, NEW s, NEW B, Table(h, c, s, B),
         NEW b \in Buckets, NEW x \in Buckets, x # b, NEW r
  PROVE  ~(Has(B[b], r) /\ Has(B[x], r))
  <1>1. B[b] \in Seq(Pool) /\ B[x] \in Seq(Pool)
    BY DEF Table
  <1> QED BY <1>1, HasPool DEF Table

LEMMA ShortEnough ==
  ASSUME Induction, NEW c \in Seq(Pool), Once(c)
  PROVE  Len(c) <= Cap
  <1>1. Len(c) \in Nat /\ Cap \in Nat /\ c \in [1 .. Len(c) -> 1 .. Cap]
    BY PoolIs DEF Pool
  <1>2. OneToOne(c, Len(c), Cap)
    BY <1>1 DEF OneToOne, Once
  <1> QED BY <1>1, <1>2, Pigeons

LEMMA BucketIs ==
  ASSUME Induction, NEW h, NEW c, NEW s, NEW B, Table(h, c, s, B), NEW b \in Buckets
  PROVE  Nodes(h.next, h.first[b], Null) = B[b]
  <1>1. B[b] \in Seq(Pool) /\ Once(B[b]) /\ Chain(h, b, B[b])
    BY DEF Table
  <1>2. PICK q \in Seq(Pool) : q = B[b]
    BY <1>1
  <1>3. Len(q) <= Cap /\ 1 \in 1 .. Len(q) + 1
    BY <1>1, <1>2, ShortEnough, SMTT(60)
  <1>4. Path(h.next, q, Null) /\ h.first[b] = At(Null, q, 1) /\ Null \in Ends
    BY <1>1, <1>2 DEF Path, Chain, Ends
  <1>5. Nodes(h.next, At(Null, q, 1), Null) = Rest(q, 1)
    BY <1>3, <1>4, NodesAre
  <1>6. Rest(q, 1) = q
    BY RestAll, SMTT(60)
  <1> QED BY <1>2, <1>4, <1>5, <1>6

\* drops_find has the listed record of a prefix, if there is one.
LEMMA FindIs ==
  ASSUME Induction, NEW s, NEW B, Table(hash, cidr, s, B), NEW p \in Cidrs
  PROVE  \/ drops_find(p) = Null /\ \A r : Has(s, r) => cidr[r] # p
         \/ drops_find(p) # Null /\ Has(s, drops_find(p)) /\ cidr[drops_find(p)] = p
  <1>1. PICK b \in Buckets : b = Hash[p]
    BY DropListAssumption
  <1>2. PICK c \in Seq(Pool) : c = B[b]
    BY SMTT(60) DEF Table
  <1>3. Bucket(b) = c
    BY <1>2, BucketIs DEF Bucket
  <1> DEFINE found == {i \in 1 .. Len(c) : cidr[c[i]] = p}
  <1>4. drops_find(p) = IF found = {} THEN Null ELSE c[Lowest(found)]
    <2> DEFINE at == {i \in DOMAIN c : cidr[c[i]] = p}
    <2>1. drops_find(p) = IF at = {} THEN Null ELSE c[Lowest(at)]
      BY <1>1, <1>3, Zenon DEF drops_find
    <2>2. at = found
      OBVIOUS
    <2> HIDE DEF at, found
    <2> QED BY <2>1, <2>2
  <1>5. ASSUME NEW i \in 1 .. Len(c) PROVE c[i] \in Pool /\ Has(s, c[i])
    <2>1. c[i] \in Pool /\ Has(c, c[i])
      BY DEF Has
    <2> QED BY <1>2, <2>1 DEF Table
  <1>6. ASSUME NEW r, Has(s, r), cidr[r] = p PROVE \E i \in found : c[i] = r
    <2>1. r \in Pool /\ Hash[cidr[r]] = b
      BY <1>1, <1>6 DEF Table
    <2>2. Has(c, r)
      BY <1>2, <1>6, <2>1, SMTT(60) DEF Table
    <2> QED BY <1>6, <2>2 DEF Has
  <1>7. CASE found = {}
    BY <1>4, <1>6, <1>7
  <1>8. CASE found # {}
    <2>1. PICK i \in found : TRUE
      BY <1>8
    <2>2. \A j \in found : j = i
      <3>1. \A j \in found : c[j] = c[i]
        BY <1>5 DEF Table
      <3>2. Once(c)
        BY <1>2 DEF Table
      <3> QED BY <3>1, <3>2 DEF Once
    <2>3. Lowest(found) = i
      <3>1. i <= i
        OBVIOUS
      <3> HIDE DEF found
      <3> QED BY <2>1, <2>2, <3>1 DEF Lowest
    <2>4. drops_find(p) = c[i]
      BY <1>4, <1>8, <2>3
    <2>5. c[i] # Null
      BY <1>5, PoolIs
    <2> QED BY <1>5, <2>4, <2>5
  <1> QED BY <1>7, <1>8

\* A record is taken out of the table with its bucket's other records as
\* they were.
LEMMA RemoveTable ==
  ASSUME NEW h, NEW c, NEW s \in Seq(Pool), NEW B, Table(h, c, s, B), Once(s),
         NEW k \in 1 .. Len(s), NEW d, d = vg_hlist_del(h, s[k]), NEW s2, s2 = Without(s, k)
  PROVE  \E B2 : Table(d, c, s2, B2)
  <1>1. PICK r \in Pool : r = s[k]
    OBVIOUS
  <1>2. Has(s, r) /\ c[r] \in Cidrs
    BY <1>1 DEF Has, Table
  <1>3. PICK b \in Buckets : b = Hash[c[r]]
    BY <1>2, DropListAssumption
  <1>4. PICK q \in Seq(Pool) : q = B[b]
    BY DEF Table
  <1>5. h \in Heads /\ Once(q) /\ Chain(h, b, q) /\ Has(q, r)
    BY <1>2, <1>3, <1>4 DEF Table
  <1>6. PICK j \in 1 .. Len(q) : q[j] = r
    BY <1>5 DEF Has
  <1>7. PICK q2 : q2 = Without(q, j)
    OBVIOUS
  <1>8. /\ q2 \in Seq(Pool) /\ Once(q2)
        /\ \A x : Has(q2, x) <=> Has(q, x) /\ x # r
    <2>1. /\ q2 \in Seq(Pool) /\ Once(q2)
          /\ \A x : Has(q2, x) <=> Has(q, x) /\ x # q[j]
      BY <1>5, <1>7, WithoutIs, SMTT(60)
    <2> QED BY <1>6, <2>1
  <1>9. \A x : Has(s2, x) <=> Has(s, x) /\ x # r
    BY <1>1, WithoutIs, SMTT(60)
  <1>10. /\ d \in Heads /\ Chain(d, b, q2)
         /\ \A x \in Buckets, e \in Seq(Pool) :
              x # b /\ Chain(h, x, e) /\ (\A y : ~(Has(q, y) /\ Has(e, y))) => Chain(d, x, e)
    BY <1>1, <1>5, <1>6, <1>7, HlistDelChain
  <1> DEFINE B2 == [B EXCEPT ![b] = q2]
  <1>11. /\ B2 \in [Buckets -> Seq(Pool)] /\ B2[b] = q2
         /\ \A x \in Buckets : x # b => B2[x] = B[x]
    BY <1>8, SMTT(60) DEF Table
  <1> HIDE DEF B2
  <1>12. ASSUME NEW x \in Buckets PROVE Once(B2[x]) /\ Chain(d, x, B2[x])
    <2>1. CASE x = b
      BY <1>8, <1>10, <1>11, <2>1, ZenonT(60)
    <2>2. CASE x # b
      <3>1. B2[x] = B[x] /\ B[x] \in Seq(Pool) /\ Once(B[x]) /\ Chain(h, x, B[x])
        BY <1>11, <2>2 DEF Table
      <3>2. \A y : ~(Has(q, y) /\ Has(B[x], y))
        BY <1>4, <2>2, BucketsApart, SMTT(60)
      <3> QED BY <1>10, <2>2, <3>1, <3>2, Zenon
    <2> QED BY <2>1, <2>2, ZenonT(60)
  <1>13. ASSUME NEW x \in Buckets, NEW y \in Pool
         PROVE  Has(B2[x], y) <=> Has(s2, y) /\ Hash[c[y]] = x
    <2>1. Has(B[x], y) <=> Has(s, y) /\ Hash[c[y]] = x
      BY SMTT(60) DEF Table
    <2>2. CASE x = b
      BY <1>4, <1>8, <1>9, <1>11, <2>1, <2>2, SMTT(60)
    <2>3. CASE x # b
      BY <1>3, <1>9, <1>11, <2>1, <2>3
    <2> QED BY <2>2, <2>3
  <1>14. /\ c \in [Pool -> Cidrs \cup {Null}]
         /\ \A x : Has(s2, x) => x \in Pool /\ c[x] \in Cidrs
         /\ \A x, y : Has(s2, x) /\ Has(s2, y) /\ c[x] = c[y] => x = y
    BY <1>9, SMTT(60) DEF Table
  <1>15. Table(d, c, s2, B2)
    BY <1>10, <1>11, <1>12, <1>13, <1>14, Zenon DEF Table
  <1> QED BY <1>15

\* A record that gets a prefix no listed one has is put in its bucket.
LEMMA AddTable ==
  ASSUME NEW h, NEW c, NEW s \in Seq(Pool), NEW B, Table(h, c, s, B),
         NEW p \in Cidrs, \A r : Has(s, r) => c[r] # p,
         NEW node \in Pool, ~Has(s, node), NEW d, d = vg_hlist_add_head(h, node, Hash[p]),
         NEW c2, c2 = [c EXCEPT ![node] = p], NEW s2, s2 = Append(s, node)
  PROVE  \E B2 : Table(d, c2, s2, B2)
  <1>1. PICK b \in Buckets : b = Hash[p]
    BY DropListAssumption
  <1>2. PICK q \in Seq(Pool) : q = B[b]
    BY DEF Table
  <1>3. h \in Heads /\ Once(q) /\ Chain(h, b, q)
    BY <1>2 DEF Table
  <1>4. \A x \in Buckets : ~Has(B[x], node)
    BY DEF Table
  <1>5. ~Has(q, node)
    BY <1>2, <1>4
  <1>6. PICK q2 : q2 = Cons(node, q)
    OBVIOUS
  <1>7. /\ q2 \in Seq(Pool) /\ Once(q2)
        /\ \A x : Has(q2, x) <=> Has(q, x) \/ x = node
    <2>1. /\ q2 \in Seq(Pool) /\ Len(q2) = Len(q) + 1 /\ q2[1] = node
          /\ \A i \in 1 .. Len(q) : q2[i + 1] = q[i]
      BY <1>6, ConsIs DEF Cons
    <2>2. \A i \in 2 .. Len(q2) : i - 1 \in 1 .. Len(q) /\ q2[i] = q[i - 1]
      <3> SUFFICES ASSUME NEW i \in 2 .. Len(q2) PROVE i - 1 \in 1 .. Len(q) /\ q2[i] = q[i - 1]
        OBVIOUS
      <3>1. i - 1 \in 1 .. Len(q) /\ (i - 1) + 1 = i
        BY <2>1
      <3> QED BY <2>1, <3>1
    <2>3. \A i \in 1 .. Len(q) : q[i] # node
      BY <1>5 DEF Has
    <2>4. Len(q) \in Nat
      OBVIOUS
    <2>5. ASSUME NEW i \in 1 .. Len(q2), NEW j \in 1 .. Len(q2), q2[i] = q2[j] PROVE i = j
      <3>1. CASE i = 1 \/ j = 1
        <4>1. \A m \in 1 .. Len(q2) : m # 1 => q2[m] # node
          <5> SUFFICES ASSUME NEW m \in 1 .. Len(q2), m # 1 PROVE q2[m] # node
            OBVIOUS
          <5>1. m \in 2 .. Len(q2)
            BY <2>1, <2>4
          <5> QED BY <2>2, <2>3, <5>1
        <4> QED BY <2>1, <2>5, <3>1, <4>1
      <3>2. CASE i # 1 /\ j # 1
        <4>1. i \in 2 .. Len(q2) /\ j \in 2 .. Len(q2)
          BY <2>1, <2>4, <3>2
        <4>2. i - 1 = j - 1
          BY <1>3, <2>2, <2>5, <4>1, SMTT(60) DEF Once
        <4> QED BY <4>1, <4>2
      <3> QED BY <3>1, <3>2
    <2>6. ASSUME NEW x, Has(q2, x) PROVE Has(q, x) \/ x = node
      <3>1. PICK i \in 1 .. Len(q2) : q2[i] = x
        BY <2>6 DEF Has
      <3>2. CASE i = 1
        BY <2>1, <3>1, <3>2
      <3>3. CASE i # 1
        <4>1. i - 1 \in 1 .. Len(q) /\ q[i - 1] = x
          BY <2>1, <2>2, <2>4, <3>1, <3>3
        <4> QED BY <4>1 DEF Has
      <3> QED BY <3>2, <3>3
    <2>7. ASSUME NEW x, Has(q, x) PROVE Has(q2, x)
      <3>1. PICK i \in 1 .. Len(q) : q[i] = x
        BY <2>7 DEF Has
      <3>2. i + 1 \in 1 .. Len(q2) /\ q2[i + 1] = x
        BY <2>1, <2>4, <3>1
      <3> QED BY <3>2 DEF Has
    <2>8. Has(q2, node)
      <3>1. 1 \in 1 .. Len(q2) /\ q2[1] = node
        BY <2>1, <2>4
      <3> QED BY <3>1 DEF Has
    <2>9. Once(q2)
      BY <2>5 DEF Once
    <2> QED BY <2>1, <2>6, <2>7, <2>8, <2>9
  <1>8. /\ \A x : Has(s2, x) <=> Has(s, x) \/ x = node
    BY AppendIs, ZenonT(60)
  <1>9. /\ d \in Heads /\ Chain(d, b, q2)
        /\ \A x \in Buckets, e \in Seq(Pool) :
             /\ x # b /\ Chain(h, x, e) /\ ~Has(e, node)
             /\ \A r : ~(Has(q, r) /\ Has(e, r))
             => Chain(d, x, e)
    <2>1. d = vg_hlist_add_head(h, node, b)
      BY <1>1
    <2> QED BY <1>3, <1>5, <1>6, <2>1, HlistAddChain
  <1> DEFINE B2 == [B EXCEPT ![b] = q2]
  <1>10. /\ B2 \in [Buckets -> Seq(Pool)] /\ B2[b] = q2
         /\ \A x \in Buckets : x # b => B2[x] = B[x]
    BY <1>7 DEF Table
  <1> HIDE DEF B2
  <1>11. ASSUME NEW x \in Buckets PROVE Once(B2[x]) /\ Chain(d, x, B2[x])
    <2>1. CASE x = b
      BY <1>7, <1>9, <1>10, <2>1
    <2>2. CASE x # b
      <3>1. B2[x] = B[x] /\ B[x] \in Seq(Pool) /\ Once(B[x]) /\ Chain(h, x, B[x])
        BY <1>10, <2>2 DEF Table
      <3>2. \A y : ~(Has(q, y) /\ Has(B[x], y))
        BY <1>2, <2>2, BucketsApart, ZenonT(60)
      <3> QED BY <1>4, <1>9, <2>2, <3>1, <3>2
    <2> QED BY <2>1, <2>2
  <1>12. /\ c2 \in [Pool -> Cidrs \cup {Null}] /\ c2[node] = p
         /\ \A x \in Pool : x # node => c2[x] = c[x]
    BY DEF Table
  <1>13. ASSUME NEW x \in Buckets, NEW y \in Pool
         PROVE  Has(B2[x], y) <=> Has(s2, y) /\ Hash[c2[y]] = x
    <2>1. Has(B[x], y) <=> Has(s, y) /\ Hash[c[y]] = x
      BY DEF Table
    <2>2. CASE x = b
      BY <1>1, <1>2, <1>7, <1>8, <1>10, <1>12, <2>1, <2>2, ZenonT(60)
    <2>3. CASE x # b
      BY <1>1, <1>8, <1>10, <1>12, <2>1, <2>3, ZenonT(60)
    <2> QED BY <2>2, <2>3
  <1>14. \A x : Has(s2, x) => x \in Pool /\ c2[x] \in Cidrs
    BY <1>8, <1>12 DEF Table
  <1>15. \A x, y : Has(s2, x) /\ Has(s2, y) /\ c2[x] = c2[y] => x = y
    <2>1. \A x : Has(s, x) => x \in Pool /\ x # node /\ c2[x] = c[x] /\ c2[x] # p
      BY <1>12, SMTT(60) DEF Table
    <2> QED BY <1>8, <1>12, <2>1 DEF Table
  <1>16. Table(d, c2, s2, B2)
    BY <1>9, <1>10, <1>11, <1>12, <1>13, <1>14, <1>15 DEF Table
  <1> QED BY <1>16

----------------------------------------------------------------------------
(***************************************************************************)
(* The inductive invariant.                                                *)
(***************************************************************************)

\* A walk at x, the k-th record that is listed: n is the one after it, and
\* the records that were listed when the walk began are those it has been at
\* and those from x on.
AtRecord(s, x, n, seen, all, k) ==
  /\ x = s[k]
  /\ n = At(All, s, k + 1)
  /\ Len(all) = Len(seen) + Len(s) - k + 1
  /\ \A i \in 1 .. Len(seen) : all[i] = seen[i]
  /\ \A i \in k .. Len(s) : all[Len(seen) + i - k + 1] = s[i]

Walk(s, x, n, seen, all) ==
  /\ seen \in Seq(Pool) /\ all \in Seq(Pool)
  /\ x = All => seen = <<>>
  /\ x # All => \E k \in 1 .. Len(s) : AtRecord(s, x, n, seen, all, k)

\* s is drop_all, t is drop_free and B has the buckets.
Shape(s, t, B) ==
  /\ Rings(list, used, s, t)
  /\ count = Len(s)
  /\ Table(hash, cidr, s, B)
  /\ Walk(s, pos, ahead, walked, todo)

IInv == \E s, t, B : Shape(s, t, B)

\* What a step does to the prefixes that are listed, and to the pool.
Names(s, c) == [i \in 1 .. Len(s) |-> c[s[i]]]

Taken(t, t2, back) ==
  \/ Len(t) > 0 /\ Len(t2) = Len(t) - 1 + back /\ used' = used
  \/ Len(t) = 0 /\ used < Cap /\ used' = used + 1 /\ Len(t2) = back

Moves(s, t, s2, t2) ==
  LET L == Names(s, cidr)
      L2 == Names(s2, cidr')
  IN  \/ L2 = L /\ used' = used /\ Len(t2) = Len(t)
      \/ \E p \in Cidrs : /\ \A i \in DOMAIN L : L[i] # p
                          /\ L2 = Append(L, p)
                          /\ Taken(t, t2, 0)
      \/ L2 = L /\ Taken(t, t2, 1)
      \/ \E p \in Cidrs : /\ \E k \in DOMAIN L : L[k] = p /\ L2 = Without(L, k)
                          /\ Len(t2) = Len(t) + 1 /\ used' = used
      \/ L2 = <<>> /\ used' = 0 /\ Len(t2) = 0

\* There are lists after the step that are as they should be.
Kept(s, t) == \E s2, t2, B2 : Shape(s2, t2, B2)' /\ Moves(s, t, s2, t2)

LEMMA AllocIs ==
  ASSUME NEW s, NEW t, Rings(list, used, s, t), drop_alloc.r # Null
  PROVE  \E t1 : /\ InHand(drop_alloc.list, drop_alloc.used, s, t1, drop_alloc.r)
                 /\ \/ Len(t) > 0 /\ Len(t1) = Len(t) - 1 /\ drop_alloc.used = used
                    \/ Len(t) = 0 /\ Len(t1) = 0 /\ used < Cap /\ drop_alloc.used = used + 1
  <1>1. t \in Seq(Pool) /\ Once(t) /\ Ring(list, Free, t) /\ used \in Nat
    BY DEF Rings, Both
  <1>2. list.next[Free] = At(Free, t, 1)
    <2>1. At(Free, t, 0) = Free /\ 0 \in 0 .. Len(t) /\ 0 + 1 = 1
      BY <1>1, AtIs
    <2> QED BY <1>1, <2>1 DEF Ring
  <1>3. CASE Len(t) = 0
    <2>1. list.next[Free] = Free
      BY <1>2, <1>3 DEF At
    <2>2. used < Cap
      <3> SUFFICES ASSUME ~(used < Cap) PROVE FALSE
        OBVIOUS
      <3>1. drop_alloc = [r |-> Null, list |-> list, used |-> used]
        BY <2>1 DEF drop_alloc
      <3> QED BY <3>1
    <2>3. drop_alloc = [r |-> used + 1, list |-> list, used |-> used + 1]
      BY <2>1, <2>2 DEF drop_alloc
    <2>4. drop_alloc.r = used + 1 /\ drop_alloc.list = list /\ drop_alloc.used = used + 1
      BY <2>3
    <2>5. InHand(list, used + 1, s, t, used + 1)
      BY <2>2, NextOfPool
    <2>6. InHand(drop_alloc.list, drop_alloc.used, s, t, drop_alloc.r)
      BY <2>4, <2>5, SMTT(60)
    <2> QED BY <1>3, <2>2, <2>4, <2>6
  <1>4. CASE Len(t) # 0
    <2>1. 1 \in 1 .. Len(t) /\ Len(t) > 0 /\ t[1] \in Pool
      BY <1>1, <1>4
    <2>2. list.next[Free] = t[1] /\ t[1] # Free
      BY <1>2, <2>1, PoolIs DEF At
    <2>3. drop_alloc = [r |-> t[1], list |-> vg_list_del(list, t[1]), used |-> used]
      BY <2>2 DEF drop_alloc
    <2>4. drop_alloc.r = t[1] /\ drop_alloc.list = vg_list_del(list, t[1]) /\ drop_alloc.used = used
      BY <2>3
    <2>5. PICK t1 : t1 = Without(t, 1)
      OBVIOUS
    <2>6. Len(t1) = Len(t) - 1
      BY <1>1, <2>1, <2>5, WithoutIs
    <2>7. InHand(vg_list_del(list, t[1]), used, s, t1, t[1])
      BY <2>1, <2>5, DelFree, SMTT(60)
    <2>8. InHand(drop_alloc.list, drop_alloc.used, s, t1, drop_alloc.r)
      BY <2>4, <2>7
    <2> QED BY <2>1, <2>4, <2>6, <2>8
  <1> QED BY <1>3, <1>4

Renamed(c, r, p) == [c EXCEPT ![r] = p]

\* Names of a list that grows, or loses a record.
LEMMA NamesAppend ==
  ASSUME NEW s \in Seq(Pool), NEW c \in [Pool -> Cidrs \cup {Null}], NEW r \in Pool, ~Has(s, r),
         NEW p \in Cidrs
  PROVE  Names(Append(s, r), Renamed(c, r, p)) = Append(Names(s, c), p)
  <1>12. PICK s2, c2 : s2 = Append(s, r) /\ c2 = Renamed(c, r, p)
    BY Zenon
  <1>1. /\ s2 \in Seq(Pool) /\ Len(s2) = Len(s) + 1 /\ s2[Len(s) + 1] = r
        /\ \A i \in 1 .. Len(s) : s2[i] = s[i]
    BY <1>12, AppendIs
  <1>2. /\ c2 \in [Pool -> Cidrs \cup {Null}] /\ c2[r] = p
        /\ \A x \in Pool : x # r => c2[x] = c[x]
    BY <1>12 DEF Renamed
  <1>3. \A i \in 1 .. Len(s) : s[i] \in Pool /\ s[i] # r
    BY DEF Has
  <1>4. PICK L : L = Names(s, c)
    OBVIOUS
  <1>5. /\ L \in Seq(Cidrs \cup {Null}) /\ Len(L) = Len(s)
        /\ \A i \in 1 .. Len(s) : L[i] = c[s[i]]
    BY <1>3, <1>4 DEF Names
  <1>6. PICK L2 : L2 = Names(s2, c2)
    OBVIOUS
  <1>7. /\ L2 \in Seq(Cidrs \cup {Null}) /\ Len(L2) = Len(s) + 1
        /\ \A i \in 1 .. Len(s) + 1 : L2[i] = c2[s2[i]]
    BY <1>1, <1>2, <1>6 DEF Names
  <1>8. PICK M : M = Append(L, p)
    BY ZenonT(60)
  <1>9. /\ M \in Seq(Cidrs \cup {Null}) /\ Len(M) = Len(s) + 1 /\ M[Len(s) + 1] = p
        /\ \A i \in 1 .. Len(s) : M[i] = L[i]
    <2>1. p \in Cidrs \cup {Null}
      OBVIOUS
    <2> QED BY <1>5, <1>8, <2>1
  <1>10. ASSUME NEW i \in 1 .. Len(s) + 1 PROVE L2[i] = M[i]
    <2>1. CASE i = Len(s) + 1
      BY <1>1, <1>2, <1>7, <1>9, <2>1, SMTT(60)
    <2>2. CASE i # Len(s) + 1
      <3>1. i \in 1 .. Len(s)
        BY <2>2
      <3> QED BY <1>1, <1>2, <1>3, <1>5, <1>7, <1>9, <3>1
    <2> QED BY <2>1, <2>2
  <1>11. L2 = M
    BY <1>7, <1>9, <1>10, SameSeq
  <1> QED BY <1>12, <1>4, <1>6, <1>8, <1>11

LEMMA NamesWithout ==
  ASSUME NEW s \in Seq(Pool), NEW c, NEW k \in 1 .. Len(s), NEW s2, s2 = Without(s, k)
  PROVE  Names(s2, c) = Without(Names(s, c), k)
  <1>1. Len(s2) = Len(s) - 1 /\ Len(s) \in Nat
    BY WithoutIs
  <1>2. \A i \in 1 .. Len(s) - 1 : s2[i] = IF i < k THEN s[i] ELSE s[i + 1]
    BY DEF Without
  <1>3. PICK L : L = Names(s, c)
    OBVIOUS
  <1>4. L = [i \in 1 .. Len(s) |-> c[s[i]]] /\ Len(L) = Len(s)
    BY <1>1, <1>3 DEF Names
  <1>5. Without(L, k) = [i \in 1 .. Len(s) - 1 |-> IF i < k THEN L[i] ELSE L[i + 1]]
    BY <1>4 DEF Without
  <1>6. Names(s2, c) = [i \in 1 .. Len(s) - 1 |-> c[s2[i]]]
    BY <1>1 DEF Names
  <1>7. ASSUME NEW i \in 1 .. Len(s) - 1 PROVE c[s2[i]] = IF i < k THEN L[i] ELSE L[i + 1]
    <2>1. i \in 1 .. Len(s) /\ i + 1 \in 1 .. Len(s)
      BY <1>1
    <2>2. L[i] = c[s[i]] /\ L[i + 1] = c[s[i + 1]]
      BY <1>4, <2>1
    <2> QED BY <1>2, <2>2
  <1> QED BY <1>3, <1>5, <1>6, <1>7

\* drop_remove of the k-th record that is listed.
LEMMA RemoveKeeps ==
  ASSUME NEW s, NEW t, NEW B, Rings(list, used, s, t), count = Len(s), Table(hash, cidr, s, B),
         NEW k \in 1 .. Len(s), drop_remove(s[k]),
         NEW s2, s2 = Without(s, k), NEW t2, t2 = Append(t, s[k])
  PROVE  /\ Rings(list', used', s2, t2) /\ count' = Len(s2)
         /\ \E B2 : Table(hash', cidr', s2, B2)
         /\ Moves(s, t, s2, t2)
  <1>1. s \in Seq(Pool) /\ t \in Seq(Pool) /\ Once(s) /\ s[k] \in Pool
    BY DEF Rings, Both
  <1>2. /\ hash' = vg_hlist_del(hash, s[k])
        /\ list' = vg_list_add_tail(vg_list_del(list, s[k]), s[k], Free)
        /\ count' = count - 1 /\ cidr' = cidr /\ used' = used
    BY DEF drop_remove
  <1>3. InHand(vg_list_del(list, s[k]), used, s2, t, s[k])
    BY DelAll
  <1>4. Rings(list', used', s2, t2)
    BY <1>2, <1>3, AddFree, Zenon
  <1>5. Len(s2) = Len(s) - 1 /\ Len(t2) = Len(t) + 1
    BY <1>1, WithoutIs, AppendIs, SMTT(60)
  <1>6. count' = Len(s2)
    BY <1>2, <1>5
  <1>7. \E B2 : Table(hash', cidr', s2, B2)
    BY <1>1, <1>2, RemoveTable
  <1>8. Moves(s, t, s2, t2)
    <2>1. Names(s2, cidr') = Without(Names(s, cidr), k)
      BY <1>1, <1>2, NamesWithout, SMTT(60)
    <2>2. k \in DOMAIN Names(s, cidr) /\ Names(s, cidr)[k] = cidr[s[k]]
      BY DEF Names
    <2>3. cidr[s[k]] \in Cidrs
      <3>1. Has(s, s[k])
        BY DEF Has
      <3> QED BY <3>1 DEF Table
    <2> QED BY <1>2, <1>5, <2>1, <2>2, <2>3 DEF Moves
  <1> QED BY <1>4, <1>6, <1>7, <1>8

LEMMA NoWalk ==
  ASSUME NEW s, NEW t, NEW B, Shape(s, t, B), pos = All, NEW s2, UNCHANGED walk
  PROVE  Walk(s2, pos', ahead', walked', todo')
  BY DEF Shape, Walk, walk

LEMMA UndropKeeps ==
  ASSUME Induction, NEW s, NEW t, NEW B, Shape(s, t, B), NEW p \in Cidrs, vg_ctrl_undrop(p)
  PROVE  Kept(s, t)
  <1>1. /\ Rings(list, used, s, t) /\ count = Len(s) /\ Table(hash, cidr, s, B)
        /\ pos = All /\ drops_find(p) # Null /\ drop_remove(drops_find(p)) /\ UNCHANGED walk
    BY DEF Shape, vg_ctrl_undrop
  <1>2. Has(s, drops_find(p))
    BY <1>1, FindIs
  <1>3. PICK k \in 1 .. Len(s) : s[k] = drops_find(p)
    BY <1>2 DEF Has
  <1>4. drop_remove(s[k])
    BY <1>1, <1>3
  <1>5. PICK s2, t2 : s2 = Without(s, k) /\ t2 = Append(t, s[k])
    BY Zenon
  <1>6. /\ Rings(list', used', s2, t2) /\ count' = Len(s2)
        /\ \E B2 : Table(hash', cidr', s2, B2)
        /\ Moves(s, t, s2, t2)
    BY <1>1, <1>4, <1>5, RemoveKeeps, Zenon
  <1>7. Walk(s2, pos', ahead', walked', todo')
    BY <1>1, NoWalk
  <1>8. PICK B2 : Table(hash', cidr', s2, B2)
    BY <1>6
  <1>9. Shape(s2, t2, B2)'
    BY <1>6, <1>7, <1>8 DEF Shape
  <1> QED BY <1>6, <1>9 DEF Kept

LEMMA AddKeeps ==
  ASSUME Induction, NEW s, NEW t, NEW B, Shape(s, t, B), NEW p \in Cidrs, NEW ok \in BOOLEAN, drop_add(p, ok)
  PROVE  Kept(s, t)
  <1>1. /\ Rings(list, used, s, t) /\ count = Len(s) /\ Table(hash, cidr, s, B)
        /\ s \in Seq(Pool) /\ cidr \in [Pool -> Cidrs \cup {Null}]
    BY SMTT(60) DEF Shape, Rings, Both, Table
  <1>2. /\ pos = All /\ drops_find(p) = Null /\ drop_alloc.r # Null
        /\ used' = drop_alloc.used /\ UNCHANGED walk
    BY Zenon DEF drop_add
  <1>3. PICK r : r = drop_alloc.r
    OBVIOUS
  <1>4. \A x : Has(s, x) => cidr[x] # p
    BY <1>1, <1>2, FindIs
  <1>5. PICK t1 : /\ InHand(drop_alloc.list, drop_alloc.used, s, t1, r)
                  /\ \/ Len(t) > 0 /\ Len(t1) = Len(t) - 1 /\ drop_alloc.used = used
                     \/ Len(t) = 0 /\ Len(t1) = 0 /\ used < Cap /\ drop_alloc.used = used + 1
    BY <1>1, <1>2, <1>3, AllocIs
  <1>6. r \in Pool /\ ~Has(s, r) /\ t1 \in Seq(Pool)
    <2>1. Both(drop_alloc.list, drop_alloc.used, s, t1) /\ r \in 1 .. drop_alloc.used /\ ~Has(s, r)
      BY <1>5 DEF InHand
    <2> QED BY <2>1, Apart DEF Both
  <1>7. CASE ok
    <2>1. /\ cidr' = [cidr EXCEPT ![r] = p]
          /\ hash' = vg_hlist_add_head(hash, r, Hash[p])
          /\ list' = vg_list_add_tail(drop_alloc.list, r, All)
          /\ count' = count + 1
      BY <1>3, <1>7 DEF drop_add
    <2>2. PICK s2 : s2 = Append(s, r)
      BY Zenon
    <2>3. Rings(list', used', s2, t1)
      BY <1>2, <1>5, <2>1, <2>2, AddAll, ZenonT(60)
    <2>4. count' = Len(s2)
      BY <1>1, <2>1, <2>2
    <2>5. PICK B2 : Table(hash', cidr', s2, B2)
      BY <1>1, <1>4, <1>6, <2>1, <2>2, AddTable, Zenon
    <2>6. Walk(s2, pos', ahead', walked', todo')
      BY <1>2, NoWalk
    <2>7. Moves(s, t, s2, t1)
      <3>1. Names(s2, cidr') = Append(Names(s, cidr), p)
        <4>1. cidr' = Renamed(cidr, r, p)
          BY <2>1 DEF Renamed
        <4>2. Names(Append(s, r), Renamed(cidr, r, p)) = Append(Names(s, cidr), p)
          <5>1. s \in Seq(Pool) /\ cidr \in [Pool -> Cidrs \cup {Null}] /\ r \in Pool /\ ~Has(s, r)
            BY <1>1, <1>6, SMTT(60)
          <5> QED BY <5>1, NamesAppend, Zenon
        <4> QED BY <2>2, <4>1, <4>2, Zenon
      <3>2. \A i \in DOMAIN Names(s, cidr) : Names(s, cidr)[i] # p
        <4>1. \A i \in 1 .. Len(s) : Has(s, s[i])
          BY DEF Has
        <4> QED BY <1>4, <4>1, Zenon DEF Names
      <3>3. Taken(t, t1, 0)
        BY <1>2, <1>5 DEF Taken
      <3> QED BY <3>1, <3>2, <3>3 DEF Moves
    <2>8. Shape(s2, t1, B2)'
      BY <2>3, <2>4, <2>5, <2>6 DEF Shape
    <2> QED BY <2>7, <2>8, SMTT(60) DEF Kept
  <1>8. CASE ~ok
    <2>1. /\ list' = vg_list_add_tail(drop_alloc.list, r, Free)
          /\ cidr' = cidr /\ hash' = hash /\ count' = count
      BY <1>3, <1>8 DEF drop_add
    <2>2. PICK t2 : t2 = Append(t1, r)
      BY Zenon
    <2>3. Rings(list', used', s, t2)
      BY <1>2, <1>5, <2>1, <2>2, AddFree, Zenon
    <2>4. Walk(s, pos', ahead', walked', todo')
      BY <1>2, NoWalk
    <2>5. Moves(s, t, s, t2)
      <3>1. Len(t2) = Len(t1) + 1
        BY <1>6, <2>2
      <3>2. Len(t) \in Nat
        BY <1>1 DEF Rings, Both
      <3>3. Taken(t, t2, 1)
        BY <1>2, <1>5, <3>1, <3>2 DEF Taken
      <3> QED BY <2>1, <3>3 DEF Moves
    <2>6. Shape(s, t2, B)'
      BY <1>1, <2>1, <2>3, <2>4 DEF Shape
    <2> QED BY <2>5, <2>6, SMTT(60) DEF Kept
  <1> QED BY <1>7, <1>8, SMTT(60)

\* Lists with no record.
LEMMA EmptyIs ==
  /\ <<>> \in Seq(Pool) /\ Len(<<>>) = 0 /\ Once(<<>>)
  /\ \A r : ~Has(<<>>, r)
  /\ \A h, i : At(h, <<>>, i) = h
  BY DEF Once, Has, At

LEMMA EmptyRings ==
  ASSUME NEW l \in Links, l.next[All] = All, l.prev[All] = All, l.next[Free] = Free, l.prev[Free] = Free
  PROVE  Rings(l, 0, <<>>, <<>>)
  <1>1. Ring(l, All, <<>>) /\ Ring(l, Free, <<>>)
    BY EmptyIs DEF Ring
  <1>2. 0 \in 0 .. Cap
    BY PoolIs
  <1> QED BY <1>1, <1>2, EmptyIs DEF Rings, Both

LEMMA EmptyTable ==
  ASSUME NEW h \in Heads, \A b \in Buckets : h.first[b] = Null, NEW c \in [Pool -> Cidrs \cup {Null}]
  PROVE  \E B : Table(h, c, <<>>, B)
  <1> DEFINE B == [b \in Buckets |-> <<>>]
  <1>1. B \in [Buckets -> Seq(Pool)] /\ \A b \in Buckets : B[b] = <<>>
    BY EmptyIs
  <1> HIDE DEF B
  <1>2. \A b \in Buckets : Chain(h, b, <<>>)
    BY EmptyIs, SMTT(60) DEF Chain
  <1>3. Table(h, c, <<>>, B)
    BY <1>1, <1>2, EmptyIs DEF Table
  <1> QED BY <1>3

LEMMA ResetKeeps ==
  ASSUME NEW s, NEW t, NEW B, Shape(s, t, B), drops_reset
  PROVE  Kept(s, t)
  <1>1. list \in Links /\ hash \in Heads /\ cidr \in [Pool -> Cidrs \cup {Null}]
    BY DEF Shape, Rings, Both, Table
  <1>2. /\ pos = All
        /\ hash' = [hash EXCEPT !.first = [b \in Buckets |-> Null]]
        /\ list' = [list EXCEPT !.next[Free] = Free, !.prev[Free] = Free,
                                !.next[All] = All, !.prev[All] = All]
        /\ used' = 0 /\ count' = 0 /\ cidr' = cidr /\ UNCHANGED walk
    BY DEF drops_reset
  <1>3. All \in Node /\ Free \in Node /\ Node \subseteq Places /\ All # Free /\ Null \in Record
    BY PoolIs, SMTT(60) DEF Node, Places, Ends, Record
  <1>4. /\ list' \in Links
        /\ list'.next[All] = All /\ list'.prev[All] = All
        /\ list'.next[Free] = Free /\ list'.prev[Free] = Free
    <2>1. list' = [next |-> [list.next EXCEPT ![Free] = Free, ![All] = All],
                   prev |-> [list.prev EXCEPT ![Free] = Free, ![All] = All]]
      BY <1>1, <1>2, Zenon DEF Links
    <2>2. list.next \in [Node -> Places] /\ list.prev \in [Node -> Places]
      BY <1>1 DEF Links
    <2> QED BY <1>3, <2>1, <2>2 DEF Links
  <1>5. hash' \in Heads /\ \A b \in Buckets : hash'.first[b] = Null
    BY <1>1, <1>2, <1>3 DEF Heads
  <1>6. PICK B2 : Table(hash', cidr', <<>>, B2)
    BY <1>1, <1>2, <1>5, EmptyTable, Zenon
  <1>7. Rings(list', used', <<>>, <<>>)
    BY <1>2, <1>4, EmptyRings, Zenon
  <1>8. Walk(<<>>, pos', ahead', walked', todo')
    BY <1>2, NoWalk
  <1>9. Shape(<<>>, <<>>, B2)'
    BY <1>2, <1>6, <1>7, <1>8, EmptyIs DEF Shape
  <1>10. Moves(s, t, <<>>, <<>>)
    <2>1. Names(<<>>, cidr') = <<>>
      BY EmptyIs, SMTT(60) DEF Names
    <2> QED BY <1>2, <2>1, EmptyIs DEF Moves
  <1> QED BY <1>9, <1>10 DEF Kept

\* The pointers a walk follows.
LEMMA Follows ==
  ASSUME NEW l, NEW u, NEW s, NEW t, Rings(l, u, s, t)
  PROVE  /\ l.next[All] = At(All, s, 1)
         /\ \A k \in 1 .. Len(s) : l.next[s[k]] = At(All, s, k + 1)
  <1>1. s \in Seq(Pool) /\ Once(s) /\ Ring(l, All, s)
    BY DEF Rings, Both
  <1>2. At(All, s, 0) = All /\ \A k \in 1 .. Len(s) : At(All, s, k) = s[k]
    BY <1>1, AtIs
  <1>3. 0 \in 0 .. Len(s) /\ 0 + 1 = 1 /\ \A k \in 1 .. Len(s) : k \in 0 .. Len(s)
    BY <1>1
  <1> QED BY <1>1, <1>2, <1>3 DEF Ring

LEMMA SameMoves ==
  ASSUME NEW s, NEW t, UNCHANGED <<cidr, used>>
  PROVE  Moves(s, t, s, t)
  BY DEF Moves

LEMMA BeginKeeps ==
  ASSUME Induction, NEW s, NEW t, NEW B, Shape(s, t, B), WalkBegin
  PROVE  Kept(s, t)
  <1>1. /\ Rings(list, used, s, t) /\ count = Len(s) /\ Table(hash, cidr, s, B)
        /\ s \in Seq(Pool) /\ walked \in Seq(Pool) /\ (pos = All => walked = <<>>)
    BY DEF Shape, Rings, Both, Walk
  <1>2. /\ pos = All /\ Listed # <<>> /\ pos' = list.next[All] /\ ahead' = list.next[pos']
        /\ todo' = Listed /\ UNCHANGED <<list, hash, cidr, used, count, walked>>
    BY DEF WalkBegin, records
  <1>3. Listed = s
    BY <1>1, RingsAre, SMTT(60) DEF Listed
  <1>4. Len(s) \in Nat /\ 1 \in 1 .. Len(s) /\ s[1] \in Pool
    BY <1>1, <1>2, <1>3, SMTT(60)
  <1>5. pos' = s[1] /\ ahead' = At(All, s, 1 + 1)
    <2>1. At(All, s, 1) = s[1]
      BY <1>4 DEF At
    <2>2. /\ list.next[All] = At(All, s, 1)
          /\ \A k \in 1 .. Len(s) : list.next[s[k]] = At(All, s, k + 1)
      BY <1>1, Follows, Zenon
    <2>3. pos' = s[1]
      BY <1>2, <2>1, <2>2, Zenon
    <2>4. list.next[s[1]] = At(All, s, 1 + 1)
      BY <1>4, <2>2, Zenon
    <2> QED BY <1>2, <2>3, <2>4, Zenon
  <1>6. walked' = <<>> /\ todo' = s
    BY <1>1, <1>2, <1>3
  <1>7. AtRecord(s, pos', ahead', walked', todo', 1)
    <2>1. Len(<<>>) = 0
      OBVIOUS
    <2>2. Len(s) = 0 + Len(s) - 1 + 1 /\ \A i \in 1 .. Len(s) : 0 + i - 1 + 1 = i
      BY <1>4
    <2> QED BY <1>5, <1>6, <2>1, <2>2 DEF AtRecord
  <1>8. pos' # All
    BY <1>4, <1>5, PoolIs
  <1>9. Walk(s, pos', ahead', walked', todo')
    <2>1. walked' \in Seq(Pool) /\ todo' \in Seq(Pool)
      BY <1>1, <1>6, SMTT(60)
    <2> QED BY <1>4, <1>7, <1>8, <2>1 DEF Walk
  <1>10. Shape(s, t, B)'
    BY <1>1, <1>2, <1>9, ZenonT(60) DEF Shape
  <1>11. Moves(s, t, s, t)
    BY <1>2, SameMoves, SMTT(60)
  <1> QED BY <1>10, <1>11 DEF Kept

\* A walk goes on from the k-th record of s to the m-th of the list that its
\* turn has left.
LEMMA GoesOn ==
  ASSUME NEW s \in Seq(Pool), NEW k \in 1 .. Len(s), AtRecord(s, pos, ahead, walked, todo, k),
         walked \in Seq(Pool), todo \in Seq(Pool),
         NEW s2 \in Seq(Pool), NEW m \in 1 .. Len(s2) + 1, Len(s2) - m = Len(s) - k - 1,
         \A i \in m .. Len(s2) : s2[i] = s[i - m + k + 1],
         NEW t2, Rings(list', used', s2, t2), Advance,
         IF pos' = All THEN walked' = <<>> /\ todo' = <<>>
         ELSE walked' = Append(walked, pos) /\ UNCHANGED todo
  PROVE  Walk(s2, pos', ahead', walked', todo')
  <1>1. Len(s) \in Nat /\ Len(s2) \in Nat /\ Len(walked) \in Nat
    BY SMTT(60)
  <1>2. /\ pos = s[k] /\ pos \in Pool /\ ahead = At(All, s, k + 1)
        /\ Len(todo) = Len(walked) + Len(s) - k + 1
        /\ \A i \in 1 .. Len(walked) : todo[i] = walked[i]
        /\ \A i \in k .. Len(s) : todo[Len(walked) + i - k + 1] = s[i]
    BY SMTT(60) DEF AtRecord
  <1>3. pos' = ahead /\ ahead' = list'.next[pos']
    BY Zenon DEF Advance
  <1>4. CASE m = Len(s2) + 1
    <2>1. ahead = All
      BY <1>1, <1>2, <1>4, SMTT(60) DEF At
    <2>2. walked' = <<>> /\ todo' = <<>> /\ pos' = All
      BY <1>3, <2>1, ZenonT(60)
    <2> QED BY <2>2, EmptyIs, SMTT(60) DEF Walk
  <1>5. CASE m # Len(s2) + 1
    <2>1. m \in 1 .. Len(s2) /\ k + 1 \in 1 .. Len(s) /\ m - m + k + 1 = k + 1
      BY <1>1, <1>5, SMTT(60)
    <2>2. ahead = s2[m] /\ s2[m] \in Pool
      <3>1. m \in m .. Len(s2)
        BY ONLY <1>1, <2>1
      <3>2. s2[m] = s[k + 1]
        <4>1. s2[m] = s[m - m + k + 1]
          BY <3>1, Zenon
        <4> QED BY ONLY <2>1, <4>1, Zenon
      <3> QED BY <1>2, <2>1, <3>2, SMTT(60) DEF At
    <2>3. pos' = s2[m] /\ pos' # All
      BY <1>3, <2>2, PoolIs, ZenonT(60)
    <2>4. ahead' = At(All, s2, m + 1)
      <3>1. /\ list'.next[All] = At(All, s2, 1)
            /\ \A i \in 1 .. Len(s2) : list'.next[s2[i]] = At(All, s2, i + 1)
        <4>1. Rings(list', used', s2, t2)
          OBVIOUS
        <4> QED BY ONLY <4>1, Follows, Zenon
      <3>2. list'.next[s2[m]] = At(All, s2, m + 1)
        BY <2>1, <3>1, Zenon
      <3> QED BY <1>3, <2>3, <3>2, Zenon
    <2>5. PICK w \in Seq(Pool) : /\ w = walked' /\ Len(w) = Len(walked) + 1
                                 /\ w[Len(walked) + 1] = pos
                                 /\ \A i \in 1 .. Len(walked) : w[i] = walked[i]
      <3>1. walked \in Seq(Pool) /\ pos \in Pool /\ walked' = Append(walked, pos)
        BY <1>2, <2>3, ZenonT(60)
      <3>2. /\ walked' \in Seq(Pool) /\ Len(walked') = Len(walked) + 1
            /\ walked'[Len(walked) + 1] = pos
            /\ \A i \in 1 .. Len(walked) : walked'[i] = walked[i]
        BY ONLY <3>1, AppendIs, SMTT(60)
      <3> QED BY <3>2, Zenon
    <2>6. todo' = todo
      BY <2>3, SMTT(60)
    <2>7. Len(todo) = Len(w) + Len(s2) - m + 1
      <3>1. Len(todo) = Len(walked) + Len(s) - k + 1 /\ Len(w) = Len(walked) + 1
        BY <1>2, <2>5, SMTT(60)
      <3>2. Len(s2) = Len(s) - k - 1 + m
        BY <1>1, SMTT(60)
      <3> QED BY <1>1, <3>1, <3>2, SMTT(60)
    <2>8. ASSUME NEW i \in 1 .. Len(w) PROVE todo[i] = w[i]
      <3>1. CASE i = Len(walked) + 1
        <4>1. k \in k .. Len(s) /\ Len(walked) + k - k + 1 = i
          BY <1>1, <3>1, SMTT(60)
        <4> QED BY <1>2, <2>5, <3>1, <4>1, SMTT(60)
      <3>2. CASE i # Len(walked) + 1
        <4>1. i \in 1 .. Len(walked)
          BY <1>1, <2>5, <3>2, SMTT(60)
        <4> QED BY <1>2, <2>5, <4>1, SMTT(60)
      <3> QED BY <3>1, <3>2, SMTT(60)
    <2>9. ASSUME NEW i \in m .. Len(s2) PROVE todo[Len(w) + i - m + 1] = s2[i]
      <3>1. PICK j \in k .. Len(s) : j = i - m + k + 1
        BY <1>1, SMTT(60)
      <3>2. Len(walked) + j - k + 1 = Len(w) + i - m + 1
        BY <1>1, <2>5, <3>1, SMTT(60)
      <3>3. todo[Len(walked) + j - k + 1] = s[j] /\ s2[i] = s[j]
        BY <1>2, <3>1, SMTT(60)
      <3> QED BY <3>2, <3>3, ZenonT(60)
    <2>10. AtRecord(s2, pos', ahead', walked', todo', m)
      BY <2>3, <2>4, <2>5, <2>6, <2>7, <2>8, <2>9 DEF AtRecord
    <2> QED BY <2>1, <2>3, <2>5, <2>6, <2>10, SMTT(60) DEF Walk
  <1> QED BY <1>4, <1>5, ZenonT(60)

LEMMA StepKeeps ==
  ASSUME NEW s, NEW t, NEW B, Shape(s, t, B), NEW lift \in BOOLEAN, WalkStep(lift)
  PROVE  Kept(s, t)
  <1>1. /\ Rings(list, used, s, t) /\ count = Len(s) /\ Table(hash, cidr, s, B)
        /\ s \in Seq(Pool) /\ walked \in Seq(Pool) /\ todo \in Seq(Pool) /\ Once(s)
    BY DEF Shape, Rings, Both, Walk
  <1>2. /\ pos # All /\ Advance
        /\ IF pos' = All THEN walked' = <<>> /\ todo' = <<>>
           ELSE walked' = Append(walked, pos) /\ UNCHANGED todo
    BY DEF WalkStep
  <1>3. PICK k \in 1 .. Len(s) : AtRecord(s, pos, ahead, walked, todo, k)
    BY <1>2 DEF Shape, Walk
  <1>4. Len(s) \in Nat
    BY <1>1
  <1>5. CASE lift
    <2>1. drop_remove(s[k])
      <3>1. pos = s[k]
        BY <1>3 DEF AtRecord
      <3> QED BY <1>5, <3>1 DEF WalkStep
    <2>2. PICK s2, t2 : s2 = Without(s, k) /\ t2 = Append(t, s[k])
      BY Zenon
    <2>3. /\ Rings(list', used', s2, t2) /\ count' = Len(s2)
          /\ \E B2 : Table(hash', cidr', s2, B2)
          /\ Moves(s, t, s2, t2)
      BY <1>1, <2>1, <2>2, RemoveKeeps, Zenon
    <2>4. s2 \in Seq(Pool) /\ Len(s2) = Len(s) - 1
      BY <1>1, <2>2, WithoutIs, Zenon
    <2>5. \A i \in 1 .. Len(s) - 1 : s2[i] = IF i < k THEN s[i] ELSE s[i + 1]
      BY <2>2 DEF Without
    <2>6. k \in 1 .. Len(s2) + 1 /\ Len(s2) - k = Len(s) - k - 1
      BY <1>4, <2>4
    <2>7. ASSUME NEW i \in k .. Len(s2) PROVE s2[i] = s[i - k + k + 1]
      <3>1. i \in 1 .. Len(s) - 1 /\ ~(i < k) /\ i - k + k + 1 = i + 1
        BY <1>4, <2>4, SMTT(60)
      <3> QED BY <2>5, <3>1
    <2>8. Walk(s2, pos', ahead', walked', todo')
      BY <1>1, <1>2, <1>3, <2>3, <2>4, <2>6, <2>7, GoesOn, Zenon
    <2>9. PICK B2 : Table(hash', cidr', s2, B2)
      BY <2>3
    <2>10. Shape(s2, t2, B2)'
      BY <2>3, <2>8, <2>9 DEF Shape
    <2> QED BY <2>3, <2>10 DEF Kept
  <1>6. CASE ~lift
    <2>1. UNCHANGED <<list, hash, cidr, used, count>>
      BY <1>6 DEF WalkStep, records
    <2>2. Rings(list', used', s, t)
      BY <1>1, <2>1
    <2>3. k + 1 \in 1 .. Len(s) + 1 /\ Len(s) - (k + 1) = Len(s) - k - 1
      BY <1>4
    <2>4. ASSUME NEW i \in k + 1 .. Len(s) PROVE s[i] = s[i - (k + 1) + k + 1]
      <3>1. i - (k + 1) + k + 1 = i
        BY <1>4, SMTT(60)
      <3> QED BY <3>1
    <2>5. Walk(s, pos', ahead', walked', todo')
      BY <1>1, <1>2, <1>3, <2>2, <2>3, <2>4, GoesOn, Zenon
    <2>6. Shape(s, t, B)'
      BY <1>1, <2>1, <2>5 DEF Shape
    <2>7. Moves(s, t, s, t)
      BY <2>1, SameMoves
    <2> QED BY <2>6, <2>7 DEF Kept
  <1> QED BY <1>5, <1>6

LEMMA NextKeeps ==
  ASSUME Induction, NEW s, NEW t, NEW B, Shape(s, t, B), [Next]_vars
  PROVE  Kept(s, t)
  <1>1. CASE UNCHANGED vars
    <2>1. Shape(s, t, B)'
      BY <1>1 DEF vars, records, walk, Shape
    <2>2. Moves(s, t, s, t)
      BY <1>1, SameMoves DEF vars, records
    <2> QED BY <2>1, <2>2 DEF Kept
  <1>2. CASE Next
    BY <1>2, AddKeeps, UndropKeeps, ResetKeeps, BeginKeeps, StepKeeps DEF Next
  <1> QED BY <1>1, <1>2

LEMMA InitShape ==
  ASSUME Init
  PROVE  \E B : Shape(<<>>, <<>>, B)
  <1>1. /\ list = [next |-> [n \in Node |-> IF n \in Pool THEN Null ELSE n],
                   prev |-> [n \in Node |-> IF n \in Pool THEN Null ELSE n]]
        /\ hash = [first |-> [b \in Buckets |-> Null], next |-> [r \in Pool |-> Null],
                   pprev |-> [r \in Pool |-> First(Null)]]
        /\ cidr = [r \in Pool |-> Null] /\ used = 0 /\ count = 0
        /\ pos = All /\ walked = <<>> /\ todo = <<>>
    BY SMTT(60) DEF Init, Node
  <1>2. All \in Node /\ Free \in Node /\ All \notin Pool /\ Free \notin Pool /\ Node \subseteq Places
        /\ Null \in Record /\ Null \in Places
    BY PoolIs, SMTT(60) DEF Node, Places, Ends, Record
  <1>3. Rings(list, used, <<>>, <<>>)
    <2>1. list \in Links
      BY <1>1, <1>2, SMTT(60) DEF Links
    <2>2. list.next[All] = All /\ list.prev[All] = All /\ list.next[Free] = Free /\ list.prev[Free] = Free
      BY <1>1, <1>2
    <2> QED BY <1>1, <2>1, <2>2, EmptyRings, SMTT(60)
  <1>4. PICK B : Table(hash, cidr, <<>>, B)
    <2>1. hash \in Heads
      <3>1. First(Null) \in Place
        BY PlaceIs
      <3> QED BY ONLY <1>1, <1>2, <3>1, SMTT(60) DEF Heads
    <2>2. \A b \in Buckets : hash.first[b] = Null
      BY <1>1, SMTT(60)
    <2>3. cidr \in [Pool -> Cidrs \cup {Null}]
      BY <1>1, SMTT(60)
    <2> QED BY <2>1, <2>2, <2>3, EmptyTable, SMTT(60)
  <1>5. Walk(<<>>, pos, ahead, walked, todo)
    BY <1>1, EmptyIs, SMTT(60) DEF Walk
  <1>6. Shape(<<>>, <<>>, B)
    BY <1>1, <1>3, <1>4, <1>5, EmptyIs DEF Shape
  <1> QED BY <1>6, SMTT(60)

----------------------------------------------------------------------------
(***************************************************************************)
(* What the shape of the lists says of a step's readers.                   *)
(***************************************************************************)

LEMMA Agree ==
  ASSUME Induction, IInv
  PROVE  ListsAgree
  <1>1. PICK s, t, B : Shape(s, t, B)
    BY DEF IInv
  <1>2. /\ Rings(list, used, s, t) /\ count = Len(s) /\ Table(hash, cidr, s, B)
        /\ s \in Seq(Pool) /\ Ring(list, All, s) /\ Once(s)
    BY <1>1 DEF Shape, Rings, Both
  <1>3. Listed = s /\ DOMAIN s = 1 .. Len(s)
    BY <1>2, RingsAre, SMTT(60) DEF Listed
  <1>4. ASSUME NEW i \in 1 .. Len(s)
        PROVE  /\ list.prev[list.next[s[i]]] = s[i]
               /\ s[i] \in 1 .. used
               /\ drops_find(cidr[s[i]]) = s[i]
    <2>1. Has(s, s[i])
      BY SMTT(60) DEF Has
    <2>2. list.prev[list.next[s[i]]] = s[i]
      <3>1. i \in 0 .. Len(s) /\ At(All, s, i) = s[i]
        BY DEF At
      <3> QED BY <1>2, <3>1, Zenon DEF Ring
    <2>3. s[i] \in 1 .. used
      BY <1>2, <2>1 DEF Rings, Both
    <2>4. cidr[s[i]] \in Cidrs
      BY <1>2, <2>1, SMTT(60) DEF Table
    <2>5. Has(s, drops_find(cidr[s[i]])) /\ cidr[drops_find(cidr[s[i]])] = cidr[s[i]]
      BY <1>2, <2>1, <2>4, FindIs, ZenonT(60)
    <2> QED BY <1>2, <2>1, <2>2, <2>3, <2>5, Zenon DEF Table
  <1>5. ASSUME NEW b \in Buckets
        PROVE  Bucket(b) = B[b] /\ DOMAIN B[b] = 1 .. Len(B[b])
    <2>1. Bucket(b) = B[b]
      BY <1>2, BucketIs, ZenonT(60) DEF Bucket
    <2>2. B[b] \in Seq(Pool)
      BY <1>2, SMTT(60) DEF Table
    <2> QED BY <2>1, <2>2, SMTT(60)
  <1>6. ASSUME NEW b \in Buckets, NEW i \in 1 .. Len(B[b])
        PROVE  /\ hash.pprev[B[b][i]] = IF i = 1 THEN First(b) ELSE NextOf(B[b][i - 1])
               /\ Hash[cidr[B[b][i]]] = b
               /\ \E j \in 1 .. Len(s) : s[j] = B[b][i]
    <2>1. PICK c \in Seq(Pool) : c = B[b]
      BY <1>2 DEF Table
    <2>2. c[i] \in Pool /\ Has(c, c[i])
      BY <2>1 DEF Has
    <2>3. Has(s, c[i]) /\ Hash[cidr[c[i]]] = b
      BY <1>2, <2>1, <2>2, SMTT(60) DEF Table
    <2>4. hash.pprev[c[i]] = Back(b, c, i)
      BY <1>2, <2>1, Zenon DEF Table, Chain
    <2> QED BY <2>1, <2>3, <2>4 DEF Back, Has
  <1>7. ASSUME NEW b \in Buckets
        PROVE  \A i \in DOMAIN Bucket(b) :
                 /\ hash.pprev[Bucket(b)[i]] = IF i = 1 THEN First(b) ELSE NextOf(Bucket(b)[i - 1])
                 /\ Hash[cidr[Bucket(b)[i]]] = b
                 /\ \E j \in DOMAIN Listed : Listed[j] = Bucket(b)[i]
    <2>1. Bucket(b) = B[b] /\ DOMAIN B[b] = 1 .. Len(B[b]) /\ Listed = s /\ DOMAIN s = 1 .. Len(s)
      BY <1>3, <1>5, SMTT(60)
    <2>2. ASSUME NEW i \in 1 .. Len(B[b])
          PROVE  /\ hash.pprev[Bucket(b)[i]] = IF i = 1 THEN First(b) ELSE NextOf(Bucket(b)[i - 1])
                 /\ Hash[cidr[Bucket(b)[i]]] = b
                 /\ \E j \in DOMAIN Listed : Listed[j] = Bucket(b)[i]
      BY <1>6, <2>1, SMTT(60)
    <2> QED BY <2>1, <2>2, Zenon
  <1>8. ASSUME NEW i \in DOMAIN Listed
        PROVE  /\ list.prev[list.next[Listed[i]]] = Listed[i]
               /\ Listed[i] \in 1 .. used
               /\ drops_find(cidr[Listed[i]]) = Listed[i]
    BY <1>3, <1>4, Zenon
  <1>9. Len(Listed) = count
    BY <1>2, <1>3, SMTT(60)
  <1> QED BY <1>7, <1>8, <1>9, Zenon DEF ListsAgree

LEMMA Meets ==
  ASSUME Induction, IInv
  PROVE  WalkMeetsAll
  <1> SUFFICES ASSUME pos # All PROVE walked \o <<pos>> \o Nodes(list.next, ahead, All) = todo
    BY DEF WalkMeetsAll
  <1>1. PICK s, t, B : Shape(s, t, B)
    BY SMTT(60) DEF IInv
  <1>2. /\ Rings(list, used, s, t) /\ s \in Seq(Pool)
        /\ walked \in Seq(Pool) /\ todo \in Seq(Pool)
    BY <1>1 DEF Shape, Rings, Both, Walk
  <1>3. PICK k \in 1 .. Len(s) : AtRecord(s, pos, ahead, walked, todo, k)
    BY <1>1, SMTT(60) DEF Shape, Walk
  <1>4. /\ pos = s[k] /\ pos \in Pool /\ ahead = At(All, s, k + 1)
        /\ Len(todo) = Len(walked) + Len(s) - k + 1
        /\ \A i \in 1 .. Len(walked) : todo[i] = walked[i]
        /\ \A i \in k .. Len(s) : todo[Len(walked) + i - k + 1] = s[i]
    BY <1>2, <1>3 DEF AtRecord
  <1>5. Len(s) \in Nat /\ Len(walked) \in Nat /\ Len(todo) \in Nat /\ k + 1 \in 1 .. Len(s) + 1
    BY <1>2
  <1>6. PICK m \in 1 .. Len(s) + 1 : m = k + 1
    BY <1>5, SMTT(60)
  <1>7. PICK q \in Seq(Pool) : /\ q = Nodes(list.next, ahead, All)
                               /\ Len(q) = Len(s) - m + 1
                               /\ \A i \in 1 .. Len(s) - m + 1 : q[i] = s[i + m - 1]
    <2>1. Nodes(list.next, ahead, All) = Rest(s, m)
      BY <1>2, <1>4, <1>6, RingsAre, ZenonT(60)
    <2>2. /\ Rest(s, m) \in Seq(Pool) /\ Len(Rest(s, m)) = Len(s) - m + 1
          /\ \A i \in 1 .. Len(s) - m + 1 : Rest(s, m)[i] = s[i + m - 1]
      BY <1>2, RestIs
    <2> QED BY <2>1, <2>2, SMTT(60)
  <1>8. PICK w \in Seq(Pool) : /\ w = walked \o <<pos>> /\ Len(w) = Len(walked) + 1
                               /\ w[Len(walked) + 1] = pos
                               /\ \A i \in 1 .. Len(walked) : w[i] = walked[i]
    <2>3. <<pos>> \in Seq(Pool) /\ Len(<<pos>>) = 1 /\ <<pos>>[1] = pos
      BY <1>4
    <2>1. PICK u \in Seq(Pool) : u = <<pos>> /\ Len(u) = 1 /\ u[1] = pos
      BY <2>3, Zenon
    <2>2. /\ walked \o u \in Seq(Pool) /\ Len(walked \o u) = Len(walked) + 1
          /\ (walked \o u)[Len(walked) + 1] = pos
          /\ \A i \in 1 .. Len(walked) : (walked \o u)[i] = walked[i]
      BY <1>2, <1>5, <2>1
    <2> QED BY <2>1, <2>2, Zenon
  <1>9. w \o q \in Seq(Pool) /\ Len(w \o q) = Len(w) + Len(q)
        /\ (\A i \in 1 .. Len(w) : (w \o q)[i] = w[i])
        /\ \A i \in 1 .. Len(q) : (w \o q)[Len(w) + i] = q[i]
    OBVIOUS
  <1>10. Len(w \o q) = Len(todo)
    <2>1. Len(w \o q) = Len(w) + Len(q) /\ Len(q) = Len(s) - m + 1 /\ Len(w) = Len(walked) + 1
          /\ Len(todo) = Len(walked) + Len(s) - k + 1
      BY <1>4, <1>7, <1>8, <1>9, Zenon
    <2> QED BY <1>5, <1>6, <2>1, SMTT(60)
  <1>11. ASSUME NEW i \in 1 .. Len(todo) PROVE (w \o q)[i] = todo[i]
    <2>1. CASE i <= Len(walked)
      BY <1>4, <1>5, <1>8, <1>9, <2>1, SMTT(60)
    <2>2. CASE i = Len(walked) + 1
      <3>1. k \in k .. Len(s) /\ Len(walked) + k - k + 1 = i
        BY <1>5, <2>2
      <3>2. todo[i] = pos
        BY <1>4, <3>1, SMTT(60)
      <3>3. i \in 1 .. Len(w) /\ w[i] = pos
        BY <1>5, <1>8, <2>2
      <3> QED BY <1>9, <3>2, <3>3
    <2>3. CASE i > Len(walked) + 1
      <3>1. PICK j \in 1 .. Len(q) : i = Len(w) + j
        <4>1. i - Len(w) \in 1 .. Len(q) /\ i = Len(w) + (i - Len(w))
          BY <1>4, <1>5, <1>6, <1>7, <1>8, <2>3, SMTT(60)
        <4> QED BY <4>1, Zenon
      <3>2. PICK n \in k .. Len(s) : n = j + m - 1 /\ Len(walked) + n - k + 1 = i
        BY <1>5, <1>6, <1>7, <1>8, <3>1, SMTT(60)
      <3>3. q[j] = s[n] /\ todo[i] = s[n]
        BY <1>4, <1>7, <3>2, ZenonT(60)
      <3> QED BY <1>9, <3>1, <3>3
    <2>4. i <= Len(walked) \/ i = Len(walked) + 1 \/ i > Len(walked) + 1
      BY <1>5
    <2> QED BY <2>1, <2>2, <2>3, <2>4, Zenon
  <1>12. w \o q = todo
    BY <1>2, <1>9, <1>10, <1>11, SameSeq, ZenonT(60)
  <1> QED BY <1>7, <1>8, <1>12

----------------------------------------------------------------------------
(***************************************************************************)
(* The refinement of DropSet.                                              *)
(***************************************************************************)

LEMMA MappedIs ==
  ASSUME Induction, NEW s, NEW t, Rings(list, used, s, t)
  PROVE  Prefixes = Names(s, cidr) /\ Len(Lifted) = Len(t)
  <1>1. Listed = s /\ Lifted = t /\ s \in Seq(Pool)
    BY RingsAre DEF Listed, Lifted, Rings, Both
  <1>2. DOMAIN s = 1 .. Len(s)
    BY <1>1
  <1>3. Prefixes = [i \in DOMAIN s |-> cidr[s[i]]]
    BY <1>1, Zenon DEF Prefixes
  <1>4. Prefixes = [i \in 1 .. Len(s) |-> cidr[s[i]]]
    BY <1>2, <1>3, Zenon
  <1> QED BY <1>1, <1>4, Zenon DEF Names

LEMMA MappedNext ==
  ASSUME Induction, NEW s, NEW t, Rings(list', used', s, t)
  PROVE  Prefixes' = Names(s, cidr') /\ Len(Lifted)' = Len(t)
  <1>1. Listed' = s /\ Lifted' = t /\ s \in Seq(Pool)
    BY RingsAre DEF Listed, Lifted, Rings, Both
  <1>2. DOMAIN s = 1 .. Len(s)
    BY <1>1
  <1>3. Prefixes' = [i \in DOMAIN s |-> cidr'[s[i]]]
    BY <1>1, Zenon DEF Prefixes
  <1>4. Prefixes' = [i \in 1 .. Len(s) |-> cidr'[s[i]]]
    BY <1>2, <1>3, Zenon
  <1> QED BY <1>1, <1>4, Zenon DEF Names

LEMMA StepRefines ==
  ASSUME Induction, NEW s, NEW t, NEW s2, NEW t2,
         Rings(list, used, s, t), Rings(list', used', s2, t2), Moves(s, t, s2, t2)
  PROVE  [Abstract!Next]_(Abstract!vars)
  <1>1. Prefixes = Names(s, cidr) /\ Len(Lifted) = Len(t)
    BY MappedIs
  <1>2. Prefixes' = Names(s2, cidr') /\ Len(Lifted)' = Len(t2)
    BY MappedNext
  <1>3. ASSUME NEW back, Taken(t, t2, back) PROVE Abstract!Take(back)
    BY <1>1, <1>2, <1>3 DEF Taken, Abstract!Take
  <1>4. \A k : Without(Prefixes, k) = Abstract!Without(Prefixes, k)
    BY DEF Without, Abstract!Without
  <1>5. CASE Prefixes' = Prefixes /\ used' = used /\ Len(t2) = Len(t)
    BY <1>1, <1>2, <1>5 DEF Abstract!vars
  <1>6. ASSUME NEW p \in Cidrs, \A i \in DOMAIN Prefixes : Prefixes[i] # p,
               Prefixes' = Append(Prefixes, p), Taken(t, t2, 0)
        PROVE  Abstract!Next
    BY <1>3, <1>6 DEF Abstract!Next, Abstract!Add
  <1>7. CASE Prefixes' = Prefixes /\ Taken(t, t2, 1)
    BY <1>3, <1>7 DEF Abstract!Next, Abstract!AddFails
  <1>8. ASSUME NEW p \in Cidrs, NEW k \in DOMAIN Prefixes, Prefixes[k] = p,
               Prefixes' = Without(Prefixes, k), Len(t2) = Len(t) + 1, used' = used
        PROVE  Abstract!Next
    BY <1>1, <1>2, <1>4, <1>8 DEF Abstract!Next, Abstract!Lift
  <1>9. CASE Prefixes' = <<>> /\ used' = 0 /\ Len(t2) = 0
    BY <1>2, <1>9 DEF Abstract!Next, Abstract!Forget
  <1> QED BY <1>1, <1>2, <1>5, <1>6, <1>7, <1>8, <1>9 DEF Moves

----------------------------------------------------------------------------
(***************************************************************************)
(* Induction holds.  The well-founded orders it follows from are brought   *)
(* in here and not above, where no lemma needs them.                       *)
(***************************************************************************)
INSTANCE WellFoundedInduction

\* Every set of naturals that is not empty has a least element.
LEMMA Least ==
  ASSUME NEW T \in SUBSET Nat, T # {}
  PROVE  \E n \in T : \A m \in T : n <= m
  <1> DEFINE R == OpToRel(<, Nat)
  <1>1. IsWellFoundedOn(R, Nat)
    BY NatLessThanWellFounded, Zenon
  <1>2. PICK n \in T : \A m \in T : <<m, n>> \notin R
    <2> HIDE DEF R
    <2> QED BY <1>1, WFMin, Zenon
  <1>3. \A m \in T : <<m, n>> \in R <=> m < n
    BY DEF OpToRel
  <1> HIDE DEF R
  <1>4. \A m \in T : ~(m < n)
    BY <1>2, <1>3, Zenon
  <1> QED BY <1>4

\* The naturals are those that induction reaches.
LEMMA NatInduct == Induction
  <1> SUFFICES ASSUME NEW T \in SUBSET Nat, 0 \in T, \A n \in T : n + 1 \in T PROVE T = Nat
    BY DEF Induction
  <1> SUFFICES ASSUME Nat \ T # {} PROVE FALSE
    BY Zenon
  <1>1. PICK n \in Nat \ T : \A m \in Nat \ T : n <= m
    BY Least, Zenon
  <1>2. n # 0 /\ n - 1 \in Nat
    BY <1>1
  <1>3. n - 1 \in T
    BY <1>1, <1>2
  <1> QED BY <1>1, <1>2, <1>3

----------------------------------------------------------------------------
(***************************************************************************)
(* Theorems.                                                               *)
(***************************************************************************)

\* Every list is the one its sequence of records says, and a walk is at one of
\* those of drop_all: from Init, and through drop_add, drop_remove, drops_reset
\* and every turn of vg_list_for_each_safe.
THEOREM Invariance == Spec => []IInv
  <1>1. Init => IInv
    BY InitShape DEF IInv
  <1>2. IInv /\ [Next]_vars => IInv'
    <2> SUFFICES ASSUME IInv, [Next]_vars PROVE IInv'
      OBVIOUS
    <2>1. PICK s, t, B : Shape(s, t, B)
      BY DEF IInv
    <2>2. Kept(s, t)
      BY <2>1, NextKeeps, NatInduct
    <2> QED BY <2>2 DEF Kept, IInv
  <1> QED BY <1>1, <1>2, PTL DEF Spec

\* vg_ctrl_drops_check holds at every moment, for a pool and a table of any
\* size and whatever prefixes share a bucket.
THEOREM LinksAgree == Spec => []ListsAgree
  <1>1. IInv => ListsAgree
    BY Agree, NatInduct
  <1> QED BY <1>1, Invariance, PTL

\* vg_list_for_each_safe comes to every record, for a list of any length and
\* whichever of its records the turns lift.
THEOREM WalksMeetAll == Spec => []WalkMeetsAll
  <1>1. IInv => WalkMeetsAll
    BY Meets, NatInduct
  <1> QED BY <1>1, Invariance, PTL

\* The pointers of drop_add, drop_remove, drops_reset and the walks implement
\* the list of prefixes and the pool that DropSet describes.
THEOREM Refines == Spec => IsDropSet
  <1>1. Init => Abstract!Init
    <2> SUFFICES ASSUME Init PROVE Abstract!Init
      OBVIOUS
    <2>1. PICK B : Shape(<<>>, <<>>, B)
      BY InitShape
    <2>2. Prefixes = Names(<<>>, cidr) /\ Len(Lifted) = Len(<<>>)
      BY <2>1, MappedIs, NatInduct DEF Shape
    <2>3. Prefixes = <<>> /\ Len(Lifted) = 0
      BY <2>2, EmptyIs DEF Names
    <2> QED BY <2>3 DEF Abstract!Init, Init
  <1>2. IInv /\ [Next]_vars => [Abstract!Next]_(Abstract!vars)
    <2> SUFFICES ASSUME IInv, [Next]_vars PROVE [Abstract!Next]_(Abstract!vars)
      OBVIOUS
    <2>1. PICK s, t, B : Shape(s, t, B)
      BY DEF IInv
    <2>2. PICK s2, t2, B2 : Shape(s2, t2, B2)' /\ Moves(s, t, s2, t2)
      BY <2>1, NextKeeps, NatInduct DEF Kept
    <2>3. Rings(list, used, s, t) /\ Rings(list', used', s2, t2)
      BY <2>1, <2>2 DEF Shape
    <2> QED BY <2>2, <2>3, StepRefines, NatInduct
  <1> QED BY <1>1, <1>2, Invariance, PTL DEF Spec, IsDropSet, Abstract!Spec
=============================================================================
