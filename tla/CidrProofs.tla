------------------------------ MODULE CidrProofs ------------------------------
(***************************************************************************)
(* Theorems about Cidr, for numbers of any length, prefixes of every       *)
(* family, and bytes and addresses of every length.                        *)
(***************************************************************************)
EXTENDS Cidr, WellFoundedInduction, TLAPS

(***************************************************************************)
(* Induction and loops.                                                    *)
(*                                                                         *)
(* A loop of the program is a function defined by recursion on the number  *)
(* of its turns.  That such a function exists, and what holds of all its   *)
(* values, follows from induction on the naturals, in the form that every  *)
(* set of them that is not empty has a least element.                      *)
(***************************************************************************)

LEMMA Least ==
  ASSUME NEW T \in SUBSET Nat, T # {}
  PROVE  \E n \in T : \A m \in T : n <= m
  <1> DEFINE R == OpToRel(<, Nat)
  <1>1. IsWellFoundedOn(R, Nat)
    BY NatLessThanWellFounded, Zenon
  <1>2. PICK n \in T : \A m \in T : <<m, n>> \notin R
    <2> HIDE DEF R
    <2> QED BY <1>1, WFMin, Zenon
  <1>3. \A m \in T : <<m, n>> \in R <=> m < n
    BY DEF OpToRel
  <1> HIDE DEF R
  <1>4. \A m \in T : ~(m < n)
    BY <1>2, <1>3, Zenon
  <1> QED BY <1>4

\* Induction, for the set of the numbers that have a property.
LEMMA Induct ==
  ASSUME NEW T \in SUBSET Nat, 0 \in T, \A n \in T : n + 1 \in T
  PROVE  T = Nat
  <1> SUFFICES ASSUME Nat \ T # {} PROVE FALSE
    BY Zenon
  <1>1. PICK n \in Nat \ T : \A m \in Nat \ T : n <= m
    BY Least, Zenon
  <1>2. n # 0 /\ n - 1 \in Nat
    BY <1>1
  <1>3. n - 1 \in T
    BY <1>1, <1>2
  <1> QED BY <1>1, <1>2, <1>3

\* A loop that runs N times, from base, and keeps its state in S; and the
\* states it has after each turn.
IsLoop(S, N, base, step) == N \in Nat /\ base \in S /\ step \in [1 .. N -> [S -> S]]

Runs(S, k, base, step, g) ==
  /\ g \in [0 .. k -> S]
  /\ g[0] = base
  /\ \A n \in 1 .. k : g[n] = step[n][g[n - 1]]

LEMMA LoopExists ==
  ASSUME NEW S, NEW N, NEW base, NEW step, IsLoop(S, N, base, step)
  PROVE  \E g : Runs(S, N, base, step, g)
  <1> DEFINE T == {k \in Nat : k <= N => \E g : Runs(S, k, base, step, g)}
  <1> USE DEF IsLoop, Runs
  <1>1. 0 \in T
    <2>1. Runs(S, 0, base, step, [n \in 0 .. 0 |-> base])
      OBVIOUS
    <2> QED BY <2>1, Zenon
  <1>2. ASSUME NEW k \in T PROVE k + 1 \in T
    <2> SUFFICES ASSUME k + 1 <= N PROVE \E g : Runs(S, k + 1, base, step, g)
      BY <1>2
    <2>1. PICK g : Runs(S, k, base, step, g)
      BY <1>2
    <2> DEFINE h == [n \in 0 .. k + 1 |-> IF n = k + 1 THEN step[n][g[k]] ELSE g[n]]
    <2>2. k + 1 \in 1 .. N /\ k \in 0 .. k /\ k \in Nat
      BY <1>2
    <2>3. g[k] \in S /\ step[k + 1] \in [S -> S]
      BY <2>1, <2>2
    <2>4. h \in [0 .. k + 1 -> S] /\ h[0] = base
      BY <2>1, <2>2, <2>3
    <2>5. ASSUME NEW n \in 1 .. k + 1 PROVE h[n] = step[n][h[n - 1]]
      <3>1. CASE n = k + 1
        BY <2>2, <3>1
      <3>2. CASE n # k + 1
        <4>1. n \in 1 .. k /\ n - 1 \in 0 .. k /\ n \in 0 .. k + 1 /\ n - 1 \in 0 .. k + 1
              /\ n - 1 # k + 1
          BY <2>2, <3>2
        <4> QED BY <2>1, <3>2, <4>1
      <3> QED BY <3>1, <3>2
    <2>6. Runs(S, k + 1, base, step, h)
      BY <2>4, <2>5, Zenon
    <2> QED BY <2>6, Zenon
  <1>3. T = Nat
    <2> HIDE DEF T
    <2>1. T \in SUBSET Nat
      BY DEF T
    <2> QED BY <1>1, <1>2, <2>1, Induct
  <1>4. \E g : Runs(S, N, base, step, g)
    BY <1>3, SMTT(60)
  <1> QED BY <1>4

\* Induction up to a bound.
LEMMA InductTo ==
  ASSUME NEW N \in Nat, NEW T, 0 \in T, \A n \in 1 .. N : n - 1 \in T => n \in T
  PROVE  \A n \in 0 .. N : n \in T
  <1> DEFINE U == {n \in Nat : n <= N => n \in T}
  <1>1. 0 \in U
    OBVIOUS
  <1>2. \A n \in U : n + 1 \in U
    <2> SUFFICES ASSUME NEW n \in U, n + 1 <= N PROVE n + 1 \in T
      OBVIOUS
    <2>1. n \in T /\ n + 1 \in 1 .. N /\ (n + 1) - 1 = n
      OBVIOUS
    <2> QED BY <2>1
  <1>3. U = Nat
    <2> HIDE DEF U
    <2>1. U \in SUBSET Nat
      BY DEF U
    <2> QED BY <1>1, <1>2, <2>1, Induct
  <1> QED BY <1>3
----------------------------------------------------------------------------
(***************************************************************************)
(* Digits.                                                                 *)
(***************************************************************************)
DigitRows == Seq(0 .. 9)

\* w is what the digits say, the first n of them each time; v is what a loop
\* has read of them that gives up once it has more than the limit.
Says(d, w) ==
  /\ w \in [0 .. Len(d) -> Nat]
  /\ w[0] = 0
  /\ \A n \in 1 .. Len(d) : w[n] = w[n - 1] * 10 + d[n]

ReadsTo(limit, d, w, v) ==
  /\ v[0] = 0
  /\ \A n \in 1 .. Len(d) :
       IF v[n - 1] = Refused \/ v[n - 1] > limit THEN v[n] = Refused
       ELSE v[n - 1] = w[n - 1] => v[n] = w[n]

LEMMA DecimalIs ==
  ASSUME NEW d \in DigitRows
  PROVE  \E v : Says(d, v) /\ Decimal(d) = v[Len(d)]
  <1> DEFINE N == Len(d)
             Turn(g) == [n \in 0 .. N |-> IF n = 0 THEN 0 ELSE g[n - 1] * 10 + d[n]]
             v == CHOOSE g : g = Turn(g)
             step == [n \in 1 .. N |-> [x \in Nat |-> x * 10 + d[n]]]
  <1>1. Decimal(d) = v[N]
    BY Zenon DEF Decimal
  <1>2. N \in Nat /\ \A n \in 1 .. N : d[n] \in Nat
    BY DEF DigitRows
  <1>3. IsLoop(Nat, N, 0, step)
    <2>1. \A n \in 1 .. N : [x \in Nat |-> x * 10 + d[n]] \in [Nat -> Nat]
      BY <1>2
    <2> QED BY <1>2, <2>1 DEF IsLoop
  <1>4. PICK g : Runs(Nat, N, 0, step, g)
    <2> HIDE DEF step, N
    <2> QED BY <1>3, LoopExists, Zenon
  <1>5. g = Turn(g)
    <2>1. g \in [0 .. N -> Nat] /\ g[0] = 0 /\ \A n \in 1 .. N : g[n] = step[n][g[n - 1]]
      <3> HIDE DEF step, N
      <3> QED BY <1>4, Zenon DEF Runs
    <2>2. ASSUME NEW n \in 1 .. N PROVE g[n] = g[n - 1] * 10 + d[n]
      <3>1. n - 1 \in 0 .. N
        BY <1>2
      <3> QED BY <2>1, <3>1, Zenon
    <2> HIDE DEF step
    <2> QED BY <1>2, <2>1, <2>2
  <1>6. v = Turn(v)
    <2> HIDE DEF Turn
    <2> QED BY <1>5
  <1> HIDE DEF v
  <1>7. v[0] = 0 /\ \A n \in 1 .. N : v[n] = v[n - 1] * 10 + d[n]
    BY <1>2, <1>6
  <1>8. \A n \in 0 .. N : v[n] \in Nat
    <2> DEFINE T == {n \in 0 .. N : v[n] \in Nat}
    <2>1. 0 \in T
      BY <1>2, <1>7
    <2>2. ASSUME NEW n \in 1 .. N, n - 1 \in T PROVE n \in T
      <3>1. n \in 0 .. N /\ v[n - 1] \in Nat /\ d[n] \in Nat
        BY <1>2, <2>2
      <3>2. v[n - 1] * 10 + d[n] \in Nat
        BY <3>1
      <3>3. v[n] = v[n - 1] * 10 + d[n]
        BY <1>7, Zenon
      <3> QED BY <3>1, <3>2, <3>3, Zenon
    <2> HIDE DEF T, N
    <2>3. \A n \in 0 .. N : n \in T
      BY <1>2, <2>1, <2>2, InductTo, Zenon
    <2> QED BY <2>3 DEF T
  <1>9. v \in [0 .. N -> Nat]
    <2>1. v = [n \in 0 .. N |-> v[n]]
      BY <1>6
    <2> QED BY <1>8, <2>1
  <1> QED BY <1>1, <1>7, <1>9 DEF Says

\* The loop of parse_ttl.
LEMMA TtlIs ==
  ASSUME NEW d \in DigitRows
  PROVE  \E v : /\ v[0] = 0
                /\ \A n \in 1 .. Len(d) : v[n] = TtlDigit(v[n - 1], d[n])
                /\ parse_ttl(d) = IF v[Len(d)] \in 1 .. MaxTtl THEN v[Len(d)] ELSE Refused
  <1> DEFINE N == Len(d)
             Turn(g) == [n \in 0 .. N |-> IF n = 0 THEN 0 ELSE TtlDigit(g[n - 1], d[n])]
             v == CHOOSE g : g = Turn(g)
             step == [n \in 1 .. N |-> [x \in Int |-> TtlDigit(x, d[n])]]
  <1>1. parse_ttl(d) = IF v[N] \in 1 .. MaxTtl THEN v[N] ELSE Refused
    BY Zenon DEF parse_ttl
  <1>2. N \in Nat /\ \A n \in 1 .. N : d[n] \in Nat
    BY DEF DigitRows
  <1>3. IsLoop(Int, N, 0, step)
    <2>1. \A n \in 1 .. N : \A x \in Int : TtlDigit(x, d[n]) \in Int
      BY <1>2, CidrAssumption DEF TtlDigit, Refused
    <2>2. \A n \in 1 .. N : [x \in Int |-> TtlDigit(x, d[n])] \in [Int -> Int]
      BY <2>1
    <2>3. step \in [1 .. N -> [Int -> Int]]
      BY <2>2, Zenon
    <2> HIDE DEF step
    <2> QED BY <1>2, <2>3 DEF IsLoop
  <1>4. PICK g : Runs(Int, N, 0, step, g)
    <2> HIDE DEF step, N
    <2> QED BY <1>3, LoopExists, Zenon
  <1>5. g = Turn(g)
    <2>1. g \in [0 .. N -> Int] /\ g[0] = 0 /\ \A n \in 1 .. N : g[n] = step[n][g[n - 1]]
      <3> HIDE DEF step, N
      <3> QED BY <1>4, Zenon DEF Runs
    <2>2. ASSUME NEW n \in 1 .. N PROVE g[n] = TtlDigit(g[n - 1], d[n])
      <3>1. n - 1 \in 0 .. N
        BY <1>2
      <3> QED BY <2>1, <3>1, SMTT(60)
    <2> HIDE DEF step
    <2> QED BY <1>2, <2>1, <2>2
  <1>6. v = Turn(v)
    <2> HIDE DEF Turn
    <2> QED BY <1>5
  <1> HIDE DEF v
  <1>7. v[0] = 0 /\ \A n \in 1 .. N : v[n] = TtlDigit(v[n - 1], d[n])
    BY <1>2, <1>6
  <1> QED BY <1>1, <1>7

\* The loop of vg_parse_cidr_len over the digits of a length.
LEMMA PlenIs ==
  ASSUME NEW d \in DigitRows, NEW f
  PROVE  \E v : /\ v[0] = 0
                /\ \A n \in 1 .. Len(d) : v[n] = PlenDigit(v[n - 1], d[n])
                /\ prefixlen(f, d) = IF d = <<>> \/ v[Len(d)] > Bits(f) THEN Refused ELSE v[Len(d)]
  <1> DEFINE N == Len(d)
             Turn(g) == [n \in 0 .. N |-> IF n = 0 THEN 0 ELSE PlenDigit(g[n - 1], d[n])]
             v == CHOOSE g : g = Turn(g)
             step == [n \in 1 .. N |-> [x \in Int |-> PlenDigit(x, d[n])]]
  <1>1. prefixlen(f, d) = IF d = <<>> \/ v[N] > Bits(f) THEN Refused ELSE v[N]
    BY Zenon DEF prefixlen
  <1>2. N \in Nat /\ \A n \in 1 .. N : d[n] \in Nat
    BY DEF DigitRows
  <1>3. IsLoop(Int, N, 0, step)
    <2>1. \A n \in 1 .. N : \A x \in Int : PlenDigit(x, d[n]) \in Int
      BY <1>2, CidrAssumption DEF PlenDigit, Refused
    <2>2. \A n \in 1 .. N : [x \in Int |-> PlenDigit(x, d[n])] \in [Int -> Int]
      BY <2>1
    <2>3. step \in [1 .. N -> [Int -> Int]]
      BY <2>2, Zenon
    <2> HIDE DEF step
    <2> QED BY <1>2, <2>3 DEF IsLoop
  <1>4. PICK g : Runs(Int, N, 0, step, g)
    <2> HIDE DEF step, N
    <2> QED BY <1>3, LoopExists, Zenon
  <1>5. g = Turn(g)
    <2>1. g \in [0 .. N -> Int] /\ g[0] = 0 /\ \A n \in 1 .. N : g[n] = step[n][g[n - 1]]
      <3> HIDE DEF step, N
      <3> QED BY <1>4, Zenon DEF Runs
    <2>2. ASSUME NEW n \in 1 .. N PROVE g[n] = PlenDigit(g[n - 1], d[n])
      <3>1. n - 1 \in 0 .. N
        BY <1>2
      <3> QED BY <2>1, <3>1, SMTT(60)
    <2> HIDE DEF step
    <2> QED BY <1>2, <2>1, <2>2
  <1>6. v = Turn(v)
    <2> HIDE DEF Turn
    <2> QED BY <1>5
  <1> HIDE DEF v
  <1>7. v[0] = 0 /\ \A n \in 1 .. N : v[n] = PlenDigit(v[n - 1], d[n])
    BY <1>2, <1>6
  <1> QED BY <1>1, <1>7

\* Such a loop either has the number or has given up on one above the limit.
LEMMA GivesUp ==
  ASSUME NEW d \in DigitRows, NEW limit \in Nat, NEW v, NEW w,
         Says(d, w), ReadsTo(limit, d, w, v)
  PROVE  IF w[Len(d)] <= limit THEN v[Len(d)] = w[Len(d)]
         ELSE v[Len(d)] = Refused \/ v[Len(d)] = w[Len(d)]
  <1> USE DEF Says, ReadsTo
  <1> DEFINE N == Len(d)
             Ok(n) == IF w[n] <= limit THEN v[n] = w[n] ELSE v[n] = Refused \/ v[n] = w[n]
             T == {n \in 0 .. N : Ok(n)}
  <1>1. N \in Nat /\ \A n \in 1 .. N : d[n] \in 0 .. 9
    BY DEF DigitRows
  <1>2. 0 \in T
    BY <1>1
  <1>3. ASSUME NEW n \in 1 .. N, n - 1 \in T PROVE n \in T
    <2>1. n - 1 \in 0 .. N /\ n \in 0 .. N /\ d[n] \in 0 .. 9 /\ Ok(n - 1)
      BY <1>1, <1>3
    <2>2. w[n - 1] \in Nat /\ w[n] \in Nat /\ w[n] = w[n - 1] * 10 + d[n]
      BY <2>1, Zenon
    <2>5. w[n] >= w[n - 1]
      <3>1. d[n] \in Nat
        BY <2>1
      <3> QED BY <2>2, <3>1
    <2>3. CASE w[n - 1] <= limit
      <3>1. v[n - 1] = w[n - 1] /\ v[n - 1] # Refused /\ ~(v[n - 1] > limit)
        BY <2>1, <2>2, <2>3 DEF Refused
      <3>2. v[n] = w[n]
        BY <3>1
      <3> QED BY <2>1, <3>2
    <2>4. CASE w[n - 1] > limit
      <3>1. v[n - 1] = Refused \/ v[n - 1] > limit
        BY <2>1, <2>2, <2>4
      <3>2. v[n] = Refused
        BY <3>1
      <3>3. w[n] > limit
        BY <2>2, <2>4, <2>5
      <3> QED BY <2>1, <2>2, <3>2, <3>3
    <2> QED BY <2>2, <2>3, <2>4
  <1>4. N \in T
    <2> HIDE DEF T, N
    <2>1. N \in 0 .. N
      BY <1>1
    <2> QED BY <1>1, <1>2, <1>3, <2>1, InductTo, Zenon
  <1> QED BY <1>4

LEMMA ModIs ==
  ASSUME NEW m \in Nat \ {0}, NEW x \in 0 .. m - 1
  PROVE  x % m = x
  OBVIOUS

LEMMA StaysBelow ==
  ASSUME NEW a \in Nat, NEW b \in 0 .. 9, NEW m \in Nat, NEW u \in Nat,
         m * 10 + 9 < u, a <= m
  PROVE  a * 10 + b \in 0 .. u - 1
  OBVIOUS

\* The digits after ttl= and after a slash are read as the number they say, or
\* are refused, however many there are, and a number in range that is written as
\* documented is not refused: the 32 bits of parse_ttl and the early return of
\* vg_parse_cidr_len never let a long one wrap into the range.
THEOREM NumbersAreRight ==
  ASSUME NEW d \in DigitRows
  PROVE  Exact(d)
  <1> DEFINE N == Len(d)
             D == Decimal(d)
  <1>0. PICK w : Says(d, w) /\ D = w[N]
    BY DecimalIs, Zenon
  <1>1. /\ w \in [0 .. N -> Nat]
        /\ w[0] = 0
        /\ \A n \in 1 .. N : w[n] = w[n - 1] * 10 + d[n]
        /\ D = w[N]
    BY <1>0, Zenon DEF Says
  <1>2. N \in Nat /\ \A n \in 1 .. N : d[n] \in 0 .. 9
    BY DEF DigitRows
  <1>3. N \in 0 .. N /\ D \in Nat
    BY <1>1, <1>2
  <1>4. MaxTtl \in Nat \ {0} /\ U32 \in Nat /\ MaxTtl * 10 + 9 < U32 /\ MaxBits \in Nat
    BY CidrAssumption
  <1>5. parse_ttl(d) = IF D \in 1 .. MaxTtl THEN D ELSE Refused
    <2>1. PICK v : /\ v[0] = 0
                   /\ \A n \in 1 .. N : v[n] = TtlDigit(v[n - 1], d[n])
                   /\ parse_ttl(d) = IF v[N] \in 1 .. MaxTtl THEN v[N] ELSE Refused
      BY TtlIs, Zenon
    <2>2. ASSUME NEW n \in 1 .. N
          PROVE  IF v[n - 1] = Refused \/ v[n - 1] > MaxTtl THEN v[n] = Refused
                 ELSE v[n - 1] = w[n - 1] => v[n] = w[n]
      <3>1. n - 1 \in 0 .. N /\ w[n - 1] \in Nat /\ d[n] \in 0 .. 9
        BY <1>1, <1>2
      <3>2. CASE v[n - 1] = Refused \/ v[n - 1] > MaxTtl
        BY <2>1, <3>2 DEF TtlDigit
      <3>3. CASE ~(v[n - 1] = Refused \/ v[n - 1] > MaxTtl)
        <4> SUFFICES ASSUME v[n - 1] = w[n - 1] PROVE v[n] = w[n]
          BY <3>3
        <4>1. v[n] = (w[n - 1] * 10 + d[n]) % U32
          BY <2>1, <3>3 DEF TtlDigit
        <4>2. w[n - 1] <= MaxTtl
          BY <1>4, <3>1, <3>3
        <4> DEFINE x == w[n - 1] * 10 + d[n]
        <4>3. v[n] = x
          <5>1. MaxTtl \in Nat
            BY <1>4
          <5>2. x \in 0 .. U32 - 1
            BY <1>4, <3>1, <4>2, <5>1, StaysBelow, Zenon
          <5>3. U32 \in Nat \ {0}
            BY <1>4
          <5> HIDE DEF x
          <5>4. x % U32 = x
            BY <5>2, <5>3, ModIs, Zenon
          <5> QED BY <4>1, <5>4 DEF x
        <4> QED BY <1>1, <4>3
      <3> QED BY <3>2, <3>3
    <2>3. IF D <= MaxTtl THEN v[N] = D ELSE v[N] = Refused \/ v[N] = D
      <3> HIDE DEF N, D
      <3>1. ReadsTo(MaxTtl, d, w, v)
        BY <2>1, <2>2 DEF ReadsTo, N
      <3>2. IF w[N] <= MaxTtl THEN v[N] = w[N] ELSE v[N] = Refused \/ v[N] = w[N]
        BY <1>0, <1>4, <3>1, GivesUp DEF N
      <3> QED BY <1>1, <3>2
    <2> HIDE DEF N, D
    <2> QED BY <1>3, <1>4, <2>1, <2>3 DEF Refused
  <1>6. ASSUME NEW f \in DOMAIN Bytes
        PROVE  prefixlen(f, d) = IF d # <<>> /\ D <= Bits(f) THEN D ELSE Refused
    <2>1. PICK v : /\ v[0] = 0
                   /\ \A n \in 1 .. N : v[n] = PlenDigit(v[n - 1], d[n])
                   /\ prefixlen(f, d) = IF d = <<>> \/ v[N] > Bits(f) THEN Refused ELSE v[N]
      BY PlenIs, Zenon
    <2>2. ASSUME NEW n \in 1 .. N
          PROVE  IF v[n - 1] = Refused \/ v[n - 1] > MaxBits THEN v[n] = Refused
                 ELSE v[n - 1] = w[n - 1] => v[n] = w[n]
      BY <1>1, <2>1 DEF PlenDigit
    <2>3. IF D <= MaxBits THEN v[N] = D ELSE v[N] = Refused \/ v[N] = D
      <3> HIDE DEF N, D
      <3>1. ReadsTo(MaxBits, d, w, v)
        BY <2>1, <2>2 DEF ReadsTo, N
      <3>2. IF w[N] <= MaxBits THEN v[N] = w[N] ELSE v[N] = Refused \/ v[N] = w[N]
        BY <1>0, <1>4, <3>1, GivesUp DEF N
      <3> QED BY <1>1, <3>2
    <2>4. Bits(f) \in Nat /\ Bits(f) <= MaxBits
      BY CidrAssumption DEF Bits
    <2> HIDE DEF N, D
    <2> QED BY <1>3, <1>4, <2>1, <2>3, <2>4 DEF Refused
  <1>7. ASSUME NEW f \in DOMAIN Bytes
        PROVE  /\ prefixlen(f, d) # Refused =>
                    d # <<>> /\ prefixlen(f, d) = D /\ D <= Bits(f)
               /\ N \in 1 .. LenDigits /\ D <= Bits(f) => prefixlen(f, d) = D
    <2>1. N \in 1 .. LenDigits => d # <<>>
      BY CidrAssumption DEF DigitRows
    <2> HIDE DEF N, D
    <2> QED BY <1>6, <2>1, Zenon
  <1> QED BY <1>5, <1>7, Zenon DEF Exact
----------------------------------------------------------------------------
(***************************************************************************)
(* Powers of two, and division by them.                                    *)
(***************************************************************************)
LEMMA Halves ==
  /\ Pow2[0] = 1
  /\ \A n \in 1 .. MaxBits : Pow2[n] = 2 * Pow2[n - 1]
  /\ \A n \in 0 .. MaxBits : Pow2[n] \in Nat \ {0}
  <1> DEFINE N == MaxBits
             Turn(g) == [n \in 0 .. N |-> IF n = 0 THEN 1 ELSE 2 * g[n - 1]]
             step == [n \in 1 .. N |-> [x \in Nat |-> 2 * x]]
  <1>1. N \in Nat
    BY CidrAssumption
  <1>2. Pow2 = CHOOSE g : g = Turn(g)
    BY Zenon DEF Pow2
  <1>3. IsLoop(Nat, N, 1, step)
    <2>1. [x \in Nat |-> 2 * x] \in [Nat -> Nat]
      OBVIOUS
    <2> QED BY <1>1, <2>1 DEF IsLoop
  <1>4. PICK g : Runs(Nat, N, 1, step, g)
    <2> HIDE DEF step, N
    <2> QED BY <1>3, LoopExists, Zenon
  <1>5. g = Turn(g)
    <2>1. g \in [0 .. N -> Nat] /\ g[0] = 1 /\ \A n \in 1 .. N : g[n] = step[n][g[n - 1]]
      <3> HIDE DEF step, N
      <3> QED BY <1>4, Zenon DEF Runs
    <2>2. ASSUME NEW n \in 1 .. N PROVE g[n] = 2 * g[n - 1]
      <3>1. n - 1 \in 0 .. N
        BY <1>1
      <3> QED BY <2>1, <3>1, Zenon
    <2> HIDE DEF step
    <2> QED BY <1>1, <2>1, <2>2
  <1>6. Pow2 = Turn(Pow2)
    <2> HIDE DEF Turn
    <2> QED BY <1>2, <1>5
  <1>7. Pow2[0] = 1 /\ \A n \in 1 .. N : Pow2[n] = 2 * Pow2[n - 1]
    BY <1>1, <1>6
  <1>8. \A n \in 0 .. N : Pow2[n] \in Nat \ {0}
    <2> DEFINE T == {n \in 0 .. N : Pow2[n] \in Nat \ {0}}
    <2>1. 0 \in T /\ \A n \in 1 .. N : n - 1 \in T => n \in T
      BY <1>1, <1>7
    <2> HIDE DEF T, N
    <2>2. \A n \in 0 .. N : n \in T
      BY <1>1, <2>1, InductTo, Zenon
    <2> QED BY <2>2 DEF T
  <1> QED BY <1>7, <1>8

LEMMA PowersMultiply ==
  ASSUME NEW a \in Nat, NEW b \in Nat, a + b <= MaxBits
  PROVE  /\ Pow2[a + b] = Pow2[a] * Pow2[b]
         /\ Pow2[a] \in Nat \ {0} /\ Pow2[b] \in Nat \ {0} /\ Pow2[a + b] \in Nat \ {0}
  <1> DEFINE T == {n \in 0 .. b : Pow2[a + n] = Pow2[a] * Pow2[n]}
  <1>0. MaxBits \in Nat
    BY CidrAssumption
  <1>1. \A n \in 0 .. b : /\ n \in 0 .. MaxBits /\ a + n \in 0 .. MaxBits
                          /\ Pow2[n] \in Nat \ {0} /\ Pow2[a + n] \in Nat \ {0}
    BY <1>0, Halves
  <1>2. 0 \in 0 .. b /\ b \in 0 .. b /\ a + 0 = a
    OBVIOUS
  <1>3. Pow2[a] \in Nat \ {0}
    BY <1>1, <1>2
  <1>4. 0 \in T
    BY <1>2, <1>3, Halves
  <1>5. ASSUME NEW n \in 1 .. b, n - 1 \in T PROVE n \in T
    <2>1. /\ n \in 0 .. b /\ n - 1 \in 0 .. b /\ n \in 1 .. MaxBits
          /\ a + n \in 1 .. MaxBits /\ (a + n) - 1 = a + (n - 1)
      BY <1>0
    <2>2. Pow2[n] = 2 * Pow2[n - 1] /\ Pow2[a + n] = 2 * Pow2[a + (n - 1)]
      BY <2>1, Halves
    <2>3. Pow2[a + (n - 1)] = Pow2[a] * Pow2[n - 1] /\ Pow2[n - 1] \in Nat
      BY <1>1, <1>5, <2>1
    <2>4. Pow2[a + n] = Pow2[a] * Pow2[n]
      <3>1. \A x, y \in Nat : 2 * (x * y) = x * (2 * y)
        OBVIOUS
      <3> QED BY <1>3, <2>2, <2>3, <3>1
    <2> QED BY <2>1, <2>4
  <1>6. b \in T
    <2> HIDE DEF T
    <2> QED BY <1>2, <1>4, <1>5, InductTo, Zenon
  <1> QED BY <1>1, <1>2, <1>3, <1>6

LEMMA PowersGrow ==
  ASSUME NEW a \in Nat, NEW b \in 0 .. MaxBits, a < b
  PROVE  Pow2[a] < Pow2[b]
  <1>1. MaxBits \in Nat
    BY CidrAssumption
  <1>2. b - a \in Nat /\ a + (b - a) = b /\ b - a \in 1 .. MaxBits /\ b - a - 1 \in 0 .. MaxBits
    BY <1>1
  <1>3. Pow2[b] = Pow2[a] * Pow2[b - a] /\ Pow2[a] \in Nat \ {0}
    BY <1>1, <1>2, PowersMultiply
  <1>4. Pow2[b - a] = 2 * Pow2[b - a - 1] /\ Pow2[b - a - 1] \in Nat \ {0}
    BY <1>2, Halves
  <1>5. \A x, y \in Nat \ {0} : x < x * (2 * y)
    OBVIOUS
  <1> QED BY <1>3, <1>4, <1>5

LEMMA Divided ==
  ASSUME NEW m \in Nat \ {0}, NEW x \in Nat
  PROVE  /\ x \div m \in Nat /\ x % m \in 0 .. m - 1
         /\ x = (x \div m) * m + (x % m)
  OBVIOUS

LEMMA Quotient ==
  ASSUME NEW m \in Nat \ {0}, NEW q \in Nat, NEW r \in 0 .. m - 1, NEW x, x = q * m + r
  PROVE  x \div m = q
  OBVIOUS

LEMMA DividedTwice ==
  ASSUME NEW m \in Nat \ {0}, NEW r \in Nat \ {0}, NEW x \in Nat
  PROVE  (x \div m) \div r = x \div (m * r)
  OBVIOUS
----------------------------------------------------------------------------
(***************************************************************************)
(* An address as a number.                                                 *)
(***************************************************************************)

\* a is an address of k bytes; v is what its first bytes come to.
Address(k, a) ==
  /\ k \in Nat
  /\ ByteBits <= MaxBits /\ ByteBits * k <= MaxBits
  /\ a \in [1 .. k -> Byte]

Sums(k, a, v) ==
  /\ v \in [0 .. k -> Nat]
  /\ v[0] = 0
  /\ \A n \in 1 .. k : v[n] = v[n - 1] * Pow2[ByteBits] + a[n]

LEMMA ByteIs ==
  ASSUME ByteBits <= MaxBits
  PROVE  /\ Pow2[ByteBits] \in Nat \ {0}
         /\ \A b \in Byte : b \in Nat /\ b \in 0 .. Pow2[ByteBits] - 1
  BY CidrAssumption, Halves DEF Byte

LEMMA ValueIs ==
  ASSUME NEW k, NEW a, Address(k, a)
  PROVE  \E v : Sums(k, a, v) /\ Value(a) = v[k]
  <1> DEFINE B == Pow2[ByteBits]
             Turn(g) == [n \in 0 .. k |-> IF n = 0 THEN 0 ELSE g[n - 1] * B + a[n]]
             v == CHOOSE g : g = Turn(g)
             step == [n \in 1 .. k |-> [x \in Nat |-> x * B + a[n]]]
  <1>1. k \in Nat /\ a \in [1 .. k -> Byte] /\ ByteBits <= MaxBits
    BY DEF Address
  <1>2. Len(a) = k
    BY <1>1
  <1>3. B \in Nat /\ \A n \in 1 .. k : a[n] \in Nat
    BY <1>1, ByteIs
  <1>4. Value(a) = v[k]
    <2>1. Value(a) = (CHOOSE g : g = [n \in 0 .. Len(a) |-> IF n = 0 THEN 0
                                                            ELSE g[n - 1] * B + a[n]])[Len(a)]
      BY Zenon DEF Value
    <2> QED BY <1>2, <2>1, Zenon
  <1> HIDE DEF B
  <1>5. IsLoop(Nat, k, 0, step)
    <2>1. \A n \in 1 .. k : [x \in Nat |-> x * B + a[n]] \in [Nat -> Nat]
      BY <1>3
    <2>2. step \in [1 .. k -> [Nat -> Nat]]
      BY <2>1, Zenon
    <2> HIDE DEF step
    <2> QED BY <1>1, <2>2 DEF IsLoop
  <1>6. PICK g : Runs(Nat, k, 0, step, g)
    <2> HIDE DEF step
    <2> QED BY <1>5, LoopExists, Zenon
  <1>7. g = Turn(g)
    <2>1. g \in [0 .. k -> Nat] /\ g[0] = 0 /\ \A n \in 1 .. k : g[n] = step[n][g[n - 1]]
      <3> HIDE DEF step
      <3> QED BY <1>6, Zenon DEF Runs
    <2>2. ASSUME NEW n \in 1 .. k PROVE g[n] = g[n - 1] * B + a[n]
      <3>1. n - 1 \in 0 .. k
        BY <1>1
      <3> QED BY <2>1, <3>1, Zenon
    <2> HIDE DEF step
    <2> QED BY <1>1, <2>1, <2>2
  <1>8. v = Turn(v)
    <2> HIDE DEF Turn
    <2> QED BY <1>7
  <1> HIDE DEF v
  <1>9. v[0] = 0 /\ \A n \in 1 .. k : v[n] = v[n - 1] * B + a[n]
    BY <1>1, <1>8
  <1>10. \A n \in 0 .. k : v[n] \in Nat
    <2> DEFINE T == {n \in 0 .. k : v[n] \in Nat}
    <2>1. 0 \in T
      BY <1>1, <1>9
    <2>2. ASSUME NEW n \in 1 .. k, n - 1 \in T PROVE n \in T
      <3>1. n \in 0 .. k /\ v[n - 1] \in Nat /\ a[n] \in Nat
        BY <1>1, <1>3, <2>2
      <3>2. \A x, y, z \in Nat : x * y + z \in Nat
        OBVIOUS
      <3>3. v[n - 1] * B + a[n] \in Nat
        BY <1>3, <3>1, <3>2
      <3>4. v[n] = v[n - 1] * B + a[n]
        BY <1>9, Zenon
      <3> QED BY <3>1, <3>3, <3>4, Zenon
    <2> HIDE DEF T
    <2>3. \A n \in 0 .. k : n \in T
      BY <1>1, <2>1, <2>2, InductTo, Zenon
    <2> QED BY <2>3 DEF T
  <1>11. v \in [0 .. k -> Nat]
    <2>1. v = [n \in 0 .. k |-> v[n]]
      BY <1>8
    <2> QED BY <1>10, <2>1
  <1> QED BY <1>4, <1>9, <1>11, Zenon DEF Sums, B

LEMMA TwoDigits ==
  ASSUME NEW p \in Nat \ {0}, NEW b \in Nat \ {0}, NEW x \in Nat,
         NEW y \in 0 .. p - 1, NEW z \in 0 .. b - 1
  PROVE  /\ y * b + z \in 0 .. p * b - 1
         /\ (x * p + y) * b + z = x * (p * b) + (y * b + z)
  <1>1. y * b \in Nat /\ p * b \in Nat /\ (p - y - 1) * b \in Nat
    <2>1. \A m, n \in Nat : m * n \in Nat
      OBVIOUS
    <2>2. y \in Nat /\ p - y - 1 \in Nat
      OBVIOUS
    <2> QED BY <2>1, <2>2
  <1>2. (p - y - 1) * b = p * b - y * b - b
    OBVIOUS
  <1>3. y * b + z \in 0 .. p * b - 1
    BY <1>1, <1>2
  <1>4. (x * p + y) * b + z = x * (p * b) + (y * b + z)
    OBVIOUS
  <1> QED BY <1>3, <1>4

\* The first j bytes are what is in front of the rest r, which is less than
\* one of them, and nothing when all its bytes are 0.
Behind(k, a, v, j, r) ==
  /\ r \in 0 .. Pow2[ByteBits * (k - j)] - 1
  /\ v[k] = v[j] * Pow2[ByteBits * (k - j)] + r
  /\ (\A i \in j + 1 .. k : a[i] = 0) => (r = 0)

LEMMA FrontIs ==
  ASSUME NEW k, NEW a, NEW v, Address(k, a), Sums(k, a, v), NEW j \in 0 .. k
  PROVE  \E r : Behind(k, a, v, j, r)
  <1> DEFINE W == ByteBits
             B == Pow2[W]
             P(n) == Pow2[W * n]
             Ok(n, r) ==
               /\ r \in 0 .. P(n) - 1
               /\ v[j + n] = v[j] * P(n) + r
               /\ (\A i \in j + 1 .. j + n : a[i] = 0) => (r = 0)
             T == {n \in 0 .. k - j : \E r \in Nat : Ok(n, r)}
  <1>1. k \in Nat /\ a \in [1 .. k -> Byte] /\ W \in Nat \ {0} /\ W <= MaxBits /\ W * k <= MaxBits
        /\ MaxBits \in Nat
    BY CidrAssumption DEF Address
  <1>2. v \in [0 .. k -> Nat] /\ \A n \in 1 .. k : v[n] = v[n - 1] * B + a[n]
    BY DEF Sums
  <1>3. B \in Nat \ {0} /\ \A b \in Byte : b \in Nat /\ b \in 0 .. B - 1
    BY <1>1, ByteIs
  <1>4. ASSUME NEW n \in 0 .. k PROVE W * n \in Nat /\ W * n <= W * k
    <2>1. \A x, y, z \in Nat : x <= y => z * x \in Nat /\ z * x <= z * y
      OBVIOUS
    <2> QED BY <1>1, <2>1
  <1>5. ASSUME NEW n \in 1 .. k PROVE P(n) = P(n - 1) * B /\ P(n - 1) \in Nat \ {0}
    <2>1. n \in 0 .. k /\ n - 1 \in 0 .. k
      BY <1>1
    <2>2. W * (n - 1) \in Nat /\ W * (n - 1) + W = W * n /\ W * n <= MaxBits
      BY <1>1, <1>4, <2>1
    <2> QED BY <1>1, <2>2, PowersMultiply, Zenon
  <1>6. 0 \in T
    <2>1. W * 0 = 0 /\ j + 0 = j /\ v[j] \in Nat /\ 0 \in 0 .. k - j
      BY <1>1, <1>2
    <2>2. P(0) = 1
      BY <2>1, Halves
    <2>3. Ok(0, 0)
      BY <2>1, <2>2
    <2> QED BY <2>1, <2>3
  <1>7. ASSUME NEW n \in 1 .. k - j, n - 1 \in T PROVE n \in T
    <2>1. PICK r \in Nat : Ok(n - 1, r)
      BY <1>7
    <2>2. /\ n \in 1 .. k /\ j + n \in 1 .. k /\ (j + n) - 1 = j + (n - 1) /\ n \in 0 .. k - j
          /\ j + (n - 1) \in 0 .. k
      BY <1>1
    <2>3. P(n) = P(n - 1) * B /\ P(n - 1) \in Nat \ {0}
      BY <1>5, <2>2
    <2>4. v[j + n] = v[j + (n - 1)] * B + a[j + n] /\ a[j + n] \in 0 .. B - 1
      BY <1>1, <1>2, <1>3, <2>2
    <2>5. v[j] \in Nat
      BY <1>2
    <2> DEFINE s == r * B + a[j + n]
    <2>6. s \in 0 .. P(n - 1) * B - 1 /\ v[j + n] = v[j] * (P(n - 1) * B) + s
      <3>1. r \in 0 .. P(n - 1) - 1 /\ v[j + (n - 1)] = v[j] * P(n - 1) + r
        BY <2>1
      <3> QED BY <1>3, <2>3, <2>4, <2>5, <3>1, TwoDigits
    <2>7. (\A i \in j + 1 .. j + n : a[i] = 0) => s = 0
      <3> SUFFICES ASSUME \A i \in j + 1 .. j + n : a[i] = 0 PROVE s = 0
        OBVIOUS
      <3>1. j + n \in j + 1 .. j + n /\ \A i \in j + 1 .. j + (n - 1) : i \in j + 1 .. j + n
        BY <1>1
      <3>2. r = 0 /\ a[j + n] = 0
        BY <2>1, <3>1
      <3> QED BY <1>3, <3>2
    <2>8. s \in Nat
      BY <1>3, <2>1, <2>4
    <2>9. Ok(n, s)
      BY <2>3, <2>6, <2>7
    <2> QED BY <2>2, <2>8, <2>9
  <1>8. k - j \in T
    <2> HIDE DEF T
    <2>1. k - j \in Nat /\ k - j \in 0 .. k - j
      BY <1>1
    <2> QED BY <1>6, <1>7, <2>1, InductTo, Zenon
  <1>9. j + (k - j) = k
    BY <1>1
  <1>10. PICK r \in Nat : Ok(k - j, r)
    BY <1>8
  <1>11. Behind(k, a, v, j, r)
    BY <1>9, <1>10 DEF Behind
  <1> QED BY <1>11

\* Equal first bytes, equal numbers.
LEMMA SumsAgree ==
  ASSUME NEW k, NEW a, NEW v, Address(k, a), Sums(k, a, v),
         NEW b, NEW w, Address(k, b), Sums(k, b, w), NEW j \in 0 .. k
  PROVE  v[j] = w[j] <=> \A i \in 1 .. j : a[i] = b[i]
  <1> DEFINE B == Pow2[ByteBits]
             T == {n \in 0 .. k : v[n] = w[n] <=> \A i \in 1 .. n : a[i] = b[i]}
  <1>1. k \in Nat /\ a \in [1 .. k -> Byte] /\ b \in [1 .. k -> Byte] /\ ByteBits <= MaxBits
    BY DEF Address
  <1>2. /\ v \in [0 .. k -> Nat] /\ v[0] = 0 /\ \A n \in 1 .. k : v[n] = v[n - 1] * B + a[n]
        /\ w \in [0 .. k -> Nat] /\ w[0] = 0 /\ \A n \in 1 .. k : w[n] = w[n - 1] * B + b[n]
    BY DEF Sums
  <1>3. B \in Nat \ {0} /\ \A x \in Byte : x \in 0 .. B - 1
    BY <1>1, ByteIs
  <1> HIDE DEF B
  <1>4. 0 \in T
    BY <1>1, <1>2
  <1>5. ASSUME NEW n \in 1 .. k, n - 1 \in T PROVE n \in T
    <2>1. n - 1 \in 0 .. k /\ n \in 0 .. k
      BY <1>1
    <2>2. v[n - 1] \in Nat /\ w[n - 1] \in Nat /\ a[n] \in 0 .. B - 1 /\ b[n] \in 0 .. B - 1
      BY <1>1, <1>2, <1>3, <2>1, Zenon
    <2>3. v[n] = v[n - 1] * B + a[n] /\ w[n] = w[n - 1] * B + b[n]
      BY <1>2
    <2>4. v[n] \div B = v[n - 1] /\ w[n] \div B = w[n - 1]
      <3>1. B \in Nat \ {0}
        BY <1>3
      <3>2. \A q \in Nat, r \in 0 .. B - 1 : (q * B + r) \div B = q
        BY <3>1, Quotient
      <3> QED BY <2>2, <2>3, <3>2, Zenon
    <2>5. v[n] = w[n] <=> v[n - 1] = w[n - 1] /\ a[n] = b[n]
      <3>1. v[n] = w[n] => v[n - 1] = w[n - 1]
        BY <2>4, Zenon
      <3>2. v[n - 1] = w[n - 1] => (v[n] = w[n] <=> a[n] = b[n])
        <4>1. \A c \in Nat, d, e \in 0 .. B - 1 : c + d = c + e <=> d = e
          BY <1>3
        <4>2. \A x, y \in Nat : x * y \in Nat
          OBVIOUS
        <4> QED BY <1>3, <2>2, <2>3, <4>1, <4>2, SMTT(60)
      <3> QED BY <3>1, <3>2
    <2>6. v[n - 1] = w[n - 1] <=> \A i \in 1 .. n - 1 : a[i] = b[i]
      BY <1>5
    <2>7. (\A i \in 1 .. n : a[i] = b[i]) <=> (\A i \in 1 .. n - 1 : a[i] = b[i]) /\ a[n] = b[n]
      BY <2>1
    <2> QED BY <2>1, <2>5, <2>6, <2>7
  <1>6. \A n \in 0 .. k : n \in T
    <2> HIDE DEF T
    <2> QED BY <1>1, <1>4, <1>5, InductTo, Zenon
  <1> QED BY <1>6

\* Two addresses of one length are the same if their numbers are.
LEMMA ValuesTell ==
  ASSUME NEW k, NEW a, NEW b, Address(k, a), Address(k, b), Value(a) = Value(b)
  PROVE  a = b
  <1>1. PICK v : Sums(k, a, v) /\ Value(a) = v[k]
    BY ValueIs, Zenon
  <1>2. PICK w : Sums(k, b, w) /\ Value(b) = w[k]
    BY ValueIs, Zenon
  <1>3. k \in 0 .. k /\ a \in [1 .. k -> Byte] /\ b \in [1 .. k -> Byte]
    BY DEF Address
  <1>4. v[k] = w[k] <=> \A i \in 1 .. k : a[i] = b[i]
    BY <1>1, <1>2, <1>3, SumsAgree
  <1>5. \A i \in 1 .. k : a[i] = b[i]
    BY <1>1, <1>2, <1>4, Zenon
  <1> QED BY <1>3, <1>5

\* len bits are j whole bytes and rem bits of one more.
Cut(k, len, j, rem) ==
  /\ len \in 0 .. ByteBits * k
  /\ j = len \div ByteBits /\ rem = len % ByteBits
  /\ j \in 0 .. k /\ rem \in 0 .. ByteBits - 1
  /\ len = ByteBits * j + rem
  /\ rem # 0 => j < k

LEMMA CutIs ==
  ASSUME NEW k \in Nat, NEW len \in 0 .. ByteBits * k
  PROVE  Cut(k, len, len \div ByteBits, len % ByteBits)
  <1> DEFINE W == ByteBits
             j == len \div W
             rem == len % W
  <1>1. W \in Nat \ {0} /\ W * k \in Nat
    <2>1. \A x, y \in Nat : x * y \in Nat
      OBVIOUS
    <2> QED BY <2>1, CidrAssumption
  <1>2. len \in Nat
    BY <1>1
  <1>3. j \in Nat /\ rem \in 0 .. W - 1 /\ len = j * W + rem
    BY <1>1, <1>2, Divided, Zenon
  <1> HIDE DEF j, rem
  <1>4. j <= k
    <2> SUFFICES ASSUME j >= k + 1 PROVE FALSE
      BY <1>3
    <2>1. \A x, y, z \in Nat : x >= y + 1 => x * z >= z * y + z
      OBVIOUS
    <2>2. j * W >= W * k + W
      BY <1>1, <1>3, <2>1
    <2>3. j * W \in Nat
      BY <1>1, <1>3
    <2> QED BY <1>1, <1>3, <2>2, <2>3
  <1>5. rem # 0 => j # k
    BY <1>1, <1>3
  <1>6. W * j = j * W
    BY <1>1, <1>3
  <1> QED BY <1>1, <1>3, <1>4, <1>5, <1>6 DEF Cut, j, rem

\* What is in front of len bits, in terms of the bytes.
LEMMA HeadIs ==
  ASSUME NEW k, NEW a, NEW v, Address(k, a), Sums(k, a, v),
         NEW len, NEW j, NEW rem, Cut(k, len, j, rem)
  PROVE  v[k] \div Pow2[ByteBits * k - len] =
           IF rem = 0 THEN v[j]
           ELSE v[j] * Pow2[rem] + (a[j + 1] \div Pow2[ByteBits - rem])
  <1> DEFINE W == ByteBits
             m == Pow2[W * k - len]
  <1>1. /\ k \in Nat /\ a \in [1 .. k -> Byte] /\ W \in Nat \ {0} /\ W <= MaxBits
        /\ W * k <= MaxBits /\ MaxBits \in Nat
    BY CidrAssumption DEF Address
  <1>2. /\ len \in 0 .. W * k /\ j \in 0 .. k /\ rem \in 0 .. W - 1 /\ len = W * j + rem
        /\ rem # 0 => j < k
    BY DEF Cut
  <1>3. /\ v \in [0 .. k -> Nat]
        /\ \A n \in 1 .. k : v[n] = v[n - 1] * Pow2[W] + a[n]
    BY DEF Sums
  <1>4. CASE rem = 0
    <2>1. W * k - len = W * (k - j)
      BY <1>1, <1>2, <1>4
    <2>2. W * (k - j) \in 0 .. MaxBits
      BY <1>1, <1>2, <2>1
    <2>3. Pow2[W * (k - j)] \in Nat \ {0} /\ v[j] \in Nat
      BY <1>2, <1>3, <2>2, Halves
    <2>4. PICK r : Behind(k, a, v, j, r)
      BY <1>2, FrontIs, Zenon
    <2>5. v[k] \div Pow2[W * (k - j)] = v[j]
      BY <2>3, <2>4, Quotient DEF Behind
    <2> QED BY <1>4, <2>1, <2>5
  <1>5. CASE rem # 0
    <2> DEFINE i == j + 1
               p == Pow2[W * (k - i)]
               h == Pow2[W - rem]
               l == Pow2[rem]
    <2>1. i \in 0 .. k /\ i \in 1 .. k /\ j \in 0 .. k /\ i - 1 = j
      BY <1>1, <1>2, <1>5
    <2>2. W * (k - i) = W * k - W * j - W
      BY <1>1, <1>2
    <2>3. W * (k - i) \in Nat
      <3>1. \A x, y \in Nat : x * y \in Nat
        OBVIOUS
      <3> QED BY <1>1, <2>1, <3>1
    <2>4. W * k - len = W * (k - i) + (W - rem) /\ W - rem \in Nat /\ W * k - len <= MaxBits
      BY <1>1, <1>2, <2>2
    <2>5. m = p * h /\ p \in Nat \ {0} /\ h \in Nat \ {0}
      BY <2>3, <2>4, PowersMultiply
    <2>6. Pow2[W] = l * h /\ l \in Nat \ {0}
      <3>1. rem \in Nat /\ rem + (W - rem) = W
        BY <1>1, <1>2
      <3> QED BY <1>1, <2>4, <3>1, PowersMultiply
    <2>7. v[j] \in Nat /\ v[i] \in Nat /\ v[k] \in Nat /\ k \in 0 .. k
      BY <1>1, <1>3, <2>1
    <2>8. a[i] \in Nat
      BY <1>1, <2>1, ByteIs
    <2>9. v[k] \div p = v[i]
      <3>0. PICK r : Behind(k, a, v, i, r)
        BY <2>1, FrontIs, Zenon
      <3>1. r \in 0 .. p - 1 /\ v[k] = v[i] * p + r
        BY <3>0, Zenon DEF Behind
      <3> HIDE DEF p, i
      <3> QED BY <2>5, <2>7, <3>1, Quotient
    <2>10. v[i] = v[j] * (l * h) + a[i]
      BY <1>3, <2>1, <2>6
    <2> HIDE DEF p, h, l, m, i
    <2>11. v[i] \div h = v[j] * l + (a[i] \div h)
      <3>1. a[i] \div h \in Nat /\ a[i] % h \in 0 .. h - 1 /\ a[i] = (a[i] \div h) * h + (a[i] % h)
        BY <2>5, <2>8, Divided, Zenon
      <3>2. v[i] = (v[j] * l + (a[i] \div h)) * h + (a[i] % h)
        <4>1. \A x, y, z, q, r \in Nat : x * (y * z) + (q * z + r) = (x * y + q) * z + r
          OBVIOUS
        <4>2. a[i] % h \in Nat
          BY <2>5, <3>1
        <4> QED BY <2>5, <2>6, <2>7, <2>10, <3>1, <4>1, <4>2
      <3>3. v[j] * l + (a[i] \div h) \in Nat
        <4>1. \A x, y, z \in Nat : x * y + z \in Nat
          OBVIOUS
        <4> QED BY <2>6, <2>7, <3>1, <4>1
      <3> QED BY <2>5, <3>1, <3>2, <3>3, Quotient
    <2>12. v[k] \div m = (v[k] \div p) \div h
      BY <2>5, <2>7, DividedTwice
    <2> QED BY <1>5, <2>9, <2>11, <2>12 DEF i, h, l, m
  <1> QED BY <1>4, <1>5

\* bits_equal compares what is in front of the bits.
LEMMA BitsAre ==
  ASSUME NEW k, NEW a, NEW b, Address(k, a), Address(k, b), NEW len \in 0 .. ByteBits * k
  PROVE  bits_equal(a, b, len)
           <=> Value(a) \div Pow2[ByteBits * k - len] = Value(b) \div Pow2[ByteBits * k - len]
  <1> DEFINE W == ByteBits
             m == Pow2[W * k - len]
             j == len \div W
             rem == len % W
             h == Pow2[W - rem]
             l == Pow2[rem]
  <1>1. PICK v : Sums(k, a, v) /\ Value(a) = v[k]
    BY ValueIs, Zenon
  <1>2. PICK w : Sums(k, b, w) /\ Value(b) = w[k]
    BY ValueIs, Zenon
  <1>3. /\ k \in Nat /\ a \in [1 .. k -> Byte] /\ b \in [1 .. k -> Byte] /\ W \in Nat \ {0}
        /\ W <= MaxBits /\ MaxBits \in Nat
    BY CidrAssumption DEF Address
  <1>4. Cut(k, len, j, rem)
    BY <1>3, CutIs, Zenon
  <1> HIDE DEF j, rem
  <1>5. j \in 0 .. k /\ rem \in 0 .. W - 1 /\ (rem # 0 => j < k)
    BY <1>4 DEF Cut
  <1>6. v[j] = w[j] <=> \A i \in 1 .. j : a[i] = b[i]
    BY <1>1, <1>2, <1>5, SumsAgree
  <1>7. v[j] \in Nat /\ w[j] \in Nat
    BY <1>1, <1>2, <1>5 DEF Sums
  <1>8. v[k] \div m = IF rem = 0 THEN v[j] ELSE v[j] * l + (a[j + 1] \div h)
    BY <1>1, <1>4, HeadIs
  <1>9. w[k] \div m = IF rem = 0 THEN w[j] ELSE w[j] * l + (b[j + 1] \div h)
    BY <1>2, <1>4, HeadIs
  <1>10. bits_equal(a, b, len) <=> /\ \A i \in 1 .. j : a[i] = b[i]
                                   /\ rem # 0 => (a[j + 1] \div h) * h = (b[j + 1] \div h) * h
    BY DEF bits_equal, High, j, rem
  <1>11. CASE rem = 0
    BY <1>1, <1>2, <1>6, <1>8, <1>9, <1>10, <1>11
  <1>12. CASE rem # 0
    <2> DEFINE x == a[j + 1]
               y == b[j + 1]
               B == Pow2[W]
    <2>1. rem \in Nat /\ W - rem \in Nat /\ rem + (W - rem) = W /\ j + 1 \in 1 .. k
      BY <1>3, <1>5, <1>12
    <2>2. B = l * h /\ l \in Nat \ {0} /\ h \in Nat \ {0}
      BY <1>3, <2>1, PowersMultiply
    <2>3. x \in 0 .. B - 1 /\ y \in 0 .. B - 1
      BY <1>3, <2>1, ByteIs
    <2> HIDE DEF x, y, B, l, h
    <2>4. ASSUME NEW z \in 0 .. B - 1 PROVE z \div h \in 0 .. l - 1
      <3>1. z \in Nat /\ z < l * h
        BY <2>2
      <3>2. z \div h \in Nat /\ z % h \in 0 .. h - 1 /\ z = (z \div h) * h + (z % h)
        BY <2>2, <3>1, Divided, Zenon
      <3>3. z \div h < l
        <4> SUFFICES ASSUME z \div h >= l PROVE FALSE
          BY <2>2, <3>2
        <4>1. \A p, q, r \in Nat : p >= q => p * r >= q * r
          OBVIOUS
        <4>2. (z \div h) * h >= l * h
          BY <2>2, <3>2, <4>1
        <4>3. (z \div h) * h \in Nat /\ l * h \in Nat
          BY <2>2, <3>2
        <4> QED BY <3>1, <3>2, <4>2, <4>3
      <3> QED BY <2>2, <3>2, <3>3
    <2>5. x \div h \in 0 .. l - 1 /\ y \div h \in 0 .. l - 1
      BY <2>3, <2>4
    <2>6. \A p, q \in Nat, r \in Nat \ {0} : p * r = q * r <=> p = q
      OBVIOUS
    <2>7. (x \div h) * h = (y \div h) * h <=> x \div h = y \div h
      BY <2>2, <2>5, <2>6
    <2>8. ASSUME NEW p \in Nat, NEW q \in Nat, NEW r \in 0 .. l - 1, NEW s \in 0 .. l - 1
          PROVE  p * l + r = q * l + s <=> p = q /\ r = s
      <3>1. (p * l + r) \div l = p /\ (q * l + s) \div l = q
        BY <2>2, Quotient
      <3>2. p * l \in Nat /\ q * l \in Nat
        BY <2>2
      <3>3. p = q => (p * l + r = q * l + s <=> r = s)
        BY <2>2, <3>2
      <3> QED BY <3>1, <3>3
    <2>9. v[j] * l + (x \div h) = w[j] * l + (y \div h) <=> v[j] = w[j] /\ x \div h = y \div h
      BY <1>7, <2>5, <2>8
    <2>10. v[k] \div m = v[j] * l + (x \div h) /\ w[k] \div m = w[j] * l + (y \div h)
      BY <1>8, <1>9, <1>12 DEF x, y
    <2>11. bits_equal(a, b, len) <=> v[j] = w[j] /\ (x \div h) * h = (y \div h) * h
      BY <1>6, <1>10, <1>12 DEF x, y
    <2> QED BY <1>1, <1>2, <2>7, <2>9, <2>10, <2>11
  <1> QED BY <1>11, <1>12

\* A byte cut to some bits is a byte, and cutting it again changes nothing.
LEMMA HighIs ==
  ASSUME ByteBits <= MaxBits, NEW x \in Byte, NEW rem \in 1 .. ByteBits - 1
  PROVE  High(x, rem) \in Byte /\ High(High(x, rem), rem) = High(x, rem)
  <1> DEFINE h == Pow2[ByteBits - rem]
  <1>1. h \in Nat \ {0}
    BY CidrAssumption, Halves
  <1>2. x \in Nat /\ Pow2[ByteBits] \in Nat \ {0} /\ x <= Pow2[ByteBits] - 1
    BY ByteIs
  <1> HIDE DEF h
  <1>3. x \div h \in Nat /\ x % h \in 0 .. h - 1 /\ x = (x \div h) * h + (x % h)
    BY <1>1, <1>2, Divided, Zenon
  <1>4. (x \div h) * h \in 0 .. x
    <2>1. (x \div h) * h \in Nat
      BY <1>1, <1>3
    <2> QED BY <1>1, <1>2, <1>3, <2>1
  <1>5. ((x \div h) * h) \div h = x \div h
    <2>1. 0 \in 0 .. h - 1 /\ (x \div h) * h = (x \div h) * h + 0
      BY <1>1, <1>3
    <2> QED BY <1>1, <1>3, <2>1, Quotient
  <1>6. High(x, rem) = (x \div h) * h
    BY Zenon DEF High, h
  <1>7. High(High(x, rem), rem) = (((x \div h) * h) \div h) * h
    BY Zenon DEF High, h
  <1> QED BY <1>2, <1>4, <1>5, <1>6, <1>7 DEF Byte

\* A byte of a masked address, bits being what is left of the prefix there.
Masked(x, bits) ==
  CASE bits >= ByteBits -> x
    [] bits > 0 /\ bits < ByteBits -> High(x, bits)
    [] OTHER -> 0

IsMask(k, a, len, c) == c = [i \in 1 .. k |-> Masked(a[i], len - ByteBits * (i - 1))]

\* Whole bytes kept, one cut, the rest 0.
CutTo(k, a, j, rem, c) ==
  /\ \A i \in 1 .. j : c[i] = a[i]
  /\ rem # 0 => c[j + 1] = High(a[j + 1], rem)
  /\ \A i \in j + 1 .. k : rem = 0 \/ i # j + 1 => c[i] = 0

LEMMA BitsLeft ==
  ASSUME NEW W \in Nat \ {0}, NEW j \in Nat, NEW rem \in 0 .. W - 1, NEW i \in Nat \ {0},
         NEW bits, bits = W * j + rem - W * (i - 1)
  PROVE  /\ bits \in Int
         /\ i <= j => bits >= W
         /\ i = j + 1 => bits = rem
         /\ i > j + 1 => bits < 0
  <1>1. \A x, y \in Nat : x * y \in Nat
    OBVIOUS
  <1>2. bits \in Int
    OBVIOUS
  <1>3. ASSUME i <= j PROVE bits >= W
    <2>1. bits = W * (j - i) + W + rem
      OBVIOUS
    <2>2. W * (j - i) \in Nat
      BY <1>1, <1>3
    <2> QED BY <2>1, <2>2
  <1>4. ASSUME i = j + 1 PROVE bits = rem
    BY <1>4
  <1>5. ASSUME i > j + 1 PROVE bits < 0
    <2>1. bits = rem - W - W * (i - j - 2)
      OBVIOUS
    <2>2. W * (i - j - 2) \in Nat
      BY <1>1, <1>5
    <2> QED BY <2>1, <2>2
  <1> QED BY <1>2, <1>3, <1>4, <1>5

\* Which byte becomes what.
LEMMA MaskedBytes ==
  ASSUME NEW k, NEW a, Address(k, a), NEW len, NEW j, NEW rem, Cut(k, len, j, rem),
         NEW c, IsMask(k, a, len, c)
  PROVE  Address(k, c) /\ CutTo(k, a, j, rem, c)
  <1> DEFINE W == ByteBits
             bits(i) == len - W * (i - 1)
  <1>1. /\ k \in Nat /\ a \in [1 .. k -> Byte] /\ W \in Nat \ {0} /\ W <= MaxBits
        /\ W * k <= MaxBits /\ MaxBits \in Nat
    BY CidrAssumption DEF Address
  <1>2. /\ len \in 0 .. W * k /\ j \in 0 .. k /\ rem \in 0 .. W - 1 /\ len = W * j + rem
        /\ rem # 0 => j < k
    BY DEF Cut
  <1>3. ASSUME NEW i \in 1 .. k
        PROVE  /\ c[i] = Masked(a[i], bits(i)) /\ bits(i) \in Int
               /\ i <= j => bits(i) >= W
               /\ i = j + 1 => bits(i) = rem
               /\ i > j + 1 => bits(i) < 0
    <2>1. c[i] = Masked(a[i], bits(i))
      BY Zenon DEF IsMask
    <2>2. i \in Nat \ {0} /\ j \in Nat /\ bits(i) = W * j + rem - W * (i - 1)
      BY <1>1, <1>2
    <2> DEFINE x == bits(i)
    <2> HIDE DEF bits, x
    <2>3. W \in Nat \ {0} /\ rem \in 0 .. W - 1 /\ x = W * j + rem - W * (i - 1)
      BY <1>1, <1>2, <2>2 DEF x
    <2>4. x \in Int /\ (i <= j => x >= W) /\ (i = j + 1 => x = rem) /\ (i > j + 1 => x < 0)
      <3> HIDE DEF W
      <3> QED BY <2>2, <2>3, BitsLeft
    <2> QED BY <2>1, <2>4 DEF x
  <1> HIDE DEF bits
  <1>4. ASSUME NEW i \in 1 .. j PROVE c[i] = a[i]
    <2>1. i \in 1 .. k /\ i <= j
      BY <1>1, <1>2
    <2>2. c[i] = Masked(a[i], bits(i)) /\ bits(i) \in Int /\ bits(i) >= W
      BY <1>3, <2>1
    <2>3. ~(bits(i) < W)
      BY <1>1, <2>2
    <2> QED BY <2>2, <2>3 DEF Masked
  <1>5. ASSUME rem # 0 PROVE c[j + 1] = High(a[j + 1], rem)
    <2>1. j + 1 \in 1 .. k
      BY <1>1, <1>2, <1>5
    <2>2. c[j + 1] = Masked(a[j + 1], rem)
      BY <1>3, <2>1
    <2>3. rem > 0 /\ rem < W /\ ~(rem >= W)
      BY <1>1, <1>2, <1>5
    <2> QED BY <2>2, <2>3 DEF Masked
  <1>6. ASSUME NEW i \in j + 1 .. k, rem = 0 \/ i # j + 1 PROVE c[i] = 0
    <2>1. i \in 1 .. k /\ (i = j + 1 \/ i > j + 1)
      BY <1>1, <1>2
    <2>2. c[i] = Masked(a[i], bits(i)) /\ bits(i) \in Int /\ bits(i) <= 0
      BY <1>3, <1>6, <2>1
    <2>3. ~(bits(i) >= W) /\ ~(bits(i) > 0)
      BY <1>1, <2>2
    <2> QED BY <2>2, <2>3 DEF Masked
  <1>7. ASSUME NEW i \in 1 .. k PROVE c[i] \in Byte
    <2>1. 0 \in Byte
      BY <1>1, ByteIs DEF Byte
    <2>2. CASE i \in 1 .. j
      BY <1>1, <1>4, <2>2
    <2>3. CASE i = j + 1 /\ rem # 0
      BY <1>1, <1>2, <1>5, <2>3, HighIs
    <2>4. CASE i \in j + 1 .. k /\ (rem = 0 \/ i # j + 1)
      BY <1>6, <2>1, <2>4
    <2> QED BY <1>2, <2>2, <2>3, <2>4
  <1>8. c \in [1 .. k -> Byte]
    BY <1>7 DEF IsMask
  <1> QED BY <1>1, <1>4, <1>5, <1>6, <1>8 DEF Address, CutTo

\* Masking an address cuts its number down to whole blocks.
LEMMA MaskCuts ==
  ASSUME NEW k, NEW a, Address(k, a), NEW len \in 0 .. ByteBits * k,
         NEW c, IsMask(k, a, len, c)
  PROVE  /\ Address(k, c)
         /\ Value(c) = (Value(a) \div Pow2[ByteBits * k - len]) * Pow2[ByteBits * k - len]
  <1> DEFINE W == ByteBits
             m == Pow2[W * k - len]
             j == len \div W
             rem == len % W
  <1>1. /\ k \in Nat /\ a \in [1 .. k -> Byte] /\ W \in Nat \ {0} /\ W <= MaxBits
        /\ W * k <= MaxBits /\ MaxBits \in Nat
    BY CidrAssumption DEF Address
  <1>2. Cut(k, len, j, rem)
    BY <1>1, CutIs, Zenon
  <1>3. bits_equal(c, a, len) <=> /\ \A i \in 1 .. j : c[i] = a[i]
                                  /\ rem # 0 => High(c[j + 1], rem) = High(a[j + 1], rem)
    BY DEF bits_equal
  <1> HIDE DEF j, rem
  <1>0. Address(k, c) /\ CutTo(k, a, j, rem, c)
    BY <1>2, MaskedBytes, Zenon
  <1>4. /\ Address(k, c)
        /\ \A i \in 1 .. j : c[i] = a[i]
        /\ rem # 0 => c[j + 1] = High(a[j + 1], rem)
        /\ \A i \in j + 1 .. k : rem = 0 \/ i # j + 1 => c[i] = 0
    BY <1>0, Zenon DEF CutTo
  <1>5. /\ len \in 0 .. W * k /\ j \in 0 .. k /\ rem \in 0 .. W - 1 /\ len = W * j + rem
        /\ rem # 0 => j < k
    BY <1>2 DEF Cut
  <1>6. W * k - len \in 0 .. MaxBits
    BY <1>1, <1>5
  <1>7. m \in Nat \ {0}
    BY <1>6, Halves
  <1>8. Value(c) \div m = Value(a) \div m
    <2>1. rem # 0 => High(c[j + 1], rem) = High(a[j + 1], rem)
      <3> SUFFICES ASSUME rem # 0 PROVE High(c[j + 1], rem) = High(a[j + 1], rem)
        OBVIOUS
      <3>1. j + 1 \in 1 .. k /\ rem \in 1 .. W - 1
        BY <1>1, <1>5
      <3>2. a[j + 1] \in Byte
        BY <1>1, <3>1
      <3> QED BY <1>1, <1>4, <3>1, <3>2, HighIs
    <2>2. bits_equal(c, a, len)
      BY <1>3, <1>4, <2>1
    <2> QED BY <1>4, <2>2, BitsAre
  <1>9. PICK u : Sums(k, c, u) /\ Value(c) = u[k]
    BY <1>4, ValueIs, Zenon
  <1>10. u \in [0 .. k -> Nat] /\ \A n \in 1 .. k : u[n] = u[n - 1] * Pow2[W] + c[n]
    BY <1>9 DEF Sums
  <1>11. \E q \in Nat : u[k] = q * m
    <2>1. CASE rem = 0
      <3>1. W * k - len = W * (k - j)
        BY <1>1, <1>5, <2>1
      <3>2. PICK r : Behind(k, c, u, j, r)
        BY <1>4, <1>5, <1>9, FrontIs, Zenon
      <3>3. r = 0
        BY <1>4, <2>1, <3>2 DEF Behind
      <3>4. u[j] \in Nat /\ u[k] = u[j] * m + 0
        BY <1>5, <1>10, <3>1, <3>2, <3>3 DEF Behind
      <3> QED BY <1>7, <3>4
    <2>2. CASE rem # 0
      <3> DEFINE n == j + 1
                 p == Pow2[W * (k - n)]
                 h == Pow2[W - rem]
                 l == Pow2[rem]
                 x == a[n] \div h
      <3>1. n \in 0 .. k /\ n \in 1 .. k /\ j \in 0 .. k /\ n - 1 = j
        BY <1>1, <1>5, <2>2
      <3>2. W * (k - n) = W * k - W * j - W
        BY <1>1, <1>5
      <3>3. W * (k - n) \in Nat
        <4>1. \A y, z \in Nat : y * z \in Nat
          OBVIOUS
        <4> QED BY <1>1, <3>1, <4>1
      <3>4. W * k - len = W * (k - n) + (W - rem) /\ W - rem \in Nat /\ W * k - len <= MaxBits
        BY <1>1, <1>5, <3>2
      <3>5. m = p * h /\ p \in Nat \ {0} /\ h \in Nat \ {0}
        BY <3>3, <3>4, PowersMultiply
      <3>6. Pow2[W] = l * h /\ l \in Nat \ {0}
        <4>1. rem \in Nat /\ rem + (W - rem) = W
          BY <1>1, <1>5
        <4> QED BY <1>1, <3>4, <4>1, PowersMultiply
      <3>7. c[n] = x * h /\ x \in Nat
        <4>1. a[n] \in Nat
          BY <1>1, <3>1, ByteIs
        <4>2. x \in Nat
          BY <3>5, <4>1
        <4>3. c[n] = x * h
          BY <1>4, <2>2 DEF High
        <4> QED BY <4>2, <4>3
      <3>8. u[n] = u[j] * (l * h) + x * h /\ u[j] \in Nat
        BY <1>10, <3>1, <3>6, <3>7
      <3>9. u[k] = u[n] * p
        <4>0. PICK r : Behind(k, c, u, n, r)
          BY <1>4, <1>9, <3>1, FrontIs, Zenon
        <4>1. /\ u[k] = u[n] * p + r
              /\ (\A i \in n + 1 .. k : c[i] = 0) => (r = 0)
          BY <4>0, Zenon DEF Behind
        <4>2. \A i \in n + 1 .. k : c[i] = 0
          <5>1. \A i \in n + 1 .. k : i \in j + 1 .. k /\ i # j + 1
            BY <1>1, <1>5
          <5> QED BY <1>4, <5>1
        <4>3. u[k] = u[n] * p + 0
          BY <4>1, <4>2, Zenon
        <4>4. u[n] \in Nat
          BY <1>10, <3>1
        <4> HIDE DEF p, n
        <4> QED BY <3>5, <4>3, <4>4
      <3> HIDE DEF p, n, h, l, m, x
      <3>10. \A y, z, s, t, o \in Nat : (y * (z * s) + t * s) * o = (y * z + t) * (o * s)
        OBVIOUS
      <3>11. u[k] = (u[j] * l + x) * (p * h)
        BY <3>5, <3>6, <3>7, <3>8, <3>9, <3>10
      <3>12. u[j] * l + x \in Nat
        <4>1. \A y, z, t \in Nat : y * z + t \in Nat
          OBVIOUS
        <4> QED BY <3>6, <3>7, <3>8, <4>1
      <3> QED BY <3>5, <3>11, <3>12, Zenon
    <2> QED BY <2>1, <2>2
  <1> HIDE DEF m
  <1>12. PICK q \in Nat : u[k] = q * m
    BY <1>11
  <1>13. u[k] \div m = q
    <2>1. 0 \in 0 .. m - 1 /\ q * m = q * m + 0
      BY <1>7
    <2> QED BY <1>7, <1>12, <2>1, Quotient
  <1> QED BY <1>4, <1>8, <1>9, <1>12, <1>13 DEF m
----------------------------------------------------------------------------
(***************************************************************************)
(* Prefixes as sets.                                                       *)
(***************************************************************************)
\* Its number of bytes, and the size of its block.
Long(p) == Bytes[p.family]
Block(p) == Pow2[Bits(p.family) - p.prefixlen]

LEMMA RawIs ==
  ASSUME NEW p \in RawPrefixes
  PROVE  /\ p.family \in DOMAIN Bytes
         /\ p = [family |-> p.family, addr |-> p.addr, prefixlen |-> p.prefixlen]
         /\ Address(Long(p), p.addr)
         /\ p.prefixlen \in 0 .. ByteBits * Long(p)
         /\ Bits(p.family) = ByteBits * Long(p)
         /\ Bits(p.family) \in 0 .. MaxBits
         /\ Bits(p.family) - p.prefixlen \in 0 .. MaxBits
         /\ Block(p) \in Nat \ {0}
         /\ Value(p.addr) \in Nat
  <1>1. PICK f \in DOMAIN Bytes :
          p \in [family : {f}, addr : [1 .. Bytes[f] -> Byte], prefixlen : 0 .. Bits(f)]
    BY Zenon DEF RawPrefixes
  <1>2. /\ p.family = f /\ p.addr \in [1 .. Bytes[f] -> Byte] /\ p.prefixlen \in 0 .. Bits(f)
        /\ p = [family |-> p.family, addr |-> p.addr, prefixlen |-> p.prefixlen]
    BY <1>1
  <1>3. /\ ByteBits \in Nat \ {0} /\ MaxBits \in Nat /\ Bytes[f] \in Nat \ {0}
        /\ ByteBits * Bytes[f] <= MaxBits
    BY CidrAssumption
  <1>4. ByteBits * Bytes[f] \in Nat /\ ByteBits <= ByteBits * Bytes[f]
    <2>1. \A x, y \in Nat \ {0} : x * y \in Nat /\ x <= x * y
      OBVIOUS
    <2> QED BY <1>3, <2>1
  <1>5. Address(Long(p), p.addr)
    BY <1>2, <1>3, <1>4 DEF Address, Long
  <1>6. Bits(p.family) = ByteBits * Long(p) /\ Bits(p.family) \in 0 .. MaxBits
    BY <1>2, <1>3, <1>4 DEF Bits, Long
  <1>7. Bits(p.family) - p.prefixlen \in 0 .. MaxBits
    BY <1>2, <1>3, <1>6
  <1>8. Block(p) \in Nat \ {0}
    BY <1>7, Halves DEF Block
  <1>9. Value(p.addr) \in Nat
    <2>1. PICK v : Sums(Long(p), p.addr, v) /\ Value(p.addr) = v[Long(p)]
      BY <1>5, ValueIs, Zenon
    <2>2. Long(p) \in 0 .. Long(p)
      BY <1>5 DEF Address
    <2> QED BY <2>1, <2>2 DEF Sums
  <1> QED BY <1>2, <1>5, <1>6, <1>7, <1>8, <1>9

\* A prefix as the daemon keeps it: nothing behind its bits.
Clean(p) == p \in RawPrefixes /\ Value(p.addr) = (Value(p.addr) \div Block(p)) * Block(p)

LEMMA MaskIs ==
  ASSUME NEW p \in RawPrefixes, NEW c, c = vg_cidr_mask(p)
  PROVE  /\ Clean(c) /\ c.family = p.family /\ c.prefixlen = p.prefixlen
         /\ Block(c) = Block(p)
         /\ Value(c.addr) \div Block(p) = Value(p.addr) \div Block(p)
  <1> DEFINE k == Long(p)
             a == p.addr
             len == p.prefixlen
             d == [i \in 1 .. k |-> Masked(a[i], len - ByteBits * (i - 1))]
             m == Block(p)
  <1>1. /\ p.family \in DOMAIN Bytes
        /\ p = [family |-> p.family, addr |-> p.addr, prefixlen |-> p.prefixlen]
        /\ Address(k, a) /\ len \in 0 .. ByteBits * k
        /\ Bits(p.family) = ByteBits * k /\ m \in Nat \ {0} /\ Value(a) \in Nat
    BY RawIs
  <1>2. DOMAIN a = 1 .. k
    BY <1>1 DEF Address
  <1>3. c = [family |-> p.family, addr |-> d, prefixlen |-> len]
    <2>1. vg_cidr_mask(p) = [p EXCEPT !.addr = [i \in DOMAIN p.addr |->
                               Masked(p.addr[i], p.prefixlen - ByteBits * (i - 1))]]
      BY Zenon DEF vg_cidr_mask, Masked
    <2>2. vg_cidr_mask(p) = [p EXCEPT !.addr = d]
      BY <1>2, <2>1
    <2> HIDE DEF d
    <2> QED BY <1>1, <2>2
  <1>4. IsMask(k, a, len, d)
    BY DEF IsMask
  <1> HIDE DEF d
  <1>5. /\ Address(k, d)
        /\ Value(d) = (Value(a) \div Pow2[ByteBits * k - len]) * Pow2[ByteBits * k - len]
    BY <1>1, <1>4, MaskCuts
  <1>6. Pow2[ByteBits * k - len] = m
    BY <1>1 DEF Block
  <1>7. c.family = p.family /\ c.prefixlen = len /\ c.addr = d
    BY <1>3
  <1>8. c \in RawPrefixes
    <2>1. d \in [1 .. k -> Byte] /\ len \in 0 .. Bits(p.family)
      BY <1>1, <1>5 DEF Address
    <2> QED BY <1>1, <1>3, <2>1 DEF RawPrefixes, Long
  <1>9. Block(c) = m
    BY <1>7 DEF Block
  <1> HIDE DEF m, a
  <1>10. Value(d) = (Value(a) \div m) * m /\ Value(a) \div m \in Nat
    BY <1>1, <1>5, <1>6, Divided
  <1>11. Value(d) \div m = Value(a) \div m
    <2>1. 0 \in 0 .. m - 1 /\ (Value(a) \div m) * m = (Value(a) \div m) * m + 0
      BY <1>1, <1>10
    <2> QED BY <1>1, <1>10, <2>1, Quotient
  <1>12. Clean(c)
    BY <1>7, <1>8, <1>9, <1>10, <1>11 DEF Clean
  <1> QED BY <1>7, <1>9, <1>11, <1>12 DEF m, a

\* The addresses of a prefix are those of its family in its block.
LEMMA InBlock ==
  ASSUME NEW p \in RawPrefixes, NEW f, NEW n \in Nat
  PROVE  <<f, n>> \in Addresses(p)
           <=> f = p.family /\ n \div Block(p) = Value(p.addr) \div Block(p)
  <1> DEFINE m == Block(p)
             V == Value(p.addr)
             q == V \div m
  <1>1. m \in Nat \ {0} /\ V \in Nat
    BY RawIs
  <1>2. Addresses(p) = {<<p.family, q * m + i>> : i \in 0 .. m - 1}
    BY Zenon DEF Addresses, Block
  <1> HIDE DEF m, V
  <1>3. q \in Nat
    BY <1>1, Divided
  <1> HIDE DEF q
  <1>4. n \div m \in Nat /\ n % m \in 0 .. m - 1 /\ n = (n \div m) * m + (n % m)
    BY <1>1, Divided, Zenon
  <1>5. ASSUME f = p.family, n \div m = q PROVE <<f, n>> \in Addresses(p)
    BY <1>2, <1>4, <1>5
  <1>6. ASSUME <<f, n>> \in Addresses(p) PROVE f = p.family /\ n \div m = q
    <2>1. PICK i \in 0 .. m - 1 : <<f, n>> = <<p.family, q * m + i>>
      BY <1>2, <1>6
    <2>2. f = p.family /\ n = q * m + i
      BY <2>1
    <2> QED BY <1>1, <1>3, <2>2, Quotient
  <1> QED BY <1>5, <1>6 DEF m, V, q

LEMMA AllInBlock ==
  ASSUME NEW p \in RawPrefixes, NEW x \in Addresses(p)
  PROVE  \E n \in Nat : x = <<p.family, n>>
  <1> DEFINE m == Block(p)
             q == Value(p.addr) \div m
  <1>1. m \in Nat \ {0} /\ q \in Nat
    BY RawIs, Divided
  <1>2. Addresses(p) = {<<p.family, q * m + i>> : i \in 0 .. m - 1}
    BY Zenon DEF Addresses, Block
  <1> HIDE DEF m, q
  <1>3. PICK i \in 0 .. m - 1 : x = <<p.family, q * m + i>>
    BY <1>2
  <1>4. q * m + i \in Nat
    <2>1. \A y, z, o \in Nat : y * z + o \in Nat
      OBVIOUS
    <2>2. i \in Nat
      BY <1>1
    <2> QED BY <1>1, <2>1, <2>2
  <1> QED BY <1>3, <1>4

\* Numbers in one block of a prefix are in one block of a shorter prefix.
LEMMA Coarser ==
  ASSUME NEW p \in RawPrefixes, NEW q \in RawPrefixes,
         p.family = q.family, p.prefixlen <= q.prefixlen,
         NEW n \in Nat, NEW o \in Nat, n \div Block(q) = o \div Block(q)
  PROVE  n \div Block(p) = o \div Block(p)
  <1> DEFINE B == Bits(p.family)
             d == q.prefixlen - p.prefixlen
             r == Pow2[d]
  <1>1. /\ B \in 0 .. MaxBits /\ MaxBits \in Nat
        /\ p.prefixlen \in 0 .. B /\ q.prefixlen \in 0 .. B
    BY RawIs, CidrAssumption
  <1>2. /\ B - q.prefixlen \in Nat /\ d \in Nat /\ (B - q.prefixlen) + d = B - p.prefixlen
        /\ (B - q.prefixlen) + d <= MaxBits
    BY <1>1
  <1>3. Block(p) = Block(q) * r /\ r \in Nat \ {0} /\ Block(q) \in Nat \ {0}
    <2>1. Block(p) = Pow2[B - p.prefixlen] /\ Block(q) = Pow2[B - q.prefixlen]
      BY DEF Block
    <2> HIDE DEF B, d
    <2> QED BY <1>2, <2>1, PowersMultiply
  <1> HIDE DEF r
  <1>4. n \div Block(p) = (n \div Block(q)) \div r /\ o \div Block(p) = (o \div Block(q)) \div r
    BY <1>3, DividedTwice
  <1> QED BY <1>4

\* Of two prefixes of a family the shorter one has the larger block.
LEMMA ShorterIsLarger ==
  ASSUME NEW p \in RawPrefixes, NEW q \in RawPrefixes, p.family = q.family
  PROVE  p.prefixlen < q.prefixlen => Block(q) < Block(p)
  <1> DEFINE B == Bits(p.family)
  <1>1. /\ B \in 0 .. MaxBits /\ MaxBits \in Nat
        /\ p.prefixlen \in 0 .. B /\ q.prefixlen \in 0 .. B
    BY RawIs, CidrAssumption
  <1> SUFFICES ASSUME p.prefixlen < q.prefixlen PROVE Block(q) < Block(p)
    OBVIOUS
  <1>2. B - q.prefixlen \in Nat /\ B - p.prefixlen \in 0 .. MaxBits
        /\ B - q.prefixlen < B - p.prefixlen
    BY <1>1
  <1> HIDE DEF B
  <1> QED BY <1>2, PowersGrow DEF Block, B

\* vg_cidr_contains compares lengths and blocks.
LEMMA ContainsBy ==
  ASSUME NEW p \in RawPrefixes, NEW q \in RawPrefixes
  PROVE  vg_cidr_contains(p, q)
           <=> /\ p.family = q.family /\ p.prefixlen <= q.prefixlen
               /\ Value(p.addr) \div Block(p) = Value(q.addr) \div Block(p)
  <1> SUFFICES ASSUME p.family = q.family
               PROVE  bits_equal(p.addr, q.addr, p.prefixlen)
                        <=> Value(p.addr) \div Block(p) = Value(q.addr) \div Block(p)
    BY Zenon DEF vg_cidr_contains
  <1>1. /\ Address(Long(p), p.addr) /\ p.prefixlen \in 0 .. ByteBits * Long(p)
        /\ Bits(p.family) = ByteBits * Long(p)
    BY RawIs
  <1>2. Address(Long(p), q.addr)
    BY RawIs DEF Long
  <1>3. Block(p) = Pow2[ByteBits * Long(p) - p.prefixlen]
    BY <1>1, Zenon DEF Block
  <1> QED BY <1>1, <1>2, <1>3, BitsAre

\* The first and the last address of a block.
LEMMA BlockEnds ==
  ASSUME NEW p, Clean(p)
  PROVE  /\ <<p.family, Value(p.addr)>> \in Addresses(p)
         /\ <<p.family, Value(p.addr) + Block(p) - 1>> \in Addresses(p)
         /\ \A n \in Nat : <<p.family, n>> \in Addresses(p)
              => Value(p.addr) <= n /\ n <= Value(p.addr) + Block(p) - 1
  <1> DEFINE m == Block(p)
             V == Value(p.addr)
             q == V \div m
  <1>1. p \in RawPrefixes /\ V = q * m
    BY DEF Clean
  <1>2. m \in Nat \ {0} /\ V \in Nat
    BY <1>1, RawIs
  <1>3. q \in Nat
    BY <1>2, Divided
  <1>4. \A n \in Nat : <<p.family, n>> \in Addresses(p) <=> n \div m = q
    BY <1>1, InBlock
  <1> HIDE DEF q, m, V
  <1>5. (V + m - 1) \div m = q
    <2>1. m - 1 \in 0 .. m - 1 /\ V + m - 1 = q * m + (m - 1)
      BY <1>1, <1>2, <1>3
    <2> QED BY <1>2, <1>3, <2>1, Quotient
  <1>6. V \div m = q /\ V + m - 1 \in Nat
    BY <1>2 DEF q
  <1>7. ASSUME NEW n \in Nat, n \div m = q PROVE V <= n /\ n <= V + m - 1
    <2>1. n = (n \div m) * m + (n % m) /\ n % m \in 0 .. m - 1
      BY <1>2, Divided
    <2> QED BY <1>1, <1>2, <1>7, <2>1
  <1>8. <<p.family, V>> \in Addresses(p) /\ <<p.family, V + m - 1>> \in Addresses(p)
    BY <1>2, <1>4, <1>5, <1>6
  <1> QED BY <1>4, <1>7, <1>8 DEF m, V

\* Containing is inclusion.
LEMMA ContainsIs ==
  ASSUME NEW a, NEW b, Clean(a), Clean(b)
  PROVE  vg_cidr_contains(a, b) <=> Addresses(b) \subseteq Addresses(a)
  <1>1. a \in RawPrefixes /\ b \in RawPrefixes
    BY DEF Clean
  <1>2. /\ Block(a) \in Nat \ {0} /\ Block(b) \in Nat \ {0}
        /\ Value(a.addr) \in Nat /\ Value(b.addr) \in Nat
        /\ a.prefixlen \in Int /\ b.prefixlen \in Int
    BY <1>1, RawIs
  <1>3. ASSUME vg_cidr_contains(a, b), NEW x \in Addresses(b) PROVE x \in Addresses(a)
    <2>1. /\ a.family = b.family /\ a.prefixlen <= b.prefixlen
          /\ Value(a.addr) \div Block(a) = Value(b.addr) \div Block(a)
      BY <1>1, <1>3, ContainsBy
    <2>2. PICK n \in Nat : x = <<b.family, n>>
      BY <1>1, AllInBlock, <1>3
    <2>3. n \div Block(b) = Value(b.addr) \div Block(b)
      BY <1>1, <1>3, <2>2, InBlock
    <2>4. n \div Block(a) = Value(b.addr) \div Block(a)
      BY <1>1, <1>2, <2>1, <2>3, Coarser
    <2> QED BY <1>1, <2>1, <2>2, <2>4, InBlock
  <1>4. ASSUME Addresses(b) \subseteq Addresses(a) PROVE vg_cidr_contains(a, b)
    <2> DEFINE V == Value(b.addr)
               W == Value(b.addr) + Block(b) - 1
    <2>1. <<b.family, V>> \in Addresses(a) /\ <<b.family, W>> \in Addresses(a) /\ W \in Nat
      BY <1>2, <1>4, BlockEnds
    <2>2. a.family = b.family /\ V \div Block(a) = Value(a.addr) \div Block(a)
      BY <1>1, <1>2, <2>1, InBlock
    <2>3. Value(a.addr) <= V /\ W <= Value(a.addr) + Block(a) - 1
      BY <1>2, <2>1, <2>2, BlockEnds, Zenon
    <2>4. Block(b) <= Block(a)
      BY <1>2, <2>3
    <2>5. a.prefixlen <= b.prefixlen
      BY <1>1, <1>2, <2>2, <2>4, ShorterIsLarger
    <2> QED BY <1>1, <2>2, <2>5, ContainsBy
  <1> QED BY <1>3, <1>4

\* Two prefixes share an address just if one contains the other.
LEMMA OverlapsIs ==
  ASSUME NEW a, NEW b, Clean(a), Clean(b)
  PROVE  vg_cidr_covers_or_overlaps(a, b) <=> Addresses(a) \cap Addresses(b) # {}
  <1>1. a \in RawPrefixes /\ b \in RawPrefixes
    BY DEF Clean
  <1>2. /\ Value(a.addr) \in Nat /\ Value(b.addr) \in Nat
        /\ a.prefixlen \in Int /\ b.prefixlen \in Int
    BY <1>1, RawIs
  <1>3. ASSUME vg_cidr_covers_or_overlaps(a, b) PROVE Addresses(a) \cap Addresses(b) # {}
    <2>1. Addresses(b) \subseteq Addresses(a) \/ Addresses(a) \subseteq Addresses(b)
      BY <1>3, ContainsIs DEF vg_cidr_covers_or_overlaps
    <2>2. Addresses(a) # {} /\ Addresses(b) # {}
      BY BlockEnds, Zenon
    <2> QED BY <2>1, <2>2
  <1>4. ASSUME Addresses(a) \cap Addresses(b) # {} PROVE vg_cidr_covers_or_overlaps(a, b)
    <2>1. PICK x : x \in Addresses(a) /\ x \in Addresses(b)
      BY <1>4
    <2>2. PICK n \in Nat : x = <<a.family, n>>
      BY <1>1, <2>1, AllInBlock
    <2>3. /\ a.family = b.family /\ n \div Block(a) = Value(a.addr) \div Block(a)
          /\ n \div Block(b) = Value(b.addr) \div Block(b)
      BY <1>1, <2>1, <2>2, InBlock
    <2>4. CASE a.prefixlen <= b.prefixlen
      <3>1. n \div Block(a) = Value(b.addr) \div Block(a)
        BY <1>1, <1>2, <2>3, <2>4, Coarser
      <3>2. vg_cidr_contains(a, b)
        BY <1>1, <2>3, <2>4, <3>1, ContainsBy
      <3> QED BY <3>2 DEF vg_cidr_covers_or_overlaps
    <2>5. CASE b.prefixlen <= a.prefixlen
      <3>1. n \div Block(b) = Value(a.addr) \div Block(b)
        BY <1>1, <1>2, <2>3, <2>5, Coarser
      <3>2. vg_cidr_contains(b, a)
        BY <1>1, <2>3, <2>5, <3>1, ContainsBy
      <3> QED BY <3>2 DEF vg_cidr_covers_or_overlaps
    <2> QED BY <1>2, <2>4, <2>5
  <1> QED BY <1>3, <1>4

\* Prefixes are equal just if their addresses are.
LEMMA SameIs ==
  ASSUME NEW a, NEW b, Clean(a), Clean(b)
  PROVE  Same(a, b) <=> Addresses(a) = Addresses(b)
  <1>1. a \in RawPrefixes /\ b \in RawPrefixes
    BY DEF Clean
  <1>2. /\ Block(a) \in Nat \ {0} /\ Block(b) \in Nat \ {0}
        /\ Value(a.addr) \in Nat /\ Value(b.addr) \in Nat
        /\ a.prefixlen \in Int /\ b.prefixlen \in Int
    BY <1>1, RawIs
  <1>3. ASSUME Same(a, b) PROVE Addresses(a) = Addresses(b)
    BY <1>3, Zenon DEF Same, Addresses
  <1>4. ASSUME Addresses(a) = Addresses(b) PROVE Same(a, b)
    <2>1. vg_cidr_contains(a, b) /\ vg_cidr_contains(b, a)
      BY <1>4, ContainsIs
    <2>2. a.family = b.family /\ a.prefixlen <= b.prefixlen /\ b.prefixlen <= a.prefixlen
      BY <1>1, <2>1, ContainsBy
    <2>3. a.prefixlen = b.prefixlen
      BY <1>2, <2>2
    <2>4. <<a.family, Value(a.addr)>> \in Addresses(b) /\ <<b.family, Value(b.addr)>> \in Addresses(a)
      BY <1>4, BlockEnds, Zenon
    <2>5. Value(b.addr) <= Value(a.addr) /\ Value(a.addr) <= Value(b.addr)
      BY <1>2, <2>2, <2>4, BlockEnds, Zenon
    <2>6. Value(a.addr) = Value(b.addr)
      BY <1>2, <2>5
    <2>7. Address(Long(a), a.addr) /\ Address(Long(a), b.addr)
      BY <1>1, <2>2, RawIs DEF Long
    <2>8. a.addr = b.addr
      BY <2>6, <2>7, ValuesTell
    <2> QED BY <2>2, <2>3, <2>8 DEF Same
  <1> QED BY <1>3, <1>4

\* The network of a host contains it, and is the one prefix of its length that
\* does.
LEMMA NetIs ==
  ASSUME NEW a, NEW b, Clean(a), Clean(b), a.family = b.family,
         b.prefixlen = Bits(b.family)
  PROVE  /\ vg_cidr_contains(NetOfHost(b, a.prefixlen), b)
         /\ vg_cidr_contains(a, b) => Same(a, NetOfHost(b, a.prefixlen))
  <1> DEFINE h == [b EXCEPT !.prefixlen = a.prefixlen]
             net == NetOfHost(b, a.prefixlen)
             m == Block(a)
  <1>1. a \in RawPrefixes /\ b \in RawPrefixes
    BY DEF Clean
  <1>2. /\ b.family \in DOMAIN Bytes
        /\ b = [family |-> b.family, addr |-> b.addr, prefixlen |-> b.prefixlen]
        /\ Address(Long(b), b.addr) /\ Bits(b.family) \in 0 .. MaxBits
        /\ Bits(b.family) = ByteBits * Long(b)
    BY <1>1, RawIs
  <1>3. a.prefixlen \in 0 .. Bits(b.family)
    BY <1>1, RawIs
  <1>4. h = [family |-> b.family, addr |-> b.addr, prefixlen |-> a.prefixlen]
    BY <1>2
  <1>5. h \in RawPrefixes
    <2>1. b.addr \in [1 .. Bytes[b.family] -> Byte]
      BY <1>2 DEF Address, Long
    <2> QED BY <1>2, <1>3, <1>4, <2>1 DEF RawPrefixes
  <1>6. h.family = b.family /\ h.addr = b.addr /\ h.prefixlen = a.prefixlen
    BY <1>4
  <1>7. net = vg_cidr_mask(h)
    BY Zenon DEF NetOfHost
  <1>8. Block(h) = m
    BY <1>6 DEF Block
  <1> HIDE DEF h, net
  <1>9. /\ Clean(net) /\ net.family = b.family /\ net.prefixlen = a.prefixlen
        /\ Block(net) = m
        /\ Value(net.addr) \div m = Value(b.addr) \div m
    BY <1>5, <1>6, <1>7, <1>8, MaskIs
  <1>10. net \in RawPrefixes /\ Value(net.addr) = (Value(net.addr) \div m) * m
    BY <1>9 DEF Clean
  <1>11. vg_cidr_contains(net, b)
    <2>1. net.prefixlen <= b.prefixlen
      BY <1>2, <1>3, <1>9
    <2> QED BY <1>1, <1>9, <1>10, <2>1, ContainsBy
  <1>12. ASSUME vg_cidr_contains(a, b) PROVE Same(a, net)
    <2>1. Value(a.addr) \div m = Value(b.addr) \div m
      BY <1>1, <1>12, ContainsBy
    <2>2. Value(a.addr) = (Value(a.addr) \div m) * m
      BY DEF Clean
    <2>3. Value(a.addr) = Value(net.addr)
      BY <1>9, <1>10, <2>1, <2>2
    <2>4. Address(Long(a), a.addr) /\ Address(Long(a), net.addr)
      BY <1>1, <1>9, <1>10, RawIs DEF Long
    <2>5. a.addr = net.addr
      BY <2>3, <2>4, ValuesTell
    <2> QED BY <1>9, <2>5 DEF Same
  <1> QED BY <1>11, <1>12 DEF net

\* Prefixes written anyhow, of any family and any length of byte and address,
\* are kept and compared as the sets of their addresses (vg_cidr_mask,
\* vg_cidr_contains, vg_cidr_covers_or_overlaps, drops_find, maybe_aggregate).
THEOREM PrefixesAreSets ==
  ASSUME NEW p \in RawPrefixes, NEW q \in RawPrefixes
  PROVE  MeansSet(p, q)
  <1> DEFINE a == vg_cidr_mask(p)
             b == vg_cidr_mask(q)
  <1>1. /\ Clean(a) /\ a.family = p.family /\ a.prefixlen = p.prefixlen
        /\ Block(a) = Block(p)
        /\ Value(a.addr) \div Block(p) = Value(p.addr) \div Block(p)
    BY MaskIs
  <1>2. Clean(b) /\ b.family = q.family /\ b.prefixlen = q.prefixlen
    BY MaskIs
  <1> HIDE DEF a, b
  <1>3. Addresses(a) = Addresses(p)
    BY <1>1, Zenon DEF Addresses, Block
  <1>4. Same(a, b) <=> Addresses(a) = Addresses(b)
    BY <1>1, <1>2, SameIs, Zenon
  <1>5. vg_cidr_contains(a, b) <=> Addresses(b) \subseteq Addresses(a)
    BY <1>1, <1>2, ContainsIs, Zenon
  <1>6. vg_cidr_covers_or_overlaps(a, b) <=> Addresses(a) \cap Addresses(b) # {}
    BY <1>1, <1>2, OverlapsIs, Zenon
  <1>7. ASSUME q.prefixlen = Bits(q.family), p.family = q.family
        PROVE  /\ vg_cidr_contains(NetOfHost(b, p.prefixlen), b)
               /\ vg_cidr_contains(a, b) => Same(a, NetOfHost(b, p.prefixlen))
    BY <1>1, <1>2, <1>7, NetIs
  <1> QED BY <1>3, <1>4, <1>5, <1>6, <1>7, Zenon DEF MeansSet, a, b
=============================================================================
