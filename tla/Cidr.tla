--------------------------------- MODULE Cidr ---------------------------------
(***************************************************************************)
(* Prefixes and numbers as the daemon reads and compares them              *)
(* (src/ipaddr.c, parse_ttl of src/ctl_server.c), byte by byte and digit   *)
(* by digit, and what they mean: a prefix is the set of its addresses,     *)
(* which is all that Policy and Gate keep of it.                           *)
(***************************************************************************)
EXTENDS Integers, Sequences

CONSTANTS
  ByteBits,   \* 8: bits in a byte
  Bytes,      \* bytes of an address of each family
  MaxBits,    \* 128: bits of the longest
  LenDigits,  \* 3: digits of a prefix length, as vg_parse_cidr documents them
  MaxTtl,     \* VG_MAX_DROP_TTL
  U32         \* 2^32

ASSUME CidrAssumption ==
  /\ ByteBits \in Nat \ {0}
  /\ MaxBits \in Nat
  /\ LenDigits \in Nat
  /\ \A f \in DOMAIN Bytes : Bytes[f] \in Nat \ {0} /\ ByteBits * Bytes[f] <= MaxBits
  /\ MaxTtl \in Nat \ {0}
  /\ U32 \in Nat
  /\ MaxTtl * 10 + 9 < U32

\* Powers of two.
Pow2[n \in 0 .. MaxBits] == IF n = 0 THEN 1 ELSE 2 * Pow2[n - 1]

Byte == 0 .. Pow2[ByteBits] - 1

Bits(family) == ByteBits * Bytes[family]

\* Every prefix as it may be written: any bits behind it.
RawPrefixes ==
  UNION {[family : {f}, addr : [1 .. Bytes[f] -> Byte], prefixlen : 0 .. Bits(f)] :
           f \in DOMAIN Bytes}

\* The first n bits of a byte: b & (0xff << (8 - n)).
High(b, n) == (b \div Pow2[ByteBits - n]) * Pow2[ByteBits - n]

\* Mutant of vg_cidr_mask: a byte the prefix ends in is left as it is.
MaskWholeBytes(p) ==
  [p EXCEPT !.addr = [i \in DOMAIN p.addr |->
     IF p.prefixlen > ByteBits * (i - 1) THEN p.addr[i] ELSE 0]]

\* Clears what is behind the prefix: whole bytes kept, one byte cut, the rest 0.
vg_cidr_mask(p) ==
  [p EXCEPT !.addr = [i \in DOMAIN p.addr |->
     LET bits == p.prefixlen - ByteBits * (i - 1)
     IN  CASE bits >= ByteBits -> p.addr[i]
           [] bits > 0 /\ bits < ByteBits -> High(p.addr[i], bits)
           [] OTHER -> 0]]

\* memcmp of the whole bytes, then the rest of one byte.
bits_equal(a, b, bits) ==
  LET bytes == bits \div ByteBits
      rem == bits % ByteBits
  IN  /\ \A i \in 1 .. bytes : a[i] = b[i]
      /\ rem # 0 => High(a[bytes + 1], rem) = High(b[bytes + 1], rem)

vg_cidr_contains(hay, needle) ==
  /\ hay.family = needle.family
  /\ hay.prefixlen <= needle.prefixlen
  /\ bits_equal(hay.addr, needle.addr, hay.prefixlen)

vg_cidr_covers_or_overlaps(a, b) == vg_cidr_contains(a, b) \/ vg_cidr_contains(b, a)

\* vg_cidr_v4_slash24 and vg_cidr_v6_slash64: the network of a host.
NetOfHost(host, len) == vg_cidr_mask([host EXCEPT !.prefixlen = len])

\* The equality of drops_find.
Same(p, q) == p.family = q.family /\ p.prefixlen = q.prefixlen /\ p.addr = q.addr

Refused == -1

\* One more digit of the length, unless there are too many already.
PlenDigit(plen, digit) ==
  IF plen = Refused \/ plen > MaxBits THEN Refused ELSE plen * 10 + digit

\* The digits after the slash.
prefixlen(family, digits) ==
  LET plen[n \in 0 .. Len(digits)] ==
        IF n = 0 THEN 0 ELSE PlenDigit(plen[n - 1], digits[n])
      v == plen[Len(digits)]
  IN  IF digits = <<>> \/ v > Bits(family) THEN Refused ELSE v

\* Mutant of parse_ttl: the bound is checked at the end only.
ParseTtlAtEnd(digits) ==
  LET ttl[n \in 0 .. Len(digits)] ==
        IF n = 0 THEN 0 ELSE (ttl[n - 1] * 10 + digits[n]) % U32
      v == ttl[Len(digits)]
  IN  IF v \in 1 .. MaxTtl THEN v ELSE Refused

\* One more digit of the seconds, into 32 bits.
TtlDigit(ttl, digit) ==
  IF ttl = Refused \/ ttl > MaxTtl THEN Refused ELSE (ttl * 10 + digit) % U32

\* The digits of ttl=<seconds>.
parse_ttl(digits) ==
  LET ttl[n \in 0 .. Len(digits)] ==
        IF n = 0 THEN 0 ELSE TtlDigit(ttl[n - 1], digits[n])
      v == ttl[Len(digits)]
  IN  IF v \in 1 .. MaxTtl THEN v ELSE Refused
----------------------------------------------------------------------------
(***************************************************************************)
(* The meaning.                                                            *)
(***************************************************************************)

\* An address as one number, most significant byte first.
Value(addr) ==
  LET v[n \in 0 .. Len(addr)] ==
        IF n = 0 THEN 0 ELSE v[n - 1] * Pow2[ByteBits] + addr[n]
  IN  v[Len(addr)]

Addresses(p) ==
  LET block == Pow2[Bits(p.family) - p.prefixlen]
  IN  {<<p.family, (Value(p.addr) \div block) * block + k>> : k \in 0 .. block - 1}

Decimal(digits) ==
  LET v[n \in 0 .. Len(digits)] == IF n = 0 THEN 0 ELSE v[n - 1] * 10 + digits[n]
  IN  v[Len(digits)]

\* The prefixes p and q as the daemon keeps them stand for the addresses they
\* were written for, whatever bits were set behind them, and then the byte
\* comparisons are those of sets: equal prefixes are equal sets, so that a drop
\* and its undrop find one record; contains is inclusion, and two prefixes
\* overlap just if one contains the other, so that nothing protected is missed
\* (vg_parse_cidr_len, drops_find, vg_cidr_is_protected, maybe_aggregate).
MeansSet(p, q) ==
  LET a == vg_cidr_mask(p)
      b == vg_cidr_mask(q)
  IN  /\ Addresses(a) = Addresses(p)
      /\ Same(a, b) <=> Addresses(a) = Addresses(b)
      /\ vg_cidr_contains(a, b) <=> Addresses(b) \subseteq Addresses(a)
      /\ vg_cidr_covers_or_overlaps(a, b) <=> Addresses(a) \cap Addresses(b) # {}
      /\ q.prefixlen = Bits(q.family) =>
           LET net == NetOfHost(b, p.prefixlen)
           IN  p.family = q.family =>
                 (vg_cidr_contains(net, b) /\ (vg_cidr_contains(a, b) => Same(a, net)))

\* The digits after ttl= are the number they say if that is in range, and are
\* refused if not.  The digits after a slash are never read as anything but the
\* number they say, within the width of the family, and up to LenDigits of them
\* are refused only when they are out of range.  So no long one wraps around
\* into the range.  Of a longer row with leading zeros nothing more is said: the
\* comment on vg_parse_cidr has it rejected, and its loop reads /0024 as /24.
Exact(digits) ==
  /\ parse_ttl(digits) =
       IF Decimal(digits) \in 1 .. MaxTtl THEN Decimal(digits) ELSE Refused
  /\ \A f \in DOMAIN Bytes :
       /\ prefixlen(f, digits) # Refused =>
            digits # <<>> /\ prefixlen(f, digits) = Decimal(digits) /\ Decimal(digits) <= Bits(f)
       /\ Len(digits) \in 1 .. LenDigits /\ Decimal(digits) <= Bits(f) =>
            prefixlen(f, digits) = Decimal(digits)
=============================================================================
