---------------------------- MODULE FetchProofs ----------------------------
(***************************************************************************)
(* Proofs about RemoteFetch and UrlUpload: for any hosts, addresses,       *)
(* limits and answers of name servers, peers and Lexware; and about the    *)
(* filters of a download, AddressRanges and HostNames: that they judge     *)
(* addresses as the table of Networks and names as their labels do.        *)
(***************************************************************************)
EXTENDS UrlUpload, Networks, DomainNames, SequenceTheorems, FiniteSetTheorems,
        WellFoundedInduction, TLAPS

-----------------------------------------------------------------------------
(* Induction over the naturals *)

\* A nonempty set of naturals has a least element.
LEMMA NatMin ==
    ASSUME NEW T \in SUBSET Nat, T # {}
    PROVE  \E m \in T : \A k \in T : m <= k
<1> DEFINE Upto == {0..m : m \in T}
<1>1. Upto \subseteq FiniteSubsetsOf(Nat) /\ Upto # {}
  <2>1. \A m \in T : IsFiniteSet(0..m) /\ 0..m \in SUBSET Nat
    BY FS_Interval
  <2> QED BY <2>1 DEF FiniteSubsetsOf
<1>2. PICK x \in Upto : \A y \in Upto : ~(<<y, x>> \in StrictSubsetOrdering(Nat))
  BY <1>1, FS_StrictSubsetOrderingWellFounded, WFMin
<1>3. PICK m \in T : x = 0..m
  OBVIOUS
<1>4. ASSUME NEW k \in T, k < m
      PROVE  FALSE
  <2>1. 0..k \in Upto /\ 0..k \subseteq 0..m /\ m \in 0..m /\ m \notin 0..k
    BY <1>4
  <2>2. <<0..k, 0..m>> \in (SUBSET Nat) \X (SUBSET Nat) /\ 0..k # 0..m
    BY <2>1
  <2>3. <<0..k, 0..m>> \in StrictSubsetOrdering(Nat)
    BY <2>1, <2>2 DEF StrictSubsetOrdering
  <2> QED BY <1>2, <1>3, <2>1, <2>3
<1> QED BY <1>4

\* Induction over the naturals, for a set instead of a predicate.
LEMMA NatInd ==
    ASSUME NEW P, 0 \in P, \A n \in Nat : n \in P => n + 1 \in P
    PROVE  Nat \subseteq P
<1> SUFFICES ASSUME Nat \ P # {} PROVE FALSE
  OBVIOUS
<1>1. PICK m \in Nat \ P : \A k \in Nat \ P : m <= k
  BY NatMin
<1>2. m # 0 /\ m - 1 \in Nat
  BY <1>1
<1>3. m - 1 \in P
  BY <1>1, <1>2
<1> QED BY <1>1, <1>2, <1>3

-----------------------------------------------------------------------------
(* Addresses: the ranges of isBlockedAddress() are the networks *)

\* The first n bits of two bytes are the same.
SameBits(x, y, n) == \A k \in 1..n : Bit(x, k) = Bit(y, k)

\* Bits are the digits of a byte: equal leading bits are equal quotients.
LEMMA BitsAreDigits ==
    ASSUME NEW x \in Byte, NEW y \in Byte
    PROVE  /\ SameBits(x, y, 2) <=> x \div 64 = y \div 64
           /\ SameBits(x, y, 4) <=> x \div 16 = y \div 16
           /\ SameBits(x, y, 7) <=> x \div 2 = y \div 2
           /\ SameBits(x, y, 8) <=> x = y
<1> DEFINE W == <<128, 64, 32, 16, 8, 4, 2, 1>>
<1>1. /\ W[1] = 128 /\ W[2] = 64 /\ W[3] = 32 /\ W[4] = 16
      /\ W[5] = 8 /\ W[6] = 4 /\ W[7] = 2 /\ W[8] = 1
  OBVIOUS
<1>2. /\ Bit(x, 1) = (x \div 128) % 2 /\ Bit(x, 2) = (x \div 64) % 2
      /\ Bit(x, 3) = (x \div 32) % 2 /\ Bit(x, 4) = (x \div 16) % 2
      /\ Bit(x, 5) = (x \div 8) % 2 /\ Bit(x, 6) = (x \div 4) % 2
      /\ Bit(x, 7) = (x \div 2) % 2 /\ Bit(x, 8) = x % 2
  BY <1>1 DEF Bit, Weight, Byte
<1>3. /\ Bit(y, 1) = (y \div 128) % 2 /\ Bit(y, 2) = (y \div 64) % 2
      /\ Bit(y, 3) = (y \div 32) % 2 /\ Bit(y, 4) = (y \div 16) % 2
      /\ Bit(y, 5) = (y \div 8) % 2 /\ Bit(y, 6) = (y \div 4) % 2
      /\ Bit(y, 7) = (y \div 2) % 2 /\ Bit(y, 8) = y % 2
  BY <1>1 DEF Bit, Weight, Byte
<1> DEFINE Digit(a, b) == a = b <=> a \div 2 = b \div 2 /\ a % 2 = b % 2
<1>4. \A a, b \in Nat : Digit(a, b)
  OBVIOUS
<1>5. \A z \in Byte :
          /\ z \div 128 \in Nat /\ z \div 64 \in Nat /\ z \div 32 \in Nat /\ z \div 16 \in Nat
          /\ z \div 8 \in Nat /\ z \div 4 \in Nat /\ z \div 2 \in Nat /\ z \in Nat
          /\ (z \div 128) \div 2 = 0 /\ (z \div 64) \div 2 = z \div 128
          /\ (z \div 32) \div 2 = z \div 64 /\ (z \div 16) \div 2 = z \div 32
          /\ (z \div 8) \div 2 = z \div 16 /\ (z \div 4) \div 2 = z \div 8
          /\ (z \div 2) \div 2 = z \div 4
  BY DEF Byte
<1>6. /\ Digit(x \div 128, y \div 128) /\ Digit(x \div 64, y \div 64)
      /\ Digit(x \div 32, y \div 32) /\ Digit(x \div 16, y \div 16)
      /\ Digit(x \div 8, y \div 8) /\ Digit(x \div 4, y \div 4)
      /\ Digit(x \div 2, y \div 2) /\ Digit(x, y)
  <2> HIDE DEF Digit
  <2> QED BY <1>4, <1>5
<1>7. /\ x \div 64 = y \div 64 <=> Bit(x, 1) = Bit(y, 1) /\ Bit(x, 2) = Bit(y, 2)
      /\ x \div 16 = y \div 16
             <=> x \div 64 = y \div 64 /\ Bit(x, 3) = Bit(y, 3) /\ Bit(x, 4) = Bit(y, 4)
      /\ x \div 2 = y \div 2
             <=> x \div 16 = y \div 16 /\ Bit(x, 5) = Bit(y, 5) /\ Bit(x, 6) = Bit(y, 6)
                                       /\ Bit(x, 7) = Bit(y, 7)
      /\ x = y <=> x \div 2 = y \div 2 /\ Bit(x, 8) = Bit(y, 8)
  BY <1>2, <1>3, <1>5, <1>6
<1>8. /\ SameBits(x, y, 2) <=> Bit(x, 1) = Bit(y, 1) /\ Bit(x, 2) = Bit(y, 2)
      /\ SameBits(x, y, 4) <=> SameBits(x, y, 2) /\ Bit(x, 3) = Bit(y, 3) /\ Bit(x, 4) = Bit(y, 4)
  BY DEF SameBits
<1>9. /\ SameBits(x, y, 7) <=> /\ SameBits(x, y, 4) /\ Bit(x, 5) = Bit(y, 5)
                               /\ Bit(x, 6) = Bit(y, 6) /\ Bit(x, 7) = Bit(y, 7)
      /\ SameBits(x, y, 8) <=> SameBits(x, y, 7) /\ Bit(x, 8) = Bit(y, 8)
  BY DEF SameBits
<1> QED BY <1>7, <1>8, <1>9

\* The first m bytes are the same, and r bits of the next.
SameStart(x, y, m, r) == /\ \A j \in 1..m : SameBits(x[j], y[j], 8)
                         /\ SameBits(x[m + 1], y[m + 1], r)

\* A network of m bytes and r bits, byte by byte.
LEMMA WithinByBytes ==
    ASSUME NEW bytes, NEW net, NEW m \in Nat, NEW r \in 0..7, NEW n, n = 8 * m + r
    PROVE  Within(bytes, <<net, n>>) <=> SameStart(bytes, net, m, r)
<1> DEFINE Same(j, k) == Bit(bytes[j], k) = Bit(net[j], k)
<1>1. Within(bytes, <<net, n>>)
          <=> \A i \in 1..(8 * m + r) : Same(((i - 1) \div 8) + 1, ((i - 1) % 8) + 1)
  BY DEF Within
<1>2. \A j : \A l : SameBits(bytes[j], net[j], l) <=> \A k \in 1..l : Same(j, k)
  BY DEF SameBits
<1> HIDE DEF Same
<1>3. ASSUME \A i \in 1..(8 * m + r) : Same(((i - 1) \div 8) + 1, ((i - 1) % 8) + 1)
      PROVE  /\ \A j \in 1..m : \A k \in 1..8 : Same(j, k)
             /\ \A k \in 1..r : Same(m + 1, k)
  <2>1. ASSUME NEW j \in 1..m, NEW k \in 1..8
        PROVE  Same(j, k)
    <3> DEFINE i == 8 * (j - 1) + k
    <3>1. i \in 1..(8 * m + r) /\ ((i - 1) \div 8) + 1 = j /\ ((i - 1) % 8) + 1 = k
      OBVIOUS
    <3> HIDE DEF i
    <3> QED BY <1>3, <3>1
  <2>2. ASSUME NEW k \in 1..r
        PROVE  Same(m + 1, k)
    <3> DEFINE i == 8 * m + k
    <3>1. i \in 1..(8 * m + r) /\ ((i - 1) \div 8) + 1 = m + 1 /\ ((i - 1) % 8) + 1 = k
      OBVIOUS
    <3> HIDE DEF i
    <3> QED BY <1>3, <3>1
  <2> QED BY <2>1, <2>2
<1>4. ASSUME \A j \in 1..m : \A k \in 1..8 : Same(j, k), \A k \in 1..r : Same(m + 1, k),
             NEW i \in 1..(8 * m + r)
      PROVE  Same(((i - 1) \div 8) + 1, ((i - 1) % 8) + 1)
  <2> DEFINE j == ((i - 1) \div 8) + 1
             k == ((i - 1) % 8) + 1
  <2>1. /\ j \in 1..(m + 1) /\ k \in 1..8
        /\ j = m + 1 => k \in 1..r
    OBVIOUS
  <2> HIDE DEF j, k
  <2>2. Same(j, k)
    BY <1>4, <2>1
  <2> QED BY <2>2 DEF j, k
<1> QED BY <1>1, <1>2, <1>3, <1>4 DEF SameStart

\* The ranges of IPv4 are the networks, whatever the four bytes.
LEMMA RangesAreNetworks4 ==
    ASSUME NEW o \in [1 .. 4 -> Byte]
    PROVE  IsBlockedIPv4Bytes(o[1], o[2], o[3]) <=> Internal4(o)
<1> DEFINE a == o[1]
           b == o[2]
           c == o[3]
<1>1. o[1] = a /\ o[2] = b /\ o[3] = c
  OBVIOUS
<1>2. a \in Byte /\ b \in Byte /\ c \in Byte
  OBVIOUS
<1> HIDE DEF a, b, c
<1>3. \A x \in Byte : /\ SameBits(a, x, 8) <=> a = x
                      /\ SameBits(b, x, 8) <=> b = x
                      /\ SameBits(c, x, 8) <=> c = x
                      /\ SameBits(a, x, 4) <=> a \div 16 = x \div 16
                      /\ SameBits(b, x, 4) <=> b \div 16 = x \div 16
                      /\ SameBits(b, x, 2) <=> b \div 64 = x \div 64
                      /\ SameBits(b, x, 7) <=> b \div 2 = x \div 2
  BY <1>2, BitsAreDigits
<1>4. ASSUME NEW x \in Byte
      PROVE  /\ Within(o, <<<<x>>, 8>>) <=> a = x
             /\ Within(o, <<<<x>>, 4>>) <=> a \div 16 = x \div 16
  <2> DEFINE n == <<x>>
  <2>1. n[1] = x
    OBVIOUS
  <2> HIDE DEF n
  <2>2. Within(o, <<n, 8>>) <=> SameStart(o, n, 1, 0)
    BY 8 = 8 * 1 + 0, WithinByBytes
  <2>3. Within(o, <<n, 4>>) <=> SameStart(o, n, 0, 4)
    BY 4 = 8 * 0 + 4, WithinByBytes
  <2>4. Within(o, <<n, 8>>) <=> a = x
    BY <1>1, <1>3, <2>1, <2>2 DEF SameStart, SameBits
  <2>5. Within(o, <<n, 4>>) <=> a \div 16 = x \div 16
    BY <1>1, <1>3, <2>1, <2>3 DEF SameStart
  <2> QED BY <2>4, <2>5 DEF n
<1>5. ASSUME NEW x \in Byte, NEW y \in Byte
      PROVE  /\ Within(o, <<<<x, y>>, 16>>) <=> a = x /\ b = y
             /\ Within(o, <<<<x, y>>, 15>>) <=> a = x /\ b \div 2 = y \div 2
             /\ Within(o, <<<<x, y>>, 12>>) <=> a = x /\ b \div 16 = y \div 16
             /\ Within(o, <<<<x, y>>, 10>>) <=> a = x /\ b \div 64 = y \div 64
  <2> DEFINE n == <<x, y>>
  <2>1. n[1] = x /\ n[2] = y
    OBVIOUS
  <2> HIDE DEF n
  <2>2. /\ Within(o, <<n, 15>>) <=> SameStart(o, n, 1, 7)
        /\ Within(o, <<n, 12>>) <=> SameStart(o, n, 1, 4)
        /\ Within(o, <<n, 10>>) <=> SameStart(o, n, 1, 2)
    BY 15 = 8 * 1 + 7, 12 = 8 * 1 + 4, 10 = 8 * 1 + 2, WithinByBytes
  <2>3. Within(o, <<n, 16>>) <=> SameStart(o, n, 2, 0)
    BY 16 = 8 * 2 + 0, WithinByBytes
  <2>4. Within(o, <<n, 16>>) <=> a = x /\ b = y
    BY <1>1, <1>3, <2>1, <2>3 DEF SameStart, SameBits
  <2>5. Within(o, <<n, 15>>) <=> a = x /\ b \div 2 = y \div 2
    BY <1>1, <1>3, <2>1, <2>2 DEF SameStart
  <2>6. Within(o, <<n, 12>>) <=> a = x /\ b \div 16 = y \div 16
    BY <1>1, <1>3, <2>1, <2>2 DEF SameStart
  <2>7. Within(o, <<n, 10>>) <=> a = x /\ b \div 64 = y \div 64
    BY <1>1, <1>3, <2>1, <2>2 DEF SameStart
  <2> QED BY <2>4, <2>5, <2>6, <2>7 DEF n
<1>6. ASSUME NEW x \in Byte, NEW y \in Byte, NEW z \in Byte
      PROVE  Within(o, <<<<x, y, z>>, 24>>) <=> a = x /\ b = y /\ c = z
  <2> DEFINE n == <<x, y, z>>
  <2>1. n[1] = x /\ n[2] = y /\ n[3] = z
    OBVIOUS
  <2> HIDE DEF n
  <2>2. Within(o, <<n, 24>>) <=> SameStart(o, n, 3, 0)
    BY 24 = 8 * 3 + 0, WithinByBytes
  <2>3. SameBits(o[3 + 1], n[3 + 1], 0)
    BY DEF SameBits
  <2>4. Within(o, <<n, 24>>) <=> a = x /\ b = y /\ c = z
    BY <1>1, <1>3, <2>1, <2>2, <2>3 DEF SameStart
  <2> QED BY <2>4 DEF n
<1>7. Internal4(o) <=> \/ Within(o, <<<<0>>, 8>>) \/ Within(o, <<<<10>>, 8>>)
                       \/ Within(o, <<<<127>>, 8>>) \/ Within(o, <<<<169, 254>>, 16>>)
                       \/ Within(o, <<<<172, 16>>, 12>>) \/ Within(o, <<<<192, 168>>, 16>>)
                       \/ Within(o, <<<<100, 64>>, 10>>) \/ Within(o, <<<<192, 0, 0>>, 24>>)
                       \/ Within(o, <<<<198, 18>>, 15>>) \/ Within(o, <<<<224>>, 4>>)
                       \/ Within(o, <<<<240>>, 4>>)
  BY DEF Internal4, Networks4
<1>8. Internal4(o) <=> \/ a = 0 \/ a = 10 \/ a = 127 \/ (a = 169 /\ b = 254)
                       \/ (a = 172 /\ b \div 16 = 16 \div 16) \/ (a = 192 /\ b = 168)
                       \/ (a = 100 /\ b \div 64 = 64 \div 64) \/ (a = 192 /\ b = 0 /\ c = 0)
                       \/ (a = 198 /\ b \div 2 = 18 \div 2) \/ a \div 16 = 224 \div 16
                       \/ a \div 16 = 240 \div 16
  <2>1. /\ 0 \in Byte /\ 10 \in Byte /\ 127 \in Byte /\ 169 \in Byte /\ 254 \in Byte
        /\ 172 \in Byte /\ 16 \in Byte /\ 192 \in Byte /\ 168 \in Byte /\ 100 \in Byte
        /\ 64 \in Byte /\ 198 \in Byte /\ 18 \in Byte /\ 224 \in Byte /\ 240 \in Byte
    BY DEF Byte
  <2>2. /\ Within(o, <<<<0>>, 8>>) <=> a = 0
        /\ Within(o, <<<<10>>, 8>>) <=> a = 10
        /\ Within(o, <<<<127>>, 8>>) <=> a = 127
        /\ Within(o, <<<<224>>, 4>>) <=> a \div 16 = 224 \div 16
        /\ Within(o, <<<<240>>, 4>>) <=> a \div 16 = 240 \div 16
    BY <1>4, <2>1
  <2> DEFINE In16(x, y) == Within(o, <<<<x, y>>, 16>>) <=> a = x /\ b = y
             In15(x, y) == Within(o, <<<<x, y>>, 15>>) <=> a = x /\ b \div 2 = y \div 2
             In12(x, y) == Within(o, <<<<x, y>>, 12>>) <=> a = x /\ b \div 16 = y \div 16
             In10(x, y) == Within(o, <<<<x, y>>, 10>>) <=> a = x /\ b \div 64 = y \div 64
  <2>3. \A x, y \in Byte : In16(x, y) /\ In15(x, y) /\ In12(x, y) /\ In10(x, y)
    BY <1>5
  <2>4. In16(169, 254) /\ In16(192, 168) /\ In15(198, 18) /\ In12(172, 16) /\ In10(100, 64)
    <3> HIDE DEF In16, In15, In12, In10
    <3> QED BY <2>1, <2>3
  <2>5. Within(o, <<<<192, 0, 0>>, 24>>) <=> a = 192 /\ b = 0 /\ c = 0
    BY <1>6, <2>1
  <2> QED BY <1>7, <2>2, <2>4, <2>5
<1>9. /\ b \div 16 = 16 \div 16 <=> b \in 16 .. 31
      /\ b \div 64 = 64 \div 64 <=> b \in 64 .. 127
      /\ b \div 2 = 18 \div 2 <=> b \in {18, 19}
      /\ (a \div 16 = 224 \div 16 \/ a \div 16 = 240 \div 16) <=> a >= 224
  BY <1>2 DEF Byte
<1>10. Internal4(o) <=> IsBlockedIPv4Bytes(a, b, c)
  BY <1>2, <1>8, <1>9 DEF IsBlockedIPv4Bytes
<1> QED BY <1>1, <1>10

\* Sixteen bytes are a sequence.
LEMMA SixteenBytes ==
    ASSUME NEW b \in [1 .. 16 -> Byte]
    PROVE  /\ b \in Seq(Byte) /\ Len(b) = 16
           /\ SubSeq(b, 13, 16) = <<b[13], b[14], b[15], b[16]>>
           /\ SubSeq(b, 1, 12) = [i \in 1 .. 12 |-> b[i]]
           /\ SubSeq(b, 1, 4) = <<b[1], b[2], b[3], b[4]>>
<1>1. b \in Seq(Byte) /\ Len(b) = 16
  <2>1. b = [i \in 1 .. 16 |-> b[i]] /\ \A i \in 1 .. 16 : b[i] \in Byte
    OBVIOUS
  <2>2. [i \in 1 .. 16 |-> b[i]] \in Seq(Byte) /\ Len([i \in 1 .. 16 |-> b[i]]) = 16
    BY <2>1, IsASeq
  <2> QED BY <2>1, <2>2
<1>2. SubSeq(b, 1, 12) = [i \in 1 .. 12 |-> b[i]]
  BY <1>1
<1>3. ASSUME NEW m \in 0 .. 12
      PROVE  SubSeq(b, m + 1, m + 4) = <<b[m + 1], b[m + 2], b[m + 3], b[m + 4]>>
  <2> DEFINE s == SubSeq(b, m + 1, m + 4)
             t == <<b[m + 1], b[m + 2], b[m + 3], b[m + 4]>>
  <2>1. \A i \in m + 1 .. m + 4 : b[i] \in Byte
    OBVIOUS
  <2>2. s \in Seq(Byte) /\ Len(s) = 4 /\ \A i \in 1 .. 4 : s[i] = b[m + i]
    BY <1>1, <2>1
  <2>3. t \in Seq(Byte) /\ Len(t) = 4 /\ \A i \in 1 .. 4 : t[i] = b[m + i]
    BY <2>1
  <2> HIDE DEF s, t
  <2>4. \A i \in 1 .. 4 : s[i] = t[i]
    BY <2>2, <2>3
  <2>5. s \in Seq(Byte) /\ t \in Seq(Byte) /\ Len(s) = Len(t)
    BY <2>2, <2>3
  <2>6. \A i \in 1 .. Len(s) : s[i] = t[i]
    BY <2>2, <2>4
  <2>7. s = t
    BY ONLY <2>5, <2>6, SeqEqual
  <2> QED BY <2>7 DEF s, t
<1>4. /\ SubSeq(b, 0 + 1, 0 + 4) = <<b[0 + 1], b[0 + 2], b[0 + 3], b[0 + 4]>>
      /\ SubSeq(b, 12 + 1, 12 + 4) = <<b[12 + 1], b[12 + 2], b[12 + 3], b[12 + 4]>>
  <2>1. 0 \in 0 .. 12 /\ 12 \in 0 .. 12
    OBVIOUS
  <2> QED BY <1>3, <2>1
<1> QED BY <1>1, <1>2, <1>4

\* The same for IPv6, an IPv4 address in disguise included, but for multicast.
LEMMA RangesAreNetworks6 ==
    ASSUME NEW b \in [1 .. 16 -> Byte]
    PROVE  IsBlockedIPv6Bytes(b) <=> Internal6(b) /\ ~Within(b, Multicast6)
<1>1. \A j \in 1..16 : b[j] \in Byte
  OBVIOUS
<1>2. ASSUME NEW x \in Byte, NEW y \in Byte
      PROVE  /\ Within(b, <<<<x, y>>, 16>>) <=> b[1] = x /\ b[2] = y
             /\ Within(b, <<<<x, y>>, 10>>) <=> b[1] = x /\ b[2] \div 64 = y \div 64
  <2> DEFINE n == <<x, y>>
  <2>1. n[1] = x /\ n[2] = y
    OBVIOUS
  <2> HIDE DEF n
  <2>2. /\ SameBits(b[1], x, 8) <=> b[1] = x
        /\ SameBits(b[2], y, 8) <=> b[2] = y
        /\ SameBits(b[2], y, 2) <=> b[2] \div 64 = y \div 64
    BY <1>1, BitsAreDigits
  <2>3. Within(b, <<n, 16>>) <=> SameStart(b, n, 2, 0)
    BY 16 = 8 * 2 + 0, WithinByBytes
  <2>4. Within(b, <<n, 10>>) <=> SameStart(b, n, 1, 2)
    BY 10 = 8 * 1 + 2, WithinByBytes
  <2>5. Within(b, <<n, 16>>) <=> b[1] = x /\ b[2] = y
    BY <2>1, <2>2, <2>3 DEF SameStart, SameBits
  <2>6. Within(b, <<n, 10>>) <=> b[1] = x /\ b[2] \div 64 = y \div 64
    BY <2>1, <2>2, <2>4 DEF SameStart
  <2> QED BY <2>5, <2>6 DEF n
<1>11. Within(b, Multicast6) <=> b[1] = 255
  <2> DEFINE n == <<255>>
  <2>1. n[1] = 255 /\ 255 \in Byte
    BY DEF Byte
  <2> HIDE DEF n
  <2>2. Within(b, <<n, 8>>) <=> SameStart(b, n, 1, 0)
    BY 8 = 8 * 1 + 0, WithinByBytes
  <2>3. SameBits(b[1], 255, 8) <=> b[1] = 255
    BY <1>1, <2>1, BitsAreDigits
  <2>4. Within(b, <<n, 8>>) <=> b[1] = 255
    BY <2>1, <2>2, <2>3 DEF SameStart, SameBits
  <2> QED BY <2>4 DEF n, Multicast6
<1>3. Within(b, <<<<252>>, 7>>) <=> b[1] \div 2 = 126
  <2> DEFINE n == <<252>>
  <2>1. n[1] = 252 /\ 252 \in Byte /\ 252 \div 2 = 126
    BY DEF Byte
  <2> HIDE DEF n
  <2>2. Within(b, <<n, 7>>) <=> SameStart(b, n, 0, 7)
    BY 7 = 8 * 0 + 7, WithinByBytes
  <2>3. SameBits(b[1], 252, 7) <=> b[1] \div 2 = 126
    BY <1>1, <2>1, BitsAreDigits
  <2>4. Within(b, <<n, 7>>) <=> b[1] \div 2 = 126
    BY <2>1, <2>2, <2>3 DEF SameStart
  <2> QED BY <2>4 DEF n
<1> DEFINE nat64 == <<0, 100, 255, 155, 0, 0, 0, 0, 0, 0, 0, 0>>
<1>4. Within(b, <<nat64, 96>>)
          <=> /\ b[1] = 0 /\ b[2] = 100 /\ b[3] = 255 /\ b[4] = 155
              /\ \A i \in 5 .. 12 : b[i] = 0
  <2>1. /\ nat64[1] = 0 /\ nat64[2] = 100 /\ nat64[3] = 255 /\ nat64[4] = 155
        /\ \A i \in 5 .. 12 : nat64[i] = 0
    OBVIOUS
  <2> HIDE DEF nat64
  <2>2. \A j \in 1..12 : nat64[j] \in Byte
    BY <2>1 DEF Byte
  <2>3. \A j \in 1..12 : SameBits(b[j], nat64[j], 8) <=> b[j] = nat64[j]
    BY <1>1, <2>2, BitsAreDigits
  <2>4. Within(b, <<nat64, 96>>) <=> SameStart(b, nat64, 12, 0)
    BY 96 = 8 * 12 + 0, WithinByBytes
  <2>5. Within(b, <<nat64, 96>>) <=> \A j \in 1..12 : b[j] = nat64[j]
    BY <2>3, <2>4 DEF SameStart, SameBits
  <2> QED BY <2>1, <2>5
<1>5. (\E n \in Networks6 : Within(b, n))
          <=> \/ Within(b, <<nat64, 96>>)
              \/ Within(b, <<<<32, 2>>, 16>>)
              \/ Within(b, <<<<254, 128>>, 10>>)
              \/ Within(b, <<<<254, 192>>, 10>>)
              \/ Within(b, <<<<252>>, 7>>)
              \/ Within(b, Multicast6)
  BY DEF Networks6
<1> HIDE DEF nat64
<1>6. (\E n \in Networks6 : Within(b, n))
          <=> \/ SubSeq(b, 1, 4) = <<0, 100, 255, 155>> /\ \A i \in 5 .. 12 : b[i] = 0
              \/ b[1] = 32 /\ b[2] = 2
              \/ b[1] = 254 /\ b[2] \div 64 \in {2, 3}
              \/ b[1] \div 2 = 126
              \/ b[1] = 255
  <2> DEFINE In16(x, y) == Within(b, <<<<x, y>>, 16>>) <=> b[1] = x /\ b[2] = y
             In10(x, y) == Within(b, <<<<x, y>>, 10>>) <=> b[1] = x /\ b[2] \div 64 = y \div 64
  <2>1. \A x, y \in Byte : In16(x, y) /\ In10(x, y)
    BY <1>2
  <2>2. In16(32, 2) /\ In10(254, 128) /\ In10(254, 192)
    <3>1. 32 \in Byte /\ 2 \in Byte /\ 254 \in Byte /\ 128 \in Byte /\ 192 \in Byte
      BY DEF Byte
    <3> HIDE DEF In16, In10
    <3> QED BY <2>1, <3>1
  <2>3. SubSeq(b, 1, 4) = <<0, 100, 255, 155>>
            <=> b[1] = 0 /\ b[2] = 100 /\ b[3] = 255 /\ b[4] = 155
    BY SixteenBytes
  <2>4. 128 \div 64 = 2 /\ 192 \div 64 = 3
    OBVIOUS
  <2> QED BY <1>3, <1>4, <1>5, <1>11, <2>2, <2>3, <2>4
<1>7. SubSeq(b, 1, 12) \in {[i \in 1 .. 12 |-> 0], [i \in 1 .. 12 |-> IF i > 10 THEN 255 ELSE 0]}
          <=> HoldsIPv4(b)
  <2>1. SubSeq(b, 1, 12) = [i \in 1 .. 12 |-> 0] <=> \A i \in 1..12 : b[i] = 0
    BY SixteenBytes
  <2>2. SubSeq(b, 1, 12) = [i \in 1 .. 12 |-> IF i > 10 THEN 255 ELSE 0]
            <=> \A i \in 1..12 : b[i] = IF i > 10 THEN 255 ELSE 0
    BY SixteenBytes
  <2>3. (\A i \in 1..12 : b[i] = IF i > 10 THEN 255 ELSE 0)
            <=> (\A i \in 1..10 : b[i] = 0) /\ b[11] = 255 /\ b[12] = 255
    OBVIOUS
  <2> QED BY <2>1, <2>2, <2>3 DEF HoldsIPv4, Zeros
<1>8. Internal4(SubSeq(b, 13, 16)) <=> IsBlockedIPv4Bytes(b[13], b[14], b[15])
  <2> DEFINE o == SubSeq(b, 13, 16)
  <2>1. o \in [1 .. 4 -> Byte] /\ o[1] = b[13] /\ o[2] = b[14] /\ o[3] = b[15]
    BY <1>1, SixteenBytes
  <2> HIDE DEF o
  <2>2. Internal4(o) <=> IsBlockedIPv4Bytes(b[13], b[14], b[15])
    BY <2>1, RangesAreNetworks4
  <2> QED BY <2>2 DEF o
<1>9. CASE HoldsIPv4(b)
  <2>1. b[1] = 0 /\ b[2] = 0
    BY <1>9 DEF HoldsIPv4, Zeros
  <2>2. ~\E n \in Networks6 : Within(b, n)
    BY <1>6, <2>1, SixteenBytes
  <2> QED BY <1>7, <1>8, <1>9, <1>11, <2>1, <2>2 DEF Internal6, IsBlockedIPv6Bytes
<1>10. CASE ~HoldsIPv4(b)
  <2>1. b[1] = 255 => /\ SubSeq(b, 1, 4) # <<0, 100, 255, 155>>
                      /\ b[1] # 32 /\ b[1] # 254 /\ b[1] \div 2 # 126
    BY SixteenBytes
  <2> QED BY <1>6, <1>7, <1>10, <1>11, <2>1 DEF Internal6, IsBlockedIPv6Bytes
<1> QED BY <1>9, <1>10

-----------------------------------------------------------------------------
(* Addresses: what is parsed is what is spelt *)

\* FlattenSeq() of the community modules makes one sequence of many.
LEMMA Flattened ==
    ASSUME NEW S, NEW s \in Seq(Seq(S))
    PROVE  FlattenSeq(s) \in Seq(S)
<1> DEFINE Step(f, i) == IF i = 1 THEN s[i] ELSE f[i - 1] \o s[i]
           On(f, n) == f = [i \in 1..n |-> Step(f, i)]
           P == {n \in Nat : \E f : On(f, n)}
           N == Len(s)
<1>1. 0 \in P
  <2>1. On(<<>>, 0)
    OBVIOUS
  <2> HIDE DEF On
  <2> QED BY <2>1
<1>2. ASSUME NEW n \in Nat, n \in P
      PROVE  n + 1 \in P
  <2>1. PICK f : On(f, n)
    BY <1>2
  <2> DEFINE g == [i \in 1..(n + 1) |-> Step(f, i)]
  <2>2. \A i \in 1..n : g[i] = f[i]
    <3> HIDE DEF Step
    <3>1. f = [i \in 1..n |-> Step(f, i)]
      BY <2>1
    <3>2. \A i \in 1..n : f[i] = Step(f, i)
      BY <3>1, Zenon
    <3>3. \A i \in 1..n : i \in 1..(n + 1)
      OBVIOUS
    <3> QED BY <3>2, <3>3
  <2>3. \A i \in 1..(n + 1) : Step(g, i) = Step(f, i)
    <3> HIDE DEF g
    <3>1. \A i \in 1..(n + 1) : i # 1 => i - 1 \in 1..n
      OBVIOUS
    <3> QED BY <2>2, <3>1
  <2>4. On(g, n + 1)
    BY <2>3
  <2> HIDE DEF On, g
  <2> QED BY <2>4
<1>3. N \in Nat
  OBVIOUS
<1>4. PICK h : On(h, N)
  <2> HIDE DEF P
  <2>1. N \in P
    BY <1>1, <1>2, <1>3, NatInd
  <2> QED BY <2>1 DEF P
<1> DEFINE flatten == CHOOSE f : On(f, N)
<1>5. On(flatten, N)
  <2> HIDE DEF On
  <2> QED BY <1>4
<1>6. FlattenSeq(s) = IF N = 0 THEN s ELSE flatten[N]
  BY DEF FlattenSeq
<1>7. \A i \in 1..N : flatten[i] \in Seq(S)
  <2> DEFINE Q == {n \in Nat : n \in 1..N => flatten[n] \in Seq(S)}
  <2>1. \A i \in 1..N : s[i] \in Seq(S)
    OBVIOUS
  <2>2. \A i \in 1..N : flatten[i] = Step(flatten, i)
    BY <1>5
  <2> HIDE DEF flatten
  <2>3. \A n \in Nat : n \in Q => n + 1 \in Q
    <3> SUFFICES ASSUME NEW n \in Nat, n \in Q, n + 1 \in 1..N
                 PROVE  flatten[n + 1] \in Seq(S)
      <4>1. \A n \in Nat : n + 1 \in Nat
        OBVIOUS
      <4> QED BY <4>1
    <3>1. CASE n = 0
      BY <2>1, <2>2, <3>1
    <3>2. CASE n # 0
      <4>1. n \in 1..N /\ (n + 1) - 1 = n /\ n + 1 # 1
        BY <1>3, <3>2
      <4>2. flatten[n] \in Seq(S)
        BY <4>1
      <4>3. flatten[n + 1] = flatten[n] \o s[n + 1]
        BY <2>2, <4>1
      <4> QED BY <2>1, <4>2, <4>3
    <3> QED BY <3>1, <3>2
  <2>4. 0 \in Q
    OBVIOUS
  <2> HIDE DEF Q
  <2>5. Nat \subseteq Q
    BY <2>3, <2>4, NatInd
  <2> QED BY <1>3, <2>5 DEF Q
<1>8. CASE N = 0
  BY <1>6, <1>8
<1>9. CASE N # 0
  <2>1. N \in 1..N
    BY <1>3, <1>9
  <2> QED BY <1>6, <1>7, <1>9, <2>1
<1> QED BY <1>8, <1>9

\* What is put together of three sequences.
Joins(S, L, Z, R, c) ==
    /\ c \in Seq(S) /\ Len(c) = Len(L) + Len(Z) + Len(R)
    /\ \A i \in 1..Len(L) : c[i] = L[i]
    /\ \A i \in 1..Len(Z) : c[Len(L) + i] = Z[i]
    /\ \A i \in 1..Len(R) : c[Len(L) + Len(Z) + i] = R[i]

\* Its elements are theirs.
LEMMA ThreeParts ==
    ASSUME NEW S, NEW L \in Seq(S), NEW Z \in Seq(S), NEW R \in Seq(S)
    PROVE  Joins(S, L, Z, R, L \o Z \o R)
<1> DEFINE l == Len(L)
           m == Len(Z)
           r == Len(R)
           B == L \o Z
           b == B \o R
<1>0. l \in Nat /\ m \in Nat /\ r \in Nat
  OBVIOUS
<1>1. /\ B \in Seq(S) /\ Len(B) = l + m
      /\ \A i \in 1..(l + m) : B[i] = IF i <= l THEN L[i] ELSE Z[i - l]
  BY ConcatProperties
<1> HIDE DEF l, m, r
<1>2. /\ \A i \in 1..l : B[i] = L[i]
      /\ \A i \in 1..m : B[l + i] = Z[i]
  <2> HIDE DEF b, B
  <2>1. \A i \in 1..l : i \in 1..(l + m) /\ i <= l
    BY <1>0
  <2>2. \A i \in 1..m : l + i \in 1..(l + m) /\ ~(l + i <= l) /\ (l + i) - l = i
    BY <1>0
  <2>3. \A i \in 1..l : B[i] = L[i]
    BY <1>1, <2>1
  <2>4. \A i \in 1..m : B[l + i] = Z[i]
    <3> SUFFICES ASSUME NEW i \in 1..m PROVE B[l + i] = Z[i]
      OBVIOUS
    <3>1. B[l + i] = IF l + i <= l THEN L[l + i] ELSE Z[(l + i) - l]
      BY <1>1, <2>2
    <3> QED BY <2>2, <3>1
  <2> QED BY <2>3, <2>4
<1> HIDE DEF B
<1> DEFINE k == l + m
<1>3. k \in Nat /\ Len(B) = k
  BY <1>0, <1>1
<1> HIDE DEF k
<1>4. /\ b \in Seq(S) /\ Len(b) = k + r
      /\ \A i \in 1..(k + r) : b[i] = IF i <= k THEN B[i] ELSE R[i - k]
  <2>1. B \in Seq(S)
    BY <1>1
  <2>2. /\ b \in Seq(S) /\ Len(b) = Len(B) + Len(R)
        /\ \A i \in 1..(Len(B) + Len(R)) : b[i] = IF i <= Len(B) THEN B[i] ELSE R[i - Len(B)]
    BY <2>1, ConcatProperties
  <2> HIDE DEF b
  <2> QED BY <1>3, <2>2 DEF r
<1> HIDE DEF b
<1>5. /\ \A i \in 1..k : b[i] = B[i]
      /\ \A i \in 1..r : b[k + i] = R[i]
  <2>1. \A i \in 1..k : i \in 1..(k + r) /\ i <= k
    BY <1>0, <1>3
  <2>2. \A i \in 1..r : k + i \in 1..(k + r) /\ ~(k + i <= k) /\ (k + i) - k = i
    BY <1>0, <1>3
  <2> QED BY <1>4, <2>1, <2>2
<1>6. /\ \A i \in 1..l : i \in 1..k
      /\ \A i \in 1..m : l + i \in 1..k
  BY <1>0 DEF k
<1>7. b \in Seq(S) /\ Len(b) = l + m + r
  BY <1>0, <1>4 DEF k
<1>8. /\ \A i \in 1..l : b[i] = L[i]
      /\ \A i \in 1..m : b[l + i] = Z[i]
  BY <1>2, <1>5, <1>6
<1>9. \A i \in 1..r : b[l + m + i] = R[i]
  BY <1>0, <1>5 DEF k
<1> QED BY <1>7, <1>8, <1>9 DEF Joins, b, B, l, m, r

\* The elements of a part of a sequence.
LEMMA PartOf ==
    ASSUME NEW S, NEW s \in Seq(S), NEW a \in Nat, NEW k \in Nat, a + k <= Len(s)
    PROVE  LET t == SubSeq(s, a + 1, a + k)
           IN t \in Seq(S) /\ Len(t) = k /\ \A i \in 1..k : t[i] = s[a + i]
<1>1. \A i \in a + 1 .. a + k : s[i] \in S
  OBVIOUS
<1>2. \A i \in 1..k : (a + 1) + i - 1 = a + i
  OBVIOUS
<1>3. (a + k) - (a + 1) + 1 = k /\ (a + 1 <= a + k <=> k # 0) /\ a + 1 \in Int /\ a + k \in Int
  OBVIOUS
<1> DEFINE t == SubSeq(s, a + 1, a + k)
<1>4. /\ t \in Seq(S)
      /\ Len(t) = IF a + 1 <= a + k THEN (a + k) - (a + 1) + 1 ELSE 0
      /\ \A i \in 1..((a + k) - (a + 1) + 1) : t[i] = s[(a + 1) + i - 1]
  BY <1>1, <1>3, SubSeqProperties
<1> HIDE DEF t
<1>5. Len(t) = k
  BY <1>3, <1>4
<1>6. \A i \in 1..k : t[i] = s[a + i]
  BY <1>2, <1>3, <1>4
<1> QED BY <1>4, <1>5, <1>6 DEF t

\* Two ends, L and R, and m times z between them.
Ends(S, L, z, m, R, b) ==
    LET l == Len(L)
        r == Len(R)
    IN /\ b \in [1..(l + m + r) -> S]
       /\ SubSeq(b, 1, l) = L
       /\ SubSeq(b, l + m + 1, l + m + r) = R
       /\ \A i \in l + 1 .. l + m : b[i] = z

\* What is put together of two ends and a filling can be taken apart again.
LEMMA PutTogether ==
    ASSUME NEW S, NEW L \in Seq(S), NEW R \in Seq(S), NEW z \in S, NEW m \in Nat
    PROVE  Ends(S, L, z, m, R, L \o [i \in 1..m |-> z] \o R)
<1> DEFINE l == Len(L)
           r == Len(R)
<1>0. l \in Nat /\ r \in Nat /\ Len(L) = l /\ Len(R) = r
  OBVIOUS
<1> HIDE DEF l, r
<1> DEFINE Z == [i \in 1..m |-> z]
           b == L \o Z \o R
<1>1. Z \in Seq(S) /\ Len(Z) = m /\ \A i \in 1..m : Z[i] = z
  OBVIOUS
<1> HIDE DEF Z
<1>2. /\ b \in Seq(S) /\ Len(b) = l + m + r
      /\ \A i \in 1..l : b[i] = L[i]
      /\ \A i \in 1..m : b[l + i] = Z[i]
      /\ \A i \in 1..r : b[l + m + i] = R[i]
  <2>1. Z \in Seq(S) /\ Len(Z) = m
    BY <1>1
  <2>2. b = L \o Z \o R
    OBVIOUS
  <2> HIDE DEF b
  <2>3. Joins(S, L, Z, R, b)
    BY <2>1, <2>2, ThreeParts
  <2> QED BY <1>0, <2>1, <2>3 DEF Joins
<1> HIDE DEF b
<1>3. b \in [1..(l + m + r) -> S]
  BY <1>0, <1>2
<1>4. SubSeq(b, 1, l) = L
  <2> DEFINE s == SubSeq(b, 0 + 1, 0 + l)
  <2>1. s \in Seq(S) /\ Len(s) = l /\ \A i \in 1..l : s[i] = b[0 + i]
    <3>1. 0 \in Nat /\ 0 + l <= Len(b)
      BY <1>0, <1>2
    <3> QED BY <1>0, <1>2, <3>1, PartOf
  <2> HIDE DEF s
  <2>2. \A i \in 1..l : s[i] = L[i]
    BY <1>0, <1>2, <2>1
  <2>3. s = L
    BY <1>0, <2>1, <2>2, SeqEqual
  <2> QED BY <1>0, <2>3 DEF s
<1>5. SubSeq(b, l + m + 1, l + m + r) = R
  <2> DEFINE k == l + m
             s == SubSeq(b, k + 1, k + r)
  <2>1. k \in Nat /\ k + r <= Len(b)
    BY <1>0, <1>2
  <2>2. \A i \in 1..r : b[k + i] = R[i]
    BY <1>0, <1>2
  <2> HIDE DEF k
  <2>3. s \in Seq(S) /\ Len(s) = r /\ \A i \in 1..r : s[i] = b[k + i]
    BY <1>0, <1>2, <2>1, PartOf
  <2> HIDE DEF s
  <2>4. s = R
    BY <1>0, <2>2, <2>3, SeqEqual
  <2> QED BY <2>4 DEF s, k
<1>6. ASSUME NEW i \in l + 1 .. l + m
      PROVE  b[i] = z
  <2>1. i - l \in 1..m /\ l + (i - l) = i
    BY <1>0
  <2> QED BY <1>1, <1>2, <2>1
<1> QED BY <1>3, <1>4, <1>5, <1>6 DEF Ends, b, Z, l, r

\* b is its first p elements, m times z and its last r elements.
Consists(S, b, p, z, m, r) ==
    LET L == SubSeq(b, 1, p)
        R == SubSeq(b, p + m + 1, p + m + r)
    IN /\ L \in Seq(S) /\ Len(L) = p
       /\ R \in Seq(S) /\ Len(R) = r
       /\ L \o [i \in 1..m |-> z] \o R = b

\* What has one value from p + 1 to p + m is its two ends and a filling.
LEMMA TakenApart ==
    ASSUME NEW S, NEW b \in Seq(S), NEW z \in S,
           NEW p \in Nat, NEW m \in Nat, NEW r \in Nat, Len(b) = p + m + r,
           \A i \in p + 1 .. p + m : b[i] = z
    PROVE  Consists(S, b, p, z, m, r)
<1> DEFINE L == SubSeq(b, 0 + 1, 0 + p)
           k == p + m
           R == SubSeq(b, k + 1, k + r)
           Z == [i \in 1..m |-> z]
<1>1. L \in Seq(S) /\ Len(L) = p /\ \A i \in 1..p : L[i] = b[i]
  <2>1. 0 \in Nat /\ 0 + p <= Len(b)
    OBVIOUS
  <2>2. L \in Seq(S) /\ Len(L) = p /\ \A i \in 1..p : L[i] = b[0 + i]
    BY <2>1, PartOf
  <2> HIDE DEF L
  <2> QED BY <2>2
<1>2. R \in Seq(S) /\ Len(R) = r /\ \A i \in 1..r : R[i] = b[k + i]
  <2>1. k \in Nat /\ k + r <= Len(b)
    OBVIOUS
  <2> HIDE DEF k
  <2> QED BY <2>1, PartOf
<1>3. Z \in Seq(S) /\ Len(Z) = m /\ \A i \in 1..m : Z[i] = z
  OBVIOUS
<1> HIDE DEF L, R, Z
<1> DEFINE c == L \o Z \o R
<1>4. /\ c \in Seq(S) /\ Len(c) = p + m + r
      /\ \A i \in 1..p : c[i] = L[i]
      /\ \A i \in 1..m : c[p + i] = Z[i]
      /\ \A i \in 1..r : c[p + m + i] = R[i]
  <2>1. /\ L \in Seq(S) /\ Z \in Seq(S) /\ R \in Seq(S)
        /\ Len(L) = p /\ Len(Z) = m /\ Len(R) = r
    BY <1>1, <1>2, <1>3
  <2>2. c = L \o Z \o R
    OBVIOUS
  <2> HIDE DEF c
  <2>3. Joins(S, L, Z, R, c)
    BY <2>1, <2>2, ThreeParts
  <2> QED BY <2>1, <2>3 DEF Joins
<1> HIDE DEF c
<1>5. ASSUME NEW i \in 1..(p + m + r)
      PROVE  c[i] = b[i]
  <2>1. CASE i <= p
    BY <1>1, <1>4, <2>1
  <2>2. CASE p < i /\ i <= p + m
    <3>1. i - p \in 1..m /\ p + (i - p) = i /\ i \in p + 1 .. p + m
      BY <2>2
    <3> QED BY <1>3, <1>4, <3>1
  <2>3. CASE p + m < i
    <3> DEFINE j == i - (p + m)
    <3>1. j \in 1..r /\ k + j = i /\ p + m + j = i
      BY <2>3
    <3> HIDE DEF j, k
    <3> QED BY <1>2, <1>4, <3>1
  <2> QED BY <2>1, <2>2, <2>3
<1>6. c = b
  <2> DEFINE N == p + m + r
  <2>1. N \in Nat /\ Len(b) = N /\ Len(c) = N /\ \A i \in 1..N : c[i] = b[i]
    BY <1>4, <1>5
  <2> HIDE DEF N
  <2> QED BY <1>4, <2>1, SeqEqual
<1> QED BY <1>1, <1>2, <1>6 DEF Consists, c, L, R, Z

\* L and R put together with z between them up to a length of N, if that is allowed.
Fill(N, L, R, z, gap, none) ==
    LET missing == N - Len(L) - Len(R)
    IN IF missing < 0 \/ (missing > 0 /\ ~gap) THEN none
       ELSE L \o [i \in 1 .. missing |-> z] \o R

\* What has these ends, and z between them.
Fillings(N, S, L, R, z, gap) ==
    {bytes \in [1..N -> S] :
        \E p, q \in 0 .. N :
           /\ p <= q
           /\ L = SubSeq(bytes, 1, p)
           /\ R = SubSeq(bytes, q + 1, N)
           /\ IF gap THEN \A i \in p + 1 .. q : bytes[i] = z ELSE p = q}

\* They are put together to the only filling, if there is one.
LEMMA Filled ==
    ASSUME NEW N \in Nat, NEW S, NEW L \in Seq(S), NEW R \in Seq(S), NEW z \in S,
           NEW gap \in BOOLEAN, NEW none
    PROVE  LET parsed == Fill(N, L, R, z, gap, none)
               Spelt == Fillings(N, S, L, R, z, gap)
           IN /\ parsed # none => parsed \in Spelt
              /\ \A bytes \in Spelt : parsed = bytes
<1> DEFINE parsed == Fill(N, L, R, z, gap, none)
           Spelt == Fillings(N, S, L, R, z, gap)
<1> DEFINE l == Len(L)
           r == Len(R)
           m == N - l - r
<1>1. l \in Nat /\ r \in Nat /\ m \in Int
  OBVIOUS
<1>2. parsed = IF m < 0 \/ (m > 0 /\ ~gap) THEN none ELSE L \o [i \in 1 .. m |-> z] \o R
  BY DEF Fill
<1> HIDE DEF parsed, Spelt, l, r
<1>3. ASSUME parsed # none
      PROVE  parsed \in Spelt
  <2>1. m \in Nat /\ l + m + r = N /\ (gap \/ m = 0)
    <3> HIDE DEF m
    <3>1. ~(m < 0 \/ (m > 0 /\ ~gap))
      BY <1>2, <1>3
    <3>2. m \in Nat /\ (gap \/ m = 0)
      BY <1>1, <3>1
    <3> QED BY <1>1, <3>2 DEF m
  <2>2. parsed = L \o [i \in 1 .. m |-> z] \o R
    <3> HIDE DEF m
    <3>1. ~(m < 0 \/ (m > 0 /\ ~gap))
      BY <2>1
    <3> QED BY <1>2, <3>1
  <2> HIDE DEF m
  <2>3. /\ parsed \in [1..(l + m + r) -> S]
        /\ SubSeq(parsed, 1, l) = L
        /\ SubSeq(parsed, l + m + 1, l + m + r) = R
        /\ \A i \in l + 1 .. l + m : parsed[i] = z
    <3>1. Ends(S, L, z, m, R, parsed)
      BY <2>1, <2>2, PutTogether
    <3> QED BY <3>1 DEF Ends, l, r
  <2> DEFINE q == l + m
  <2>4. l \in 0..N /\ q \in 0..N /\ l <= q /\ (~gap => l = q)
    BY <1>1, <2>1
  <2>5. /\ parsed \in [1..N -> S]
        /\ SubSeq(parsed, 1, l) = L
        /\ SubSeq(parsed, q + 1, N) = R
        /\ \A i \in l + 1 .. q : parsed[i] = z
    BY <2>1, <2>3
  <2> HIDE DEF q
  <2> QED BY <2>4, <2>5 DEF Spelt, Fillings
<1>4. ASSUME NEW bytes \in Spelt
      PROVE  parsed = bytes
  <2>1. bytes \in [1..N -> S]
    BY DEF Spelt, Fillings
  <2>2. PICK p \in 0 .. N, q \in 0 .. N :
           /\ p <= q
           /\ L = SubSeq(bytes, 1, p)
           /\ R = SubSeq(bytes, q + 1, N)
           /\ IF gap THEN \A i \in p + 1 .. q : bytes[i] = z ELSE p = q
    BY DEF Spelt, Fillings
  <2> DEFINE k == q - p
             e == N - q
  <2>3. k \in Nat /\ e \in Nat /\ p \in Nat /\ p + k = q /\ p + k + e = N
    BY <2>2
  <2>4. bytes \in Seq(S) /\ Len(bytes) = p + k + e
    BY <2>1, <2>3
  <2>5. \A i \in p + 1 .. p + k : bytes[i] = z
    BY <2>2, <2>3
  <2> HIDE DEF k, e
  <2>6. /\ SubSeq(bytes, 1, p) \in Seq(S) /\ Len(SubSeq(bytes, 1, p)) = p
        /\ SubSeq(bytes, p + k + 1, p + k + e) \in Seq(S)
        /\ Len(SubSeq(bytes, p + k + 1, p + k + e)) = e
        /\ SubSeq(bytes, 1, p) \o [i \in 1..k |-> z] \o SubSeq(bytes, p + k + 1, p + k + e) = bytes
    <3>1. Consists(S, bytes, p, z, k, e)
      BY <2>3, <2>4, <2>5, TakenApart
    <3> QED BY <3>1 DEF Consists
  <2>7. l = p /\ r = e /\ L \o [i \in 1..k |-> z] \o R = bytes
    BY <2>2, <2>3, <2>6 DEF l, r
  <2>8. k > 0 => gap
    BY <2>2, <2>3
  <2>9. m = k
    BY <1>1, <2>3, <2>7
  <2>10. ~(m < 0 \/ (m > 0 /\ ~gap))
    <3> HIDE DEF m
    <3> QED BY <2>3, <2>8, <2>9
  <2> HIDE DEF m
  <2> QED BY <1>2, <2>7, <2>9, <2>10
<1> QED BY <1>3, <1>4 DEF parsed, Spelt

\* What is parsed are the bytes that the text spells, and the only ones.
LEMMA ParsesWhatIsSpelt ==
    ASSUME NEW text \in Texts, text.form = "v6"
    PROVE  LET parsed == ParseIPv6ToBytes(text)
           IN /\ parsed # Unparsed => parsed \in [1..16 -> Byte] /\ Spells(text, parsed)
              /\ \A bytes \in [1..16 -> Byte] :
                    Spells(text, bytes) => parsed = bytes
<1> DEFINE L == FlattenSeq(text.left)
           R == FlattenSeq(text.right)
           parsed == ParseIPv6ToBytes(text)
           Spelt == {bytes \in [1..16 -> Byte] : Spells(text, bytes)}
<1>1. text.left \in Seq(Seq(Byte)) /\ text.right \in Seq(Seq(Byte)) /\ text.gap \in BOOLEAN
  BY DEF Texts
<1>2. L \in Seq(Byte) /\ R \in Seq(Byte)
  BY <1>1, Flattened
<1>3. parsed = Fill(16, L, R, 0, text.gap, Unparsed)
  BY DEF ParseIPv6ToBytes, Fill
<1>4. Spelt = Fillings(16, Byte, L, R, 0, text.gap)
  BY DEF Spells, Fillings
<1>5. 0 \in Byte /\ 16 \in Nat
  BY DEF Byte
<1> HIDE DEF L, R, parsed, Spelt
<1>6. /\ parsed # Unparsed => parsed \in Spelt
      /\ \A bytes \in Spelt : parsed = bytes
  BY <1>1, <1>2, <1>3, <1>4, <1>5, Filled
<1> QED BY <1>6 DEF parsed, Spelt

\* An address is rejected just when it is not outside the internal networks and
\* no IPv6 multicast.
THEOREM BlockedIsInternal ==
    ASSUME NEW text \in Texts
    PROVE  IsBlockedAddress(text) <=> ~Outside(text) /\ ~IsMulticast6(text)
<1> USE DEF IsMulticast6
<1>1. CASE text.form = "none"
  BY <1>1 DEF IsBlockedAddress, Outside
<1>2. CASE text.form = "v4"
  <2>1. text.octets \in [1..4 -> Byte]
    BY <1>2 DEF Texts
  <2>2. IsBlockedIPv4Bytes(text.octets[1], text.octets[2], text.octets[3])
           <=> Internal4(text.octets)
    BY <2>1, RangesAreNetworks4
  <2> QED BY <1>2, <2>2 DEF IsBlockedAddress, Outside
<1>3. CASE text.form = "v6"
  <2> DEFINE parsed == ParseIPv6ToBytes(text)
  <2>1. IsBlockedAddress(text) <=> parsed = Unparsed \/ IsBlockedIPv6Bytes(parsed)
    BY <1>3 DEF IsBlockedAddress
  <2>2. Outside(text) <=> \E bytes \in [1..16 -> Byte] : Spells(text, bytes) /\ ~Internal6(bytes)
    BY <1>3 DEF Outside
  <2>3. /\ parsed # Unparsed => parsed \in [1..16 -> Byte] /\ Spells(text, parsed)
        /\ \A bytes \in [1..16 -> Byte] : Spells(text, bytes) => parsed = bytes
    BY <1>3, ParsesWhatIsSpelt
  <2>4. Unparsed \notin [1..16 -> Byte]
    BY DEF Unparsed
  <2> HIDE DEF parsed
  <2>5. \A bytes \in [1..16 -> Byte] :
            IsBlockedIPv6Bytes(bytes) <=> Internal6(bytes) /\ ~Within(bytes, Multicast6)
    BY RangesAreNetworks6
  <2>6. IsMulticast6(text) <=> \E bytes \in [1..16 -> Byte] :
                                   Spells(text, bytes) /\ Within(bytes, Multicast6)
    BY <1>3
  <2> HIDE DEF IsMulticast6
  <2>7. CASE parsed = Unparsed
    BY <2>1, <2>2, <2>3, <2>4, <2>6, <2>7
  <2>8. CASE parsed # Unparsed
    <3>1. Outside(text) <=> ~Internal6(parsed)
      BY <2>2, <2>3, <2>8
    <3>2. IsMulticast6(text) <=> Within(parsed, Multicast6)
      BY <2>3, <2>6, <2>8
    <3> QED BY <2>1, <2>3, <2>5, <2>8, <3>1, <3>2
  <2> QED BY <2>7, <2>8
<1> QED BY <1>1, <1>2, <1>3 DEF Texts

-----------------------------------------------------------------------------
(* Names: isAllowedHost() compares labels *)

\* What there is to read into: at least one label.
Labelled == {labels \in Seq(Seq(Char)) : labels # <<>>}

\* What reading one character does to the labels.
LEMMA ReadIntoLabels ==
    ASSUME NEW labels \in Labelled, NEW c \in Char
    PROVE  LET r == ReadInto(labels, c)
               n == Len(labels)
           IN /\ r \in Labelled /\ n \in Nat \ {0}
              /\ c = "." => /\ Len(r) = n + 1 /\ r[n + 1] = <<>>
                            /\ \A i \in 1..n : r[i] = labels[i]
              /\ c # "." => /\ Len(r) = n
                            /\ r[n] = Append(labels[n], Lower[c])
                            /\ \A i \in 1..(n - 1) : r[i] = labels[i]
<1> DEFINE r == ReadInto(labels, c)
           n == Len(labels)
<1>1. labels \in Seq(Seq(Char)) /\ n \in Nat \ {0}
  BY DEF Labelled
<1>2. CASE c = "."
  <2>1. r = Append(labels, <<>>)
    BY <1>2 DEF ReadInto
  <2>2. <<>> \in Seq(Char)
    OBVIOUS
  <2> HIDE DEF r
  <2>3. r \in Seq(Seq(Char)) /\ Len(r) = n + 1 /\ r[n + 1] = <<>>
        /\ \A i \in 1..n : r[i] = labels[i]
    BY <1>1, <2>1, <2>2
  <2>4. r # <<>>
    BY <1>1, <2>3
  <2> QED BY <1>1, <1>2, <2>3, <2>4 DEF r, Labelled
<1>3. CASE c # "."
  <2> DEFINE e == Append(labels[n], Lower[c])
  <2>1. r = [labels EXCEPT ![n] = e]
    BY <1>3 DEF ReadInto
  <2>2. e \in Seq(Char) /\ n \in 1..n
    BY <1>1, CharAssumption
  <2> HIDE DEF r, e
  <2>3. r \in Seq(Seq(Char)) /\ Len(r) = n
        /\ \A j \in 1..n : r[j] = IF j = n THEN e ELSE labels[j]
    BY <1>1, <2>1, <2>2, ExceptSeq
  <2>4. r # <<>> /\ r[n] = e /\ \A i \in 1..(n - 1) : r[i] = labels[i]
    BY <1>1, <2>2, <2>3
  <2> QED BY <1>1, <1>3, <2>3, <2>4 DEF r, e, Labelled
<1> QED BY <1>2, <1>3

\* Reading goes on character by character.
LEMMA ReadingOn ==
    ASSUME NEW name \in Seq(Char)
    PROVE  LET f == Reading(name)
           IN /\ f[0] = <<<<>>>>
              /\ \A n \in 1..Len(name) : f[n] = ReadInto(f[n - 1], name[n])
              /\ \A n \in 0..Len(name) : f[n] \in Labelled
<1> DEFINE N == Len(name)
           Step(g, n) == IF n = 0 THEN <<<<>>>> ELSE ReadInto(g[n - 1], name[n])
           On(g, n) == g = [i \in 0..n |-> Step(g, i)]
           P == {n \in Nat : \E g : On(g, n)}
           f == Reading(name)
<1>1. 0 \in P
  <2> DEFINE g == [i \in 0..0 |-> <<<<>>>>]
  <2>1. \A i \in 0..0 : Step(g, i) = <<<<>>>>
    OBVIOUS
  <2>2. On(g, 0)
    BY <2>1
  <2> HIDE DEF On, g
  <2> QED BY <2>2
<1>2. ASSUME NEW n \in Nat, n \in P
      PROVE  n + 1 \in P
  <2>1. PICK h : On(h, n)
    BY <1>2
  <2> DEFINE g == [i \in 0..(n + 1) |-> Step(h, i)]
  <2>2. \A i \in 0..n : g[i] = h[i]
    <3> HIDE DEF Step
    <3>1. h = [i \in 0..n |-> Step(h, i)]
      BY <2>1
    <3>2. \A i \in 0..n : h[i] = Step(h, i)
      BY <3>1, Zenon
    <3>3. \A i \in 0..n : i \in 0..(n + 1)
      OBVIOUS
    <3> QED BY <3>2, <3>3
  <2>3. \A i \in 0..(n + 1) : Step(g, i) = Step(h, i)
    <3> HIDE DEF g
    <3>1. \A i \in 0..(n + 1) : i # 0 => i - 1 \in 0..n
      OBVIOUS
    <3> QED BY <2>2, <3>1
  <2>4. On(g, n + 1)
    BY <2>3
  <2> HIDE DEF On, g
  <2> QED BY <2>4
<1>3. N \in Nat
  OBVIOUS
<1>4. PICK h : On(h, N)
  <2> HIDE DEF P
  <2>1. N \in P
    BY <1>1, <1>2, <1>3, NatInd
  <2> QED BY <2>1 DEF P
<1>5. f = CHOOSE g : On(g, N)
  BY DEF Reading
<1>6. On(f, N)
  <2> HIDE DEF On, f
  <2> QED BY <1>4, <1>5
<1>7. \A n \in 0..N : f[n] = Step(f, n)
  <2> HIDE DEF f, Step
  <2>1. f = [i \in 0..N |-> Step(f, i)]
    BY <1>6
  <2> QED BY <2>1, Zenon
<1> HIDE DEF f
<1>8. f[0] = <<<<>>>>
  BY <1>3, <1>7
<1>9. \A n \in 1..N : f[n] = ReadInto(f[n - 1], name[n])
  BY <1>3, <1>7
<1>10. \A n \in 0..N : f[n] \in Labelled
  <2> DEFINE Q == {n \in Nat : n \in 0..N => f[n] \in Labelled}
  <2>1. 0 \in Q
    <3>1. <<>> \in Seq(Char)
      OBVIOUS
    <3>2. <<<<>>>> \in Seq(Seq(Char)) /\ <<<<>>>> # <<>>
      BY <3>1
    <3> QED BY <1>8, <3>2 DEF Labelled
  <2>2. \A n \in Nat : n \in Q => n + 1 \in Q
    <3> SUFFICES ASSUME NEW n \in Nat, n \in 0..N => f[n] \in Labelled, n + 1 \in 0..N
                 PROVE  f[n + 1] \in Labelled
      OBVIOUS
    <3>1. n \in 0..N /\ n + 1 \in 1..N /\ (n + 1) - 1 = n /\ name[n + 1] \in Char
      BY <1>3
    <3>2. f[n + 1] = ReadInto(f[n], name[n + 1])
      BY <1>9, <3>1
    <3> QED BY <3>1, <3>2, ReadIntoLabels
  <2> HIDE DEF Q
  <2>3. Nat \subseteq Q
    BY <2>1, <2>2, NatInd
  <2> QED BY <1>3, <2>3 DEF Q
<1> QED BY <1>8, <1>9, <1>10 DEF f

\* The same name, but for the case of its letters.
Alike(s, t) == Len(s) = Len(t) /\ \A i \in 1..Len(s) : Lower[s[i]] = Lower[t[i]]

\* What is appended is there, behind what was there before.
LEMMA Appended ==
    ASSUME NEW S, NEW s \in Seq(S), NEW e \in S
    PROVE  /\ Append(s, e) \in Seq(S) /\ Append(s, e) # <<>>
           /\ Len(Append(s, e)) = Len(s) + 1
           /\ Append(s, e)[Len(s) + 1] = e
           /\ \A i \in 1..Len(s) : Append(s, e)[i] = s[i]
<1>1. Len(Append(s, e)) = Len(s) + 1 /\ Len(s) \in Nat /\ Len(<<>>) = 0
  OBVIOUS
<1>2. Append(s, e) # <<>>
  BY <1>1
<1> QED BY <1>1, <1>2

\* What has been read tells the last character and what had been read before.
LEMMA ReadApart ==
    ASSUME NEW a \in Labelled, NEW b \in Labelled, NEW c \in Char, NEW d \in Char,
           ReadInto(a, c) = ReadInto(b, d)
    PROVE  a = b /\ Lower[c] = Lower[d]
<1> DEFINE r == ReadInto(a, c)
           m == Len(a)
           n == Len(b)
<1>1. a \in Seq(Seq(Char)) /\ b \in Seq(Seq(Char)) /\ a[m] \in Seq(Char) /\ b[n] \in Seq(Char)
  BY DEF Labelled
<1>2. /\ m \in Nat \ {0}
      /\ c = "." => /\ Len(r) = m + 1 /\ r[m + 1] = <<>>
                    /\ \A i \in 1..m : r[i] = a[i]
      /\ c # "." => /\ Len(r) = m /\ r[m] = Append(a[m], Lower[c])
                    /\ \A i \in 1..(m - 1) : r[i] = a[i]
  BY ReadIntoLabels
<1>3. /\ n \in Nat \ {0}
      /\ d = "." => /\ Len(r) = n + 1 /\ r[n + 1] = <<>>
                    /\ \A i \in 1..n : r[i] = b[i]
      /\ d # "." => /\ Len(r) = n /\ r[n] = Append(b[n], Lower[d])
                    /\ \A i \in 1..(n - 1) : r[i] = b[i]
  <2> DEFINE q == ReadInto(b, d)
  <2>1. q = r
    OBVIOUS
  <2>2. /\ n \in Nat \ {0}
        /\ d = "." => /\ Len(q) = n + 1 /\ q[n + 1] = <<>>
                      /\ \A i \in 1..n : q[i] = b[i]
        /\ d # "." => /\ Len(q) = n /\ q[n] = Append(b[n], Lower[d])
                      /\ \A i \in 1..(n - 1) : q[i] = b[i]
    BY ReadIntoLabels
  <2> HIDE DEF q, r
  <2> QED BY <2>1, <2>2
<1>4. Append(a[m], Lower[c]) # <<>> /\ Append(b[n], Lower[d]) # <<>>
  <2>1. Lower[c] \in Char /\ Lower[d] \in Char
    BY CharAssumption
  <2>2. Append(a[m], Lower[c]) # <<>>
    BY <1>1, <2>1, Appended
  <2>3. Append(b[n], Lower[d]) # <<>>
    BY <1>1, <2>1, Appended
  <2> QED BY <2>2, <2>3
<1> HIDE DEF r
<1>5. c = "." <=> d = "."
  <2>1. CASE c = "." /\ d # "."
    BY <1>2, <1>3, <1>4, <2>1
  <2>2. CASE c # "." /\ d = "."
    BY <1>2, <1>3, <1>4, <2>2
  <2> QED BY <2>1, <2>2
<1>6. m = n
  BY <1>2, <1>3, <1>5
<1>7. CASE c = "."
  <2>1. \A i \in 1..m : a[i] = b[i]
    BY <1>2, <1>3, <1>5, <1>6, <1>7
  <2> HIDE DEF m, n
  <2> QED BY <1>1, <1>5, <1>6, <1>7, <2>1, SeqEqual DEF m, n
<1>8. CASE c # "."
  <2>1. \A i \in 1..(m - 1) : a[i] = b[i]
    BY <1>2, <1>3, <1>5, <1>6, <1>8
  <2>2. Append(a[m], Lower[c]) = Append(b[n], Lower[d])
    BY <1>2, <1>3, <1>5, <1>6, <1>8
  <2>3. a[m] = b[n] /\ Lower[c] = Lower[d]
    <3> DEFINE x == a[m]
               y == b[n]
    <3>1. x \in Seq(Char) /\ y \in Seq(Char) /\ Append(x, Lower[c]) = Append(y, Lower[d])
          /\ Lower[c] \in Char /\ Lower[d] \in Char
      BY <1>1, <2>2, CharAssumption
    <3> HIDE DEF x, y
    <3>2. Len(x) = Len(y)
      BY <3>1
    <3>3. \A i \in 1..Len(x) : x[i] = y[i]
      <4> SUFFICES ASSUME NEW i \in 1..Len(x) PROVE x[i] = y[i]
        OBVIOUS
      <4>1. Append(x, Lower[c])[i] = x[i]
        BY <3>1
      <4>2. Append(y, Lower[d])[i] = y[i]
        BY <3>1, <3>2
      <4> QED BY <3>1, <4>1, <4>2
    <3>4. x = y
      BY <3>1, <3>2, <3>3, SeqEqual
    <3>5. Append(x, Lower[c])[Len(x) + 1] = Lower[c] /\ Append(y, Lower[d])[Len(y) + 1] = Lower[d]
      BY <3>1
    <3>6. Lower[c] = Lower[d]
      BY <3>1, <3>2, <3>5
    <3> QED BY <3>4, <3>6 DEF x, y
  <2>4. \A i \in 1..m : a[i] = b[i]
    <3> HIDE DEF m, n
    <3> QED BY <1>2, <1>6, <2>1, <2>3
  <2>5. a = b
    <3> HIDE DEF m, n
    <3> QED BY <1>1, <1>6, <2>4, SeqEqual DEF m, n
  <2> QED BY <2>3, <2>5
<1> QED BY <1>7, <1>8

\* Nothing read looks like that only.
LEMMA ReadSomething ==
    ASSUME NEW a \in Labelled, NEW c \in Char
    PROVE  ReadInto(a, c) # <<<<>>>>
<1> DEFINE r == ReadInto(a, c)
           m == Len(a)
           o == <<<<>>>>
<1>1. a \in Seq(Seq(Char)) /\ m \in Nat \ {0} /\ a[m] \in Seq(Char)
  BY DEF Labelled
<1>2. /\ c = "." => Len(r) = m + 1
      /\ c # "." => Len(r) = m /\ r[m] = Append(a[m], Lower[c])
  BY ReadIntoLabels
<1>3. Append(a[m], Lower[c]) # <<>>
  BY <1>1, Appended, CharAssumption
<1>4. Len(o) = 1 /\ o[1] = <<>>
  OBVIOUS
<1> HIDE DEF r, o
<1>5. CASE c = "."
  <2>1. Len(r) # Len(o)
    <3>1. Len(r) = m + 1
      BY <1>2, <1>5
    <3>2. m + 1 # 1 /\ Len(o) = 1
      BY <1>1, <1>4
    <3> QED BY <3>1, <3>2
  <2> QED BY <2>1 DEF r, o
<1>6. CASE c # "." /\ m # 1
  <2>1. Len(r) # Len(o)
    BY <1>1, <1>2, <1>4, <1>6
  <2> QED BY <2>1 DEF r, o
<1>7. CASE c # "." /\ m = 1
  <2>1. r[1] # o[1]
    BY <1>2, <1>3, <1>4, <1>7
  <2> QED BY <2>1 DEF r, o
<1> QED BY <1>5, <1>6, <1>7

\* Names with the same labels are the same but for their case.
LEMMA SameLabels ==
    ASSUME NEW s \in Seq(Char), NEW t \in Seq(Char), Labels(s) = Labels(t)
    PROVE  Alike(s, t)
<1> DEFINE f == Reading(s)
           g == Reading(t)
           Q == {m \in Nat : m <= Len(s) => \A n \in 0..Len(t) :
                   f[m] = g[n] => m = n /\ \A i \in 1..m : Lower[s[i]] = Lower[t[i]]}
<1>1. /\ f[0] = <<<<>>>>
      /\ \A n \in 1..Len(s) : f[n] = ReadInto(f[n - 1], s[n])
      /\ \A n \in 0..Len(s) : f[n] \in Labelled
  BY ReadingOn
<1>2. /\ g[0] = <<<<>>>>
      /\ \A n \in 1..Len(t) : g[n] = ReadInto(g[n - 1], t[n])
      /\ \A n \in 0..Len(t) : g[n] \in Labelled
  BY ReadingOn
<1>3. f[Len(s)] = g[Len(t)] /\ Len(s) \in Nat /\ Len(t) \in Nat
  BY DEF Labels
<1>4. \A n \in 1..Len(t) : /\ n - 1 \in 0..Len(t) /\ g[n - 1] \in Labelled /\ t[n] \in Char
                           /\ g[n] # <<<<>>>>
  <2> SUFFICES ASSUME NEW n \in 1..Len(t)
               PROVE  /\ n - 1 \in 0..Len(t) /\ g[n - 1] \in Labelled /\ t[n] \in Char
                      /\ g[n] # <<<<>>>>
    OBVIOUS
  <2> HIDE DEF g
  <2>1. n - 1 \in 0..Len(t) /\ t[n] \in Char
    BY <1>3
  <2> QED BY <1>2, <2>1, ReadSomething
<1> HIDE DEF f, g
<1>5. 0 \in Q
  <2> SUFFICES ASSUME NEW n \in 0..Len(t), f[0] = g[n]
               PROVE  0 = n
    OBVIOUS
  <2>1. n = 0 \/ n \in 1..Len(t)
    BY <1>3
  <2> HIDE DEF Q
  <2> QED BY <1>1, <1>4, <2>1
<1>6. \A m \in Nat : m \in Q => m + 1 \in Q
  <2> SUFFICES ASSUME NEW m \in Nat, m \in Q, m + 1 <= Len(s),
                      NEW n \in 0..Len(t), f[m + 1] = g[n]
               PROVE  m + 1 = n /\ \A i \in 1..(m + 1) : Lower[s[i]] = Lower[t[i]]
    <3>1. \A m \in Nat : m + 1 \in Nat
      OBVIOUS
    <3> QED BY <3>1
  <2>1. m + 1 \in 1..Len(s) /\ (m + 1) - 1 = m /\ m \in 0..Len(s) /\ s[m + 1] \in Char
    BY <1>3
  <2>2. f[m + 1] = ReadInto(f[m], s[m + 1]) /\ f[m] \in Labelled
    <3> HIDE DEF Q
    <3> QED BY <1>1, <2>1
  <2>3. n # 0
    <3> HIDE DEF Q
    <3> QED BY <1>2, <2>1, <2>2, ReadSomething
  <2>4. n \in 1..Len(t)
    BY <2>3
  <2>5. g[n] = ReadInto(g[n - 1], t[n]) /\ g[n - 1] \in Labelled /\ t[n] \in Char
        /\ n - 1 \in 0..Len(t)
    <3> HIDE DEF Q
    <3> QED BY <1>2, <1>4, <2>4
  <2>6. f[m] = g[n - 1] /\ Lower[s[m + 1]] = Lower[t[n]]
    <3> DEFINE a == f[m]
               b == g[n - 1]
               c == s[m + 1]
               d == t[n]
    <3>1. ReadInto(a, c) = ReadInto(b, d) /\ a \in Labelled /\ b \in Labelled
          /\ c \in Char /\ d \in Char
      <4> HIDE DEF Q
      <4> QED BY <2>1, <2>2, <2>5
    <3> HIDE DEF a, b, c, d, Q
    <3>2. a = b /\ Lower[c] = Lower[d]
      BY <3>1, ReadApart
    <3> QED BY <3>2 DEF a, b, c, d
  <2>7. m = n - 1 /\ \A i \in 1..m : Lower[s[i]] = Lower[t[i]]
    BY <2>1, <2>5, <2>6
  <2> QED BY <2>4, <2>6, <2>7
<1> HIDE DEF Q
<1>7. Len(s) \in Q
  BY <1>3, <1>5, <1>6, NatInd
<1>8. Len(s) = Len(t) /\ \A i \in 1..Len(s) : Lower[s[i]] = Lower[t[i]]
  BY <1>3, <1>7 DEF Q
<1> QED BY <1>8 DEF Alike

\* What is read of two names is the same as far as they are the same.
LEMMA ReadAlike ==
    ASSUME NEW s \in Seq(Char), NEW t \in Seq(Char), NEW N \in Nat,
           N <= Len(s), N <= Len(t), \A i \in 1..N : Lower[s[i]] = Lower[t[i]]
    PROVE  Reading(s)[N] = Reading(t)[N]
<1> DEFINE f == Reading(s)
           g == Reading(t)
           Q == {m \in Nat : m <= N => f[m] = g[m]}
<1>1. f[0] = <<<<>>>> /\ \A n \in 1..Len(s) : f[n] = ReadInto(f[n - 1], s[n])
  BY ReadingOn
<1>2. g[0] = <<<<>>>> /\ \A n \in 1..Len(t) : g[n] = ReadInto(g[n - 1], t[n])
  BY ReadingOn
<1> HIDE DEF f, g
<1>3. 0 \in Q
  BY <1>1, <1>2
<1>4. \A m \in Nat : m \in Q => m + 1 \in Q
  <2> SUFFICES ASSUME NEW m \in Nat, m \in Q, m + 1 <= N
               PROVE  f[m + 1] = g[m + 1]
    <3>1. \A m \in Nat : m + 1 \in Nat
      OBVIOUS
    <3> QED BY <3>1
  <2>1. f[m] = g[m]
    <3>1. m <= N
      <4> HIDE DEF Q
      <4> QED
        OBVIOUS
    <3> QED BY <3>1
  <2>2. /\ m + 1 \in 1..N /\ m + 1 \in 1..Len(s) /\ m + 1 \in 1..Len(t) /\ (m + 1) - 1 = m
        /\ s[m + 1] \in Char /\ t[m + 1] \in Char
    OBVIOUS
  <2>3. s[m + 1] = "." <=> t[m + 1] = "."
    BY <2>2, CharAssumption
  <2>4. Lower[s[m + 1]] = Lower[t[m + 1]]
    BY <2>2
  <2>5. ReadInto(f[m], s[m + 1]) = ReadInto(f[m], t[m + 1])
    BY <2>3, <2>4 DEF ReadInto
  <2> QED BY <1>1, <1>2, <2>1, <2>2, <2>5
<1> HIDE DEF Q
<1>5. N \in Q
  BY <1>3, <1>4, NatInd
<1> QED BY <1>5 DEF Q, f, g

\* Names that are the same but for their case have the same labels.
LEMMA AlikeLabels ==
    ASSUME NEW s \in Seq(Char), NEW t \in Seq(Char), Alike(s, t)
    PROVE  Labels(s) = Labels(t)
BY ReadAlike DEF Alike, Labels

\* What a sequence ends with, element by element.
LEMMA SuffixIs ==
    ASSUME NEW S, NEW s \in Seq(S), NEW t \in Seq(S)
    PROVE  IsSuffix(s, t) <=> /\ Len(s) <= Len(t)
                              /\ \A i \in 1..Len(s) : s[i] = t[Len(t) - Len(s) + i]
<1> DEFINE m == Len(s)
           n == Len(t)
           a == Reverse(s)
           b == Reverse(t)
<1>1. m \in Nat /\ n \in Nat
  OBVIOUS
<1>2. a \in Seq(S) /\ Len(a) = m /\ \A i \in 1..m : a[i] = s[m - i + 1]
  BY DEF Reverse
<1>3. b \in Seq(S) /\ Len(b) = n /\ \A i \in 1..n : b[i] = t[n - i + 1]
  BY DEF Reverse
<1>4. IsSuffix(s, t) <=> m <= n /\ SubSeq(a, 1, m) = SubSeq(b, 1, m)
  <2>1. IsSuffix(s, t) <=> Len(a) <= Len(b) /\ SubSeq(a, 1, Len(a)) = SubSeq(b, 1, Len(a))
    BY DEF IsSuffix, IsPrefix
  <2> HIDE DEF a, b
  <2> QED BY <1>2, <1>3, <2>1
<1> HIDE DEF a, b
<1>5. ASSUME m <= n
      PROVE  SubSeq(a, 1, m) = SubSeq(b, 1, m) <=> \A i \in 1..m : a[i] = b[i]
  <2>1. /\ SubSeq(a, 1, m) \in Seq(S) /\ Len(SubSeq(a, 1, m)) = m
        /\ \A i \in 1..m : SubSeq(a, 1, m)[i] = a[i]
    BY <1>1, <1>2
  <2>2. /\ SubSeq(b, 1, m) \in Seq(S) /\ Len(SubSeq(b, 1, m)) = m
        /\ \A i \in 1..m : SubSeq(b, 1, m)[i] = b[i]
    BY <1>1, <1>3, <1>5
  <2> DEFINE x == SubSeq(a, 1, m)
             y == SubSeq(b, 1, m)
  <2>3. /\ x \in Seq(S) /\ y \in Seq(S) /\ Len(x) = m /\ Len(y) = m
        /\ \A i \in 1..m : x[i] = a[i] /\ y[i] = b[i]
    BY <2>1, <2>2
  <2> HIDE DEF x, y, m, n
  <2>4. x = y <=> \A i \in 1..m : a[i] = b[i]
    <3>1. ASSUME x = y PROVE \A i \in 1..m : a[i] = b[i]
      BY <2>3, <3>1
    <3>2. ASSUME \A i \in 1..m : a[i] = b[i] PROVE x = y
      BY <2>3, <3>2, SeqEqual
    <3> QED BY <3>1, <3>2
  <2> QED BY <2>4 DEF x, y
<1>6. ASSUME m <= n
      PROVE  (\A i \in 1..m : a[i] = b[i]) <=> \A i \in 1..m : s[i] = t[n - m + i]
  <2>1. ASSUME NEW i \in 1..m
        PROVE  /\ m - i + 1 \in 1..m /\ i \in 1..n /\ m - i + 1 \in 1..n
               /\ n - m + (m - i + 1) = n - i + 1
               /\ m - (m - i + 1) + 1 = i /\ n - (m - i + 1) + 1 = n - m + i
    BY <1>1, <1>6
  <2> HIDE DEF m, n
  <2>2. ASSUME \A i \in 1..m : a[i] = b[i], NEW i \in 1..m
        PROVE  s[i] = t[n - m + i]
    <3> DEFINE j == m - i + 1
    <3>1. j \in 1..m /\ j \in 1..n /\ m - j + 1 = i /\ n - j + 1 = n - m + i
      BY <2>1
    <3> HIDE DEF j
    <3>2. a[j] = s[i] /\ b[j] = t[n - m + i] /\ a[j] = b[j]
      BY <1>2, <1>3, <2>2, <3>1
    <3> QED BY <3>2
  <2>3. ASSUME \A i \in 1..m : s[i] = t[n - m + i], NEW i \in 1..m
        PROVE  a[i] = b[i]
    <3> DEFINE j == m - i + 1
    <3>1. j \in 1..m /\ i \in 1..n /\ n - m + j = n - i + 1
      BY <2>1
    <3>2. a[i] = s[j] /\ b[i] = t[n - i + 1]
      BY <1>2, <1>3, <3>1
    <3> HIDE DEF j
    <3>3. s[j] = t[n - m + j]
      BY <2>3, <3>1
    <3> QED BY <3>1, <3>2, <3>3
  <2> QED BY <2>2, <2>3
<1> QED BY <1>4, <1>5, <1>6

\* A sequence with the elements of two is these two put together.
LEMMA Concatenated ==
    ASSUME NEW S, NEW s \in Seq(S), NEW t \in Seq(S), NEW u \in Seq(S),
           Len(u) = Len(s) + Len(t),
           \A i \in 1..Len(s) : u[i] = s[i],
           \A i \in 1..Len(t) : u[Len(s) + i] = t[i]
    PROVE  u = s \o t
<1> DEFINE m == Len(s)
           n == Len(t)
           v == s \o t
<1>1. /\ v \in Seq(S) /\ Len(v) = m + n
      /\ \A i \in 1..(m + n) : v[i] = IF i <= m THEN s[i] ELSE t[i - m]
  BY ConcatProperties
<1>2. m \in Nat /\ n \in Nat
  OBVIOUS
<1> HIDE DEF v
<1>3. ASSUME NEW i \in 1..(m + n)
      PROVE  u[i] = v[i]
  <2>1. CASE i <= m
    BY <1>1, <2>1
  <2>2. CASE ~(i <= m)
    <3>1. i - m \in 1..n /\ m + (i - m) = i
      BY <1>2, <2>2
    <3>2. v[i] = t[i - m]
      BY <1>1, <2>2
    <3> QED BY <3>1, <3>2
  <2> QED BY <2>1, <2>2
<1>4. u = v
  <2> DEFINE k == m + n
  <2>1. Len(u) = k /\ Len(v) = k /\ \A i \in 1..k : u[i] = v[i]
    BY <1>1, <1>3
  <2> HIDE DEF k
  <2> QED BY <1>1, <2>1, SeqEqual
<1> QED BY <1>4 DEF v

\* To read into the last of some labels is to read into all of them.
LEMMA ReadBehind ==
    ASSUME NEW p \in Seq(Seq(Char)), NEW a \in Labelled, NEW c \in Char
    PROVE  ReadInto(p \o a, c) = p \o ReadInto(a, c)
<1> DEFINE b == p \o a
           k == Len(p)
           m == Len(a)
           q == ReadInto(a, c)
           r == ReadInto(b, c)
<1>1. a \in Seq(Seq(Char)) /\ m \in Nat \ {0} /\ k \in Nat
  BY DEF Labelled
<1>2. /\ b \in Seq(Seq(Char)) /\ Len(b) = k + m
      /\ \A i \in 1..k : b[i] = p[i]
      /\ \A i \in 1..m : b[k + i] = a[i]
  <2>1. /\ b \in Seq(Seq(Char)) /\ Len(b) = k + m
        /\ \A i \in 1..(k + m) : b[i] = IF i <= k THEN p[i] ELSE a[i - k]
    BY <1>1, ConcatProperties
  <2> HIDE DEF b, k, m
  <2>2. \A i \in 1..k : i \in 1..(k + m) /\ i <= k
    BY <1>1
  <2>3. \A i \in 1..m : k + i \in 1..(k + m) /\ ~(k + i <= k) /\ (k + i) - k = i
    BY <1>1
  <2>4. \A i \in 1..k : b[i] = p[i]
    BY <2>1, <2>2
  <2>5. ASSUME NEW i \in 1..m PROVE b[k + i] = a[i]
    <3>1. b[k + i] = IF k + i <= k THEN p[k + i] ELSE a[(k + i) - k]
      BY <2>1, <2>3
    <3> QED BY <2>3, <3>1
  <2> QED BY <2>1, <2>4, <2>5
<1> HIDE DEF b
<1>3. b \in Labelled
  <2>1. k + m # 0
    BY <1>1
  <2> QED BY <1>2, <2>1 DEF Labelled
<1>4. /\ q \in Labelled
      /\ c = "." => /\ Len(q) = m + 1 /\ q[m + 1] = <<>>
                    /\ \A i \in 1..m : q[i] = a[i]
      /\ c # "." => /\ Len(q) = m /\ q[m] = Append(a[m], Lower[c])
                    /\ \A i \in 1..(m - 1) : q[i] = a[i]
  BY ReadIntoLabels
<1>5. /\ r \in Labelled
      /\ c = "." => /\ Len(r) = Len(b) + 1 /\ r[Len(b) + 1] = <<>>
                    /\ \A i \in 1..Len(b) : r[i] = b[i]
      /\ c # "." => /\ Len(r) = Len(b) /\ r[Len(b)] = Append(b[Len(b)], Lower[c])
                    /\ \A i \in 1..(Len(b) - 1) : r[i] = b[i]
  BY <1>3, ReadIntoLabels
<1> HIDE DEF q, r
<1>6. q \in Seq(Seq(Char)) /\ r \in Seq(Seq(Char))
  BY <1>4, <1>5 DEF Labelled
<1>7. Len(r) = k + Len(q)
  <2>1. CASE c = "."
    <3>1. Len(r) = k + m + 1 /\ Len(q) = m + 1
      BY <1>2, <1>4, <1>5, <2>1
    <3> QED BY <1>1, <3>1
  <2>2. CASE c # "."
    BY <1>2, <1>4, <1>5, <2>2
  <2> QED BY <2>1, <2>2
<1>8. \A i \in 1..k : r[i] = p[i]
  <2> SUFFICES ASSUME NEW i \in 1..k PROVE r[i] = p[i]
    OBVIOUS
  <2>1. i \in 1..(k + m) /\ i \in 1..(k + m - 1)
    BY <1>1
  <2>2. r[i] = b[i]
    BY <1>2, <1>5, <2>1
  <2> QED BY <1>2, <2>2
<1>9. \A i \in 1..Len(q) : r[k + i] = q[i]
  <2> SUFFICES ASSUME NEW i \in 1..Len(q) PROVE r[k + i] = q[i]
    OBVIOUS
  <2>1. CASE c = "." /\ i = m + 1
    <3>1. k + i = Len(b) + 1
      BY <1>1, <1>2, <2>1
    <3> QED BY <1>4, <1>5, <2>1, <3>1
  <2>2. CASE c = "." /\ i # m + 1
    <3>1. i \in 1..m /\ k + i \in 1..(k + m)
      BY <1>1, <1>4, <2>2
    <3>2. r[k + i] = b[k + i] /\ q[i] = a[i]
      BY <1>2, <1>4, <1>5, <2>2, <3>1
    <3> QED BY <1>2, <3>1, <3>2
  <2>3. CASE c # "." /\ i = m
    <3>1. k + i = Len(b) /\ b[Len(b)] = a[m]
      BY <1>1, <1>2, <2>3
    <3> QED BY <1>4, <1>5, <2>3, <3>1
  <2>4. CASE c # "." /\ i # m
    <3>1. i \in 1..(m - 1) /\ i \in 1..m /\ k + i \in 1..(k + m - 1)
      BY <1>1, <1>4, <2>4
    <3>2. r[k + i] = b[k + i]
      BY <1>2, <1>5, <2>4, <3>1
    <3>3. q[i] = a[i]
      BY <1>4, <2>4, <3>1
    <3> QED BY <1>2, <3>1, <3>2, <3>3
  <2> QED BY <2>1, <2>2, <2>3, <2>4
<1>10. r = p \o q
  BY <1>6, <1>7, <1>8, <1>9, Concatenated
<1> QED BY <1>10 DEF b, q, r

\* The rest of a name behind its i-th character.
Rest(name, i) == SubSeq(name, i + 1, Len(name))

\* Its length and its characters.
LEMMA RestOf ==
    ASSUME NEW S, NEW s \in Seq(S), NEW i \in 0..Len(s)
    PROVE  /\ Rest(s, i) \in Seq(S) /\ Len(Rest(s, i)) = Len(s) - i
           /\ \A j \in 1..(Len(s) - i) : Rest(s, i)[j] = s[i + j]
BY DEF Rest

\* What is read behind a dot comes behind the labels before it.
LEMMA LabelsBehindDot ==
    ASSUME NEW h \in Seq(Char), NEW i \in 1..Len(h), h[i] = "."
    PROVE  Labels(h) = Reading(h)[i - 1] \o Labels(Rest(h, i))
<1> DEFINE s == Rest(h, i)
           f == Reading(h)
           g == Reading(s)
           n == Len(h)
           m == n - i
           p == f[i - 1]
           Q == {j \in Nat : j <= m => f[i + j] = p \o g[j]}
<1>1. /\ s \in Seq(Char) /\ Len(s) = m /\ \A j \in 1..m : s[j] = h[i + j]
      /\ n \in Nat /\ m \in Nat /\ i \in Nat /\ i - 1 \in 0..n /\ i + m = n
  <2>1. i \in 0..n
    OBVIOUS
  <2> HIDE DEF s
  <2> QED BY <2>1, RestOf DEF s
<1>2. \A j \in 1..n : f[j] = ReadInto(f[j - 1], h[j])
  BY ReadingOn
<1>3. \A j \in 0..n : f[j] \in Labelled
  BY ReadingOn
<1>4. /\ g[0] = <<<<>>>>
      /\ \A j \in 1..Len(s) : g[j] = ReadInto(g[j - 1], s[j])
      /\ \A j \in 0..Len(s) : g[j] \in Labelled
  BY <1>1, ReadingOn
<1> HIDE DEF f, g, s
<1>5. p \in Labelled /\ p \in Seq(Seq(Char))
  BY <1>1, <1>3 DEF Labelled
<1>6. 0 \in Q
  <2>1. f[i] = Append(p, <<>>)
    BY <1>2 DEF ReadInto
  <2>2. <<>> \in Seq(Char)
    OBVIOUS
  <2>3. Append(p, <<>>) = p \o <<<<>>>>
    <3> HIDE DEF p
    <3> QED BY <1>5, <2>2
  <2>4. f[i + 0] = f[i]
    BY <1>1
  <2> QED BY <1>4, <2>1, <2>3, <2>4
<1> HIDE DEF p
<1>7. \A j \in Nat : j \in Q => j + 1 \in Q
  <2> SUFFICES ASSUME NEW j \in Nat, j <= m => f[i + j] = p \o g[j], j + 1 <= m
               PROVE  f[i + (j + 1)] = p \o g[j + 1]
    <3>1. \A j \in Nat : j + 1 \in Nat
      OBVIOUS
    <3> QED BY <3>1
  <2> HIDE DEF Q
  <2>1. f[i + j] = p \o g[j]
    BY <1>1
  <2>2. /\ i + (j + 1) \in 1..n /\ (i + (j + 1)) - 1 = i + j
        /\ j + 1 \in 1..m /\ (j + 1) - 1 = j /\ j \in 0..m
    BY <1>1
  <2>3. h[i + (j + 1)] \in Char /\ s[j + 1] = h[i + (j + 1)]
    BY <1>1, <2>2
  <2>4. f[i + (j + 1)] = ReadInto(f[i + j], h[i + (j + 1)])
    BY <1>2, <2>2
  <2>5. g[j + 1] = ReadInto(g[j], s[j + 1]) /\ g[j] \in Labelled
    BY <1>1, <1>4, <2>2
  <2> DEFINE a == g[j]
             c == s[j + 1]
  <2>6. ReadInto(p \o a, c) = p \o ReadInto(a, c)
    <3>1. a \in Labelled /\ c \in Char
      BY <2>3, <2>5
    <3> HIDE DEF a, c
    <3> QED BY <1>5, <3>1, ReadBehind
  <2> QED BY <2>1, <2>3, <2>4, <2>5, <2>6
<1> HIDE DEF Q
<1>8. m \in Q
  <2>1. Nat \subseteq Q
    BY <1>6, <1>7, NatInd
  <2> QED BY <1>1, <2>1
<1>9. f[n] = p \o g[m]
  BY <1>1, <1>8 DEF Q
<1> QED BY <1>1, <1>9 DEF Labels, f, g, s, p

\* The labels of one name end with those of another just if the one is the
\* other, or has it behind a dot, but for the case of their letters.
LEMMA LabelSuffix ==
    ASSUME NEW h \in Seq(Char), NEW s \in Seq(Char)
    PROVE  IsSuffix(Labels(s), Labels(h))
              <=> \/ Alike(h, s)
                  \/ \E i \in 1..Len(h) : h[i] = "." /\ Alike(Rest(h, i), s)
<1> DEFINE a == Labels(s)
           b == Labels(h)
           f == Reading(h)
           n == Len(h)
<1>0. n \in Nat /\ Len(s) \in Nat
  OBVIOUS
<1>1. /\ f[0] = <<<<>>>>
      /\ \A j \in 1..n : f[j] = ReadInto(f[j - 1], h[j])
      /\ \A j \in 0..n : f[j] \in Labelled
  BY ReadingOn
<1>2. a \in Labelled /\ a \in Seq(Seq(Char))
  <2>1. \A j \in 0..Len(s) : Reading(s)[j] \in Labelled
    BY ReadingOn
  <2> QED BY <1>0, <2>1 DEF Labels, Labelled
<1>3. b = f[n] /\ b \in Labelled /\ b \in Seq(Seq(Char))
  BY <1>0, <1>1 DEF Labels, Labelled
<1> HIDE DEF f
<1>4. ASSUME Alike(h, s)
      PROVE  IsSuffix(a, b)
  <2>1. a = b
    BY <1>4, AlikeLabels
  <2> HIDE DEF a, b
  <2> QED BY <1>2, <2>1, SuffixIs
<1>5. ASSUME NEW i \in 1..n, h[i] = ".", Alike(Rest(h, i), s)
      PROVE  IsSuffix(a, b)
  <2>1. Rest(h, i) \in Seq(Char)
    BY RestOf
  <2>2. Labels(Rest(h, i)) = a
    BY <1>5, <2>1, AlikeLabels
  <2>3. b = f[i - 1] \o a
    BY <1>5, <2>2, LabelsBehindDot DEF f
  <2>4. f[i - 1] \in Seq(Seq(Char))
    <3>1. i - 1 \in 0..n
      BY <1>0
    <3> QED BY <1>1, <3>1 DEF Labelled
  <2> DEFINE p == f[i - 1]
  <2> HIDE DEF a, b, p
  <2>5. /\ Len(b) = Len(p) + Len(a)
        /\ \A j \in 1..(Len(p) + Len(a)) : b[j] = IF j <= Len(p) THEN p[j] ELSE a[j - Len(p)]
    BY <1>2, <2>3, <2>4, ConcatProperties DEF p
  <2>6. Len(p) \in Nat /\ Len(a) \in Nat /\ Len(b) - Len(a) = Len(p)
    BY <1>2, <2>4, <2>5 DEF p
  <2>7. \A j \in 1..Len(a) : a[j] = b[Len(b) - Len(a) + j]
    <3> SUFFICES ASSUME NEW j \in 1..Len(a) PROVE a[j] = b[Len(p) + j]
      BY <2>6
    <3>1. Len(p) + j \in 1..(Len(p) + Len(a)) /\ ~(Len(p) + j <= Len(p)) /\ (Len(p) + j) - Len(p) = j
      BY <2>6
    <3>2. b[Len(p) + j] = IF Len(p) + j <= Len(p) THEN p[Len(p) + j] ELSE a[(Len(p) + j) - Len(p)]
      BY <2>5, <3>1
    <3> QED BY <3>1, <3>2
  <2>8. Len(a) <= Len(b)
    BY <2>5, <2>6
  <2> QED BY <1>2, <1>3, <2>7, <2>8, SuffixIs
<1>6. ASSUME IsSuffix(a, b), Len(a) = Len(b)
      PROVE  Alike(h, s)
  <2> DEFINE k == Len(a)
  <2>1. k \in Nat /\ \A i \in 1..k : a[i] = b[Len(b) - k + i]
    <3> HIDE DEF a, b
    <3> QED BY <1>2, <1>3, <1>6, SuffixIs
  <2>2. \A i \in 1..k : Len(b) - k + i = i
    <3> HIDE DEF a, b
    <3> QED BY <1>6, <2>1
  <2>3. \A i \in 1..k : a[i] = b[i]
    BY <2>1, <2>2
  <2>4. a = b
    <3> HIDE DEF a, b
    <3> QED BY <1>2, <1>3, <1>6, <2>3, SeqEqual
  <2> QED BY <2>4, SameLabels
<1>7. ASSUME IsSuffix(a, b), Len(a) # Len(b)
      PROVE  \E i \in 1..n : h[i] = "." /\ Alike(Rest(h, i), s)
  <2> DEFINE k == Len(b) - Len(a)
  <2>1. /\ Len(a) < Len(b) /\ Len(a) \in Nat \ {0} /\ Len(b) \in Nat
        /\ \A j \in 1..Len(a) : a[j] = b[k + j]
    <3> HIDE DEF a, b
    <3>1. Len(a) <= Len(b) /\ \A j \in 1..Len(a) : a[j] = b[Len(b) - Len(a) + j]
      BY <1>2, <1>3, <1>7, SuffixIs
    <3>2. Len(a) \in Nat \ {0} /\ Len(b) \in Nat
      BY <1>2, <1>3 DEF Labelled
    <3> QED BY <1>7, <3>1, <3>2
  <2>2. k \in Nat \ {0} /\ k < Len(b)
    <3> HIDE DEF a, b
    <3> QED BY <2>1
  \* The dot that begins the label after the first k.
  <2> DEFINE T == {j \in 0..n : Len(f[j]) > k}
  <2>3. n \in T /\ T \in SUBSET Nat
    BY <1>0, <1>3, <2>2
  <2>4. PICK i \in T : \A j \in T : i <= j
    <3> HIDE DEF T
    <3> QED BY <2>3, NatMin
  <2>5. i # 0
    <3>1. Len(<<<<>>>>) = 1
      OBVIOUS
    <3>2. Len(f[0]) = 1
      BY <1>1, <3>1
    <3>3. ~(1 > k)
      <4> HIDE DEF k
      <4> QED BY <2>2
    <3> QED BY <3>2, <3>3
  <2>6. i \in 1..n /\ i - 1 \in 0..n /\ i - 1 \notin T
    BY <1>0, <2>4, <2>5
  <2> DEFINE p == f[i - 1]
  <2>7. p \in Labelled /\ p \in Seq(Seq(Char)) /\ Len(p) \in Nat /\ h[i] \in Char
        /\ f[i] = ReadInto(p, h[i])
    BY <1>1, <2>6 DEF Labelled
  <2>8. Len(p) <= k
    BY <2>2, <2>6, <2>7
  <2>9. Len(f[i]) > k
    BY <2>4
  <2> HIDE DEF T, p, k, a, b
  <2>10. h[i] = "." /\ Len(p) = k
    <3>1. /\ h[i] = "." => Len(f[i]) = Len(p) + 1
          /\ h[i] # "." => Len(f[i]) = Len(p)
      <4> DEFINE c == h[i]
                 r == ReadInto(p, c)
      <4>1. /\ c = "." => Len(r) = Len(p) + 1
            /\ c # "." => Len(r) = Len(p)
        <5>1. c \in Char
          BY <2>7
        <5> HIDE DEF c
        <5> QED BY <2>7, <5>1, ReadIntoLabels
      <4>2. f[i] = r
        BY <2>7
      <4> HIDE DEF r
      <4> QED BY <4>1, <4>2
    <3>2. h[i] = "."
      BY <2>2, <2>7, <2>8, <2>9, <3>1
    <3>3. Len(p) + 1 > k
      BY <2>9, <3>1, <3>2
    <3> QED BY <2>2, <2>7, <2>8, <3>2, <3>3
  <2> DEFINE t == Rest(h, i)
             e == Labels(t)
  <2>11. t \in Seq(Char)
    BY <2>6, RestOf
  <2>12. e \in Seq(Seq(Char))
    <3>1. \A j \in 0..Len(t) : Reading(t)[j] \in Labelled
      BY <2>11, ReadingOn
    <3>2. Len(t) \in 0..Len(t)
      <4> HIDE DEF t
      <4> QED BY <2>11
    <3> HIDE DEF t
    <3> QED BY <3>1, <3>2 DEF Labels, Labelled
  <2>13. b = p \o e
    BY <2>6, <2>10, LabelsBehindDot DEF f, b, p
  <2> HIDE DEF t, e
  <2>14. /\ Len(b) = Len(p) + Len(e)
         /\ \A j \in 1..(Len(p) + Len(e)) : b[j] = IF j <= Len(p) THEN p[j] ELSE e[j - Len(p)]
    BY <2>7, <2>12, <2>13, ConcatProperties
  <2>15. Len(e) = Len(a)
    BY <2>1, <2>10, <2>12, <2>14 DEF k
  <2>16. \A j \in 1..Len(a) : e[j] = a[j]
    <3> SUFFICES ASSUME NEW j \in 1..Len(a) PROVE e[j] = a[j]
      OBVIOUS
    <3>1. k + j \in 1..(Len(p) + Len(e)) /\ ~(k + j <= Len(p)) /\ (k + j) - Len(p) = j
      BY <2>1, <2>2, <2>10, <2>15
    <3>2. b[k + j] = e[j]
      BY <2>14, <3>1
    <3> QED BY <2>1, <3>2
  <2>17. e = a
    BY <1>2, <2>12, <2>15, <2>16, SeqEqual
  <2>18. Alike(t, s)
    BY <2>11, <2>17, SameLabels DEF e, a
  <2> QED BY <2>6, <2>10, <2>18 DEF t
<1> QED BY <1>4, <1>5, <1>6, <1>7

\* A name in lower case.
Lowered(name) == [i \in DOMAIN name |-> Lower[name[i]]]

\* It is as long, character by character.
LEMMA LoweredName ==
    ASSUME NEW s \in Seq(Char)
    PROVE  /\ Lowered(s) \in Seq(Char) /\ Len(Lowered(s)) = Len(s)
           /\ \A i \in 1..Len(s) : Lowered(s)[i] = Lower[s[i]]
<1>1. DOMAIN s = 1..Len(s) /\ \A i \in 1..Len(s) : Lower[s[i]] \in Char
  BY CharAssumption
<1> QED BY <1>1 DEF Lowered

\* All of a sequence but its last element.
LEMMA FrontOf ==
    ASSUME NEW S, NEW s \in Seq(S), NEW n \in Nat, Len(s) = n + 1
    PROVE  /\ Front(s) \in Seq(S) /\ Len(Front(s)) = n
           /\ \A i \in 1..n : Front(s)[i] = s[i]
<1>1. \A i \in 1..n : s[i] \in S
  OBVIOUS
<1>2. Front(s) = SubSeq(s, 1, n)
  BY DEF Front
<1>3. LET f == SubSeq(s, 1, n)
      IN f \in Seq(S) /\ Len(f) = n /\ \A i \in 1..n : f[i] = s[i]
  OBVIOUS
<1> QED BY <1>2, <1>3

\* A dot at the end goes, nothing else does.
LEMMA WithoutRootName ==
    ASSUME NEW s \in Seq(Char)
    PROVE  LET w == WithoutRoot(s)
           IN /\ w \in Seq(Char)
              /\ IF s # <<>> /\ s[Len(s)] = "."
                 THEN Len(w) = Len(s) - 1 /\ \A i \in 1..(Len(s) - 1) : w[i] = s[i]
                 ELSE w = s
<1>1. CASE s # <<>> /\ s[Len(s)] = "."
  <2> DEFINE n == Len(s) - 1
  <2>1. WithoutRoot(s) = Front(s)
    BY <1>1 DEF WithoutRoot, Last
  <2>2. n \in Nat /\ Len(s) = n + 1
    BY <1>1
  <2> HIDE DEF n
  <2>3. /\ Front(s) \in Seq(Char) /\ Len(Front(s)) = n
        /\ \A i \in 1..n : Front(s)[i] = s[i]
    BY <2>2, FrontOf
  <2> QED BY <1>1, <2>1, <2>3 DEF n
<1>2. CASE ~(s # <<>> /\ s[Len(s)] = ".")
  BY <1>2 DEF WithoutRoot, Last
<1> QED BY <1>1, <1>2

\* The root may be dropped before or after the change to lower case.
LEMMA Normalized ==
    ASSUME NEW s \in Seq(Char)
    PROVE  NormalizeHostForMatch(s) = Lowered(WithoutRoot(s))
<1> DEFINE l == Lowered(s)
           w == WithoutRoot(s)
           x == WithoutRoot(l)
           y == Lowered(w)
           n == Len(s)
<1>1. NormalizeHostForMatch(s) = x
  BY DEF NormalizeHostForMatch, Lowered
<1>2. /\ n \in Nat /\ (s # <<>> <=> n # 0)
      /\ l \in Seq(Char) /\ Len(l) = n /\ \A i \in 1..n : l[i] = Lower[s[i]]
  BY LoweredName
<1>3. /\ w \in Seq(Char)
      /\ IF s # <<>> /\ s[n] = "." THEN Len(w) = n - 1 /\ \A i \in 1..(n - 1) : w[i] = s[i]
         ELSE w = s
  BY WithoutRootName
<1> HIDE DEF l, w
<1>4. /\ x \in Seq(Char)
      /\ IF l # <<>> /\ l[Len(l)] = "."
         THEN Len(x) = Len(l) - 1 /\ \A i \in 1..(Len(l) - 1) : x[i] = l[i]
         ELSE x = l
  BY <1>2, WithoutRootName
<1>5. y \in Seq(Char) /\ Len(y) = Len(w) /\ \A i \in 1..Len(w) : y[i] = Lower[w[i]]
  BY <1>3, LoweredName
<1> HIDE DEF x, y
<1>6. (l # <<>> <=> n # 0) /\ (n # 0 => (l[n] = "." <=> s[n] = "."))
  <2>1. l # <<>> <=> n # 0
    BY <1>2
  <2>2. ASSUME n # 0 PROVE l[n] = "." <=> s[n] = "."
    <3>1. n \in 1..n /\ s[n] \in Char
      BY <1>2, <2>2
    <3> QED BY <1>2, <3>1, CharAssumption
  <2> QED BY <2>1, <2>2
<1>7. Len(x) = Len(y) /\ \A i \in 1..Len(x) : x[i] = y[i]
  <2>1. CASE n # 0 /\ s[n] = "."
    <3>1. Len(x) = n - 1 /\ \A i \in 1..(n - 1) : x[i] = l[i]
      BY <1>2, <1>4, <1>6, <2>1
    <3>2. Len(w) = n - 1 /\ \A i \in 1..(n - 1) : w[i] = s[i]
      BY <1>2, <1>3, <2>1
    <3>3. \A i \in 1..(n - 1) : i \in 1..n
      BY <1>2
    <3>4. Len(x) = n - 1 /\ Len(y) = n - 1
      BY <1>5, <3>1, <3>2
    <3>5. \A i \in 1..(n - 1) : x[i] = y[i]
      <4> SUFFICES ASSUME NEW i \in 1..(n - 1) PROVE x[i] = y[i]
        OBVIOUS
      <4>1. x[i] = Lower[s[i]]
        BY <1>2, <3>1, <3>3
      <4>2. y[i] = Lower[s[i]]
        BY <1>5, <3>2
      <4> QED BY <4>1, <4>2
    <3> QED BY <3>4, <3>5
  <2>2. CASE ~(n # 0 /\ s[n] = ".")
    <3>1. x = l
      BY <1>2, <1>4, <1>6, <2>2
    <3>2. w = s
      BY <1>2, <1>3, <2>2
    <3> QED BY <1>2, <1>5, <3>1, <3>2
  <2> QED BY <2>1, <2>2
<1>8. x = y
  BY <1>4, <1>5, <1>7, SeqEqual
<1> QED BY <1>1, <1>8 DEF x, y, w

\* Names are alike just if they are the same in lower case.
LEMMA LoweredAlike ==
    ASSUME NEW s \in Seq(Char), NEW t \in Seq(Char)
    PROVE  Lowered(s) = Lowered(t) <=> Alike(s, t)
<1> DEFINE x == Lowered(s)
           y == Lowered(t)
<1>1. x \in Seq(Char) /\ Len(x) = Len(s) /\ \A i \in 1..Len(s) : x[i] = Lower[s[i]]
  BY LoweredName
<1>2. y \in Seq(Char) /\ Len(y) = Len(t) /\ \A i \in 1..Len(t) : y[i] = Lower[t[i]]
  BY LoweredName
<1> HIDE DEF x, y
<1>3. ASSUME x = y PROVE Alike(s, t)
  BY <1>1, <1>2, <1>3 DEF Alike
<1>4. ASSUME Alike(s, t) PROVE x = y
  <2>1. Len(x) = Len(y) /\ \A i \in 1..Len(x) : x[i] = y[i]
    BY <1>1, <1>2, <1>4 DEF Alike
  <2> QED BY <1>1, <1>2, <2>1, SeqEqual
<1> QED BY <1>3, <1>4 DEF x, y

\* A name in lower case ends with a dot and another just if it does before.
LEMMA LoweredSuffix ==
    ASSUME NEW h \in Seq(Char), NEW s \in Seq(Char)
    PROVE  IsSuffix(<<".">> \o Lowered(s), Lowered(h))
              <=> \E i \in 1..Len(h) : h[i] = "." /\ Alike(Rest(h, i), s)
<1> DEFINE x == Lowered(h)
           y == Lowered(s)
           z == <<".">> \o y
           n == Len(h)
           m == Len(s)
<1>1. x \in Seq(Char) /\ Len(x) = n /\ \A i \in 1..n : x[i] = Lower[h[i]]
  BY LoweredName
<1>2. y \in Seq(Char) /\ Len(y) = m /\ \A i \in 1..m : y[i] = Lower[s[i]]
  BY LoweredName
<1>3. n \in Nat /\ m \in Nat
  OBVIOUS
<1> HIDE DEF x, y
<1>4. /\ z \in Seq(Char) /\ Len(z) = m + 1 /\ z[1] = "."
      /\ \A i \in 1..m : z[i + 1] = y[i]
  <2> DEFINE d == <<".">>
  <2>1. d \in Seq(Char) /\ Len(d) = 1 /\ d[1] = "."
    BY CharAssumption
  <2> HIDE DEF d
  <2>2. /\ d \o y \in Seq(Char) /\ Len(d \o y) = Len(d) + Len(y)
        /\ \A i \in 1..(Len(d) + Len(y)) : (d \o y)[i] = IF i <= Len(d) THEN d[i] ELSE y[i - Len(d)]
    <3> HIDE DEF z
    <3>1. y \in Seq(Char)
      BY <1>2
    <3> QED BY <2>1, <3>1, ConcatProperties
  <2> DEFINE e == d \o y
  <2>3. e \in Seq(Char) /\ Len(e) = m + 1
        /\ \A i \in 1..(m + 1) : e[i] = IF i <= 1 THEN d[i] ELSE y[i - 1]
    BY <1>2, <1>3, <2>1, <2>2
  <2> HIDE DEF e
  <2>4. e[1] = "."
    BY <1>3, <2>1, <2>3
  <2>5. ASSUME NEW i \in 1..m PROVE e[i + 1] = y[i]
    <3>1. i + 1 \in 1..(m + 1) /\ ~(i + 1 <= 1) /\ (i + 1) - 1 = i
      BY <1>3
    <3>2. e[i + 1] = IF i + 1 <= 1 THEN d[i + 1] ELSE y[(i + 1) - 1]
      BY <2>3, <3>1
    <3> QED BY <3>1, <3>2
  <2> QED BY <2>3, <2>4, <2>5 DEF e, d
<1> HIDE DEF z
<1>5. IsSuffix(z, x) <=> m + 1 <= n /\ \A i \in 1..(m + 1) : z[i] = x[n - (m + 1) + i]
  <2>1. IsSuffix(z, x) <=> Len(z) <= Len(x) /\ \A i \in 1..Len(z) : z[i] = x[Len(x) - Len(z) + i]
    BY <1>1, <1>4, SuffixIs
  <2> QED BY <1>1, <1>4, <2>1
<1>6. ASSUME IsSuffix(z, x)
      PROVE  \E i \in 1..n : h[i] = "." /\ Alike(Rest(h, i), s)
  <2> DEFINE i == n - m
  <2>1. i \in 1..n /\ i \in 0..n /\ n - i = m /\ n - (m + 1) + 1 = i
    BY <1>3, <1>5, <1>6
  <2>2. h[i] = "."
    <3>1. 1 \in 1..(m + 1)
      BY <1>3
    <3>2. x[i] = "."
      BY <1>4, <1>5, <1>6, <2>1, <3>1
    <3>3. h[i] \in Char /\ x[i] = Lower[h[i]]
      BY <1>1, <2>1
    <3> QED BY <3>2, <3>3, CharAssumption
  <2>3. Len(Rest(h, i)) = m /\ \A j \in 1..m : Rest(h, i)[j] = h[i + j]
    <3> HIDE DEF i, m, n
    <3>1. Len(Rest(h, i)) = n - i /\ \A j \in 1..(n - i) : Rest(h, i)[j] = h[i + j]
      BY <2>1, RestOf DEF n
    <3> QED BY <2>1, <3>1
  <2>4. ASSUME NEW j \in 1..m PROVE Lower[h[i + j]] = Lower[s[j]]
    <3>1. j + 1 \in 1..(m + 1) /\ n - (m + 1) + (j + 1) = i + j /\ i + j \in 1..n
      BY <1>3, <1>5, <1>6
    <3>2. z[j + 1] = x[i + j]
      BY <1>5, <1>6, <3>1
    <3> QED BY <1>1, <1>2, <1>4, <3>1, <3>2
  <2>5. Alike(Rest(h, i), s)
    <3> HIDE DEF i
    <3> QED BY <2>3, <2>4 DEF Alike
  <2> QED BY <2>1, <2>2, <2>5
<1>7. ASSUME NEW i \in 1..n, h[i] = ".", Alike(Rest(h, i), s)
      PROVE  IsSuffix(z, x)
  <2>1. i \in 0..n
    BY <1>3
  <2>2. Len(Rest(h, i)) = n - i /\ \A j \in 1..(n - i) : Rest(h, i)[j] = h[i + j]
    BY <2>1, RestOf
  <2>3. m = n - i /\ \A j \in 1..m : Lower[h[i + j]] = Lower[s[j]]
    BY <1>7, <2>2 DEF Alike
  <2>4. m + 1 <= n /\ n - (m + 1) + 1 = i
    BY <1>3, <2>3
  <2>5. z[1] = x[n - (m + 1) + 1]
    <3>1. "." \in Char /\ Lower["."] = "."
      BY CharAssumption
    <3>2. x[i] = Lower[h[i]]
      BY <1>1
    <3> QED BY <1>4, <1>7, <2>4, <3>1, <3>2
  <2>6. ASSUME NEW k \in 1..(m + 1) PROVE z[k] = x[n - (m + 1) + k]
    <3>1. CASE k = 1
      BY <2>5, <3>1
    <3>2. CASE k # 1
      <4> DEFINE j == k - 1
      <4>1. j \in 1..m /\ k = j + 1 /\ n - (m + 1) + k = i + j /\ i + j \in 1..n
        BY <1>3, <2>3, <3>2
      <4> HIDE DEF j
      <4>2. z[k] = Lower[s[j]] /\ x[i + j] = Lower[h[i + j]]
        BY <1>1, <1>2, <1>4, <4>1
      <4> QED BY <2>3, <4>1, <4>2
    <3> QED BY <3>1, <3>2
  <2> QED BY <1>5, <2>4, <2>6
<1> QED BY <1>6, <1>7 DEF x, y, z

\* The labels of a name, and of the name with one more character.
LEMMA LabelsOf ==
    ASSUME NEW s \in Seq(Char)
    PROVE  /\ Labels(s) \in Labelled /\ Labels(s) \in Seq(Seq(Char))
           /\ Len(Labels(s)) \in Nat \ {0}
           /\ s = <<>> => Labels(s) = <<<<>>>>
<1>1. Len(s) \in 0..Len(s)
  OBVIOUS
<1>2. Labels(s) \in Labelled
  BY <1>1, ReadingOn DEF Labels
<1>3. s = <<>> => Len(s) = 0
  OBVIOUS
<1>4. Reading(s)[0] = <<<<>>>>
  BY ReadingOn
<1> QED BY <1>2, <1>3, <1>4 DEF Labels, Labelled

\* The labels up to the root are those without it and an empty one.
LEMMA RootedLabels ==
    ASSUME NEW s \in Seq(Char), s # <<>>
    PROVE  Rooted(s) = Append(Labels(WithoutRoot(s)), <<>>)
<1> DEFINE n == Len(s)
           w == WithoutRoot(s)
           f == Reading(s)
           a == Labels(s)
<1>1. n \in Nat \ {0} /\ n \in 1..n /\ s[n] \in Char
  OBVIOUS
<1>2. f[n] = ReadInto(f[n - 1], s[n]) /\ f[n - 1] \in Labelled /\ a = f[n]
  <2>1. n - 1 \in 0..n
    BY <1>1
  <2> HIDE DEF n
  <2>2. n = Len(s)
    BY DEF n
  <2> QED BY <1>1, <2>1, <2>2, ReadingOn DEF Labels
<1>3. /\ w \in Seq(Char)
      /\ IF s # <<>> /\ s[n] = "." THEN Len(w) = n - 1 /\ \A i \in 1..(n - 1) : w[i] = s[i]
         ELSE w = s
  BY WithoutRootName
<1>4. Rooted(s) = IF a[Len(a)] = <<>> THEN a ELSE Append(a, <<>>)
  BY DEF Rooted, Last
<1> HIDE DEF f, w, a, n
<1> DEFINE p == f[n - 1]
           c == s[n]
           r == ReadInto(p, c)
<1>5. /\ p \in Labelled /\ c \in Char /\ a = r
  BY <1>1, <1>2
<1>6. /\ Len(p) \in Nat \ {0}
      /\ c = "." => /\ Len(r) = Len(p) + 1 /\ r[Len(p) + 1] = <<>>
      /\ c # "." => /\ Len(r) = Len(p) /\ r[Len(p)] = Append(p[Len(p)], Lower[c])
  <2> HIDE DEF p, c
  <2> QED BY <1>5, ReadIntoLabels
<1>7. CASE c = "."
  <2>1. Rooted(s) = a
    BY <1>4, <1>5, <1>6, <1>7
  <2>2. a = Append(p, <<>>)
    BY <1>5, <1>7 DEF ReadInto
  <2>3. Labels(w) = p
    <3>1. Len(w) = n - 1 /\ \A i \in 1..(n - 1) : w[i] = s[i]
      BY <1>3, <1>7
    <3> DEFINE k == n - 1
    <3>2. k \in Nat /\ k <= Len(s) /\ k = Len(w) /\ \A i \in 1..k : Lower[w[i]] = Lower[s[i]]
      BY <1>1, <3>1 DEF n
    <3> HIDE DEF k
    <3>3. Reading(w)[k] = Reading(s)[k]
      BY <1>3, <3>2, ReadAlike
    <3> QED BY <3>2, <3>3 DEF Labels, k, f
  <2> QED BY <2>1, <2>2, <2>3 DEF w
<1>8. CASE c # "."
  <2>1. w = s
    BY <1>3, <1>8
  <2>2. p[Len(p)] \in Seq(Char) /\ Lower[c] \in Char
    <3> HIDE DEF p, c
    <3>1. Len(p) \in 1..Len(p) /\ p \in Seq(Seq(Char))
      BY <1>5, <1>6 DEF Labelled
    <3> QED BY <1>5, <3>1, CharAssumption
  <2>3. Append(p[Len(p)], Lower[c]) # <<>>
    BY <2>2, Appended
  <2>4. a[Len(a)] # <<>>
    BY <1>5, <1>6, <1>8, <2>3
  <2>5. Rooted(s) = Append(a, <<>>)
    BY <1>4, <2>4
  <2> QED BY <2>1, <2>5 DEF w, a
<1> QED BY <1>7, <1>8

\* An element at the end of both makes no difference.
LEMMA SuffixAppended ==
    ASSUME NEW S, NEW s \in Seq(S), NEW t \in Seq(S), NEW e \in S
    PROVE  IsSuffix(Append(s, e), Append(t, e)) <=> IsSuffix(s, t)
<1> DEFINE m == Len(s)
           n == Len(t)
           x == Append(s, e)
           y == Append(t, e)
<1>1. /\ x \in Seq(S) /\ Len(x) = m + 1 /\ x[m + 1] = e
      /\ \A i \in 1..m : x[i] = s[i]
  BY Appended
<1>2. /\ y \in Seq(S) /\ Len(y) = n + 1 /\ y[n + 1] = e
      /\ \A i \in 1..n : y[i] = t[i]
  BY Appended
<1>3. m \in Nat /\ n \in Nat
  OBVIOUS
<1>4. IsSuffix(s, t) <=> m <= n /\ \A i \in 1..m : s[i] = t[n - m + i]
  BY SuffixIs
<1> HIDE DEF x, y
<1>5. IsSuffix(x, y) <=> Len(x) <= Len(y) /\ \A i \in 1..Len(x) : x[i] = y[Len(y) - Len(x) + i]
  BY <1>1, <1>2, SuffixIs
<1> HIDE DEF m, n
<1>6. Len(x) <= Len(y) <=> m <= n
  BY <1>1, <1>2, <1>3
<1>7. Len(y) - Len(x) = n - m
  BY <1>1, <1>2, <1>3
<1>8. ASSUME m <= n
      PROVE  (\A i \in 1..(m + 1) : x[i] = y[n - m + i]) <=> \A i \in 1..m : s[i] = t[n - m + i]
  <2>1. \A i \in 1..m : i \in 1..(m + 1) /\ n - m + i \in 1..n
    BY <1>3, <1>8
  <2>2. ASSUME NEW i \in 1..m PROVE x[i] = y[n - m + i] <=> s[i] = t[n - m + i]
    BY <1>1, <1>2, <2>1
  <2>3. x[m + 1] = y[n - m + (m + 1)]
    <3>1. n - m + (m + 1) = n + 1
      BY <1>3
    <3> QED BY <1>1, <1>2, <3>1
  <2>4. \A i \in 1..(m + 1) : i \in 1..m \/ i = m + 1
    BY <1>3
  <2> QED BY <2>1, <2>2, <2>3, <2>4
<1>9. IsSuffix(x, y) <=> m <= n /\ \A i \in 1..(m + 1) : x[i] = y[n - m + i]
  BY <1>1, <1>5, <1>6, <1>7
<1>10. IsSuffix(x, y) <=> IsSuffix(s, t)
  BY <1>4, <1>8, <1>9
<1> QED BY <1>10 DEF x, y

\* A host is accepted just if it is at or below a domain that is listed.
THEOREM AllowedIsBelow ==
    ASSUME NEW name \in Seq(Char), NEW domains \in SUBSET Seq(Char)
    PROVE  IsAllowedHost(name, domains) <=> \E domain \in domains : Below(name, domain)
<1> DEFINE h == WithoutRoot(name)
<1>1. h \in Seq(Char)
  BY WithoutRootName
<1>2. NormalizeHostForMatch(name) = Lowered(h)
  BY Normalized
<1>3. ASSUME NEW domain \in domains
      PROVE  LET hostname == NormalizeHostForMatch(name)
                 suffix == NormalizeHostForMatch(domain)
             IN (suffix # <<>> /\ (hostname = suffix \/ IsSuffix(<<".">> \o suffix, hostname)))
                   <=> Below(name, domain)
  <2> DEFINE s == WithoutRoot(domain)
             x == Lowered(h)
             y == Lowered(s)
             M == y # <<>> /\ (x = y \/ IsSuffix(<<".">> \o y, x))
  <2>1. /\ domain \in Seq(Char) /\ s \in Seq(Char)
        /\ IF domain # <<>> /\ domain[Len(domain)] = "." THEN Len(s) = Len(domain) - 1
           ELSE s = domain
    BY WithoutRootName
  <2>2. NormalizeHostForMatch(domain) = y
    BY Normalized
  <2>3. s # <<>> <=> domain \notin {<<>>, <<".">>}
    <3> HIDE DEF s
    <3>1. CASE domain = <<>>
      <4>1. s = domain
        BY <2>1, <3>1
      <4> QED BY <3>1, <4>1
    <3>2. CASE domain = <<".">>
      <4>1. Len(domain) = 1 /\ domain[1] = "." /\ domain # <<>>
        BY <3>2
      <4>2. Len(s) = 0
        BY <2>1, <4>1
      <4> QED BY <2>1, <3>2, <4>2
    <3>3. CASE domain # <<>> /\ domain # <<".">> /\ domain[Len(domain)] = "."
      <4>1. Len(domain) # 1
        <5> DEFINE o == <<".">>
        <5>1. o \in Seq(Char) /\ Len(o) = 1 /\ o[1] = "."
          BY CharAssumption
        <5> HIDE DEF o
        <5>2. SUFFICES ASSUME Len(domain) = 1 PROVE domain = o
          BY <3>3 DEF o
        <5>3. \A i \in 1..Len(domain) : domain[i] = o[i]
          BY <3>3, <5>1, <5>2
        <5> QED BY <2>1, <5>1, <5>2, <5>3, SeqEqual
      <4>2. Len(s) # 0
        <5>1. Len(domain) \in Nat \ {0} /\ Len(s) = Len(domain) - 1
          BY <2>1, <3>3
        <5> QED BY <4>1, <5>1
      <4> QED BY <3>3, <4>2
    <3>4. CASE domain # <<>> /\ ~(domain[Len(domain)] = ".") /\ domain # <<".">>
      BY <2>1, <3>4
    <3> QED BY <3>1, <3>2, <3>3, <3>4
  <2>4. y # <<>> <=> s # <<>>
    <3>1. y \in Seq(Char) /\ Len(y) = Len(s)
      BY <2>1, LoweredName
    <3> HIDE DEF s, y
    <3> QED BY <2>1, <3>1
  <2> HIDE DEF h, s
  <2>5. M <=> s # <<>> /\ IsSuffix(Labels(s), Labels(h))
    <3>1. x = y <=> Alike(h, s)
      BY <1>1, <2>1, LoweredAlike
    <3>2. IsSuffix(<<".">> \o y, x) <=> \E i \in 1..Len(h) : h[i] = "." /\ Alike(Rest(h, i), s)
      BY <1>1, <2>1, LoweredSuffix
    <3>3. IsSuffix(Labels(s), Labels(h))
             <=> Alike(h, s) \/ \E i \in 1..Len(h) : h[i] = "." /\ Alike(Rest(h, i), s)
      BY <1>1, <2>1, LabelSuffix
    <3> HIDE DEF x, y
    <3> QED BY <2>4, <3>1, <3>2, <3>3
  <2> HIDE DEF x, y
  <2>6. ASSUME s # <<>>
        PROVE  IsSuffix(Rooted(domain), Rooted(name)) <=> IsSuffix(Labels(s), Labels(h))
    <3> DEFINE a == Labels(s)
               b == Labels(h)
    <3>1. a \in Seq(Seq(Char)) /\ b \in Seq(Seq(Char)) /\ <<>> \in Seq(Char)
          /\ Len(a) \in Nat \ {0}
      BY <1>1, <2>1, LabelsOf
    <3>2. Rooted(domain) = Append(a, <<>>)
      BY <2>1, <2>3, <2>6, RootedLabels DEF s
    <3> HIDE DEF a, b
    <3>3. CASE name # <<>>
      <4>1. Rooted(name) = Append(b, <<>>)
        BY <3>3, RootedLabels DEF b, h
      <4>2. IsSuffix(Append(a, <<>>), Append(b, <<>>)) <=> IsSuffix(a, b)
        BY <3>1, SuffixAppended
      <4> QED BY <3>2, <4>1, <4>2 DEF a, b
    <3>4. CASE name = <<>>
      <4>1. h = name /\ Labels(name) = <<<<>>>>
        <5>1. h = name
          BY <3>4, WithoutRootName DEF h
        <5> QED BY <3>4, <5>1, LabelsOf
      <4>2. Rooted(name) = <<<<>>>>
        BY <4>1 DEF Rooted, Last
      <4> DEFINE o == <<<<>>>>
      <4>3. o \in Seq(Seq(Char)) /\ Len(o) = 1
        BY <3>1
      <4>4. b = o
        BY <4>1 DEF b
      <4>5. Rooted(name) = o
        BY <4>2
      <4>6. Append(a, <<>>) \in Seq(Seq(Char)) /\ Len(Append(a, <<>>)) = Len(a) + 1
        BY <3>1, Appended
      <4> HIDE DEF o
      <4>7. ~IsSuffix(Append(a, <<>>), o)
        <5>1. ~(Len(a) + 1 <= 1)
          BY <3>1
        <5> DEFINE q == Append(a, <<>>)
        <5>2. q \in Seq(Seq(Char)) /\ ~(Len(q) <= Len(o))
          BY <4>3, <4>6, <5>1
        <5> HIDE DEF q
        <5>3. ~IsSuffix(q, o)
          BY <4>3, <5>2, SuffixIs
        <5> QED BY <5>3 DEF q
      <4>8. ~IsSuffix(a, o)
        \* Nothing but itself is at or below the root, and the domain is not it.
        <5>1. SUFFICES ASSUME IsSuffix(a, o) PROVE FALSE
          OBVIOUS
        <5>2. Alike(h, s) \/ \E i \in 1..Len(h) : h[i] = "." /\ Alike(Rest(h, i), s)
          BY <1>1, <2>1, <4>4, <5>1, LabelSuffix DEF a, b
        <5>3. Len(h) = 0
          BY <3>4, <4>1
        <5>4. Alike(h, s)
          BY <5>2, <5>3
        <5>5. Len(s) = 0
          BY <5>3, <5>4 DEF Alike
        <5> QED BY <2>1, <2>6, <5>5
      <4> QED BY <3>2, <4>4, <4>5, <4>7, <4>8 DEF a, b
    <3> QED BY <3>3, <3>4
  <2>7. M <=> Below(name, domain)
    BY <2>3, <2>5, <2>6 DEF Below
  <2> QED BY <1>2, <2>2, <2>7 DEF x, y
<1> QED BY <1>3 DEF IsAllowedHost

-----------------------------------------------------------------------------
(* RemoteFetch *)

\* A download begins as the invariant says.
LEMMA Initial == Init => IInv
<1> SUFFICES ASSUME Init PROVE IInv
  OBVIOUS
<1>1. TypeOK
  BY DEF Init, TypeOK
<1>2. Checked /\ TimerKnown /\ SocketsPast
  BY FetchAssumption DEF Init, Checked, TimerKnown, SocketsPast, OnTheWire
<1>3. DialsChecked /\ SocketsAccounted /\ LimitsKept
  BY FetchAssumption DEF Init, DialsChecked, SocketsAccounted, LimitsKept, Settled
<1> QED BY <1>1, <1>2, <1>3 DEF IInv

\* A step inside a hop that opens no socket and dials nothing.
LEMMA QuietStep ==
    ASSUME IInv, TypeOK', UNCHANGED <<hop, open, dialed>>,
           closing \subseteq closing',
           pc' \notin {"waiting", "reading"} => hop \in closing' \/ hop \notin open,
           pc' \in {"resolving", "dialing"} => hop \notin open,
           pc' # "checking", total' <= MaxBytes,
           pc' \in {"file", "failed"} => timer' # "armed",
           Checked', TimerKnown'
    PROVE  IInv'
<1>1. SocketsPast'
  BY DEF IInv, SocketsPast
<1>2. DialsChecked'
  BY DEF IInv, DialsChecked
<1>3. SocketsAccounted'
  BY DEF IInv, SocketsAccounted
<1>4. LimitsKept'
  BY DEF LimitsKept, Settled
<1> QED BY <1>1, <1>2, <1>3, <1>4 DEF IInv

\* Every step keeps the invariant.
LEMMA Preserved == IInv /\ [Next]_vars => IInv'
<1> SUFFICES ASSUME IInv, [Next]_vars PROVE IInv'
  OBVIOUS
<1> USE FetchAssumption
<1>1. CASE RefuseHost
  <2>1. TypeOK' /\ Checked' /\ TimerKnown'
    BY <1>1 DEF RefuseHost, Settle, IInv, TypeOK, Checked, TimerKnown, OnTheWire
  <2> QED BY <1>1, <2>1, QuietStep
          DEF RefuseHost, Settle, IInv, SocketsPast, LimitsKept
<1>2. CASE AcceptHost
  <2>1. TypeOK' /\ Checked' /\ TimerKnown'
    BY <1>2 DEF AcceptHost, IInv, TypeOK, Checked, TimerKnown, OnTheWire
  <2> QED BY <1>2, <2>1, QuietStep DEF AcceptHost, IInv, SocketsPast, LimitsKept
<1>3. ASSUME NEW found \in SUBSET Address, RefuseAddresses(found)
      PROVE  IInv'
  <2>1. TypeOK' /\ Checked' /\ TimerKnown'
    BY <1>3 DEF RefuseAddresses, Settle, IInv, TypeOK, Checked, TimerKnown, OnTheWire
  <2> QED BY <1>3, <2>1, QuietStep
          DEF RefuseAddresses, Settle, IInv, SocketsPast, LimitsKept
<1>4. ASSUME NEW found \in SUBSET Address, AcceptAddresses(found)
      PROVE  IInv'
  <2>1. TypeOK' /\ Checked' /\ TimerKnown'
    BY <1>4 DEF AcceptAddresses, AllGood, IInv, TypeOK, Checked, TimerKnown, OnTheWire
  <2> QED BY <1>4, <2>1, QuietStep
          DEF AcceptAddresses, IInv, SocketsPast, LimitsKept
<1>5. ASSUME NEW a \in Address, Dial(a)
      PROVE  IInv'
  <2>1. TypeOK' /\ Checked' /\ TimerKnown'
    BY <1>5 DEF Dial, IInv, TypeOK, Checked, TimerKnown, OnTheWire
  <2>2. SocketsPast' /\ SocketsAccounted' /\ LimitsKept'
    BY <1>5 DEF Dial, IInv, TypeOK, SocketsPast, SocketsAccounted, LimitsKept, Settled
  <2>3. host \in Allowed /\ a \notin Blocked /\ hop <= MaxRedirects
    BY <1>5 DEF Dial, Pinned, IInv, Checked
  <2>4. DialsChecked'
    BY <1>5, <2>3 DEF Dial, IInv, DialsChecked
  <2> QED BY <2>1, <2>2, <2>4 DEF IInv
<1>6. CASE Refuse
  <2>1. TypeOK' /\ Checked' /\ TimerKnown'
    BY <1>6 DEF Refuse, Drain, Settle, IInv, TypeOK, Checked, TimerKnown, OnTheWire
  <2> QED BY <1>6, <2>1, QuietStep DEF Refuse, Drain, Settle, IInv, LimitsKept
<1>7. ASSUME NEW h \in Host, Redirect(h)
      PROVE  IInv'
  <2>1. TypeOK' /\ Checked' /\ TimerKnown'
    BY <1>7 DEF Redirect, HopsLeft, Drain, IInv, TypeOK, Checked, TimerKnown, OnTheWire
  <2>2. SocketsPast'
    BY <1>7 DEF Redirect, Drain, IInv, TypeOK, SocketsPast
  <2>3. DialsChecked' /\ SocketsAccounted' /\ LimitsKept'
    BY <1>7 DEF Redirect, Drain, IInv, DialsChecked, SocketsAccounted, LimitsKept, Settled
  <2> QED BY <2>1, <2>2, <2>3 DEF IInv
<1>8. ASSUME NEW n \in 0 .. MaxBytes + 1, Accept(n)
      PROVE  IInv'
  <2>1. TypeOK' /\ Checked' /\ TimerKnown'
    BY <1>8 DEF Accept, IInv, TypeOK, Checked, TimerKnown, OnTheWire
  <2> QED BY <1>8, <2>1, QuietStep DEF Accept, IInv, LimitsKept
<1>9. ASSUME NEW n \in 1 .. MaxChunk, ReadChunk(n)
      PROVE  IInv'
  <2>1. TypeOK' /\ Checked' /\ TimerKnown'
    BY <1>9 DEF ReadChunk, IInv, TypeOK, Checked, TimerKnown, OnTheWire
  <2>2. total' <= MaxBytes
    BY <1>9 DEF ReadChunk, Fits
  <2> QED BY <1>9, <2>1, <2>2, QuietStep DEF ReadChunk, IInv
<1>10. ASSUME NEW n \in 1 .. MaxChunk, ReadTooMuch(n)
       PROVE  IInv'
  <2>1. TypeOK' /\ Checked' /\ TimerKnown'
    BY <1>10 DEF ReadTooMuch, Drain, Settle, IInv, TypeOK, Checked, TimerKnown, OnTheWire
  <2> QED BY <1>10, <2>1, QuietStep DEF ReadTooMuch, Drain, Settle, IInv, LimitsKept
<1>11. CASE ReadEnd
  <2>1. TypeOK' /\ Checked' /\ TimerKnown'
    BY <1>11 DEF ReadEnd, Drain, Settle, IInv, TypeOK, Checked, TimerKnown, OnTheWire
  <2> QED BY <1>11, <2>1, QuietStep DEF ReadEnd, Drain, Settle, IInv, LimitsKept
<1>12. CASE TimerFires
  <2>1. TypeOK' /\ TimerKnown'
    BY <1>12 DEF TimerFires, Drain, IInv, TypeOK, TimerKnown
  <2>2. Checked'
    BY <1>12 DEF TimerFires, Drain, IInv, TypeOK, Checked, OnTheWire
  <2>3. SocketsPast'
    BY <1>12 DEF TimerFires, Drain, IInv, SocketsPast
  <2>4. DialsChecked' /\ LimitsKept'
    BY <1>12 DEF TimerFires, IInv, DialsChecked, LimitsKept, Settled
  <2>5. SocketsAccounted'
    BY <1>12 DEF TimerFires, Drain, IInv, SocketsAccounted, OnTheWire
  <2> QED BY <2>1, <2>2, <2>3, <2>4, <2>5 DEF IInv
<1>13. ASSUME NEW h \in 0 .. MaxRedirects, SocketCloses(h)
       PROVE  IInv'
  <2>1. TypeOK' /\ Checked' /\ TimerKnown'
    BY <1>13 DEF SocketCloses, IInv, TypeOK, Checked, TimerKnown, OnTheWire
  <2>2. SocketsPast' /\ DialsChecked'
    BY <1>13 DEF SocketCloses, IInv, SocketsPast, DialsChecked
  <2>3. SocketsAccounted' /\ LimitsKept'
    BY <1>13 DEF SocketCloses, IInv, SocketsAccounted, LimitsKept, Settled
  <2> QED BY <2>1, <2>2, <2>3 DEF IInv
<1>14. CASE UNCHANGED vars
  BY <1>14 DEF vars, IInv, TypeOK, Checked, TimerKnown, SocketsPast,
     DialsChecked, SocketsAccounted, LimitsKept, OnTheWire, Settled
<1> QED BY <1>1, <1>2, <1>3, <1>4, <1>5, <1>6, <1>7, <1>8, <1>9, <1>10,
           <1>11, <1>12, <1>13, <1>14 DEF Next, FetchStep, Chunk, Resolved

\* The inductive invariant, for all hosts, addresses, limits and answers.
THEOREM FetchInductive == Spec => []IInv
BY Initial, Preserved, PTL DEF Spec

\* Every connection goes to a checked address of an allowed host: to one the
\* operator listed and to no internal address but those of IPv6 multicast, if
\* isAllowedHost() accepts no other host and isBlockedAddress() rejects the
\* other internal ones.
THEOREM ConnectionsVetted ==
    ASSUME Internal \ Multicast \subseteq Blocked, Allowed \subseteq Trusted
    PROVE  Spec => []DialsVetted
<1>1. IInv => DialsVetted
  BY DEF IInv, DialsChecked, DialsVetted
<1> QED BY <1>1, FetchInductive, PTL

\* With the filters as the code writes them, for any names, domains and
\* addresses and however these are spelt: what is dialed is an address outside
\* the networks, or of IPv6 multicast, of a host at or below a listed domain.
THEOREM ReachesOnlyOutside ==
    ASSUME NEW entries \in SUBSET Seq(Char),
           Host \subseteq Seq(Char), Address \subseteq Texts,
           Allowed = {h \in Host : IsAllowedHost(h, entries)},
           Trusted = {h \in Host : \E domain \in entries : Below(h, domain)},
           Blocked = {a \in Address : IsBlockedAddress(a)},
           Internal = {a \in Address : ~Outside(a)},
           Multicast = {a \in Address : IsMulticast6(a)}
    PROVE  Spec => []DialsVetted
<1>1. Internal \ Multicast \subseteq Blocked
  BY BlockedIsInternal
<1>2. Allowed \subseteq Trusted
  BY AllowedIsBelow
<1> QED BY <1>1, <1>2, ConnectionsVetted

\* No socket is forgotten, whichever way a hop or the download ends, and the
\* size limit holds whatever the peer declared or sent.
THEOREM NothingLeaks == Spec => []ResourcesAccounted
<1>1. IInv => ResourcesAccounted
  BY DEF IInv, ResourcesAccounted
<1> QED BY <1>1, FetchInductive, PTL

\* No connection is made after an abort.
THEOREM NoDialAfterAbort == Spec => QuietAfterAbort
<1>1. IInv /\ [Next]_vars => [aborted => dialed' = dialed]_vars
  <2> SUFFICES ASSUME IInv, [Next]_vars, aborted PROVE dialed' = dialed
    OBVIOUS
  <2>1. ~ \E a \in Address : Dial(a)
    BY DEF Dial, IInv, Checked, OnTheWire
  <2> QED BY <2>1 DEF Next, FetchStep, Chunk, vars, Resolved, RefuseHost, AcceptHost, RefuseAddresses,
          AcceptAddresses, Refuse, Redirect, Accept, ReadChunk, ReadTooMuch,
          ReadEnd, TimerFires, SocketCloses
<1> QED BY <1>1, FetchInductive, PTL DEF Spec, QuietAfterAbort

-----------------------------------------------------------------------------
(* UrlUpload *)

\* A step of the tool is one of the download or leaves it alone.
LEMMA DownloadSteps == [UploadNext]_uploadVars => [Next]_vars
BY DEF UploadNext, uploadVars, Next, Download, DownloadFails, SendFile, Filed,
       FileAnswered, LexwareStores

\* The tool uses the download as its specification allows, so that all that is
\* proved of a download holds for it.
THEOREM UploadUsesFetch == UploadSpec => Spec
<1>1. UploadInit => Init
  BY DEF UploadInit
<1> QED BY <1>1, DownloadSteps, PTL DEF UploadSpec, Spec

\* The tool begins as its invariant says.
LEMMA UploadInitial == UploadInit => UploadInv
<1> SUFFICES ASSUME UploadInit PROVE UploadInv
  OBVIOUS
<1>1. IInv
  BY Initial DEF UploadInit
<1>2. UploadTypeOK /\ AllKept /\ FileFirst
  BY DEF UploadInit, Init, Post!WriteInit, UploadTypeOK, AllKept, FileFirst, File
<1> QED BY <1>1, <1>2 DEF UploadInv

\* A step of the download that is not a read throws nothing away.
LEMMA StepKeeps ==
    ASSUME IInv, AllKept, FetchStep, UNCHANGED received
    PROVE  AllKept'
BY DEF AllKept, FetchStep, RefuseHost, AcceptHost, Resolved, RefuseAddresses, AcceptAddresses,
       Dial, Refuse, Redirect, Accept, ReadEnd, TimerFires, SocketCloses, Settle, OnTheWire,
       IInv, Checked

\* Once there is a file, the download only closes its sockets.
LEMMA FileIsFinal ==
    ASSUME IInv, [Next]_vars, pc = "file"
    PROVE  pc' = "file"
BY DEF Next, FetchStep, Chunk, vars, RefuseHost, AcceptHost, Resolved, RefuseAddresses,
       AcceptAddresses, Dial, Refuse, Redirect, Accept, ReadChunk, ReadTooMuch, ReadEnd,
       TimerFires, SocketCloses, OnTheWire, IInv, LimitsKept, Settled

\* Every step of the tool keeps its invariant.
LEMMA UploadPreserved == UploadInv /\ [UploadNext]_uploadVars => UploadInv'
<1> SUFFICES ASSUME UploadInv, [UploadNext]_uploadVars PROVE UploadInv'
  OBVIOUS
<1>1. IInv'
  BY Preserved, DownloadSteps DEF UploadInv
<1>2. CASE Download
  <2>1. UploadTypeOK'
    BY <1>2, FetchAssumption DEF Download, UploadInv, UploadTypeOK, filing
  <2>2. AllKept'
    <3>1. CASE FetchStep /\ UNCHANGED received
      BY <3>1, StepKeeps DEF UploadInv
    <3>2. ASSUME NEW n \in 1 .. MaxChunk, ReadChunk(n), received' = received + n
          PROVE  AllKept'
      BY <3>2 DEF ReadChunk, UploadInv, AllKept
    <3>3. ASSUME NEW n \in 1 .. MaxChunk, ReadTooMuch(n) PROVE AllKept'
      BY <3>3 DEF ReadTooMuch, Settle, AllKept
    <3> QED BY <1>2, <3>1, <3>2, <3>3 DEF Download, Chunk
  <2>3. FileFirst'
    <3>1. pc = "file" => pc' = "file"
      BY FileIsFinal, DownloadSteps DEF UploadInv
    <3> QED BY <1>2, <3>1 DEF Download, filing, UploadInv, FileFirst
  <2> QED BY <1>1, <2>1, <2>2, <2>3 DEF UploadInv
<1>3. CASE DownloadFails
  BY <1>1, <1>3 DEF DownloadFails, Answer, UploadInv, UploadTypeOK, AllKept, FileFirst, vars
<1>4. CASE SendFile
  BY <1>1, <1>4 DEF SendFile, UploadInv, UploadTypeOK, AllKept, FileFirst, vars
<1>5. ASSUME NEW verdict \in {"done", "refused", "unclear"}, FileAnswered(verdict)
      PROVE  UploadInv'
  BY <1>1, <1>5 DEF FileAnswered, Answer, Post!Tell, File, UploadInv, UploadTypeOK, AllKept,
     FileFirst, vars
<1>6. CASE LexwareStores
  BY <1>1, <1>6 DEF LexwareStores, Post!Happen, File, UploadInv, UploadTypeOK, AllKept,
     FileFirst, vars
<1>7. CASE UNCHANGED uploadVars
  BY <1>1, <1>7 DEF uploadVars, vars, filing, UploadInv, UploadTypeOK, AllKept, FileFirst
<1> QED BY <1>2, <1>3, <1>4, <1>5, <1>6, <1>7 DEF UploadNext, Filed

\* Where the file stands, for any limit and any sizes of the reads.
THEOREM UploadInductive == UploadSpec => []UploadInv
BY UploadInitial, UploadPreserved, PTL DEF UploadSpec

\* What is filed is the whole of what the peer sent, and within the limit.
THEOREM FilesWhole == UploadSpec => []FiledAsFetched
<1>1. UploadInv => FiledAsFetched
  BY DEF UploadInv, AllKept, FileFirst, IInv, LimitsKept, FiledAsFetched
<1> QED BY <1>1, UploadInductive, PTL

=============================================================================
