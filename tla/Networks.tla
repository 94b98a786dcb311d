------------------------------ MODULE Networks ------------------------------
(***************************************************************************)
(* What isBlockedAddress() of src/src/uploads/fetch-url.ts is to tell      *)
(* apart, as a table of networks: a reference for AddressRanges.           *)
(***************************************************************************)
EXTENDS AddressRanges

\* A network: the first bits of an address, and how many they are.
Networks4 ==
    {<<<<0>>, 8>>, <<<<10>>, 8>>, <<<<127>>, 8>>, <<<<169, 254>>, 16>>, <<<<172, 16>>, 12>>,
     <<<<192, 168>>, 16>>, <<<<100, 64>>, 10>>, <<<<192, 0, 0>>, 24>>, <<<<198, 18>>, 15>>,
     <<<<224>>, 4>>, <<<<240>>, 4>>}

\* The IPv6 equivalent of 224.0.0.0/4.
Multicast6 == <<<<255>>, 8>>

\* Those of the comments at fetch-url.ts:147-157, and multicast, which the one
\* at fetch-url.ts:161-164 names for both kinds of addresses.
Networks6 ==
    {<<<<0, 100, 255, 155, 0, 0, 0, 0, 0, 0, 0, 0>>, 96>>, <<<<32, 2>>, 16>>,
     <<<<254, 128>>, 10>>, <<<<254, 192>>, 10>>, <<<<252>>, 7>>, Multicast6}

Weight == <<128, 64, 32, 16, 8, 4, 2, 1>>
Bit(byte, k) == (byte \div Weight[k]) % 2

Within(bytes, network) ==
    \A i \in 1 .. network[2] :
        LET j == ((i - 1) \div 8) + 1
            k == ((i - 1) % 8) + 1
        IN Bit(bytes[j], k) = Bit(network[1][j], k)

Internal4(octets) == \E n \in Networks4 : Within(octets, n)

\* The last 32 bits count if the rest says that they are all there is.
Internal6(bytes) ==
    \/ \E n \in Networks6 : Within(bytes, n)
    \/ /\ SubSeq(bytes, 1, 12) \in {[i \in 1 .. 12 |-> 0],
                                    [i \in 1 .. 12 |-> IF i > 10 THEN 255 ELSE 0]}
       /\ Internal4(SubSeq(bytes, 13, 16))

-----------------------------------------------------------------------------
Byte == 0 .. 255

\* What an address may be spelt like.
Texts ==
    [form : {"none"}]
    \cup [form : {"v4"}, octets : [1 .. 4 -> Byte]]
    \cup [form : {"v6"}, zone : BOOLEAN, left : Seq(Seq(Byte)), gap : BOOLEAN,
          right : Seq(Seq(Byte))]

\* The text stands for these bytes: all are written, or "::" is for a run of zeros.
Spells(text, bytes) ==
    \E p, q \in 0 .. 16 :
        /\ p <= q
        /\ FlattenSeq(text.left) = SubSeq(bytes, 1, p)
        /\ FlattenSeq(text.right) = SubSeq(bytes, q + 1, 16)
        /\ IF text.gap THEN \A i \in p + 1 .. q : bytes[i] = 0 ELSE p = q

\* An address that a server may reach.
Outside(text) ==
    \/ text.form = "v4" /\ ~Internal4(text.octets)
    \/ text.form = "v6" /\ \E bytes \in [1 .. 16 -> Byte] :
                               Spells(text, bytes) /\ ~Internal6(bytes)

\* One of IPv6 multicast, which the code does not tell from those outside.
IsMulticast6(text) ==
    text.form = "v6" /\ \E bytes \in [1 .. 16 -> Byte] :
                            Spells(text, bytes) /\ Within(bytes, Multicast6)
=============================================================================
