---------------------------- MODULE MCRemoteFetch ----------------------------
(* Downloads among names that resolve to real addresses, a check of          *)
(* isBlockedAddress() against a table of networks and all spellings, and one *)
(* of isAllowedHost() against the labels of names.                           *)
EXTENDS UrlUpload, Networks, DomainNames

-----------------------------------------------------------------------------
(* All spellings of sixteen bytes. *)

Pairs(bytes) == [i \in 1 .. Len(bytes) \div 2 |-> SubSeq(bytes, 2 * i - 1, 2 * i)]

\* The groups of an even number of bytes; the last two may be dotted.
Groupings(bytes, last) ==
    {Pairs(bytes)} \cup
    (IF last /\ Len(bytes) >= 4
     THEN {Append(Pairs(SubSeq(bytes, 1, Len(bytes) - 4)), SubSeq(bytes, Len(bytes) - 3, Len(bytes)))}
     ELSE {})

Spelling(zone, left, gap, right) ==
    [form |-> "v6", zone |-> zone, left |-> left, gap |-> gap, right |-> right]

\* Written out, or with "::" for any run of zeros, with or without a zone.
Spellings(bytes) ==
    {Spelling(z, l, FALSE, <<>>) : z \in BOOLEAN, l \in Groupings(bytes, TRUE)}
    \cup UNION {{Spelling(z, l, TRUE, r) :
                    z \in BOOLEAN,
                    l \in Groupings(SubSeq(bytes, 1, 2 * run[1]), FALSE),
                    r \in Groupings(SubSeq(bytes, 2 * run[2] + 1, 16), TRUE)} :
                run \in {p \in (0 .. 8) \X (0 .. 8) :
                           /\ p[1] < p[2]
                           /\ \A i \in 2 * p[1] + 1 .. 2 * p[2] : bytes[i] = 0}}

-----------------------------------------------------------------------------
(* Both sides of every boundary. *)

Edge4 == {0, 1, 9, 10, 11, 15, 16, 17, 18, 19, 20, 31, 32, 63, 64, 100, 101, 126, 127, 128,
          167, 168, 169, 171, 172, 173, 191, 192, 193, 197, 198, 199, 223, 224, 239, 240,
          253, 254, 255}
Edge6 == {0, 1, 2, 3, 31, 32, 33, 63, 64, 99, 100, 101, 127, 128, 191, 192, 193, 251, 252,
          253, 254, 255}

\* What the ranges say agrees with the table but for multicast (fetch-url.ts:64,
\* 134).
ASSUME RangesMatchTable ==
    /\ \A a, b \in Edge4, c \in {0, 1, 255} :
          IsBlockedIPv4Bytes(a, b, c) <=> Internal4(<<a, b, c, 7>>)
    /\ \A a, b \in Edge6, x \in {0, 1}, e, f \in {0, 254, 255}, o \in {0, 8, 10, 127} :
          LET bytes == <<a, b, 0, 0, 0, x, 0, 0, 0, 0, e, f, o, 0, 0, 1>>
          IN IsBlockedIPv6Bytes(bytes) <=> Internal6(bytes) /\ ~Within(bytes, Multicast6)

Samples ==
    {[i \in 1 .. 16 |-> 0],
     [i \in 1 .. 16 |-> IF i = 16 THEN 1 ELSE 0],
     <<0, 0, 0, 0, 0, 0, 0, 0, 0, 0, 255, 255, 169, 254, 169, 254>>,
     <<0, 100, 255, 155, 0, 0, 0, 0, 0, 0, 0, 0, 10, 0, 0, 1>>,
     <<254, 128, 0, 0, 0, 0, 0, 0, 0, 0, 0, 0, 0, 0, 0, 1>>,
     <<38, 6, 0, 0, 0, 0, 1, 2, 0, 0, 0, 0, 8, 8, 8, 8>>}

\* However an address is spelt, it is read as the same bytes (fetch-url.ts:84).
ASSUME SpellingsAgree ==
    \A bytes \in Samples : \A text \in Spellings(bytes) :
        ParseIPv6ToBytes(text) = bytes /\ Spells(text, bytes)

-----------------------------------------------------------------------------
(* What names resolve to: a public address, metadata services in three       *)
(* spellings, all nodes of a link, and text that is no address.              *)

V4(a, b, c, d) == [form |-> "v4", octets |-> <<a, b, c, d>>]
Public4 == V4(13, 107, 136, 10)
Metadata == V4(169, 254, 169, 254)
MappedHex == Spelling(FALSE, <<>>, TRUE, <<<<255, 255>>, <<169, 254>>, <<169, 254>>>>)
MappedDotted == Spelling(TRUE, <<>>, TRUE, <<<<255, 255>>, <<169, 254, 169, 254>>>>)
AllNodes == Spelling(FALSE, <<<<255, 2>>>>, TRUE, <<<<0, 1>>>>)
NoAddress == [form |-> "none"]

MCAddress == {Public4, Metadata, MappedHex, MappedDotted, AllNodes, NoAddress}
MCBlocked == {a \in MCAddress : IsBlockedAddress(a)}
MCInternal == MCAddress \ {Public4}
MCMulticast == {AllNodes}

-----------------------------------------------------------------------------
(* Names of letters and dots. *)

MCChar == {"A", "B", "a", "b", "."}
MCLower == [c \in MCChar |-> IF c = "A" THEN "a" ELSE IF c = "B" THEN "b" ELSE c]

Names == UNION {[1 .. n -> {"a", "A", "b", "."}] : n \in 1 .. 4}
Domains == UNION {[1 .. n -> {"a", "b", "."}] : n \in 0 .. 3}

\* What is matched by characters agrees with the labels (fetch-url.ts:34).
ASSUME HostsMatchLabels ==
    \A name \in Names, domain \in Domains :
        IsAllowedHost(name, {domain}) <=> Below(name, domain)

\* a.b is listed; so is nothing, by a comma too many.
Entries == {<<"a", ".", "b">>, <<>>}

MCHost == {<<"A", ".", "b", ".">>, <<"b", ".", "a", ".", "b">>, <<"b", "a", ".", "b">>}
MCAllowed == {h \in MCHost : IsAllowedHost(h, Entries)}
MCTrusted == {h \in MCHost : \E e \in Entries : Below(h, e)}

\* Names and addresses are of the kinds that the theorems are about.
ASSUME KindsAsProved == MCHost \cup Entries \subseteq Seq(MCChar) /\ MCAddress \subseteq Texts
=============================================================================
