---------------------------- MODULE AddressRanges ----------------------------
(***************************************************************************)
(* isBlockedAddress() of src/src/uploads/fetch-url.ts: how it reads the     *)
(* spelling of an address, and which ranges it rejects.                     *)
(*                                                                         *)
(* A spelling is [form |-> "v4", octets], [form |-> "v6", zone, left, gap,  *)
(* right] or [form |-> "none"] for text that is neither (isIPv4 and isIPv6  *)
(* of node:net tell).  left and right are the groups before and after "::"  *)
(* (gap), each the bytes it stands for: two, or four if it is dotted.       *)
(***************************************************************************)
EXTENDS Integers, Sequences, SequencesExt

Zeros(b, n) == \A i \in 1 .. n : b[i] = 0

Unparsed == <<>>

\* Bytes of an IPv6 spelling; the zone is cut off, the gap filled with zeros.
ParseIPv6ToBytes(text) ==
    LET left == FlattenSeq(text.left)
        right == FlattenSeq(text.right)
        missing == 16 - Len(left) - Len(right)
    IN IF missing < 0 \/ (missing > 0 /\ ~text.gap) THEN Unparsed
       ELSE left \o [i \in 1 .. missing |-> 0] \o right

IsBlockedIPv4Bytes(a, b, c) ==
    \/ a \in {0, 10, 127}
    \/ a = 172 /\ b \in 16 .. 31
    \/ a = 192 /\ (b = 168 \/ (b = 0 /\ c = 0))
    \/ a = 169 /\ b = 254
    \/ a = 100 /\ b \in 64 .. 127
    \/ a = 198 /\ b \in {18, 19}
    \/ a >= 224

\* An IPv4 address in disguise is judged as one.
HoldsIPv4(b) == Zeros(b, 12) \/ (Zeros(b, 10) /\ b[11] = 255 /\ b[12] = 255)

IsBlockedIPv6Bytes(b) ==
    IF HoldsIPv4(b) THEN IsBlockedIPv4Bytes(b[13], b[14], b[15])
    ELSE \/ SubSeq(b, 1, 4) = <<0, 100, 255, 155>> /\ \A i \in 5 .. 12 : b[i] = 0
         \/ b[1] = 32 /\ b[2] = 2
         \/ b[1] = 254 /\ b[2] \div 64 \in {2, 3}
         \/ b[1] \div 2 = 126

\* What cannot be read is blocked.
IsBlockedAddress(text) ==
    \/ text.form = "none"
    \/ text.form = "v4" /\ IsBlockedIPv4Bytes(text.octets[1], text.octets[2], text.octets[3])
    \/ text.form = "v6" /\ LET b == ParseIPv6ToBytes(text)
                           IN b = Unparsed \/ IsBlockedIPv6Bytes(b)
=============================================================================
