------------------------------- MODULE Merge -------------------------------
(***************************************************************************)
(* deepMergePatch() and mergeAddresses() of src/src/tools/shared.ts, which *)
(* every update tool lays its fields over the current record with,         *)
(* compared with an overlay of paths.  The state is a contact that is      *)
(* updated again and again, so that what one merge made is the base of the *)
(* next.                                                                   *)
(*                                                                         *)
(* A value is an object, a leaf (a scalar, null or a list: replaced as a   *)
(* whole) or undefined.  Undefined stands for an absent property and for   *)
(* one whose value is undefined: reading either gives undefined, the       *)
(* merges pass over both, and JSON.stringify leaves both out.              *)
(***************************************************************************)
EXTENDS Integers, SequencesExt

CONSTANTS Property,   \* names of properties
          Scalar,     \* what a leaf may hold
          Depth,      \* how deep an object may be nested in another
          Given,      \* contacts as Lexware may return them at first
          Asked,      \* field patches: objects
          Addressed   \* address patches: lists of objects by kind

Leaf(v) == [leaf |-> v]
Undefined == [undefined |-> TRUE]
Object(f) == [object |-> f]
Nothing == Object([k \in Property |-> Undefined])

\* Those with at most n objects on top of one another inside.
ObjectsTo[n \in Nat] ==
    [object : [Property -> [leaf : Scalar] \cup {Undefined}
                               \cup (IF n = 0 THEN {} ELSE ObjectsTo[n - 1])]]
Objects == ObjectsTo[Depth]

AreAddresses(a) == /\ a = [k \in DOMAIN a |-> a[k]]
                   /\ \A k \in DOMAIN a : a[k] \in Seq(Objects)

ASSUME ContactsAssumption ==
    /\ Depth \in Nat /\ Asked \subseteq Objects
    /\ \A c \in Given : c.fields \in Objects /\ AreAddresses(c.addresses)
    /\ \A a \in Addressed : AreAddresses(a)

VARIABLES record,     \* the fields of the contact but its addresses
          addresses   \* its addresses: lists of objects by kind

contact == <<record, addresses>>

IsPlainObject(v) == "object" \in DOMAIN v
Defined(v) == {k \in Property : v.object[k] # Undefined}

-----------------------------------------------------------------------------
(* The two merges *)

\* Slip: { ...base, ...patch }.
SpreadOnly(base, patch) ==
    Object([k \in Property |-> IF k \in Defined(patch) THEN patch.object[k] ELSE base.object[k]])

\* Overlay patch onto base, recursing where both hold an object.
Merging[base \in Objects] == [patch \in Objects |->
    LET Merged(value, existing) ==
            IF IsPlainObject(value) /\ IsPlainObject(existing) THEN Merging[existing][value]
            ELSE value
    IN Object([k \in Property |->
                  IF k \in Defined(patch) THEN Merged(patch.object[k], base.object[k])
                  ELSE base.object[k]])]
DeepMergePatch(base, patch) == Merging[base][patch]

\* Entries merge by index; those beyond the patch are kept.
MergeList(base, patch) ==
    [i \in DOMAIN patch |-> IF i \in DOMAIN base THEN DeepMergePatch(base[i], patch[i])
                            ELSE patch[i]]
        \o SubSeq(base, Len(patch) + 1, Len(base))

MergeAddresses(current, patch) ==
    [k \in DOMAIN current \cup DOMAIN patch |->
        IF k \notin DOMAIN patch THEN current[k]
        ELSE MergeList(IF k \in DOMAIN current THEN current[k] ELSE <<>>, patch[k])]

-----------------------------------------------------------------------------
MergeInit == \E c \in Given : record = c.fields /\ addresses = c.addresses

\* update-contact: both merges, the second only if addresses were passed.
UpdateFields(p) == /\ record' = DeepMergePatch(record, p)
                   /\ UNCHANGED addresses

UpdateAddresses(p, a) ==
    /\ record' = DeepMergePatch(record, p)
    /\ addresses' = MergeAddresses(addresses, a)

MergeNext == \/ \E p \in Asked : UpdateFields(p)
             \/ \E a \in Addressed : UpdateAddresses(Nothing, a)

MergeSpec == MergeInit /\ [][MergeNext]_contact

-----------------------------------------------------------------------------
(* The reference: a value as the set of its leaves, each with its path *)

Below(path, leaves) == {<<path \o l[1], l[2]>> : l \in leaves}

\* An object without properties is a leaf as well.
LeavesOf[v \in Objects] ==
    LET LeavesAt(w) == IF IsPlainObject(w) THEN LeavesOf[w] ELSE {<<<<>>, w>>}
    IN IF Defined(v) = {} THEN {<<<<>>, Nothing>>}
       ELSE UNION {Below(<<k>>, LeavesAt(v.object[k])) : k \in Defined(v)}

AddressLeaves(a) ==
    UNION {UNION {Below(<<k, i>>, LeavesOf[a[k][i]]) : i \in DOMAIN a[k]} : k \in DOMAIN a}

\* A leaf displaces those below and above it.  Only an empty object displaces
\* no object.
Moot(l, below) == l[2] = Nothing /\ \E b \in below : /\ IsPrefix(l[1], b[1])
                                                     /\ (l[1] # b[1] \/ b[2] = Nothing)
Overlay(below, above) ==
    LET top == {l \in above : ~Moot(l, below)}
    IN top \cup {b \in below : \A l \in top : ~IsPrefix(l[1], b[1]) /\ ~IsPrefix(b[1], l[1])}

-----------------------------------------------------------------------------
(* Properties *)

\* However deep a patch reaches, each property it names gets its value and
\* every other one keeps its own: no sibling is wiped by the PUT.  The same for
\* addresses, with the index as a part of the path: a partial address keeps the
\* rest of its own, and a second one survives.
MergesOverlay ==
    /\ \A p \in Asked :
          LeavesOf[DeepMergePatch(record, p)] = Overlay(LeavesOf[record], LeavesOf[p])
    /\ \A a \in Addressed :
          AddressLeaves(MergeAddresses(addresses, a))
              = Overlay(AddressLeaves(addresses), AddressLeaves(a))

=============================================================================
