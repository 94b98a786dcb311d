---------------------------- MODULE AtomicUpdate ----------------------------
(***************************************************************************)
(* What the update tools promise: however a call is split into a GET, a    *)
(* merge and a PUT, each one that takes effect does so at one moment, once *)
(* and by merging its fields into the record as it is at that moment.      *)
(***************************************************************************)
EXTENDS VoucherBody, Naturals

CONSTANT Caller

VARIABLES record,  \* the record at Lexware
          patch,   \* the fields each call sets
          done,    \* calls that took effect
          edits    \* edits made by others, counted to tell them apart

vars == <<record, patch, done, edits>>

Init == /\ record \in {r \in Record : OneContact(r)}
        /\ patch \in [Caller -> Patch]
        /\ done = {}
        /\ edits = 0

Update(u) ==
    /\ u \notin done
    /\ record' = Updated(record, patch[u])
    /\ done' = done \cup {u}
    /\ UNCHANGED <<patch, edits>>

OtherEdit == /\ record' \in {r \in Record : OneContact(r)}
             /\ edits' = edits + 1
             /\ UNCHANGED <<patch, done>>

Next == (\E u \in Caller : Update(u)) \/ OtherEdit

Spec == Init /\ [][Next]_vars
=============================================================================
