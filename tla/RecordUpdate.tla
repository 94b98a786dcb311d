---------------------------- MODULE RecordUpdate ----------------------------
(***************************************************************************)
(* update-voucher, update-contact and update-article: a GET, a merge and a *)
(* PUT with a version, by calls that run at the same time as one another   *)
(* and as other users of the Lexware account.                              *)
(*                                                                         *)
(* The merge is synchronous and happens when the GET is answered.  The PUT *)
(* is never repeated (idempotent: false); its answer may be lost, and it   *)
(* may be carried out after the client gave up on it or died.  Lexware     *)
(* refuses a PUT whose version is not the record's.                        *)
(***************************************************************************)
EXTENDS VoucherBody, Integers

CONSTANTS Caller,   \* calls of an update tool for one record
          Given,    \* what Lexware may hold at first, and others may make it
          Asked,    \* patches a caller may ask for
          MaxEdits  \* bound on edits by others

ASSUME RecordAssumption ==
    /\ Given \subseteq {r \in Record : OneContact(r)}
    /\ Asked \subseteq {p \in Patch : \A f \in {"contactId", "contactName"} :
                                          p[f] # "none"}
    /\ MaxEdits \in Nat

VARIABLES record,   \* the record at Lexware
          version,  \* its version
          edits,    \* edits by others
          patch,    \* the fields of each call
          wanted,   \* the version a call was given, or Latest
          phase,    \* where the handler of a call stands
          snap,     \* `current`, as the GET returned it
          seen,     \* its version
          done,     \* calls whose PUT Lexware carried out
          loose,    \* calls whose PUT was given up on and may be carried out
          outcome   \* what a call reported

vars == <<record, version, edits, patch, wanted, phase, snap, seen, done,
          loose, outcome>>

Latest == -1  \* the caller omitted the version

Outcomes == {"none", "updated", "conflict", "invalid", "failed", "unclear"}

TypeOK ==
    /\ record \in Record
    /\ OneContact(record)
    /\ version \in Nat
    /\ edits \in Nat
    /\ patch \in [Caller -> Asked]
    /\ wanted \in [Caller -> Nat \cup {Latest}]
    /\ phase \in [Caller -> {"ready", "putting", "settled"}]
    /\ snap \in [Caller -> Record]
    /\ seen \in [Caller -> Nat]
    /\ done \in SUBSET Caller
    /\ loose \in SUBSET (Caller \ done)
    /\ outcome \in [Caller -> Outcomes]

Init ==
    /\ record \in Given
    /\ version = 0
    /\ edits = 0
    /\ patch \in [Caller -> Asked]
    /\ wanted = [u \in Caller |-> Latest]
    /\ phase = [u \in Caller |-> "ready"]
    /\ snap = [u \in Caller |-> record]
    /\ seen = [u \in Caller |-> 0]
    /\ done = {}
    /\ loose = {}
    /\ outcome = [u \in Caller |-> "none"]

BodyOf(u) == Body(snap[u], patch[u])

\* Slips: || instead of ??, so that a version 0 counts as omitted; the version
\* is taken when the PUT is made, not when the record was read.
VersionOrRead(u) == IF wanted[u] \in {Latest, 0} THEN seen[u] ELSE wanted[u]
VersionNow(u) == version

\* version ?? current.version.
VersionOf(u) == IF wanted[u] = Latest THEN seen[u] ELSE wanted[u]

Settle(u, o) == /\ phase' = [phase EXCEPT ![u] = "settled"]
                /\ outcome' = [outcome EXCEPT ![u] = o]

-----------------------------------------------------------------------------
(* The tools *)

\* The GET is answered.  A version the caller passes is one it read before.
Get(u, v) ==
    /\ phase[u] = "ready"
    /\ phase' = [phase EXCEPT ![u] = "putting"]
    /\ wanted' = [wanted EXCEPT ![u] = v]
    /\ snap' = [snap EXCEPT ![u] = record]
    /\ seen' = [seen EXCEPT ![u] = version]
    /\ UNCHANGED <<record, version, edits, patch, done, loose, outcome>>

\* The GET fails, and nothing is sent.
GetFails(u) ==
    /\ phase[u] = "ready"
    /\ Settle(u, "failed")
    /\ UNCHANGED <<record, version, edits, patch, wanted, snap, seen, done, loose>>

\* The answers of the PUT: a 2xx, a 409, a 406, another 4xx.  (A 429 is
\* repeated inside the client, and nothing was carried out.)
PutAnswered(u) ==
    /\ phase[u] = "putting"
    /\ \/ u \in done /\ Settle(u, "updated")
       \/ u \notin done /\ VersionOf(u) # version /\ Settle(u, "conflict")
       \/ u \notin done /\ ~Accepts(BodyOf(u)) /\ Settle(u, "invalid")
       \/ u \notin done /\ Settle(u, "failed")
    /\ UNCHANGED <<record, version, edits, patch, wanted, snap, seen, done, loose>>

\* Slip: a lost answer is reported like a refusal.
PutUnclearAsFailed(u) ==
    /\ phase[u] = "putting"
    /\ Settle(u, "failed")
    /\ loose' = IF u \in done THEN loose ELSE loose \cup {u}
    /\ UNCHANGED <<record, version, edits, patch, wanted, snap, seen, done>>

\* No answer, a 5xx, or the process dies.
PutUnclear(u) ==
    /\ phase[u] = "putting"
    /\ Settle(u, "unclear")
    /\ loose' = IF u \in done THEN loose ELSE loose \cup {u}
    /\ UNCHANGED <<record, version, edits, patch, wanted, snap, seen, done>>

-----------------------------------------------------------------------------
(* The environment *)

\* Lexware carries out a PUT, one that was given up on included.
LexwarePuts(u) ==
    /\ phase[u] = "putting" \/ u \in loose
    /\ u \notin done
    /\ VersionOf(u) = version /\ Accepts(BodyOf(u))
    /\ record' = Stored(record, BodyOf(u))
    /\ version' = version + 1
    /\ done' = done \cup {u}
    /\ loose' = loose \ {u}
    /\ UNCHANGED <<edits, patch, wanted, phase, snap, seen, outcome>>

\* A PUT that was given up on never arrives, or is refused.
LoosePutEnds(u) ==
    /\ u \in loose
    /\ loose' = loose \ {u}
    /\ UNCHANGED <<record, version, edits, patch, wanted, phase, snap, seen,
                   done, outcome>>

\* Another user edits the record, or pays the voucher.
OtherEdits(r) ==
    /\ edits < MaxEdits
    /\ record' = r
    /\ version' = version + 1
    /\ edits' = edits + 1
    /\ UNCHANGED <<patch, wanted, phase, snap, seen, done, loose, outcome>>

-----------------------------------------------------------------------------
Next == \/ \E u \in Caller : \/ \E v \in {Latest} \cup 0 .. version : Get(u, v)
                             \/ GetFails(u) \/ PutAnswered(u) \/ PutUnclear(u)
                             \/ LexwarePuts(u) \/ LoosePutEnds(u)
        \/ \E r \in Given : OtherEdits(r)

Spec == Init /\ [][Next]_vars

-----------------------------------------------------------------------------
(* Properties *)

Atomic == INSTANCE AtomicUpdate

\* No update is lost: every PUT that takes effect does so as if its GET had
\* been made at that very moment, although the record may have changed in
\* between, may change back, or the caller may pass an old version.
ImplementsAtomicUpdate == Atomic!Spec

\* What a call reports is what it did: an update that is reported took effect
\* and one whose error leaves nothing open never will, not even late.
ReportsWhatItDid ==
    \A u \in Caller :
        /\ outcome[u] = "updated" => u \in done
        /\ outcome[u] \in {"conflict", "invalid", "failed"} => u \notin done \cup loose

\* A body is refused only for what the caller itself put into it: neither an
\* old contact nor a payment that came in is turned against an update.
RefusedForOwnFields ==
    \A u \in Caller : outcome[u] = "invalid" => patch[u]["voucherStatus"] \in Derived

\* A version the caller passes is a lock: its update takes effect only if
\* nobody has touched the record since the caller read that version.
HonoursLock ==
    [][\A u \in done' \ done : wanted[u] # Latest => version = wanted[u]]_vars

\* Naming a contact in one way takes the other two contact fields along.
Touches(p, f) ==
    \/ Names(p, f)
    \/ /\ f \in {"contactId", "contactName", "useCollectiveContact"}
       /\ Names(p, "contactId") \/ Names(p, "contactName")

\* An update changes nothing its caller did not name: the PUT replaces the
\* whole record, so whatever the merge forgot would be wiped.
OnlyNamedFieldsChange ==
    [][edits' = edits => \A f \in Field : record'[f] # record[f] =>
          \E u \in done' \ done : Touches(patch[u], f)]_vars

-----------------------------------------------------------------------------
(* The inductive invariant *)

\* A PUT that can still be carried out was made from a record that is either
\* outdated, and then its version is, or still the one at Lexware.
Fresh ==
    \A u \in Caller : phase[u] = "putting" \/ u \in loose =>
        /\ wanted[u] <= seen[u] /\ seen[u] <= version
        /\ seen[u] = version => snap[u] = record

\* A snapshot names its contact in one way.
SnapOneContact == \A u \in Caller : OneContact(snap[u])

\* Where a call stands and what it reported agree.
Progress ==
    \A u \in Caller :
        /\ phase[u] = "ready" => u \notin done \cup loose
        /\ phase[u] = "putting" => u \notin loose
        /\ outcome[u] # "none" <=> phase[u] = "settled"
        /\ u \in loose => outcome[u] = "unclear"

IInv == /\ TypeOK /\ Fresh /\ SnapOneContact /\ Progress
        /\ ReportsWhatItDid /\ RefusedForOwnFields

=============================================================================
