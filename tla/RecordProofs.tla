---------------------------- MODULE RecordProofs ----------------------------
(***************************************************************************)
(* Proofs about RecordUpdate: for any number of calls, any patches and any *)
(* edits by others, an update takes effect as if it were made in one step. *)
(***************************************************************************)
EXTENDS RecordUpdate, TLAPS

\* Merging and storing stay within records.
LEMMA MergeType ==
    ASSUME NEW cur \in Record, NEW p \in Patch
    PROVE  Merged(cur, p) \in Record
BY DEF Merged, Record, Patch, Names

LEMMA ContactType ==
    ASSUME NEW b \in Record, NEW p \in Patch
    PROVE  ContactRule(b, p) \in Record
BY ValueAssumption DEF ContactRule, Record, Field

LEMMA StatusType ==
    ASSUME NEW b \in Record, NEW p \in Patch
    PROVE  StatusRule(b, p) \in Record
BY ValueAssumption DEF StatusRule, Record, Field

LEMMA BodyType ==
    ASSUME NEW cur \in Record, NEW p \in Patch
    PROVE  Body(cur, p) \in Record
BY MergeType, ContactType, StatusType DEF Body

LEMMA StoredType ==
    ASSUME NEW cur \in Record, NEW b \in Record, OneContact(b)
    PROVE  Stored(cur, b) \in Record /\ OneContact(Stored(cur, b))
<1>1. Stored(cur, b) \in Record
  BY DEF Stored, Record, Field
<1>2. /\ Stored(cur, b)["contactId"] = b["contactId"]
      /\ Stored(cur, b)["contactName"] = b["contactName"]
  BY DEF Stored, Record, Field
<1> QED BY <1>1, <1>2 DEF OneContact

\* The contact rule leaves one contact when a caller names none as "none".
LEMMA BodyOneContact ==
    ASSUME NEW cur \in Record, OneContact(cur), NEW p \in Asked
    PROVE  OneContact(Body(cur, p))
<1>1. p \in Patch
  BY RecordAssumption
<1>2. Merged(cur, p) \in Record
  BY <1>1, MergeType
<1>3. OneContact(ContactRule(Merged(cur, p), p))
  <2>1. CASE Sets(p, "contactId")
    BY <1>2, <2>1 DEF ContactRule, OneContact, Record, Field
  <2>2. CASE ~Sets(p, "contactId") /\ Sets(p, "contactName")
    BY <1>2, <2>2 DEF ContactRule, OneContact, Record, Field
  <2>3. CASE ~Sets(p, "contactId") /\ ~Sets(p, "contactName")
    BY <1>2, <2>3 DEF ContactRule, OneContact, Merged, Sets, Names, Field
  <2> QED BY <2>1, <2>2, <2>3
<1>4. ContactRule(Merged(cur, p), p) \in Record
  BY <1>1, <1>2, ContactType
<1> QED BY <1>3, <1>4 DEF Body, StatusRule, OneContact, Record, Field

\* So Lexware refuses a body only for a status the caller asked for.
LEMMA BodyAccepted ==
    ASSUME NEW cur \in Record, OneContact(cur), NEW p \in Asked,
           ~Accepts(Body(cur, p))
    PROVE  p["voucherStatus"] \in Derived
<1>1. p \in Patch /\ Merged(cur, p) \in Record
  BY RecordAssumption, MergeType
<1>2. ContactRule(Merged(cur, p), p) \in Record
  BY <1>1, ContactType
<1>3. Body(cur, p)["voucherStatus"] \in Derived
  BY BodyOneContact DEF Accepts
<1>4. ContactRule(Merged(cur, p), p)["voucherStatus"] = Merged(cur, p)["voucherStatus"]
  BY <1>1 DEF ContactRule, Record, Field
<1>5. Names(p, "voucherStatus")
  BY <1>2, <1>3 DEF Body, StatusRule, Derived, Record, Field
<1> QED BY <1>2, <1>3, <1>4, <1>5 DEF Body, StatusRule, Merged, Names, Field

-----------------------------------------------------------------------------
(* The inductive invariant *)

LEMMA Initial == Init => IInv
<1> SUFFICES ASSUME Init PROVE IInv
  OBVIOUS
<1> USE RecordAssumption
<1>1. record \in Record /\ OneContact(record)
  BY DEF Init
<1>2. TypeOK
  BY <1>1 DEF Init, TypeOK, Outcomes
<1>3. Fresh /\ SnapOneContact /\ Progress
  BY <1>1 DEF Init, Fresh, SnapOneContact, Progress
<1>4. ReportsWhatItDid /\ RefusedForOwnFields
  BY DEF Init, ReportsWhatItDid, RefusedForOwnFields
<1> QED BY <1>2, <1>3, <1>4 DEF IInv

LEMMA Preserved == IInv /\ [Next]_vars => IInv'
<1> SUFFICES ASSUME IInv, [Next]_vars PROVE IInv'
  OBVIOUS
<1> USE DEF IInv
<1>1. ASSUME NEW u \in Caller, NEW v \in {Latest} \cup 0 .. version, Get(u, v)
      PROVE  IInv'
  <2>1. TypeOK'
    BY <1>1 DEF TypeOK, Get, Latest
  <2>2. Fresh' /\ SnapOneContact' /\ Progress'
    BY <1>1 DEF Get, TypeOK, Fresh, SnapOneContact, Progress, Latest
  <2>3. ReportsWhatItDid' /\ RefusedForOwnFields'
    BY <1>1 DEF Get, ReportsWhatItDid, RefusedForOwnFields
  <2> QED BY <2>1, <2>2, <2>3
<1>2. ASSUME NEW u \in Caller, GetFails(u)
      PROVE  IInv'
  <2>1. TypeOK'
    BY <1>2 DEF TypeOK, GetFails, Settle, Outcomes
  <2>2. Fresh' /\ SnapOneContact' /\ Progress'
    BY <1>2 DEF GetFails, Settle, TypeOK, Fresh, SnapOneContact, Progress
  <2>3. ReportsWhatItDid' /\ RefusedForOwnFields'
    BY <1>2 DEF GetFails, Settle, TypeOK, Progress, ReportsWhatItDid,
                RefusedForOwnFields
  <2> QED BY <2>1, <2>2, <2>3
<1>3. ASSUME NEW u \in Caller, PutAnswered(u)
      PROVE  IInv'
  <2>1. TypeOK'
    BY <1>3 DEF TypeOK, PutAnswered, Settle, Outcomes
  <2>2. Fresh' /\ SnapOneContact' /\ Progress'
    BY <1>3 DEF PutAnswered, Settle, TypeOK, Fresh, SnapOneContact, Progress
  <2>3. ReportsWhatItDid'
    BY <1>3 DEF PutAnswered, Settle, TypeOK, Progress, ReportsWhatItDid
  <2>4. RefusedForOwnFields'
    <3>1. ~Accepts(BodyOf(u)) => patch[u]["voucherStatus"] \in Derived
      BY <1>3, BodyAccepted DEF BodyOf, TypeOK, SnapOneContact
    <3> QED BY <1>3, <3>1 DEF PutAnswered, Settle, TypeOK, RefusedForOwnFields
  <2> QED BY <2>1, <2>2, <2>3, <2>4
<1>4. ASSUME NEW u \in Caller, PutUnclear(u)
      PROVE  IInv'
  <2>1. TypeOK'
    BY <1>4 DEF TypeOK, PutUnclear, Settle, Outcomes
  <2>2. Fresh' /\ SnapOneContact' /\ Progress'
    BY <1>4 DEF PutUnclear, Settle, TypeOK, Fresh, SnapOneContact, Progress
  <2>3. ReportsWhatItDid' /\ RefusedForOwnFields'
    BY <1>4 DEF PutUnclear, Settle, TypeOK, Progress, ReportsWhatItDid,
                RefusedForOwnFields
  <2> QED BY <2>1, <2>2, <2>3
<1>5. ASSUME NEW u \in Caller, LexwarePuts(u)
      PROVE  IInv'
  <2>1. BodyOf(u) \in Record /\ OneContact(BodyOf(u))
    BY <1>5, BodyType, RecordAssumption DEF BodyOf, TypeOK, LexwarePuts, Accepts
  <2>2. record' \in Record /\ OneContact(record')
    BY <1>5, <2>1, StoredType DEF LexwarePuts, TypeOK
  <2>3. TypeOK'
    BY <1>5, <2>2 DEF TypeOK, LexwarePuts
  <2>4. Fresh' /\ SnapOneContact'
    BY <1>5 DEF LexwarePuts, TypeOK, Fresh, SnapOneContact
  <2>5. Progress'
    BY <1>5 DEF LexwarePuts, TypeOK, Progress
  <2>6. ReportsWhatItDid' /\ RefusedForOwnFields'
    BY <1>5 DEF LexwarePuts, TypeOK, Progress, ReportsWhatItDid,
                RefusedForOwnFields
  <2> QED BY <2>3, <2>4, <2>5, <2>6
<1>6. ASSUME NEW u \in Caller, LoosePutEnds(u)
      PROVE  IInv'
  <2>1. TypeOK'
    BY <1>6 DEF TypeOK, LoosePutEnds
  <2>2. Fresh' /\ SnapOneContact' /\ Progress'
    BY <1>6 DEF LoosePutEnds, TypeOK, Fresh, SnapOneContact, Progress
  <2>3. ReportsWhatItDid' /\ RefusedForOwnFields'
    BY <1>6 DEF LoosePutEnds, ReportsWhatItDid, RefusedForOwnFields
  <2> QED BY <2>1, <2>2, <2>3
<1>7. ASSUME NEW r \in Given, OtherEdits(r)
      PROVE  IInv'
  <2>1. TypeOK'
    BY <1>7, RecordAssumption DEF TypeOK, OtherEdits
  <2>2. Fresh' /\ SnapOneContact' /\ Progress'
    BY <1>7 DEF OtherEdits, TypeOK, Fresh, SnapOneContact, Progress
  <2>3. ReportsWhatItDid' /\ RefusedForOwnFields'
    BY <1>7 DEF OtherEdits, ReportsWhatItDid, RefusedForOwnFields
  <2> QED BY <2>1, <2>2, <2>3
<1>8. CASE UNCHANGED vars
  BY <1>8 DEF vars, TypeOK, Fresh, SnapOneContact, Progress, ReportsWhatItDid,
              RefusedForOwnFields
<1> QED BY <1>1, <1>2, <1>3, <1>4, <1>5, <1>6, <1>7, <1>8 DEF Next

\* The invariant holds for any number of calls and any patches: a PUT that may
\* still be carried out was made from the record at Lexware or is outdated.
THEOREM RecordInductive == Spec => []IInv
BY Initial, Preserved, PTL DEF Spec

\* What an update tool reports is what its PUT did, late PUTs included.
THEOREM HonestReports == Spec => []ReportsWhatItDid
<1>1. IInv => ReportsWhatItDid
  BY DEF IInv
<1> QED BY <1>1, RecordInductive, PTL

\* A body is refused only for a status its own caller asked for.
THEOREM OwnRefusals == Spec => []RefusedForOwnFields
<1>1. IInv => RefusedForOwnFields
  BY DEF IInv
<1> QED BY <1>1, RecordInductive, PTL

-----------------------------------------------------------------------------
(* Updates are atomic *)

\* A PUT that Lexware accepts was made from the record as it is now.
LEMMA PutFromCurrent ==
    ASSUME IInv, NEW u \in Caller, LexwarePuts(u)
    PROVE  /\ record' = Updated(record, patch[u])
           /\ wanted[u] # Latest => version = wanted[u]
<1>1. /\ phase[u] = "putting" \/ u \in loose
      /\ VersionOf(u) = version
  BY DEF LexwarePuts
<1>2. wanted[u] <= seen[u] /\ seen[u] <= version
  BY <1>1 DEF IInv, Fresh
<1>3. seen[u] = version /\ (wanted[u] # Latest => version = wanted[u])
  BY <1>1, <1>2 DEF VersionOf, IInv, TypeOK, Latest
<1>4. snap[u] = record
  BY <1>1, <1>3 DEF IInv, Fresh
<1> QED BY <1>3, <1>4 DEF LexwarePuts, BodyOf, Updated

\* Every other step leaves the record alone or is counted as another's edit.
LEMMA OnlyPutsUpdate ==
    ASSUME IInv, [Next]_vars
    PROVE  \/ \E u \in Caller : LexwarePuts(u)
           \/ \E r \in Given : OtherEdits(r)
           \/ UNCHANGED <<record, patch, done, edits, version>>
BY DEF Next, vars, Get, GetFails, PutAnswered, PutUnclear, LoosePutEnds

LEMMA StepIsAtomic == IInv /\ [Next]_vars => [Atomic!Next]_(Atomic!vars)
<1> SUFFICES ASSUME IInv, [Next]_vars PROVE [Atomic!Next]_(Atomic!vars)
  OBVIOUS
<1>1. ASSUME NEW u \in Caller, LexwarePuts(u)
      PROVE  Atomic!Next
  <2>1. Atomic!Update(u)
    BY <1>1, PutFromCurrent DEF LexwarePuts, Atomic!Update, Atomic!Updated,
       Atomic!Stored, Atomic!Body, Atomic!StatusRule, Atomic!ContactRule,
       Atomic!Merged, Atomic!Sets, Atomic!Names, Atomic!Derived, Atomic!Field, Updated,
       Stored, Body, StatusRule, ContactRule, Merged, Sets, Names, Derived, Field
  <2> QED BY <2>1 DEF Atomic!Next
<1>2. ASSUME NEW r \in Given, OtherEdits(r)
      PROVE  Atomic!Next
  <2>1. r \in Record /\ OneContact(r)
    BY RecordAssumption
  <2>2. Atomic!OtherEdit
    BY <1>2, <2>1 DEF OtherEdits, Atomic!OtherEdit, Atomic!OneContact,
       Atomic!Record, Atomic!Field, Record, Field, OneContact
  <2> QED BY <2>2 DEF Atomic!Next
<1> QED BY <1>1, <1>2, OnlyPutsUpdate DEF Atomic!vars

\* However its GET and PUT are separated, an update takes effect in one step.
THEOREM UpdatesAreAtomic == Spec => ImplementsAtomicUpdate
<1>1. Init => Atomic!Init
  BY RecordAssumption DEF Init, Atomic!Init, Atomic!Record, Atomic!Patch,
     Atomic!Field, Atomic!OneContact, Record, Patch, Field, OneContact
<1> QED BY <1>1, RecordInductive, StepIsAtomic, PTL
        DEF Spec, ImplementsAtomicUpdate, Atomic!Spec

\* A version passed by the caller is honoured as a lock.
THEOREM LockHonoured == Spec => HonoursLock
<1>1. IInv /\ [Next]_vars =>
        [\A u \in done' \ done : wanted[u] # Latest => version = wanted[u]]_vars
  <2> SUFFICES ASSUME IInv, [Next]_vars,
                      NEW u \in done' \ done, wanted[u] # Latest
               PROVE  version = wanted[u]
    OBVIOUS
  <2>1. PICK w \in Caller : LexwarePuts(w)
    BY OnlyPutsUpdate DEF OtherEdits
  <2>2. w = u
    BY <2>1 DEF LexwarePuts
  <2> QED BY <2>1, <2>2, PutFromCurrent
<1> QED BY <1>1, RecordInductive, PTL DEF Spec, HonoursLock

\* A merge changes only the fields its caller named and their companions.
LEMMA MergeTouches ==
    ASSUME NEW cur \in Record, NEW p \in Patch, NEW f \in Field,
           Updated(cur, p)[f] # cur[f]
    PROVE  Touches(p, f)
<1> SUFFICES ASSUME ~Touches(p, f) PROVE Updated(cur, p)[f] = cur[f]
  OBVIOUS
<1> DEFINE m == Merged(cur, p)
           c == ContactRule(m, p)
           s == StatusRule(c, p)
<1>1. m \in Record /\ c \in Record /\ s \in Record
  BY MergeType, ContactType, StatusType
<1>2. m[f] = cur[f]
  BY DEF Merged, Touches
<1>3. c[f] = m[f]
  BY <1>1 DEF ContactRule, Sets, Touches, Record, Field
<1>4. s[f] = c[f] \/ (f = "voucherStatus" /\ s[f] = "none")
  BY <1>1 DEF StatusRule, Record, Field
<1>5. CASE f = "voucherStatus"
  BY <1>1, <1>2, <1>3, <1>4, <1>5 DEF Updated, Body, Stored, Record, Field
<1>6. CASE f # "voucherStatus"
  BY <1>1, <1>2, <1>3, <1>4, <1>6 DEF Updated, Body, Stored, Record, Field
<1> QED BY <1>5, <1>6

\* No update changes a field that its caller neither named nor touched.
THEOREM NamedFieldsOnly == Spec => OnlyNamedFieldsChange
<1>1. IInv /\ [Next]_vars =>
        [edits' = edits => \A f \in Field : record'[f] # record[f] =>
            \E u \in done' \ done : Touches(patch[u], f)]_vars
  <2> SUFFICES ASSUME IInv, [Next]_vars, edits' = edits,
                      NEW f \in Field, record'[f] # record[f]
               PROVE  \E u \in done' \ done : Touches(patch[u], f)
    OBVIOUS
  <2>1. PICK u \in Caller : LexwarePuts(u)
    BY OnlyPutsUpdate DEF OtherEdits, IInv, TypeOK
  <2>2. u \in done' \ done
    BY <2>1 DEF LexwarePuts
  <2>3. record \in Record /\ patch[u] \in Patch
    BY <2>1, RecordAssumption DEF IInv, TypeOK
  <2>4. Touches(patch[u], f)
    BY <2>1, <2>3, PutFromCurrent, MergeTouches
  <2> QED BY <2>2, <2>4
<1> QED BY <1>1, RecordInductive, PTL DEF Spec, OnlyNamedFieldsChange

-----------------------------------------------------------------------------
(* The PUT is one write of the client *)

\* What WriteCall knows of the PUT of a call: whether it took effect and what
\* the caller may conclude from the answer.
Effect == [u \in Caller |-> IF u \in done THEN 1 ELSE 0]
Told == [u \in Caller |-> IF outcome[u] = "none" THEN "open"
                          ELSE IF outcome[u] = "updated" THEN "done"
                          ELSE IF outcome[u] = "unclear" THEN "unclear" ELSE "refused"]

Put == INSTANCE WriteCall WITH Write <- Caller, effect <- Effect, told <- Told

\* A PUT that is carried out is one write that takes effect.
LEMMA PutHappens ==
    ASSUME IInv, NEW u \in Caller, LexwarePuts(u)
    PROVE  Put!Happen(u)
<1>1. Effect[u] = 0 /\ Effect' = [Effect EXCEPT ![u] = 1]
  BY DEF LexwarePuts, Effect
<1>2. Told[u] # "refused"
  BY DEF LexwarePuts, IInv, TypeOK, Progress, Told
<1>3. Told' = Told
  BY DEF LexwarePuts, Told
<1> QED BY <1>1, <1>2, <1>3 DEF Put!Happen

\* A call that settles is told what agrees with its PUT.
LEMMA PutTold ==
    ASSUME IInv, NEW u \in Caller, NEW o \in Outcomes \ {"none"}, Settle(u, o),
           phase[u] # "settled", done' = done,
           o = "updated" => u \in done,
           o \in {"conflict", "invalid", "failed"} => u \notin done
    PROVE  \E verdict \in {"done", "refused", "unclear"} : Put!Tell(u, verdict)
<1> DEFINE verdict == IF o = "updated" THEN "done" ELSE IF o = "unclear" THEN "unclear" ELSE "refused"
<1>1. verdict \in {"done", "refused", "unclear"}
  OBVIOUS
<1>2. outcome[u] = "none" /\ outcome' = [outcome EXCEPT ![u] = o]
  BY DEF IInv, Progress, Settle
<1>3. Told[u] = "open" /\ Told' = [Told EXCEPT ![u] = verdict]
  BY <1>2 DEF Told, Outcomes, IInv, TypeOK
<1>4. Effect' = Effect
  BY DEF Effect
<1>5. (verdict = "done" => Effect[u] = 1) /\ (verdict = "refused" => Effect[u] = 0)
  BY DEF Outcomes, Effect
<1>6. Put!Tell(u, verdict)
  BY <1>3, <1>4, <1>5 DEF Put!Tell
<1> QED BY <1>1, <1>6

\* The update tools ask no more of their PUT, and see no more become of it, than
\* WriteCall allows (client.ts: idempotent false), which LexwareClient implements.
THEOREM UpdatesUseWriteCall == Spec => Put!WriteSpec
<1>1. Init => Put!WriteInit
  BY DEF Init, Effect, Told, Put!WriteInit
<1>2. IInv /\ [Next]_vars => [Put!WriteNext]_(Put!writeVars)
  <2> SUFFICES ASSUME IInv, [Next]_vars
               PROVE  Put!WriteNext \/ (Effect' = Effect /\ Told' = Told)
    BY DEF Put!writeVars
  <2>1. ASSUME NEW u \in Caller, NEW v \in {Latest} \cup 0 .. version, Get(u, v)
        PROVE  Effect' = Effect /\ Told' = Told
    BY <2>1 DEF Get, Effect, Told
  <2>2. ASSUME NEW u \in Caller, GetFails(u)
        PROVE  Put!WriteNext
    BY <2>2, PutTold DEF GetFails, IInv, Progress, Outcomes, Put!WriteNext
  <2>3. ASSUME NEW u \in Caller, PutAnswered(u)
        PROVE  Put!WriteNext
    BY <2>3, PutTold DEF PutAnswered, Outcomes, Put!WriteNext
  <2>4. ASSUME NEW u \in Caller, PutUnclear(u)
        PROVE  Put!WriteNext
    BY <2>4, PutTold DEF PutUnclear, Outcomes, Put!WriteNext
  <2>5. ASSUME NEW u \in Caller, LexwarePuts(u)
        PROVE  Put!WriteNext
    BY <2>5, PutHappens DEF Put!WriteNext
  <2>6. ASSUME NEW u \in Caller, LoosePutEnds(u)
        PROVE  Effect' = Effect /\ Told' = Told
    BY <2>6 DEF LoosePutEnds, Effect, Told
  <2>7. ASSUME NEW r \in Given, OtherEdits(r)
        PROVE  Effect' = Effect /\ Told' = Told
    BY <2>7 DEF OtherEdits, Effect, Told
  <2>8. CASE UNCHANGED vars
    BY <2>8 DEF vars, Effect, Told
  <2> QED BY <2>1, <2>2, <2>3, <2>4, <2>5, <2>6, <2>7, <2>8 DEF Next
<1> QED BY <1>1, <1>2, RecordInductive, PTL DEF Spec, Put!WriteSpec

=============================================================================
