---------------------------- MODULE UploadProofs ----------------------------
(***************************************************************************)
(* Proofs about the upload path, for any sets of tickets and requests, any *)
(* TTL and any bounds.                                                     *)
(***************************************************************************)
EXTENDS UploadProperties, TLAPS

LEMMA TypeStep == TypeOK /\ [Next]_vars => TypeOK'
<1> SUFFICES ASSUME TypeOK, [Next]_vars PROVE TypeOK'
    OBVIOUS
<1> USE TTLAssumption DEF TypeOK, StoreTypeOK, Phases, Answers, Peek, Delete,
        Expired, storeVars, requestVars, ledgerVars
<1>1. ASSUME NEW t \in Ticket, CreateUploadTicket(t) PROVE TypeOK'
    BY <1>1 DEF CreateUploadTicket, Create
<1>2. ASSUME NEW t \in Ticket, GetUploadResult(t) PROVE TypeOK'
    BY <1>2 DEF GetUploadResult
<1>3. ASSUME NEW t \in Ticket, LookAtTicket(t) PROVE TypeOK'
    BY <1>3 DEF LookAtTicket
<1>4. ASSUME NEW t \in Ticket, LooseCallEnds(t) PROVE TypeOK'
    BY <1>4 DEF LooseCallEnds
<1>5. ASSUME NEW r \in Request, NEW t \in Ticket, PostUpload(r, t) PROVE TypeOK'
    BY <1>5 DEF PostUpload, BeginBodyRead
<1>6. ASSUME NEW r \in Request, BodyFails(r) PROVE TypeOK'
    BY <1>6 DEF BodyFails
<1>7. ASSUME NEW r \in Request, BodyRead(r) PROVE TypeOK'
    BY <1>7 DEF BodyRead, Claim, Usable, Found
<1>8. ASSUME NEW r \in Request, BodyRefused(r) PROVE TypeOK'
    BY <1>8 DEF BodyRefused
<1>9. ASSUME NEW r \in Request, UploadSucceeds(r) PROVE TypeOK'
    BY <1>9 DEF UploadSucceeds, Complete, Respond
<1>10. ASSUME NEW r \in Request, UploadRejected(r) PROVE TypeOK'
    BY <1>10 DEF UploadRejected, Release, Respond
<1>11. ASSUME NEW r \in Request, NEW w \in BOOLEAN, UploadInDoubt(r, w) PROVE TypeOK'
    BY <1>11 DEF UploadInDoubt, Release, Respond
<1>12. ASSUME NEW r \in Request, HangUp(r) PROVE TypeOK'
    BY <1>12 DEF HangUp, EndBodyRead
<1>13. ASSUME NEW r \in Request, ResponseCloses(r) PROVE TypeOK'
    BY <1>13 DEF ResponseCloses, EndBodyRead
<1>14. ASSUME NEW r \in Request, LexwareStores(r) PROVE TypeOK'
    BY <1>14 DEF LexwareStores
<1>15. CASE Tick
    BY <1>15 DEF Tick
<1>16. CASE Restart
    BY <1>16 DEF Restart
<1>17. CASE UNCHANGED vars
    BY <1>17 DEF vars
<1> QED
    BY <1>1, <1>2, <1>3, <1>4, <1>5, <1>6, <1>7, <1>8, <1>9, <1>10, <1>11,
       <1>12, <1>13, <1>14, <1>15, <1>16, <1>17
       DEF Next, UploadLost, UploadServerError, UploadEmptyAnswer

\* The variables keep their types: in particular an entry in flight is never
\* deleted, and no ticket is both in flight and done.
THEOREM TypeCorrect == Spec => []TypeOK
<1>1. Init => TypeOK
    BY DEF Init, TypeOK, StoreInit, StoreTypeOK, Phases, Answers
<1> QED
    BY <1>1, TypeStep, PTL DEF Spec

-----------------------------------------------------------------------------
(* The inductive invariant *)

LEMMA ClaimsStep == IInv /\ TypeOK' /\ [Next]_vars => Claims'
<1> SUFFICES ASSUME IInv, TypeOK', [Next]_vars PROVE Claims'
    OBVIOUS
<1> USE DEF IInv, TypeOK, StoreTypeOK, Phases, Claims, OneUploadPerTicket,
        ClaimHasHolder, Claiming, requestVars
<1>1. CASE UNCHANGED <<phase, target, wire, inFlight>>
    BY <1>1
<1>2. ASSUME NEW r \in Request, NEW t \in Ticket, PostUpload(r, t) PROVE Claims'
    BY <1>2 DEF PostUpload
<1>3. ASSUME NEW r \in Request, BodyFails(r) PROVE Claims'
    BY <1>3 DEF BodyFails, storeVars
<1>4. ASSUME NEW r \in Request, BodyRead(r) PROVE Claims'
    BY <1>4 DEF BodyRead, Claim, Usable
<1>5. ASSUME NEW r \in Request, BodyRefused(r) PROVE Claims'
    BY <1>5 DEF BodyRefused
<1>6. ASSUME NEW r \in Request, UploadSucceeds(r) PROVE Claims'
    BY <1>6 DEF UploadSucceeds, Complete, Respond
<1>7. ASSUME NEW r \in Request, UploadRejected(r) PROVE Claims'
    BY <1>7 DEF UploadRejected, Release, Respond
<1>8. ASSUME NEW r \in Request, NEW w \in BOOLEAN, UploadInDoubt(r, w) PROVE Claims'
    BY <1>8 DEF UploadInDoubt, Release, Respond
<1>9. ASSUME NEW r \in Request, HangUp(r) PROVE Claims'
    BY <1>9 DEF HangUp
<1>10. ASSUME NEW r \in Request, ResponseCloses(r) PROVE Claims'
    BY <1>10 DEF ResponseCloses
<1>11. ASSUME NEW r \in Request, LexwareStores(r) PROVE Claims'
    BY <1>11 DEF LexwareStores, storeVars
<1>12. CASE Restart
    BY <1>12 DEF Restart
<1> QED
    BY <1>1, <1>2, <1>3, <1>4, <1>5, <1>6, <1>7, <1>8, <1>9, <1>10, <1>11, <1>12
       DEF Next, vars, CreateUploadTicket, GetUploadResult, LookAtTicket,
           LooseCallEnds, Tick, UploadLost, UploadServerError,
           UploadEmptyAnswer, storeVars

LEMMA SlotsStep == IInv /\ TypeOK' /\ [Next]_vars => Slots'
<1> SUFFICES ASSUME IInv, TypeOK', [Next]_vars PROVE Slots'
    OBVIOUS
<1> USE DEF IInv, TypeOK, StoreTypeOK, Phases, Slots, SlotHasOwner, Slotted,
        requestVars
<1>1. CASE UNCHANGED <<phase, target, readingBody, inFlight>>
    BY <1>1
<1>2. ASSUME NEW r \in Request, NEW t \in Ticket, PostUpload(r, t) PROVE Slots'
    BY <1>2 DEF PostUpload, BeginBodyRead, Usable
<1>3. ASSUME NEW r \in Request, BodyFails(r) PROVE Slots'
    BY <1>3 DEF BodyFails, storeVars
<1>4. ASSUME NEW r \in Request, BodyRead(r) PROVE Slots'
    BY <1>4 DEF BodyRead, Claim
<1>5. ASSUME NEW r \in Request, BodyRefused(r) PROVE Slots'
    BY <1>5 DEF BodyRefused
<1>6. ASSUME NEW r \in Request, UploadSucceeds(r) PROVE Slots'
    BY <1>6 DEF UploadSucceeds, Complete, Respond, Claiming
<1>7. ASSUME NEW r \in Request, UploadRejected(r) PROVE Slots'
    BY <1>7 DEF UploadRejected, Release, Respond, Claiming
<1>8. ASSUME NEW r \in Request, NEW w \in BOOLEAN, UploadInDoubt(r, w) PROVE Slots'
    BY <1>8 DEF UploadInDoubt, Release, Respond, Claiming
<1>9. ASSUME NEW r \in Request, HangUp(r) PROVE Slots'
    BY <1>9 DEF HangUp, EndBodyRead
<1>10. ASSUME NEW r \in Request, ResponseCloses(r) PROVE Slots'
    BY <1>10 DEF ResponseCloses, EndBodyRead
<1>11. CASE Restart
    BY <1>11 DEF Restart
<1> QED
    BY <1>1, <1>2, <1>3, <1>4, <1>5, <1>6, <1>7, <1>8, <1>9, <1>10, <1>11
       DEF Next, vars, CreateUploadTicket, GetUploadResult, LookAtTicket,
           LooseCallEnds, LexwareStores, Tick, UploadLost, UploadServerError,
           UploadEmptyAnswer, storeVars

LEMMA HistoryStep == IInv /\ TypeOK' /\ [Next]_vars => History'
<1> SUFFICES ASSUME IInv, TypeOK', [Next]_vars PROVE History'
    OBVIOUS
<1> USE TTLAssumption DEF IInv, TypeOK, StoreTypeOK, Answers, History, requestVars
<1>1. CASE UNCHANGED <<entries, results, expiresAt, issued, told, finishedAt>>
    BY <1>1
<1>2. ASSUME NEW t \in Ticket, CreateUploadTicket(t) PROVE History'
    BY <1>2 DEF CreateUploadTicket, Create
<1>3. ASSUME NEW t \in Ticket, GetUploadResult(t) PROVE History'
    BY <1>3 DEF GetUploadResult, Peek, Delete, Found
<1>4. ASSUME NEW t \in Ticket, LookAtTicket(t) PROVE History'
    BY <1>4 DEF LookAtTicket, Peek, Delete
<1>5. ASSUME NEW r \in Request, BodyRefused(r) PROVE History'
    BY <1>5 DEF BodyRefused, Peek, Delete
<1>6. ASSUME NEW r \in Request, UploadSucceeds(r) PROVE History'
    <2>1. target[r] \in entries
        BY <1>6 DEF UploadSucceeds, Claims, ClaimHasHolder, Claiming
    <2> QED
        BY <1>6, <2>1 DEF UploadSucceeds, Complete
<1>7. CASE Restart
    BY <1>7 DEF Restart
<1> QED
    BY <1>1, <1>2, <1>3, <1>4, <1>5, <1>6, <1>7
       DEF Next, vars, PostUpload, BodyFails, BodyRead, UploadRejected,
           UploadInDoubt, HangUp, ResponseCloses, LexwareStores, LooseCallEnds,
           Tick, UploadLost, UploadServerError, UploadEmptyAnswer, storeVars

LEMMA LedgerStep == IInv /\ TypeOK' /\ Claims' /\ [Next]_vars => Ledger'
<1> SUFFICES ASSUME IInv, TypeOK', Claims', [Next]_vars PROVE Ledger'
    OBVIOUS
<1> USE DEF IInv, TypeOK, StoreTypeOK, Phases, Ledger, FilesAccounted, Accounted,
        Claims, OneUploadPerTicket, ClaimHasHolder, Claiming, requestVars, ledgerVars
<1>1. CASE UNCHANGED <<phase, target, wire, filed, loose, doubts, finishedAt>>
    BY <1>1
<1>2. ASSUME NEW r \in Request, NEW t \in Ticket, PostUpload(r, t) PROVE Ledger'
    BY <1>2 DEF PostUpload
<1>3. ASSUME NEW r \in Request, BodyFails(r) PROVE Ledger'
    BY <1>3 DEF BodyFails, storeVars
<1>4. ASSUME NEW r \in Request, BodyRead(r) PROVE Ledger'
    \* Nobody had the claim and nothing was completed, so the one file this
    \* upload may add was not spoken for.
    <2>1. /\ target[r] \in Ticket
          /\ target[r] \notin inFlight
          /\ finishedAt[target[r]] = 0
        BY <1>4 DEF BodyRead, Claim, Usable, Found, History
    <2>2. Accounted(target[r]) = 0
        BY <2>1
    <2>3. filed[target[r]] + loose[target[r]] <= doubts[target[r]]
        BY <2>1, <2>2
    <2>4. \A q \in Request : Claiming(q, target[q]) => target[q] # target[r]
        BY <2>1
    <2> QED
        BY <1>4, <2>1, <2>3, <2>4 DEF BodyRead
<1>5. ASSUME NEW r \in Request, BodyRefused(r) PROVE Ledger'
    BY <1>5 DEF BodyRefused
<1>6. ASSUME NEW r \in Request, UploadSucceeds(r) PROVE Ledger'
    \* The allowance of the running upload becomes that of the completed one.
    <2>1. /\ finishedAt' = [finishedAt EXCEPT ![target[r]] = now] /\ now > 0
          /\ UNCHANGED <<target, filed, loose, doubts>>
          /\ wire' = [wire EXCEPT ![r] = "none"]
          /\ Claiming(r, target[r])
          /\ \A q \in Request : q # r => phase'[q] = phase[q]
        BY <1>6 DEF UploadSucceeds, Respond
    <2>2. \A t \in Ticket : Accounted(t)' >= Accounted(t)
        <3>1. \A q \in Request, t \in Ticket :
                 t # target[r] /\ Claiming(q, t) => Claiming(q, t)'
            BY <2>1
        <3> QED
            BY <2>1, <3>1
    <2>3. Accounted(target[r])' = 1
        BY <2>1
    <2>4. FilesAccounted'
        BY <2>1, <2>2, <2>3
    <2>5. \A q \in Request : wire'[q] = "sent" => wire[q] = "sent"
        BY <2>1
    <2> QED
        BY <2>1, <2>4, <2>5
<1>7. ASSUME NEW r \in Request, UploadRejected(r) PROVE Ledger'
    BY <1>7 DEF UploadRejected, Respond
<1>8. ASSUME NEW r \in Request, NEW w \in BOOLEAN, UploadInDoubt(r, w) PROVE Ledger'
    BY <1>8 DEF UploadInDoubt, Respond
<1>9. ASSUME NEW r \in Request, HangUp(r) PROVE Ledger'
    BY <1>9 DEF HangUp
<1>10. ASSUME NEW r \in Request, ResponseCloses(r) PROVE Ledger'
    BY <1>10 DEF ResponseCloses
<1>11. ASSUME NEW r \in Request, LexwareStores(r) PROVE Ledger'
    BY <1>11 DEF LexwareStores, storeVars
<1>12. ASSUME NEW t \in Ticket, LooseCallEnds(t) PROVE Ledger'
    BY <1>12 DEF LooseCallEnds, storeVars
<1>13. CASE Restart
    BY <1>13 DEF Restart
<1> QED
    BY <1>1, <1>2, <1>3, <1>4, <1>5, <1>6, <1>7, <1>8, <1>9, <1>10, <1>11,
       <1>12, <1>13
       DEF Next, vars, CreateUploadTicket, GetUploadResult, LookAtTicket,
           Tick, UploadLost, UploadServerError, UploadEmptyAnswer, storeVars

THEOREM Inductive == Spec => []IInv
<1>1. Init => IInv
    BY DEF Init, StoreInit, IInv, TypeOK, StoreTypeOK, Phases, Answers, Claims,
           OneUploadPerTicket, ClaimHasHolder, Claiming, Slots, SlotHasOwner,
           Slotted, History, Ledger, FilesAccounted, Accounted
<1>2. IInv /\ [Next]_vars => IInv'
    BY TypeStep, ClaimsStep, SlotsStep, HistoryStep, LedgerStep DEF IInv
<1> QED
    BY <1>1, <1>2, PTL DEF Spec

-----------------------------------------------------------------------------
(* Safety *)

\* The single-use lock: no two requests ever hold the claim of one ticket.
THEOREM SingleUpload == Spec => []OneUploadPerTicket
<1>1. IInv => OneUploadPerTicket
    BY DEF IInv, Claims
<1> QED
    BY <1>1, Inductive, PTL

\* A ticket is in flight exactly while a handler holds it.
THEOREM ClaimNotStranded == Spec => []ClaimHasHolder
<1>1. IInv => ClaimHasHolder
    BY DEF IInv, Claims
<1> QED
    BY <1>1, Inductive, PTL

\* The claim of a ticket is lent to one handler, which will return it.
THEOREM ClaimLentOnce == Spec => []ClaimExclusive
BY SingleUpload, ClaimNotStranded, PTL DEF ClaimExclusive

\* One buffered body per ticket, hang-ups included: a reader has the slot and
\* finds the ticket not in flight, an uploader has it in flight.
THEOREM SingleBody == Spec => []OneBodyPerTicket
<1>1. IInv => OneBodyPerTicket
    BY DEF IInv, Claims, Slots, SlotHasOwner, Slotted, OneUploadPerTicket,
           ClaimHasHolder, Claiming, OneBodyPerTicket, Buffering, TypeOK
<1> QED
    BY <1>1, Inductive, PTL

\* The body-read slot has exactly one owner, whose close event will free it.
THEOREM SlotNotStranded == Spec => []SlotHasOwner
<1>1. IInv => SlotHasOwner
    BY DEF IInv, Slots
<1> QED
    BY <1>1, Inductive, PTL

\* The slot is lent to one request, which buffers the only body.
THEOREM SlotLentOnce == Spec => []SlotExclusive
BY SingleBody, SlotNotStranded, PTL DEF SlotExclusive

\* A ticket reported expired can no longer file anything.
THEOREM ExpiredIsDead == Spec => []ToldExpiredIsDead
<1>1. IInv => ToldExpiredIsDead
    BY DEF IInv, TypeOK, StoreTypeOK, Claims, ClaimHasHolder, History,
           ToldExpiredIsDead
<1> QED
    BY <1>1, Inductive, PTL

\* Whatever interleaving of retries, hang-ups, late calls and restarts, a
\* further file needs an attempt with an unknown outcome.
THEOREM EveryFileAccounted == Spec => []FilesAccounted
<1>1. IInv => FilesAccounted
    BY DEF IInv, Ledger
<1> QED
    BY <1>1, Inductive, PTL

-----------------------------------------------------------------------------
(* What a step may never do *)

\* Answers of get-upload-result never go back, whatever happens in between.
THEOREM ForwardAnswers == Spec => AnswersMoveForward
<1> DEFINE Forward ==
        \A t \in Ticket :
           /\ told[t] = "result" => told'[t] \in {"result", "expired"}
           /\ told[t] = "expired" => told'[t] = "expired"
<1>1. IInv /\ [Next]_vars => [Forward]_vars
    <2> SUFFICES ASSUME IInv, Next PROVE Forward
        OBVIOUS
    <2>1. CASE UNCHANGED told
        BY <2>1
    <2>2. ASSUME NEW t \in Ticket, GetUploadResult(t) PROVE Forward
        BY <2>2 DEF GetUploadResult, Found, IInv, History, TypeOK
    <2> QED
        BY <2>1, <2>2
           DEF Next, CreateUploadTicket, LookAtTicket, LooseCallEnds, PostUpload,
               BodyFails, BodyRead, BodyRefused, UploadSucceeds, UploadRejected,
               UploadLost, UploadServerError, UploadEmptyAnswer, UploadInDoubt,
               HangUp, ResponseCloses, LexwareStores, Tick, Restart
<1> QED
    BY <1>1, Inductive, PTL DEF Spec, AnswersMoveForward

\* Only a restart takes a result away before a full TTL after its completion.
THEOREM ReadableForTTL == Spec => ResultOutlivesTTL
<1> DEFINE Kept == \A t \in results : t \in results' \/ Restart
                                      \/ now >= finishedAt[t] + TTL
<1>1. IInv /\ [Next]_vars => [Kept]_vars
    <2> SUFFICES ASSUME IInv, Next PROVE Kept
        OBVIOUS
    <2> USE DEF IInv, TypeOK, StoreTypeOK, History, Expired
    <2>1. CASE results \subseteq results'
        BY <2>1
    <2>2. ASSUME NEW t \in Ticket, CreateUploadTicket(t) PROVE Kept
        BY <2>2 DEF CreateUploadTicket, Create
    <2>3. ASSUME NEW t \in Ticket, Peek(t) PROVE Kept
        BY <2>3 DEF Peek, Delete
    <2> QED
        BY <2>1, <2>2, <2>3
           DEF Next, GetUploadResult, LookAtTicket, LooseCallEnds, PostUpload,
               BodyFails, BodyRead, BodyRefused, UploadSucceeds, Complete,
               UploadRejected, UploadLost, UploadServerError, UploadEmptyAnswer,
               UploadInDoubt, HangUp, ResponseCloses, LexwareStores, Tick, storeVars
<1> QED
    BY <1>1, Inductive, PTL DEF Spec, ResultOutlivesTTL

-----------------------------------------------------------------------------
(* Refinement *)

\* A lookup of t is a stutter of the promise, or t runs out.
LEMMA LookRefines ==
    ASSUME TypeOK, NEW t \in Ticket, Peek(t), UNCHANGED <<inFlight, issued>>
    PROVE  Life' = Life \/ (Life[t] \in {"open", "filed"} /\ Life' = [Life EXCEPT ![t] = "void"])
<1> USE DEF TypeOK, StoreTypeOK, Peek, Delete, Expired
<1>1. CASE Expired(t)
    BY <1>1 DEF Life
<1>2. CASE ~Expired(t)
    BY <1>2 DEF Life
<1> QED
    BY <1>1, <1>2

\* Setting the flag lends the ticket.
LEMMA LendRefines ==
    ASSUME TypeOK, NEW t \in Ticket, t \in entries \ (results \cup inFlight),
           inFlight' = inFlight \cup {t}, UNCHANGED <<entries, results, issued>>
    PROVE  Life[t] = "open" /\ Life' = [Life EXCEPT ![t] = "lent"]
BY DEF TypeOK, StoreTypeOK, Life

\* Recording the result files it.
LEMMA FileRefines ==
    ASSUME TypeOK, NEW t \in Ticket, t \in inFlight, results' = results \cup {t},
           inFlight' = inFlight \ {t}, UNCHANGED <<entries, issued>>
    PROVE  Life[t] = "lent" /\ Life' = [Life EXCEPT ![t] = "filed"]
BY DEF TypeOK, StoreTypeOK, Life

\* Clearing the flag gives it back.
LEMMA GiveBackRefines ==
    ASSUME TypeOK, NEW t \in Ticket, t \in inFlight,
           inFlight' = inFlight \ {t}, UNCHANGED <<entries, results, issued>>
    PROVE  Life[t] = "lent" /\ Life' = [Life EXCEPT ![t] = "open"]
BY DEF TypeOK, StoreTypeOK, Life

\* Every behaviour of the upload path is one UploadTicket allows.
THEOREM KeepsPromise == Spec => ImplementsUploadTicket
<1>1. Init => Promise!Init
    BY DEF Init, StoreInit, Promise!Init, Life
<1>2. IInv /\ [Next]_vars => [Promise!Next]_Life
    <2> SUFFICES ASSUME IInv, [Next]_vars PROVE Promise!Next \/ Life' = Life
        OBVIOUS
    <2> USE DEF IInv, TypeOK, StoreTypeOK
    <2>1. CASE UNCHANGED <<entries, inFlight, results, issued>>
        BY <2>1 DEF Life
    <2>2. ASSUME NEW t \in Ticket, CreateUploadTicket(t) PROVE Promise!Next
        <3> DEFINE S == {u \in Ticket : u \in entries /\ Expired(u)}
        <3>1. Life[t] = "unissued"
            BY <2>2 DEF CreateUploadTicket, Life
        <3>2. S \in SUBSET {u \in Ticket : Life[u] \in {"open", "filed"}}
            BY DEF Life, Expired
        <3>3. Life' = [u \in Ticket |-> CASE u = t -> "open"
                                          [] u \in S -> "void"
                                          [] OTHER -> Life[u]]
            BY <2>2 DEF CreateUploadTicket, Create, Expired, Life
        <3>4. Promise!Issue(t)
            BY <3>1, <3>2, <3>3 DEF Promise!Issue, Life
        <3> QED
            BY <3>4 DEF Promise!Next
    <2>3. ASSUME NEW t \in Ticket, Peek(t), UNCHANGED <<inFlight, issued>>
          PROVE  Promise!Next \/ Life' = Life
        BY <2>3, LookRefines DEF Promise!Next, Promise!RunOut, Promise!Move, Life
    <2>4. ASSUME NEW r \in Request, BodyRead(r) PROVE Promise!Next
        <3>1. PICK t \in Ticket : t = target[r]
            OBVIOUS
        <3>2. Life[t] = "open" /\ Life' = [Life EXCEPT ![t] = "lent"]
            BY <2>4, <3>1, LendRefines DEF BodyRead, Claim, Usable, Found
        <3> QED
            BY <3>2 DEF Promise!Next, Promise!Lend, Promise!Move, Life
    <2>5. ASSUME NEW r \in Request, UploadSucceeds(r) PROVE Promise!Next
        <3>1. PICK t \in Ticket : t = target[r] /\ t \in inFlight
            BY <2>5 DEF UploadSucceeds, Claims, ClaimHasHolder
        <3>2. Life[t] = "lent" /\ Life' = [Life EXCEPT ![t] = "filed"]
            BY <2>5, <3>1, FileRefines DEF UploadSucceeds, Complete
        <3> QED
            BY <3>2 DEF Promise!Next, Promise!File, Promise!Move, Life
    <2>6. ASSUME NEW r \in Request, Claiming(r, target[r]), Release(target[r]),
                 UNCHANGED <<entries, results, issued>>
          PROVE  Promise!Next
        <3>1. PICK t \in Ticket : t = target[r] /\ t \in inFlight
            BY <2>6 DEF Claims, ClaimHasHolder
        <3>2. Life[t] = "lent" /\ Life' = [Life EXCEPT ![t] = "open"]
            BY <2>6, <3>1, GiveBackRefines DEF Release
        <3> QED
            BY <3>2 DEF Promise!Next, Promise!GiveBack, Promise!Move, Life
    <2>7. CASE Restart
        <3>1. Life' = [t \in Ticket |-> IF Life[t] = "unissued" THEN "unissued" ELSE "void"]
            BY <2>7 DEF Restart, Life
        <3> QED
            BY <3>1 DEF Promise!Next, Promise!Restart, Life
    <2> QED
        BY <2>1, <2>2, <2>3, <2>4, <2>5, <2>6, <2>7
           DEF Next, vars, storeVars, requestVars, GetUploadResult, LookAtTicket,
               LooseCallEnds, PostUpload, BodyFails, BodyRefused, UploadRejected,
               UploadLost, UploadServerError, UploadEmptyAnswer, UploadInDoubt,
               HangUp, ResponseCloses, LexwareStores, Tick
<1> QED
    BY <1>1, <1>2, Inductive, PTL DEF Spec, ImplementsUploadTicket, Promise!Spec

=============================================================================
