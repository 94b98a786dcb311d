---------------------------- MODULE UploadRoutes ----------------------------
(***************************************************************************)
(* The ticket-gated upload path: the Express handlers of                   *)
(* src/src/uploads/routes.ts and the two MCP tools of                      *)
(* src/src/tools/uploads.ts, over the store of TicketStore, with the       *)
(* Lexware file endpoint as the environment.                               *)
(*                                                                         *)
(* Handlers run on one thread, so an action is what happens between two    *)
(* awaits.  A POST waits twice: while express.raw() buffers its body, and  *)
(* while upload() talks to Lexware.  At both points the client may hang    *)
(* up, other requests run, the clock moves and the process may die.        *)
(***************************************************************************)
EXTENDS TicketStore

CONSTANTS Request,    \* POST connections that can be open at the same time
          MaxNow,     \* bound on the clock
          MaxDoubts   \* bound on failed attempts with an unknown outcome

ASSUME BoundsAssumption == MaxNow \in Nat /\ MaxDoubts \in Nat

VARIABLES phase,    \* where the POST handler of a request stands
          target,   \* the ticket in its URL
          wire,     \* the POST /v1/files it made, as Lexware sees it
          issued,   \* tickets create() ever returned
          told,     \* last answer of get-upload-result for a ticket
          filed,    \* files Lexware stored through a ticket
          loose,    \* calls the server gave up on, still able to reach Lexware
          doubts,   \* attempts that ended with an unknown outcome
          warned,   \* tickets whose user was told a file may exist already
          finishedAt  \* when complete() ran for a ticket, 0 if never

requestVars == <<phase, target, wire>>
ledgerVars == <<filed, loose, doubts, warned>>
vars == <<entries, inFlight, results, expiresAt, readingBody, now, phase,
          target, wire, issued, told, filed, loose, doubts, warned, finishedAt>>

\* "idle": no request.  "reading": in express.raw().  "uploading": awaiting
\* upload().  "abandoned": the same, after the client hung up.  "answered": a
\* response was written, its close event is still to come.
Phases == {"idle", "reading", "uploading", "abandoned", "answered"}

Answers == {"none", "pending", "result", "expired"}

TypeOK ==
    /\ StoreTypeOK
    /\ phase \in [Request -> Phases]
    /\ target \in [Request -> Ticket]
    /\ wire \in [Request -> {"none", "sent", "stored"}]
    /\ issued \in SUBSET Ticket
    /\ entries \subseteq issued
    /\ told \in [Ticket -> Answers]
    /\ filed \in [Ticket -> Nat]
    /\ loose \in [Ticket -> Nat]
    /\ doubts \in [Ticket -> Nat]
    /\ warned \in SUBSET Ticket
    /\ finishedAt \in [Ticket -> Nat]

Init ==
    /\ StoreInit
    /\ phase = [r \in Request |-> "idle"]
    /\ target \in [Request -> Ticket]
    /\ wire = [r \in Request |-> "none"]
    /\ issued = {}
    /\ told = [t \in Ticket |-> "none"]
    /\ filed = [t \in Ticket |-> 0]
    /\ loose = [t \in Ticket |-> 0]
    /\ doubts = [t \in Ticket |-> 0]
    /\ warned = {}
    /\ finishedAt = [t \in Ticket |-> 0]

\* The request holds the ticket's claim, its body-read slot, its bytes.
Claiming(r, t) == target[r] = t /\ phase[r] \in {"uploading", "abandoned"}
Slotted(r, t) == target[r] = t /\ phase[r] \in {"reading", "uploading", "answered"}
Buffering(r, t) == target[r] = t /\ phase[r] \in {"reading", "uploading", "abandoned"}

-----------------------------------------------------------------------------
(* MCP tools *)

\* create-upload-ticket.
CreateUploadTicket(t) ==
    /\ t \notin issued
    /\ Create(t)
    /\ issued' = issued \cup {t}
    /\ UNCHANGED <<inFlight, readingBody, now, requestVars, told, ledgerVars,
                   finishedAt>>

\* get-upload-result, for a ticket the model was given.
GetUploadResult(t) ==
    /\ t \in issued
    /\ Peek(t)
    /\ told' = [told EXCEPT ![t] = IF ~Found(t) THEN "expired"
                                   ELSE IF t \in results THEN "result"
                                   ELSE "pending"]
    /\ UNCHANGED <<inFlight, expiresAt, readingBody, now, requestVars, issued,
                   ledgerVars, finishedAt>>

-----------------------------------------------------------------------------
(* Routes *)

\* GET /upload/:ticket, and a POST the pre-check turns away: both only look.
LookAtTicket(t) ==
    /\ Peek(t)
    /\ UNCHANGED <<inFlight, expiresAt, readingBody, now, requestVars, issued,
                   told, ledgerVars, finishedAt>>

\* A POST passes the pre-check and takes the body-read slot (a 429 if it is
\* taken changes nothing); express.raw() starts on the body.
PostUpload(r, t) ==
    /\ phase[r] = "idle"
    /\ doubts[t] < MaxDoubts
    /\ Usable(t)
    /\ BeginBodyRead(t)
    /\ phase' = [phase EXCEPT ![r] = "reading"]
    /\ target' = [target EXCEPT ![r] = t]
    /\ UNCHANGED <<entries, inFlight, results, expiresAt, now, wire, issued,
                   told, ledgerVars, finishedAt>>

\* express.raw() fails (size, encoding): the error handler answers.
BodyFails(r) ==
    /\ phase[r] = "reading"
    /\ phase' = [phase EXCEPT ![r] = "answered"]
    /\ UNCHANGED <<storeVars, target, wire, issued, told, ledgerVars, finishedAt>>

\* The body is complete and claim() succeeds; upload() is called.
BodyRead(r) ==
    /\ phase[r] = "reading"
    /\ Claim(target[r])
    /\ phase' = [phase EXCEPT ![r] = "uploading"]
    /\ wire' = [wire EXCEPT ![r] = "sent"]
    /\ UNCHANGED <<entries, results, expiresAt, readingBody, now, target,
                   issued, told, ledgerVars, finishedAt>>

\* The body is complete but claim() throws (the ticket ran out meanwhile), or
\* the body is empty and claim() is undone at once.
BodyRefused(r) ==
    /\ phase[r] = "reading"
    /\ Peek(target[r])
    /\ phase' = [phase EXCEPT ![r] = "answered"]
    /\ UNCHANGED <<inFlight, expiresAt, readingBody, now, target, wire, issued,
                   told, ledgerVars, finishedAt>>

\* The handler writes its response: after a hang-up it goes nowhere and the
\* close event is past.
Respond(r) ==
    phase' = [phase EXCEPT ![r] = IF phase[r] = "uploading" THEN "answered"
                                                            ELSE "idle"]

\* upload() resolved.
UploadSucceeds(r) ==
    LET t == target[r] IN
    /\ Claiming(r, t) /\ wire[r] = "stored"
    /\ Complete(t)
    /\ Respond(r)
    /\ wire' = [wire EXCEPT ![r] = "none"]
    /\ finishedAt' = [finishedAt EXCEPT ![t] = now]
    /\ UNCHANGED <<entries, readingBody, now, target, issued, told, ledgerVars>>

\* upload() threw a status that says the file was not stored: 4xx, a throttled
\* call out of retries, a rejected or missing API key.
UploadRejected(r) ==
    LET t == target[r] IN
    /\ Claiming(r, t) /\ wire[r] = "sent"
    /\ Release(t)
    /\ Respond(r)
    /\ wire' = [wire EXCEPT ![r] = "none"]
    /\ UNCHANGED <<entries, results, expiresAt, readingBody, now, target,
                   issued, told, ledgerVars, finishedAt>>

\* upload() threw with the file stored or still on its way: the ticket is
\* released all the same.
UploadInDoubt(r, warn) ==
    LET t == target[r] IN
    /\ Claiming(r, t)
    /\ Release(t)
    /\ Respond(r)
    /\ wire' = [wire EXCEPT ![r] = "none"]
    /\ loose' = [loose EXCEPT ![t] = IF wire[r] = "sent" THEN @ + 1 ELSE @]
    /\ doubts' = [doubts EXCEPT ![t] = @ + 1]
    /\ warned' = IF warn THEN warned \cup {t} ELSE warned
    /\ UNCHANGED <<entries, results, expiresAt, readingBody, now, target,
                   issued, told, filed, finishedAt>>

\* Status 0: no answer from Lexware, or its body failed.  The response warns.
UploadLost(r) == UploadInDoubt(r, TRUE)

\* A 5xx answer, forwarded verbatim.
UploadServerError(r) == UploadInDoubt(r, FALSE)

\* A 2xx answer with an empty body: `created` is undefined and reading its id
\* throws, after Lexware stored the file.
UploadEmptyAnswer(r) == wire[r] = "stored" /\ UploadInDoubt(r, FALSE)

\* The client hangs up.  The response closes; a body read fails, an upload
\* goes on.
HangUp(r) ==
    /\ phase[r] \in {"reading", "uploading"}
    /\ phase' = [phase EXCEPT ![r] = IF @ = "uploading" THEN "abandoned" ELSE "idle"]
    /\ EndBodyRead(target[r])
    /\ UNCHANGED <<entries, inFlight, results, expiresAt, now, target, wire,
                   issued, told, ledgerVars, finishedAt>>

\* The close event of a response that was written.
ResponseCloses(r) ==
    /\ phase[r] = "answered"
    /\ phase' = [phase EXCEPT ![r] = "idle"]
    /\ EndBodyRead(target[r])
    /\ UNCHANGED <<entries, inFlight, results, expiresAt, now, target, wire,
                   issued, told, ledgerVars, finishedAt>>

-----------------------------------------------------------------------------
(* Environment: the Lexware file endpoint, the clock, the process *)

LexwareStores(r) ==
    /\ wire[r] = "sent"
    /\ wire' = [wire EXCEPT ![r] = "stored"]
    /\ filed' = [filed EXCEPT ![target[r]] = @ + 1]
    /\ UNCHANGED <<storeVars, phase, target, issued, told, loose, doubts,
                   warned, finishedAt>>

\* A call the server no longer waits for arrives after all, or never does.
LooseCallEnds(t) ==
    /\ loose[t] > 0
    /\ loose' = [loose EXCEPT ![t] = @ - 1]
    /\ filed' \in {filed, [filed EXCEPT ![t] = @ + 1]}
    /\ UNCHANGED <<storeVars, requestVars, issued, told, doubts, warned,
                   finishedAt>>

Tick ==
    /\ now < MaxNow
    /\ now' = now + 1
    /\ UNCHANGED <<entries, inFlight, results, expiresAt, readingBody,
                   requestVars, issued, told, ledgerVars, finishedAt>>

\* The process dies and starts again: the store and every handler are gone,
\* a call on the wire is not.
Restart ==
    LET lost == {t \in Ticket : \E r \in Request : Claiming(r, t)}
        sent == {t \in lost : \E r \in Request : Claiming(r, t) /\ wire[r] = "sent"}
    IN  /\ entries' = {} /\ inFlight' = {} /\ results' = {} /\ readingBody' = {}
        /\ phase' = [r \in Request |-> "idle"]
        /\ wire' = [r \in Request |-> "none"]
        /\ loose' = [t \in Ticket |-> IF t \in sent THEN loose[t] + 1 ELSE loose[t]]
        /\ doubts' = [t \in Ticket |-> IF t \in lost THEN doubts[t] + 1 ELSE doubts[t]]
        /\ UNCHANGED <<expiresAt, now, target, issued, told, filed, warned,
                       finishedAt>>

-----------------------------------------------------------------------------
Next ==
    \/ \E t \in Ticket : \/ CreateUploadTicket(t) \/ GetUploadResult(t)
                         \/ LookAtTicket(t) \/ LooseCallEnds(t)
    \/ \E r \in Request, t \in Ticket : PostUpload(r, t)
    \/ \E r \in Request :
          \/ BodyFails(r) \/ BodyRead(r) \/ BodyRefused(r)
          \/ UploadSucceeds(r) \/ UploadRejected(r)
          \/ UploadLost(r) \/ UploadServerError(r) \/ UploadEmptyAnswer(r)
          \/ HangUp(r) \/ ResponseCloses(r) \/ LexwareStores(r)
    \/ Tick
    \/ Restart

Spec == Init /\ [][Next]_vars

\* upload() settles: AbortSignal.timeout ends each attempt, attempts are
\* bounded (LexwareClient).  A body read ends by itself or by Node's request
\* timeout, a written response closes.
UploadSettles(r) == \/ UploadSucceeds(r) \/ UploadRejected(r) \/ UploadLost(r)
                    \/ UploadServerError(r) \/ UploadEmptyAnswer(r)

BodyEnds(r) == BodyFails(r) \/ BodyRead(r) \/ BodyRefused(r) \/ HangUp(r)

FairSpec == /\ Spec
            /\ \A r \in Request : /\ WF_vars(UploadSettles(r))
                                  /\ WF_vars(BodyEnds(r))
                                  /\ WF_vars(ResponseCloses(r))

=============================================================================
