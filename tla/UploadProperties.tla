-------------------------- MODULE UploadProperties --------------------------
(***************************************************************************)
(* What must hold of the upload path, over the variables of UploadRoutes.  *)
(* MCUpload checks these on small instances, UploadProofs proves the       *)
(* safety ones.                                                            *)
(***************************************************************************)
EXTENDS UploadRoutes

\* Where the store has each ticket, in the words of UploadTicket.
Life == [t \in Ticket |-> IF t \notin issued THEN "unissued"
                          ELSE IF t \in inFlight THEN "lent"
                          ELSE IF t \in results THEN "filed"
                          ELSE IF t \in entries THEN "open" ELSE "void"]

Promise == INSTANCE UploadTicket WITH life <- Life

\* At no time do two requests hold the claim of one ticket, whatever they do
\* between the pre-check, the end of the body and the end of the upload, and
\* whoever hangs up: claim() in routes.ts is the single-use lock.
OneUploadPerTicket ==
    \A r1, r2 \in Request, t \in Ticket :
        Claiming(r1, t) /\ Claiming(r2, t) => r1 = r2

\* The claim is never stranded: a ticket in flight has a handler that will
\* release() or complete() it, and every handler that claims still finds its
\* ticket in flight and in the store, so that complete() is never its silent
\* no-op.
ClaimHasHolder ==
    \A t \in Ticket : t \in inFlight <=> \E r \in Request : Claiming(r, t)

\* The claim is an exclusive loan: both of the above.
ClaimExclusive == OneUploadPerTicket /\ ClaimHasHolder

\* The server buffers at most one request body per ticket, although the slot
\* is freed when a client hangs up while its bytes are still being uploaded.
OneBodyPerTicket ==
    \A r1, r2 \in Request, t \in Ticket :
        Buffering(r1, t) /\ Buffering(r2, t) => r1 = r2

\* The body-read slot belongs to exactly one open response, so its close
\* event frees it and no late one frees the slot of another request.
SlotHasOwner ==
    /\ \A t \in Ticket : t \in readingBody <=> \E r \in Request : Slotted(r, t)
    /\ \A r1, r2 \in Request, t \in Ticket :
           Slotted(r1, t) /\ Slotted(r2, t) => r1 = r2

\* The body-read slot is an exclusive loan too: both of the above.
SlotExclusive == OneBodyPerTicket /\ SlotHasOwner

\* A user who was told "unknown or expired, issue a new one" can use the new
\* ticket safely: nothing will be filed through the old one by this server.
ToldExpiredIsDead ==
    \A t \in Ticket : told[t] = "expired" =>
        t \notin entries /\ \A r \in Request : ~Claiming(r, t)

\* 1 when an upload through t runs or was completed.
Accounted(t) ==
    IF finishedAt[t] > 0 \/ \E r \in Request : Claiming(r, t) THEN 1 ELSE 0

\* Files and calls still under way are accounted for: beyond the one behind a
\* running or completed upload, each needs an attempt whose outcome was
\* unknown.  No interleaving of retries, hang-ups and restarts files more.
FilesAccounted ==
    \A t \in Ticket : filed[t] + loose[t] <= doubts[t] + Accounted(t)

\* What get-upload-result says of a ticket only moves forward: pending, then
\* the result, then expired, never back, restarts included.
AnswersMoveForward ==
    [][\A t \in Ticket :
          /\ told[t] = "result" => told'[t] \in {"result", "expired"}
          /\ told[t] = "expired" => told'[t] = "expired"]_vars

\* A result stays readable for a full TTL after the upload completed, however
\* late in the ticket's life that was: only a restart drops it sooner.
ResultOutlivesTTL ==
    [][\A t \in results : t \in results' \/ Restart
                          \/ now >= finishedAt[t] + TTL]_vars

\* The upload path keeps the promise UploadTicket makes of every ticket.
ImplementsUploadTicket == Promise!Spec

\* A claimed ticket is always let go again: every path out of upload(), every
\* throw, a hang-up or a restart releases or completes it.
ClaimIsReturned == Promise!LentIsReturned

\* The changelog's claim about duplicates: only an attempt whose error told
\* the user to check for the file first can lead to a second file.
OnlyWarnedDuplicates == \A t \in Ticket : filed[t] > 1 => t \in warned

-----------------------------------------------------------------------------
(* The inductive invariant *)

\* A claim and the inFlight flag come and go together.
Claims ==
    /\ OneUploadPerTicket
    /\ ClaimHasHolder
    /\ \A r \in Request : wire[r] # "none" <=> Claiming(r, target[r])

\* While a body is being read under a slot, nobody has the claim: the slot is
\* only given to a ticket that is not in flight, and only the reader can take
\* the claim from there.
Slots ==
    /\ SlotHasOwner
    /\ \A r \in Request : phase[r] = "reading" => target[r] \notin inFlight

\* What the auxiliary variables say of the store.
History ==
    /\ \A t \in Ticket : finishedAt[t] > 0 =>
           t \in issued /\ (t \in entries => t \in results)
    /\ \A t \in results : finishedAt[t] > 0 /\ expiresAt[t] = finishedAt[t] + TTL
    /\ \A t \in Ticket : told[t] = "expired" => t \in issued \ entries
    /\ \A t \in Ticket : told[t] = "result" =>
           t \in issued /\ (t \in entries => t \in results)

\* Every file is accounted for, and a call on the wire has its own allowance.
Ledger ==
    /\ FilesAccounted
    /\ \A r \in Request : wire[r] = "sent" =>
           filed[target[r]] + loose[target[r]] <= doubts[target[r]]

\* The inductive invariant behind the safety theorems of UploadProofs: which
\* handler stands behind every flag and slot, and what each file is owed to.
IInv == TypeOK /\ Claims /\ Slots /\ History /\ Ledger

=============================================================================
