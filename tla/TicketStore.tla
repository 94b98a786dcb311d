---------------------------- MODULE TicketStore ----------------------------
(***************************************************************************)
(* The in-memory ticket store of src/src/uploads/tickets.ts.               *)
(*                                                                         *)
(* A `TicketState` record is split over sets of tickets: a ticket is in    *)
(* `entries` when the Map has a key for it, in `inFlight` when its flag of *)
(* that name is set, in `results` when it carries a result.  The type,     *)
(* the fallback filename and the fallback content type of a ticket are     *)
(* data no property here depends on, and are left out.  Every operation of *)
(* the class is synchronous, so each is one operator; the callers, and     *)
(* what happens between two calls, are in UploadRoutes.  A "slip" is a     *)
(* plausible mistake in the operation below it, which some property of     *)
(* UploadProperties has to catch.                                          *)
(***************************************************************************)
EXTENDS Naturals, FiniteSets

CONSTANTS Ticket,  \* values of randomBytes(24), pairwise distinct
          TTL      \* ttlMs, 15 minutes in the program

ASSUME TTLAssumption == TTL \in Nat \ {0}

VARIABLES entries,      \* keys of the Map `tickets`
          inFlight,     \* tickets whose entry has inFlight = true
          results,      \* tickets whose entry has a result
          expiresAt,    \* the expiresAt field, meaningful for entries only
          readingBody,  \* the Set `readingBody`
          now           \* what now() returns

storeVars == <<entries, inFlight, results, expiresAt, readingBody, now>>

StoreTypeOK ==
    /\ entries \subseteq Ticket
    /\ inFlight \subseteq entries
    /\ results \subseteq entries \ inFlight
    /\ expiresAt \in [Ticket -> Nat]
    /\ readingBody \subseteq Ticket
    /\ now \in Nat \ {0}

StoreInit ==
    /\ entries = {}
    /\ inFlight = {}
    /\ results = {}
    /\ expiresAt = [t \in Ticket |-> 0]
    /\ readingBody = {}
    /\ now = 1

-----------------------------------------------------------------------------
(* Lookups *)

\* Slip: the in-flight shield is missing.
ExpiredUnshielded(t) == t \in entries /\ expiresAt[t] <= now

\* The condition under which peek() and sweep() evict: expired, and not the
\* entry of an upload that is running right now.
Expired(t) == /\ t \in entries
              /\ expiresAt[t] <= now
              /\ t \notin inFlight

\* peek() returns the entry.
Found(t) == t \in entries /\ ~Expired(t)

\* Slips: one of the two "already used" conditions is missing.
UsableInFlight(t) == Found(t) /\ t \notin results
UsableAgain(t) == Found(t) /\ t \notin inFlight

\* usabilityError() returns undefined: a claim() would succeed.
Usable(t) == Found(t) /\ t \notin results /\ t \notin inFlight

-----------------------------------------------------------------------------
(* Updates *)

\* tickets.delete() for every ticket of S.
Delete(S) == entries' = entries \ S /\ results' = results \ S

\* The eviction every lookup of t performs: peek(), and usabilityError() and
\* claim() through it.
Peek(t) == Delete({t} \cap {u \in Ticket : Expired(u)})

\* create(): sweep everything that expired, then add the fresh ticket.
Create(t) ==
    LET kept == {u \in entries : ~Expired(u)}
    IN  /\ entries' = kept \cup {t}
        /\ results' = results \cap kept
        /\ expiresAt' = [expiresAt EXCEPT ![t] = now + TTL]

\* claim() of a usable ticket; an unusable one throws after the Peek.
Claim(t) == Usable(t) /\ inFlight' = inFlight \cup {t}

\* Slip: an expired entry is treated as unknown.
ReleaseUnexpired(t) == inFlight' = IF t \in entries \ results /\ expiresAt[t] > now
                                   THEN inFlight \ {t} ELSE inFlight

\* release(): nothing to do for a deleted entry or for one with a result.
Release(t) == inFlight' = IF t \in entries \ results THEN inFlight \ {t}
                                                     ELSE inFlight

\* Slips: the TTL is not started again; the result is not recorded.
CompleteNoRearm(t) == /\ results' = results \cup {t}
                      /\ inFlight' = inFlight \ {t}
                      /\ UNCHANGED expiresAt
CompleteNoResult(t) == /\ inFlight' = inFlight \ {t}
                       /\ expiresAt' = [expiresAt EXCEPT ![t] = now + TTL]
                       /\ UNCHANGED results

\* complete(): the TTL starts again, so that the result stays readable.
Complete(t) ==
    IF t \in entries
    THEN /\ results' = results \cup {t}
         /\ inFlight' = inFlight \ {t}
         /\ expiresAt' = [expiresAt EXCEPT ![t] = now + TTL]
    ELSE UNCHANGED <<results, inFlight, expiresAt>>

\* beginBodyRead() of a free slot; it returns false for a taken one.
BeginBodyRead(t) == t \notin readingBody /\ readingBody' = readingBody \cup {t}

\* Slip: the slot is kept on the entry, which may be gone.
EndBodyReadOfEntry(t) == readingBody' = IF t \in entries THEN readingBody \ {t}
                                                         ELSE readingBody

\* endBodyRead().
EndBodyRead(t) == readingBody' = readingBody \ {t}

=============================================================================
