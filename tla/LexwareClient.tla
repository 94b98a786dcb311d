--------------------------- MODULE LexwareClient ---------------------------
(***************************************************************************)
(* sendWithRetry() of src/src/lexware/client.ts over the rate limiter, one *)
(* call per caller, with Lexware and the network as the environment, and   *)
(* deleteIdempotent() of src/src/tools/shared.ts on top of it.             *)
(*                                                                         *)
(* Lexware may carry out a call without its answer coming back, and may do *)
(* so after the client stopped waiting.  Bodies, headers and the length of *)
(* a retry pause are left out; a pause ends at some time.                  *)
(***************************************************************************)
EXTENDS RateLimiter

CONSTANTS Method,     \* what each call asks for: "GET", "POST" or "DELETE"
          MaxRetries  \* maxRetries

ASSUME ClientAssumption == /\ Method \in [Caller -> {"GET", "POST", "DELETE"}]
                           /\ MaxRetries \in Nat

VARIABLES readOnly,  \* the client was built without the drafts capability
          hasKey,    \* apiKey is not empty
          phase,     \* where sendWithRetry() stands for a call
          attempt,   \* its local `attempt`
          outcome,   \* how the call settled
          sends,     \* fetches made for a write
          ran,       \* Lexware carried out the attempt under way
          executed,  \* attempts of a POST that Lexware carried out
          loose,     \* attempts of a write given up on, which it may still be
          gone       \* for a DELETE: whether, and by whom, its object is gone

clientVars == <<readOnly, hasKey, phase, attempt, outcome, sends, ran,
                executed, loose, gone>>
vars == <<limiterVars, clientVars>>

\* A call is "ready", "waiting" for the limiter, "sent", "pausing" before a
\* retry, or "settled" with one of these outcomes: "ok"; "absent", a 404 to a
\* DELETE; "rejected", an error that says it was not carried out; "blocked" by
\* the read-only lock; "network", status 0; "server", a 5xx.
Phases == {"ready", "waiting", "sent", "pausing", "settled"}
Outcomes == {"none", "ok", "absent", "rejected", "blocked", "network", "server"}

TypeOK ==
    /\ LimiterTypeOK
    /\ readOnly \in BOOLEAN
    /\ hasKey \in BOOLEAN
    /\ phase \in [Caller -> Phases]
    /\ attempt \in [Caller -> 0 .. MaxRetries]
    /\ outcome \in [Caller -> Outcomes]
    /\ sends \in [Caller -> Nat]
    /\ ran \in [Caller -> BOOLEAN]
    /\ executed \in [Caller -> Nat]
    /\ loose \in [Caller -> Nat]
    /\ gone \in [Caller -> {"no", "byUs", "byOther"}]

Init ==
    /\ LimiterInit
    /\ readOnly \in BOOLEAN
    /\ hasKey \in BOOLEAN
    /\ phase = [c \in Caller |-> "ready"]
    /\ attempt = [c \in Caller |-> 0]
    /\ outcome = [c \in Caller |-> "none"]
    /\ sends = [c \in Caller |-> 0]
    /\ ran = [c \in Caller |-> FALSE]
    /\ executed = [c \in Caller |-> 0]
    /\ loose = [c \in Caller |-> 0]
    /\ gone = [c \in Caller |-> "no"]

\* Slip: every call may be replayed.
AnyMethod(c) == TRUE

\* opts.idempotent, as the callers of the client set it.
Idempotent(c) == Method[c] # "POST"

\* What carrying out the call does to the object of a DELETE.
Effect(c) == IF Method[c] = "DELETE" /\ gone[c] = "no"
             THEN [gone EXCEPT ![c] = "byUs"] ELSE gone

Carried(c) == [executed EXCEPT ![c] = IF Method[c] = "POST" THEN @ + 1 ELSE @]

\* sendWithRetry() returns or throws; its `attempt` ends with it.  What went
\* wrong with a GET makes no difference.
Settle(c, o) == /\ phase' = [phase EXCEPT ![c] = "settled"]
                /\ outcome' = [outcome EXCEPT ![c] =
                                  IF Method[c] = "GET" /\ o # "ok" THEN "rejected" ELSE o]
                /\ attempt' = [attempt EXCEPT ![c] = 0]
                /\ ran' = [ran EXCEPT ![c] = FALSE]

-----------------------------------------------------------------------------
(* The client *)

\* The checks before the loop throw.
Refuse(c) ==
    /\ phase[c] = "ready"
    /\ \/ readOnly /\ Method[c] # "GET" /\ Settle(c, "blocked")
       \/ ~(readOnly /\ Method[c] # "GET") /\ ~hasKey /\ Settle(c, "rejected")
    /\ UNCHANGED <<limiterVars, readOnly, hasKey, sends, executed,
                   loose, gone>>

\* The top of the loop: limiter.acquire(), first or again after a pause.
AskLimiter(c) ==
    /\ \/ phase[c] = "pausing"
       \/ phase[c] = "ready" /\ hasKey /\ (readOnly => Method[c] = "GET")
    /\ Acquire(c)
    /\ phase' = [phase EXCEPT ![c] = "waiting"]
    /\ UNCHANGED <<readOnly, hasKey, attempt, outcome, sends, ran, executed,
                   loose, gone>>

Counted(c) == [sends EXCEPT ![c] = IF Method[c] = "GET" THEN @ ELSE @ + 1]

\* Slip: nothing waits for acquire().
SendAtOnce(c) ==
    /\ phase[c] = "waiting"
    /\ phase' = [phase EXCEPT ![c] = "sent"]
    /\ sends' = Counted(c)
    /\ level' = IF level >= Cost THEN level - Cost ELSE 0
    /\ chain' = SelectSeq(chain, LAMBDA d : d # c)
    /\ UNCHANGED <<tokens, lag, sleep, shift, lead, readOnly, hasKey,
                   attempt, outcome, ran, executed, loose, gone>>

\* acquire() resolves and fetch() is called.
Send(c) ==
    /\ chain # <<>> /\ Head(chain) = c
    /\ Grant
    /\ phase' = [phase EXCEPT ![c] = "sent"]
    /\ sends' = Counted(c)
    /\ UNCHANGED <<readOnly, hasKey, attempt, outcome, ran, executed, loose, gone>>

\* attempt++ and continue, after a pause.
Retry(c) == /\ attempt[c] < MaxRetries
            /\ attempt' = [attempt EXCEPT ![c] = @ + 1]
            /\ phase' = [phase EXCEPT ![c] = "pausing"]
            /\ ran' = [ran EXCEPT ![c] = FALSE]

\* A 429: not carried out, so any call is retried.
RetryThrottled(c) ==
    /\ phase[c] = "sent" /\ ~ran[c]
    /\ Retry(c)
    /\ UNCHANGED <<limiterVars, readOnly, hasKey, outcome, sends, executed,
                   loose, gone>>

\* The attempt may be carried out after all.
Abandon(c) ==
    loose' = [loose EXCEPT ![c] = IF ran[c] \/ Method[c] = "GET" THEN @ ELSE @ + 1]

\* No answer within the request timeout, a broken connection, or one of 500,
\* 502, 503, 504: retried for an idempotent call.
RetryUnclear(c) ==
    /\ phase[c] = "sent" /\ Idempotent(c)
    /\ Retry(c)
    /\ Abandon(c)
    /\ UNCHANGED <<limiterVars, readOnly, hasKey, outcome, sends, executed, gone>>

\* The same without a retry: the last attempt, a call that is not idempotent,
\* or a 5xx that is not retried.
SettleServerError(c) ==
    /\ phase[c] = "sent"
    /\ Settle(c, "server")
    /\ Abandon(c)
    /\ UNCHANGED <<limiterVars, readOnly, hasKey, sends, executed, gone>>

SettleNoAnswer(c) ==
    /\ phase[c] = "sent" /\ (attempt[c] = MaxRetries \/ ~Idempotent(c))
    /\ Settle(c, "network")
    /\ Abandon(c)
    /\ UNCHANGED <<limiterVars, readOnly, hasKey, sends, executed, gone>>

\* Slip: any error of a DELETE counts as a 404.
AnyRejection(c) == {IF Method[c] = "DELETE" THEN "absent" ELSE "rejected"}

\* What a rejection may be: deleteIdempotent() turns the 404 of a DELETE whose
\* object is gone into alreadyAbsent, and throws every other one on.
RejectionsOf(c) == {"rejected"} \cup
    IF Method[c] = "DELETE" /\ gone[c] # "no" THEN {"absent"} ELSE {}

\* A 4xx, or a 429 on the last attempt.
SettleRejected(c) ==
    /\ phase[c] = "sent" /\ ~ran[c]
    /\ \E o \in RejectionsOf(c) : Settle(c, o)
    /\ UNCHANGED <<limiterVars, readOnly, hasKey, sends, executed,
                   loose, gone>>

\* A 2xx whose body is read, or whose body fails: status 0, never retried.
SettleAnswered(c, o) ==
    /\ phase[c] = "sent" /\ ran[c]
    /\ Settle(c, o)
    /\ UNCHANGED <<limiterVars, readOnly, hasKey, sends, executed,
                   loose, gone>>

-----------------------------------------------------------------------------
(* The environment *)

LexwareExecutes(c) ==
    /\ phase[c] = "sent" /\ ~ran[c]
    /\ Method[c] = "DELETE" => gone[c] = "no"
    /\ ran' = [ran EXCEPT ![c] = TRUE]
    /\ executed' = Carried(c)
    /\ gone' = Effect(c)
    /\ UNCHANGED <<limiterVars, readOnly, hasKey, phase, attempt, outcome,
                   sends, loose>>

\* An attempt given up on is carried out late, or never.
LooseAttemptEnds(c) ==
    /\ loose[c] > 0
    /\ loose' = [loose EXCEPT ![c] = @ - 1]
    /\ \/ /\ executed' = Carried(c)
          /\ gone' = Effect(c)
       \/ UNCHANGED <<executed, gone>>
    /\ UNCHANGED <<limiterVars, readOnly, hasKey, phase, attempt, outcome,
                   sends, ran>>

\* Another user of the account deletes the object.
SomeoneDeletes(c) ==
    /\ Method[c] = "DELETE" /\ gone[c] = "no"
    /\ gone' = [gone EXCEPT ![c] = "byOther"]
    /\ UNCHANGED <<limiterVars, readOnly, hasKey, phase, attempt, outcome,
                   sends, ran, executed, loose>>

LimiterStep == /\ \/ SleepForToken
                  \/ Tick
                  \/ \E k \in 1 .. shift : SetClockBack(k) \/ SetClockForward(k)
               /\ UNCHANGED clientVars

-----------------------------------------------------------------------------
Answered(c) == \/ RetryThrottled(c) \/ RetryUnclear(c)
               \/ SettleServerError(c) \/ SettleNoAnswer(c) \/ SettleRejected(c)
               \/ SettleAnswered(c, "ok") \/ SettleAnswered(c, "network")

Next == \/ \E c \in Caller :
              \/ Refuse(c) \/ AskLimiter(c) \/ Send(c) \/ Answered(c)
              \/ LexwareExecutes(c) \/ LooseAttemptEnds(c) \/ SomeoneDeletes(c)
        \/ LimiterStep

Spec == Init /\ [][Next]_vars

-----------------------------------------------------------------------------
(* Properties *)

\* A POST is carried out at most once, whatever is retried and however late
\* Lexware carries out an attempt the client gave up on.
PostAtMostOnce ==
    \A c \in Caller : Method[c] = "POST" => executed[c] + loose[c] <= 1

\* What a POST's error says can be relied on: one that does not leave the
\* outcome open means that nothing was, or will be, carried out.
SettledHonestly ==
    \A c \in Caller : Method[c] = "POST" =>
        /\ outcome[c] = "ok" => executed[c] > 0
        /\ outcome[c] \in {"rejected", "blocked"} => executed[c] + loose[c] = 0

\* What a caller of the client may rely on, stated in WriteCall: a POST takes
\* effect once or not at all, and what is said about a write agrees with it.
\* An error of a DELETE leaves open whether the object is there, as others
\* may delete it.
Write == {c \in Caller : Method[c] # "GET"}
EffectOf(c) == IF Method[c] = "DELETE" THEN IF gone[c] = "no" THEN 0 ELSE 1
               ELSE executed[c]
ToldOf(c) == CASE outcome[c] = "none" -> "open"
               [] outcome[c] \in {"ok", "absent"} -> "done"
               [] Method[c] = "POST" /\ outcome[c] \in {"rejected", "blocked"} -> "refused"
               [] OTHER -> "unclear"
effect == [c \in Write |-> EffectOf(c)]
told == [c \in Write |-> ToldOf(c)]
Promise == INSTANCE WriteCall
ImplementsWriteCall == Promise!WriteSpec

\* A DELETE that reports success leaves no object behind, whichever of its
\* attempts, or of the other users, removed it.
DeletedIsGone ==
    \A c \in Caller : Method[c] = "DELETE" /\ outcome[c] \in {"ok", "absent"}
                          => gone[c] # "no"

\* No write costs Lexware more than the first attempt and maxRetries more.
AttemptsBounded == \A c \in Caller : sends[c] <= MaxRetries + 1

\* A call is in the limiter's chain exactly while its loop waits there, so no
\* retry is lost in it or queued twice.
WaitingIsQueued ==
    /\ \A c \in Caller : phase[c] = "waiting" <=> Waiting(c)
    /\ \A i, j \in 1 .. Len(chain) : chain[i] = chain[j] => i = j

\* Every fetch, the retries of throttled calls included, finds a token in the
\* bucket Lexware keeps, up to what the clock was set forward meanwhile.
EveryFetchPaid ==
    [][(\E c \in Caller : phase[c] # "sent" /\ phase'[c] = "sent") => level + lead >= Cost]_vars

\* What deleteIdempotent() says it tells apart: "already absent" is never the
\* answer to a DELETE that itself deleted the object.
AbsentMeansNotByUs ==
    \A c \in Caller : outcome[c] = "absent" => gone[c] # "byUs"

=============================================================================
