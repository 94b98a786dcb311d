---------------------------- MODULE ClientProofs ----------------------------
(***************************************************************************)
(* Proofs about the rate limiter, the Lexware client and the tools that    *)
(* share it, for any calls, any retry limit and any rate.                  *)
(***************************************************************************)
EXTENDS ToolCalls, TLAPS

-----------------------------------------------------------------------------
(* The limiter *)

\* A full bucket holds at least one token.
LEMMA FullHoldsOne == Full \in Nat /\ Full >= Cost
BY RateAssumption, SMT DEF Full

\* What refill() leaves is a legal number of tokens.
LEMMA RefilledType ==
    ASSUME LimiterTypeOK
    PROVE  Refilled \in 0 .. Full /\ LagAfter \in shift - MaxShift .. 0
<1> HIDE DEF Full
<1> QED
    BY RateAssumption, FullHoldsOne DEF LimiterTypeOK, Refilled, LagAfter, Least

LEMMA LimiterTypeStep == LimiterTypeOK /\ [LimiterNext]_limiterVars => LimiterTypeOK'
<1> SUFFICES ASSUME LimiterTypeOK, [LimiterNext]_limiterVars PROVE LimiterTypeOK'
    OBVIOUS
<1> USE RateAssumption, FullHoldsOne DEF LimiterTypeOK
<1> HIDE DEF Full
<1>1. ASSUME NEW c \in Caller, Acquire(c) PROVE LimiterTypeOK'
    BY <1>1 DEF Acquire
<1>2. CASE SleepForToken
    BY <1>2, RefilledType DEF SleepForToken
<1>3. CASE Grant
    <2>1. chain' \in Seq(Caller)
        BY <1>3 DEF Grant
    <2> QED
        BY <1>3, <2>1, RefilledType DEF Grant
<1>4. CASE Tick
    BY <1>4 DEF Tick, Least
<1>5. ASSUME NEW k \in 1 .. shift, SetClockBack(k) \/ SetClockForward(k)
      PROVE  LimiterTypeOK'
    <2>1. CASE SetClockBack(k)
        BY <2>1 DEF SetClockBack
    <2>2. CASE SetClockForward(k)
        BY <2>2 DEF SetClockForward, Least
    <2> QED
        BY <1>5, <2>1, <2>2
<1>6. CASE UNCHANGED limiterVars
    BY <1>6 DEF limiterVars
<1> QED
    BY <1>1, <1>2, <1>3, <1>4, <1>5, <1>6 DEF LimiterNext

\* Tokens stay between none and a full bucket, and a sleep is never longer
\* than one token takes.
THEOREM LimiterTypeCorrect == LimiterSpec => []LimiterTypeOK
<1>1. LimiterInit => LimiterTypeOK
    BY RateAssumption, FullHoldsOne DEF LimiterInit, LimiterTypeOK
<1> QED
    BY <1>1, LimiterTypeStep, PTL DEF LimiterSpec

LEMMA AheadStep == LimiterTypeOK /\ NeverAhead /\ [LimiterNext]_limiterVars => NeverAhead'
<1> SUFFICES ASSUME LimiterTypeOK, NeverAhead, [LimiterNext]_limiterVars PROVE NeverAhead'
    OBVIOUS
<1> USE RateAssumption, FullHoldsOne
        DEF LimiterTypeOK, NeverAhead, Refilled, LagAfter, Least
<1> HIDE DEF Full
<1>1. ASSUME NEW c \in Caller, Acquire(c) PROVE NeverAhead'
    BY <1>1 DEF Acquire
<1>2. CASE SleepForToken
    BY <1>2 DEF SleepForToken
<1>3. CASE Grant
    BY <1>3 DEF Grant
<1>4. CASE Tick
    BY <1>4 DEF Tick
<1>5. ASSUME NEW k \in 1 .. shift, SetClockBack(k) \/ SetClockForward(k)
      PROVE  NeverAhead'
    BY <1>5 DEF SetClockBack, SetClockForward
<1>6. CASE UNCHANGED limiterVars
    BY <1>6 DEF limiterVars
<1> QED
    BY <1>1, <1>2, <1>3, <1>4, <1>5, <1>6 DEF LimiterNext

\* What the limiter believes to have exceeds what Lexware's bucket holds by no
\* more than the clock was set forward since that bucket was full, however
\* often it is set.
THEOREM LimiterNeverAhead == LimiterSpec => []NeverAhead
<1>1. LimiterInit => NeverAhead
    BY RateAssumption, FullHoldsOne DEF LimiterInit, NeverAhead, Refilled
<1> QED
    BY <1>1, LimiterTypeCorrect, AheadStep, PTL DEF LimiterSpec

\* Hence every call it lets through finds a token at Lexware, but for that step.
THEOREM LimiterNeverThrottled == LimiterSpec => NeverThrottled
<1>1. LimiterTypeOK /\ NeverAhead /\ [LimiterNext]_limiterVars
        => [Grant => level + lead >= Cost]_limiterVars
    <2> SUFFICES ASSUME LimiterTypeOK, NeverAhead, Grant PROVE level + lead >= Cost
        OBVIOUS
    <2> HIDE DEF Full
    <2> QED
        BY RateAssumption, FullHoldsOne, RefilledType DEF LimiterTypeOK, NeverAhead, Grant
<1> QED
    BY <1>1, LimiterTypeCorrect, LimiterNeverAhead, PTL DEF LimiterSpec, NeverThrottled

\* No sleep is too short as long as the clock is not set back.
THEOREM LimiterNoWastedSleep == LimiterSpec => []NoWastedSleep
<1>1. LimiterInit => NoWastedSleep
    BY RateAssumption DEF LimiterInit, NoWastedSleep
<1>2. LimiterTypeOK /\ NoWastedSleep /\ [LimiterNext]_limiterVars => NoWastedSleep'
    <2> SUFFICES ASSUME LimiterTypeOK, NoWastedSleep, [LimiterNext]_limiterVars
                 PROVE  NoWastedSleep'
        OBVIOUS
    <2> USE RateAssumption, FullHoldsOne
            DEF LimiterTypeOK, NoWastedSleep, Refilled, LagAfter, Least
    <2> HIDE DEF Full
    <2>1. ASSUME NEW c \in Caller, Acquire(c) PROVE NoWastedSleep'
        BY <2>1 DEF Acquire
    <2>2. CASE SleepForToken
        BY <2>2 DEF SleepForToken
    <2>3. CASE Grant
        BY <2>3 DEF Grant
    <2>4. CASE Tick
        BY <2>4 DEF Tick
    <2>5. ASSUME NEW k \in 1 .. shift, SetClockBack(k) \/ SetClockForward(k)
          PROVE  NoWastedSleep'
        BY <2>5 DEF SetClockBack, SetClockForward
    <2>6. CASE UNCHANGED limiterVars
        BY <2>6 DEF limiterVars
    <2> QED
        BY <2>1, <2>2, <2>3, <2>4, <2>5, <2>6 DEF LimiterNext
<1> QED
    BY <1>1, <1>2, LimiterTypeCorrect, PTL DEF LimiterSpec


-----------------------------------------------------------------------------
(* The limiter inside the client *)

\* Whatever the client does is a step of its limiter, or none.
LEMMA LimiterInside == [Next]_vars => [LimiterNext]_limiterVars
<1> SUFFICES ASSUME [Next]_vars PROVE LimiterNext \/ UNCHANGED limiterVars
    OBVIOUS
<1>1. ASSUME NEW c \in Caller, AskLimiter(c) PROVE LimiterNext
    BY <1>1 DEF AskLimiter, LimiterNext
<1>2. ASSUME NEW c \in Caller, Send(c) PROVE LimiterNext
    BY <1>2 DEF Send, LimiterNext
<1>3. ASSUME LimiterStep PROVE LimiterNext
    BY <1>3 DEF LimiterStep, LimiterNext
<1> QED
    BY <1>1, <1>2, <1>3
       DEF Next, vars, Answered, Refuse, RetryThrottled, RetryUnclear,
           SettleServerError, SettleNoAnswer, SettleRejected, SettleAnswered,
           LexwareExecutes, LooseAttemptEnds, SomeoneDeletes

\* The client uses its limiter as the limiter's specification allows, so that
\* what is proved of the limiter holds inside the client.
THEOREM ClientUsesLimiter == Spec => LimiterSpec
<1>1. Init => LimiterInit
    BY DEF Init
<1> QED
    BY <1>1, LimiterInside, PTL DEF Spec, LimiterSpec

-----------------------------------------------------------------------------
(* Types *)

\* How a call settles, or goes on, keeps the types.
LEMMA SettleType ==
    ASSUME TypeOK, NEW c \in Caller, NEW o \in Outcomes, Settle(c, o)
    PROVE  /\ phase' \in [Caller -> Phases] /\ outcome' \in [Caller -> Outcomes]
           /\ attempt' \in [Caller -> 0 .. MaxRetries] /\ ran' \in [Caller -> BOOLEAN]
<1> DEFINE v == IF Method[c] = "GET" /\ o # "ok" THEN "rejected" ELSE o
<1>1. v \in Outcomes /\ "settled" \in Phases
    BY DEF Outcomes, Phases
<1>2. /\ phase' = [phase EXCEPT ![c] = "settled"]
      /\ outcome' = [outcome EXCEPT ![c] = v]
      /\ attempt' = [attempt EXCEPT ![c] = 0] /\ 0 \in 0 .. MaxRetries
      /\ ran' = [ran EXCEPT ![c] = FALSE]
    BY ClientAssumption DEF Settle
<1> HIDE DEF v
<1> QED
    BY <1>1, <1>2 DEF TypeOK

LEMMA RetryType ==
    ASSUME TypeOK, NEW c \in Caller, Retry(c)
    PROVE  /\ phase' \in [Caller -> Phases] /\ ran' \in [Caller -> BOOLEAN]
           /\ attempt' \in [Caller -> 0 .. MaxRetries]
BY ClientAssumption DEF Retry, TypeOK, Phases

\* What a write leaves behind keeps its type.
LEMMA TraceType ==
    ASSUME TypeOK, NEW c \in Caller
    PROVE  /\ Carried(c) \in [Caller -> Nat] /\ Counted(c) \in [Caller -> Nat]
           /\ Effect(c) \in [Caller -> {"no", "byUs", "byOther"}]
           /\ Abandon(c) => loose' \in [Caller -> Nat]
BY DEF TypeOK, Carried, Counted, Effect, Abandon

LEMMA ClientTypeStep == TypeOK /\ [Next]_vars => TypeOK'
<1> SUFFICES ASSUME TypeOK, [Next]_vars PROVE TypeOK'
    OBVIOUS
<1>1. LimiterTypeOK'
    BY LimiterInside, LimiterTypeStep DEF TypeOK
<1> USE <1>1 DEF TypeOK
<1>2. ASSUME NEW c \in Caller, Refuse(c) PROVE TypeOK'
    BY <1>2, SettleType DEF Refuse, Outcomes
<1>3. ASSUME NEW c \in Caller, AskLimiter(c) PROVE TypeOK'
    BY <1>3 DEF AskLimiter, Phases
<1>4. ASSUME NEW c \in Caller, Send(c) PROVE TypeOK'
    BY <1>4, TraceType DEF Send, Phases
<1>5. ASSUME NEW c \in Caller, RetryThrottled(c) PROVE TypeOK'
    BY <1>5, RetryType DEF RetryThrottled
<1>6. ASSUME NEW c \in Caller, RetryUnclear(c) PROVE TypeOK'
    BY <1>6, RetryType, TraceType DEF RetryUnclear
<1>7. ASSUME NEW c \in Caller, SettleServerError(c) PROVE TypeOK'
    BY <1>7, SettleType, TraceType DEF SettleServerError, Outcomes
<1>8. ASSUME NEW c \in Caller, SettleNoAnswer(c) PROVE TypeOK'
    BY <1>8, SettleType, TraceType DEF SettleNoAnswer, Outcomes
<1>9. ASSUME NEW c \in Caller, SettleRejected(c) PROVE TypeOK'
    BY <1>9, SettleType DEF SettleRejected, RejectionsOf, Outcomes
<1>10. ASSUME NEW c \in Caller, NEW o \in {"ok", "network"}, SettleAnswered(c, o)
       PROVE  TypeOK'
    BY <1>10, SettleType DEF SettleAnswered, Outcomes
<1>11. ASSUME NEW c \in Caller, LexwareExecutes(c) PROVE TypeOK'
    BY <1>11, TraceType DEF LexwareExecutes
<1>12. ASSUME NEW c \in Caller, LooseAttemptEnds(c) PROVE TypeOK'
    BY <1>12, TraceType DEF LooseAttemptEnds
<1>13. ASSUME NEW c \in Caller, SomeoneDeletes(c) PROVE TypeOK'
    BY <1>13 DEF SomeoneDeletes
<1>14. CASE UNCHANGED clientVars
    BY <1>14 DEF clientVars
<1> QED
    BY <1>2, <1>3, <1>4, <1>5, <1>6, <1>7, <1>8, <1>9, <1>10, <1>11, <1>12,
       <1>13, <1>14 DEF Next, vars, Answered, LimiterStep

\* Every variable of the client keeps its type; `attempt` stays within the
\* retry limit.
THEOREM ClientTypeCorrect == Spec => []TypeOK
<1>1. Init => TypeOK
    BY RateAssumption, FullHoldsOne, ClientAssumption
       DEF Init, TypeOK, LimiterInit, LimiterTypeOK, Phases, Outcomes
<1> QED
    BY <1>1, ClientTypeStep, PTL DEF Spec

\* Every fetch, first or retried, finds a token in Lexware's bucket, up to what
\* the clock was set forward since it was full.
THEOREM FetchesPaid == Spec => EveryFetchPaid
<1> DEFINE Sends == \E c \in Caller : phase[c] # "sent" /\ phase'[c] = "sent"
<1> DEFINE Paid == Sends => level + lead >= Cost
<1>1. TypeOK /\ [Next]_vars /\ [Grant => level + lead >= Cost]_limiterVars => [Paid]_vars
    <2> SUFFICES ASSUME TypeOK, Next, [Grant => level + lead >= Cost]_limiterVars, Sends
                 PROVE  level + lead >= Cost
        OBVIOUS
    <2>1. PICK c \in Caller : Send(c)
        BY DEF Next, TypeOK, Answered, Refuse, AskLimiter, RetryThrottled, RetryUnclear,
               SettleServerError, SettleNoAnswer, SettleRejected, SettleAnswered, Settle,
               Retry, LexwareExecutes, LooseAttemptEnds, SomeoneDeletes, LimiterStep,
               clientVars
    <2>2. Grant
        BY <2>1 DEF Send
    <2>3. CASE UNCHANGED limiterVars
        BY <2>2, <2>3 DEF Grant, limiterVars
    <2> QED
        BY <2>2, <2>3
<1> QED
    BY <1>1, ClientTypeCorrect, ClientUsesLimiter, LimiterNeverThrottled, PTL
       DEF Spec, NeverThrottled, EveryFetchPaid

-----------------------------------------------------------------------------
(* The chain *)

\* Leaving the chain at its head removes that caller and nobody else.
LEMMA TailWaits ==
    ASSUME chain \in Seq(Caller), chain # <<>>, chain' = Tail(chain),
           \A i, j \in 1 .. Len(chain) : chain[i] = chain[j] => i = j
    PROVE  /\ \A c \in Caller : Waiting(c)' <=> Waiting(c) /\ c # Head(chain)
           /\ \A i, j \in 1 .. Len(chain') : chain'[i] = chain'[j] => i = j
<1>1. /\ Len(chain) >= 1 /\ Len(chain) \in Nat
      /\ Len(chain') = Len(chain) - 1
      /\ \A i \in 1 .. Len(chain') : chain'[i] = chain[i + 1]
      /\ Head(chain) = chain[1]
    OBVIOUS
<1>2. ASSUME NEW c \in Caller, Waiting(c)' PROVE Waiting(c) /\ c # Head(chain)
    <2>1. PICK i \in 1 .. Len(chain') : chain'[i] = c
        BY <1>2 DEF Waiting
    <2>2. i + 1 \in 1 .. Len(chain) /\ chain[i + 1] = c /\ i + 1 # 1
        BY <1>1, <2>1
    <2> QED
        BY <1>1, <2>2 DEF Waiting
<1>3. ASSUME NEW c \in Caller, Waiting(c), c # Head(chain) PROVE Waiting(c)'
    <2>1. PICK i \in 1 .. Len(chain) : chain[i] = c
        BY <1>3 DEF Waiting
    <2>2. i - 1 \in 1 .. Len(chain') /\ chain'[i - 1] = c
        BY <1>1, <1>3, <2>1
    <2> QED
        BY <2>2 DEF Waiting
<1>4. ASSUME NEW i \in 1 .. Len(chain'), NEW j \in 1 .. Len(chain'), chain'[i] = chain'[j]
      PROVE  i = j
    BY <1>1, <1>4
<1> QED
    BY <1>2, <1>3, <1>4

\* Joining the chain adds that caller and nobody else.
LEMMA AppendWaits ==
    ASSUME chain \in Seq(Caller), NEW d \in Caller, ~Waiting(d), chain' = Append(chain, d),
           \A i, j \in 1 .. Len(chain) : chain[i] = chain[j] => i = j
    PROVE  /\ \A c \in Caller : Waiting(c)' <=> Waiting(c) \/ c = d
           /\ \A i, j \in 1 .. Len(chain') : chain'[i] = chain'[j] => i = j
<1>1. /\ Len(chain) \in Nat
      /\ Len(chain') = Len(chain) + 1
      /\ \A i \in 1 .. Len(chain) : chain'[i] = chain[i]
      /\ chain'[Len(chain) + 1] = d
    OBVIOUS
<1>2. ASSUME NEW c \in Caller, Waiting(c)' PROVE Waiting(c) \/ c = d
    <2>1. PICK i \in 1 .. Len(chain') : chain'[i] = c
        BY <1>2 DEF Waiting
    <2>2. i \in 1 .. Len(chain) \/ i = Len(chain) + 1
        BY <1>1
    <2> QED
        BY <1>1, <2>1, <2>2 DEF Waiting
<1>3. ASSUME NEW c \in Caller, Waiting(c) \/ c = d PROVE Waiting(c)'
    BY <1>1, <1>3 DEF Waiting
<1>4. ASSUME NEW i \in 1 .. Len(chain'), NEW j \in 1 .. Len(chain'), chain'[i] = chain'[j]
      PROVE  i = j
    BY <1>1, <1>4 DEF Waiting
<1> QED
    BY <1>2, <1>3, <1>4

LEMMA QueueStep == TypeOK /\ WaitingIsQueued /\ [Next]_vars => WaitingIsQueued'
<1> SUFFICES ASSUME TypeOK, WaitingIsQueued, [Next]_vars PROVE WaitingIsQueued'
    OBVIOUS
<1> USE DEF TypeOK, LimiterTypeOK, Phases, WaitingIsQueued
<1>1. ASSUME NEW c \in Caller, AskLimiter(c) PROVE WaitingIsQueued'
    BY <1>1, AppendWaits DEF AskLimiter, Acquire
<1>2. ASSUME NEW c \in Caller, Send(c) PROVE WaitingIsQueued'
    BY <1>2, TailWaits DEF Send, Grant
<1>3. ASSUME UNCHANGED chain,
             \A c \in Caller : phase'[c] = "waiting" <=> phase[c] = "waiting"
      PROVE  WaitingIsQueued'
    BY <1>3 DEF Waiting
<1>4. ASSUME NEW c \in Caller, Refuse(c) \/ Answered(c) PROVE WaitingIsQueued'
    BY <1>3, <1>4 DEF Refuse, Answered, RetryThrottled, RetryUnclear, SettleServerError,
        SettleNoAnswer, SettleRejected, SettleAnswered, Retry, Settle, limiterVars
<1> QED
    BY <1>1, <1>2, <1>3, <1>4
       DEF Next, vars, LexwareExecutes, LooseAttemptEnds, SomeoneDeletes, LimiterStep,
           SleepForToken, Tick, SetClockBack, SetClockForward, clientVars, limiterVars

\* No call is lost in the limiter's chain or queued twice, whatever is retried.
THEOREM CallsQueued == Spec => []WaitingIsQueued
<1>1. Init => WaitingIsQueued
    BY DEF Init, LimiterInit, WaitingIsQueued, Waiting
<1> QED
    BY <1>1, QueueStep, ClientTypeCorrect, PTL DEF Spec

-----------------------------------------------------------------------------
(* What was carried out *)

\* Where a call stands says how often it was sent and what it can have done.
Attempts(c) ==
    /\ phase[c] = "ready" => sends[c] = 0 /\ attempt[c] = 0
    /\ phase[c] \in {"waiting", "pausing"} => sends[c] <= attempt[c]
    /\ phase[c] = "sent" => sends[c] <= attempt[c] + 1
    /\ sends[c] <= MaxRetries + 1

\* Only a settled call has an outcome, and only an attempt under way can run.
Settled(c) ==
    /\ outcome[c] # "none" <=> phase[c] = "settled"
    /\ ran[c] => phase[c] = "sent"

\* A POST is retried only after a 429, so before its last attempt nothing was
\* carried out and nothing is under way.
Once(c) == Method[c] = "POST" =>
    /\ phase[c] \in {"ready", "waiting", "pausing"} => executed[c] + loose[c] = 0
    /\ phase[c] = "sent" => loose[c] = 0 /\ executed[c] = IF ran[c] THEN 1 ELSE 0
    /\ executed[c] + loose[c] <= 1
    /\ outcome[c] \in {"ok", "absent"} => executed[c] = 1
    /\ outcome[c] \in {"rejected", "blocked"} => executed[c] + loose[c] = 0

\* A DELETE that ran, or found nothing, left nothing behind.
Deleted(c) == Method[c] = "DELETE" =>
    /\ ran[c] => gone[c] # "no"
    /\ outcome[c] \in {"ok", "absent"} => gone[c] # "no"

IInv == TypeOK /\ WaitingIsQueued
        /\ \A c \in Caller : Attempts(c) /\ Settled(c) /\ Once(c) /\ Deleted(c)

\* Only a caller that waits is sent.
LEMMA SendWaits ==
    ASSUME IInv, NEW c \in Caller, Send(c) PROVE phase[c] = "waiting"
<1>1. chain \in Seq(Caller) /\ chain # <<>> /\ c = Head(chain)
    BY DEF Send, IInv, TypeOK, LimiterTypeOK
<1>2. 1 \in 1 .. Len(chain) /\ chain[1] = c
    BY <1>1
<1> QED
    BY <1>2 DEF IInv, WaitingIsQueued, Waiting

LEMMA ClientStep == IInv /\ [Next]_vars => IInv'
<1> SUFFICES ASSUME IInv, [Next]_vars PROVE IInv'
    OBVIOUS
<1>1. TypeOK' /\ WaitingIsQueued'
    BY ClientTypeStep, QueueStep DEF IInv
<1> DEFINE J == \A c \in Caller : Attempts(c) /\ Settled(c) /\ Once(c) /\ Deleted(c)
<1> USE <1>1, ClientAssumption DEF IInv, TypeOK, Phases, Outcomes, Attempts, Settled,
        Once, Deleted, Settle, Retry, Abandon, Effect, Carried, Counted, clientVars
<1>2. ASSUME NEW c \in Caller, Refuse(c) PROVE J'
    BY <1>2 DEF Refuse
<1>3. ASSUME NEW c \in Caller, AskLimiter(c) PROVE J'
    BY <1>3 DEF AskLimiter
<1>4. ASSUME NEW c \in Caller, Send(c) PROVE J'
    <2>1. phase[c] = "waiting"
        BY <1>4, SendWaits
    <2> QED
        BY <1>4, <2>1 DEF Send
<1>5. ASSUME NEW c \in Caller, RetryThrottled(c) PROVE J'
    BY <1>5 DEF RetryThrottled
<1>6. ASSUME NEW c \in Caller, RetryUnclear(c) PROVE J'
    BY <1>6 DEF RetryUnclear, Idempotent
<1>7. ASSUME NEW c \in Caller, SettleServerError(c) PROVE J'
    BY <1>7 DEF SettleServerError
<1>8. ASSUME NEW c \in Caller, SettleNoAnswer(c) PROVE J'
    BY <1>8 DEF SettleNoAnswer
<1>9. ASSUME NEW c \in Caller, SettleRejected(c) PROVE J'
    BY <1>9 DEF SettleRejected, RejectionsOf
<1>10. ASSUME NEW c \in Caller, NEW o \in {"ok", "network"}, SettleAnswered(c, o)
       PROVE  J'
    BY <1>10 DEF SettleAnswered
<1>11. ASSUME NEW c \in Caller, LexwareExecutes(c) PROVE J'
    BY <1>11 DEF LexwareExecutes
<1>12. ASSUME NEW c \in Caller, LooseAttemptEnds(c) PROVE J'
    BY <1>12 DEF LooseAttemptEnds
<1>13. ASSUME NEW c \in Caller, SomeoneDeletes(c) PROVE J'
    BY <1>13 DEF SomeoneDeletes
<1>14. CASE UNCHANGED clientVars
    BY <1>14
<1>15. J'
    BY <1>2, <1>3, <1>4, <1>5, <1>6, <1>7, <1>8, <1>9, <1>10, <1>11, <1>12,
       <1>13, <1>14 DEF Next, vars, Answered, LimiterStep
<1> QED
    BY <1>1, <1>15

THEOREM ClientInductive == Spec => []IInv
<1>1. Init => IInv
    <2>1. Init => TypeOK
        BY RateAssumption, FullHoldsOne, ClientAssumption
           DEF Init, TypeOK, LimiterInit, LimiterTypeOK, Phases, Outcomes
    <2> QED
        BY <2>1, ClientAssumption DEF Init, LimiterInit, IInv, WaitingIsQueued, Waiting, Attempts, Settled, Once, Deleted
<1> QED
    BY <1>1, ClientStep, PTL DEF Spec

\* A POST is carried out at most once, late arrivals included.
THEOREM PostOnce == Spec => []PostAtMostOnce
<1>1. IInv => PostAtMostOnce
    BY DEF IInv, Once, PostAtMostOnce
<1> QED
    BY <1>1, ClientInductive, PTL

\* "ok" means carried out; a definite error of a POST means not carried out.
THEOREM HonestOutcomes == Spec => []SettledHonestly
<1>1. IInv => SettledHonestly
    BY DEF IInv, Settled, Once, SettledHonestly
<1> QED
    BY <1>1, ClientInductive, PTL

\* A DELETE that reports success left no object behind.
THEOREM DeletesDelete == Spec => []DeletedIsGone
<1>1. IInv => DeletedIsGone
    BY DEF IInv, Deleted, DeletedIsGone
<1> QED
    BY <1>1, ClientInductive, PTL

\* No call is sent more often than the retry limit allows.
THEOREM BoundedAttempts == Spec => []AttemptsBounded
<1>1. IInv => AttemptsBounded
    BY ClientAssumption DEF IInv, TypeOK, Attempts, AttemptsBounded
<1> QED
    BY <1>1, ClientInductive, PTL

-----------------------------------------------------------------------------
(* The promise *)

\* A step of the promise concerns one write and leaves the others alone.
LEMMA OneWrite ==
    ASSUME NEW w \in Write,
           \A d \in Write \ {w} : UNCHANGED <<EffectOf(d), ToldOf(d)>>,
           \/ UNCHANGED <<EffectOf(w), ToldOf(w)>>
           \/ /\ EffectOf(w) = 0 /\ EffectOf(w)' = 1
              /\ ToldOf(w) # "refused" /\ UNCHANGED ToldOf(w)
           \/ /\ ToldOf(w) = "open" /\ UNCHANGED EffectOf(w)
              /\ ToldOf(w)' \in {"done", "refused", "unclear"}
              /\ ToldOf(w)' = "done" => EffectOf(w) = 1
              /\ ToldOf(w)' = "refused" => EffectOf(w) = 0
    PROVE  [Promise!WriteNext]_(Promise!writeVars)
<1>1. CASE UNCHANGED <<EffectOf(w), ToldOf(w)>>
    <2>1. \A d \in Write : EffectOf(d)' = EffectOf(d) /\ ToldOf(d)' = ToldOf(d)
        BY <1>1
    <2> QED
        BY <2>1 DEF effect, told, Write, Promise!writeVars
<1>2. CASE /\ EffectOf(w) = 0 /\ EffectOf(w)' = 1
           /\ ToldOf(w) # "refused" /\ UNCHANGED ToldOf(w)
    <2>1. told' = told
        <3>1. \A d \in Write : ToldOf(d)' = ToldOf(d)
            BY <1>2
        <3> QED
            BY <3>1 DEF told, Write
    <2>2. effect' = [effect EXCEPT ![w] = 1]
        BY <1>2 DEF effect, Write
    <2>3. effect[w] = 0 /\ told[w] # "refused"
        BY <1>2 DEF effect, told
    <2> QED
        BY <2>1, <2>2, <2>3 DEF Promise!WriteNext, Promise!Happen
<1>3. CASE /\ ToldOf(w) = "open" /\ UNCHANGED EffectOf(w)
           /\ ToldOf(w)' \in {"done", "refused", "unclear"}
           /\ ToldOf(w)' = "done" => EffectOf(w) = 1
           /\ ToldOf(w)' = "refused" => EffectOf(w) = 0
    <2>1. effect' = effect
        <3>1. \A d \in Write : EffectOf(d)' = EffectOf(d)
            BY <1>3
        <3> QED
            BY <3>1 DEF effect, Write
    <2>2. told' = [told EXCEPT ![w] = ToldOf(w)']
        BY DEF told, Write
    <2>3. told[w] = ToldOf(w) /\ effect[w] = EffectOf(w)
        BY DEF effect, told
    <2> QED
        BY <1>3, <2>1, <2>2, <2>3 DEF Promise!WriteNext, Promise!Tell
<1> QED
    BY <1>1, <1>2, <1>3

LEMMA PromiseStep == IInv /\ [Next]_vars => [Promise!WriteNext]_(Promise!writeVars)
<1> SUFFICES ASSUME IInv, [Next]_vars PROVE [Promise!WriteNext]_(Promise!writeVars)
    OBVIOUS
<1> DEFINE P == [Promise!WriteNext]_(Promise!writeVars)
           Same(d) == UNCHANGED <<EffectOf(d), ToldOf(d)>>
<1>1. ASSUME \A d \in Write : Same(d) PROVE P
    <2>1. \A d \in Write : EffectOf(d)' = EffectOf(d) /\ ToldOf(d)' = ToldOf(d)
        BY <1>1
    <2> QED
        BY <2>1 DEF effect, told, Write, Promise!writeVars
<1>2. ASSUME NEW c \in Caller, Refuse(c) \/ Answered(c), c \notin Write PROVE P
    BY <1>1, <1>2 DEF Refuse, Answered, RetryThrottled, RetryUnclear, SettleServerError,
        SettleNoAnswer, SettleRejected, SettleAnswered, Retry, Settle, Write, EffectOf,
        ToldOf, IInv, TypeOK
<1>3. ASSUME NEW c \in Write, Refuse(c) \/ Answered(c) PROVE P
    <2> USE <1>3, ClientAssumption DEF Write, EffectOf, ToldOf, IInv, TypeOK, Settled, Once,
            Deleted
    <2>1. \A d \in Write \ {c} : Same(d)
        BY DEF Refuse, Answered, RetryThrottled, RetryUnclear, SettleServerError,
            SettleNoAnswer, SettleRejected, SettleAnswered, Retry, Settle
    <2>2. CASE Refuse(c)
        BY <2>1, <2>2, OneWrite DEF Refuse, Settle
    <2>3. CASE RetryThrottled(c) \/ RetryUnclear(c)
        BY <2>1, <2>3, OneWrite DEF RetryThrottled, RetryUnclear, Retry
    <2>4. CASE SettleServerError(c) \/ SettleNoAnswer(c)
        BY <2>1, <2>4, OneWrite DEF SettleServerError, SettleNoAnswer, Settle
    <2>5. CASE SettleRejected(c)
        BY <2>1, <2>5, OneWrite DEF SettleRejected, RejectionsOf, Settle
    <2>6. CASE SettleAnswered(c, "ok") \/ SettleAnswered(c, "network")
        BY <2>1, <2>6, OneWrite DEF SettleAnswered, Settle
    <2> QED
        BY <2>2, <2>3, <2>4, <2>5, <2>6 DEF Answered
<1>4. ASSUME NEW c \in Caller, AskLimiter(c) \/ Send(c) PROVE P
    BY <1>1, <1>4 DEF AskLimiter, Send, EffectOf, ToldOf
<1>5. ASSUME NEW c \in Caller, LexwareExecutes(c) \/ LooseAttemptEnds(c) \/ SomeoneDeletes(c)
      PROVE  P
    <2> USE <1>5, ClientAssumption DEF Write, EffectOf, ToldOf, IInv, TypeOK, Settled, Once,
            Deleted, LexwareExecutes, LooseAttemptEnds, SomeoneDeletes, Effect, Carried
    <2>1. \A d \in Write \ {c} : Same(d)
        OBVIOUS
    <2>2. CASE Method[c] = "GET"
        BY <1>1, <2>1, <2>2
    <2>3. CASE Method[c] = "POST"
        BY <2>1, <2>3, OneWrite
    <2>4. CASE Method[c] = "DELETE"
        BY <2>1, <2>4, OneWrite
    <2> QED
        BY <2>2, <2>3, <2>4
<1>6. CASE UNCHANGED clientVars
    BY <1>1, <1>6 DEF clientVars, EffectOf, ToldOf
<1> QED
    BY <1>2, <1>3, <1>4, <1>5, <1>6 DEF Next, vars, LimiterStep

\* The client keeps what WriteCall promises, for every write.
THEOREM ClientKeepsPromise == Spec => ImplementsWriteCall
<1>1. Init => Promise!WriteInit
    BY ClientAssumption
       DEF Init, Promise!WriteInit, effect, told, EffectOf, ToldOf, Write
<1> QED
    BY <1>1, PromiseStep, ClientInductive, PTL DEF Spec, ImplementsWriteCall, Promise!WriteSpec

-----------------------------------------------------------------------------
(* The tools *)

First(t) == Calls[t][1]

LEMMA CallTypes ==
    ASSUME NEW t \in Tool
    PROVE  /\ 1 \in DOMAIN Calls[t] /\ First(t) \in Caller
           /\ DOMAIN Calls[t] = 1 .. Len(Calls[t]) /\ Len(Calls[t]) \in Nat
           /\ \A i \in DOMAIN Calls[t] : Calls[t][i] \in Caller
<1>1. Calls[t] \in Seq(Caller) /\ Calls[t] # <<>>
    BY ToolAssumption
<1>2. Len(Calls[t]) \in Nat /\ DOMAIN Calls[t] = 1 .. Len(Calls[t]) /\ Len(Calls[t]) # 0
    BY <1>1
<1>3. 1 \in DOMAIN Calls[t]
    BY <1>2
<1>4. \A i \in DOMAIN Calls[t] : Calls[t][i] \in Caller
    BY <1>1, <1>2
<1> QED
    BY <1>2, <1>3, <1>4 DEF First

\* Whatever the tools do, their calls are calls of the client.
LEMMA ClientInside == [ToolNext]_allVars => [Next]_vars
<1> SUFFICES ASSUME ToolNext PROVE Next \/ UNCHANGED vars
    BY DEF allVars
<1>1. ASSUME NEW t \in Tool, StartCall(t) PROVE Next
    <2>1. PICK i \in DOMAIN Calls[t] : Refuse(Calls[t][i]) \/ AskLimiter(Calls[t][i])
        BY <1>1 DEF StartCall
    <2> QED
        BY <2>1, CallTypes DEF Next
<1>2. ASSUME NEW c \in Caller, CallGoesOn(c) PROVE Next
    BY <1>2 DEF CallGoesOn, Next
<1>3. ASSUME Environment PROVE Next
    BY <1>3 DEF Environment, Next
<1> QED
    BY <1>1, <1>2, <1>3 DEF ToolNext, Invoke, InvokeCreate, Finish, Throw

\* So what is proved of the client holds when tools use it.
THEOREM ToolsUseClient == ToolSpec => Spec
<1>1. ToolInit => Init
    BY DEF ToolInit
<1> QED
    BY <1>1, ClientInside, PTL DEF ToolSpec, Spec

\* What a create tool asked for before it sent anything.
Asked(t) ==
    /\ kind[t] \in KindsOf.POST => Method[First(t)] = "POST"
    /\ kind[t] = "create-finalized" => wanted[t] = "binding"
    /\ kind[t] = "create-draft" =>
          wanted[t] = "draft" \/ (answer[t] = "error" /\ phase[First(t)] = "ready")

\* What it said afterwards.
Answers(t) ==
    /\ kind[t] = "idle" => answer[t] = "none"
    /\ answer[t] = "draft" => kind[t] = "create-draft" /\ outcome[First(t)] = "ok"
    /\ answer[t] = "binding" => kind[t] = "create-finalized" /\ outcome[First(t)] = "ok"
    /\ kind[t] \in KindsOf.POST /\ answer[t] = "error" =>
          phase[First(t)] \in {"ready", "settled"}

\* A call starts when those before it have settled.
InOrder(t) ==
    /\ kind[t] = "idle" => \A i \in DOMAIN Calls[t] : phase[Calls[t][i]] = "ready"
    /\ \A i, j \in DOMAIN Calls[t] :
          i < j /\ phase[Calls[t][j]] # "ready" => phase[Calls[t][i]] = "settled"

ToolTypes == /\ kind \in [Tool -> Kinds \cup {"idle"}]
             /\ wanted \in [Tool -> {"nothing", "draft", "binding"}]
             /\ answer \in [Tool -> {"none", "done", "draft", "binding", "error"}]

ToolInv == ToolTypes /\ \A t \in Tool : Asked(t) /\ Answers(t) /\ InOrder(t)

\* Calls under way move on without disturbing the tools.
LEMMA OthersKept ==
    ASSUME IInv, ToolInv, UNCHANGED toolVars,
           \A c \in Caller :
              /\ phase[c] \in {"ready", "settled"} => UNCHANGED <<phase[c], outcome[c]>>
              /\ phase'[c] = "ready" => phase[c] = "ready"
    PROVE  ToolInv'
<1> USE CallTypes DEF toolVars
<1>1. ToolTypes'
    BY DEF ToolInv, ToolTypes
<1>2. ASSUME NEW t \in Tool PROVE Asked(t)'
    BY DEF ToolInv, Asked
<1>3. ASSUME NEW t \in Tool PROVE Answers(t)'
    BY DEF ToolInv, Answers, IInv, Settled
<1>4. ASSUME NEW t \in Tool PROVE InOrder(t)'
    BY DEF ToolInv, InOrder
<1> QED
    BY <1>1, <1>2, <1>3, <1>4 DEF ToolInv

LEMMA StartKeeps == ASSUME IInv, ToolInv, NEW t \in Tool, StartCall(t) PROVE ToolInv'
<1>1. PICK i \in DOMAIN Calls[t] :
          /\ phase[Calls[t][i]] = "ready" /\ TurnOf(t, i)
          /\ Refuse(Calls[t][i]) \/ AskLimiter(Calls[t][i])
    BY DEF StartCall
<1> DEFINE c == Calls[t][i]
<1>2. /\ c \in Caller /\ UNCHANGED <<kind, wanted, answer>>
      /\ kind[t] # "idle" /\ answer[t] = "none"
    BY CallTypes DEF StartCall, Running, toolVars
<1>3. /\ phase'[c] # "ready"
      /\ \A d \in Caller \ {c} : UNCHANGED <<phase[d], outcome[d]>>
    BY <1>1, <1>2 DEF Refuse, AskLimiter, Settle, IInv, TypeOK
<1>4. \A u \in Tool : \A j \in DOMAIN Calls[u] : Calls[u][j] = c => u = t /\ j = i
    BY ToolAssumption
<1> HIDE DEF c
<1>5. ToolTypes'
    BY <1>2 DEF ToolInv, ToolTypes
<1>6. ASSUME NEW u \in Tool, u # t PROVE (Asked(u) /\ Answers(u) /\ InOrder(u))'
    <2>1. \A j \in DOMAIN Calls[u] : UNCHANGED <<phase[Calls[u][j]], outcome[Calls[u][j]]>>
        BY <1>3, <1>4, <1>6, CallTypes
    <2>2. UNCHANGED <<phase[First(u)], outcome[First(u)]>>
        BY <2>1, CallTypes DEF First
    <2> QED
        BY <1>2, <2>1, <2>2 DEF ToolInv, Asked, Answers, InOrder
<1>7. Asked(t)' /\ Answers(t)'
    <2>1. Asked(t) /\ kind' = kind /\ wanted' = wanted /\ answer' = answer
        BY <1>2 DEF ToolInv
    <2>2. Asked(t)'
        BY <1>2, <2>1 DEF Asked
    <2>3. Answers(t)'
        BY <1>2, <2>1 DEF Answers
    <2> QED
        BY <2>2, <2>3
<1>8. InOrder(t)'
    <2> SUFFICES ASSUME NEW k \in DOMAIN Calls[t], NEW j \in DOMAIN Calls[t], k < j,
                        phase'[Calls[t][j]] # "ready"
                 PROVE  phase'[Calls[t][k]] = "settled"
        BY <1>2 DEF InOrder
    <2>1. CASE j = i
        <3>1. phase[Calls[t][k]] = "settled"
            BY <1>1, <2>1, CallTypes DEF TurnOf
        <3>2. Calls[t][k] # c
            BY <1>4, <2>1, CallTypes
        <3> QED
            BY <1>3, <3>1, <3>2, CallTypes
    <2>2. CASE j # i
        <3>1. phase[Calls[t][j]] # "ready"
            BY <1>3, <1>4, <2>2, CallTypes
        <3>2. phase[Calls[t][k]] = "settled"
            BY <3>1 DEF ToolInv, InOrder
        <3> QED
            BY <1>1, <1>3, <3>2, CallTypes DEF c
    <2> QED
        BY <2>1, <2>2
<1> QED
    BY <1>5, <1>6, <1>7, <1>8 DEF ToolInv

\* An answer is given once, and it fits.
LEMMA AnswerKeeps ==
    ASSUME ToolInv, NEW t \in Tool, NEW v \in {"done", "draft", "binding", "error"},
           Running(t), answer' = [answer EXCEPT ![t] = v], UNCHANGED <<vars, kind, wanted>>,
           v = "draft" => kind[t] = "create-draft" /\ outcome[First(t)] = "ok",
           v = "binding" => kind[t] = "create-finalized" /\ outcome[First(t)] = "ok",
           kind[t] \in KindsOf.POST => phase[First(t)] = "settled"
    PROVE  ToolInv'
<1> USE DEF ToolInv, vars, clientVars
<1>1. ToolTypes'
    BY DEF ToolTypes
<1>2. ASSUME NEW u \in Tool PROVE Asked(u)'
    BY DEF Asked, Running, ToolTypes
<1>3. ASSUME NEW u \in Tool PROVE Answers(u)'
    BY DEF Answers, Running, ToolTypes
<1>4. ASSUME NEW u \in Tool PROVE InOrder(u)'
    BY DEF InOrder
<1> QED
    BY <1>1, <1>2, <1>3, <1>4

LEMMA ToolStep == IInv /\ ToolInv /\ [ToolNext]_allVars => ToolInv'
<1> SUFFICES ASSUME IInv, ToolInv, [ToolNext]_allVars PROVE ToolInv'
    OBVIOUS
<1> USE CallTypes
<1>1. ASSUME NEW t \in Tool, NEW k \in Kinds, Invoke(t, k) PROVE ToolInv'
    BY <1>1 DEF Invoke, MayInvoke, ToolInv, ToolTypes, Asked, Answers, InOrder, vars, clientVars,
        KindsOf, Kinds
<1>2. ASSUME NEW t \in Tool, NEW k \in Kinds, NEW finalize \in Argument, NEW confirm \in Argument,
             InvokeCreate(t, k, finalize, confirm)
      PROVE  ToolInv'
    BY <1>2, ClientAssumption DEF InvokeCreate, MayInvoke, ToolInv, ToolTypes, Asked, Answers,
        InOrder, vars, clientVars, KindsOf, Kinds, Accepts, Wish, First
<1>3. ASSUME NEW t \in Tool, StartCall(t) PROVE ToolInv'
    BY <1>3, StartKeeps
<1>4. ASSUME NEW t \in Tool, Finish(t) PROVE ToolInv'
    <2>1. PICK v \in {"done", "draft", "binding", "error"} :
              /\ answer' = [answer EXCEPT ![t] = v]
              /\ v = "draft" => kind[t] = "create-draft"
              /\ v = "binding" => kind[t] = "create-finalized"
              /\ v \in {"draft", "binding"} =>
                    kind[t] \in KindsOf.POST /\ Outcome(t, Last(t)) = "ok"
        BY <1>4 DEF Finish, Created, KindsOf
    <2>2. kind[t] \in KindsOf.POST => Calls[t][Last(t)] = First(t)
        BY ToolAssumption DEF ToolInv, Asked, Last, First
    <2>3. Running(t) /\ phase[Calls[t][Last(t)]] = "settled" /\ UNCHANGED <<vars, kind, wanted>>
        BY <1>4 DEF Finish
    <2> QED
        BY <2>1, <2>2, <2>3, AnswerKeeps DEF Outcome
<1>5. ASSUME NEW t \in Tool, Throw(t) PROVE ToolInv'
    <2>1. PICK i \in DOMAIN Calls[t] :
              kind[t] # "get-voucher-file" => Outcome(t, i) \notin {"none", "ok", "absent"}
        BY <1>5 DEF Throw
    <2>2. kind[t] \in KindsOf.POST => phase[First(t)] = "settled"
        <3>1. kind[t] \in KindsOf.POST => Len(Calls[t]) = 1
            BY ToolAssumption DEF ToolInv, Asked, First
        <3> QED
            BY <2>1, <3>1 DEF Outcome, First, IInv, Settled, KindsOf, TypeOK, Outcomes
    <2>3. Running(t) /\ answer' = [answer EXCEPT ![t] = "error"] /\ UNCHANGED <<vars, kind, wanted>>
        BY <1>5 DEF Throw
    <2> QED
        BY <2>2, <2>3, AnswerKeeps
<1>6. ASSUME NEW c \in Caller, CallGoesOn(c) PROVE ToolInv'
    <2> USE <1>6 DEF CallGoesOn
    <2>1. phase[c] \notin {"ready", "settled"}
        BY SendWaits DEF Answered, RetryThrottled, RetryUnclear, SettleServerError,
            SettleNoAnswer, SettleRejected, SettleAnswered
    <2>2. /\ \A d \in Caller \ {c} : UNCHANGED <<phase[d], outcome[d]>>
          /\ phase'[c] # "ready"
        BY DEF Answered, RetryThrottled, RetryUnclear, SettleServerError, SettleNoAnswer,
            SettleRejected, SettleAnswered, Settle, Retry, Send, AskLimiter, IInv, TypeOK
    <2> QED
        BY <2>1, <2>2, OthersKept
<1>7. CASE Environment
    BY <1>7, OthersKept DEF Environment, LexwareExecutes, LooseAttemptEnds, SomeoneDeletes,
        LimiterStep, clientVars
<1>8. CASE UNCHANGED allVars
    BY <1>8, OthersKept DEF allVars, vars, clientVars
<1> QED
    BY <1>1, <1>2, <1>3, <1>4, <1>5, <1>6, <1>7, <1>8 DEF ToolNext

THEOREM ToolsInductive == ToolSpec => []ToolInv
<1>1. ToolInit => ToolInv
    BY CallTypes
       DEF ToolInit, Init, ToolInv, ToolTypes, Asked, Answers, InOrder, Kinds, KindsOf
<1> QED
    BY <1>1, ToolStep, ToolsUseClient, ClientInductive, PTL DEF ToolSpec

\* A create tool brings nothing into being its caller does not want, and says
\* what there is.
THEOREM CreatesAsTold == ToolSpec => []ToldWhatExists
<1>1. IInv /\ ToolInv => ToldWhatExists
    <2> SUFFICES ASSUME IInv, ToolInv, NEW t \in Tool, kind[t] \in KindsOf.POST
                 PROVE  /\ Document(t) \in {"nothing", wanted[t]}
                        /\ answer[t] \in {"draft", "binding"} => answer[t] = Document(t)
                        /\ answer[t] = "error"
                              /\ Outcome(t, 1) \in {"none", "rejected", "blocked"}
                              => Document(t) = "nothing"
        BY DEF ToldWhatExists
    <2>1. /\ Method[First(t)] = "POST" /\ Asked(t) /\ Answers(t) /\ First(t) \in Caller
          /\ Once(First(t)) /\ Settled(First(t))
        BY CallTypes DEF ToolInv, Asked, IInv
    <2>2. executed[First(t)] \in Nat /\ loose[First(t)] \in Nat
        BY <2>1 DEF IInv, TypeOK
    <2>3. phase[First(t)] = "ready" => executed[First(t)] = 0
        BY <2>1, <2>2 DEF Once
    <2>4. Document(t) \in {"nothing", wanted[t]}
        BY <2>1, <2>3 DEF Document, First, Asked, KindsOf
    <2>5. answer[t] \in {"draft", "binding"} => answer[t] = Document(t)
        BY <2>1 DEF Document, First, Answers, Once
    <2>6. ASSUME answer[t] = "error", Outcome(t, 1) \in {"none", "rejected", "blocked"}
          PROVE  executed[First(t)] = 0
        <3>1. CASE outcome[First(t)] = "none"
            BY <2>1, <2>3, <2>6, <3>1 DEF Answers, Settled
        <3>2. CASE outcome[First(t)] \in {"rejected", "blocked"}
            BY <2>1, <2>2, <3>2 DEF Once
        <3> QED
            BY <2>6, <3>1, <3>2 DEF Outcome, First
    <2> QED
        BY <2>4, <2>5, <2>6 DEF Document, First
<1> QED
    BY <1>1, ToolsInductive, ToolsUseClient, ClientInductive, PTL

\* A tool has one call in the chain at a time.
LEMMA OneEach ==
    ASSUME IInv, ToolInv, NEW c \in Caller, Waiting(c), NEW t \in Tool,
           NEW d \in Ahead(c) \cup {c}, NEW e \in Ahead(c) \cup {c}, {d, e} \subseteq CallsOf(t)
    PROVE  d = e
<1>1. d \in Caller /\ e \in Caller /\ Waiting(d) /\ Waiting(e)
    BY DEF Ahead, Waiting
<1>2. phase[d] = "waiting" /\ phase[e] = "waiting"
    BY <1>1 DEF IInv, WaitingIsQueued
<1>3. PICK i \in DOMAIN Calls[t], j \in DOMAIN Calls[t] : d = Calls[t][i] /\ e = Calls[t][j]
    BY DEF CallsOf
<1>4. ~(i < j) /\ ~(j < i)
    BY <1>2, <1>3 DEF ToolInv, InOrder
<1> QED
    BY <1>3, <1>4, CallTypes

\* The chain is served first come, first served.
LEMMA Ordered ==
    ASSUME IInv, [Next]_vars, NEW c \in Caller, Waiting(c), Waiting(c)'
    PROVE  Ahead(c)' \subseteq Ahead(c)
<1>1. chain \in Seq(Caller)
    BY DEF IInv, TypeOK, LimiterTypeOK
<1>2. CASE UNCHANGED chain
    BY <1>2 DEF Ahead
<1>3. ASSUME NEW d \in Caller, Acquire(d) PROVE Ahead(c)' \subseteq Ahead(c)
    <2>1. /\ d # c /\ Len(chain') = Len(chain) + 1 /\ Len(chain) \in Nat
          /\ \A i \in 1 .. Len(chain) : chain'[i] = chain[i]
          /\ chain'[Len(chain) + 1] = d
        BY <1>1, <1>3 DEF Acquire
    <2>2. ASSUME NEW e \in Caller, NEW i \in 1 .. Len(chain'), NEW j \in 1 .. Len(chain'),
                 i < j, chain'[i] = e, chain'[j] = c
          PROVE  e \in Ahead(c)
        <3>1. j # Len(chain) + 1
            BY <2>1, <2>2
        <3>2. i \in 1 .. Len(chain) /\ j \in 1 .. Len(chain) /\ chain[i] = e /\ chain[j] = c
            BY <2>1, <2>2, <3>1
        <3> QED
            BY <2>2, <3>2 DEF Ahead
    <2> QED
        BY <2>2 DEF Ahead
<1>4. ASSUME Grant PROVE Ahead(c)' \subseteq Ahead(c)
    <2>1. /\ Len(chain) \in Nat /\ Len(chain) >= 1 /\ Len(chain') = Len(chain) - 1
          /\ \A i \in 1 .. Len(chain') : chain'[i] = chain[i + 1]
        BY <1>1, <1>4 DEF Grant
    <2>2. ASSUME NEW e \in Caller, NEW i \in 1 .. Len(chain'), NEW j \in 1 .. Len(chain'),
                 i < j, chain'[i] = e, chain'[j] = c
          PROVE  e \in Ahead(c)
        <3>1. /\ i + 1 \in 1 .. Len(chain) /\ j + 1 \in 1 .. Len(chain) /\ i + 1 < j + 1
              /\ chain[i + 1] = e /\ chain[j + 1] = c
            BY <2>1, <2>2
        <3> QED
            BY <3>1 DEF Ahead
    <2> QED
        BY <2>2 DEF Ahead
<1> QED
    BY <1>2, <1>3, <1>4, LimiterInside
       DEF LimiterNext, limiterVars, SleepForToken, Tick, SetClockBack, SetClockForward

\* A call waits for at most one call of each other tool, and is not overtaken.
THEOREM ToolsShareFairly == ToolSpec => FairShare
<1>1. IInv /\ ToolInv /\ [ToolNext]_allVars
        => [\A c \in Caller : Waiting(c) =>
              /\ \A t \in Tool : \A d, e \in Ahead(c) \cup {c} :
                    {d, e} \subseteq CallsOf(t) => d = e
              /\ Waiting(c)' => Ahead(c)' \subseteq Ahead(c)]_allVars
    BY OneEach, Ordered, ClientInside
<1> QED
    BY <1>1, ToolsInductive, ToolsUseClient, ClientInductive, PTL DEF ToolSpec, FairShare

=============================================================================
