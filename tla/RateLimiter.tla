---------------------------- MODULE RateLimiter ----------------------------
(***************************************************************************)
(* The token bucket of src/src/lexware/rate-limiter.ts.                    *)
(*                                                                         *)
(* Tokens are counted in milliseconds of refilling, so that one            *)
(* millisecond adds one unit and a call costs Cost = 1000 / refillPerSec   *)
(* units (500 in the program): `tokens < 1` reads tokens < Cost here, and  *)
(* the bucket holds Full = capacity * Cost.                                *)
(*                                                                         *)
(* now() is Date.now(), which the operating system may set back or         *)
(* forward; timers run on real time.  The clock and `lastRefill` only      *)
(* matter by their difference, kept in `lag`; it stops counting where no   *)
(* later step back can take it below Full.                                 *)
(*                                                                         *)
(* `level` is not a variable of the code: it is the bucket the header      *)
(* comment says Lexware keeps, refilled in real time.  A call is charged   *)
(* to it at the moment it is let through: the way to Lexware takes no      *)
(* time here, so calls that the network bunches together are left out.     *)
(***************************************************************************)
EXTENDS Integers, Sequences, FiniteSets

CONSTANTS Caller,    \* concurrent callers of acquire()
          Cost,      \* 1000 / refillPerSec
          Capacity,  \* capacity
          MaxShift   \* bound on how far the clock is set, altogether

ASSUME RateAssumption == /\ Cost \in Nat \ {0}
                         /\ Capacity \in Nat \ {0}
                         /\ MaxShift \in Nat

Full == Capacity * Cost

VARIABLES tokens,   \* tokens, in units
          lag,      \* now() - lastRefill, negative after the clock was set back
          chain,    \* callers whose reserve() hangs on `chain`, first to last
          sleep,    \* time left of the sleep() of the first one, 0 if awake
          shift,    \* how much of MaxShift is left
          level,    \* what Lexware's own bucket holds
          lead      \* by how much the clock was set forward since it was full

limiterVars == <<tokens, lag, chain, sleep, shift, level, lead>>

LimiterTypeOK ==
    /\ tokens \in 0 .. Full
    /\ lag \in shift - MaxShift .. Full + shift
    /\ chain \in Seq(Caller)
    /\ sleep \in 0 .. Cost
    /\ shift \in 0 .. MaxShift
    /\ level \in 0 .. Full
    /\ lead \in 0 .. MaxShift - shift

LimiterInit ==
    /\ tokens = Full
    /\ lag = 0
    /\ chain = <<>>
    /\ sleep = 0
    /\ shift = MaxShift
    /\ level = Full
    /\ lead = 0

Least(a, b) == IF a < b THEN a ELSE b

Waiting(c) == \E i \in 1 .. Len(chain) : chain[i] = c

\* Slips: the bucket overflows; lastRefill is moved before the elapsed time is
\* taken.
RefilledNoCap == IF lag > 0 THEN tokens + lag ELSE tokens
RefilledTooLate == tokens

\* refill(): tokens and lag as the call leaves them.
Refilled == IF lag > 0 THEN Least(Full, tokens + lag) ELSE tokens
LagAfter == IF lag > 0 THEN 0 ELSE lag

\* acquire(): the caller's reserve() is appended to the promise chain.
Acquire(c) ==
    /\ ~Waiting(c)
    /\ chain' = Append(chain, c)
    /\ UNCHANGED <<tokens, lag, sleep, shift, level, lead>>

\* The first caller, on its turn or on waking up, refills and finds less than
\* a token: it sleeps until one should be there.
SleepForToken ==
    /\ chain # <<>> /\ sleep = 0
    /\ Refilled < Cost
    /\ tokens' = Refilled /\ lag' = LagAfter
    /\ sleep' = Cost - Refilled
    /\ UNCHANGED <<chain, shift, level, lead>>

\* The first caller finds a token and takes it; acquire() resolves and the
\* next reserve() starts.  The call reaches Lexware's bucket.
Grant ==
    /\ chain # <<>> /\ sleep = 0
    /\ Refilled >= Cost
    /\ tokens' = Refilled - Cost /\ lag' = LagAfter
    /\ chain' = Tail(chain)
    /\ level' = IF level >= Cost THEN level - Cost ELSE 0
    /\ UNCHANGED <<sleep, shift, lead>>

\* One millisecond.
Tick ==
    /\ lag' = Least(Full + shift, lag + 1)
    /\ sleep' = IF sleep > 0 THEN sleep - 1 ELSE 0
    /\ level' = Least(Full, level + 1)
    /\ lead' = IF level' = Full THEN 0 ELSE lead
    /\ UNCHANGED <<tokens, chain, shift>>

\* The operating system sets the clock back.
SetClockBack(k) ==
    /\ shift' = shift - k
    /\ lag' = lag - k
    /\ UNCHANGED <<tokens, chain, sleep, level, lead>>

\* It sets the clock forward: the next refill() takes that for time passed.
SetClockForward(k) ==
    /\ shift' = shift - k
    /\ lag' = Least(Full + shift', lag + k)
    /\ lead' = IF level = Full THEN lead ELSE lead + k
    /\ UNCHANGED <<tokens, chain, sleep, level>>

LimiterNext ==
    \/ \E c \in Caller : Acquire(c)
    \/ SleepForToken
    \/ Grant
    \/ Tick
    \/ \E k \in 1 .. shift : SetClockBack(k)
    \/ \E k \in 1 .. shift : SetClockForward(k)

LimiterSpec == LimiterInit /\ [][LimiterNext]_limiterVars

-----------------------------------------------------------------------------
(* Properties *)

\* What the limiter could hand out at this moment exceeds what Lexware's bucket
\* holds by no more than the clock was set forward since that bucket was full:
\* set-back clocks, long idle times and earlier steps leave nothing behind.
NeverAhead == Refilled <= level + lead

\* So while the clock is not set forward no call is sent that Lexware's bucket
\* has no token for, and what is missing is never more than that step.
NeverThrottled == [][Grant => level + lead >= Cost]_limiterVars

\* A sleeper finds its token when it wakes up, unless the clock was set back:
\* no wait is too short, so nobody goes round the loop for nothing.
NoWastedSleep == sleep > 0 /\ shift = MaxShift => Refilled + sleep >= Cost

=============================================================================
