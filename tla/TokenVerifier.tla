--------------------------- MODULE TokenVerifier ---------------------------
(***************************************************************************)
(* The email-domain check of verifyAccessToken() and its cache of userinfo *)
(* answers: src/src/oauth.ts.  Calls run at the same time; a call that     *)
(* finds nothing in the cache waits for the identity provider, which may   *)
(* answer another call differently meanwhile.                              *)
(*                                                                         *)
(* An email is "inside" or "outside" the allowed domains; "none" is no     *)
(* email, or one that is not verified.                                     *)
(***************************************************************************)
EXTENDS Integers, FiniteSets

CONSTANTS Call,        \* slots for calls of verifyAccessToken()
          Token,       \* tokens with a valid signature
          Claim,       \* the verified email claim of each token
          Exp,         \* the exp claim of each token, 0 if it has none
          MaxEntries,  \* MAX_EMAIL_CACHE_ENTRIES
          Grace,       \* how long an email is kept for a token without exp
          Timeout,     \* USERINFO_TIMEOUT_MS
          MaxNow       \* bound on the clock

Email == {"inside", "outside"}
Said == Email \cup {"none"}

ASSUME VerifierAssumption ==
    /\ Claim \in [Token -> Said]
    /\ Exp \in [Token -> Nat]
    /\ MaxEntries \in Nat \ {0}
    /\ Timeout \in Nat /\ Grace \in Nat /\ Timeout < Grace

VARIABLES now,      \* Date.now(), in seconds
          cache,    \* emailCache
          phase,    \* where a call stands
          token,    \* its token
          nowSec,   \* the time it read before its lookup, 0 if none is under way
          answer,   \* the email it goes by
          word      \* when the provider last named each email for a token

vars == <<now, cache, phase, token, nowSec, answer, word>>

Never == -1
HasExp(t) == Exp[t] # 0
Entry == [token : Token, email : Email, exp : Nat]

TypeOK ==
    /\ now \in Nat
    /\ cache \subseteq Entry /\ IsFiniteSet(cache)
    /\ phase \in [Call -> {"free", "asking", "told", "admitted", "denied"}]
    /\ token \in [Call -> Token]
    /\ nowSec \in [Call -> Nat]
    /\ answer \in [Call -> Said]
    /\ word \in [Token -> [Email -> Nat \cup {Never}]]

Init ==
    /\ now = 1
    /\ cache = {}
    /\ phase = [c \in Call |-> "free"]
    /\ token \in [Call -> Token]
    /\ nowSec = [c \in Call |-> 0]
    /\ answer = [c \in Call |-> "none"]
    /\ word = [t \in Token |-> [s \in Email |-> Never]]

Pending(c) == phase[c] \in {"asking", "told"}

-----------------------------------------------------------------------------
(* The cache *)

\* Slip: after expired entries are gone, a cache that is still full is used.
RoomAfterExpiry(n) == {e \in cache : e.exp > n}

\* A full cache loses its expired entries and, if it is still full, all.
Room(n) ==
    IF Cardinality(cache) < MaxEntries THEN cache
    ELSE LET live == {e \in cache : e.exp > n}
         IN IF Cardinality(live) < MaxEntries THEN live ELSE {}

\* Slip: the time is read again after the lookup.
KeptFromNow(t, n) == IF HasExp(t) THEN Exp[t] ELSE now + Grace

KeptUntil(t, n) == IF HasExp(t) THEN Exp[t] ELSE n + Grace

\* Slip: a lookup that found no email is cached, too.
RememberAll(t, s, n) ==
    cache' = {e \in Room(n) : e.token # t}
                 \cup {[token |-> t, email |-> s, exp |-> KeptUntil(t, n)]}

\* Only an email is cached; Map.set() replaces an entry of the same key.
Remember(t, s, n) ==
    cache' = IF s = "none" THEN cache
             ELSE {e \in Room(n) : e.token # t}
                      \cup {[token |-> t, email |-> s, exp |-> KeptUntil(t, n)]}

-----------------------------------------------------------------------------
(* One call: what happens before the await, and after it *)

\* jwtVerify() refuses a token that has expired.
Verified(t) == HasExp(t) => now < Exp[t]

Hit(t) == {e \in cache : e.token = t /\ e.exp > now}

\* The call ends; what it knew is forgotten.
Decide(c, s) ==
    /\ answer' = [answer EXCEPT ![c] = s]
    /\ phase' = [phase EXCEPT ![c] = IF s = "inside" THEN "admitted" ELSE "denied"]
    /\ nowSec' = [nowSec EXCEPT ![c] = 0]

Begin(c, t) == /\ ~Pending(c)
               /\ Verified(t)
               /\ token' = [token EXCEPT ![c] = t]

\* The token itself carries a verified email.
UseClaim(c, t) ==
    /\ Begin(c, t)
    /\ Claim[t] # "none"
    /\ Decide(c, Claim[t])
    /\ UNCHANGED <<now, cache, word>>

UseCache(c, t) ==
    /\ Begin(c, t)
    /\ Claim[t] = "none"
    /\ \E e \in Hit(t) : Decide(c, e.email)
    /\ UNCHANGED <<now, cache, word>>

AskUserinfo(c, t) ==
    /\ Begin(c, t)
    /\ Claim[t] = "none"
    /\ Hit(t) = {}
    /\ phase' = [phase EXCEPT ![c] = "asking"]
    /\ nowSec' = [nowSec EXCEPT ![c] = now]
    /\ UNCHANGED <<now, cache, answer, word>>

\* The answer of the provider arrives.
UseAnswer(c) ==
    /\ phase[c] = "told"
    /\ Remember(token[c], answer[c], nowSec[c])
    /\ Decide(c, answer[c])
    /\ UNCHANGED <<now, token, word>>

\* No answer in time, an error, or an answer that is no JSON.
LookupFails(c) ==
    /\ Pending(c)
    /\ Remember(token[c], "none", nowSec[c])
    /\ Decide(c, "none")
    /\ UNCHANGED <<now, token, word>>

-----------------------------------------------------------------------------
(* The environment *)

\* An address may be changed, verified or lose its verification at any time,
\* so that two answers about one token have nothing to do with each other.
ProviderAnswers(c, s) ==
    /\ phase[c] = "asking"
    /\ phase' = [phase EXCEPT ![c] = "told"]
    /\ answer' = [answer EXCEPT ![c] = s]
    /\ word' = IF s = "none" THEN word
               ELSE [word EXCEPT ![token[c]] = [@ EXCEPT ![s] = now]]
    /\ UNCHANGED <<now, cache, token, nowSec>>

\* AbortSignal.timeout() ends a lookup in time.
Tick ==
    /\ now < MaxNow
    /\ \A c \in Call : Pending(c) => now < nowSec[c] + Timeout
    /\ now' = now + 1
    /\ UNCHANGED <<cache, phase, token, nowSec, answer, word>>

-----------------------------------------------------------------------------
Next ==
    \/ \E c \in Call :
          \/ \E t \in Token : UseClaim(c, t) \/ UseCache(c, t) \/ AskUserinfo(c, t)
          \/ \E s \in Said : ProviderAnswers(c, s)
          \/ UseAnswer(c) \/ LookupFails(c)
    \/ Tick

Spec == Init /\ [][Next]_vars

-----------------------------------------------------------------------------
(* Properties *)

\* The provider gave this answer lately: within the Grace period, or while
\* the token was valid.
Recent(t, s) ==
    /\ word[t][s] # Never
    /\ IF HasExp(t) THEN now < Exp[t] + Timeout ELSE now < word[t][s] + Grace

\* Nobody is admitted on an email the provider has not confirmed lately,
\* however lookups overlap, arrive late and overwrite each other's entries.
AdmittedOnRecentWord ==
    [][\A c \in Call :
          phase[c] # "admitted" /\ phase'[c] = "admitted" =>
              LET t == token'[c] IN Claim[t] = "inside" \/ Recent(t, "inside")]_vars

\* Nobody is turned away on old news either: a failed lookup concerns the
\* call that made it, and never a later one.
DeniedOnRecentWord ==
    [][\A c \in Call :
          phase[c] # "denied" /\ phase'[c] = "denied" =>
              LET t == token'[c]
              IN \/ Claim[t] = "outside" \/ Recent(t, "outside")
                 \/ Pending(c) /\ answer'[c] = "none"]_vars

\* The cache stays within its limit and holds one entry per token.
CacheBounded ==
    /\ Cardinality(cache) <= MaxEntries
    /\ \A e, f \in cache : e.token = f.token => e = f

-----------------------------------------------------------------------------
(* The inductive invariant *)

\* An entry is never kept longer than the answer it stems from allows.
EntriesVouched ==
    \A e \in cache :
        /\ word[e.token][e.email] # Never
        /\ IF HasExp(e.token) THEN e.exp = Exp[e.token]
           ELSE e.exp <= word[e.token][e.email] + Grace

\* A lookup is under way for no longer than its timeout, and the answer it
\* got was given while it was.
LookupsTimely ==
    \A c \in Call : Pending(c) =>
        /\ nowSec[c] <= now /\ now <= nowSec[c] + Timeout
        /\ HasExp(token[c]) => nowSec[c] < Exp[token[c]]
        /\ phase[c] = "told" /\ answer[c] # "none" =>
                                /\ word[token[c]][answer[c]] # Never
                                /\ word[token[c]][answer[c]] >= nowSec[c]

\* No answer was given later than now.
WordsGiven == \A t \in Token, s \in Email : word[t][s] <= now

IInv == TypeOK /\ WordsGiven /\ CacheBounded /\ EntriesVouched /\ LookupsTimely

=============================================================================
