---------------------------- MODULE TokenProofs ----------------------------
(***************************************************************************)
(* Proofs about TokenVerifier: for any number of calls and tokens and any  *)
(* cache size, the cache stays bounded and verdicts rest on recent word.   *)
(***************************************************************************)
EXTENDS TokenVerifier, FiniteSetTheorems, TLAPS

\* There is room for one more entry after eviction.
LEMMA RoomBounded ==
    ASSUME TypeOK, CacheBounded, NEW n \in Nat
    PROVE  /\ Room(n) \subseteq cache
           /\ IsFiniteSet(Room(n))
           /\ Cardinality(Room(n)) \in Nat
           /\ Cardinality(Room(n)) < MaxEntries
<1> DEFINE live == {e \in cache : e.exp > n}
<1>1. IsFiniteSet(cache) /\ Cardinality(cache) \in Nat
  BY FS_CardinalityType DEF TypeOK
<1>2. IsFiniteSet(live) /\ Cardinality(live) \in Nat
  BY <1>1, FS_Subset, FS_CardinalityType
<1>3. IsFiniteSet({}) /\ Cardinality({}) = 0
  BY FS_EmptySet
<1>4. MaxEntries \in Nat \ {0}
  BY VerifierAssumption
<1>5. CASE Cardinality(cache) < MaxEntries
  BY <1>1, <1>5 DEF Room
<1>6. CASE ~(Cardinality(cache) < MaxEntries) /\ Cardinality(live) < MaxEntries
  BY <1>2, <1>6 DEF Room
<1>7. CASE ~(Cardinality(cache) < MaxEntries) /\ ~(Cardinality(live) < MaxEntries)
  BY <1>3, <1>4, <1>7 DEF Room
<1> QED BY <1>5, <1>6, <1>7

\* One more entry fits.
LEMMA OneMoreFits ==
    ASSUME NEW S, NEW x, IsFiniteSet(S), Cardinality(S) \in Nat,
           Cardinality(S) < MaxEntries
    PROVE  IsFiniteSet(S \cup {x}) /\ Cardinality(S \cup {x}) <= MaxEntries
<1>1. /\ IsFiniteSet(S \cup {x})
      /\ Cardinality(S \cup {x}) = IF x \in S THEN Cardinality(S) ELSE Cardinality(S) + 1
  BY FS_AddElement
<1> QED BY <1>1, VerifierAssumption

\* What a lookup leaves in the cache: old entries, and one that its answer
\* vouches for.
LEMMA Remembered ==
    ASSUME IInv, NEW t \in Token, NEW s \in Said, NEW n \in Nat, Remember(t, s, n)
    PROVE  /\ cache' \subseteq Entry /\ IsFiniteSet(cache')
           /\ CacheBounded'
           /\ \A e \in cache' : \/ e \in cache
                                \/ /\ s \in Email /\ e.token = t /\ e.email = s
                                   /\ e.exp = KeptUntil(t, n)
<1>1. CASE s = "none"
  BY <1>1 DEF Remember, IInv, TypeOK, CacheBounded
<1>2. CASE s # "none"
  <2> DEFINE new == [token |-> t, email |-> s, exp |-> KeptUntil(t, n)]
             old == {e \in Room(n) : e.token # t}
  <2>1. cache' = old \cup {new}
    BY <1>2 DEF Remember
  <2>2. /\ Room(n) \subseteq cache /\ IsFiniteSet(Room(n))
        /\ Cardinality(Room(n)) \in Nat /\ Cardinality(Room(n)) < MaxEntries
    BY RoomBounded DEF IInv
  <2>3. /\ old \subseteq cache /\ IsFiniteSet(old)
        /\ Cardinality(old) \in Nat /\ Cardinality(old) < MaxEntries
    BY <2>2, FS_Subset, FS_CardinalityType, VerifierAssumption
  <2>4. new \in Entry /\ s \in Email
    BY <1>2, VerifierAssumption DEF Entry, KeptUntil, Said, HasExp
  <2>5. cache \subseteq Entry
    BY DEF IInv, TypeOK
  <2>6. IsFiniteSet(cache') /\ Cardinality(cache') <= MaxEntries
    BY <2>1, <2>3, OneMoreFits
  <2>7. \A e, f \in cache' : e.token = f.token => e = f
    BY <2>1, <2>3 DEF IInv, CacheBounded
  <2>8. CacheBounded'
    BY <2>6, <2>7 DEF CacheBounded
  <2> QED BY <2>1, <2>3, <2>4, <2>5, <2>6, <2>8
<1> QED BY <1>1, <1>2

-----------------------------------------------------------------------------
(* The inductive invariant *)

LEMMA Initial == Init => IInv
<1> SUFFICES ASSUME Init PROVE IInv
  OBVIOUS
<1>1. IsFiniteSet(cache) /\ Cardinality(cache) = 0
  BY FS_EmptySet DEF Init
<1>2. TypeOK
  BY <1>1 DEF Init, TypeOK, Said, Never
<1>3. WordsGiven /\ CacheBounded
  BY <1>1, VerifierAssumption DEF Init, WordsGiven, CacheBounded, Never
<1>4. EntriesVouched /\ LookupsTimely
  BY DEF Init, EntriesVouched, LookupsTimely, Pending
<1> QED BY <1>2, <1>3, <1>4 DEF IInv

\* The end of a lookup, with or without an answer.
LEMMA LookupEnds ==
    ASSUME IInv, NEW c \in Call, NEW s \in Said, Pending(c),
           Remember(token[c], s, nowSec[c]), Decide(c, s),
           s \in Email => phase[c] = "told" /\ answer[c] = s,
           UNCHANGED <<now, token, word>>
    PROVE  IInv'
<1> USE VerifierAssumption
<1>1. token[c] \in Token /\ nowSec[c] \in Nat
  BY DEF IInv, TypeOK
<1>2. /\ cache' \subseteq Entry /\ IsFiniteSet(cache')
      /\ CacheBounded'
      /\ \A e \in cache' : \/ e \in cache
                           \/ /\ s \in Email /\ e.token = token[c] /\ e.email = s
                              /\ e.exp = KeptUntil(token[c], nowSec[c])
  BY <1>1, Remembered
<1>3. TypeOK'
  BY <1>2 DEF Decide, IInv, TypeOK
<1>4. EntriesVouched'
  <2> SUFFICES ASSUME NEW e \in cache'
               PROVE  /\ word[e.token][e.email] # Never
                      /\ IF HasExp(e.token) THEN e.exp = Exp[e.token]
                         ELSE e.exp <= word[e.token][e.email] + Grace
    BY DEF EntriesVouched, HasExp
  <2>1. CASE e \in cache
    BY <2>1 DEF IInv, EntriesVouched
  <2>2. CASE e \notin cache
    <3>1. /\ s \in Email /\ e.token = token[c] /\ e.email = s
          /\ e.exp = KeptUntil(token[c], nowSec[c])
      BY <1>2, <2>2
    <3>2. word[token[c]][s] # Never /\ word[token[c]][s] >= nowSec[c]
      BY <3>1 DEF IInv, LookupsTimely, Email
    <3>3. word[token[c]][s] \in Nat
      BY <1>1, <3>1, <3>2 DEF IInv, TypeOK
    <3> QED BY <1>1, <3>1, <3>2, <3>3 DEF KeptUntil, HasExp
  <2> QED BY <2>1, <2>2
<1>5. WordsGiven'
  BY DEF IInv, WordsGiven
<1>6. LookupsTimely'
  BY DEF Decide, IInv, TypeOK, LookupsTimely, Pending, HasExp
<1> QED BY <1>2, <1>3, <1>4, <1>5, <1>6 DEF IInv

\* A call that ends at once changes neither the cache nor any word.
LEMMA EndsAtOnce ==
    ASSUME IInv, NEW c \in Call, NEW t \in Token, NEW s \in Said,
           Begin(c, t), Decide(c, s), UNCHANGED <<now, cache, word>>
    PROVE  IInv'
<1>1. TypeOK'
  BY DEF Begin, Decide, IInv, TypeOK
<1>2. WordsGiven' /\ CacheBounded' /\ EntriesVouched'
  BY DEF IInv, WordsGiven, CacheBounded, EntriesVouched, HasExp
<1>3. LookupsTimely'
  BY DEF Begin, Decide, IInv, TypeOK, LookupsTimely, Pending, HasExp
<1> QED BY <1>1, <1>2, <1>3 DEF IInv

LEMMA Preserved == IInv /\ [Next]_vars => IInv'
<1> SUFFICES ASSUME IInv, [Next]_vars PROVE IInv'
  OBVIOUS
<1> USE VerifierAssumption
<1>1. ASSUME NEW c \in Call, NEW t \in Token, UseClaim(c, t)
      PROVE  IInv'
  BY <1>1, EndsAtOnce DEF UseClaim
<1>2. ASSUME NEW c \in Call, NEW t \in Token, UseCache(c, t)
      PROVE  IInv'
  <2>1. PICK e \in Hit(t) : Decide(c, e.email)
    BY <1>2 DEF UseCache
  <2>2. e.email \in Said
    BY <2>1 DEF Hit, IInv, TypeOK, Entry, Said
  <2> QED BY <1>2, <2>1, <2>2, EndsAtOnce DEF UseCache
<1>3. ASSUME NEW c \in Call, NEW t \in Token, AskUserinfo(c, t)
      PROVE  IInv'
  <2>1. TypeOK'
    BY <1>3 DEF AskUserinfo, Begin, IInv, TypeOK
  <2>2. WordsGiven' /\ CacheBounded' /\ EntriesVouched'
    BY <1>3 DEF AskUserinfo, IInv, WordsGiven, CacheBounded, EntriesVouched, HasExp
  <2>3. LookupsTimely'
    BY <1>3 DEF AskUserinfo, Begin, Verified, IInv, TypeOK, LookupsTimely,
                Pending, HasExp
  <2> QED BY <2>1, <2>2, <2>3 DEF IInv
<1>4. ASSUME NEW c \in Call, NEW s \in Said, ProviderAnswers(c, s)
      PROVE  IInv'
  <2>1. token[c] \in Token /\ now \in Nat
    BY DEF IInv, TypeOK
  <2>2. \A t \in Token, x \in Email :
           word'[t][x] = IF t = token[c] /\ x = s THEN now ELSE word[t][x]
    BY <1>4, <2>1 DEF ProviderAnswers, IInv, TypeOK, Email
  <2>3. TypeOK'
    <3>1. word' \in [Token -> [Email -> Nat \cup {Never}]]
      BY <1>4, <2>1 DEF ProviderAnswers, IInv, TypeOK, Said
    <3> QED BY <1>4, <3>1 DEF ProviderAnswers, IInv, TypeOK
  <2>4. WordsGiven' /\ CacheBounded'
    <3>1. WordsGiven'
      BY <1>4, <2>1, <2>2 DEF ProviderAnswers, IInv, WordsGiven
    <3>2. CacheBounded'
      BY <1>4 DEF ProviderAnswers, IInv, CacheBounded
    <3> QED BY <3>1, <3>2
  <2>5. \A t \in Token, x \in Email :
           word[t][x] # Never => word'[t][x] # Never /\ word[t][x] <= word'[t][x]
    BY <2>1, <2>2 DEF IInv, TypeOK, WordsGiven, Never
  <2>6. EntriesVouched'
    <3> SUFFICES ASSUME NEW e \in cache
                 PROVE  /\ word'[e.token][e.email] # Never
                        /\ IF HasExp(e.token) THEN e.exp = Exp[e.token]
                           ELSE e.exp <= word'[e.token][e.email] + Grace
      BY <1>4 DEF ProviderAnswers, EntriesVouched, HasExp
    <3>1. e.token \in Token /\ e.email \in Email /\ e.exp \in Nat
      BY DEF IInv, TypeOK, Entry
    <3>2. /\ word[e.token][e.email] \in Nat
          /\ word'[e.token][e.email] \in Nat
          /\ word[e.token][e.email] <= word'[e.token][e.email]
      BY <2>3, <2>5, <3>1 DEF IInv, TypeOK, EntriesVouched
    <3> QED BY <3>1, <3>2 DEF IInv, EntriesVouched, Never
  <2>7. LookupsTimely'
    <3> SUFFICES ASSUME NEW d \in Call, Pending(d)'
                 PROVE  /\ nowSec[d] <= now /\ now <= nowSec[d] + Timeout
                        /\ HasExp(token[d]) => nowSec[d] < Exp[token[d]]
                        /\ phase'[d] = "told" /\ answer'[d] # "none" =>
                              /\ word'[token[d]][answer'[d]] # Never
                              /\ word'[token[d]][answer'[d]] >= nowSec[d]
      BY <1>4 DEF ProviderAnswers, LookupsTimely, HasExp
    <3>1. Pending(d) /\ token[d] \in Token /\ nowSec[d] \in Nat
      BY <1>4 DEF ProviderAnswers, Pending, IInv, TypeOK
    <3>2. /\ nowSec[d] <= now /\ now <= nowSec[d] + Timeout
          /\ HasExp(token[d]) => nowSec[d] < Exp[token[d]]
      BY <3>1 DEF IInv, LookupsTimely
    <3>3. CASE d = c
      BY <1>4, <2>1, <2>2, <3>1, <3>2, <3>3
         DEF ProviderAnswers, IInv, TypeOK, Said, Never
    <3>4. CASE d # c
      <4>1. phase'[d] = phase[d] /\ answer'[d] = answer[d] /\ answer[d] \in Said
        BY <1>4, <3>4 DEF ProviderAnswers, IInv, TypeOK
      <4>2. ASSUME phase[d] = "told", answer[d] # "none"
            PROVE  /\ word'[token[d]][answer[d]] # Never
                   /\ word'[token[d]][answer[d]] >= nowSec[d]
        <5>1. answer[d] \in Email
          BY <4>1, <4>2 DEF Said
        <5>2. word[token[d]][answer[d]] # Never /\ word[token[d]][answer[d]] >= nowSec[d]
          BY <3>1, <4>2 DEF IInv, LookupsTimely
        <5> QED BY <2>3, <2>5, <3>1, <5>1, <5>2 DEF IInv, TypeOK
      <4> QED BY <3>2, <4>1, <4>2
    <3> QED BY <3>2, <3>3, <3>4
  <2> QED BY <2>3, <2>4, <2>6, <2>7 DEF IInv
<1>5. ASSUME NEW c \in Call, UseAnswer(c)
      PROVE  IInv'
  <2>1. answer[c] \in Said /\ Pending(c)
    BY <1>5 DEF UseAnswer, Pending, IInv, TypeOK
  <2> QED BY <1>5, <2>1, LookupEnds DEF UseAnswer
<1>6. ASSUME NEW c \in Call, LookupFails(c)
      PROVE  IInv'
  <2>1. "none" \in Said /\ "none" \notin Email
    BY DEF Said, Email
  <2> QED BY <1>6, <2>1, LookupEnds DEF LookupFails
<1>7. ASSUME Tick
      PROVE  IInv'
  <2>1. TypeOK'
    BY <1>7 DEF Tick, IInv, TypeOK
  <2>2. WordsGiven' /\ CacheBounded' /\ EntriesVouched'
    BY <1>7 DEF Tick, IInv, TypeOK, WordsGiven, Never, CacheBounded, EntriesVouched, HasExp
  <2>3. LookupsTimely'
    BY <1>7 DEF Tick, IInv, TypeOK, LookupsTimely, Pending, HasExp
  <2> QED BY <2>1, <2>2, <2>3 DEF IInv
<1>8. CASE UNCHANGED vars
  BY <1>8 DEF vars, IInv, TypeOK, WordsGiven, CacheBounded, EntriesVouched, LookupsTimely,
              Pending, HasExp
<1> QED BY <1>1, <1>2, <1>3, <1>4, <1>5, <1>6, <1>7, <1>8 DEF Next

\* The cache is bounded, its entries are vouched for and lookups are timely,
\* for every number of tokens and calls and every size of the cache.
THEOREM VerifierInductive == Spec => []IInv
BY Initial, Preserved, PTL DEF Spec

\* The cache never outgrows its limit, although lookups end in any order.
THEOREM CacheStaysBounded == Spec => []CacheBounded
<1>1. IInv => CacheBounded
  BY DEF IInv
<1> QED BY <1>1, VerifierInductive, PTL

-----------------------------------------------------------------------------
(* Verdicts rest on recent word *)

\* An entry that is still good, and the answer to a lookup under way, are the
\* provider's recent word.
LEMMA HitIsRecent ==
    ASSUME IInv, NEW t \in Token, NEW e \in Hit(t)
    PROVE  e.email \in Email /\ Recent(t, e.email)
<1>1. e \in cache /\ e.token = t /\ e.exp > now /\ e.email \in Email /\ e.exp \in Nat
  BY DEF Hit, IInv, TypeOK, Entry
<1>2. /\ word[t][e.email] # Never
      /\ IF HasExp(t) THEN e.exp = Exp[t] ELSE e.exp <= word[t][e.email] + Grace
  BY <1>1 DEF IInv, EntriesVouched
<1>3. now \in Nat /\ word[t][e.email] \in Nat
  BY <1>1, <1>2 DEF IInv, TypeOK
<1> QED BY <1>1, <1>2, <1>3, VerifierAssumption DEF Recent, HasExp

LEMMA ToldIsRecent ==
    ASSUME IInv, NEW c \in Call, phase[c] = "told", answer[c] # "none"
    PROVE  Recent(token[c], answer[c])
<1>1. /\ token[c] \in Token /\ answer[c] \in Email
      /\ nowSec[c] \in Nat /\ now \in Nat
  BY DEF IInv, TypeOK, Said
<1>2. /\ now <= nowSec[c] + Timeout
      /\ HasExp(token[c]) => nowSec[c] < Exp[token[c]]
      /\ word[token[c]][answer[c]] # Never
      /\ word[token[c]][answer[c]] >= nowSec[c]
  BY DEF IInv, LookupsTimely, Pending
<1>3. word[token[c]][answer[c]] \in Nat
  BY <1>1, <1>2 DEF IInv, TypeOK
<1> QED BY <1>1, <1>2, <1>3, VerifierAssumption DEF Recent, HasExp

\* What a verdict rests on, whichever step gives it.
LEMMA Grounds ==
    ASSUME IInv, [Next]_vars, NEW c \in Call,
           phase'[c] # phase[c], phase'[c] \in {"admitted", "denied"}
    PROVE  /\ phase'[c] = IF answer'[c] = "inside" THEN "admitted" ELSE "denied"
           /\ answer'[c] \in Said
           /\ \/ answer'[c] # "none" /\ Claim[token'[c]] = answer'[c]
              \/ answer'[c] # "none" /\ Recent(token'[c], answer'[c])
              \/ answer'[c] = "none" /\ Pending(c)
<1>1. ASSUME NEW d \in Call, NEW t \in Token, UseClaim(d, t)
      PROVE  d = c /\ token'[c] = t /\ answer'[c] = Claim[t] /\ Claim[t] # "none"
             /\ phase'[c] = IF answer'[c] = "inside" THEN "admitted" ELSE "denied"
  BY <1>1 DEF UseClaim, Begin, Decide, IInv, TypeOK
<1>2. ASSUME NEW d \in Call, NEW t \in Token, UseCache(d, t)
      PROVE  /\ token'[c] = t
             /\ \E e \in Hit(t) : answer'[c] = e.email
             /\ phase'[c] = IF answer'[c] = "inside" THEN "admitted" ELSE "denied"
  BY <1>2 DEF UseCache, Begin, Decide, IInv, TypeOK
<1>3. ASSUME NEW d \in Call, UseAnswer(d)
      PROVE  /\ phase[c] = "told" /\ token'[c] = token[c] /\ answer'[c] = answer[c]
             /\ phase'[c] = IF answer'[c] = "inside" THEN "admitted" ELSE "denied"
  BY <1>3 DEF UseAnswer, Decide, IInv, TypeOK
<1>4. ASSUME NEW d \in Call, LookupFails(d)
      PROVE  /\ Pending(c) /\ answer'[c] = "none"
             /\ phase'[c] = IF answer'[c] = "inside" THEN "admitted" ELSE "denied"
  BY <1>4 DEF LookupFails, Decide, IInv, TypeOK
<1>5. \/ \E d \in Call, t \in Token : UseClaim(d, t) \/ UseCache(d, t)
      \/ \E d \in Call : UseAnswer(d) \/ LookupFails(d)
  BY DEF Next, vars, AskUserinfo, ProviderAnswers, Tick, IInv, TypeOK
<1>6. \A t \in Token : Claim[t] \in Said
  BY VerifierAssumption
<1>7. Email \subseteq Said /\ "none" \in Said /\ "none" \notin Email /\ answer[c] \in Said
  BY DEF Said, Email, IInv, TypeOK
<1>8. ASSUME NEW d \in Call, NEW t \in Token, UseCache(d, t)
      PROVE  answer'[c] \in Email /\ Recent(t, answer'[c])
  BY <1>2, <1>8, HitIsRecent
<1>9. ASSUME NEW d \in Call, UseAnswer(d), answer[c] # "none"
      PROVE  Recent(token'[c], answer'[c])
  BY <1>3, <1>9, ToldIsRecent
<1> QED BY <1>1, <1>2, <1>3, <1>4, <1>5, <1>6, <1>7, <1>8, <1>9 DEF Pending

\* A user is admitted on the word of the token or of the provider, and the
\* provider's is never older than its limit.
THEOREM AdmissionsAreRecent == Spec => AdmittedOnRecentWord
<1>1. IInv /\ [Next]_vars =>
        [\A c \in Call :
            phase[c] # "admitted" /\ phase'[c] = "admitted" =>
                LET t == token'[c] IN Claim[t] = "inside" \/ Recent(t, "inside")]_vars
  <2> SUFFICES ASSUME IInv, [Next]_vars, NEW c \in Call,
                      phase[c] # "admitted", phase'[c] = "admitted"
               PROVE  Claim[token'[c]] = "inside" \/ Recent(token'[c], "inside")
    OBVIOUS
  <2>1. answer'[c] = "inside"
    BY Grounds
  <2> QED BY <2>1, Grounds
<1> QED BY <1>1, VerifierInductive, PTL DEF Spec, AdmittedOnRecentWord

\* Nobody is turned away on old news: a failed lookup is never remembered.
THEOREM DenialsAreRecent == Spec => DeniedOnRecentWord
<1>1. IInv /\ [Next]_vars =>
        [\A c \in Call :
            phase[c] # "denied" /\ phase'[c] = "denied" =>
                LET t == token'[c]
                IN \/ Claim[t] = "outside" \/ Recent(t, "outside")
                   \/ Pending(c) /\ answer'[c] = "none"]_vars
  <2> SUFFICES ASSUME IInv, [Next]_vars, NEW c \in Call,
                      phase[c] # "denied", phase'[c] = "denied"
               PROVE  \/ Claim[token'[c]] = "outside" \/ Recent(token'[c], "outside")
                      \/ Pending(c) /\ answer'[c] = "none"
    OBVIOUS
  <2>1. answer'[c] \in {"outside", "none"}
    BY Grounds DEF Said, Email
  <2> QED BY <2>1, Grounds
<1> QED BY <1>1, VerifierInductive, PTL DEF Spec, DeniedOnRecentWord

=============================================================================
