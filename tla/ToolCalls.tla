----------------------------- MODULE ToolCalls -----------------------------
(***************************************************************************)
(* The tools of src/src/tools/ that send their calls through one client,   *)
(* called at the same time: get-vouchers and get-voucher-file, which send  *)
(* several calls one after the other, create-draft-* and create-finalized-**)
(* of documents.ts, and the delete tools.                                  *)
(*                                                                         *)
(* A tool's calls are callers of LexwareClient; which record or document   *)
(* they concern, and the body they send, is left out.                      *)
(***************************************************************************)
EXTENDS LexwareClient

CONSTANTS Tool,     \* invocations of tools
          Calls,    \* the calls each one sends, in their order
          Together, \* bound on how many are invoked
          Argument  \* the boolean arguments tried

ASSUME ToolAssumption ==
    /\ Calls \in [Tool -> Seq(Caller) \ {<<>>}]
    /\ \A t, u \in Tool : \A i \in DOMAIN Calls[t], j \in DOMAIN Calls[u] :
          Calls[t][i] = Calls[u][j] => t = u /\ i = j
    /\ \A t \in Tool : Method[Calls[t][1]] # "GET" => Len(Calls[t]) = 1
    /\ Together \in Nat
    /\ Argument \subseteq {"absent", "true", "false", "text true", "text false", "text yes"}

VARIABLES kind,    \* which tool is invoked, "idle" before that
          wanted,  \* what its caller wants to come into being
          answer   \* what the caller got

toolVars == <<kind, wanted, answer>>
allVars == <<vars, toolVars>>

\* The tools that send calls of a method.
KindsOf == [GET |-> {"get-vouchers", "get-voucher-file"},
            POST |-> {"create-draft", "create-finalized"},
            DELETE |-> {"delete"}]
Kinds == UNION {KindsOf[method] : method \in DOMAIN KindsOf}

ToolTypeOK ==
    /\ TypeOK
    /\ kind \in [Tool -> Kinds \cup {"idle"}]
    /\ wanted \in [Tool -> {"nothing", "draft", "binding"}]
    /\ answer \in [Tool -> {"none", "done", "draft", "binding", "error"}]

ToolInit ==
    /\ Init
    /\ kind = [t \in Tool |-> "idle"]
    /\ wanted = [t \in Tool |-> "nothing"]
    /\ answer = [t \in Tool |-> "none"]

-----------------------------------------------------------------------------
(* Invocation *)

\* A boolean argument as it may arrive, and what jsonBool() and the schema
\* make of it.
JsonBool(v) == CASE v = "text true" -> "true"
                 [] v = "text false" -> "false"
                 [] v = "text yes" -> "invalid"
                 [] OTHER -> v

\* Slip: create-draft-* has no such parameters either.
AcceptsAny(k, finalize, confirm) ==
    IF k = "create-draft" THEN TRUE ELSE JsonBool(confirm) = "true"

\* The arguments create-draft-* and create-finalized-* accept.  The latter has
\* no `finalize`, which the SDK drops.
Accepts(k, finalize, confirm) ==
    IF k = "create-draft"
    THEN JsonBool(finalize) \in {"absent", "false"} /\ JsonBool(confirm) = "absent"
    ELSE JsonBool(confirm) = "true"

\* What their caller has in mind.
Wish(k, finalize) ==
    IF k = "create-finalized" \/ JsonBool(finalize) = "true" THEN "binding" ELSE "draft"

MayInvoke(t, k) ==
    /\ kind[t] = "idle" /\ Cardinality({u \in Tool : kind[u] # "idle"}) < Together
    /\ k \in KindsOf[Method[Calls[t][1]]]

Invoke(t, k) ==
    /\ MayInvoke(t, k) /\ k \notin KindsOf.POST
    /\ kind' = [kind EXCEPT ![t] = k]
    /\ UNCHANGED <<vars, wanted, answer>>

\* What is not accepted throws before anything is sent.
InvokeCreate(t, k, finalize, confirm) ==
    /\ MayInvoke(t, k) /\ k \in KindsOf.POST
    /\ kind' = [kind EXCEPT ![t] = k]
    /\ wanted' = [wanted EXCEPT ![t] = Wish(k, finalize)]
    /\ answer' = IF Accepts(k, finalize, confirm) THEN answer
                 ELSE [answer EXCEPT ![t] = "error"]
    /\ UNCHANGED vars

-----------------------------------------------------------------------------
(* The calls, one after the other *)

Running(t) == kind[t] # "idle" /\ answer[t] = "none"

\* Slip: a batch sends all its calls at once.
AllAtOnce(t, i) == TRUE

\* The calls before it have settled; only a batch goes on after a failure.
TurnOf(t, i) == \A j \in 1 .. i - 1 :
    /\ phase[Calls[t][j]] = "settled"
    /\ kind[t] = "get-vouchers" \/ outcome[Calls[t][j]] = "ok"

StartCall(t) ==
    /\ Running(t)
    /\ \E i \in DOMAIN Calls[t] : LET c == Calls[t][i] IN
          /\ phase[c] = "ready" /\ TurnOf(t, i)
          /\ Refuse(c) \/ AskLimiter(c)
    /\ UNCHANGED toolVars

CallGoesOn(c) ==
    /\ \/ phase[c] = "pausing" /\ AskLimiter(c)
       \/ Send(c)
       \/ Answered(c)
    /\ UNCHANGED toolVars

-----------------------------------------------------------------------------
(* The answer *)

Outcome(t, i) == outcome[Calls[t][i]]
Last(t) == Len(Calls[t])

\* `id` of the answer is read: an empty 2xx body has none, and throws.
Created(t) == \/ kind[t] = "create-draft" /\ answer' = [answer EXCEPT ![t] = "draft"]
              \/ kind[t] = "create-finalized" /\ answer' = [answer EXCEPT ![t] = "binding"]
              \/ answer' = [answer EXCEPT ![t] = "error"]

Finish(t) ==
    /\ Running(t) /\ phase[Calls[t][Last(t)]] = "settled"
    /\ \/ kind[t] = "get-vouchers" /\ answer' = [answer EXCEPT ![t] = "done"]
       \/ kind[t] \in {"get-voucher-file", "delete"} /\ Outcome(t, Last(t)) \in {"ok", "absent"}
          /\ answer' = [answer EXCEPT ![t] = "done"]
       \/ kind[t] \in KindsOf.POST /\ Outcome(t, Last(t)) = "ok" /\ Created(t)
    /\ UNCHANGED <<vars, kind, wanted>>

\* Outside a batch a failed call is thrown on, as is a voucher without a file.
Throw(t) ==
    /\ Running(t) /\ kind[t] # "get-vouchers"
    /\ \E i \in DOMAIN Calls[t] :
          \/ Outcome(t, i) \notin {"none", "ok", "absent"}
          \/ kind[t] = "get-voucher-file" /\ i = 1 /\ Outcome(t, 1) = "ok"
             /\ phase[Calls[t][Last(t)]] = "ready"
    /\ answer' = [answer EXCEPT ![t] = "error"]
    /\ UNCHANGED <<vars, kind, wanted>>

-----------------------------------------------------------------------------
Environment ==
    /\ \/ \E c \in Caller : LexwareExecutes(c) \/ LooseAttemptEnds(c) \/ SomeoneDeletes(c)
       \/ LimiterStep
    /\ UNCHANGED toolVars

ToolNext ==
    \/ \E t \in Tool : \/ \E k \in Kinds : Invoke(t, k)
                       \/ \E k \in Kinds, finalize, confirm \in Argument :
                             InvokeCreate(t, k, finalize, confirm)
                       \/ StartCall(t) \/ Finish(t) \/ Throw(t)
    \/ \E c \in Caller : CallGoesOn(c)
    \/ Environment

ToolSpec == ToolInit /\ [][ToolNext]_allVars

\* AbortSignal.timeout ends every fetch, timers end every pause and sleep, and
\* the event loop runs every continuation.
FairToolSpec ==
    /\ ToolSpec
    /\ \A t \in Tool : WF_allVars(StartCall(t)) /\ WF_allVars(Finish(t) \/ Throw(t))
    /\ \A c \in Caller : WF_allVars(CallGoesOn(c))
    /\ WF_allVars(SleepForToken /\ UNCHANGED <<clientVars, toolVars>>)
    /\ WF_allVars(Tick /\ UNCHANGED <<clientVars, toolVars>>)

-----------------------------------------------------------------------------
(* Properties *)

\* What Lexware has created for a tool, by the query of its POST.
Document(t) == IF executed[Calls[t][1]] = 0 THEN "nothing"
               ELSE IF kind[t] = "create-finalized" THEN "binding" ELSE "draft"

\* A create tool never brings into being what its caller does not want, says
\* what kind of document there is, and after an error that does not leave it
\* open there is none: a binding document cannot be taken back.
ToldWhatExists ==
    \A t \in Tool : kind[t] \in KindsOf.POST =>
        /\ Document(t) \in {"nothing", wanted[t]}
        /\ answer[t] \in {"draft", "binding"} => answer[t] = Document(t)
        /\ answer[t] = "error" /\ Outcome(t, 1) \in {"none", "rejected", "blocked"}
              => Document(t) = "nothing"

CallsOf(t) == {Calls[t][i] : i \in DOMAIN Calls[t]}

\* The callers a caller waits for in the limiter's chain.
Ahead(c) == {d \in Caller : \E i, j \in 1 .. Len(chain) : i < j /\ chain[i] = d /\ chain[j] = c}

\* A tool that sends many calls holds up nobody for more than one of them, and
\* nobody is overtaken: a call that waits for a token waits for at most one
\* call of each of the other tools.
FairShare ==
    [][\A c \in Caller : Waiting(c) =>
          /\ \A t \in Tool : \A d, e \in Ahead(c) \cup {c} :
                {d, e} \subseteq CallsOf(t) => d = e
          /\ Waiting(c)' => Ahead(c)' \subseteq Ahead(c)]_allVars

\* Every tool answers, whatever gets lost: as each is invoked once, there is
\* always a later time at which none is running.
EveryToolAnswers == []<>(\A t \in Tool : ~Running(t))

=============================================================================
