------------------------------ MODULE Startup ------------------------------
(***************************************************************************)
(* How the process of src/src/server.ts starts: loadConfig() of config.ts, *)
(* after entraEnvironment() of entra.ts rewrote the environment, decides   *)
(* on authentication and on capability tiers, and these decide on the      *)
(* tools, the upload routes and the lock of the client.                    *)
(***************************************************************************)

(* A flag as it is written: "true" and "false" literally, "yes" and "no"     *)
(* for the other spellings of the two, "bad" for anything else.              *)
Flag == {"unset", "true", "yes", "false", "no", "bad"}

Environment ==
    [profile : BOOLEAN,            \* ENTRA_TENANT_ID or NATURBUMMLER_PROFILE is set
     entra : {"good", "bad"},      \* ids, scope, policy, lists and origin of the profile
     policy : {"assigned", "tenant"},
     domains : BOOLEAN,            \* a list of email domains is set
     issuer : {"unset", "good", "bad"},
     resource : {"unset", "good", "bad"},   \* OAUTH_RESOURCE or else SERVER_URL
     proxy : {"unset", "loopback", "remote"},
     verifyAudience : Flag,
     token : {"unset", "blank", "short", "long"},
     unauthenticated : Flag,
     apiKey : BOOLEAN,
     readOnly : Flag, drafts : Flag, finalize : Flag, urlUpload : Flag,
     rest : {"good", "bad"}]       \* the port, the URLs and the debug flag that are read

CONSTANT Environments   \* those it is started in

ASSUME StartupAssumption == Environments \subseteq Environment

VARIABLES env,
          phase,     \* "starting", "running" or "failed" (exit code 1)
          server     \* what was set up from the configuration

vars == <<env, phase, server>>

-----------------------------------------------------------------------------
(* parseBool(): throws on a flag that is not Parsed.                         *)
Parsed(flag) == flag # "bad"
IsTrue(flag, fallback) == flag \in {"true", "yes"} \/ (flag = "unset" /\ fallback)

(* entraEnvironment(): what it throws on, and what it sets.                  *)
ProfileAccepts(e) ==
    /\ e.entra = "good"
    /\ e.verifyAudience # "false" /\ e.unauthenticated # "true" /\ e.token = "unset"
    /\ e.readOnly # "false"
    /\ "true" \notin {e.drafts, e.finalize, e.urlUpload}

Rewritten(e) ==
    [e EXCEPT !.issuer = "good", !.resource = "good", !.verifyAudience = "true",
              !.readOnly = "true", !.domains = FALSE,
              !.proxy = IF e.proxy = "unset" THEN "loopback" ELSE e.proxy]

(* Slip: the flags were looked at, so LEXWARE_READ_ONLY is left as it is.    *)
RewrittenWritable(e) == [Rewritten(e) EXCEPT !.readOnly = e.readOnly]
ProfileEnv(e) == Rewritten(e)

Prepared(e) == IF e.profile THEN ProfileEnv(e) ELSE e

(* resolveAuth(): OAuth, else a static token, else nothing if that is asked  *)
(* for, else no start. A blank token is none.                                *)
HasToken(e) == e.token \in {"short", "long"}

AuthMode(e) == IF e.issuer # "unset" THEN "oauth" ELSE IF HasToken(e) THEN "static" ELSE "none"

AuthAccepts(e) ==
    /\ AuthMode(e) = "oauth" =>
         /\ e.issuer = "good" /\ e.resource # "unset"
         /\ Parsed(e.verifyAudience) /\ e.proxy # "remote"
    /\ AuthMode(e) = "static" => e.token = "long"
    /\ AuthMode(e) = "none" => Parsed(e.unauthenticated) /\ IsTrue(e.unauthenticated, FALSE)

-----------------------------------------------------------------------------
(* Capability tiers. *)
ReadOnly(e) == IsTrue(e.readOnly, FALSE)

Finalize(e) == ~ReadOnly(e) /\ IsTrue(e.finalize, FALSE)

(* Slip: the finalize tier does not bring the drafts tier along.             *)
DraftsAlone(e) == ~ReadOnly(e) /\ IsTrue(e.drafts, TRUE)
Drafts(e) == ~ReadOnly(e) /\ (IsTrue(e.drafts, TRUE) \/ Finalize(e))

UrlUpload(e) == Drafts(e) /\ IsTrue(e.urlUpload, FALSE)

(* A finalize flag is not read beside a read-only one. *)
FlagsParsed(e) ==
    /\ Parsed(e.readOnly) /\ Parsed(e.drafts) /\ Parsed(e.urlUpload)
    /\ ReadOnly(e) \/ Parsed(e.finalize)

(* The base of upload links is the resource in every mode, or else loopback. *)
BaseUrlAccepted(e) == e.resource # "bad"

(* The port; the other URLs: HTTPS, or HTTP on loopback; and the flag of the *)
(* debug log, which the profile sets.                                        *)
RestAccepted(e) == e.rest = "good"

Accepts(e) ==
    LET p == Prepared(e)
    IN  /\ e.profile => ProfileAccepts(e)
        /\ e.apiKey \/ e.profile
        /\ AuthAccepts(p) /\ FlagsParsed(p)
        /\ BaseUrlAccepted(p) /\ RestAccepted(e)

(* registerTools(): each tier's groups of tools. *)
ReadTools == {"profile", "contacts", "articles", "documents", "reference", "files", "events"}
DraftTools == {"contact drafts", "article writes", "document drafts", "voucher writes",
               "file writes", "upload tickets"}
FinalizeTools == {"document finalize", "article delete", "event writes", "event delete"}
UrlTools == {"url upload"}

Tools(e) ==
    ReadTools
      \union (IF Drafts(e) THEN DraftTools ELSE {})
      \union (IF UrlUpload(e) THEN UrlTools ELSE {})
      \union (IF Finalize(e) THEN FinalizeTools ELSE {})

(* What server.ts sets up from the configuration.                            *)
Configured(e) ==
    [auth |-> AuthMode(e),
     entra |-> e.profile,
     policy |-> e.policy,
     domains |-> e.domains,
     proxied |-> e.proxy # "unset",
     verifyAudience |-> IsTrue(e.verifyAudience, TRUE),
     clientReadOnly |-> ~Drafts(e),
     uploadRoutes |-> Drafts(e),
     tools |-> Tools(e)]

NoServer ==
    [auth |-> "none", entra |-> FALSE, policy |-> "assigned", domains |-> FALSE,
     proxied |-> FALSE, verifyAudience |-> FALSE,
     clientReadOnly |-> FALSE, uploadRoutes |-> FALSE, tools |-> {}]

Init == env \in Environments /\ phase = "starting" /\ server = NoServer

Fails ==
    /\ phase = "starting"
    /\ ~Accepts(env)
    /\ phase' = "failed"
    /\ UNCHANGED <<env, server>>

Starts ==
    /\ phase = "starting"
    /\ Accepts(env)
    /\ phase' = "running"
    /\ server' = Configured(Prepared(env))
    /\ UNCHANGED env

Next == Fails \/ Starts

Spec == Init /\ [][Next]_vars

-----------------------------------------------------------------------------
Running == phase = "running"

Server ==
    [auth : {"oauth", "static", "none"}, entra : BOOLEAN, policy : {"assigned", "tenant"},
     domains : BOOLEAN, proxied : BOOLEAN, verifyAudience : BOOLEAN,
     clientReadOnly : BOOLEAN, uploadRoutes : BOOLEAN,
     tools : SUBSET (ReadTools \union DraftTools \union UrlTools \union FinalizeTools)]

TypeOK ==
    /\ env \in Environment
    /\ phase \in {"starting", "running", "failed"}
    /\ server \in Server
    /\ Running => ReadTools \subseteq server.tools

(* What the process is, it is by the environment it was started in.          *)
IInv ==
    /\ TypeOK
    /\ Running => Accepts(env) /\ server = Configured(Prepared(env))

(* The Naturbummler profile runs with checked Entra tokens and with nothing  *)
(* but reads: the client locked, no route for uploads, in every environment  *)
(* that does not stop it from starting, however its flags are spelt.         *)
ProfileOnlyReads ==
    Running /\ env.profile =>
      /\ server.auth = "oauth" /\ server.entra /\ server.verifyAudience
      /\ server.tools = ReadTools
      /\ server.clientReadOnly /\ ~server.uploadRoutes

(* LEXWARE_READ_ONLY is a hard override, also where finalize would bring the *)
(* drafts tier along.                                                        *)
ReadOnlyWins ==
    Running /\ env.readOnly \in {"true", "yes"} => server.tools = ReadTools

(* Every tool that is offered can do its work, and none works that is not    *)
(* offered: the client lets writes through, and the upload routes exist,     *)
(* exactly if tools that write are registered. In particular the binding     *)
(* tools never come without the drafts.                                      *)
ToolsMatchLock ==
    Running =>
      /\ server.tools # ReadTools <=> ~server.clientReadOnly
      /\ "upload tickets" \in server.tools <=> server.uploadRoutes
      /\ server.tools \intersect FinalizeTools # {} => DraftTools \subseteq server.tools

(* The tools, routes and lock of a process are those its flags ask for, in   *)
(* every spelling and combination: all of the above.                         *)
ToolsAsConfigured == ProfileOnlyReads /\ ReadOnlyWins /\ ToolsMatchLock

(* Nobody gets in unchecked unless the operator asked for just that and      *)
(* configured nothing else; a token that is too weak stops the process.      *)
OpenOnlyIfAsked ==
    Running /\ server.auth = "none" =>
      /\ env.unauthenticated \in {"true", "yes"}
      /\ env.token \in {"unset", "blank"} /\ env.issuer = "unset" /\ ~env.profile
=============================================================================
