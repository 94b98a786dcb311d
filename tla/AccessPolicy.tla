---------------------------- MODULE AccessPolicy ----------------------------
(***************************************************************************)
(* Who gets through to /mcp: the gate server.ts mounts for the mode of      *)
(* authentication, with the static check of auth.ts, and the two verifiers  *)
(* of src/src/oauth.ts: verifyAccessToken(), which reads a token itself,    *)
(* and verifyProxyAccessToken(), which asks auth_gateway.py; requireBearer- *)
(* Auth() of the MCP library calls either and looks at the expiry.          *)
(***************************************************************************)
EXTENDS Startup

(* What may be true of a token: it is for this server; it says when it       *)
(* expires, which is to come; it names a subject and a client; it is of the  *)
(* profile's tenant, in version 2.0, delegated by a person; it has a claim   *)
(* scp, the scopes, and a listed role or group; its verified email, as       *)
(* TokenVerifier establishes it, is in a listed domain.                      *)
Truth == {"audience", "expiry", "subject", "client", "tenant", "version", "person",
          "scp", "scope", "grant", "email"}

(* "secret": the static token; "signed": a token of the issuer that has not  *)
(* expired; "proxied": one that the proxy knows.                             *)
Bearer == {b \in [kind : {"none", "secret", "signed", "proxied"}, has : SUBSET Truth] :
             "scope" \in b.has => "scp" \in b.has}

CONSTANT Bearers   \* those that are sent

ASSUME AccessAssumption == Bearers \subseteq Bearer

VARIABLES bearer,   \* of the request for /mcp
          verdict   \* "admitted", "unauthorized" (401), "forbidden" (403)

accessVars == <<vars, bearer, verdict>>

Verdict == {"none", "admitted", "unauthorized", "forbidden"}
NoBearer == [kind |-> "none", has |-> {}]

-----------------------------------------------------------------------------
(* What both verifiers ask of a token of the profile, in different orders.   *)
Delegated(has) == {"tenant", "version", "person"} \subseteq has
Granted(c, has) == c.policy = "assigned" => "grant" \in has

(* jwtVerify() with the audiences and claims it is given, and the subject.   *)
(* Slip: the audience goes unchecked.                                        *)
GenuineForAny(c, b) ==
    /\ b.kind = "signed"
    /\ c.entra => {"expiry", "scp"} \subseteq b.has
    /\ "subject" \in b.has
Genuine(c, b) ==
    /\ b.kind = "signed"
    /\ c.entra \/ c.verifyAudience => "audience" \in b.has
    /\ c.entra => {"expiry", "scp"} \subseteq b.has
    /\ "subject" \in b.has

Email(c, b) == c.domains => "email" \in b.has

(* Slip: a token of the profile needs no scope and no grant.                 *)
DirectlyLoose(c, b) ==
    IF ~Genuine(c, b) \/ (c.entra /\ ~Delegated(b.has)) THEN "unauthorized"
    ELSE IF ~Email(c, b) THEN "forbidden" ELSE "admitted"

Directly(c, b) ==
    IF ~Genuine(c, b) \/ (c.entra /\ ~Delegated(b.has)) THEN "unauthorized"
    ELSE IF \/ c.entra /\ ~("scope" \in b.has /\ Granted(c, b.has))
            \/ ~Email(c, b)
         THEN "forbidden" ELSE "admitted"

(* What internal_verify() replies, if it does and it arrives in one piece:   *)
(* it knows the token, and passes on what was verified of it.                *)
Outage == {"no", "unreachable", "garbled"}

Reply(b, outage) ==
    [active |-> outage = "no" /\ b.kind = "proxied", has |-> b.has]

(* Slip: the scopes of an access token are enough.                           *)
ThroughProxyScopeOnly(c, reply) ==
    IF ~reply.active \/ "client" \notin reply.has THEN "unauthorized"
    ELSE IF c.entra /\ "scope" \notin reply.has THEN "forbidden"
    ELSE "admitted"

ThroughProxy(c, reply) ==
    IF ~reply.active \/ "client" \notin reply.has THEN "unauthorized"
    ELSE IF c.entra /\ "scope" \notin reply.has THEN "forbidden"
    ELSE IF c.entra /\ ~Delegated(reply.has) THEN "unauthorized"
    ELSE IF c.entra /\ ~Granted(c, reply.has) THEN "forbidden"
    ELSE "admitted"

WithSecret(b) == IF b.kind = "secret" THEN "admitted" ELSE "unauthorized"

(* requireBearerAuth(): what a verifier lets in must say when it expires.    *)
Unexpired(b, v) == IF v = "admitted" /\ "expiry" \notin b.has THEN "unauthorized" ELSE v

Gate(c, b, outage) ==
    IF c.auth = "none" THEN "admitted"
    ELSE IF c.auth = "static" THEN WithSecret(b)
    ELSE IF c.proxied THEN Unexpired(b, ThroughProxy(c, Reply(b, outage)))
    ELSE Unexpired(b, Directly(c, b))

-----------------------------------------------------------------------------
AccessInit == Init /\ bearer = NoBearer /\ verdict = "none"

Boots == Next /\ UNCHANGED <<bearer, verdict>>

(* One request is enough to watch: no verdict depends on an earlier one.     *)
Asks(b, outage) ==
    /\ Running /\ verdict = "none"
    /\ bearer' = b
    /\ verdict' = Gate(server, b, outage)
    /\ UNCHANGED vars

AccessNext == Boots \/ \E b \in Bearers, outage \in Outage : Asks(b, outage)

AccessSpec == AccessInit /\ [][AccessNext]_accessVars

-----------------------------------------------------------------------------
AccessTypeOK == TypeOK /\ bearer \in Bearer /\ verdict \in Verdict

(* From the environment to the verdict: under the profile only a person of   *)
(* the tenant with the scopes and, if assignment is asked for, a grant gets  *)
(* in, by a token the proxy knows; elsewhere only the secret, a token that   *)
(* names its subject and is for this server, unless the operator switched    *)
(* that check off, or one the proxy knows, or anybody if that was asked for. *)
(* No token gets in without an expiry. The list of domains decides where the *)
(* server reads tokens itself; where it asks a proxy, see DomainsEnforced.   *)
AdmittedIsEntitled ==
    verdict = "admitted" =>
      /\ Running
      /\ env.profile => /\ bearer.kind = "proxied"
                        /\ {"client", "tenant", "version", "person", "scope"} \subseteq bearer.has
                        /\ env.policy = "tenant" \/ "grant" \in bearer.has
      /\ bearer.kind = "none" => env.unauthenticated \in {"true", "yes"} /\ env.issuer = "unset"
      /\ server.auth = "static" => bearer.kind = "secret"
      /\ server.auth = "oauth" => /\ bearer.kind = (IF server.proxied THEN "proxied" ELSE "signed")
                                  /\ "expiry" \in bearer.has
      /\ server.auth = "oauth" /\ ~server.proxied =>
           /\ "subject" \in bearer.has
           /\ env.verifyAudience \notin {"false", "no"} => "audience" \in bearer.has
           /\ env.domains => "email" \in bearer.has

(* "If non-empty, the user's email domain must be one of these (hard         *)
(* backstop)" (config.ts:77): whichever way the token was verified.          *)
DomainsEnforced ==
    verdict = "admitted" /\ server.auth = "oauth" /\ server.domains => "email" \in bearer.has

(* The profile's policy is written down twice, once in each verifier. What   *)
(* they are told of a token, they decide alike.                              *)
As(kind) == [bearer EXCEPT !.kind = kind]

VerifiersAgree ==
    Running /\ server.entra /\ {"audience", "expiry", "subject", "client"} \subseteq bearer.has =>
      (Directly(server, As("signed")) = "admitted"
         <=> ThroughProxy(server, Reply(As("proxied"), "no")) = "admitted")
=============================================================================
