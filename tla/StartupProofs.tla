--------------------------- MODULE StartupProofs ---------------------------
(* Proofs about Startup, AccessPolicy and HttpAssembly, for every set of environments and  *)
(* of tokens. A running process is a function of its environment (IInv), and *)
(* a verdict one of the process; each property then is one of a function.    *)
EXTENDS HttpAssembly, TLAPS

(* What the profile makes of an environment: OAuth, and reads only. *)
LEMMA PreparedFields ==
    ASSUME NEW e \in Environment
    PROVE  /\ Prepared(e).profile = e.profile /\ e.profile \in BOOLEAN
           /\ Prepared(e).policy = e.policy /\ e.policy \in {"assigned", "tenant"}
           /\ Prepared(e).domains \in BOOLEAN /\ (e.profile => ~Prepared(e).domains)
           /\ e.profile => /\ Prepared(e).issuer = "good" /\ Prepared(e).proxy # "unset"
                           /\ Prepared(e).verifyAudience = "true"
                           /\ Prepared(e).readOnly = "true"
           /\ ~e.profile => Prepared(e) = e
  BY DEF Prepared, ProfileEnv, Rewritten, Environment

(* The tools of an environment are among those that exist. *)
LEMMA ToolsType ==
    ASSUME NEW e
    PROVE  /\ Tools(e) \subseteq ReadTools \union DraftTools \union UrlTools \union FinalizeTools
           /\ ReadTools \subseteq Tools(e)
  BY DEF Tools

LEMMA ModeType == ASSUME NEW e PROVE AuthMode(e) \in {"oauth", "static", "none"}
  BY DEF AuthMode

LEMMA ConfiguredType ==
    ASSUME NEW p, p.profile \in BOOLEAN, p.domains \in BOOLEAN,
           p.policy \in {"assigned", "tenant"}
    PROVE  Configured(p) \in Server
  <1>1. Drafts(p) \in BOOLEAN BY DEF Drafts, ReadOnly, Finalize, IsTrue
  <1>2. IsTrue(p.verifyAudience, TRUE) \in BOOLEAN BY DEF IsTrue
  <1> QED BY <1>1, <1>2, ToolsType, ModeType DEF Configured, Server

(* Without the drafts tier there are only reads, with it there are the       *)
(* draft tools; the finalize tier never comes without it.                    *)
LEMMA Tiers ==
    ASSUME NEW e
    PROVE  /\ Tools(e) # ReadTools <=> Drafts(e)
           /\ "upload tickets" \in Tools(e) <=> Drafts(e)
           /\ Tools(e) \intersect FinalizeTools # {} => DraftTools \subseteq Tools(e)
  <1>1. Finalize(e) => Drafts(e) BY DEF Drafts, Finalize
  <1>2. UrlUpload(e) => Drafts(e) BY DEF UrlUpload
  <1>3. "upload tickets" \in DraftTools /\ "upload tickets" \notin ReadTools
    BY DEF DraftTools, ReadTools
  <1>4. CASE Drafts(e)
    <2>1. DraftTools \subseteq Tools(e) BY <1>4 DEF Tools
    <2> QED BY <2>1, <1>3, <1>4
  <1>5. CASE ~Drafts(e)
    <2>1. Tools(e) = ReadTools BY <1>5, <1>1, <1>2 DEF Tools
    <2>2. ReadTools \intersect FinalizeTools = {} BY DEF ReadTools, FinalizeTools
    <2> QED BY <2>1, <2>2, <1>3, <1>5
  <1> QED BY <1>4, <1>5

-----------------------------------------------------------------------------
(* IInv is inductive: a process is what its environment makes it. *)
LEMMA StartupInit == Init => IInv
  <1> SUFFICES ASSUME Init PROVE IInv OBVIOUS
  <1>1. NoServer \in Server BY DEF NoServer, Server
  <1> QED BY <1>1, StartupAssumption DEF Init, IInv, TypeOK, Running

LEMMA StartupStep == IInv /\ [Next]_vars => IInv'
  <1> SUFFICES ASSUME IInv, [Next]_vars PROVE IInv' OBVIOUS
  <1>1. CASE Fails
    BY <1>1 DEF Fails, IInv, TypeOK, Running
  <1>2. CASE Starts
    <2>1. env \in Environment /\ env' = env BY <1>2 DEF Starts, IInv, TypeOK
    <2>2. /\ Prepared(env).profile \in BOOLEAN /\ Prepared(env).domains \in BOOLEAN
          /\ Prepared(env).policy \in {"assigned", "tenant"}
      BY <2>1, PreparedFields
    <2>3. server' = Configured(Prepared(env)) BY <1>2 DEF Starts
    <2>4. server'.tools = Tools(Prepared(env)) BY <2>3 DEF Configured
    <2>5. TypeOK'
      BY <1>2, <2>1, <2>2, <2>3, <2>4, ConfiguredType, ToolsType DEF Starts, TypeOK, Running
    <2>6. Accepts(env)' /\ (server = Configured(Prepared(env)))'
      BY <1>2, <2>1, <2>3 DEF Starts
    <2> QED BY <2>5, <2>6 DEF IInv
  <1>3. CASE UNCHANGED vars
    BY <1>3 DEF vars, IInv, TypeOK, Running
  <1> QED BY <1>1, <1>2, <1>3 DEF Next

(* A process is what its environment makes it (server.ts:15).                *)
THEOREM StartupInductive == Spec => []IInv
  BY StartupInit, StartupStep, PTL DEF Spec

-----------------------------------------------------------------------------
(* The profile only reads (config.ts:401, entra.ts:76), however flags are    *)
(* spelt: the environment it is configured from always says read-only.       *)
THEOREM ProfileReadsOnly == Spec => []ProfileOnlyReads
  <1>1. IInv => ProfileOnlyReads
    <2> SUFFICES ASSUME IInv, Running, env.profile PROVE ProfileOnlyReads!2
      BY DEF ProfileOnlyReads
    <2> DEFINE p == Prepared(env)
    <2>1. env \in Environment /\ server = Configured(p) BY DEF IInv, TypeOK
    <2>2. /\ p.issuer = "good" /\ p.verifyAudience = "true" /\ p.readOnly = "true"
          /\ p.profile = env.profile
      BY <2>1, PreparedFields
    <2>3. AuthMode(p) = "oauth" BY <2>2 DEF AuthMode
    <2>4. ~Drafts(p) BY <2>2 DEF Drafts, ReadOnly, IsTrue
    <2>5. Tools(p) = ReadTools BY <2>4, Tiers
    <2>6. IsTrue(p.verifyAudience, TRUE) BY <2>2 DEF IsTrue
    <2> HIDE DEF p
    <2> QED BY <2>1, <2>2, <2>3, <2>4, <2>5, <2>6 DEF Configured
  <1> QED BY <1>1, StartupInductive, PTL

(* LEXWARE_READ_ONLY overrides every other flag (config.ts:402). *)
THEOREM ReadOnlyOverrides == Spec => []ReadOnlyWins
  <1>1. IInv => ReadOnlyWins
    <2> SUFFICES ASSUME IInv, Running, env.readOnly \in {"true", "yes"}
                 PROVE  server.tools = ReadTools
      BY DEF ReadOnlyWins
    <2> DEFINE p == Prepared(env)
    <2>1. env \in Environment /\ server = Configured(p) BY DEF IInv, TypeOK
    <2>2. p.readOnly \in {"true", "yes"}
      BY <2>1, PreparedFields
    <2>3. ~Drafts(p) BY <2>2 DEF Drafts, ReadOnly, IsTrue
    <2>4. Tools(p) = ReadTools BY <2>3, Tiers
    <2> HIDE DEF p
    <2> QED BY <2>1, <2>4 DEF Configured
  <1> QED BY <1>1, StartupInductive, PTL

(* The lock of the client and the upload routes agree with the tools that    *)
(* are registered (server.ts:40, server.ts:133).                             *)
THEOREM LockMatchesTools == Spec => []ToolsMatchLock
  <1>1. IInv => ToolsMatchLock
    <2> SUFFICES ASSUME IInv, Running PROVE ToolsMatchLock!2
      BY DEF ToolsMatchLock
    <2> DEFINE p == Prepared(env)
    <2>1. server = Configured(p) BY DEF IInv
    <2> HIDE DEF p
    <2>2. /\ server.clientReadOnly = ~Drafts(p) /\ server.uploadRoutes = Drafts(p)
          /\ server.tools = Tools(p)
      BY <2>1 DEF Configured
    <2> QED BY <2>2, Tiers
  <1> QED BY <1>1, StartupInductive, PTL

(* Tools, routes and lock are those the flags ask for. *)
THEOREM FlagsDecide == Spec => []ToolsAsConfigured
  BY ProfileReadsOnly, ReadOnlyOverrides, LockMatchesTools, PTL DEF ToolsAsConfigured

(* Without authentication only if the operator asked for it and configured   *)
(* nothing else (config.ts:370).                                             *)
THEOREM OpenIsAskedFor == Spec => []OpenOnlyIfAsked
  <1>1. IInv => OpenOnlyIfAsked
    <2> SUFFICES ASSUME IInv, Running, server.auth = "none" PROVE OpenOnlyIfAsked!2
      BY DEF OpenOnlyIfAsked
    <2> DEFINE p == Prepared(env)
    <2>1. /\ env \in Environment /\ server = Configured(p)
          /\ AuthAccepts(p)
      BY DEF IInv, TypeOK, Accepts
    <2>2. AuthMode(p) = "none" BY <2>1 DEF Configured
    <2>3. p.issuer = "unset" /\ ~HasToken(p)
      BY <2>2 DEF AuthMode
    <2>4. ~env.profile /\ p = env
      BY <2>1, <2>3, PreparedFields
    <2>5. env.token \in {"unset", "blank"}
      BY <2>1, <2>3, <2>4 DEF HasToken, Environment
    <2>6. IsTrue(p.unauthenticated, FALSE)
      BY <2>1, <2>2 DEF AuthAccepts
    <2>7. env.unauthenticated \in {"true", "yes"}
      BY <2>4, <2>6 DEF IsTrue
    <2> QED BY <2>3, <2>4, <2>5, <2>7
  <1> QED BY <1>1, StartupInductive, PTL

-----------------------------------------------------------------------------
(* Requests to the process. *)

AccessInv ==
    /\ AccessTypeOK /\ IInv
    /\ verdict # "none" =>
         Running /\ \E outage \in Outage : verdict = Gate(server, bearer, outage)

LEMMA GateType ==
    ASSUME NEW c, NEW b, NEW o PROVE Gate(c, b, o) \in Verdict \ {"none"}
  BY DEF Gate, Unexpired, Directly, ThroughProxy, WithSecret, Verdict

(* What a process is, it stays while requests come, and a verdict is what    *)
(* its gate says (server.ts:80).                                             *)
THEOREM AccessInductive == AccessSpec => []AccessInv
  <1>1. AccessInit => AccessInv
    <2> SUFFICES ASSUME AccessInit PROVE AccessInv OBVIOUS
    <2>1. IInv
      BY StartupInit DEF AccessInit
    <2> QED BY <2>1 DEF AccessInit, AccessInv, AccessTypeOK, IInv, NoBearer, Bearer, Verdict
  <1>2. AccessInv /\ [AccessNext]_accessVars => AccessInv'
    <2> SUFFICES ASSUME AccessInv, [AccessNext]_accessVars PROVE AccessInv' OBVIOUS
    <2>1. IInv'
      <3>1. [Next]_vars BY DEF AccessNext, Boots, Asks, accessVars
      <3> QED BY <3>1, StartupStep DEF AccessInv
    <2>2. CASE Boots
      <3>1. ~Running BY <2>2 DEF Boots, Next, Fails, Starts, Running
      <3> QED BY <2>1, <2>2, <3>1 DEF Boots, AccessInv, AccessTypeOK, IInv
    <2>3. ASSUME NEW b \in Bearers, NEW o \in Outage, Asks(b, o)
          PROVE  AccessInv'
      <3>1. bearer' \in Bearer /\ verdict' \in Verdict
        BY <2>3, GateType, AccessAssumption DEF Asks
      <3>2. Running' /\ verdict' = Gate(server', bearer', o)
        BY <2>3 DEF Asks, Running, vars
      <3> QED BY <2>1, <3>1, <3>2 DEF AccessInv, AccessTypeOK, IInv
    <2>4. CASE UNCHANGED accessVars
      BY <2>1, <2>4 DEF accessVars, vars, AccessInv, AccessTypeOK, IInv, Running
    <2> QED BY <2>2, <2>3, <2>4 DEF AccessNext
  <1> QED BY <1>1, <1>2, PTL DEF AccessSpec

(* Who is admitted is entitled (oauth.ts:163, 232), from the environment to  *)
(* the verdict.                                                              *)
THEOREM OnlyEntitled == AccessSpec => []AdmittedIsEntitled
  <1>1. AccessInv => AdmittedIsEntitled
    <2> SUFFICES ASSUME AccessInv, verdict = "admitted" PROVE AdmittedIsEntitled!2
      BY DEF AdmittedIsEntitled
    <2> DEFINE p == Prepared(env)
    <2>1. /\ env \in Environment /\ Running /\ server = Configured(p)
          /\ AuthAccepts(p)
      BY DEF AccessInv, IInv, TypeOK, Accepts
    <2>2. PICK o \in Outage : Gate(server, bearer, o) = "admitted"
      BY DEF AccessInv
    <2>3. /\ p.profile = env.profile /\ p.policy = env.policy
          /\ env.profile => p.issuer = "good" /\ p.proxy # "unset"
          /\ ~env.profile => p = env
          /\ env.policy \in {"assigned", "tenant"}
      BY <2>1, PreparedFields
    <2> HIDE DEF p
    <2>4. /\ server.auth = AuthMode(p) /\ server.entra = p.profile
          /\ server.policy = p.policy /\ server.domains = p.domains
          /\ server.proxied <=> p.proxy # "unset"
          /\ server.verifyAudience <=> IsTrue(p.verifyAudience, TRUE)
      BY <2>1 DEF Configured
    <2>5. server.auth \in {"oauth", "static", "none"} BY <2>4, ModeType
    <2>6. env.profile => server.auth = "oauth" /\ server.proxied /\ server.entra
      BY <2>3, <2>4 DEF AuthMode
    <2>7. server.auth = "oauth" /\ server.proxied =>
             /\ bearer.kind = "proxied" /\ "client" \in bearer.has
             /\ server.entra => /\ {"tenant", "version", "person", "scope"} \subseteq bearer.has
                                /\ server.policy = "assigned" => "grant" \in bearer.has
      BY <2>2 DEF Gate, Unexpired, ThroughProxy, Reply, Delegated, Granted
    <2>8. server.auth = "oauth" /\ ~server.proxied =>
             /\ bearer.kind = "signed" /\ "subject" \in bearer.has
             /\ server.verifyAudience => "audience" \in bearer.has
             /\ server.domains => "email" \in bearer.has
      BY <2>2 DEF Gate, Unexpired, Directly, Genuine, Email
    <2>9. server.auth = "static" => bearer.kind = "secret"
      BY <2>2 DEF Gate, WithSecret
    <2>10. bearer.kind = "none" => server.auth = "none"
      BY <2>5, <2>7, <2>8, <2>9
    <2>11. server.auth = "none" =>
             env.unauthenticated \in {"true", "yes"} /\ env.issuer = "unset"
      BY <2>1, <2>3, <2>4, <2>6 DEF AuthMode, AuthAccepts, IsTrue
    <2>12. server.auth = "oauth" /\ ~server.proxied =>
             /\ "subject" \in bearer.has
             /\ env.verifyAudience \notin {"false", "no"} => "audience" \in bearer.has
             /\ env.domains => "email" \in bearer.has
      <3>1. env.verifyAudience \in Flag
        BY <2>1 DEF Environment
      <3>2. server.auth = "oauth" /\ ~server.proxied => p = env /\ Parsed(env.verifyAudience)
        BY <2>1, <2>3, <2>4, <2>6 DEF AuthAccepts
      <3>3. server.auth = "oauth" /\ ~server.proxied =>
              (env.verifyAudience \notin {"false", "no"} => server.verifyAudience)
        BY <3>1, <3>2, <2>4 DEF Flag, Parsed, IsTrue
      <3> QED BY <3>2, <3>3, <2>4, <2>8
    <2>13. env.profile => /\ bearer.kind = "proxied"
                          /\ {"client", "tenant", "version", "person", "scope"} \subseteq bearer.has
                          /\ env.policy = "tenant" \/ "grant" \in bearer.has
      BY <2>3, <2>4, <2>6, <2>7
    <2>14. server.auth = "oauth" => /\ bearer.kind = (IF server.proxied THEN "proxied" ELSE "signed")
                                    /\ "expiry" \in bearer.has
      BY <2>2, <2>7, <2>8 DEF Gate, Unexpired
    <2> QED BY <2>1, <2>9, <2>10, <2>11, <2>12, <2>13, <2>14
  <1> QED BY <1>1, AccessInductive, PTL

(* The two verifiers admit the same tokens of the profile, although they ask *)
(* in different orders and of differently shaped answers.                    *)
THEOREM OnePolicy == AccessSpec => []VerifiersAgree
  <1>1. AccessInv => VerifiersAgree
    <2> SUFFICES ASSUME AccessInv, Running, server.entra,
                        {"audience", "expiry", "subject", "client"} \subseteq bearer.has
                 PROVE  Directly(server, As("signed")) = "admitted"
                          <=> ThroughProxy(server, Reply(As("proxied"), "no")) = "admitted"
      BY DEF VerifiersAgree
    <2>1. \A k \in {"signed", "proxied"} : As(k).kind = k /\ As(k).has = bearer.has
      BY DEF AccessInv, AccessTypeOK, Bearer, As
    <2>5. "scope" \in bearer.has => "scp" \in bearer.has
      BY DEF AccessInv, AccessTypeOK, Bearer
    <2>2. ~server.domains
      BY PreparedFields DEF AccessInv, IInv, TypeOK, Configured
    <2>3. Directly(server, As("signed")) = "admitted"
            <=> /\ Delegated(bearer.has) /\ "scope" \in bearer.has
                /\ Granted(server, bearer.has)
      BY <2>1, <2>2, <2>5 DEF Directly, Genuine, Email
    <2>4. ThroughProxy(server, Reply(As("proxied"), "no")) = "admitted"
            <=> /\ Delegated(bearer.has) /\ "scope" \in bearer.has
                /\ Granted(server, bearer.has)
      BY <2>1 DEF ThroughProxy, Reply
    <2> QED BY <2>3, <2>4
  <1> QED BY <1>1, AccessInductive, PTL

-----------------------------------------------------------------------------
(* Requests on their way through the layers. *)

LEMMA HttpStart == HttpInit => HttpInv
  <1> SUFFICES ASSUME HttpInit PROVE HttpInv
    OBVIOUS
  <1>1. NoBearer \in Bearer
    BY DEF NoBearer, Bearer
  <1>2. NoRequest \in Request
    BY <1>1 DEF NoRequest, Request, Size
  <1>3. HttpTypeOK
    BY <1>2 DEF HttpInit, HttpTypeOK, Layer
  <1>4. LayersPassed /\ BodiesGuarded
    BY DEF HttpInit, LayersPassed, BodiesGuarded
  <1> QED BY <1>3, <1>4 DEF HttpInv

LEMMA Order ==
    /\ After("framework") = "gate" /\ After("gate") = "raised"
    /\ After("raised") = "upload" /\ After("upload") = "mcp"
  BY DEF After

(* Every layer keeps what the layers ahead of it rely on. *)
LEMMA HttpStep == HttpInv /\ [HttpNext]_<<accessVars, httpVars>> => HttpInv'
  <1> SUFFICES ASSUME HttpInv, [HttpNext]_<<accessVars, httpVars>> PROVE HttpInv'
    OBVIOUS
  <1> USE HttpAssumption DEF HttpInv, HttpTypeOK, LayersPassed, Layer, Size
  <1>1. CASE Arrives
    <2>1. Running' /\ request' \in Requests /\ request' \in Request
      BY <1>1 DEF Arrives, accessVars, vars, Running
    <2> QED BY <1>1, <2>1 DEF Arrives, BodiesGuarded
  <1>2. CASE FrameworkParser
    <2>1. Running' /\ UNCHANGED <<server, verdict>>
      BY <1>2 DEF FrameworkParser, accessVars, vars, Running
    <2>2. request.path \in {"mcp", "upload", "other"} /\ request.size \in Size
      BY DEF Request
    <2> QED BY <1>2, <2>1, <2>2, Order
            DEF FrameworkParser, Deferred, Passes, ParsesJson, Within, BodiesGuarded
  <1>3. CASE PassesGate
    <2>1. Running' /\ UNCHANGED <<server, verdict>>
      BY <1>3 DEF PassesGate, accessVars, vars, Running
    <2> QED BY <1>3, <2>1, Order DEF PassesGate, Gated, Passes, Admitted, BodiesGuarded
  <1>4. ASSUME NEW o \in Outage, AtGate(o) PROVE HttpInv'
    <2>1. Running' /\ UNCHANGED server
      BY <1>4 DEF AtGate, Asks, vars, Running
    <2> QED BY <1>4, <2>1, Order DEF AtGate, Passes, Replies, Admitted, BodiesGuarded
  <1>5. CASE RaisedParser
    <2>1. Running' /\ UNCHANGED <<server, verdict>>
      BY <1>5 DEF RaisedParser, accessVars, vars, Running
    <2>2. request.size \in Size
      BY DEF Request
    <2> QED BY <1>5, <2>1, <2>2, Order
            DEF RaisedParser, Passes, ParsesJson, Within, Admitted, BodiesGuarded
  <1>6. CASE UploadRoute
    <2>1. Running' /\ UNCHANGED <<server, verdict>>
      BY <1>6 DEF UploadRoute, accessVars, vars, Running
    <2>2. request.size \in Size
      BY DEF Request
    <2> QED BY <1>6, <2>1, <2>2, Order
            DEF UploadRoute, Passes, Replies, Admitted, BodiesGuarded
  <1>7. CASE McpHandler
    <2>1. Running' /\ UNCHANGED <<server, verdict>>
      BY <1>7 DEF McpHandler, accessVars, vars, Running
    <2> QED BY <1>7, <2>1 DEF McpHandler, Replies, Admitted, BodiesGuarded
  <1>8. CASE at = "none" /\ AccessNext /\ UNCHANGED httpVars
    BY <1>8 DEF httpVars, BodiesGuarded
  <1>9. CASE UNCHANGED <<accessVars, httpVars>>
    <2>1. UNCHANGED <<phase, server, verdict, located, request, at, body, taken, reply>>
      BY <1>9 DEF accessVars, vars, httpVars
    <2>2. HttpTypeOK' /\ LayersPassed'
      BY <2>1 DEF Running, Admitted
    <2>3. BodiesGuarded'
      BY <2>1 DEF Admitted, BodiesGuarded
    <2> QED BY <2>2, <2>3
  <1> QED BY <1>1, <1>2, <1>3, <1>4, <1>5, <1>6, <1>7, <1>8, <1>9 DEF HttpNext, Walks

(* What the layers a request has passed have settled, for every request and  *)
(* every way the process was configured.                                     *)
THEOREM HttpInductive == HttpSpec => []HttpInv
  BY HttpStart, HttpStep, PTL DEF HttpSpec

(* No body is buffered for nobody, none is inflated or parsed on its way to  *)
(* the upload route, and no one is refused below the limits (server.ts:59,   *)
(* 108, server-body-parsing.ts:55).                                          *)
THEOREM BodiesStayGuarded == HttpSpec => []BodiesGuarded
  <1>1. HttpInv => BodiesGuarded BY DEF HttpInv
  <1> QED BY <1>1, HttpInductive, PTL

(* Between the layers the process and its gate behave as AccessPolicy says,  *)
(* so that its theorems hold for requests that take the whole way.           *)
THEOREM HttpUsesAccess == HttpSpec => AccessSpec
  <1>1. HttpInit => AccessInit BY DEF HttpInit
  <1>2. HttpInv /\ [HttpNext]_<<accessVars, httpVars>> => [AccessNext]_accessVars
    <2> SUFFICES ASSUME HttpInv, HttpNext PROVE [AccessNext]_accessVars
      OBVIOUS
    <2>1. ASSUME NEW o \in Outage, AtGate(o) PROVE AccessNext
      <3>1. request.bearer \in Bearers
        BY <2>1, HttpAssumption DEF AtGate, HttpInv, LayersPassed
      <3> QED BY <2>1, <3>1 DEF AtGate, AccessNext
    <2> QED BY <2>1 DEF HttpNext, Walks, Arrives, FrameworkParser, PassesGate, RaisedParser,
              UploadRoute, McpHandler
  <1> QED BY <1>1, <1>2, HttpInductive, PTL DEF HttpSpec, AccessSpec
=============================================================================
