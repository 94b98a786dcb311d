---------------------------- MODULE HttpAssembly ----------------------------
(***************************************************************************)
(* The way of one request through the layers that src/src/server.ts mounts, *)
(* in their order: the JSON parser of the framework, which                  *)
(* server-body-parsing.ts takes off /mcp and /upload, the gate, the parser  *)
(* with the raised limit, the upload route and the MCP handler.             *)
(***************************************************************************)
EXTENDS AccessPolicy

(* A body is "small" within about 100 KB, "big" within 12 and 20 MB, "huge"  *)
(* beyond. That of a gzipped request is as big as it is once inflated.       *)
Size == {"small", "big", "huge"}

Request == [path : {"mcp", "upload", "other"},
            spelt : {"lower", "mixed"},   \* Express does not mind
            json : BOOLEAN,               \* its content type
            gzip : BOOLEAN,
            size : Size,
            ticket : BOOLEAN,             \* the one in the path is usable
            bearer : Bearer]

CONSTANTS Requests,   \* those that are sent
          Followed    \* the environments in which they are followed

ASSUME HttpAssumption ==
    /\ Requests \subseteq {q \in Request : q.bearer \in Bearers}
    /\ Followed \subseteq Environments

VARIABLES located,   \* deferBodyParsingFor() found the framework's parser
          request,
          at,        \* the layer that has it, "none" before it came
          body,      \* req.body: "unread", "parsed" by JSON or "raw"
          taken,     \* how much of the body was buffered at most
          reply

httpVars == <<located, request, at, body, taken, reply>>

Layer == {"none", "framework", "gate", "raised", "upload", "mcp", "end"}

HttpTypeOK ==
    /\ located \in BOOLEAN
    /\ request \in Request
    /\ at \in Layer
    /\ body \in {"unread", "parsed", "raw"}
    /\ taken \in {"none"} \union Size
    /\ reply \in {"none", "too large", "denied", "refused", "unsupported", "empty", "filed",
                  "mcp", "not found"}

NoRequest == [path |-> "other", spelt |-> "lower", json |-> FALSE, gzip |-> FALSE,
              size |-> "small", ticket |-> FALSE, bearer |-> NoBearer]

HttpInit ==
    /\ AccessInit
    /\ located = FALSE /\ request = NoRequest
    /\ at = "none" /\ body = "unread" /\ taken = "none" /\ reply = "none"

-----------------------------------------------------------------------------
(* Slip: the raised parser is mounted before the gate.                       *)
RaisedFirst(layer) ==
    [framework |-> "raised", raised |-> "gate", gate |-> "upload", upload |-> "mcp"][layer]

(* The order of mounting. *)
After(layer) ==
    [framework |-> "gate", gate |-> "raised", raised |-> "upload", upload |-> "mcp"][layer]

(* isMcpPath() or isUploadPath(): in whatever case, as Express routes.       *)
(* Slip: compared as it is spelt.                                            *)
LowerOnly(q) == located /\ q.path \in {"mcp", "upload"} /\ q.spelt = "lower"
Deferred(q) == located /\ q.path \in {"mcp", "upload"}

Passes == at' = After(at) /\ UNCHANGED <<body, taken, reply>>

Replies(r) == reply' = r /\ at' = "end" /\ UNCHANGED <<body, taken>>

(* express.json() with a limit: it leaves other content types alone, and a   *)
(* body that was read; what is beyond the limit is not kept.                 *)
Within(limit) == IF limit = "small" THEN {"small"} ELSE {"small", "big"}

ParsesJson(limit) ==
    IF ~request.json \/ body # "unread" THEN Passes
    ELSE IF request.size \in Within(limit)
         THEN body' = "parsed" /\ taken' = request.size /\ at' = After(at) /\ UNCHANGED reply
         ELSE taken' = limit /\ reply' = "too large" /\ at' = "end" /\ UNCHANGED body

-----------------------------------------------------------------------------
(* Whether the parser is located is settled before any request.              *)
Arrives ==
    /\ Running /\ env \in Followed
    /\ at = "none" /\ verdict = "none"
    /\ located' \in BOOLEAN
    /\ request' \in Requests
    /\ at' = "framework"
    /\ UNCHANGED <<accessVars, body, taken, reply>>

FrameworkParser ==
    /\ at = "framework"
    /\ IF Deferred(request) THEN Passes ELSE ParsesJson("small")
    /\ UNCHANGED <<accessVars, located, request>>

Gated == request.path = "mcp" /\ server.auth # "none"

PassesGate ==
    /\ at = "gate" /\ ~Gated
    /\ Passes
    /\ UNCHANGED <<accessVars, located, request>>

AtGate(outage) ==
    /\ at = "gate" /\ Gated
    /\ Asks(request.bearer, outage)
    /\ IF verdict' = "admitted" THEN Passes ELSE Replies("denied")
    /\ UNCHANGED <<located, request>>

(* Mounted only beside a deferred parser. *)
RaisedParser ==
    /\ at = "raised"
    /\ IF located /\ request.path = "mcp" THEN ParsesJson("big") ELSE Passes
    /\ UNCHANGED <<accessVars, located, request>>

(* POST /upload/:ticket where it is mounted: the ticket before the body, no  *)
(* inflating, and a guard against a body that was parsed before.             *)
UploadRoute ==
    /\ at = "upload"
    /\ IF request.path # "upload" \/ ~server.uploadRoutes THEN Passes
       ELSE IF ~request.ticket THEN Replies("refused")
       ELSE IF body # "unread" THEN Replies("empty")
       ELSE IF request.gzip THEN Replies("unsupported")
       ELSE /\ at' = "end"
            /\ IF request.size = "huge"
               THEN taken' = "big" /\ reply' = "too large" /\ UNCHANGED body
               ELSE taken' = request.size /\ body' = "raw" /\ reply' = "filed"
    /\ UNCHANGED <<accessVars, located, request>>

McpHandler ==
    /\ at = "mcp"
    /\ Replies(IF request.path = "mcp" THEN "mcp" ELSE "not found")
    /\ UNCHANGED <<accessVars, located, request>>

Walks == \/ Arrives \/ FrameworkParser \/ PassesGate \/ (\E outage \in Outage : AtGate(outage))
         \/ RaisedParser \/ UploadRoute \/ McpHandler

(* Or the gate alone, as AccessPolicy has it. *)
HttpNext == Walks \/ (at = "none" /\ AccessNext /\ UNCHANGED httpVars)

HttpSpec == HttpInit /\ [][HttpNext]_<<accessVars, httpVars>>

-----------------------------------------------------------------------------
(* Properties *)

Admitted == server.auth = "none" \/ verdict = "admitted"

(* Before anybody knows who sends it, no more of a body than the small limit *)
(* is buffered, however the path is spelt: it takes an admitted caller of    *)
(* /mcp, or a usable ticket, and even that inflates nothing. Nobody reaches  *)
(* the MCP handler past the gate. And the limits are no lower than that: who *)
(* may send a body is not turned away for its size, nor does an upload come  *)
(* out empty because a JSON parser had it first, as long as the parser of    *)
(* the framework was located; if not, at least nothing parsed is filed.      *)
BodiesGuarded ==
    /\ taken \in {"big", "huge"} =>
         \/ request.path = "mcp" /\ Admitted
         \/ request.path = "upload" /\ request.ticket /\ ~request.gzip
    /\ reply = "mcp" => Admitted
    /\ reply = "filed" => body = "raw"
    /\ located /\ reply = "too large" => request.size = "huge" \/ request.path = "other"
    /\ located => reply # "empty"

-----------------------------------------------------------------------------
(* The inductive invariant *)

(* What the layers behind have settled for those ahead. *)
LayersPassed ==
    /\ at # "none" => Running /\ request \in Requests
    /\ at = "none" => reply = "none" /\ taken = "none"
    /\ at \in {"none", "framework"} => body = "unread"
    /\ at \in {"raised", "upload", "mcp"} /\ request.path = "mcp" => Admitted
    /\ at \in {"gate", "raised"} => taken \in {"none", "small"}
    /\ located /\ at \in {"gate", "raised"} /\ request.path # "other" => body = "unread"
    /\ located /\ at = "upload" /\ request.path = "upload" => body = "unread"
    /\ at \notin {"none", "end"} => reply = "none"
    /\ at = "framework" => taken = "none"

HttpInv == HttpTypeOK /\ LayersPassed /\ BodiesGuarded

=============================================================================
