# A TLA+ model of the Lexware MCP server

This directory holds TLA+ models of the server in `src/` (an MCP server in front of the
Lexware Office API), the TLC configurations that check them on small instances, and
TLAPS proofs of their main properties for every size. File and line references are
relative to the repository: `routes.ts:163` is `src/uploads/routes.ts`, line 163.

## The system

| part | state it keeps | operations | talks to |
| --- | --- | --- | --- |
| Ticket store (`uploads/tickets.ts`) | map of tickets with expiry, in-flight flag and result; set of tickets whose body is being read | create, claim, release, complete, peek, sweep, begin/endBodyRead | called by routes and tools |
| Upload routes and tools (`uploads/routes.ts`, `tools/uploads.ts`) | open requests | GET and POST `/upload/:ticket`, create-upload-ticket, get-upload-result | store, client |
| Rate limiter (`lexware/rate-limiter.ts`) | tokens, lastRefill, promise chain | acquire | wall clock, timers |
| Client (`lexware/client.ts`) | one limiter; one retry loop per call | request, getBinary, postMultipart | limiter, Lexware over HTTPS |
| Idempotent delete (`tools/shared.ts`) | none | deleteIdempotent | client |
| Update tools (`tools/vouchers.ts`, `contacts.ts`, `articles.ts`) | the record read | GET, merge, PUT | client |
| Access tokens (`oauth.ts`, `entra.ts`, `auth.ts`) | cache of token to email | verifyAccessToken, verifyProxyAccessToken | identity provider, loopback proxy |
| Remote download (`uploads/fetch-url.ts`, `pinned-fetch.ts`, `tools/url-upload.ts`) | one abort timer and agent per download | fetchRemoteFile, upload-file-from-url | DNS, file hosts, client |
| File names (`uploads/filename.ts`, and its users) | none | sanitizeFilename, the chains of candidates | routes, upload-file-from-url |
| Document tools (`tools/documents.ts`) | running totals of one walk | summarize-vouchers, get-vouchers, get-voucher-file, create-draft, create-finalized | client |
| Configuration (`config.ts`, `tools/index.ts`) | capability tiers, auth mode | loadConfig, registerTools | environment |
| Gateway (`gateway.ts`, `auth_gateway.py`) | two child processes, shuttingDown | proxy, /status, shutdown, token check | children |
| Server assembly (`server.ts`, `server-body-parsing.ts`) | the router's layers | swap of the JSON parser, mounting | every request |
| Schemas, read tools, upload page | none that changes | - | - |

The program is one Node process (two more beside the gateway in the Naturbummler
deployment). Handlers interleave at their awaits and share the ticket store and the
limiter. What is hard: requests that race for one ticket, clients that hang up,
tickets that expire while something happens to them, calls to Lexware whose answer is
lost although they were (or will be) carried out, a wall clock that is not monotonic, and a
process that restarts and forgets its tickets.

What makes each part correct: a ticket files one receipt and never dies silently; a
body slot is never stranded; the user is told the truth about a ticket; the limiter
exceeds what Lexware allows by no more than its clock was set forward, and serves everyone; a POST is carried out once; the outcome
a call reports is the outcome it had; an update is atomic and changes only what it names;
a create tool says what there is; no caller starves behind a batch; nobody is let in who is not entitled, or turned
away on old news; no large body is read for nobody; a download reaches checked addresses only, leaves no socket behind
and is filed whole or not at all; a stored name is safe and the best that was offered; a total covers what it says; tools, routes and locks fit the
configuration; the gateway's exit code and status are true.

## Modules and how they correspond to the code

**TicketStore** is `uploads/tickets.ts`. A `TicketState` object is split over sets:
`entries` (keys of the map), `inFlight`, `results`; `expiresAt` is the field, `readingBody`
the set of the same name, `now` what `now()` returns. Each method is one operator, because
each is synchronous. Every lookup includes the eviction it performs (`Peek`).

**UploadRoutes** puts the Express handlers and the two MCP tools on top. One action is what
a handler does between two awaits. `PostUpload` is the pre-check and the slot middleware
up to `express.raw()`; `BodyRead`, `BodyRefused`, `BodyFails` are the three ways that
ends; `UploadSucceeds`, `UploadRejected`, `UploadLost`, `UploadServerError`,
`UploadEmptyAnswer` the ways `upload()` ends; `HangUp` and `ResponseCloses` the two
occasions of the close event. The environment stores files (`LexwareStores`), finishes or drops calls the
server gave up on (`LooseCallEnds`), moves the clock and restarts the process. `told`,
`filed`, `doubts`, `warned`, `finishedAt` record history and influence nothing but a bound.

**UploadTicket** is what the server promises of one ticket, with no store, request or
clock: unissued, open, lent, filed, void. **UploadProperties** states the properties and
the refinement mapping `Life`; **MCUpload** adds the symmetry set.

**RateLimiter** is `lexware/rate-limiter.ts`. Tokens are counted in milliseconds of
refilling, so there are no fractions; `lag` is `now() - lastRefill`; `chain` is the
promise chain. `level` is a second bucket, the one Lexware keeps, refilled in real time,
while the program's own clock may be set back and forward by the system. What a step forward mints is in `lead`, until Lexware's
bucket has been full once more. A call is charged to `level` when it is let through: the way to Lexware takes no time in the model.

**LexwareClient** extends it with `sendWithRetry`, one call per caller: `Refuse` (the two
checks before the loop), `AskLimiter`, `Send`, and one action per way an attempt ends.
Lexware carries out an attempt (`LexwareExecutes`) independently of whether its answer
arrives, and may do so after the client gave up on it (`LooseAttemptEnds`). The
translation of a 404 by `deleteIdempotent`, and of no other rejection, is in `RejectionsOf`.

**WriteCall** is what the client promises whoever sends a write: it takes effect at most once,
perhaps late or unnoticed, and what its sender is told agrees with that.

**ToolCalls** puts the tools on the client: each invocation of one has a sequence of calls.
`get-vouchers` and `get-voucher-file` send theirs one after the other (`TurnOf`), a batch going on after a
failure; `create-draft-*` and `create-finalized-*` check their arguments (`Accepts`, with what
`jsonBool` makes of a text) and then send one POST, whose query decides what comes into
being; the delete tools translate a 404. Tools overlap in any way, and their calls queue in the one limiter.

**VoucherBody** is the body `update-voucher` puts, as a function of the record and the
caller's fields, and what Lexware makes of it. **RecordUpdate** is the GET, the merge and the
PUT by calls that run at once, with other users, lost answers and late PUTs;
**AtomicUpdate** is what that amounts to: each update at one moment, once. **Merge** is
`deepMergePatch` and `mergeAddresses` as the code writes them, against an overlay
of leaf paths, which is how `VoucherBody` treats a record. An object is a function on all names of properties,
`Undefined` where it has none; objects are nested at most `Depth` deep, so both the merge and the reference are recursive functions on a set. **FileNames** is `sanitizeFilename`, step by step, over
names of six kinds of code units, and the two chains of candidates (`resolveFilename` of the
routes, `resolveDownloadName` of the tool).

**TokenVerifier** is the email-domain check of `verifyAccessToken` after the signature was
verified. A call is split at the userinfo lookup; what `nowSec` was before it is used after it,
as in the code. `word` remembers when the provider last named an email.

**RemoteFetch** is one `fetchRemoteFile`: check the host, resolve, dial a pinned address, wait,
follow a redirect or read. `open` and `closing` are the sockets of all hops.
**AddressRanges** is `isBlockedAddress`: the groups of an IPv6 spelling put together into
sixteen bytes, and the ranges of either family. **HostNames** is `isAllowedHost`, by characters as in
the code; the alphabet and its lower case are parameters. **Networks** and **DomainNames** say what the two filters are to
judge by, without the code's way of doing it: the table of networks the code and its documents name, IPv6 multicast included, compared bit by bit, and the bytes a text `Spells`; the labels
of a name, of which the last are to be those of the domain (`Below`). **UrlUpload** extends the download to
`upload-file-from-url`: the file is posted once the download is
complete, through a client of which only `WriteCall` is known. **MCRemoteFetch** lets names resolve to real addresses,
and has TLC compare filters and references (multicast apart) first: names of up to four characters match domains of up to three exactly if their labels do; the ranges agree
with the table at both sides of every boundary; and every spelling of six addresses
(zero runs compressed anywhere, dotted tail, zone) is read as the bytes it spells. `FetchProofs` shows all of that without bounds.

**VoucherPages** is `summarize-vouchers`: one `ReadPage` per turn of its loop; between two of
them other users `Book` and `Delete`. `seen`, `stayed`, `added`, `removed` are history. **MCPure** runs it, `Merge` and `FileNames`
side by side; they share nothing.

**Startup** is a process start as a function of its environment: `Prepared` is
`entraEnvironment`, `AuthAccepts` is `resolveAuth`, `Drafts`, `Finalize` and `UrlUpload` are the
tiers, `Tools` is `registerTools`. A flag keeps its spelling, because `entra.ts` compares
strings where `config.ts` parses them. **AccessPolicy** extends it with a request for `/mcp`:
the gate `server.ts` mounts, `Directly` (`verifyAccessToken`) and `ThroughProxy`
(`verifyProxyAccessToken`) over what `auth_gateway.py` replies. A token is the set of what is
true of it; the email in it is what `TokenVerifier` establishes. Both verifiers stand as the code writes
them, with their different orders, so that their agreement is a property and not a definition.
**HttpAssembly** extends that to any request, with a path, a content type and a body, which one layer after the other has:
the framework's JSON parser, swapped (`Deferred`) if it was `located`, the gate, the raised parser,
the upload route and the MCP handler. `taken` is how much of its body was buffered.

**Gateway** is the supervisor: events of the children, a signal, the grace timer, the two errors nobody handles (the one of
`listen()`, and `new URL()` in the async handler), and
`/status`, whose two probes are answered at different moments. **Deployment** puts it and the application together: in an
environment of `Observed` the application becomes ready when it `Starts` and ends when it `Fails`; elsewhere there is no gateway.

In all modules, a definition whose comment begins with "Slip" is a plausible mistake in
the definition it precedes. No specification uses it; it is there to show that a property
notices the mistake.

## What the runs check

| run | question | bounds |
| --- | --- | --- |
| `upload_requests` | Is the claim or the body slot of a ticket ever held twice or stranded, is it always let go of, is a file ever unaccounted for? | one ticket, three requests (two racing and one replacing a request that hung up), TTL 2, clock to 5, three doubtful attempts |
| `upload_tickets` | Does each ticket live the life of `UploadTicket`, and does a user hear the truth? | two tickets, two requests, TTL 2, clock to 4 so that a ticket created or finished late expires |
| `upload_duplicates` | expected violation: the duplicate warning is missing on a 5xx and on an empty 2xx | one ticket, one request |
| `client_writes` | Is the limiter ever ahead of Lexware's bucket? Does each write keep to `WriteCall`, and is the caller of a create or delete tool told what there is? Is a call ever held up by more than one call of another tool, and does every tool answer? | two of a reading tool with two calls, a create and a delete tool overlap, one retry per call, a bucket of one call that they overdraw, the clock set back or forward by one unit |
| `client_delete` | expected violation: a repeated DELETE reports "already absent" for its own deletion | one DELETE, one retry |
| `record_updates` | Is an update ever lost, wiped, misreported or refused for what the caller did not say? Also checks `AtomicUpdate`. | two calls, two edits by others, three records, seven patches (each special field alone, both contact fields, an empty contact id, a derived status) |
| `pure_algorithms` | Is a merge an overlay of leaf paths, after any sequence of updates? Is a stored file name always safe, and the best of those offered? Are the totals of a list exact and properly labelled, is the cap on pages right at its boundary, how far off can totals be if the list changes between pages? | all patches of one nested object (`Depth` 1) and one leaf, lists of up to two addresses; all names of up to four code units of six kinds with their surrogate pairs whole, and some with lone halves, cut at three, in each place of both chains; every list of up to five vouchers, two pages of two, two changes, a group in two currencies, a negative amount |
| `token_verdicts` | Is a user ever admitted or turned away on old news, does the cache keep its limit? | two calls at a time; a token that expires, one without expiry and one with an email claim; a cache of one, which the first two overflow; clock to 4 |
| `remote_fetch` | Where does a download connect to, however an address is spelt, what does it keep, which sockets does it leave, is what gets filed the whole file, does the tool answer when nobody else does? | two hosts below a listed domain, in odd spellings, and one that only ends like it; a public address, an internal one in three spellings, a multicast one and text that is none; two redirects, three bytes |
| `remote_multicast` | expected violation: a download connects to an IPv6 multicast address | as `remote_fetch`, one redirect |
| `deployment` | Which tools, locks and checks does an environment lead to, who is then let in, do the two verifiers agree, whose bodies are read? Do the gateway's exit code and `/status` tell the truth, does it end with a child and after a signal, and answer `/status`, although children hang? | all spellings of the tier flags (2592 environments), all ways to configure authentication (10368) and access (128); every kind of token, lacking up to two of eleven things; in six environments, one of each mode with and without uploads, every request of three paths in two spellings, three sizes and three tokens; in two environments of the profile, one of which is refused, a gateway with two children and two overlapping status requests |
| `proxy_domains` | expected violation: a proxy is configured and the list of email domains is ignored | the environments that vary access |

The bounds `MaxNow`, `MaxDoubts`, `MaxShift`, `MaxRetries`, `MaxEdits`, `MaxChunk`, `Together` and
`MaxChanges` stand in guards or constants of the modules. `MaxDoubts` is in the guard of `PostUpload` only: it stops new attempts and never
the handling of one that is under way. Three requests exceed what any property relates
(two), TTL 2 leaves a state strictly between creation and expiry. The proofs do without
any of these values.

**Fairness.** `FairSpec` of UploadRoutes assumes that a read body ends (Node's request
timeout and the connection), that `upload()` settles (each attempt ends by
`AbortSignal.timeout`, client.ts:194, and attempts are bounded) and that a written
response closes. The limiter and the client assume that timers fire, promise callbacks run and
time passes; `FairToolSpec` adds that a tool's next call and its answer are not put off, which the event loop
sees to. RemoteFetch assumes that its handler runs, lookups end, the timer fires and a socket that was
told to close does, and `FairUploadSpec` that the client settles the POST, as `EveryToolAnswers` shows of it; Gateway that events are delivered and timers fire. Nothing is assumed of users, of Lexware,
of file hosts, of the children of the gateway, or of calls the server gave up on.

`CHECK_DEADLOCK FALSE` stands where the system really stops: all calls settled (`record_updates`),
nothing left to try or a walk that is done (`pure_algorithms`), a download that ended (`remote_fetch`), a request that was answered or a
gateway that exited (`deployment`). It is left on elsewhere.

## What is proved

For any number of tickets, requests and callers and any value of the parameters, assuming only
the `ASSUME`s of the modules (TTL, cost and capacity are positive, methods are GET, POST or DELETE, a userinfo
lookup times out before an answer is forgotten, records and callers name a contact in ways Lexware allows, the vouchers are
finitely many, a name is a sequence of code units of the kinds named, and of these at least two fit, contacts and patches
are objects of some depth and addresses lists of them, the lower case of a character is a dot just if it is one):

- `UploadProofs`: all safety properties of the upload path, and that it implements
  `UploadTicket`. None of the properties is inductive by itself. `IInv` adds which handler stands
  behind each flag (`Claims`: an entry is in flight exactly while one handler uploads
  through it), that a reader's ticket is never in flight (`Slots`, the reason a hang-up
  cannot let a second body in), what the recorded history says of the store (`History`) and, for the files,
  that a call on the wire has an allowance of its own (`Ledger`).
- `ClientProofs`, from the limiter up: `NeverAhead` (with the type invariant it is inductive: each step of real
  time feeds Lexware's bucket at least as much as the program's, steps back and earlier steps forward leave nothing behind, and a
  step forward adds at most itself) and what follows from it. With a clock that is never set forward (`lead = 0`) that says that
  every call and every fetch finds a token at Lexware; the client
  refines the limiter's specification, so the limiter's theorems hold inside it; the client implements
  `WriteCall`; the tools use the client as its specification allows, so all of that holds while they overlap. `ToolInv` adds who
  may be in the chain (only the call whose turn it is), from which `FairShare` and `ToldWhatExists` follow.
- `RecordProofs`: the update tools implement `AtomicUpdate`, honour a caller's version, change
  named fields only and report what they did. The invariant adds `Fresh`: a PUT that can still be
  carried out was made from the record as it is, or carries a version that is outdated. It rests on the
  assumption, in `Get`, that a version a caller passes is one it read before.
  `UpdatesUseWriteCall`: the PUT of an update is a write as `WriteCall` specifies it, which is what `LexwareClient` implements.
- `TokenProofs`: admissions and denials rest on recent word, the cache is bounded. The invariant
  adds `EntriesVouched` (no entry outlives the answer it stems from) and `LookupsTimely`.
- `FetchProofs`: every safety property of a download. The invariant adds what has been checked
  at each point (`Checked`) and that sockets belong to this hop or an earlier one. `UrlUpload` refines the download,
  and what it files is the whole of what came: the limit throws away the file with the excess, and `FileFirst` keeps the POST behind it.
  That a download stays outside, or on IPv6 multicast (`ReachesOnlyOutside`), assumes nothing of the two filters but what they are; the work is to
  show that they judge right, for all inputs:
  - *Addresses* (`BlockedIsInternal`). A byte is told by its bits, so a comparison of prefixes is one of quotients (`BitsAreDigits`), network by
    network. Two runs of groups with zeros between them are put together to the only sixteen bytes the text spells (`Filled`).
  - *Names* (`AllowedIsBelow`). Reading character by character, a dot starts a label: what follows it is read as a name of its own
    would be (`LabelsBehindDot`), and names with the same labels are the same but for case (`SameLabels`). If the labels of one name end with
    those of another, the first position at which enough labels have begun is the dot that `endsWith` finds (`LabelSuffix`). The
    root is an empty label more (`RootedLabels`); a domain that is nothing but a root is none.
- `StartupProofs`: a running process is a function of its environment (`IInv`), and a verdict one of
  the process (`AccessInv`). Every property of `Startup` and `AccessPolicy` follows, for every set
  of environments and tokens; that the two verifiers agree needs that the profile empties the list of email
  domains (entra.ts:74). `HttpInv` says what the layers behind a request have settled for those ahead (`LayersPassed`), and
  `BodiesGuarded` follows, as does that the layers use the gate as `AccessPolicy` allows.
- `GatewayProofs`: exit code and `/status` tell the truth, for any number of children and requests. The invariant adds that
  a child that ended before a signal was not asked to and that a port that is taken shows before any signal (`BeforeSignal`), and that who is ready while a
  request is answered is on its record (`ProbesSaw`). `DeploymentComposes`: gateway and application together do only what each
  may by its own specification, so the theorems about either hold.
- `DataProofs`, where the argument is about data rather than interleavings:
  - *Names.* A stored name is safe (`NamesAreSafe`, which includes that sanitizing it again changes nothing) and is the best
    of those offered (`NamesAreKept`), for names of any length and any limit of at least two code units. One step makes a name,
    so the invariants are the properties; the work is in the lemmas, one per stage of `sanitizeFilename`: what
    filtering, basename, trimming and the cut each keep and remove, and that a cut never takes all that can be seen.
  - *Merges.* A merge is an overlay of leaf paths (`MergesAreOverlays`), for objects of any depth, any properties and any
    lists of addresses, after any sequence of updates. `ContactInv` says that a contact stays an object with lists of objects;
    the work is in three steps. The recursion ends, as an object inside another is less deep (`MergingIs`, `LeavesIs`), which gives
    induction over objects (`ObjectInd`). An overlay of paths is made up of one for each first step, or for each
    kind and index (`OverlayByHead`). And for one property the merge of two values is the overlay of their leaves, whichever of object, leaf,
    empty object and nothing at all each of them is (`MergedProperty`).
  - *An unchanged list.* Its totals are exact, for any list, page size and cap. The invariant says that the rows before the
    page read next are counted, once each (`CountedUpTo`).
  - *A list that changes.* `OffByChanges` is not inductive: what the walk has counted twice so far says nothing of what it will
    count twice. `OffInv` splits the list at the boundary of the page read next. Counted rows beyond
    it (they will be counted again) and repeats so far number at most the bookings, as one booking pushes at most one row over the
    boundary; rows that were there all along, lie before it and are not counted number at most the deletions, as one deletion
    pulls at most one back.
  - *The totals.* `TotalsInv` says of the groups that they are those of the rows counted so far, each as often as it was: by
    their keys, their counts, the sum of their sums and the currencies they name. It is kept row by row within a page,
    since a row changes one group and with it the sum by its amount.

  Filters and sums are folds. The facts about them (`Without`, `SumFunctionOnSet`) need induction, and the induction theorems of
  the library are out of the prover's reach. The first section therefore starts from the library's theorem that the subsets of
  a finite set are well-founded: a non-empty set of naturals, or of such subsets, has a minimal element, so a statement
  is proved by taking a minimal one of its counterexamples, and the function a fold recurs by exists.

Some theorems state properties no run lists, because they follow from those that are run or
are simpler: the type invariants and the inductive invariants, `AnswersMoveForward`,
`NeverThrottled` and `NoWastedSleep`, `EveryFetchPaid`, `PostAtMostOnce` and `SettledHonestly`, `WaitingIsQueued`,
`AttemptsBounded`, `OpenOnlyIfAsked`. `OffInv`, `TotalsInv` and `ContactInv` stand in `DataProofs`, beside the proofs they serve.

Only model-checked: everything under fairness (`ClaimIsReturned`, `EveryToolAnswers`,
`EndsAndCloses`, `NoHalfService`, `StatusAnswered`), because the prover handles neither liveness under
fairness nor ENABLED.

## Where code and documents differ

- `upload_duplicates`: CHANGELOG.md:130-132 names one case in which a receipt may be filed twice
  and says the error warns of it. A 5xx answer (routes.ts:196-199) and a 2xx answer
  with an empty body (routes.ts:169, 214) release the ticket as well, without the warning.
- `client_delete`: shared.ts:96-98 says callers can tell "deleted it" from "it was already
  absent". A DELETE that is repeated after a lost answer is told its own deletion was
  already there.
- `proxy_domains`: config.ts:77 calls the list of email domains a hard backstop, README.md:142-143 and
  .env.example:38 say it is enforced by the server. Where OAUTH_PROXY_VERIFY_URL is set, oauth.ts:162-217 never looks at it. The profile
  empties the list itself (entra.ts:74), so the disagreement shows outside the profile, which `AdmittedIsEntitled` therefore leaves
  to this run.
- `remote_multicast`: fetch-url.ts:161-164 and README.md:81-83 say that multicast is rejected in IPv6 as in IPv4;
  fetch-url.ts:134-159 lets ff00::/8 through. `DialsVetted` and the theorems exempt just these addresses. What else of IPv6 is "reserved"
  the documents do not say, and the table has nothing for it.

Observed and modelled as it is: a 2xx answer whose body is not JSON completes the ticket
with no file id; with a clock set back the limiter refills nothing until the clock has caught up, and with
a clock set forward it hands out tokens for time that has not passed (rate-limiter.ts:31-35), so that Lexware, whose limit the bucket is to keep (rate-limiter.ts:4-6), may answer 429; a
missing API key answers 503 with nothing sent.
A userinfo lookup that fails, or finds no verified email, does not evict what an earlier one put in the cache, and of two
overlapping lookups the one that is answered last wins. A total of a list that grew and shrank
may count one voucher twice and miss another with no visible sign of it (`scanned` and `totalElements` agree).
A proxied token check that times out is answered like an invalid token (oauth.ts:173). Of a token of the wrong tenant
and without the scope, one verifier names the scope and the other the tenant, so its caller is told 403 by one and 401 by the other; one
without the claim `scp` is a 401 to `verifyAccessToken` in any case.
A request target that `new URL()` refuses ends the gateway with code 1 (gateway.ts:82, `TargetThrows`), as does a port that is taken (gateway.ts:95,
`ListenError`); `ExitTellsWhy` names both beside the children. An invalid port number throws before either child is started (gateway.ts:8-11) and is left out.
When the gateway ends because one child did, the other is left to the container.
A create tool reads `id` of the answer (documents.ts:516, 563): a 2xx with an empty body throws a TypeError although the
document exists, which `Created` allows for; the caller is then told of an error that leaves open what happened.
The error text of a call whose Lexware issues cannot be described drops those issues (lexware/errors.ts).
A lone half of a surrogate pair inside a name is kept as it came; only the cut takes care not to make one.

## What is not modelled, and why

Wording, formatting and schemas are left out, as is the upload page, a static document. The plain read tools,
and those of documents.ts that are one GET with a formatted answer, keep no state; their calls are those of `LexwareClient`.
How a URL is parsed, how a body is inflated and how multipart fields are encoded is the platform's.
Floating-point rounding of sums is left out: amounts are cents, of either sign. The time a call takes on its way to Lexware is left out of
`RateLimiter`, so calls that a network bunches together, which Lexware may count closer than they were sent, are not in the model.

The gateway's proxy (gateway.ts:56-71) pipes bytes between two sockets and keeps no state but theirs: what it does when either side
hangs up is the behaviour of Node's sockets, of which the code says nothing. The deployment with a gateway runs the read-only profile,
which mounts no upload routes, so the handling of hang-ups in `UploadRoutes` is never behind it.

`UploadRoutes` and `RecordUpdate` describe their calls to Lexware by what can become of them, not over `LexwareClient`: their POST
and PUT are sent once, and the cases of both modules are the outcomes `WriteCall` allows, with the answers that matter told
apart (lost, 5xx, empty). For the PUT that is a theorem (`UpdatesUseWriteCall`); for the POST of the uploads it is by reading.

## How the project can grow

The liveness properties hold on small instances; a proof needs a prover that handles ENABLED. Composing `RecordUpdate` with `ToolCalls` would show updates and batches sharing one limiter;
nothing in the code makes them depend on each other in any other way.
