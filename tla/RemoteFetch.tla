---------------------------- MODULE RemoteFetch ----------------------------
(***************************************************************************)
(* fetchRemoteFile() of src/src/uploads/fetch-url.ts and the connection it *)
(* makes through src/src/uploads/pinned-fetch.ts: one download that hops   *)
(* along redirects, among name servers that answer differently each time,  *)
(* peers that say what they like, and a timer that fires at any moment.    *)
(***************************************************************************)
EXTENDS Integers, FiniteSets

CONSTANTS Host,          \* names a URL can have
          Allowed,       \* those isAllowedHost() accepts
          Trusted,       \* those the operator listed, with what is below them
          Address,       \* addresses a name can have
          Blocked,       \* those isBlockedAddress() rejects
          Internal,      \* those nobody may reach through this server
          Multicast,     \* those of IPv6 multicast
          MaxRedirects,
          MaxBytes,
          MaxChunk       \* bound on what one read returns

ASSUME FetchAssumption ==
    /\ Allowed \subseteq Host
    /\ Trusted \subseteq Host
    /\ Blocked \subseteq Address
    /\ MaxRedirects \in Nat /\ MaxBytes \in Nat /\ MaxChunk \in Nat

VARIABLES pc,       \* where the handler stands
          hop,
          host,     \* of the URL of this hop
          vetted,   \* the addresses the connection is pinned to
          aborted,  \* controller.signal.aborted
          timer,
          total,    \* bytes kept
          open,     \* hops whose socket is open
          closing,  \* those whose agent will be destroyed on close
          dialed    \* every connection that was made

vars == <<pc, hop, host, vetted, aborted, timer, total, open, closing, dialed>>

Settled == pc \in {"file", "failed"}
OnTheWire == pc \in {"dialing", "waiting", "reading"}

TypeOK ==
    /\ pc \in {"checking", "resolving", "dialing", "waiting", "reading", "file", "failed"}
    /\ hop \in Nat
    /\ host \in Host
    /\ vetted \subseteq Address
    /\ aborted \in BOOLEAN
    /\ timer \in {"armed", "fired", "cleared"}
    /\ total \in Nat
    /\ open \subseteq Nat
    /\ closing \subseteq open
    /\ dialed \subseteq [hop : Nat, host : Host, address : Address]

Init ==
    /\ pc = "checking"
    /\ hop = 0
    /\ host \in Host
    /\ vetted = {}
    /\ aborted = FALSE
    /\ timer = "armed"
    /\ total = 0
    /\ open = {} /\ closing = {}
    /\ dialed = {}

-----------------------------------------------------------------------------
(* Ways out *)

\* The finally block.
Settle(result) ==
    /\ pc' = result
    /\ timer' = IF timer = "armed" THEN "cleared" ELSE timer

\* Slip: the response is dropped, and its body keeps the socket.
DrainNothing == UNCHANGED <<open, closing>>

\* Cancelling the body, or destroying the agent, closes the socket.
Drain == /\ closing' = closing \cup (open \cap {hop})
         /\ UNCHANGED open

-----------------------------------------------------------------------------
(* One hop *)

RefuseHost ==
    /\ pc = "checking"
    /\ host \notin Allowed
    /\ Settle("failed")
    /\ UNCHANGED <<hop, host, vetted, aborted, total, open, closing, dialed>>

AcceptHost ==
    /\ pc = "checking"
    /\ host \in Allowed
    /\ pc' = "resolving"
    /\ UNCHANGED <<hop, host, vetted, aborted, timer, total, open, closing, dialed>>

\* No address of the name is blocked, and there is one.
AllGood(found) == found # {} /\ found \cap Blocked = {}

\* The lookup fails or its answer will not do; or the signal was aborted
\* before the request is made.
RefuseAddresses(found) ==
    /\ pc = "resolving"
    /\ ~AllGood(found) \/ aborted
    /\ Settle("failed")
    /\ UNCHANGED <<hop, host, vetted, aborted, total, open, closing, dialed>>

\* Slip: the signal is not passed on to the request.
AcceptLate(found) ==
    /\ pc = "resolving"
    /\ AllGood(found)
    /\ vetted' = found
    /\ pc' = "dialing"
    /\ UNCHANGED <<hop, host, aborted, timer, total, open, closing, dialed>>

AcceptAddresses(found) ==
    /\ pc = "resolving"
    /\ AllGood(found)
    /\ ~aborted
    /\ vetted' = found
    /\ pc' = "dialing"
    /\ UNCHANGED <<hop, host, aborted, timer, total, open, closing, dialed>>

\* Slip: the name is resolved again for the connection.
AnyAddress == Address

\* createPinnedLookup() answers with nothing else.
Pinned == vetted

Dial(a) ==
    /\ pc = "dialing"
    /\ a \in Pinned
    /\ pc' = "waiting"
    /\ open' = open \cup {hop}
    /\ dialed' = dialed \cup {[hop |-> hop, host |-> host, address |-> a]}
    /\ UNCHANGED <<hop, host, vetted, aborted, timer, total, closing>>

\* The connection fails or breaks, or the response is of no use: an error
\* status, too large a length, a redirect without a location, to a URL that
\* assertFetchableUrl() rejects or beyond the limit.
Refuse ==
    /\ OnTheWire
    /\ Drain
    /\ Settle("failed")
    /\ UNCHANGED <<hop, host, vetted, aborted, total, dialed>>

HopsLeft == hop + 1 <= MaxRedirects

\* A redirect: the body is drained; the new URL is checked like the first.
Redirect(h) ==
    /\ pc = "waiting"
    /\ HopsLeft
    /\ Drain
    /\ hop' = hop + 1
    /\ host' = h
    /\ pc' = "checking"
    /\ UNCHANGED <<vetted, aborted, timer, total, dialed>>

\* A 2xx whose declared length, 0 if none, is within the limit.
Accept(declared) ==
    /\ pc = "waiting"
    /\ declared <= MaxBytes
    /\ pc' = "reading"
    /\ UNCHANGED <<hop, host, vetted, aborted, timer, total, open, closing, dialed>>

\* Slip: what the peer declared is taken for granted.
TrustLength(n) == TRUE

Fits(n) == total + n <= MaxBytes

ReadChunk(n) ==
    /\ pc = "reading"
    /\ Fits(n)
    /\ total' = total + n
    /\ UNCHANGED <<pc, hop, host, vetted, aborted, timer, open, closing, dialed>>

\* Slip: what is too much is cut off, and the rest is a file.
CutOff(n) ==
    /\ pc = "reading"
    /\ ~Fits(n)
    /\ aborted' = TRUE
    /\ Drain
    /\ Settle("file")
    /\ UNCHANGED <<hop, host, vetted, total, dialed>>

ReadTooMuch(n) ==
    /\ pc = "reading"
    /\ ~Fits(n)
    /\ aborted' = TRUE
    /\ Drain
    /\ Settle("failed")
    /\ UNCHANGED <<hop, host, vetted, total, dialed>>

ReadEnd ==
    /\ pc = "reading"
    /\ Drain
    /\ Settle("file")
    /\ UNCHANGED <<hop, host, vetted, aborted, total, dialed>>

-----------------------------------------------------------------------------
(* The timer and the sockets *)

\* An abort breaks a request or a body.  A lookup is not interrupted by it,
\* nor is what follows a redirect, until the next request is to be made.
TimerFires ==
    /\ timer = "armed"
    /\ timer' = "fired"
    /\ aborted' = TRUE
    /\ IF OnTheWire THEN Drain /\ pc' = "failed" ELSE UNCHANGED <<pc, open, closing>>
    /\ UNCHANGED <<hop, host, vetted, total, dialed>>

SocketCloses(h) ==
    /\ h \in closing
    /\ open' = open \ {h}
    /\ closing' = closing \ {h}
    /\ UNCHANGED <<pc, hop, host, vetted, aborted, timer, total, dialed>>

-----------------------------------------------------------------------------
Resolved == \E found \in SUBSET Address : RefuseAddresses(found) \/ AcceptAddresses(found)

Chunk(n) == ReadChunk(n) \/ ReadTooMuch(n)

FetchStep ==
    \/ RefuseHost \/ AcceptHost
    \/ Resolved
    \/ \E a \in Address : Dial(a)
    \/ Refuse
    \/ \E h \in Host : Redirect(h)
    \/ \E n \in 0 .. MaxBytes + 1 : Accept(n)
    \/ ReadEnd
    \/ TimerFires
    \/ \E h \in 0 .. MaxRedirects : SocketCloses(h)

Next == FetchStep \/ \E n \in 1 .. MaxChunk : Chunk(n)

Spec == Init /\ [][Next]_vars

\* The handler runs, a lookup ends, timers fire and sockets close.  A peer
\* need not do anything.
Fairness == /\ WF_vars(RefuseHost \/ AcceptHost)
            /\ WF_vars(Resolved)
            /\ WF_vars(TimerFires)
            /\ \A h \in 0 .. MaxRedirects : WF_vars(SocketCloses(h))

-----------------------------------------------------------------------------
(* Properties *)

\* Whatever names resolve to, and whenever, a connection goes to an address
\* outside, however it is spelt, and of a host the operator listed, on every
\* hop; only IPv6 multicast is taken for outside.
DialsVetted ==
    \A d \in dialed : /\ d.host \in Trusted
                      /\ d.address \in Internal => d.address \in Multicast
                      /\ d.hop <= MaxRedirects

\* What fetch-url.ts:161-164 says of isBlockedAddress(): nothing internal is
\* reached, multicast and its IPv6 equivalent included.
DialsOutside == \A d \in dialed : d.address \notin Internal

\* One socket at a time, and none that nobody will close, whichever way a hop
\* or the download ends.
SocketsAccounted ==
    open \ closing \subseteq (IF pc \in {"waiting", "reading"} THEN {hop} ELSE {})

\* No more than the limit is kept, whatever length was declared, and the
\* download leaves no timer behind that could fire for it.
LimitsKept == total <= MaxBytes /\ (Settled => timer # "armed")

\* What a download takes up stays bounded and is given back: both of the above.
ResourcesAccounted == SocketsAccounted /\ LimitsKept

\* After the time is up no further request is made, not even the one that a
\* slow lookup was for.
QuietAfterAbort == [][aborted => dialed' = dialed]_vars

-----------------------------------------------------------------------------
(* The inductive invariant *)

\* Where the handler stands tells what it has checked.
Checked ==
    /\ pc \in {"resolving", "dialing", "waiting", "reading"} => host \in Allowed
    /\ pc = "dialing" => vetted \cap Blocked = {}
    /\ OnTheWire => ~aborted
    /\ hop <= MaxRedirects

\* Only addresses that were checked have been dialed.
DialsChecked ==
    \A d \in dialed : d.host \in Allowed /\ d.address \notin Blocked /\ d.hop <= MaxRedirects

\* The timer has not fired unless the signal is aborted.
TimerKnown == timer = "fired" => aborted

\* A socket belongs to this hop or to one before.
SocketsPast ==
    /\ \A h \in open : h <= hop
    /\ pc \in {"checking", "resolving", "dialing"} => hop \notin open

IInv == /\ TypeOK /\ Checked /\ TimerKnown /\ SocketsPast
        /\ DialsChecked /\ SocketsAccounted /\ LimitsKept

=============================================================================
