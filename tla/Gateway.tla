------------------------------- MODULE Gateway -------------------------------
(***************************************************************************)
(* The process src/src/gateway.ts: it starts the other two, ends with the  *)
(* first of them that ends, passes a signal on to both and waits for them, *)
(* and answers /status for all three.                                      *)
(***************************************************************************)
EXTENDS Naturals

CONSTANTS Child,     \* auth_gateway.py and dist/server.js
          Poll       \* requests for /status

ASSUME GatewayAssumption == Child # {}

VARIABLES child,         \* what each child process is doing
          port,          \* PORT: "free" to listen on, or "taken"
          shuttingDown,
          timer,         \* of shutdown(): "off", "armed" or "fired"
          exit,          \* of the gateway: "none", "ok" (code 0) or "error"
          polled,        \* "new", "probing", "ok" (200) or "starting" (503)
          probe,         \* what serviceReady() says: "pending", "yes", "no"
          \* history
          asked,         \* no child has ended before it was asked to
          unparsed,      \* the handler has thrown on the target of a request
          sawReady       \* request -> children that were ready during it

supervisor == <<child, port, shuttingDown, timer, exit, asked, unparsed>>
polling == <<polled, probe>>
gatewayVars == <<supervisor, polling, sawReady>>

Alive == exit = "none"

(* "failing": spawn() failed and its error event is due; "ended": the exit   *)
(* event is due; "gone": it was delivered.                                   *)
ChildState == {"failing", "starting", "ready", "ended", "gone"}

GatewayTypeOK ==
    /\ child \in [Child -> ChildState]
    /\ port \in {"free", "taken"}
    /\ shuttingDown \in BOOLEAN
    /\ timer \in {"off", "armed", "fired"}
    /\ exit \in {"none", "ok", "error"}
    /\ polled \in [Poll -> {"new", "probing", "ok", "starting"}]
    /\ probe \in [Poll -> [Child -> {"pending", "yes", "no"}]]
    /\ asked \in BOOLEAN /\ unparsed \in BOOLEAN
    /\ sawReady \in [Poll -> SUBSET Child]
    /\ shuttingDown <=> timer # "off"

GatewayInit ==
    /\ child \in [Child -> {"failing", "starting"}]
    /\ port \in {"free", "taken"}
    /\ shuttingDown = FALSE /\ timer = "off" /\ exit = "none"
    /\ polled = [q \in Poll |-> "new"]
    /\ probe = [q \in Poll |-> [c \in Child |-> "pending"]]
    /\ asked = TRUE /\ unparsed = FALSE
    /\ sawReady = [q \in Poll |-> {}]

-----------------------------------------------------------------------------
(* The children. One may end by itself, of a signal of its own (Ctrl-C       *)
(* reaches the whole group), or because it was told to.                      *)

Watch == sawReady' = [q \in Poll |->
           sawReady[q] \union
             (IF polled'[q] = "probing" THEN {c \in Child : child'[c] = "ready"} ELSE {})]

BecomesReady(c) ==
    /\ Alive
    /\ child[c] = "starting"
    /\ child' = [child EXCEPT ![c] = "ready"]
    /\ UNCHANGED <<port, shuttingDown, timer, exit, asked, unparsed, polling>>
    /\ Watch

Ends(c) ==
    /\ Alive
    /\ child[c] \in {"starting", "ready"}
    /\ child' = [child EXCEPT ![c] = "ended"]
    /\ asked' = (asked /\ shuttingDown)
    /\ UNCHANGED <<port, shuttingDown, timer, exit, unparsed, polling, sawReady>>

-----------------------------------------------------------------------------
(* Events of the children. *)

SpawnError(c) ==
    /\ Alive
    /\ child[c] = "failing"
    /\ child' = [child EXCEPT ![c] = "gone"]
    /\ exit' = IF shuttingDown THEN exit ELSE "error"
    /\ asked' = FALSE
    /\ UNCHANGED <<port, shuttingDown, timer, unparsed, polling, sawReady>>

(* What the gateway does about an exit event, the last one or not.           *)
(* Slip: an exit is an error in any case.                                    *)
ExitIsError(last) == "error"
AfterExit(last) == IF ~shuttingDown THEN "error" ELSE IF last THEN "ok" ELSE "none"

ExitEvent(c) ==
    /\ Alive
    /\ child[c] = "ended"
    /\ child' = [child EXCEPT ![c] = "gone"]
    /\ exit' = AfterExit(\A d \in Child \ {c} : child[d] = "gone")
    /\ UNCHANGED <<port, shuttingDown, timer, asked, unparsed, polling, sawReady>>

(* SIGTERM or SIGINT; a second one changes nothing. The error events of a    *)
(* failed spawn, and of listen(), precede every signal.                      *)
(* Slip: no timer, the children will surely end.                             *)
NoTimer == timer
ArmTimer == "armed"

Shutdown ==
    /\ Alive /\ ~shuttingDown
    /\ port = "free"
    /\ \A c \in Child : child[c] # "failing"
    /\ shuttingDown' = TRUE
    /\ timer' = ArmTimer
    /\ UNCHANGED <<child, port, exit, asked, unparsed, polling, sawReady>>

TimerFires ==
    /\ Alive
    /\ timer = "armed"
    /\ timer' = "fired" /\ exit' = "ok"
    /\ UNCHANGED <<child, port, shuttingDown, asked, unparsed, polling, sawReady>>

-----------------------------------------------------------------------------
(* Errors nobody handles end the process, with code 1.                       *)

(* The error event of listen().                                              *)
ListenError ==
    /\ Alive
    /\ port = "taken"
    /\ exit' = "error"
    /\ UNCHANGED <<child, port, shuttingDown, timer, asked, unparsed, polling, sawReady>>

(* The target of a request is no URL to new URL(), which throws in the async *)
(* handler; also on a connection kept alive over a signal.                   *)
TargetThrows ==
    /\ Alive
    /\ port = "free"
    /\ unparsed' = TRUE /\ exit' = "error"
    /\ UNCHANGED <<child, port, shuttingDown, timer, asked, polling, sawReady>>

-----------------------------------------------------------------------------
(* /status: both probes at once, each with a time limit.                     *)

PollArrives(q) ==
    /\ Alive
    /\ port = "free"
    /\ polled[q] = "new"
    /\ polled' = [polled EXCEPT ![q] = "probing"]
    /\ UNCHANGED <<supervisor, probe>>
    /\ Watch

ProbeAnswered(q, c) ==
    /\ Alive
    /\ polled[q] = "probing" /\ probe[q][c] = "pending"
    /\ child[c] = "ready"
    /\ probe' = [probe EXCEPT ![q][c] = "yes"]
    /\ UNCHANGED <<supervisor, polled, sawReady>>

(* Refused, reset, not ok, or timed out whatever the child does.             *)
(* Slip: no time limit, so only a dead child says no.                        *)
MayFailDeadOnly(c) == child[c] \in {"ended", "gone"}
MayFail(c) == TRUE

ProbeFails(q, c) ==
    /\ Alive
    /\ polled[q] = "probing" /\ probe[q][c] = "pending"
    /\ MayFail(c)
    /\ probe' = [probe EXCEPT ![q][c] = "no"]
    /\ UNCHANGED <<supervisor, polled, sawReady>>

(* Slip: one of them is enough.                                              *)
SomeReady(q) == \E c \in Child : probe[q][c] = "yes"
AllReady(q) == \A c \in Child : probe[q][c] = "yes"

Answer(q) ==
    /\ Alive
    /\ polled[q] = "probing"
    /\ \A c \in Child : probe[q][c] # "pending"
    /\ polled' = [polled EXCEPT ![q] = IF AllReady(q) THEN "ok" ELSE "starting"]
    /\ UNCHANGED <<supervisor, probe, sawReady>>

-----------------------------------------------------------------------------
GatewayNext ==
    \/ \E c \in Child : BecomesReady(c) \/ Ends(c) \/ SpawnError(c) \/ ExitEvent(c)
    \/ Shutdown \/ TimerFires \/ ListenError \/ TargetThrows
    \/ \E q \in Poll : PollArrives(q) \/ Answer(q)
    \/ \E q \in Poll, c \in Child : ProbeAnswered(q, c) \/ ProbeFails(q, c)

GatewaySpec == GatewayInit /\ [][GatewayNext]_gatewayVars

(* The gateway's event loop delivers events and its timers fire. Nothing is  *)
(* assumed of the children, which may ignore a signal and every request.     *)
GatewayFairness ==
    /\ \A c \in Child : WF_gatewayVars(SpawnError(c)) /\ WF_gatewayVars(ExitEvent(c))
    /\ WF_gatewayVars(TimerFires)
    /\ WF_gatewayVars(ListenError)
    /\ \A q \in Poll : WF_gatewayVars(Answer(q))
    /\ \A q \in Poll, c \in Child : WF_gatewayVars(ProbeFails(q, c))

-----------------------------------------------------------------------------
(* The platform restarts the container on a failure only. The exit code is 0 *)
(* only after a signal, and then with both children gone or the five seconds *)
(* over, whatever their own codes and however their ends and the signal      *)
(* overlap. It is an error if a child ended that had not been asked to or    *)
(* the port was taken, never for that after a signal; or if the handler      *)
(* threw on a request, then at any time.                                     *)
ExitTellsWhy ==
    /\ exit = "ok" => /\ shuttingDown
                      /\ timer = "fired" \/ \A c \in Child : child[c] = "gone"
    /\ exit = "error" => unparsed \/ (~shuttingDown /\ (~asked \/ port = "taken"))

(* /status answers 200 only if each child was ready at a time since the      *)
(* request came in, although they are asked one after the other and either   *)
(* may end meanwhile.                                                        *)
OkMeansReady ==
    \A q \in Poll : polled[q] = "ok" => sawReady[q] = Child

(* A child that ended takes the gateway with it, as does a port that is      *)
(* taken, and a shutdown ends although a child ignores the signal: no        *)
(* gateway stays up that refuses its paths, or half of them.                 *)
NoHalfService ==
    (\/ shuttingDown \/ port = "taken"
     \/ \E c \in Child : child[c] \in {"failing", "ended"}) ~> ~Alive

(* Every request for /status is answered, unless the gateway ends first,     *)
(* although a child accepts connections and never says anything.             *)
StatusAnswered ==
    \A q \in Poll : (polled[q] = "probing") ~> (polled[q] # "probing" \/ ~Alive)

-----------------------------------------------------------------------------
(* The inductive invariant. *)

(* Before a signal, a child that has ended was not asked to; and no signal   *)
(* comes before the error of a port that is taken.                           *)
BeforeSignal ==
    /\ ~shuttingDown /\ (\E c \in Child : child[c] \in {"ended", "gone"}) => ~asked
    /\ port = "taken" => ~shuttingDown

(* Who is ready while a request is being answered is seen by it, and what    *)
(* its probes say was true of that time.                                     *)
ProbesSaw ==
    \A q \in Poll :
        /\ polled[q] = "probing" => \A c \in Child : child[c] = "ready" => c \in sawReady[q]
        /\ \A c \in Child : probe[q][c] = "yes" => c \in sawReady[q]
        /\ polled[q] = "ok" => AllReady(q)

GatewayInv == GatewayTypeOK /\ BeforeSignal /\ ProbesSaw /\ ExitTellsWhy
=============================================================================
