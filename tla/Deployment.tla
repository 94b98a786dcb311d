----------------------------- MODULE Deployment -----------------------------
(***************************************************************************)
(* The processes together: gateway.ts starts the application, which then   *)
(* starts as Startup has it; it becomes ready, or ends by itself because   *)
(* of its environment.                                                     *)
(***************************************************************************)
EXTENDS HttpAssembly, Gateway

CONSTANTS App,        \* the child that is dist/server.js
          Observed    \* the environments in which it runs under a gateway

(* The gateway tells the application where to verify tokens.                 *)
ASSUME DeploymentAssumption ==
    /\ App \in Child
    /\ Observed \subseteq {e \in Environments : e.proxy = "loopback"} \ Followed

(* Without a gateway, nothing happens there.                                 *)
NoGateway == child = [c \in Child |-> "starting"] /\ port = "free"

DeploymentInit ==
    /\ HttpInit /\ GatewayInit
    /\ env \notin Observed => NoGateway

applicationVars == <<accessVars, httpVars>>

(* No request has come before it listens.                                    *)
AppStarts ==
    /\ env \in Observed
    /\ at = "none" /\ Starts /\ BecomesReady(App)
    /\ UNCHANGED <<bearer, verdict, httpVars>>

(* Its environment is refused: process.exit(1).                              *)
AppFails ==
    /\ env \in Observed
    /\ at = "none" /\ Fails /\ Ends(App)
    /\ UNCHANGED <<bearer, verdict, httpVars>>

(* The rest of what gateway and children do, ends of the application for     *)
(* other reasons included.                                                   *)
GatewayMoves ==
    /\ env \in Observed
    /\ GatewayNext
    /\ child'[App] = "ready" => child[App] = "ready"
    /\ UNCHANGED applicationVars

WithoutGateway ==
    /\ env \notin Observed
    /\ HttpNext
    /\ UNCHANGED gatewayVars

DeploymentNext == AppStarts \/ AppFails \/ GatewayMoves \/ WithoutGateway

DeploymentSpec ==
    /\ DeploymentInit
    /\ [][DeploymentNext]_<<applicationVars, gatewayVars>>
    /\ GatewayFairness
=============================================================================
