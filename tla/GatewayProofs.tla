--------------------------- MODULE GatewayProofs ---------------------------
(***************************************************************************)
(* Proofs about Gateway, for any number of children and of requests, and   *)
(* about its use in Deployment.                                            *)
(***************************************************************************)
EXTENDS Deployment, TLAPS

LEMMA Initial == GatewayInit => GatewayInv
<1> SUFFICES ASSUME GatewayInit PROVE GatewayInv
  OBVIOUS
<1>1. GatewayTypeOK
  BY DEF GatewayInit, GatewayTypeOK, ChildState
<1>2. BeforeSignal /\ ProbesSaw /\ ExitTellsWhy
  BY DEF GatewayInit, BeforeSignal, ProbesSaw, ExitTellsWhy
<1> QED BY <1>1, <1>2 DEF GatewayInv

\* Watching adds to what requests saw, and forgets nothing.
LEMMA Watched ==
    ASSUME GatewayTypeOK, Watch
    PROVE  /\ sawReady' \in [Poll -> SUBSET Child]
           /\ \A q \in Poll : sawReady[q] \subseteq sawReady'[q]
           /\ \A q \in Poll, c \in Child :
                 polled'[q] = "probing" /\ child'[c] = "ready" => c \in sawReady'[q]
BY DEF GatewayTypeOK, Watch

\* A step of a child or of the supervisor leaves the requests as they are.
LEMMA RequestsKept ==
    ASSUME GatewayInv, UNCHANGED <<polling, sawReady>>,
           \A c \in Child : child'[c] = "ready" => child[c] = "ready"
    PROVE  ProbesSaw'
BY DEF GatewayInv, ProbesSaw, AllReady, polling

LEMMA Preserved == GatewayInv /\ [GatewayNext]_gatewayVars => GatewayInv'
<1> SUFFICES ASSUME GatewayInv, [GatewayNext]_gatewayVars PROVE GatewayInv'
  OBVIOUS
<1> USE DEF Alive, supervisor, polling
<1>1. ASSUME NEW c \in Child, BecomesReady(c) PROVE GatewayInv'
  <2>1. sawReady' \in [Poll -> SUBSET Child] /\ GatewayTypeOK'
    BY <1>1, Watched DEF BecomesReady, GatewayInv, GatewayTypeOK, ChildState
  <2>2. BeforeSignal' /\ ExitTellsWhy'
    BY <1>1 DEF BecomesReady, GatewayInv, GatewayTypeOK, BeforeSignal, ExitTellsWhy
  <2>3. ProbesSaw'
    BY <1>1, Watched DEF BecomesReady, GatewayInv, ProbesSaw, AllReady
  <2> QED BY <2>1, <2>2, <2>3 DEF GatewayInv
<1>2. ASSUME NEW c \in Child, Ends(c) PROVE GatewayInv'
  <2>1. GatewayTypeOK' /\ BeforeSignal' /\ ExitTellsWhy'
    BY <1>2 DEF Ends, GatewayInv, GatewayTypeOK, ChildState, BeforeSignal, ExitTellsWhy
  <2>2. ProbesSaw'
    BY <1>2, RequestsKept DEF Ends, GatewayInv, GatewayTypeOK
  <2> QED BY <2>1, <2>2 DEF GatewayInv
<1>3. ASSUME NEW c \in Child, SpawnError(c) PROVE GatewayInv'
  <2>1. GatewayTypeOK' /\ BeforeSignal' /\ ExitTellsWhy'
    BY <1>3 DEF SpawnError, GatewayInv, GatewayTypeOK, ChildState, BeforeSignal, ExitTellsWhy
  <2>2. ProbesSaw'
    BY <1>3, RequestsKept DEF SpawnError, GatewayInv, GatewayTypeOK
  <2> QED BY <2>1, <2>2 DEF GatewayInv
<1>4. ASSUME NEW c \in Child, ExitEvent(c) PROVE GatewayInv'
  <2>1. GatewayTypeOK' /\ BeforeSignal'
    BY <1>4 DEF ExitEvent, AfterExit, GatewayInv, GatewayTypeOK, ChildState, BeforeSignal
  <2>2. ExitTellsWhy'
    BY <1>4 DEF ExitEvent, AfterExit, GatewayInv, GatewayTypeOK, BeforeSignal, ExitTellsWhy
  <2>3. ProbesSaw'
    BY <1>4, RequestsKept DEF ExitEvent, GatewayInv, GatewayTypeOK
  <2> QED BY <2>1, <2>2, <2>3 DEF GatewayInv
<1>10. CASE ListenError
  <2>1. GatewayTypeOK'
    BY <1>10 DEF ListenError, GatewayInv, GatewayTypeOK
  <2>2. BeforeSignal' /\ ExitTellsWhy'
    BY <1>10 DEF ListenError, GatewayInv, BeforeSignal, ExitTellsWhy
  <2>3. ProbesSaw'
    BY <1>10, RequestsKept DEF ListenError, GatewayInv
  <2> QED BY <2>1, <2>2, <2>3 DEF GatewayInv
<1>11. CASE TargetThrows
  <2>1. GatewayTypeOK'
    BY <1>11 DEF TargetThrows, GatewayInv, GatewayTypeOK
  <2>2. BeforeSignal' /\ ExitTellsWhy'
    BY <1>11 DEF TargetThrows, GatewayInv, BeforeSignal, ExitTellsWhy
  <2>3. ProbesSaw'
    BY <1>11, RequestsKept DEF TargetThrows, GatewayInv
  <2> QED BY <2>1, <2>2, <2>3 DEF GatewayInv
<1>5. CASE Shutdown \/ TimerFires
  <2>1. GatewayTypeOK' /\ BeforeSignal' /\ ExitTellsWhy'
    BY <1>5 DEF Shutdown, ArmTimer, TimerFires, GatewayInv, GatewayTypeOK, BeforeSignal, ExitTellsWhy
  <2>2. ProbesSaw'
    BY <1>5, RequestsKept DEF Shutdown, TimerFires, GatewayInv
  <2> QED BY <2>1, <2>2 DEF GatewayInv
<1>6. ASSUME NEW q \in Poll, PollArrives(q) PROVE GatewayInv'
  <2>1. sawReady' \in [Poll -> SUBSET Child] /\ GatewayTypeOK'
    BY <1>6, Watched DEF PollArrives, GatewayInv, GatewayTypeOK
  <2>2. BeforeSignal' /\ ExitTellsWhy'
    BY <1>6 DEF PollArrives, GatewayInv, BeforeSignal, ExitTellsWhy
  <2>3. ProbesSaw'
    BY <1>6, Watched DEF PollArrives, GatewayInv, GatewayTypeOK, ProbesSaw, AllReady
  <2> QED BY <2>1, <2>2, <2>3 DEF GatewayInv
<1>7. ASSUME NEW q \in Poll, Answer(q) PROVE GatewayInv'
  <2>1. GatewayTypeOK' /\ BeforeSignal' /\ ExitTellsWhy'
    BY <1>7 DEF Answer, GatewayInv, GatewayTypeOK, BeforeSignal, ExitTellsWhy
  <2>2. ProbesSaw'
    BY <1>7 DEF Answer, GatewayInv, GatewayTypeOK, ProbesSaw, AllReady
  <2> QED BY <2>1, <2>2 DEF GatewayInv
<1>8. ASSUME NEW q \in Poll, NEW c \in Child, ProbeAnswered(q, c) \/ ProbeFails(q, c)
      PROVE  GatewayInv'
  <2>1. GatewayTypeOK'
    <3>1. probe' \in [Poll -> [Child -> {"pending", "yes", "no"}]]
      <4>1. CASE ProbeAnswered(q, c)
        BY <4>1 DEF ProbeAnswered, GatewayInv, GatewayTypeOK
      <4>2. CASE ProbeFails(q, c)
        BY <4>2 DEF ProbeFails, GatewayInv, GatewayTypeOK
      <4> QED BY <1>8, <4>1, <4>2
    <3>2. UNCHANGED <<child, port, shuttingDown, timer, exit, asked, unparsed, polled, sawReady>>
      BY <1>8 DEF ProbeAnswered, ProbeFails
    <3> QED BY <3>1, <3>2 DEF GatewayInv, GatewayTypeOK
  <2>5. BeforeSignal' /\ ExitTellsWhy'
    BY <1>8 DEF ProbeAnswered, ProbeFails, GatewayInv, BeforeSignal, ExitTellsWhy
  <2>2. \A r \in Poll, d \in Child :
          \/ probe'[r][d] = probe[r][d]
          \/ /\ polled[r] = "probing" /\ probe[r][d] = "pending"
             /\ probe'[r][d] = "yes" => child[d] = "ready"
    <3> SUFFICES ASSUME NEW r \in Poll, NEW d \in Child, probe'[r][d] # probe[r][d]
                 PROVE  /\ polled[r] = "probing" /\ probe[r][d] = "pending"
                        /\ probe'[r][d] = "yes" => child[d] = "ready"
      OBVIOUS
    <3>1. r = q /\ d = c
      BY <1>8 DEF ProbeAnswered, ProbeFails, GatewayInv, GatewayTypeOK
    <3> QED BY <3>1, <1>8 DEF ProbeAnswered, ProbeFails, GatewayInv, GatewayTypeOK
  <2>3. UNCHANGED <<child, polled, sawReady>>
    BY <1>8 DEF ProbeAnswered, ProbeFails
  <2>4. ProbesSaw'
    <3>1. \A r \in Poll, d \in Child : probe'[r][d] = "yes" => d \in sawReady'[r]
      BY <2>2, <2>3 DEF GatewayInv, ProbesSaw
    <3>2. \A r \in Poll : polled'[r] = "ok" => (AllReady(r))'
      BY <2>2, <2>3 DEF GatewayInv, ProbesSaw, AllReady
    <3> QED BY <3>1, <3>2, <2>3 DEF GatewayInv, ProbesSaw
  <2> QED BY <2>1, <2>4, <2>5 DEF GatewayInv
<1>9. CASE UNCHANGED gatewayVars
  BY <1>9 DEF gatewayVars, GatewayInv, GatewayTypeOK, BeforeSignal, ProbesSaw, AllReady, ExitTellsWhy
<1> QED BY <1>1, <1>2, <1>3, <1>4, <1>5, <1>6, <1>7, <1>8, <1>9, <1>10, <1>11
       DEF GatewayNext

\* The inductive invariant: a child that ended before a signal was not asked
\* to, no signal comes before the error of listen(), and a probe tells what
\* was true while its request was being answered (gateway.ts:24-30, 46-57, 99).
THEOREM GatewayInductive == GatewaySpec => []GatewayInv
BY Initial, Preserved, PTL DEF GatewaySpec

\* The exit code tells why the gateway ended (gateway.ts:24, 99), however the
\* ends of any number of children and the signal overlap.
THEOREM ExitIsTruthful == GatewaySpec => []ExitTellsWhy
<1>1. GatewayInv => ExitTellsWhy
  BY DEF GatewayInv
<1> QED BY <1>1, GatewayInductive, PTL

\* /status answers 200 only if each child was ready since the request came
\* (gateway.ts:84).
THEOREM OkIsTruthful == GatewaySpec => []OkMeansReady
<1>1. GatewayInv => OkMeansReady
  BY DEF GatewayInv, GatewayTypeOK, ProbesSaw, AllReady, OkMeansReady
<1> QED BY <1>1, GatewayInductive, PTL

-----------------------------------------------------------------------------
\* Deployment starts and ends the application only as the gateway's, and the
\* application's own, specification allows (gateway.ts:33-39, server.ts:15-25),
\* so that the theorems about either hold for the processes together.
THEOREM DeploymentComposes == DeploymentSpec => GatewaySpec /\ HttpSpec
<1>1. DeploymentInit => GatewayInit /\ HttpInit
  BY DEF DeploymentInit
<1>2. [DeploymentNext]_<<applicationVars, gatewayVars>> => [GatewayNext]_gatewayVars
  <2> SUFFICES ASSUME [DeploymentNext]_<<applicationVars, gatewayVars>>
               PROVE  [GatewayNext]_gatewayVars
    OBVIOUS
  <2>1. ASSUME BecomesReady(App) \/ Ends(App) PROVE GatewayNext
    BY <2>1, DeploymentAssumption DEF GatewayNext
  <2> QED BY <2>1 DEF DeploymentNext, AppStarts, AppFails, GatewayMoves, WithoutGateway
<1>3. [DeploymentNext]_<<applicationVars, gatewayVars>> => [HttpNext]_<<accessVars, httpVars>>
  <2> SUFFICES ASSUME [DeploymentNext]_<<applicationVars, gatewayVars>>
               PROVE  [HttpNext]_<<accessVars, httpVars>>
    OBVIOUS
  <2>1. CASE WithoutGateway
    BY <2>1 DEF WithoutGateway
  <2>2. CASE GatewayMoves \/ UNCHANGED <<applicationVars, gatewayVars>>
    BY <2>2 DEF GatewayMoves, applicationVars
  <2>3. CASE AppStarts \/ AppFails
    BY <2>3 DEF AppStarts, AppFails, HttpNext, AccessNext, Boots, Next
  <2> QED BY <2>1, <2>2, <2>3 DEF DeploymentNext
<1> QED BY <1>1, <1>2, <1>3, PTL DEF DeploymentSpec, GatewaySpec, HttpSpec

=============================================================================
