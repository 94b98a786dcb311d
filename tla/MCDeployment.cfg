\* Every environment of interest, requests to the process it leads to, and the
\* gateway with two overlapping requests for /status.
SPECIFICATION DeploymentSpec
CONSTANTS
    Environments <- AllEnvironments
    Bearers <- MCBearers
    Requests <- MCRequests
    Followed <- FollowedEnvironments
    Observed <- ObservedEnvironments
    Child = {auth, App}
    Poll = {q1, q2}
    auth = auth
    App = App
    q1 = q1
    q2 = q2
CHECK_DEADLOCK FALSE
INVARIANTS
    ToolsAsConfigured
    AdmittedIsEntitled
    VerifiersAgree
    BodiesGuarded
    ExitTellsWhy
    OkMeansReady
PROPERTIES
    NoHalfService
    StatusAnswered
