\* Who gets in where the operator lists domains, with and without a proxy.
SPECIFICATION DeploymentSpec
CONSTANTS
    Environments <- AccessEnvironments
    Bearers <- MCBearers
    Requests = {}
    Followed = {}
    Observed = {}
    Child = {auth, App}
    Poll = {q1, q2}
    auth = auth
    App = App
    q1 = q1
    q2 = q2
CHECK_DEADLOCK FALSE
INVARIANTS
    DomainsEnforced
