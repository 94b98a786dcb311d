---------------------------- MODULE MCDeployment ----------------------------
(* The environments of MCStartup, some that vary who is let in, and tokens   *)
(* that lack up to two things. In a few of the environments, of each mode    *)
(* with and without uploads, requests of all kinds are followed. In others,  *)
(* one of which is refused, there is a gateway with two children.            *)
EXTENDS MCStartup, Deployment, FiniteSets

CONSTANTS auth, q1, q2

AccessEnvironments ==
    {[Plain EXCEPT !.profile = p, !.policy = y, !.domains = d, !.issuer = i, !.proxy = x,
                   !.token = t, !.verifyAudience = v] :
        p \in BOOLEAN, y \in {"assigned", "tenant"}, d \in BOOLEAN, i \in {"unset", "good"},
        x \in {"unset", "loopback"}, t \in {"unset", "long"}, v \in {"unset", "no"}}

FollowedEnvironments ==
    {[Plain EXCEPT !.readOnly = r, !.token = a[1], !.issuer = a[2], !.unauthenticated = a[3]] :
        r \in {"unset", "true"},
        a \in {<<"long", "unset", "unset">>, <<"unset", "good", "unset">>,
               <<"unset", "unset", "true">>}}

ObservedEnvironments ==
    {[Plain EXCEPT !.profile = TRUE, !.proxy = "loopback", !.token = "unset", !.entra = n] :
        n \in {"good", "bad"}}

AllEnvironments == MCEnvironments \union AccessEnvironments \union FollowedEnvironments
                       \union ObservedEnvironments

Lacking == {Truth \ lacks : lacks \in {l \in SUBSET Truth : Cardinality(l) <= 2}}

MCBearers ==
    {NoBearer, [kind |-> "secret", has |-> Truth]}
    \union {b \in [kind : {"signed", "proxied"}, has : Lacking] :
              "scope" \in b.has => "scp" \in b.has}

-----------------------------------------------------------------------------
SentBearers == {NoBearer, [kind |-> "secret", has |-> Truth], [kind |-> "signed", has |-> Truth]}

MCRequests ==
    [path : {"mcp", "upload", "other"}, spelt : {"lower", "mixed"}, json : BOOLEAN,
     gzip : BOOLEAN, size : Size, ticket : BOOLEAN, bearer : SentBearers]
=============================================================================
