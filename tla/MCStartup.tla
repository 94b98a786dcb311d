----------------------------- MODULE MCStartup -----------------------------
(* Environments that vary the flags of the tiers, and environments that vary *)
(* authentication, each with and without the Naturbummler profile.           *)
EXTENDS Startup

Plain == [profile |-> FALSE, entra |-> "good", policy |-> "assigned", domains |-> FALSE, issuer |-> "unset", resource |-> "good",
          proxy |-> "unset", verifyAudience |-> "unset", token |-> "long",
          unauthenticated |-> "unset", apiKey |-> TRUE, readOnly |-> "unset",
          drafts |-> "unset", finalize |-> "unset", urlUpload |-> "unset", rest |-> "good"]

TierEnvironments ==
    {[Plain EXCEPT !.profile = p, !.token = IF p THEN "unset" ELSE "long", !.readOnly = r,
                   !.drafts = d, !.finalize = f, !.urlUpload = u] :
        p \in BOOLEAN, r \in Flag, d \in Flag, f \in Flag, u \in Flag}

AuthEnvironments ==
    {[Plain EXCEPT !.profile = p, !.entra = n, !.issuer = i, !.resource = r, !.proxy = x,
                   !.verifyAudience = v, !.token = t, !.unauthenticated = u, !.apiKey = k] :
        p \in BOOLEAN, n \in {"good", "bad"}, i \in {"unset", "good", "bad"},
        r \in {"unset", "good", "bad"}, x \in {"unset", "loopback", "remote"},
        v \in {"unset", "no"}, t \in {"unset", "blank", "short", "long"},
        u \in Flag, k \in BOOLEAN}

MCEnvironments ==
    TierEnvironments \union AuthEnvironments \union {[Plain EXCEPT !.rest = "bad"]}
=============================================================================
