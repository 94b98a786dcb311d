----------------------------- MODULE HostNames -----------------------------
(***************************************************************************)
(* isAllowedHost() of src/src/uploads/fetch-url.ts.  A name is a sequence  *)
(* of characters.  The blanks that the code trims occur neither in the     *)
(* hostname of a URL nor in a configured entry.                            *)
(***************************************************************************)
EXTENDS Integers, SequencesExt

CONSTANTS Char,   \* of names
          Lower   \* each in lower case

\* No letter becomes a dot.
ASSUME CharAssumption ==
    /\ "." \in Char
    /\ Lower \in [Char -> Char]
    /\ \A c \in Char : Lower[c] = "." <=> c = "."

\* One dot at the end, not two.
WithoutRoot(name) == IF name # <<>> /\ Last(name) = "." THEN Front(name) ELSE name

NormalizeHostForMatch(value) == WithoutRoot([i \in DOMAIN value |-> Lower[value[i]]])

IsAllowedHost(hostname, allowed) ==
    \E entry \in allowed :
        LET host == NormalizeHostForMatch(hostname)
            suffix == NormalizeHostForMatch(entry)
        IN suffix # <<>> /\ (host = suffix \/ IsSuffix(<<".">> \o suffix, host))

=============================================================================
