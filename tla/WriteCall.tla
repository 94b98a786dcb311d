----------------------------- MODULE WriteCall -----------------------------
(***************************************************************************)
(* What LexwareClient promises whoever sends a write: it takes effect at   *)
(* most once, perhaps late or unnoticed, and what is said about it agrees  *)
(* with what happened.  The tools and routes that send a write are built   *)
(* on this promise.                                                        *)
(***************************************************************************)
EXTENDS Naturals

CONSTANT Write

VARIABLES effect,  \* how often a write took effect
          told     \* what its sender was told

writeVars == <<effect, told>>

WriteInit == /\ effect = [w \in Write |-> 0]
             /\ told = [w \in Write |-> "open"]

\* Not after its sender was told that it had been refused.
Happen(w) == /\ effect[w] = 0 /\ told[w] # "refused"
             /\ effect' = [effect EXCEPT ![w] = 1]
             /\ UNCHANGED told

\* "unclear" is always allowed.
Tell(w, verdict) ==
    /\ told[w] = "open"
    /\ verdict = "done" => effect[w] = 1
    /\ verdict = "refused" => effect[w] = 0
    /\ told' = [told EXCEPT ![w] = verdict]
    /\ UNCHANGED effect

WriteNext == \E w \in Write :
    Happen(w) \/ \E verdict \in {"done", "refused", "unclear"} : Tell(w, verdict)

WriteSpec == WriteInit /\ [][WriteNext]_writeVars

=============================================================================
