---------------------------- MODULE UploadTicket ----------------------------
(***************************************************************************)
(* What the server promises about one upload ticket, with no store, no     *)
(* requests and no clock: the life it goes through.  A ticket is issued    *)
(* once, is lent to at most one upload at a time, goes back to "open" only *)
(* when that upload failed, is "filed" for good once one succeeded, and    *)
(* never comes back once it is void.                                       *)
(***************************************************************************)
CONSTANT Ticket

VARIABLE life  \* life[t]: where ticket t is in its life

Lives == {"unissued", "open", "lent", "filed", "void"}

Init == life = [t \in Ticket |-> "unissued"]

Move(t, from, to) == life[t] \in from /\ life' = [life EXCEPT ![t] = to]

Lend(t) == Move(t, {"open"}, "lent")

GiveBack(t) == Move(t, {"lent"}, "open")

File(t) == Move(t, {"lent"}, "filed")

\* Issuing sweeps: any number of tickets may run out in the same step.
Issue(t) ==
    \E S \in SUBSET {u \in Ticket : life[u] \in {"open", "filed"}} :
        /\ life[t] = "unissued"
        /\ life' = [u \in Ticket |-> CASE u = t    -> "open"
                                       [] u \in S  -> "void"
                                       [] OTHER    -> life[u]]

RunOut(t) == Move(t, {"open", "filed"}, "void")

\* A restart of the server voids every ticket it had issued.
Restart == life' = [t \in Ticket |-> IF life[t] = "unissued" THEN "unissued"
                                                             ELSE "void"]

Next == \/ \E t \in Ticket : \/ Issue(t) \/ Lend(t) \/ GiveBack(t)
                             \/ File(t) \/ RunOut(t)
        \/ Restart

Spec == Init /\ [][Next]_life

\* A lent ticket does not stay lent: the upload it is lent to ends.
LentIsReturned == \A t \in Ticket : life[t] = "lent" ~> life[t] # "lent"
=============================================================================
