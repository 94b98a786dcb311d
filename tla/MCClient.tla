------------------------------ MODULE MCClient ------------------------------
(* Tools that share the Lexware client, for TLC. *)
EXTENDS ToolCalls

CONSTANTS first, second, post, delete, reads, creates, deletes

MethodOf == [c \in Caller |-> CASE c = post -> "POST"
                                [] c = delete -> "DELETE"
                                [] OTHER -> "GET"]

CallsFor == [t \in Tool |-> CASE t = creates -> <<post>>
                             [] t = deletes -> <<delete>>
                             [] OTHER -> <<first, second>>]
=============================================================================
