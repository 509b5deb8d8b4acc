--------------------------- MODULE MCConversation ---------------------------
(***************************************************************************)
(* Instances of Conversation for TLC: one or two request threads as model  *)
(* values, and the sets of user operations the runs choose from.           *)
(***************************************************************************)
EXTENDS Conversation

CONSTANTS t1, t2

OneThread == {t1}
TwoThreads == {t1, t2}

\* One user sends and clears, another retries, cancels, reads and deletes.
Everything == [t \in Threads |-> IF t = t1 THEN {"send", "clear"}
                                 ELSE {"retry", "cancel", "read", "delete"}]
Turns == [t \in Threads |-> {"send", "retry", "cancel", "read"}]
=============================================================================
