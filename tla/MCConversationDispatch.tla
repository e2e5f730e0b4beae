---------------------- MODULE MCConversationDispatch ----------------------
EXTENDS ConversationDispatch

(* The conversation need not be the one that is shown when a window starts. *)
Anywhere == {TRUE, FALSE}
===========================================================================
