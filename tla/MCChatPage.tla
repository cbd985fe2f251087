----------------------------- MODULE MCChatPage -----------------------------
(***************************************************************************)
(* A small instance of the chat page for TLC.                              *)
(***************************************************************************)
EXTENDS ChatPage, TLC

\* Rows the browser sees, rows it does not, and more than fit one batch.
SmallBatches == {<<"user">>, <<"hidden", "user">>, <<"user", "user">>}

CONSTANTS theirs, bob

\* A conversation of somebody else, whose address the user has.
MCGiven == theirs :> bob

=============================================================================
