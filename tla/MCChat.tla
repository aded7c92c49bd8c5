-------------------------------- MODULE MCChat --------------------------------
(***************************************************************************)
(* Two questions, one conversation, two instances of the chat page, and    *)
(* two clicks; the application is opened at any hash, with a token or not. *)
(***************************************************************************)
EXTENDS ChatPage

=============================================================================
