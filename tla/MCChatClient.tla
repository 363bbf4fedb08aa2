---------------------------- MODULE MCChatClient ----------------------------
(***************************************************************************)
(* ChatClient with a prompt and a test.                                    *)
(***************************************************************************)
EXTENDS ChatClient

CONSTANTS prompt, test
=============================================================================
