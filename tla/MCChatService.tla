--------------------------- MODULE MCChatService ---------------------------
(* ChatService for TLC: three messages and the task that stops the worker. *)
EXTENDS ChatService
=============================================================================
