--------------------------- MODULE MCSharedSessions ---------------------------
(* One session to begin with, two that may be made; the bounds are in the  *)
(* .cfg files.                                                             *)
EXTENDS SharedSessions
=============================================================================
