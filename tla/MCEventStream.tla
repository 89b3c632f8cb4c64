---------------------------- MODULE MCEventStream ----------------------------
(* One page, two threads that change the session besides the timer.        *)
EXTENDS EventStream
=============================================================================
