---------------------------- MODULE MCSupervision ----------------------------
(* A service started twice.                                                *)
EXTENDS Supervision
=============================================================================
