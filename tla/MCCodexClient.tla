---------------------------- MODULE MCCodexClient ----------------------------
(* Instances of CodexClient for TLC: three calls on a thread nobody else   *)
(* uses, or one with every fault and a turn of another client.             *)
EXTENDS CodexClient
Calm   == [faults |-> {"refusal", "overrun"}, calls |-> 3, external |-> 0]
Shared == [faults |-> AllFaults, calls |-> 1, external |-> 1]
AllScenes  == {Calm, Shared}
LateScenes == {[faults |-> {"overrun"}, calls |-> 2, external |-> 0]}
=============================================================================
