------------------------------- MODULE MCPage -------------------------------
EXTENDS Page, TLC
CONSTANTS s1, s2
TwoTurnsAndOne == (s1 :> 2) @@ (s2 :> 1)
=============================================================================
