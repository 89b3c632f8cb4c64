------------------------------ MODULE MCDesktop ------------------------------
(* Share and one tunnel: either another program may start a Share, and the *)
(* tunnel is not installed, or both are the window's and nothing is outside. *)
EXTENDS Desktop
CONSTANT p1
None == [s \in Services |-> {}]
OneShareOutside == [None EXCEPT ![Share] = {p1}]
TwoScenes == {[installed |-> {Share}, foreign |-> OneShareOutside],
              [installed |-> Services, foreign |-> None]}
=============================================================================
