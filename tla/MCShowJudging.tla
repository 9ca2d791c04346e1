--------------------------- MODULE MCShowJudging ---------------------------
(* Instances of ShowJudging: one block, one day of two blocks, or a day of   *)
(* two blocks and a day of one.                                              *)
EXTENDS ShowJudging, TLC

CONSTANTS e1, e2, e3, j1, j2, f1, f2

OneBlock == 1 :> 1
OneDay == (1 :> 1) @@ (2 :> 1)
ThreeBlocks == (1 :> 1) @@ (2 :> 1) @@ (3 :> 2)
BlockOfOne == (e1 :> 1) @@ (e2 :> 1)
BlockOfEnds == (e1 :> 1) @@ (e3 :> 3)
BlockOfTwo == (e1 :> 1) @@ (e2 :> 2)
=============================================================================
