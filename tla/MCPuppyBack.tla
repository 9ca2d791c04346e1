---------------------------- MODULE MCPuppyBack ----------------------------
(* Two puppies.  With FIRST pick both fit, so that one can replace the other; *)
(* with SECOND pick only one does.                                           *)
EXTENDS PuppyBack

CONSTANTS p1, p2

ContractsMC ==
    {[position |-> "FIRST", fitting |-> {p1, p2}],
     [position |-> "SECOND", fitting |-> {p1}]}
=============================================================================
