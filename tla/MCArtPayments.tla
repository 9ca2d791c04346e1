--------------------------- MODULE MCArtPayments ---------------------------
(* Instances of ArtPayments.  "Contention": two attempts want three of two   *)
(* units, each served by two requests.  "Retry": one attempt, its requests   *)
(* in sequence.  "Two tabs": one attempt, its requests at the same time.     *)
EXTENDS ArtPayments, TLC

CONSTANTS a1, a2, r1, r2, r3, r4, w1

UnitsMC == (a1 :> 2) @@ (a2 :> 1)
UnitsOne == a1 :> 1
RequestForContention == (r1 :> a1) @@ (r2 :> a1) @@ (r3 :> a2) @@ (r4 :> a2)
RequestForOne == [r \in Requests |-> a1]
=============================================================================
