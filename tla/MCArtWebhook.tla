---------------------------- MODULE MCArtWebhook ----------------------------
(* One attempt, its requests in sequence, and the event of its capture.      *)
EXTENDS ArtWebhook, TLC

CONSTANTS a1, r1, r2, r3, w1, e1

UnitsOne == a1 :> 1
RequestForOne == [r \in Requests |-> a1]
AboutOne == e1 :> [attempt |-> a1, resource |-> "cap"]
=============================================================================
