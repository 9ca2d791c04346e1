------------------------------ MODULE MCSupport ------------------------------
(* Five stories: payments that fail and recover while other events are at    *)
(* work, an upgrade while events overlap, changes with the reconcile button  *)
(* (elsewhere an event reads PayPal as it does) by a player who leaves at    *)
(* PayPal, an upgrade that is asked for again, and a downgrade that is       *)
(* cancelled.  Next to payments one handler at a time serves an event that   *)
(* is of none.                                                               *)
EXTENDS SupportSubscriptions, TLC

All == {
    [subs |-> {1}, tiers |-> {1}, bills |-> 2, slots |-> {1, 2}, plain |-> {1}, may |-> {}],
    [subs |-> {1, 2}, tiers |-> {1, 2}, bills |-> 0, slots |-> {1, 2}, plain |-> {1, 2},
     may |-> {"upgrade"}],
    [subs |-> {1, 2}, tiers |-> {1, 2}, bills |-> 0, slots |-> {1}, plain |-> {1},
     may |-> {"upgrade", "downgrade", "reconcile", "leave"}],
    [subs |-> {1, 2, 3}, tiers |-> {1, 2}, bills |-> 0, slots |-> {1}, plain |-> {1},
     may |-> {"upgrade"}],
    [subs |-> {1}, tiers |-> {1, 2}, bills |-> 0, slots |-> {1, 2}, plain |-> {1, 2},
     may |-> {"downgrade", "cancel", "leave", "wait"}]}
=============================================================================
