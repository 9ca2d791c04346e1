------------------------- MODULE WhelpingEmergency -------------------------
(* Reproductive emergencies: the owner authorizes or declines the treatment  *)
(* within the response window, and a scheduled job resolves what was decided *)
(* or left undecided: the litter, the dam, her future.                       *)
EXTENDS Breeding

(* What authorize- and declineReproductiveEmergencyTreatment require.        *)
Answerable(a) ==
    /\ emergency[a].status = "PENDING" /\ ~emergency[a].late
    /\ Mine
    /\ attempt[a].status = "REPRODUCTIVE_EMERGENCY"

BeginTreat(p, a) == Answerable(a) /\ Enter(p, "treat", a, None, "PENDING")
BeginRefuse(p, a) == Answerable(a) /\ Enter(p, "refuse", a, None, "PENDING")

EmergencyUnchangedFault(p) == emergency[proc[p].a].status \notin Resolved

(* The event still has the status this process read.                         *)
EmergencyUnchanged(p) == emergency[proc[p].a].status = proc[p].was

(* The treatment is paid in the same transaction.                            *)
CommitTreat(p) ==
    LET a == proc[p].a IN
    /\ proc[p].at = "treat"
    /\ EmergencyUnchanged(p)
    /\ emergency' = [emergency EXCEPT ![a].status = "TREATMENT_AUTHORIZED", ![a].paid = @ + 1]
    /\ Leave(p)
    /\ UNCHANGED <<dam, sire, attempt, contract, service, accident, listing, life>>

CommitRefuse(p) ==
    LET a == proc[p].a IN
    /\ proc[p].at = "refuse"
    /\ EmergencyUnchanged(p)
    /\ emergency' = [emergency EXCEPT ![a].status = "TREATMENT_DECLINED"]
    /\ Leave(p)
    /\ UNCHANGED <<dam, sire, attempt, contract, service, accident, listing, life>>

EmergencyWindowEnds(a) ==
    /\ emergency[a].status = "PENDING"
    /\ ~emergency[a].late
    /\ emergency' = [emergency EXCEPT ![a].late = TRUE]
    /\ UNCHANGED <<dam, sire, attempt, contract, service, accident, listing, proc, life>>

-----------------------------------------------------------------------------
(* process-emergency-vet-care: expired and declined events by their          *)
(* deadline, then authorized ones.                                           *)

Neglected(a) == \/ emergency[a].status = "TREATMENT_DECLINED"
                \/ emergency[a].status = "PENDING" /\ emergency[a].late

Awaiting(a) == attempt[a].status = "REPRODUCTIVE_EMERGENCY"

(* An event whose attempt no longer awaits it throws, and ends the run.      *)
Reached(a) ==
    \A b \in Attempts :
        Neglected(b) /\ ~Awaiting(b) =>
            Neglected(a) /\ emergency[a].order < emergency[b].order

BeginResolve(p, a) ==
    /\ Neglected(a) \/ emergency[a].status = "TREATMENT_AUTHORIZED"
    /\ Reached(a)
    /\ Awaiting(a)
    /\ Enter(p, "resolve", a, None, emergency[a].status)

(* No puppy survives, or some do.                                            *)
Survivors == {0, MaxLitter}

AfterEmergency(a, n) ==
    [attempt EXCEPT ![a].status = IF n > 0 THEN "WHELPED" ELSE "FAILED",
                    ![a].pups = n, ![a].litters = @ + (IF n > 0 THEN 1 ELSE 0)]

(* The dam recovers, may never breed again, or dies.                         *)
DamAfterEmergency(a, n) ==
    \/ /\ dam' = [dam EXCEPT !.resting = TRUE]
       /\ attempt' = AfterEmergency(a, n)
       /\ UNCHANGED <<service, listing>>
    \/ /\ dam' = [dam EXCEPT !.barred = TRUE]
       /\ attempt' = AfterEmergency(a, n)
       /\ service' = Extinguished(service)
       /\ UNCHANGED listing
    \/ DiesAfter(AfterEmergency(a, n), service)

(* resolveReproductiveEmergencyEvent: only the event's own status is checked *)
(* again; the attempt is written whatever it is now.                         *)
CommitResolve(p) ==
    LET a == proc[p].a
        treated == proc[p].was = "TREATMENT_AUTHORIZED" IN
    /\ proc[p].at = "resolve"
    /\ EmergencyUnchanged(p)
    /\ emergency' = [emergency EXCEPT ![a].status =
                       IF treated THEN "RESOLVED_TREATED" ELSE "RESOLVED_UNTREATED"]
    /\ \E n \in Survivors : DamAfterEmergency(a, n)
    /\ Leave(p)
    /\ UNCHANGED <<sire, contract, accident, life>>
=============================================================================
