------------------------------ MODULE DamLife ------------------------------
(* The rest of a dam's life, and the whole: her death, her accidents, her    *)
(* sale, with the breedings, contracts and emergencies they interrupt.       *)
EXTENDS WhelpingEmergency

(* A scheduled death is written in statements of their own (the mortality    *)
(* route has no transaction), and the run may be killed between any two.     *)
(* A dam whose accident is undecided, or ended in death, is passed over.     *)
DieMark(p) ==
    /\ proc[p].at = "idle"
    /\ dam.alive
    /\ accident.status \in {"NONE", "TREATED_SURVIVED"}
    /\ dam' = [dam EXCEPT !.alive = FALSE]
    /\ proc' = [proc EXCEPT ![p].at = "deadMarked"]
    /\ UNCHANGED <<sire, attempt, contract, service, emergency, accident, listing, life>>

DieExtinguish(p) ==
    /\ proc[p].at = "deadMarked"
    /\ service' = Extinguished(service)
    /\ proc' = [proc EXCEPT ![p].at = "deadExtinguished"]
    /\ UNCHANGED <<dam, sire, attempt, contract, emergency, accident, listing, life>>

(* The listing expires, and the contracts owed a Return Service are read.    *)
DieDelist(p) ==
    /\ proc[p].at = "deadExtinguished"
    /\ listing' = Delisted
    /\ proc' = [proc EXCEPT ![p].at = "deadOwed", ![p].owed = Owed(attempt)]
    /\ UNCHANGED <<dam, sire, attempt, contract, service, emergency, accident, life>>

DieFail(p) ==
    /\ proc[p].at = "deadOwed"
    /\ attempt' = Failed(attempt)
    /\ proc' = [proc EXCEPT ![p].at = "deadFailed"]
    /\ UNCHANGED <<dam, sire, contract, service, emergency, accident, listing, life>>

DieRepay(p) ==
    /\ proc[p].at = "deadFailed"
    /\ service' = OwedServices(service, proc[p].owed)
    /\ Leave(p)
    /\ UNCHANGED <<dam, sire, attempt, contract, emergency, accident, listing, life>>

Dies(p) == DieExtinguish(p) \/ DieDelist(p) \/ DieFail(p) \/ DieRepay(p)

-----------------------------------------------------------------------------
(* Accidents: DogEmergencyCareEvent *)

(* The mortality run reads the dam, and asks her owner of then.              *)
BeginOpen(p) ==
    /\ dam.alive
    /\ accident.status = "NONE"
    /\ Enter(p, "open", None, None, dam.owner)

CommitOpen(p) ==
    /\ proc[p].at = "open"
    /\ accident.status = "NONE"
    /\ accident' = [status |-> "PENDING", kennel |-> proc[p].was, late |-> FALSE, paid |-> 0]
    /\ Leave(p)
    /\ UNCHANGED <<dam, sire, attempt, contract, service, emergency, listing, life>>

AccidentWindowEnds ==
    /\ accident.status = "PENDING"
    /\ ~accident.late
    /\ accident' = [accident EXCEPT !.late = TRUE]
    /\ UNCHANGED <<dam, sire, attempt, contract, service, emergency, listing, proc, life>>

(* The owner's decision; declining knows no deadline.                        *)
BeginCare(p) ==
    /\ accident.status = "PENDING" /\ ~accident.late
    /\ dam.alive /\ dam.owner = accident.kennel
    /\ Enter(p, "care", None, None, "PENDING")

BeginForgo(p) ==
    /\ accident.status = "PENDING"
    /\ dam.alive /\ dam.owner = accident.kennel
    /\ Enter(p, "forgo", None, None, "PENDING")

(* The condition all three updates repeat.                                   *)
Undecided == accident.status = "PENDING"

CommitCare(p) ==
    /\ proc[p].at = "care"
    /\ Undecided
    /\ \/ /\ accident' = [accident EXCEPT !.status = "TREATED_SURVIVED", !.paid = @ + 1]
          /\ UNCHANGED <<dam, attempt, service, listing>>
       \/ /\ accident' = [accident EXCEPT !.status = "TREATED_DIED", !.paid = @ + 1]
          /\ DiesAfter(attempt, service)
    /\ Leave(p)
    /\ UNCHANGED <<sire, contract, emergency, life>>

CommitForgo(p) ==
    /\ proc[p].at = "forgo"
    /\ Undecided
    /\ accident' = [accident EXCEPT !.status = "DECLINED_DIED"]
    /\ DiesAfter(attempt, service)
    /\ Leave(p)
    /\ UNCHANGED <<sire, contract, emergency, life>>

(* processExpiredEmergencyCareEvents, for the dam's event.                   *)
ExpireCare ==
    /\ Undecided
    /\ accident.late
    /\ accident' = [accident EXCEPT !.status = "EXPIRED_DIED"]
    /\ DiesAfter(attempt, service)
    /\ UNCHANGED <<sire, contract, emergency, proc, life>>

-----------------------------------------------------------------------------
(* buyPlayerDogListing *)

BeginBuy(p) ==
    /\ listing = "ACTIVE"
    /\ Mine /\ ~InCare
    /\ Enter(p, "buy", None, None, "ACTIVE")

(* What the purchase writes, it writes without a condition.                  *)
CommitBuy(p) ==
    /\ proc[p].at = "buy"
    /\ dam' = [dam EXCEPT !.owner = "OTHER"]
    /\ service' = Extinguished(service)
    /\ listing' = "SOLD"
    /\ Leave(p)
    /\ UNCHANGED <<sire, attempt, contract, emergency, accident, life>>

-----------------------------------------------------------------------------
(* The whole *)

Resolves(p, a) == BeginCheck(p, a) \/ BeginWhelp(p, a)

JobBegins(p) ==
    \/ \E a \in Attempts : Resolves(p, a) \/ BeginResolve(p, a)
    \/ DieMark(p) \/ BeginOpen(p)

WebBegins(p) ==
    \/ Breeds(p)
    \/ \E a \in Attempts : Resolves(p, a) \/ BeginTreat(p, a) \/ BeginRefuse(p, a)
    \/ BeginCare(p) \/ BeginForgo(p) \/ BeginBuy(p)

Commits(p) ==
    \/ CommitBreed(p) \/ CommitCheck(p) \/ CommitWhelp(p)
    \/ CommitTreat(p) \/ CommitRefuse(p) \/ CommitResolve(p)
    \/ CommitOpen(p) \/ CommitCare(p) \/ CommitForgo(p) \/ CommitBuy(p)
    \/ Dies(p)

Clocks ==
    \/ \E a \in Attempts : AttemptClock(a) \/ EmergencyWindowEnds(a)
    \/ AccidentWindowEnds \/ DamRecovers

Next ==
    \/ ContractNext
    \/ \E p \in life.jobs : JobBegins(p)
    \/ \E p \in life.webs : WebBegins(p)
    \/ \E p \in Processes : Commits(p) \/ Abort(p)
    \/ Clocks \/ ExpireCare

Spec == Init /\ [][Next]_vars

(* Time passes; the scheduled jobs run again and again, and no handler       *)
(* hangs.  While attempts are due, a run or a page resolves one of them      *)
(* again and again, and does not fail every time.                            *)
Fairness ==
    /\ \A c \in Contracts : WF_vars(ContractClock(c) \/ ContractJob(c))
    /\ WF_vars(AccidentWindowEnds \/ ExpireCare)
    /\ \A p \in Processes : WF_vars(Abort(p) \/ Commits(p))
    /\ WF_vars(\E a \in Attempts : AttemptClock(a))
    /\ SF_vars(\E p \in life.jobs \cup life.webs, a \in Attempts : Resolves(p, a))
    /\ SF_vars(\E p \in Processes : CommitCheck(p) \/ CommitWhelp(p))

FairSpec == Spec /\ Fairness

-----------------------------------------------------------------------------
(* What must hold *)

(* The rows keep their shape, and a process that has left its handler keeps  *)
(* nothing of what it read there.                                            *)
TypeOK ==
    /\ dam \in [alive: BOOLEAN, owner: Kennels, resting: BOOLEAN, barred: BOOLEAN]
    /\ sire \in {"ready", "recovering", "gone"}
    /\ attempt \in [Attempts -> AttemptRows]
    /\ contract \in [Contracts -> ContractRows]
    /\ service \in [Contracts -> ServiceRows]
    /\ emergency \in [Attempts -> EmergencyRows]
    /\ accident \in AccidentRows
    /\ listing \in {"NONE", "ACTIVE", "SOLD", "EXPIRED"}
    /\ \A p \in Processes :
          /\ proc[p].at \in Handlers
          /\ proc[p].at = "idle" => proc[p] = Idle
          /\ proc[p].at \in {"check", "whelp", "treat", "refuse", "resolve"} => proc[p].a \in Attempts
    /\ life \in Lives

(* What the owners agreed is bred once: a contract is accepted by creating   *)
(* its breeding, so an accepted contract has exactly one attempt and no      *)
(* other contract has any, whoever approves it, twice or after its deadline  *)
(* was processed; and a Return Service has one exactly when it is used,      *)
(* whatever sale, death or deadline ends it meanwhile.                       *)
AgreementIsBredOnce ==
    \A c \in Contracts :
        /\ Cardinality({a \in Attempts : attempt[a].contract = c}) =
               (IF contract[c].status = "ACCEPTED" THEN 1 ELSE 0)
        /\ Cardinality({a \in Attempts : attempt[a].service = c}) =
               (IF service[c].status = "USED" THEN 1 ELSE 0)

(* A contract that promises a No-Litter Return Service has one, once its     *)
(* breeding did not take, whoever resolved the check.                        *)
NoLitterIsRepaid ==
    \A a \in Attempts, c \in Contracts :
        attempt[a].status = "CHECKED_NOT_PREGNANT" /\ attempt[a].contract = c
            => (contract[c].noLitter => service[c].status # "NONE")

(* The owner pays for a treatment once, of a whelping or of an accident:     *)
(* what was paid for is resolved as treated, and what was not is not.        *)
TreatmentIsPaidOnce ==
    /\ \A a \in Attempts :
          /\ emergency[a].paid \in {0, 1}
          /\ emergency[a].status \in {"TREATMENT_AUTHORIZED", "RESOLVED_TREATED"}
                <=> emergency[a].paid = 1
    /\ accident.paid = (IF accident.status \in {"TREATED_SURVIVED", "TREATED_DIED"} THEN 1 ELSE 0)

(* An attempt gives one litter: without overlapping runs always, and with    *)
(* them when its whelping became an emergency.                               *)
OneLitterPerAttempt ==
    \A a \in Attempts : ~life.overlapping \/ attempt[a].seed = "crisis" => attempt[a].litters \in {0, 1}

(* What was decided stays decided, whoever decides late or again: a request  *)
(* keeps its answer and the terms it was made under, an ended Return Service *)
(* is not opened by a later failure, an accident keeps its outcome.          *)
DecisionsAreFinal ==
    [][/\ \A c \in Contracts :
            /\ contract[c].status \in {"ACCEPTED", "DECLINED", "EXPIRED"} =>
                 /\ contract'[c].status = contract[c].status
                 /\ contract'[c].noLitter = contract[c].noLitter
                 /\ contract'[c].small = contract[c].small
            /\ service[c].status \in {"USED", "EXPIRED", "EXTINGUISHED"} =>
                 service'[c] = service[c]
       /\ accident.status \notin {"NONE", "PENDING"} => accident' = accident]_vars

Waiting == \/ accident.status = "PENDING"
           \/ \E c \in Contracts : contract[c].status = "PENDING" \/ service[c].status = "AVAILABLE"

(* Nothing waits past its deadline for ever: a request is answered or        *)
(* expires, a Return Service is used or ends, an accident is decided, even   *)
(* when the dam was sold or died and nobody may answer any more.             *)
DeadlinesAreKept == []<>~Waiting

Underway == \E a \in Attempts : attempt[a].status \in {"INITIATED", "PREGNANT"}

(* Without overlapping runs, every attempt is checked and whelped, fails, or *)
(* becomes an emergency: the death or sale of the dam does not strand it.    *)
BreedingEnds == []<>(life.overlapping \/ ~Underway)
=============================================================================
