----------------------------- MODULE PuppyBack -----------------------------
(* The Puppy Back selection of one Stud Contract, from the whelping to the   *)
(* puppy's transfer at Day 56.                                               *)
(*                                                                           *)
(* The stud owner is owed one puppy of the litter that fits the contract     *)
(* (its sex).  With FIRST pick it is the stud owner's turn at once; with     *)
(* SECOND pick the dam owner picks a puppy to keep first.  A turn has a      *)
(* deadline; a missed one is forfeited.  A picked puppy that dies is         *)
(* replaced, and one that lives is moved to the stud kennel at Day 56.       *)
(*                                                                           *)
(* The owners' requests, sales and rehomings, the closing of the dam owner's *)
(* account, deaths and the runs of process-stud-contract-lifecycle work on   *)
(* the same rows.  A transaction reads, then writes with a conditional       *)
(* update (READ COMMITTED): it is two steps, and others come between.        *)
(*                                                                           *)
(* Time is counted in hours since the birth, or in a coarser unit that keeps *)
(* the order of the deadlines.                                               *)
EXTENDS Integers, FiniteSets

CONSTANTS
    Puppies,        \* the live-born puppies
    Contracts,      \* contract terms: pick position and the puppies that fit
    Turn,           \* length of a turn (24)
    Day56,          \* age at which a puppy may leave (PUPPY_SALE_MIN_AGE_HOURS)
    Jobs,           \* overlapping runs of process-stud-contract-lifecycle
    MaxCrashes,     \* bound: killed processes
    None            \* no puppy

ASSUME TurnAssumption == Turn \in Nat \ {0} /\ Day56 \in Nat /\ 2 * Turn < Day56
ASSUME PuppiesAssumption == None \notin Puppies
ASSUME ContractsAssumption ==
    Contracts \subseteq [position: {"FIRST", "SECOND"}, fitting: SUBSET Puppies]
ASSUME CrashesAssumption == MaxCrashes \in Nat

Owners == {"DAM_OWNER", "STUD_OWNER"}
Horizon == Day56 + 1                \* bound: the clock stops there

VARIABLES
    epoch,          \* the clock
    contract,       \* the terms, fixed before the breeding
    selection,      \* the StudContractPuppySelection row
    owner,          \* Dog.ownerKennelId: the dam's, the stud's, a buyer's, none
    life,           \* Dog.lifecycleState
    request,        \* request[o]: owner o's open pick request
    move,           \* move[p]: the open sale or rehoming of puppy p
    closing,        \* the open closing of the dam owner's account
    death,          \* death[p]: where the mortality processing of p stands
    job,            \* where each lifecycle run stands
    crashes         \* killed processes so far

dogs == <<owner, life>>
players == <<request, move, closing>>
vars == <<epoch, contract, selection, dogs, players, death, job, crashes>>

Final == {"COMPLETED", "FORFEITED", "UNFULFILLABLE"}
Statuses == {"DAM_FIRST_PICK", "STUD_PICK", "SELECTED"} \cup Final

(* A process that is not going.  `now` is the clock it read when it began,   *)
(* `at` the epoch it is told, `ok` whether it saw a puppy left to pick.      *)
Idle == [pc |-> "idle", now |-> 0, at |-> 0, dog |-> None, ok |-> FALSE]

(* openInitialStudContractPuppySelection, in the whelping's transaction.     *)
InitialTurn(c) == IF c.position = "FIRST" THEN "STUD_PICK" ELSE "DAM_FIRST_PICK"

Init ==
    /\ epoch = 0
    /\ contract \in Contracts
    /\ selection = [status |-> InitialTurn(contract), damPick |-> None,
                    selected |-> None, deadline |-> Turn]
    /\ owner = [p \in Puppies |-> "dam"]
    /\ life = [p \in Puppies |-> "ALIVE"]
    /\ request = [o \in Owners |-> Idle]
    /\ move = [p \in Puppies |-> Idle]
    /\ closing = Idle
    /\ death = [p \in Puppies |-> Idle]
    /\ job = [j \in Jobs |-> Idle]
    /\ crashes = 0

-----------------------------------------------------------------------------
(* Helpers.  Definitions named ...Fault are plausible mistakes in the        *)
(* definition that follows them (see the README, "Mutants").                 *)

Earlier(a, b) == IF a <= b THEN a ELSE b

(* The second turn ends two turns after the birth, whenever it began; a turn *)
(* that a death reopens, one turn later but not after Day 56.                *)
SecondDeadline == 2 * Turn
ReopenDeadlineFault(now) == now + Turn
ReopenDeadline(now) == Earlier(now + Turn, Day56)

(* hasSelectableStudContractPuppy                                            *)
Selectable ==
    {p \in contract.fitting : life[p] = "ALIVE" /\ p # selection.damPick}

(* evaluateStudContractPuppyProtection.  WAITING is never seen: the row is   *)
(* opened by the transaction that creates it.                                *)
ProtectedFault(p) ==
    /\ life[p] = "ALIVE"
    /\ \/ selection.status = "DAM_FIRST_PICK"
       \/ selection.status = "STUD_PICK" /\ p \in Selectable
Protected(p) ==
    /\ life[p] = "ALIVE"
    /\ \/ selection.status = "SELECTED" /\ selection.selected = p
       \/ selection.status = "DAM_FIRST_PICK"
       \/ selection.status = "STUD_PICK" /\ p \in Selectable

(* The transfer holds the row lock of the selection: no other transaction    *)
(* writes it, or takes the lock, before that one ends.                       *)
Unlocked == \A j \in Jobs : job[j].pc # "transfer"

-----------------------------------------------------------------------------
(* The owners.  One request per owner is open at a time (the page waits for  *)
(* the answer), and it works with the clock of its start.                    *)

(* The dam owner may keep any living puppy, the stud owner may take any that *)
(* fits but the one the dam owner keeps.                                     *)
PickableFault(o) == {p \in contract.fitting : life[p] = "ALIVE"}
Pickable(o) ==
    IF o = "DAM_OWNER" THEN {p \in Puppies : life[p] = "ALIVE"} ELSE Selectable

TurnOf(o) == IF o = "DAM_OWNER" THEN "DAM_FIRST_PICK" ELSE "STUD_PICK"

HasTurn(o, now) == selection.status = TurnOf(o) /\ now < selection.deadline

ReadPick(o) ==
    /\ request[o] = Idle
    /\ HasTurn(o, epoch)
    /\ \E p \in Pickable(o) :
          request' = [request EXCEPT ![o] = [Idle EXCEPT !.pc = "pick", !.now = epoch,
                                                         !.dog = p]]
    /\ UNCHANGED <<epoch, contract, selection, dogs, move, closing, death, job, crashes>>

(* The update repeats the conditions on the selection, not those on the dog. *)
WritePick(o) ==
    /\ request[o].pc = "pick"
    /\ Unlocked
    /\ selection' =
         IF ~HasTurn(o, request[o].now) THEN selection
         ELSE IF o = "DAM_OWNER"
         THEN [selection EXCEPT !.status = "STUD_PICK", !.damPick = request[o].dog,
                                !.deadline = SecondDeadline]
         ELSE [selection EXCEPT !.status = "SELECTED", !.selected = request[o].dog,
                                !.deadline = 0]
    /\ request' = [request EXCEPT ![o] = Idle]
    /\ UNCHANGED <<epoch, contract, dogs, move, closing, death, job, crashes>>

(* A puppy of age that the contract does not protect is rehomed, or bought   *)
(* from a listing (which it gets at the same age, and which is compared with *)
(* the protection again when it is bought).                                  *)
OfAge(now) == now >= Day56

ReadMove(p) ==
    /\ move[p] = Idle
    /\ OfAge(epoch)
    /\ owner[p] = "dam"
    /\ life[p] = "ALIVE"
    /\ ~Protected(p)
    /\ \E kind \in {"rehome", "sale"} :
          move' = [move EXCEPT ![p] = [Idle EXCEPT !.pc = kind, !.now = epoch]]
    /\ UNCHANGED <<epoch, contract, selection, dogs, request, closing, death, job, crashes>>

(* The rehoming is conditional on owner and life, the sale on nothing.       *)
Rehome(p) ==
    /\ move[p].pc = "rehome"
    /\ IF owner[p] = "dam" /\ life[p] = "ALIVE"
       THEN /\ owner' = [owner EXCEPT ![p] = "none"]
            /\ life' = [life EXCEPT ![p] = "TRANSFERRED"]
       ELSE UNCHANGED dogs
    /\ move' = [move EXCEPT ![p] = Idle]
    /\ UNCHANGED <<epoch, contract, selection, request, closing, death, job, crashes>>

Sell(p) ==
    /\ move[p].pc = "sale"
    /\ owner' = [owner EXCEPT ![p] = "buyer"]
    /\ move' = [move EXCEPT ![p] = Idle]
    /\ UNCHANGED <<epoch, contract, selection, life, request, closing, death, job, crashes>>

(* The dam owner's account is closed when none of its dogs is protected; its *)
(* living dogs retire.                                                       *)
ReadClosing ==
    /\ closing = Idle
    /\ \A p \in Puppies : owner[p] = "dam" => ~Protected(p)
    /\ \E p \in Puppies : owner[p] = "dam" /\ life[p] = "ALIVE"
    /\ closing' = [Idle EXCEPT !.pc = "close", !.now = epoch]
    /\ UNCHANGED <<epoch, contract, selection, dogs, request, move, death, job, crashes>>

Close ==
    /\ closing.pc = "close"
    /\ life' = [p \in Puppies |->
                  IF owner[p] = "dam" /\ life[p] = "ALIVE" THEN "RETIRED" ELSE life[p]]
    /\ closing' = Idle
    /\ UNCHANGED <<epoch, contract, selection, owner, request, move, death, job, crashes>>

-----------------------------------------------------------------------------
(* Deaths.  The mortality route finds a projected death some time after its  *)
(* epoch (what matters is on which side of Day 56 that lies), marks the dog  *)
(* and then looks for its selection, outside any transaction.  (A death in   *)
(* an emergency does the same in one.)                                       *)

Die(p) ==
    /\ death[p] = Idle
    /\ life[p] \in {"ALIVE", "RETIRED"}
    /\ life' = [life EXCEPT ![p] = "DECEASED"]
    /\ \E at \in {epoch, Earlier(epoch, Day56 - 1)} :
          death' = [death EXCEPT ![p] = [Idle EXCEPT !.pc = "dead", !.now = epoch, !.at = at]]
    /\ UNCHANGED <<epoch, contract, selection, owner, players, job, crashes>>

(* reconcileSelectedStudContractPuppyDeath: is p the selected puppy, and may *)
(* another one be picked?                                                    *)
PickDied(p) ==
    selection.status = "SELECTED" /\ selection.selected = p /\ life[p] = "DECEASED"
ReplaceableFault(at) == at < SecondDeadline /\ Selectable # {}
Replaceable(at) == at < Day56 /\ Selectable # {}

ReadDeath(p) ==
    /\ death[p].pc = "dead"
    /\ death' = [death EXCEPT ![p] = IF PickDied(p)
                                     THEN [@ EXCEPT !.pc = "reopen", !.dog = p,
                                                    !.ok = Replaceable(death[p].at)]
                                     ELSE Idle]
    /\ UNCHANGED <<epoch, contract, selection, dogs, players, job, crashes>>

(* The conditional update at its end, for a death or a lifecycle run x.      *)
ReopenedFault(x) ==
    IF selection.status = "SELECTED" /\ selection.selected = x.dog /\ x.ok
    THEN [selection EXCEPT !.status = "STUD_PICK", !.selected = None,
                           !.deadline = ReopenDeadline(x.now)]
    ELSE selection
Reopened(x) ==
    IF ~(selection.status = "SELECTED" /\ selection.selected = x.dog) THEN selection
    ELSE IF x.ok
    THEN [selection EXCEPT !.status = "STUD_PICK", !.selected = None,
                           !.deadline = ReopenDeadline(x.now)]
    ELSE [selection EXCEPT !.status = "UNFULFILLABLE", !.deadline = 0]

Reopen(p) ==
    /\ death[p].pc = "reopen"
    /\ Unlocked
    /\ selection' = Reopened(death[p])
    /\ death' = [death EXCEPT ![p] = Idle]
    /\ UNCHANGED <<epoch, contract, dogs, players, job, crashes>>

-----------------------------------------------------------------------------
(* A run of process-stud-contract-lifecycle: expired turns, then deaths that *)
(* were not reconciled, then due transfers.                                  *)

Goto(j, label) == job' = [job EXCEPT ![j].pc = label]

StartRun(j) ==
    /\ job[j] = Idle
    /\ job' = [job EXCEPT ![j] = [Idle EXCEPT !.pc = "turns", !.now = epoch, !.at = epoch]]
    /\ UNCHANGED <<epoch, contract, selection, dogs, players, death, crashes>>

Turns == {"DAM_FIRST_PICK", "STUD_PICK"}
Expired(now) == selection.status \in Turns /\ selection.deadline <= now

(* processExpiredStudContractPuppySelectionTurns                             *)
ReadTurn(j) ==
    /\ job[j].pc = "turns"
    /\ job' = [job EXCEPT ![j] =
                 IF ~Expired(@.now) THEN [@ EXCEPT !.pc = "deaths"]
                 ELSE IF selection.status = "STUD_PICK" THEN [@ EXCEPT !.pc = "forfeit"]
                 ELSE [@ EXCEPT !.pc = "pass", !.ok = Selectable # {}]]
    /\ UNCHANGED <<epoch, contract, selection, dogs, players, death, crashes>>

(* The dam owner's turn passes to the stud owner if a fitting puppy was left.*)
StillExpiredFault(status, now) == TRUE
StillExpired(status, now) == selection.status = status /\ Expired(now)

Pass(j) ==
    /\ job[j].pc = "pass"
    /\ Unlocked
    /\ selection' =
         IF ~StillExpired("DAM_FIRST_PICK", job[j].now) THEN selection
         ELSE IF job[j].ok
         THEN [selection EXCEPT !.status = "STUD_PICK", !.deadline = SecondDeadline]
         ELSE [selection EXCEPT !.status = "UNFULFILLABLE", !.deadline = 0]
    /\ Goto(j, "deaths")
    /\ UNCHANGED <<epoch, contract, dogs, players, death, crashes>>

Forfeit(j) ==
    /\ job[j].pc = "forfeit"
    /\ Unlocked
    /\ selection' = IF StillExpired("STUD_PICK", job[j].now)
                    THEN [selection EXCEPT !.status = "FORFEITED", !.deadline = 0]
                    ELSE selection
    /\ Goto(j, "deaths")
    /\ UNCHANGED <<epoch, contract, dogs, players, death, crashes>>

(* reconcileSelectedStudContractPuppyDeaths                                  *)
FindDeath(j) ==
    /\ job[j].pc = "deaths"
    /\ IF \E p \in Puppies : PickDied(p)
       THEN job' = [job EXCEPT ![j].pc = "reopen", ![j].dog = selection.selected,
                               ![j].ok = Replaceable(job[j].at)]
       ELSE Goto(j, "transfers")
    /\ UNCHANGED <<epoch, contract, selection, dogs, players, death, crashes>>

JobReopen(j) ==
    /\ job[j].pc = "reopen"
    /\ Unlocked
    /\ selection' = Reopened(job[j])
    /\ Goto(j, "transfers")
    /\ UNCHANGED <<epoch, contract, dogs, players, death, crashes>>

(* processDueStudContractPuppyTransfers: the selection is locked and read.   *)
(* A puppy that is not the dam kennel's makes it throw.                      *)
Due(j) ==
    /\ selection.status = "SELECTED"
    /\ life[selection.selected] = "ALIVE"
    /\ owner[selection.selected] = "dam"
    /\ job[j].at >= Day56

LockTransfer(j) ==
    /\ job[j].pc = "transfers"
    /\ Unlocked
    /\ job' = [job EXCEPT ![j] = IF Due(j)
                                 THEN [@ EXCEPT !.pc = "transfer", !.dog = selection.selected]
                                 ELSE Idle]
    /\ UNCHANGED <<epoch, contract, selection, dogs, players, death, crashes>>

Transfer(j) ==
    LET p == job[j].dog
    IN  /\ job[j].pc = "transfer"
        /\ IF life[p] = "ALIVE" /\ owner[p] = "dam"
           THEN /\ owner' = [owner EXCEPT ![p] = "stud"]
                /\ selection' = [selection EXCEPT !.status = "COMPLETED", !.deadline = 0]
           ELSE UNCHANGED <<owner, selection>>
        /\ job' = [job EXCEPT ![j] = Idle]
        /\ UNCHANGED <<epoch, contract, life, players, death, crashes>>

-----------------------------------------------------------------------------
(* A process dies between two statements; an open transaction rolls back.    *)
Crash ==
    /\ crashes < MaxCrashes
    /\ crashes' = crashes + 1
    /\ \/ \E o \in Owners : /\ request[o] # Idle
                            /\ request' = [request EXCEPT ![o] = Idle]
                            /\ UNCHANGED <<move, closing, death, job>>
       \/ \E p \in Puppies : /\ move[p] # Idle
                             /\ move' = [move EXCEPT ![p] = Idle]
                             /\ UNCHANGED <<request, closing, death, job>>
       \/ /\ closing # Idle
          /\ closing' = Idle
          /\ UNCHANGED <<request, move, death, job>>
       \/ \E p \in Puppies : /\ death[p] # Idle
                             /\ death' = [death EXCEPT ![p] = Idle]
                             /\ UNCHANGED <<players, job>>
       \/ \E j \in Jobs : /\ job[j] # Idle
                          /\ job' = [job EXCEPT ![j] = Idle]
                          /\ UNCHANGED <<players, death>>
    /\ UNCHANGED <<epoch, contract, selection, dogs>>

(* The clock.  A process lasts minutes: it may see one hour begin, never a   *)
(* second one.                                                               *)
Going == {request[o] : o \in Owners} \cup {move[p] : p \in Puppies} \cup {closing}
         \cup {death[p] : p \in Puppies} \cup {job[j] : j \in Jobs}

Tick ==
    /\ epoch < Horizon
    /\ \A x \in Going \ {Idle} : x.now = epoch
    /\ epoch' = epoch + 1
    /\ UNCHANGED <<contract, selection, dogs, players, death, job, crashes>>

-----------------------------------------------------------------------------
JobStep(j) ==
    \/ ReadTurn(j) \/ Pass(j) \/ Forfeit(j) \/ FindDeath(j) \/ JobReopen(j)
    \/ LockTransfer(j) \/ Transfer(j)

MoveStep(p) == Rehome(p) \/ Sell(p)
DeathStep(p) == ReadDeath(p) \/ Reopen(p)

Next ==
    \/ Tick
    \/ \E o \in Owners : ReadPick(o) \/ WritePick(o)
    \/ \E p \in Puppies : ReadMove(p) \/ MoveStep(p) \/ Die(p) \/ DeathStep(p)
    \/ ReadClosing \/ Close
    \/ \E j \in Jobs : StartRun(j) \/ JobStep(j)
    \/ Crash

Spec == Init /\ [][Next]_vars

-----------------------------------------------------------------------------
(* Properties *)

Lives == {"ALIVE", "DECEASED", "TRANSFERRED", "RETIRED"}

Rows(labels) ==
    [pc: {"idle"} \cup labels, now: 0..Horizon, at: 0..Horizon,
     dog: Puppies \cup {None}, ok: BOOLEAN]

(* Every variable keeps its type; no turn lasts beyond Day 56, the day from  *)
(* which the puppies may leave.                                              *)
TypeOK ==
    /\ epoch \in 0..Horizon
    /\ contract \in Contracts
    /\ selection \in [status: Statuses, damPick: Puppies \cup {None},
                      selected: Puppies \cup {None}, deadline: 0..Day56]
    /\ owner \in [Puppies -> {"dam", "stud", "buyer", "none"}]
    /\ life \in [Puppies -> Lives]
    /\ request \in [Owners -> Rows({"pick"})]
    /\ move \in [Puppies -> Rows({"rehome", "sale"})]
    /\ closing \in Rows({"close"})
    /\ death \in [Puppies -> Rows({"dead", "reopen"})]
    /\ job \in [Jobs -> Rows({"turns", "pass", "forfeit", "deaths", "reopen",
                              "transfers", "transfer"})]
    /\ crashes \in 0..MaxCrashes

(* A picked puppy stays with the dam kennel until its transfer: no sale or   *)
(* rehoming that read the protection before the pick, or before a death      *)
(* moved the pick to another puppy, takes it away.                           *)
PickIsNotGivenAway ==
    selection.status = "SELECTED" =>
        owner[selection.selected] = "dam" /\ life[selection.selected] # "TRANSFERRED"

(* The stud kennel receives one puppy at most, the one it picked, which fits *)
(* the contract and is not the one the dam owner kept.                       *)
OnlyThePickIsTransferred ==
    \A p \in Puppies : owner[p] = "stud" =>
        /\ selection.status = "COMPLETED"
        /\ selection.selected = p
        /\ p \in contract.fitting \ {selection.damPick}

(* The stud owner loses the puppy as unfulfillable only when there is none   *)
(* left to pick, or the puppies have reached the age of leaving.             *)
UnfulfilledOnlyForWant ==
    selection.status = "UNFULFILLABLE" => Selectable = {} \/ epoch >= Day56

(* What ended stays ended, and the dam owner's kept puppy is never changed.  *)
OutcomeIsFinal ==
    [][/\ selection.status \in Final => selection' = selection
       /\ selection.damPick # None => selection'.damPick = selection.damPick]_vars

-----------------------------------------------------------------------------
(* Liveness.  The lifecycle route is invoked for ever, a request or a death  *)
(* that has begun ends, and the clock goes on.                               *)
Finish ==
    \/ \E o \in Owners : WritePick(o)
    \/ \E p \in Puppies : MoveStep(p) \/ DeathStep(p)
    \/ Close

Fairness ==
    /\ WF_vars(Tick)
    /\ WF_vars(Finish)
    /\ \A j \in Jobs : WF_vars(StartRun(j) \/ JobStep(j))

FairSpec == Spec /\ Fairness

(* Every selection ends: in a transfer, a missed turn or for want of a puppy; *)
(* a picked puppy that lives arrives at the stud kennel unless it retires    *)
(* with an account that was closed while the pick was being made.            *)
SelectionEnds ==
    <>(\/ selection.status \in Final
       \/ selection.status = "SELECTED" /\ life[selection.selected] = "RETIRED")
=============================================================================
