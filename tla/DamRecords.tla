----------------------------- MODULE DamRecords -----------------------------
(* The rows that breeding, Stud Contracts, emergencies and sales share.      *)
(*                                                                           *)
(* One dam of one kennel (OWN), the stud of another kennel, the contracts    *)
(* between the two, and the dam's breeding attempts.  The transactions run   *)
(* READ COMMITTED: a handler reads, and writes later what it decided then.   *)
(* A handler whose reading can go stale is a process: one step reads, the    *)
(* next one writes, and anything may happen in between.  A handler that      *)
(* reads under the row lock it writes under, or repeats its condition in the *)
(* update, is one step.  A refused, failed or killed handler has no effect.  *)
(*                                                                           *)
(* Time is what has passed: an approval or response window is `late` or not, *)
(* an attempt is due for its check or its whelping or not.                   *)
EXTENDS Integers, FiniteSets

CONSTANTS
    Attempts,       \* breeding attempts
    Contracts,      \* Stud Contracts, each with at most one Return Service
    Offers,         \* the terms a Stud Offer may carry
    MinLitter,      \* minimumLitterSize of Puppy Back
    SmallLitter,    \* smallLitterReturnThreshold
    MaxLitter,      \* puppies in a large litter
    Lives,          \* bounds: the lives that are followed
    Processes,      \* what serves a request or runs a scheduled job
    None            \* no attempt, no contract

ASSUME AttemptsAssumption == IsFiniteSet(Attempts)
ASSUME ContractsAssumption == None \notin Contracts \cup Attempts /\ "free" \notin Contracts
ASSUME OffersAssumption ==
    Offers \subseteq [back: BOOLEAN, noLitter: BOOLEAN, small: BOOLEAN]
ASSUME LitterAssumption == /\ {MinLitter, SmallLitter, MaxLitter} \subseteq Nat \ {0}
                           /\ SmallLitter < MaxLitter

(* rngSeed decides at creation what an attempt will come to.                 *)
Seeds == {"barren", "small", "large", "crisis"}

ASSUME LivesAssumption ==
    /\ Lives \subseteq [overlapping: BOOLEAN, listing: {"NONE", "ACTIVE"}, survivor: BOOLEAN,
                       past: [Attempts -> Contracts \cup {None, "free"}], seeds: SUBSET Seeds,
                       jobs: SUBSET Processes, webs: SUBSET Processes]
    /\ \A one \in Lives : \A a, b \in Attempts :
          one.past[a] = one.past[b] /\ one.past[a] \in Contracts => a = b

VARIABLES
    dam,            \* the dam's row, and what her records say of her
    sire,           \* the stud: ready, in Stud Recovery, or no longer there
    attempt,        \* the BreedingAttempt rows
    contract,       \* the StudContract rows
    service,        \* the StudContractReturnService rows, by contract
    emergency,      \* the ReproductiveEmergencyEvent rows, by attempt
    accident,       \* the dam's DogEmergencyCareEvent
    listing,        \* the DogListing that offers the dam for sale
    proc,           \* what each process has read and is about to write
    life            \* how the dam starts, and the bounds of this behaviour

rows == <<dam, sire, attempt, contract, service, emergency, accident, listing>>
vars == <<rows, proc, life>>

AttemptStatuses == {"NONE", "INITIATED", "CHECKED_NOT_PREGNANT", "PREGNANT",
                    "REPRODUCTIVE_EMERGENCY", "WHELPED", "FAILED"}

(* `pups` are the puppies of the litter the row names (0: none), `litters`   *)
(* counts the litters made for it; `contract` and `service` are the contract *)
(* it fulfils and the one whose Return Service it uses.                      *)
AttemptRows == [status: AttemptStatuses, seed: Seeds, due: {"no", "check", "whelp"},
                pups: Nat, litters: Nat,
                contract: Contracts \cup {None}, service: Contracts \cup {None}]

NoAttempt == [status |-> "NONE", seed |-> "barren", due |-> "no", pups |-> 0,
              litters |-> 0, contract |-> None, service |-> None]

(* `live` is liveBornPuppyCount, once the qualification is written (0: not). *)
ContractRows == [status: {"NONE", "PENDING", "ACCEPTED", "DECLINED", "EXPIRED"},
                 back: BOOLEAN, noLitter: BOOLEAN, small: BOOLEAN, late: BOOLEAN,
                 live: Nat, selection: BOOLEAN]

NoContract == [status |-> "NONE", back |-> FALSE, noLitter |-> FALSE, small |-> FALSE,
               late |-> FALSE, live |-> 0, selection |-> FALSE]

ServiceRows == [status: {"NONE", "AVAILABLE", "USED", "EXPIRED", "EXTINGUISHED"},
                trigger: {"NONE", "NO_LITTER", "SMALL_LITTER"}, late: BOOLEAN]

NoService == [status |-> "NONE", trigger |-> "NONE", late |-> FALSE]

(* `paid` counts the ledger rows of the treatment; `order` is how many       *)
(* events were there before, and so the order of their deadlines.            *)
EmergencyRows == [status: {"NONE", "PENDING", "TREATMENT_AUTHORIZED", "TREATMENT_DECLINED",
                           "RESOLVED_TREATED", "RESOLVED_UNTREATED"},
                  late: BOOLEAN, paid: Nat, order: Nat]

NoEmergency == [status |-> "NONE", late |-> FALSE, paid |-> 0, order |-> 0]

Kennels == {"OWN", "OTHER"}

AccidentRows == [status: {"NONE", "PENDING", "TREATED_SURVIVED", "TREATED_DIED",
                          "DECLINED_DIED", "EXPIRED_DIED"},
                 kennel: Kennels, late: BOOLEAN, paid: Nat]

Handlers == {"idle", "breed", "check", "whelp", "treat", "refuse", "resolve",
             "open", "care", "forgo", "buy", "deadMarked", "deadExtinguished", "deadOwed", "deadFailed"}

Idle == [at |-> "idle", a |-> None, c |-> None, was |-> "none", owed |-> {}]

(* An attempt of the past that did not take, for contract c or for none; the *)
(* contract promised a No-Litter Return Service.                             *)
Tried(c) == [NoAttempt EXCEPT !.status = "CHECKED_NOT_PREGNANT", !.due = "check", !.contract = c]
Bound == [NoContract EXCEPT !.status = "ACCEPTED", !.noLitter = TRUE]
Owing == [NoService EXCEPT !.status = "AVAILABLE", !.trigger = "NO_LITTER"]

(* A living dam of OWN: put up for sale or not, with or without an accident  *)
(* and fruitless breedings behind her.  Her life also says what her attempts *)
(* may come to, which processes serve requests (pages resolve due breedings  *)
(* as well) or run scheduled jobs, and whether two of them may resolve one   *)
(* attempt at a time.                                                        *)
Init ==
    /\ life \in Lives
    /\ attempt = [a \in Attempts |->
                    IF life.past[a] = "free" THEN NoAttempt ELSE Tried(life.past[a])]
    /\ accident = [status |-> IF life.survivor THEN "TREATED_SURVIVED" ELSE "NONE",
                   kennel |-> "OWN", late |-> FALSE, paid |-> IF life.survivor THEN 1 ELSE 0]
    /\ listing = life.listing
    /\ dam = [alive |-> TRUE, owner |-> "OWN", resting |-> FALSE, barred |-> FALSE]
    /\ sire = "ready"
    /\ LET owing == {c \in Contracts : \E a \in Attempts : life.past[a] = c}
       IN  /\ contract = [c \in Contracts |-> IF c \in owing THEN Bound ELSE NoContract]
           /\ service = [c \in Contracts |-> IF c \in owing THEN Owing ELSE NoService]
    /\ emergency = [a \in Attempts |-> NoEmergency]
    /\ proc = [p \in Processes |-> Idle]

(* Definitions named ...Fault are plausible mistakes in the definition that  *)
(* follows them; no specification uses them (see the README, "Mutants").     *)

-----------------------------------------------------------------------------
(* What several handlers ask of the rows *)

Carrying == {"INITIATED", "PREGNANT", "REPRODUCTIVE_EMERGENCY"}

(* The dam has an active breeding in progress.                               *)
Bred == \E a \in Attempts : attempt[a].status \in Carrying

Requested == {c \in Contracts : contract[c].status = "PENDING"}

(* assertDogHasNoPendingVeterinaryCare, for the dam.                         *)
InCare ==
    \/ accident.status = "PENDING"
    \/ \E a \in Attempts : emergency[a].status \in
           {"PENDING", "TREATMENT_AUTHORIZED", "TREATMENT_DECLINED"}

Mine == dam.alive /\ dam.owner = "OWN"

(* getIndividualBreedingEligibility, for an adult dam.                       *)
Fertile == ~dam.resting /\ ~dam.barred

(* A process takes up a handler, or leaves it.                               *)
Enter(p, at, a, c, was) ==
    /\ proc[p].at = "idle"
    /\ proc' = [proc EXCEPT ![p] = [Idle EXCEPT !.at = at, !.a = a, !.c = c, !.was = was]]
    /\ UNCHANGED <<rows, life>>

Leave(p) == proc' = [proc EXCEPT ![p] = Idle]

(* The handler throws, its transaction rolls back, or its process dies.      *)
Abort(p) ==
    /\ proc[p].at # "idle"
    /\ Leave(p)
    /\ UNCHANGED <<rows, life>>

-----------------------------------------------------------------------------
(* Return Services *)

OpenedFault(s, c, trigger) == [s EXCEPT ![c] = [status |-> "AVAILABLE", trigger |-> trigger, late |-> FALSE]]

(* createStudContractReturnService: one per contract, never opened twice.    *)
Opened(s, c, trigger) ==
    IF s[c].status = "NONE"
    THEN [s EXCEPT ![c] = [status |-> "AVAILABLE", trigger |-> trigger, late |-> FALSE]]
    ELSE s

(* extinguishStudContractReturnServicesForDog: those still available.        *)
Extinguished(s) ==
    [c \in Contracts |-> IF s[c].status = "AVAILABLE"
                         THEN [s[c] EXCEPT !.status = "EXTINGUISHED"] ELSE s[c]]

-----------------------------------------------------------------------------
(* markDogDeceased, for the dam *)

(* Contracts owed a No-Litter Return Service for a breeding the death ends.  *)
Owed(att) ==
    {c \in Contracts : /\ contract[c].status = "ACCEPTED" /\ contract[c].noLitter
                       /\ \E a \in Attempts : att[a].contract = c /\ att[a].status \in Carrying}

OwedServices(s, owed) ==
    [c \in Contracts |-> IF c \in owed THEN Opened(s, c, "NO_LITTER")[c] ELSE s[c]]

Failed(att) ==
    [a \in Attempts |-> IF att[a].status \in Carrying
                        THEN [att[a] EXCEPT !.status = "FAILED"] ELSE att[a]]

Resolved == {"RESOLVED_TREATED", "RESOLVED_UNTREATED"}

Delisted == IF listing = "ACTIVE" THEN "EXPIRED" ELSE listing

(* Inside a transaction the whole death is one step, made after the caller's *)
(* own writes (att, s); a dog already dead is left as it is.                 *)
DiesAfter(att, s) ==
    IF dam.alive
    THEN /\ dam' = [dam EXCEPT !.alive = FALSE]
         /\ attempt' = Failed(att)
         /\ service' = OwedServices(Extinguished(s), Owed(att))
         /\ listing' = Delisted
    ELSE /\ attempt' = att
         /\ service' = s
         /\ UNCHANGED <<dam, listing>>
=============================================================================
