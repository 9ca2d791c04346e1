------------------------------ MODULE Breeding ------------------------------
(* Breeding attempts: created by a breeding in the kennel, a Stud Contract   *)
(* or a Return Service, checked for pregnancy, and whelped.                  *)
EXTENDS StudContracts

Free == {a \in Attempts : attempt[a].status = "NONE"}
NextFree == CHOOSE a \in Free : TRUE

ContractOfFault(a) == {c \in Contracts : attempt[a].contract = c /\ contract[c].status = "PENDING"}

(* The contract an attempt fulfils, while it is accepted.                    *)
ContractOf(a) == {c \in Contracts : attempt[a].contract = c /\ contract[c].status = "ACCEPTED"}

-----------------------------------------------------------------------------
(* createBreedingAttemptForKennel *)

(* What is read before the transaction.  `kind` is who asks: the kennel with *)
(* a stud of its own, a public Automatic offer, the stud owner's approval of *)
(* contract c, or the Return Service of contract c.                          *)
BeginBreed(p, kind, c) ==
    /\ Free # {}
    /\ Mine /\ Fertile /\ ~Bred
    /\ Requested \subseteq (IF kind = "manual" THEN {c} ELSE {})
    /\ \/ kind \in {"own", "automatic"} /\ c = None
       \/ kind = "manual" /\ c # None /\ contract[c].status = "PENDING"
       \/ kind = "return" /\ c # None /\ service[c].status # "NONE"
    /\ Enter(p, "breed", None, c, kind)

(* Outside studs: the dam's row is locked and her facts are read again.  A   *)
(* breeding in the kennel trusts what was read before.                       *)
DamStillFits(kind) ==
    /\ kind # "own" => Mine /\ ~Bred
    /\ kind \in {"manual", "return"} => Fertile

ServiceUsable(c) == service[c].status = "AVAILABLE" /\ ~service[c].late

(* The approved contract is locked, and must still await its answer.         *)
RequestOpenFault(c) == ~contract[c].late

RequestOpen(c) == contract[c].status = "PENDING" /\ ~contract[c].late

MayBreed(kind, c) ==
    /\ Free # {}
    /\ DamStillFits(kind) /\ ~InCare
    /\ kind # "own" => sire = "ready"
    /\ kind = "manual" => RequestOpen(c)
    /\ kind = "return" => ServiceUsable(c) /\ contract[c].status = "ACCEPTED"

NewAttempt(seed, c, s) ==
    [NoAttempt EXCEPT !.status = "INITIATED", !.seed = seed, !.contract = c, !.service = s]

(* The transaction's writes for one kind of breeding.                        *)
BreedOwn ==
    \E seed \in life.seeds :
        /\ attempt' = [attempt EXCEPT ![NextFree] = NewAttempt(seed, None, None)]
        /\ UNCHANGED <<sire, contract, service>>

BreedAutomatic ==
    \E seed \in life.seeds, offer \in Offers, c \in Contracts :
        /\ contract[c].status = "NONE"
        /\ attempt' = [attempt EXCEPT ![NextFree] = NewAttempt(seed, c, None)]
        /\ contract' = [contract EXCEPT ![c] =
                          [NoContract EXCEPT !.status = "ACCEPTED", !.back = offer.back,
                                             !.noLitter = offer.noLitter, !.small = offer.small]]
        /\ sire' = "recovering"
        /\ UNCHANGED service

BreedManual(c) ==
    \E seed \in life.seeds :
        /\ attempt' = [attempt EXCEPT ![NextFree] = NewAttempt(seed, c, None)]
        /\ contract' = [contract EXCEPT ![c].status = "ACCEPTED"]
        /\ sire' = "recovering"
        /\ UNCHANGED service

BreedReturn(c) ==
    \E seed \in life.seeds :
        /\ attempt' = [attempt EXCEPT ![NextFree] = NewAttempt(seed, None, c)]
        /\ service' = [service EXCEPT ![c].status = "USED"]
        /\ sire' = "recovering"
        /\ UNCHANGED contract

CommitBreed(p) ==
    /\ proc[p].at = "breed"
    /\ MayBreed(proc[p].was, proc[p].c)
    /\ CASE proc[p].was = "own"       -> BreedOwn
         [] proc[p].was = "automatic" -> BreedAutomatic
         [] proc[p].was = "manual"    -> BreedManual(proc[p].c)
         [] proc[p].was = "return"    -> BreedReturn(proc[p].c)
    /\ Leave(p)
    /\ UNCHANGED <<dam, emergency, accident, listing, life>>

-----------------------------------------------------------------------------
(* resolveDueBreedingProgress, for one due attempt *)

(* The next of its hours strikes: the check is due, then the whelping.       *)
AttemptClock(a) ==
    /\ attempt[a].status \in {"INITIATED", "PREGNANT"}
    /\ attempt[a].due # "whelp"
    /\ attempt' = [attempt EXCEPT ![a].due = IF @ = "no" THEN "check" ELSE "whelp"]
    /\ UNCHANGED <<dam, sire, contract, service, emergency, accident, listing, proc, life>>

(* No other run is resolving this attempt, unless runs may overlap.          *)
Alone(a) == \/ life.overlapping
            \/ \A q \in Processes : ~(proc[q].a = a /\ proc[q].at \in {"check", "whelp"})

BeginCheck(p, a) ==
    /\ attempt[a].status = "INITIATED"
    /\ attempt[a].due # "no"
    /\ Alone(a)
    /\ Enter(p, "check", a, None, "none")

(* resolvePregnancyCheckAttempt writes its outcome whatever the row is now.  *)
Conceived(a) == attempt[a].seed # "barren"

CommitCheck(p) ==
    LET a == proc[p].a IN
    /\ proc[p].at = "check"
    /\ attempt' = [attempt EXCEPT ![a].status =
                     IF Conceived(a) THEN "PREGNANT" ELSE "CHECKED_NOT_PREGNANT"]
    /\ service' = [c \in Contracts |->
                     IF ~Conceived(a) /\ c \in ContractOf(a) /\ contract[c].noLitter
                     THEN Opened(service, c, "NO_LITTER")[c] ELSE service[c]]
    /\ Leave(p)
    /\ UNCHANGED <<dam, sire, contract, emergency, accident, listing, life>>

DueFault(a) == attempt[a].status = "PREGNANT" /\ attempt[a].due = "whelp" /\ dam.alive

Due(a) == attempt[a].status = "PREGNANT" /\ attempt[a].due = "whelp"

BeginWhelp(p, a) ==
    /\ Due(a)
    /\ attempt[a].pups = 0
    /\ emergency[a].status = "NONE"
    /\ Alone(a)
    /\ Enter(p, "whelp", a, None, "none")

StillPregnantFault(a) == attempt[a].seed = "crisis"

(* The unique key of the event and the conditions of the update.             *)
StillPregnant(a) ==
    /\ emergency[a].status = "NONE"
    /\ attempt[a].status = "PREGNANT"
    /\ attempt[a].pups = 0

Complicate(a) ==
    /\ attempt' = [attempt EXCEPT ![a].status = "REPRODUCTIVE_EMERGENCY"]
    /\ emergency' = [emergency EXCEPT ![a].status = "PENDING",
                                       ![a].order = Cardinality({b \in Attempts : emergency[b].status # "NONE"})]
    /\ UNCHANGED <<dam, contract, service>>

PupCount(a) == IF attempt[a].seed = "small" THEN SmallLitter ELSE MaxLitter

(* The contract whose qualification this litter decides.                     *)
Unqualified(a) == {c \in ContractOf(a) : contract[c].live = 0}

(* evaluateStudContractWhelpQualification and what follows from it.          *)
Whelp(a) ==
    LET n == PupCount(a) IN
    /\ attempt' = [attempt EXCEPT ![a].status = "WHELPED", ![a].pups = n, ![a].litters = @ + 1]
    /\ contract' = [c \in Contracts |->
                      IF c \in Unqualified(a)
                      THEN [contract[c] EXCEPT !.live = n,
                                               !.selection = @ \/ (contract[c].back /\ n >= MinLitter)]
                      ELSE contract[c]]
    /\ service' = [c \in Contracts |->
                     IF c \in Unqualified(a) /\ contract[c].small /\ n <= SmallLitter
                     THEN Opened(service, c, "SMALL_LITTER")[c] ELSE service[c]]
    /\ dam' = [dam EXCEPT !.resting =
                 IF \E b \in Attempts : emergency[b].status \in Resolved THEN @ ELSE TRUE]
    /\ UNCHANGED emergency

CommitWhelp(p) ==
    LET a == proc[p].a IN
    /\ proc[p].at = "whelp"
    /\ \/ attempt[a].seed = "crisis" /\ StillPregnant(a) /\ Complicate(a)
       \/ attempt[a].seed # "crisis" /\ Whelp(a)
    /\ Leave(p)
    /\ UNCHANGED <<sire, accident, listing, life>>

(* The recovery of the dam ends.                                             *)
DamRecovers ==
    /\ dam.resting
    /\ dam' = [dam EXCEPT !.resting = FALSE]
    /\ UNCHANGED <<sire, attempt, contract, service, emergency, accident, listing, proc, life>>

Breeds(p) ==
    \E kind \in {"own", "automatic", "manual", "return"}, c \in Contracts \cup {None} :
        BeginBreed(p, kind, c)
=============================================================================
