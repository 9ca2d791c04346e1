---------------------------- MODULE DamLifeProofs ----------------------------
(* Proofs about a dam's life, for any number of attempts, contracts and      *)
(* processes: what the owners agreed is bred once, what was paid for is      *)
(* treated, what was promised is given, and what was decided stays decided.  *)
EXTENDS DamLife, FiniteSetTheorems, TLAPS

Readings == {"none", "own", "automatic", "manual", "return", "PENDING", "TREATMENT_AUTHORIZED",
             "TREATMENT_DECLINED", "ACTIVE", "OWN", "OTHER"}

Procs == [at: Handlers, a: Attempts \cup {None}, c: Contracts \cup {None},
          was: Readings, owed: SUBSET Contracts]

RowsOK ==
    /\ dam \in [alive: BOOLEAN, owner: Kennels, resting: BOOLEAN, barred: BOOLEAN]
    /\ sire \in {"ready", "recovering", "gone"}
    /\ attempt \in [Attempts -> AttemptRows]
    /\ contract \in [Contracts -> ContractRows]
    /\ service \in [Contracts -> ServiceRows]
    /\ emergency \in [Attempts -> EmergencyRows]
    /\ accident \in AccidentRows
    /\ listing \in {"NONE", "ACTIVE", "SOLD", "EXPIRED"}
    /\ life \in Lives

(* What a process remembers fits the handler it is in.                       *)
Fits(r) ==
    /\ r.at = "idle" => r = Idle
    /\ r.at \in {"check", "whelp", "treat", "refuse", "resolve"} => r.a \in Attempts
    /\ r.at = "breed" =>
          /\ r.was \in {"own", "automatic", "manual", "return"}
          /\ r.was \in {"manual", "return"} => r.c \in Contracts
    /\ r.at = "open" => r.was \in Kennels
    /\ r.at \in {"treat", "refuse"} => r.was = "PENDING"
    /\ r.at = "resolve" =>
          r.was \in {"PENDING", "TREATMENT_AUTHORIZED", "TREATMENT_DECLINED"}

ProcOK == proc \in [Processes -> Procs] /\ \A p \in Processes : Fits(proc[p])

TypeInv == RowsOK /\ ProcOK

LEMMA TypeFits == TypeInv => TypeOK
  BY DEF TypeInv, RowsOK, ProcOK, Procs, Fits, TypeOK

-----------------------------------------------------------------------------
(* What a step leaves as it was                                              *)

Ended == {"USED", "EXPIRED", "EXTINGUISHED"}
Answered == {"ACCEPTED", "DECLINED", "EXPIRED"}

(* The attempts y are those of x, as far as contracts are concerned.         *)
SameAttempts(x, y) ==
    \A a \in Attempts : /\ y[a].contract = x[a].contract
                        /\ y[a].service = x[a].service
                        /\ y[a].status = "NONE" => x[a].status = "NONE"

(* ... and none of them turns out not to have taken.                         *)
NoneFailed(x, y) ==
    \A a \in Attempts : y[a].status = "CHECKED_NOT_PREGNANT" => x[a].status = "CHECKED_NOT_PREGNANT"

(* No contract is accepted, and what was answered keeps answer and terms.    *)
SameContracts(x, y) ==
    \A c \in Contracts :
        /\ y[c].status = "ACCEPTED" <=> x[c].status = "ACCEPTED"
        /\ x[c].status \in Answered => /\ y[c].status = x[c].status
                                       /\ y[c].noLitter = x[c].noLitter
                                       /\ y[c].small = x[c].small

(* No service is used, and what ended stays.                                 *)
SameServices(x, y) ==
    \A c \in Contracts :
        /\ y[c].status = "USED" <=> x[c].status = "USED"
        /\ x[c].status \in Ended => y[c] = x[c]
        /\ x[c].status # "NONE" => y[c].status # "NONE"

Agrees ==
    /\ SameAttempts(attempt, attempt')
    /\ SameContracts(contract, contract')
    /\ SameServices(service, service')

(* What most steps do.                                                       *)
Keeps == TypeInv' /\ Agrees /\ NoneFailed(attempt, attempt')

LEMMA AgreesUnchanged ==
    /\ \A x : SameAttempts(x, x) /\ NoneFailed(x, x)
    /\ \A x : SameContracts(x, x)
    /\ \A x : SameServices(x, x)
  BY DEF SameAttempts, NoneFailed, SameContracts, SameServices

-----------------------------------------------------------------------------
(* The helpers                                                               *)

LEMMA OpenedKeeps ==
    ASSUME NEW s \in [Contracts -> ServiceRows], NEW c \in Contracts,
           NEW trigger \in {"NO_LITTER", "SMALL_LITTER"}
    PROVE  /\ Opened(s, c, trigger) \in [Contracts -> ServiceRows]
           /\ SameServices(s, Opened(s, c, trigger))
           /\ Opened(s, c, trigger)[c].status # "NONE"
<1>1. [status |-> "AVAILABLE", trigger |-> trigger, late |-> FALSE] \in ServiceRows
  BY DEF ServiceRows
<1>2. QED
  BY <1>1 DEF Opened, SameServices, Ended

LEMMA ExtinguishedKeeps ==
    ASSUME NEW s \in [Contracts -> ServiceRows]
    PROVE  /\ Extinguished(s) \in [Contracts -> ServiceRows]
           /\ SameServices(s, Extinguished(s))
<1>1. ASSUME NEW r \in ServiceRows
      PROVE  [r EXCEPT !.status = "EXTINGUISHED"] \in ServiceRows
  BY DEF ServiceRows
<1>2. QED
  BY <1>1 DEF Extinguished, SameServices, Ended

LEMMA OwedServicesKeep ==
    ASSUME NEW s \in [Contracts -> ServiceRows], NEW owed \in SUBSET Contracts
    PROVE  /\ OwedServices(s, owed) \in [Contracts -> ServiceRows]
           /\ SameServices(s, OwedServices(s, owed))
<1>1. \A c \in Contracts : /\ Opened(s, c, "NO_LITTER") \in [Contracts -> ServiceRows]
                          /\ SameServices(s, Opened(s, c, "NO_LITTER"))
  BY OpenedKeeps
<1>2. QED
  BY <1>1 DEF OwedServices, SameServices

LEMMA FailedKeeps ==
    ASSUME NEW x \in [Attempts -> AttemptRows]
    PROVE  /\ Failed(x) \in [Attempts -> AttemptRows]
           /\ SameAttempts(x, Failed(x))
           /\ NoneFailed(x, Failed(x))
<1>1. ASSUME NEW r \in AttemptRows
      PROVE  /\ [r EXCEPT !.status = "FAILED"] \in AttemptRows
             /\ [r EXCEPT !.status = "FAILED"].contract = r.contract
             /\ [r EXCEPT !.status = "FAILED"].service = r.service
             /\ [r EXCEPT !.status = "FAILED"].status = "FAILED"
  BY DEF AttemptRows, AttemptStatuses
<1>2. QED
  BY <1>1 DEF Failed, SameAttempts, NoneFailed

LEMMA SameTransitive ==
    /\ \A x, y, z : SameAttempts(x, y) /\ SameAttempts(y, z) => SameAttempts(x, z)
    /\ \A x, y, z : NoneFailed(x, y) /\ NoneFailed(y, z) => NoneFailed(x, z)
    /\ \A x, y, z : SameServices(x, y) /\ SameServices(y, z) => SameServices(x, z)
  BY DEF SameAttempts, NoneFailed, SameServices

LEMMA DelistedType ==
    listing \in {"NONE", "ACTIVE", "SOLD", "EXPIRED"} =>
        Delisted \in {"NONE", "ACTIVE", "SOLD", "EXPIRED"}
  BY DEF Delisted

(* A death after the writes x and s.                                         *)
LEMMA DeathKeeps ==
    ASSUME RowsOK, NEW x \in [Attempts -> AttemptRows], NEW s \in [Contracts -> ServiceRows],
           DiesAfter(x, s)
    PROVE  /\ attempt' \in [Attempts -> AttemptRows]
           /\ service' \in [Contracts -> ServiceRows]
           /\ dam' \in [alive: BOOLEAN, owner: Kennels, resting: BOOLEAN, barred: BOOLEAN]
           /\ listing' \in {"NONE", "ACTIVE", "SOLD", "EXPIRED"}
           /\ SameAttempts(x, attempt') /\ NoneFailed(x, attempt')
           /\ SameServices(s, service')
<1>1. CASE dam.alive
  <2>1. Owed(x) \in SUBSET Contracts
    BY DEF Owed
  <2>2. /\ Extinguished(s) \in [Contracts -> ServiceRows]
        /\ SameServices(s, Extinguished(s))
    BY ExtinguishedKeeps
  <2>3. /\ OwedServices(Extinguished(s), Owed(x)) \in [Contracts -> ServiceRows]
        /\ SameServices(Extinguished(s), OwedServices(Extinguished(s), Owed(x)))
    BY <2>1, <2>2, OwedServicesKeep
  <2>4. [dam EXCEPT !.alive = FALSE] \in [alive: BOOLEAN, owner: Kennels, resting: BOOLEAN, barred: BOOLEAN]
    BY DEF RowsOK
  <2>5. SameServices(s, OwedServices(Extinguished(s), Owed(x)))
    BY <2>2, <2>3, SameTransitive
  <2>6. /\ dam' = [dam EXCEPT !.alive = FALSE]
        /\ attempt' = Failed(x)
        /\ service' = OwedServices(Extinguished(s), Owed(x))
        /\ listing' = Delisted
    BY <1>1 DEF DiesAfter
  <2>7. listing' \in {"NONE", "ACTIVE", "SOLD", "EXPIRED"}
    BY <2>6, DelistedType DEF RowsOK
  <2>8. QED
    BY <2>3, <2>4, <2>5, <2>6, <2>7, FailedKeeps
<1>2. CASE ~dam.alive
  BY <1>2, AgreesUnchanged DEF DiesAfter, RowsOK
<1>3. QED
  BY <1>1, <1>2

-----------------------------------------------------------------------------
(* The processes                                                             *)

LEMMA ProcMoves ==
    ASSUME ProcOK, NEW p \in Processes, NEW r \in Procs, Fits(r),
           proc' = [proc EXCEPT ![p] = r]
    PROVE  ProcOK'
  BY DEF ProcOK

LEMMA Leaves ==
    ASSUME ProcOK, NEW p \in Processes, Leave(p)
    PROVE  ProcOK'
<1>1. Idle \in Procs
  BY DEF Idle, Procs, Handlers, Readings
<1>2. Fits(Idle)
  BY DEF Idle, Fits
<1>3. QED
  BY <1>1, <1>2, ProcMoves DEF Leave

LEMMA Enters ==
    ASSUME TypeInv, NEW p \in Processes,
           NEW at \in Handlers \ {"idle"}, NEW a \in Attempts \cup {None},
           NEW c \in Contracts \cup {None}, NEW was \in Readings,
           Fits([Idle EXCEPT !.at = at, !.a = a, !.c = c, !.was = was]),
           Enter(p, at, a, c, was)
    PROVE  Keeps /\ UNCHANGED rows
<1>1. [Idle EXCEPT !.at = at, !.a = a, !.c = c, !.was = was] \in Procs
  BY DEF Idle, Procs
<1>2. ProcOK'
  BY <1>1, ProcMoves DEF Enter, TypeInv
<1>3. QED
  BY <1>2, AgreesUnchanged DEF Enter, TypeInv, RowsOK, Agrees, Keeps, rows

-----------------------------------------------------------------------------
(* Steps of contracts and of time                                            *)

LEMMA ContractRow ==
    ASSUME NEW r \in ContractRows
    PROVE  /\ \A st \in {"NONE", "PENDING", "ACCEPTED", "DECLINED", "EXPIRED"} :
                /\ [r EXCEPT !.status = st] \in ContractRows
                /\ [r EXCEPT !.status = st].status = st
                /\ [r EXCEPT !.status = st].noLitter = r.noLitter
                /\ [r EXCEPT !.status = st].small = r.small
           /\ [r EXCEPT !.late = TRUE] \in ContractRows
           /\ [r EXCEPT !.late = TRUE].status = r.status
  BY DEF ContractRows

LEMMA ServiceRow ==
    ASSUME NEW r \in ServiceRows
    PROVE  /\ \A st \in {"NONE", "AVAILABLE", "USED", "EXPIRED", "EXTINGUISHED"} :
                /\ [r EXCEPT !.status = st] \in ServiceRows
                /\ [r EXCEPT !.status = st].status = st
           /\ [r EXCEPT !.late = TRUE] \in ServiceRows
           /\ [r EXCEPT !.late = TRUE].status = r.status
  BY DEF ServiceRows

LEMMA QuietSteps ==
    ASSUME TypeInv, Quiet, contract' \in [Contracts -> ContractRows],
           service' \in [Contracts -> ServiceRows],
           SameContracts(contract, contract'), SameServices(service, service')
    PROVE  Keeps
  BY AgreesUnchanged DEF TypeInv, RowsOK, ProcOK, Quiet, Keeps, Agrees

LEMMA OfferRow ==
    ASSUME NEW offer \in Offers, NEW st \in {"PENDING", "ACCEPTED"}
    PROVE  [NoContract EXCEPT !.status = st, !.back = offer.back,
                             !.noLitter = offer.noLitter, !.small = offer.small] \in ContractRows
  BY OffersAssumption DEF NoContract, ContractRows

LEMMA ContractStep ==
    ASSUME TypeInv, ContractNext
    PROVE  Keeps /\ UNCHANGED <<emergency, accident>>
<1>0. contract \in [Contracts -> ContractRows] /\ service \in [Contracts -> ServiceRows]
  BY DEF TypeInv, RowsOK
<1>1. ASSUME NEW c \in Contracts, NEW offer \in Offers, RequestContract(c, offer)
      PROVE  Keeps /\ UNCHANGED <<emergency, accident>>
  <2> DEFINE r == [NoContract EXCEPT !.status = "PENDING", !.back = offer.back,
                                     !.noLitter = offer.noLitter, !.small = offer.small]
  <2>1. r \in ContractRows /\ r.status = "PENDING"
    BY OfferRow DEF NoContract
  <2>2. contract' = [contract EXCEPT ![c] = r] /\ contract[c].status = "NONE"
    BY <1>1 DEF RequestContract
  <2> HIDE DEF r
  <2>3. contract' \in [Contracts -> ContractRows] /\ SameContracts(contract, contract')
    BY <1>0, <2>1, <2>2 DEF SameContracts, Answered
  <2>4. QED
    BY <1>0, <1>1, <2>3, QuietSteps, AgreesUnchanged DEF RequestContract, Quiet
<1>2. ASSUME NEW c \in Contracts, DeclineContract(c) \/ ExpireContract(c)
      PROVE  Keeps /\ UNCHANGED <<emergency, accident>>
  <2>1. PICK st \in {"DECLINED", "EXPIRED"} : contract' = [contract EXCEPT ![c].status = st]
    BY <1>2 DEF DeclineContract, ExpireContract
  <2>2. contract[c].status = "PENDING"
    BY <1>2 DEF DeclineContract, Declinable, ExpireContract, Expirable
  <2>3. contract' \in [Contracts -> ContractRows] /\ SameContracts(contract, contract')
    BY <1>0, <2>1, <2>2, ContractRow DEF SameContracts, Answered
  <2>4. QED
    BY <1>0, <1>2, <2>3, QuietSteps, AgreesUnchanged DEF DeclineContract, ExpireContract, Quiet
<1>3. ASSUME NEW c \in Contracts, ApprovalWindowEnds(c)
      PROVE  Keeps /\ UNCHANGED <<emergency, accident>>
  <2>1. contract' = [contract EXCEPT ![c].late = TRUE] /\ contract[c].status = "PENDING"
    BY <1>3 DEF ApprovalWindowEnds
  <2>2. contract' \in [Contracts -> ContractRows] /\ SameContracts(contract, contract')
    BY <1>0, <2>1, ContractRow DEF SameContracts, Answered
  <2>3. QED
    BY <1>0, <1>3, <2>2, QuietSteps, AgreesUnchanged DEF ApprovalWindowEnds, Quiet
<1>4. ASSUME NEW c \in Contracts, ExpireService(c) \/ ServiceWindowEnds(c)
      PROVE  Keeps /\ UNCHANGED <<emergency, accident>>
  <2>1. service[c].status = "AVAILABLE"
    BY <1>4 DEF ExpireService, ServiceWindowEnds
  <2>2. \/ service' = [service EXCEPT ![c].status = "EXPIRED"]
        \/ service' = [service EXCEPT ![c].late = TRUE]
    BY <1>4 DEF ExpireService, ServiceWindowEnds
  <2>3. service' \in [Contracts -> ServiceRows] /\ SameServices(service, service')
    <3>1. PICK r \in ServiceRows : r.status \in {"AVAILABLE", "EXPIRED"}
                                  /\ service' = [service EXCEPT ![c] = r]
      <4>1. CASE service' = [service EXCEPT ![c].status = "EXPIRED"]
        BY <1>0, <4>1, ServiceRow
      <4>2. CASE service' = [service EXCEPT ![c].late = TRUE]
        BY <1>0, <2>1, <4>2, ServiceRow
      <4>3. QED
        BY <2>2, <4>1, <4>2
    <3>2. QED
      BY <1>0, <2>1, <3>1 DEF SameServices, Ended
  <2>4. QED
    BY <1>0, <1>4, <2>3, QuietSteps, AgreesUnchanged DEF ExpireService, ServiceWindowEnds, Quiet
<1>5. CASE SireLeaves \/ SireRecovers
  <2>1. service' \in [Contracts -> ServiceRows] /\ SameServices(service, service')
    BY <1>0, <1>5, ExtinguishedKeeps, AgreesUnchanged DEF SireLeaves, SireRecovers
  <2>2. QED
    BY <1>5, <2>1, AgreesUnchanged
    DEF SireLeaves, SireRecovers, TypeInv, RowsOK, ProcOK, Keeps, Agrees
<1>6. QED
  BY <1>1, <1>2, <1>3, <1>4, <1>5 DEF ContractNext, ContractJob, ContractClock

LEMMA ClockStep ==
    ASSUME TypeInv, Clocks
    PROVE  Keeps
<1>0. TypeInv
  OBVIOUS
<1>1. ASSUME NEW a \in Attempts, AttemptClock(a)
      PROVE  Keeps
  <2>1. PICK d \in {"check", "whelp"} : attempt' = [attempt EXCEPT ![a].due = d]
    BY <1>1 DEF AttemptClock
  <2>2. ASSUME NEW r \in AttemptRows
        PROVE  /\ [r EXCEPT !.due = d] \in AttemptRows
               /\ [r EXCEPT !.due = d].status = r.status
               /\ [r EXCEPT !.due = d].contract = r.contract
               /\ [r EXCEPT !.due = d].service = r.service
    BY DEF AttemptRows
  <2>3. /\ attempt' \in [Attempts -> AttemptRows]
        /\ SameAttempts(attempt, attempt') /\ NoneFailed(attempt, attempt')
    BY <1>0, <2>1, <2>2 DEF TypeInv, RowsOK, SameAttempts, NoneFailed
  <2>4. QED
    BY <1>0, <1>1, <2>3, AgreesUnchanged DEF AttemptClock, TypeInv, RowsOK, ProcOK, Keeps, Agrees
<1>2. ASSUME NEW a \in Attempts, EmergencyWindowEnds(a)
      PROVE  Keeps
  <2>1. ASSUME NEW r \in EmergencyRows
        PROVE  [r EXCEPT !.late = TRUE] \in EmergencyRows
    BY DEF EmergencyRows
  <2>2. emergency' \in [Attempts -> EmergencyRows]
    BY <1>0, <1>2, <2>1 DEF EmergencyWindowEnds, TypeInv, RowsOK
  <2>3. QED
    BY <1>0, <1>2, <2>2, AgreesUnchanged DEF EmergencyWindowEnds, TypeInv, RowsOK, ProcOK, Keeps, Agrees
<1>3. CASE AccidentWindowEnds
  <2>1. accident' \in AccidentRows
    BY <1>0, <1>3 DEF AccidentWindowEnds, TypeInv, RowsOK, AccidentRows
  <2>2. QED
    BY <1>0, <1>3, <2>1, AgreesUnchanged DEF AccidentWindowEnds, TypeInv, RowsOK, ProcOK, Keeps, Agrees
<1>4. CASE DamRecovers
  <2>1. dam' \in [alive: BOOLEAN, owner: Kennels, resting: BOOLEAN, barred: BOOLEAN]
    BY <1>0, <1>4 DEF DamRecovers, TypeInv, RowsOK
  <2>2. QED
    BY <1>0, <1>4, <2>1, AgreesUnchanged DEF DamRecovers, TypeInv, RowsOK, ProcOK, Keeps, Agrees
<1>5. QED
  BY <1>1, <1>2, <1>3, <1>4 DEF Clocks

-----------------------------------------------------------------------------
(* Steps of the handlers                                                     *)

(* What was paid stays in order, and an accident keeps its outcome.          *)
Settles ==
    /\ TreatmentIsPaidOnce => TreatmentIsPaidOnce'
    /\ accident.status \notin {"NONE", "PENDING"} => accident' = accident

LEMMA SettlesUnchanged ==
    ASSUME UNCHANGED <<emergency, accident>>
    PROVE  Settles
  BY DEF Settles, TreatmentIsPaidOnce

LEMMA BreedBegins ==
    ASSUME TypeInv, NEW p \in Processes, Breeds(p)
    PROVE  Keeps /\ UNCHANGED rows
<1>1. PICK kind \in {"own", "automatic", "manual", "return"}, c \in Contracts \cup {None} :
        BeginBreed(p, kind, c)
  BY DEF Breeds
<1>2. Enter(p, "breed", None, c, kind)
  BY <1>1 DEF BeginBreed
<1>3. Fits([Idle EXCEPT !.at = "breed", !.a = None, !.c = c, !.was = kind])
  BY <1>1 DEF BeginBreed, Fits, Idle
<1>4. "breed" \in Handlers \ {"idle"} /\ kind \in Readings
  BY DEF Handlers, Readings
<1>5. QED
  BY <1>2, <1>3, <1>4, Enters

LEMMA EventBegins ==
    ASSUME TypeInv, NEW p \in Processes, NEW a \in Attempts,
           \/ Resolves(p, a) \/ BeginResolve(p, a)
           \/ BeginTreat(p, a) \/ BeginRefuse(p, a)
    PROVE  Keeps /\ UNCHANGED rows
<1>1. PICK at \in {"check", "whelp", "treat", "refuse", "resolve"}, was \in Readings :
        /\ Enter(p, at, a, None, was)
        /\ at \in {"treat", "refuse"} => was = "PENDING"
        /\ at = "resolve" => was \in {"PENDING", "TREATMENT_AUTHORIZED", "TREATMENT_DECLINED"}
  BY DEF Resolves, BeginCheck, BeginWhelp, BeginResolve, Neglected, BeginTreat, BeginRefuse, Readings
<1>2. Fits([Idle EXCEPT !.at = at, !.a = a, !.c = None, !.was = was])
  BY <1>1 DEF Fits, Idle
<1>3. at \in Handlers \ {"idle"}
  BY DEF Handlers
<1>4. QED
  BY <1>1, <1>2, <1>3, Enters

LEMMA DamBegins ==
    ASSUME TypeInv, NEW p \in Processes,
           BeginOpen(p) \/ BeginCare(p) \/ BeginForgo(p) \/ BeginBuy(p)
    PROVE  Keeps /\ UNCHANGED rows
<1>1. dam.owner \in {"OWN", "OTHER"}
  BY DEF TypeInv, RowsOK, Kennels
<1>2. PICK at \in {"open", "care", "forgo", "buy"}, was \in Readings :
        /\ Enter(p, at, None, None, was)
        /\ at = "open" => was \in {"OWN", "OTHER"}
  BY <1>1 DEF BeginOpen, BeginCare, BeginForgo, BeginBuy, Readings
<1>3. Fits([Idle EXCEPT !.at = at, !.a = None, !.c = None, !.was = was])
  BY <1>2 DEF Fits, Idle, Kennels
<1>4. at \in Handlers \ {"idle"}
  BY DEF Handlers
<1>5. QED
  BY <1>2, <1>3, <1>4, Enters

(* The statements of a scheduled death.                                      *)
LEMMA DeathSteps ==
    ASSUME TypeInv, NEW p \in Processes, DieMark(p) \/ Dies(p)
    PROVE  Keeps /\ UNCHANGED <<emergency, accident>>
<1>0. TypeInv
  OBVIOUS
<1>1. CASE DieMark(p) \/ DieExtinguish(p) \/ DieFail(p)
  <2>1. PICK at \in {"deadMarked", "deadExtinguished", "deadFailed"} :
          proc' = [proc EXCEPT ![p].at = at]
    BY <1>1 DEF DieMark, DieExtinguish, DieFail
  <2>2. [proc[p] EXCEPT !.at = at] \in Procs /\ Fits([proc[p] EXCEPT !.at = at])
    BY <1>0 DEF TypeInv, ProcOK, Procs, Handlers, Fits
  <2>3. proc' = [proc EXCEPT ![p] = [proc[p] EXCEPT !.at = at]]
    BY <1>0, <2>1 DEF TypeInv, ProcOK
  <2>4. ProcOK'
    BY <1>0, <2>2, <2>3, ProcMoves DEF TypeInv
  <2>5. /\ dam' \in [alive: BOOLEAN, owner: Kennels, resting: BOOLEAN, barred: BOOLEAN]
        /\ attempt' \in [Attempts -> AttemptRows]
        /\ service' \in [Contracts -> ServiceRows]
        /\ SameAttempts(attempt, attempt') /\ NoneFailed(attempt, attempt')
        /\ SameServices(service, service')
    BY <1>0, <1>1, FailedKeeps, ExtinguishedKeeps, AgreesUnchanged
    DEF TypeInv, RowsOK, DieMark, DieExtinguish, DieFail
  <2>6. UNCHANGED <<sire, contract, emergency, accident, listing, life>>
    BY <1>1 DEF DieMark, DieExtinguish, DieFail
  <2>7. QED
    BY <1>0, <2>4, <2>5, <2>6, AgreesUnchanged DEF TypeInv, RowsOK, Keeps, Agrees
<1>2. CASE DieDelist(p)
  <2> DEFINE r == [proc[p] EXCEPT !.at = "deadOwed", !.owed = Owed(attempt)]
  <2>1. Owed(attempt) \in SUBSET Contracts
    BY DEF Owed
  <2>2. r \in Procs /\ Fits(r)
    BY <1>0, <2>1 DEF TypeInv, ProcOK, Procs, Handlers, Fits
  <2>3. proc' = [proc EXCEPT ![p] = r]
    BY <1>0, <1>2 DEF DieDelist, TypeInv, ProcOK, Procs
  <2>4. ProcOK'
    BY <1>0, <2>2, <2>3, ProcMoves DEF TypeInv
  <2>5. QED
    BY <1>0, <1>2, <2>4, DelistedType, AgreesUnchanged DEF DieDelist, TypeInv, RowsOK, Keeps, Agrees
<1>3. CASE DieRepay(p)
  <2>1. ProcOK'
    BY <1>0, <1>3, Leaves DEF DieRepay, TypeInv
  <2>2. proc[p].owed \in SUBSET Contracts
    BY <1>0 DEF TypeInv, ProcOK, Procs
  <2>3. service' \in [Contracts -> ServiceRows] /\ SameServices(service, service')
    BY <1>0, <1>3, <2>2, OwedServicesKeep DEF DieRepay, TypeInv, RowsOK
  <2>4. QED
    BY <1>0, <1>3, <2>1, <2>3, AgreesUnchanged DEF DieRepay, TypeInv, RowsOK, Keeps, Agrees
<1>4. QED
  BY <1>1, <1>2, <1>3 DEF Dies

LEMMA AbortStep ==
    ASSUME TypeInv, NEW p \in Processes, Abort(p)
    PROVE  Keeps /\ UNCHANGED <<emergency, accident>>
<1>1. ProcOK'
  BY Leaves DEF Abort, TypeInv
<1>2. QED
  BY <1>1, AgreesUnchanged DEF Abort, rows, TypeInv, RowsOK, Keeps, Agrees

LEMMA AccidentSteps ==
    ASSUME TypeInv, NEW p \in Processes,
           CommitOpen(p) \/ CommitCare(p) \/ CommitForgo(p)
    PROVE  Keeps /\ Settles
<1>0. TypeInv
  OBVIOUS
<1>1. ProcOK'
  BY <1>0, Leaves DEF CommitOpen, CommitCare, CommitForgo, TypeInv
<1>2. UNCHANGED <<sire, contract, emergency, life>>
  BY DEF CommitOpen, CommitCare, CommitForgo
<1>3. /\ accident' \in AccidentRows
      /\ accident'.paid = (IF accident'.status \in {"TREATED_SURVIVED", "TREATED_DIED"}
                           THEN accident.paid + 1 ELSE IF CommitOpen(p) THEN 0 ELSE accident.paid)
  <2>1. accident \in AccidentRows
    BY <1>0 DEF TypeInv, RowsOK
  <2>2. CASE CommitOpen(p)
    <3>1. proc[p].was \in Kennels
      BY <1>0, <2>2 DEF CommitOpen, TypeInv, ProcOK, Fits
    <3>2. QED
      BY <2>2, <3>1 DEF CommitOpen, AccidentRows
  <2>3. CASE CommitCare(p)
    <3>1. PICK st \in {"TREATED_SURVIVED", "TREATED_DIED"} :
            accident' = [accident EXCEPT !.status = st, !.paid = accident.paid + 1]
      BY <2>3 DEF CommitCare
    <3>2. accident.paid + 1 \in Nat
      BY <2>1 DEF AccidentRows
    <3>3. ASSUME NEW k \in Nat
          PROVE  LET r == [accident EXCEPT !.status = st, !.paid = k]
                 IN  r \in AccidentRows /\ r.status = st /\ r.paid = k
      BY <2>1 DEF AccidentRows
    <3>4. accident' \in AccidentRows /\ accident'.status = st /\ accident'.paid = accident.paid + 1
      BY <3>1, <3>2, <3>3
    <3>5. QED
      BY <3>4
  <2>4. CASE CommitForgo(p)
    <3>1. proc[p].at = "forgo" /\ accident' = [accident EXCEPT !.status = "DECLINED_DIED"]
      BY <2>4 DEF CommitForgo
    <3>2. ~CommitOpen(p)
      BY <3>1 DEF CommitOpen
    <3>3. QED
      BY <2>1, <3>1, <3>2 DEF AccidentRows
  <2>5. QED
    BY <2>2, <2>3, <2>4
<1>4. accident.status \in {"NONE", "PENDING"}
  BY DEF CommitOpen, CommitCare, CommitForgo, Undecided
<1>5. TreatmentIsPaidOnce => TreatmentIsPaidOnce'
  <2>1. accident.status = "PENDING" \/ (CommitOpen(p) /\ accident.status = "NONE")
    BY DEF CommitOpen, CommitCare, CommitForgo, Undecided
  <2>2. QED
    BY <1>2, <1>3, <2>1 DEF TreatmentIsPaidOnce
<1>6. \/ UNCHANGED <<dam, attempt, service, listing>>
      \/ DiesAfter(attempt, service)
  BY DEF CommitOpen, CommitCare, CommitForgo
<1>7. /\ attempt' \in [Attempts -> AttemptRows]
      /\ service' \in [Contracts -> ServiceRows]
      /\ dam' \in [alive: BOOLEAN, owner: Kennels, resting: BOOLEAN, barred: BOOLEAN]
      /\ listing' \in {"NONE", "ACTIVE", "SOLD", "EXPIRED"}
      /\ SameAttempts(attempt, attempt') /\ NoneFailed(attempt, attempt')
      /\ SameServices(service, service')
  BY <1>0, <1>6, DeathKeeps, AgreesUnchanged DEF TypeInv, RowsOK
<1>8. QED
  BY <1>0, <1>1, <1>2, <1>3, <1>4, <1>5, <1>7, AgreesUnchanged
  DEF TypeInv, RowsOK, Keeps, Agrees, Settles

LEMMA ExpireCareStep ==
    ASSUME TypeInv, ExpireCare
    PROVE  Keeps /\ Settles
<1>0. TypeInv
  OBVIOUS
<1>1. /\ UNCHANGED <<sire, contract, emergency, proc, life>>
      /\ accident' = [accident EXCEPT !.status = "EXPIRED_DIED"]
      /\ accident.status = "PENDING"
      /\ DiesAfter(attempt, service)
  BY DEF ExpireCare, Undecided
<1>2. accident' \in AccidentRows /\ (TreatmentIsPaidOnce => TreatmentIsPaidOnce')
  BY <1>0, <1>1 DEF TreatmentIsPaidOnce, TypeInv, RowsOK, AccidentRows
<1>3. QED
  BY <1>0, <1>1, <1>2, DeathKeeps, AgreesUnchanged
  DEF TypeInv, RowsOK, ProcOK, Keeps, Agrees, Settles

LEMMA BuyStep ==
    ASSUME TypeInv, NEW p \in Processes, CommitBuy(p)
    PROVE  Keeps /\ UNCHANGED <<emergency, accident>>
<1>0. TypeInv
  OBVIOUS
<1>1. ProcOK'
  BY <1>0, Leaves DEF CommitBuy, TypeInv
<1>2. dam' \in [alive: BOOLEAN, owner: Kennels, resting: BOOLEAN, barred: BOOLEAN]
  BY <1>0 DEF CommitBuy, TypeInv, RowsOK, Kennels
<1>3. service' \in [Contracts -> ServiceRows] /\ SameServices(service, service')
  BY <1>0, ExtinguishedKeeps DEF CommitBuy, TypeInv, RowsOK
<1>4. QED
  BY <1>0, <1>1, <1>2, <1>3, AgreesUnchanged DEF CommitBuy, TypeInv, RowsOK, Keeps, Agrees

LEMMA ClocksSettle == Clocks /\ TypeInv => Settles
<1> SUFFICES ASSUME Clocks, TypeInv
             PROVE  Settles
  OBVIOUS
<1>1. ASSUME NEW a \in Attempts, EmergencyWindowEnds(a)
      PROVE  Settles
  BY <1>1 DEF EmergencyWindowEnds, Settles, TreatmentIsPaidOnce, TypeInv, RowsOK, EmergencyRows
<1>2. CASE AccidentWindowEnds
  BY <1>2 DEF AccidentWindowEnds, Settles, TreatmentIsPaidOnce, TypeInv, RowsOK, AccidentRows
<1>3. CASE (\E a \in Attempts : AttemptClock(a)) \/ DamRecovers
  BY <1>3, SettlesUnchanged DEF AttemptClock, DamRecovers
<1>4. QED
  BY <1>1, <1>2, <1>3 DEF Clocks

-----------------------------------------------------------------------------
(* Steps of reproductive emergencies                                         *)

LEMMA PaidRow ==
    ASSUME NEW e \in EmergencyRows
    PROVE  LET r == [e EXCEPT !.status = "TREATMENT_AUTHORIZED", !.paid = e.paid + 1]
           IN  /\ r \in EmergencyRows
               /\ r.status = "TREATMENT_AUTHORIZED"
               /\ r.paid = e.paid + 1
<1>1. e.paid + 1 \in Nat
  BY DEF EmergencyRows
<1>2. ASSUME NEW k \in Nat
      PROVE  LET r == [e EXCEPT !.status = "TREATMENT_AUTHORIZED", !.paid = k]
             IN  /\ r \in EmergencyRows
                 /\ r.status = "TREATMENT_AUTHORIZED"
                 /\ r.paid = k
  BY DEF EmergencyRows
<1>3. QED
  BY <1>1, <1>2

LEMMA DecideStep ==
    ASSUME TypeInv, NEW p \in Processes, CommitTreat(p) \/ CommitRefuse(p)
    PROVE  Keeps /\ Settles
<1>0. TypeInv
  OBVIOUS
<1>1. ProcOK'
  BY <1>0, Leaves DEF CommitTreat, CommitRefuse, TypeInv
<1> DEFINE a == proc[p].a
<1>2. a \in Attempts /\ emergency[a].status = "PENDING"
  BY <1>0 DEF CommitTreat, CommitRefuse, EmergencyUnchanged, TypeInv, ProcOK, Fits
<1>3. UNCHANGED <<dam, sire, attempt, contract, service, accident, listing, life>>
  BY DEF CommitTreat, CommitRefuse
<1>4. PICK r \in EmergencyRows :
        /\ emergency' = [emergency EXCEPT ![a] = r]
        /\ \/ r.status = "TREATMENT_AUTHORIZED" /\ r.paid = emergency[a].paid + 1
           \/ r.status = "TREATMENT_DECLINED" /\ r.paid = emergency[a].paid
  <2>1. emergency[a] \in EmergencyRows
    BY <1>0, <1>2 DEF TypeInv, RowsOK
  <2>2. CASE CommitTreat(p)
    <3> DEFINE r == [emergency[a] EXCEPT !.status = "TREATMENT_AUTHORIZED",
                                         !.paid = emergency[a].paid + 1]
    <3>1. r \in EmergencyRows /\ r.status = "TREATMENT_AUTHORIZED" /\ r.paid = emergency[a].paid + 1
      BY <2>1, PaidRow
    <3>2. emergency' = [emergency EXCEPT ![a] = r]
      BY <1>0, <1>2, <2>2 DEF CommitTreat, TypeInv, RowsOK, EmergencyRows
    <3>3. QED
      BY <3>1, <3>2
  <2>3. CASE CommitRefuse(p)
    <3> DEFINE r == [emergency[a] EXCEPT !.status = "TREATMENT_DECLINED"]
    <3>1. r \in EmergencyRows /\ r.status = "TREATMENT_DECLINED" /\ r.paid = emergency[a].paid
      BY <2>1 DEF EmergencyRows
    <3>2. emergency' = [emergency EXCEPT ![a] = r]
      BY <1>0, <1>2, <2>3 DEF CommitRefuse, TypeInv, RowsOK
    <3>3. QED
      BY <3>1, <3>2
  <2>4. QED
    BY <2>2, <2>3
<1>5. emergency' \in [Attempts -> EmergencyRows] /\ (TreatmentIsPaidOnce => TreatmentIsPaidOnce')
  BY <1>0, <1>2, <1>3, <1>4 DEF TreatmentIsPaidOnce, TypeInv, RowsOK
<1>6. QED
  BY <1>0, <1>1, <1>3, <1>5, AgreesUnchanged DEF TypeInv, RowsOK, Keeps, Agrees, Settles

LEMMA AfterEmergencyKeeps ==
    ASSUME RowsOK, NEW a \in Attempts, NEW n \in Survivors
    PROVE  /\ AfterEmergency(a, n) \in [Attempts -> AttemptRows]
           /\ SameAttempts(attempt, AfterEmergency(a, n))
           /\ NoneFailed(attempt, AfterEmergency(a, n))
<1>1. n \in Nat
  BY LitterAssumption DEF Survivors
<1>2. attempt \in [Attempts -> AttemptRows]
  BY DEF RowsOK
<1>3. PICK st \in {"WHELPED", "FAILED"}, k \in Nat :
        AfterEmergency(a, n) = [attempt EXCEPT ![a].status = st, ![a].pups = n, ![a].litters = @ + k]
  BY DEF AfterEmergency
<1>4. PICK x \in AttemptRows : x = attempt[a]
  BY <1>2
<1>5. PICK m \in Nat : m = x.litters + k
  BY <1>3, <1>4 DEF AttemptRows
<1>6. PICK r : r = [x EXCEPT !.status = st, !.pups = n, !.litters = m]
  OBVIOUS
<1>7. /\ r \in AttemptRows /\ r.status = st
      /\ r.contract = x.contract /\ r.service = x.service
  BY <1>1, <1>3, <1>4, <1>5, <1>6 DEF AttemptRows, AttemptStatuses
<1>8. AfterEmergency(a, n) = [attempt EXCEPT ![a] = r]
  BY <1>2, <1>3, <1>4, <1>5, <1>6 DEF AttemptRows
<1>9. QED
  BY <1>2, <1>4, <1>7, <1>8 DEF SameAttempts, NoneFailed

LEMMA ResolveStep ==
    ASSUME TypeInv, NEW p \in Processes, CommitResolve(p)
    PROVE  Keeps /\ Settles
<1>0. TypeInv
  OBVIOUS
<1>1. ProcOK'
  BY <1>0, Leaves DEF CommitResolve, TypeInv
<1> DEFINE a == proc[p].a
<1>2. /\ a \in Attempts /\ emergency[a].status = proc[p].was
      /\ proc[p].was \in {"PENDING", "TREATMENT_AUTHORIZED", "TREATMENT_DECLINED"}
  BY <1>0 DEF CommitResolve, EmergencyUnchanged, TypeInv, ProcOK, Fits
<1>3. UNCHANGED <<sire, contract, accident, life>>
  BY DEF CommitResolve
<1>4. PICK n \in Survivors : DamAfterEmergency(a, n)
  BY DEF CommitResolve
<1>5. /\ AfterEmergency(a, n) \in [Attempts -> AttemptRows]
      /\ SameAttempts(attempt, AfterEmergency(a, n))
      /\ NoneFailed(attempt, AfterEmergency(a, n))
  BY <1>0, <1>2, AfterEmergencyKeeps DEF TypeInv
<1>6. /\ attempt' \in [Attempts -> AttemptRows]
      /\ service' \in [Contracts -> ServiceRows]
      /\ dam' \in [alive: BOOLEAN, owner: Kennels, resting: BOOLEAN, barred: BOOLEAN]
      /\ listing' \in {"NONE", "ACTIVE", "SOLD", "EXPIRED"}
      /\ SameAttempts(attempt, attempt') /\ NoneFailed(attempt, attempt')
      /\ SameServices(service, service')
  <2>0. RowsOK /\ service \in [Contracts -> ServiceRows]
    BY <1>0 DEF TypeInv, RowsOK
  <2>1. CASE DiesAfter(AfterEmergency(a, n), service)
    BY <1>5, <2>0, <2>1, DeathKeeps, SameTransitive
  <2>2. CASE ~DiesAfter(AfterEmergency(a, n), service)
    <3>1. /\ attempt' = AfterEmergency(a, n)
          /\ service' \in {service, Extinguished(service)}
          /\ dam' \in {[dam EXCEPT !.resting = TRUE], [dam EXCEPT !.barred = TRUE]}
          /\ listing' = listing
      BY <1>4, <2>2 DEF DamAfterEmergency
    <3>2. service' \in [Contracts -> ServiceRows] /\ SameServices(service, service')
      BY <2>0, <3>1, ExtinguishedKeeps, AgreesUnchanged
    <3>3. dam' \in [alive: BOOLEAN, owner: Kennels, resting: BOOLEAN, barred: BOOLEAN]
      BY <2>0, <3>1 DEF RowsOK
    <3>4. QED
      BY <1>5, <2>0, <3>1, <3>2, <3>3 DEF RowsOK
  <2>3. QED
    BY <2>1, <2>2
<1>7. PICK r \in EmergencyRows :
        /\ emergency' = [emergency EXCEPT ![a] = r]
        /\ r.paid = emergency[a].paid
        /\ r.status = IF proc[p].was = "TREATMENT_AUTHORIZED" THEN "RESOLVED_TREATED"
                                                              ELSE "RESOLVED_UNTREATED"
  <2>1. PICK st \in {"RESOLVED_TREATED", "RESOLVED_UNTREATED"} :
          /\ emergency' = [emergency EXCEPT ![a].status = st]
          /\ st = IF proc[p].was = "TREATMENT_AUTHORIZED" THEN "RESOLVED_TREATED"
                                                          ELSE "RESOLVED_UNTREATED"
    BY DEF CommitResolve
  <2>2. emergency[a] \in EmergencyRows
    BY <1>0, <1>2 DEF TypeInv, RowsOK
  <2>3. /\ [emergency[a] EXCEPT !.status = st] \in EmergencyRows
        /\ [emergency[a] EXCEPT !.status = st].paid = emergency[a].paid
        /\ [emergency[a] EXCEPT !.status = st].status = st
    BY <2>2 DEF EmergencyRows
  <2>4. emergency' = [emergency EXCEPT ![a] = [emergency[a] EXCEPT !.status = st]]
    BY <1>0, <1>2, <2>1 DEF TypeInv, RowsOK
  <2>5. QED
    BY <2>1, <2>3, <2>4
<1>8. emergency' \in [Attempts -> EmergencyRows] /\ (TreatmentIsPaidOnce => TreatmentIsPaidOnce')
  BY <1>0, <1>2, <1>3, <1>7 DEF TreatmentIsPaidOnce, TypeInv, RowsOK
<1>9. QED
  BY <1>0, <1>1, <1>3, <1>6, <1>8, AgreesUnchanged DEF TypeInv, RowsOK, Keeps, Agrees, Settles

-----------------------------------------------------------------------------
(* Steps of breedings                                                        *)

LEMMA EventCount ==
    Cardinality({b \in Attempts : emergency[b].status # "NONE"}) \in Nat
<1>1. IsFiniteSet({b \in Attempts : emergency[b].status # "NONE"})
  BY AttemptsAssumption, FS_Subset
<1>2. QED
  BY <1>1, FS_CardinalityType

LEMMA ComplicateKeeps ==
    ASSUME RowsOK, NEW a \in Attempts, emergency[a].status = "NONE", Complicate(a)
    PROVE  /\ attempt' \in [Attempts -> AttemptRows]
           /\ SameAttempts(attempt, attempt') /\ NoneFailed(attempt, attempt')
           /\ emergency' \in [Attempts -> EmergencyRows]
           /\ TreatmentIsPaidOnce /\ UNCHANGED accident => TreatmentIsPaidOnce'
<1>0. attempt \in [Attempts -> AttemptRows] /\ emergency \in [Attempts -> EmergencyRows]
  BY DEF RowsOK
<1>1. PICK n \in Nat :
        emergency' = [emergency EXCEPT ![a].status = "PENDING", ![a].order = n]
  BY EventCount DEF Complicate
<1>2. PICK x \in AttemptRows : x = attempt[a]
  BY <1>0
<1>3. PICK r : r = [x EXCEPT !.status = "REPRODUCTIVE_EMERGENCY"]
  OBVIOUS
<1>4. /\ r \in AttemptRows /\ r.status = "REPRODUCTIVE_EMERGENCY"
      /\ r.contract = x.contract /\ r.service = x.service
  BY <1>2, <1>3 DEF AttemptRows, AttemptStatuses
<1>5. attempt' = [attempt EXCEPT ![a] = r]
  BY <1>0, <1>2, <1>3 DEF Complicate, AttemptRows
<1>6. PICK e \in EmergencyRows : e = emergency[a]
  BY <1>0
<1>7. PICK f : f = [e EXCEPT !.status = "PENDING", !.order = n]
  OBVIOUS
<1>8. f \in EmergencyRows /\ f.status = "PENDING" /\ f.paid = e.paid
  BY <1>1, <1>6, <1>7 DEF EmergencyRows
<1>9. emergency' = [emergency EXCEPT ![a] = f]
  BY <1>0, <1>1, <1>6, <1>7 DEF EmergencyRows
<1>10. QED
  BY <1>0, <1>2, <1>4, <1>5, <1>6, <1>8, <1>9
  DEF SameAttempts, NoneFailed, TreatmentIsPaidOnce

LEMMA WhelpKeeps ==
    ASSUME RowsOK, NEW a \in Attempts, Whelp(a)
    PROVE  /\ attempt' \in [Attempts -> AttemptRows]
           /\ SameAttempts(attempt, attempt') /\ NoneFailed(attempt, attempt')
           /\ contract' \in [Contracts -> ContractRows]
           /\ SameContracts(contract, contract')
           /\ service' \in [Contracts -> ServiceRows]
           /\ SameServices(service, service')
           /\ dam' \in [alive: BOOLEAN, owner: Kennels, resting: BOOLEAN, barred: BOOLEAN]
<1>0. /\ attempt \in [Attempts -> AttemptRows] /\ contract \in [Contracts -> ContractRows]
      /\ service \in [Contracts -> ServiceRows]
  BY DEF RowsOK
<1>1. PICK n \in Nat : n = PupCount(a)
  BY LitterAssumption DEF PupCount
<1>2. attempt' \in [Attempts -> AttemptRows] /\ SameAttempts(attempt, attempt')
      /\ NoneFailed(attempt, attempt')
  <2>1. PICK x \in AttemptRows : x = attempt[a]
    BY <1>0
  <2>2. PICK m \in Nat : m = x.litters + 1
    BY <2>1 DEF AttemptRows
  <2>3. PICK r : r = [x EXCEPT !.status = "WHELPED", !.pups = n, !.litters = m]
    OBVIOUS
  <2>4. /\ r \in AttemptRows /\ r.status = "WHELPED"
        /\ r.contract = x.contract /\ r.service = x.service
    BY <1>1, <2>1, <2>2, <2>3 DEF AttemptRows, AttemptStatuses
  <2>5. attempt' = [attempt EXCEPT ![a] = r]
    BY <1>0, <1>1, <2>1, <2>2, <2>3 DEF Whelp, AttemptRows
  <2>6. QED
    BY <1>0, <2>1, <2>4, <2>5 DEF SameAttempts, NoneFailed
<1>3. contract' \in [Contracts -> ContractRows] /\ SameContracts(contract, contract')
  <2>1. ASSUME NEW x \in ContractRows, NEW b \in BOOLEAN, NEW r,
               r = [x EXCEPT !.live = n, !.selection = b]
        PROVE  /\ r \in ContractRows /\ r.status = x.status
               /\ r.noLitter = x.noLitter /\ r.small = x.small
    BY <1>1, <2>1 DEF ContractRows
  <2>2. ASSUME NEW c \in Contracts
        PROVE  /\ contract'[c] \in ContractRows /\ contract'[c].status = contract[c].status
               /\ contract'[c].noLitter = contract[c].noLitter
               /\ contract'[c].small = contract[c].small
    <3>0. PICK x \in ContractRows : x = contract[c]
      BY <1>0
    <3>1. CASE c \in Unqualified(a)
      <4>1. PICK b : b = (x.selection \/ (x.back /\ n >= MinLitter))
        OBVIOUS
      <4>2. b \in BOOLEAN
        BY <3>0, <4>1 DEF ContractRows
      <4>3. contract'[c] = [x EXCEPT !.live = n, !.selection = b]
        BY <1>1, <3>0, <3>1, <4>1 DEF Whelp
      <4>4. QED
        BY <2>1, <3>0, <4>2, <4>3
    <3>2. CASE c \notin Unqualified(a)
      BY <3>0, <3>2 DEF Whelp
    <3>3. QED
      BY <3>1, <3>2
  <2>3. contract' = [c \in Contracts |-> contract'[c]]
    BY DEF Whelp
  <2>4. contract' \in [Contracts -> ContractRows]
    BY <2>2, <2>3
  <2>5. QED
    BY <2>2, <2>4 DEF SameContracts
<1>4. service' \in [Contracts -> ServiceRows] /\ SameServices(service, service')
  <2>1. \A c \in Contracts : /\ Opened(service, c, "SMALL_LITTER") \in [Contracts -> ServiceRows]
                              /\ SameServices(service, Opened(service, c, "SMALL_LITTER"))
    BY <1>0, OpenedKeeps
  <2>2. service' = [c \in Contracts |-> service'[c]]
    BY DEF Whelp
  <2>3. \A c \in Contracts : service'[c] \in {Opened(service, c, "SMALL_LITTER")[c], service[c]}
    BY DEF Whelp
  <2>4. service' \in [Contracts -> ServiceRows]
    BY <1>0, <2>1, <2>2, <2>3
  <2>5. QED
    BY <2>1, <2>3, <2>4 DEF SameServices
<1>5. dam' \in [alive: BOOLEAN, owner: Kennels, resting: BOOLEAN, barred: BOOLEAN]
  <2>1. dam' \in {[dam EXCEPT !.resting = dam.resting], [dam EXCEPT !.resting = TRUE]}
    BY DEF Whelp
  <2>2. QED
    BY <2>1 DEF RowsOK
<1>6. QED
  BY <1>2, <1>3, <1>4, <1>5

LEMMA WhelpStep ==
    ASSUME TypeInv, NEW p \in Processes, CommitWhelp(p)
    PROVE  Keeps /\ Settles
<1>0. TypeInv /\ RowsOK
  BY DEF TypeInv
<1>1. ProcOK'
  BY <1>0, Leaves DEF CommitWhelp, TypeInv
<1> DEFINE a == proc[p].a
<1>2. a \in Attempts
  BY <1>0 DEF CommitWhelp, TypeInv, ProcOK, Fits
<1>3. UNCHANGED <<sire, accident, listing, life>>
  BY DEF CommitWhelp
<1>4. CASE StillPregnant(a) /\ Complicate(a)
  <2>1. emergency[a].status = "NONE"
    BY <1>4 DEF StillPregnant
  <2>2. UNCHANGED <<dam, contract, service>>
    BY <1>4 DEF Complicate
  <2>3. QED
    BY <1>0, <1>1, <1>2, <1>3, <1>4, <2>1, <2>2, ComplicateKeeps, AgreesUnchanged
    DEF TypeInv, RowsOK, Keeps, Agrees, Settles
<1>5. CASE Whelp(a)
  <2>1. UNCHANGED emergency
    BY <1>5 DEF Whelp
  <2>2. QED
    BY <1>0, <1>1, <1>2, <1>3, <1>5, <2>1, WhelpKeeps, SettlesUnchanged
    DEF TypeInv, RowsOK, Keeps, Agrees
<1>6. QED
  BY <1>4, <1>5 DEF CommitWhelp

LEMMA CheckStep ==
    ASSUME TypeInv, NEW p \in Processes, CommitCheck(p)
    PROVE  /\ TypeInv' /\ Agrees
           /\ UNCHANGED <<contract, emergency, accident>>
           /\ \A a \in Attempts : attempt'[a].status = "CHECKED_NOT_PREGNANT" =>
                 \/ attempt[a].status = "CHECKED_NOT_PREGNANT"
                 \/ \A c \in ContractOf(a) : contract[c].noLitter => service'[c].status # "NONE"
<1>0. /\ TypeInv /\ attempt \in [Attempts -> AttemptRows]
      /\ service \in [Contracts -> ServiceRows]
  BY DEF TypeInv, RowsOK
<1>1. ProcOK'
  BY <1>0, Leaves DEF CommitCheck, TypeInv
<1>2. PICK a \in Attempts : a = proc[p].a
  BY <1>0 DEF CommitCheck, TypeInv, ProcOK, Fits
<1>3. UNCHANGED <<dam, sire, contract, emergency, accident, listing, life>>
  BY DEF CommitCheck
<1>4. PICK st : /\ st = IF Conceived(a) THEN "PREGNANT" ELSE "CHECKED_NOT_PREGNANT"
               /\ attempt' = [attempt EXCEPT ![a].status = st]
  BY <1>2 DEF CommitCheck
<1>5. PICK r \in AttemptRows : /\ attempt' = [attempt EXCEPT ![a] = r]
                               /\ r.contract = attempt[a].contract
                               /\ r.service = attempt[a].service
                               /\ r.status = st
  <2>1. PICK x \in AttemptRows : x = attempt[a]
    BY <1>0
  <2>2. PICK r : r = [x EXCEPT !.status = st]
    OBVIOUS
  <2>3. /\ r \in AttemptRows /\ r.status = st
        /\ r.contract = x.contract /\ r.service = x.service
    BY <1>4, <2>1, <2>2 DEF AttemptRows, AttemptStatuses
  <2>4. QED
    BY <1>0, <1>4, <2>1, <2>2, <2>3
<1>6. /\ attempt' \in [Attempts -> AttemptRows] /\ SameAttempts(attempt, attempt')
      /\ \A b \in Attempts : b # a => attempt'[b] = attempt[b]
  BY <1>0, <1>4, <1>5 DEF SameAttempts
<1>7. /\ service' = [c \in Contracts |-> service'[c]]
      /\ \A c \in Contracts :
            /\ service'[c] \in {Opened(service, c, "NO_LITTER")[c], service[c]}
            /\ ~Conceived(a) /\ c \in ContractOf(a) /\ contract[c].noLitter
                 => service'[c] = Opened(service, c, "NO_LITTER")[c]
  BY <1>2 DEF CommitCheck
<1>8. \A c \in Contracts : /\ Opened(service, c, "NO_LITTER") \in [Contracts -> ServiceRows]
                            /\ SameServices(service, Opened(service, c, "NO_LITTER"))
                            /\ Opened(service, c, "NO_LITTER")[c].status # "NONE"
  BY <1>0, OpenedKeeps
<1>9. service' \in [Contracts -> ServiceRows] /\ SameServices(service, service')
  <2>1. service' \in [Contracts -> ServiceRows]
    BY <1>0, <1>7, <1>8
  <2>2. QED
    BY <1>7, <1>8, <2>1 DEF SameServices
<1>10. TypeInv' /\ Agrees
  BY <1>0, <1>1, <1>3, <1>6, <1>9, AgreesUnchanged DEF TypeInv, RowsOK, Agrees
<1>11. ASSUME NEW b \in Attempts, attempt'[b].status = "CHECKED_NOT_PREGNANT",
              attempt[b].status # "CHECKED_NOT_PREGNANT"
       PROVE  \A c \in ContractOf(b) : contract[c].noLitter => service'[c].status # "NONE"
  <2>1. b = a
    BY <1>6, <1>11
  <2>2. st = "CHECKED_NOT_PREGNANT"
    BY <1>0, <1>5, <1>11, <2>1
  <2>3. ~Conceived(a)
    BY <1>4, <2>2
  <2>4. QED
    BY <1>7, <1>8, <2>1, <2>3 DEF ContractOf
<1>12. QED
  BY <1>3, <1>10, <1>11

(* A breeding makes one attempt: for nobody, for a contract it accepts, or   *)
(* for a Return Service it uses.                                             *)
MakesAttempt(a, c, s) ==
    /\ attempt[a].status = "NONE"
    /\ \E seed \in Seeds : attempt' = [attempt EXCEPT ![a] = NewAttempt(seed, c, s)]
    /\ IF c = None THEN contract' = contract
       ELSE /\ c \in Contracts
            /\ contract[c].status \in {"NONE", "PENDING"}
            /\ \E r \in ContractRows : r.status = "ACCEPTED" /\ contract' = [contract EXCEPT ![c] = r]
    /\ IF s = None THEN service' = service
       ELSE /\ s \in Contracts
            /\ service[s].status = "AVAILABLE"
            /\ \E r \in ServiceRows : r.status = "USED" /\ service' = [service EXCEPT ![s] = r]

LEMMA NewRow ==
    ASSUME NEW seed \in Seeds, NEW c \in Contracts \cup {None}, NEW s \in Contracts \cup {None}
    PROVE  /\ NewAttempt(seed, c, s) \in AttemptRows
           /\ NewAttempt(seed, c, s).status = "INITIATED"
           /\ NewAttempt(seed, c, s).contract = c
           /\ NewAttempt(seed, c, s).service = s
  BY DEF NewAttempt, NoAttempt, AttemptRows, AttemptStatuses

LEMMA BreedStep ==
    ASSUME TypeInv, NEW p \in Processes, CommitBreed(p)
    PROVE  /\ TypeInv' /\ UNCHANGED <<emergency, accident>>
           /\ \E a \in Attempts, c, s \in Contracts \cup {None} : MakesAttempt(a, c, s)
<1>0. /\ TypeInv /\ attempt \in [Attempts -> AttemptRows]
      /\ contract \in [Contracts -> ContractRows] /\ service \in [Contracts -> ServiceRows]
      /\ life.seeds \subseteq Seeds
  BY LivesAssumption DEF TypeInv, RowsOK
<1>1. ProcOK'
  BY <1>0, Leaves DEF CommitBreed, TypeInv
<1>2. /\ proc[p].was \in {"own", "automatic", "manual", "return"}
      /\ proc[p].was \in {"manual", "return"} => proc[p].c \in Contracts
  BY <1>0 DEF CommitBreed, TypeInv, ProcOK, Fits
<1>3. PICK a \in Attempts : a = NextFree /\ attempt[a].status = "NONE"
  BY DEF CommitBreed, MayBreed, NextFree, Free
<1>4. \E c, s \in Contracts \cup {None} : MakesAttempt(a, c, s)
  <2>1. CASE proc[p].was = "own"
    <3>1. BreedOwn
      BY <2>1 DEF CommitBreed
    <3>2. MakesAttempt(a, None, None)
      BY <1>0, <1>3, <3>1 DEF BreedOwn, MakesAttempt
    <3>3. QED
      BY <3>2
  <2>2. CASE proc[p].was = "automatic"
    <3>1. BreedAutomatic
      BY <2>2 DEF CommitBreed
    <3>2. PICK seed \in life.seeds, offer \in Offers, c \in Contracts :
            /\ contract[c].status = "NONE"
            /\ attempt' = [attempt EXCEPT ![a] = NewAttempt(seed, c, None)]
            /\ contract' = [contract EXCEPT ![c] =
                              [NoContract EXCEPT !.status = "ACCEPTED", !.back = offer.back,
                                             !.noLitter = offer.noLitter, !.small = offer.small]]
            /\ service' = service
      BY <1>3, <3>1 DEF BreedAutomatic
    <3>3. PICK r \in ContractRows : r.status = "ACCEPTED" /\ contract' = [contract EXCEPT ![c] = r]
      BY <3>2, OfferRow DEF NoContract
    <3>4. c # None
      BY ContractsAssumption
    <3>5. MakesAttempt(a, c, None)
      BY <1>0, <1>3, <3>2, <3>3, <3>4 DEF MakesAttempt
    <3>6. QED
      BY <3>5
  <2>3. CASE proc[p].was = "manual"
    <3>1. PICK c \in Contracts : c = proc[p].c
      BY <1>2, <2>3
    <3>2. contract[c].status = "PENDING"
      BY <2>3, <3>1 DEF CommitBreed, MayBreed, RequestOpen
    <3>3. BreedManual(c)
      BY <2>3, <3>1 DEF CommitBreed
    <3>4. PICK r \in ContractRows : r.status = "ACCEPTED" /\ contract' = [contract EXCEPT ![c] = r]
      <4>1. PICK x \in ContractRows : x = contract[c]
        BY <1>0
      <4>2. PICK r : r = [x EXCEPT !.status = "ACCEPTED"]
        OBVIOUS
      <4>3. r \in ContractRows /\ r.status = "ACCEPTED"
        BY <4>1, <4>2 DEF ContractRows
      <4>4. contract' = [contract EXCEPT ![c] = r]
        BY <1>0, <3>3, <4>1, <4>2 DEF BreedManual
      <4>5. QED
        BY <4>3, <4>4
    <3>5. c # None
      BY ContractsAssumption
    <3>6. MakesAttempt(a, c, None)
      BY <1>0, <1>3, <3>2, <3>3, <3>4, <3>5 DEF MakesAttempt, BreedManual
    <3>7. QED
      BY <3>6
  <2>4. CASE proc[p].was = "return"
    <3>1. PICK s \in Contracts : s = proc[p].c
      BY <1>2, <2>4
    <3>2. service[s].status = "AVAILABLE"
      BY <2>4, <3>1 DEF CommitBreed, MayBreed, ServiceUsable
    <3>3. BreedReturn(s)
      BY <2>4, <3>1 DEF CommitBreed
    <3>4. PICK r \in ServiceRows : r.status = "USED" /\ service' = [service EXCEPT ![s] = r]
      BY <1>0, <3>3, ServiceRow DEF BreedReturn
    <3>5. s # None
      BY ContractsAssumption
    <3>6. MakesAttempt(a, None, s)
      BY <1>0, <1>3, <3>2, <3>3, <3>4, <3>5 DEF MakesAttempt, BreedReturn
    <3>7. QED
      BY <3>6
  <2>5. QED
    BY <1>2, <2>1, <2>2, <2>3, <2>4
<1>5. PICK c, s \in Contracts \cup {None} : MakesAttempt(a, c, s)
  BY <1>4
<1>6. /\ attempt' \in [Attempts -> AttemptRows]
      /\ contract' \in [Contracts -> ContractRows] /\ service' \in [Contracts -> ServiceRows]
  <2>1. attempt' \in [Attempts -> AttemptRows]
    <3>1. PICK seed \in Seeds : attempt' = [attempt EXCEPT ![a] = NewAttempt(seed, c, s)]
      BY <1>5 DEF MakesAttempt
    <3>2. NewAttempt(seed, c, s) \in AttemptRows
      BY <1>5, <3>1, NewRow
    <3>3. QED
      BY <1>0, <3>1, <3>2
  <2>2. contract' \in [Contracts -> ContractRows]
    BY <1>0, <1>5 DEF MakesAttempt
  <2>3. service' \in [Contracts -> ServiceRows]
    BY <1>0, <1>5 DEF MakesAttempt
  <2>4. QED
    BY <2>1, <2>2, <2>3
<1>7. sire' \in {"ready", "recovering", "gone"}
  BY <1>0, <1>2 DEF CommitBreed, BreedOwn, BreedAutomatic, BreedManual, BreedReturn, TypeInv, RowsOK
<1>8. UNCHANGED <<dam, emergency, accident, listing, life>>
  BY DEF CommitBreed
<1>9. QED
  BY <1>0, <1>1, <1>5, <1>6, <1>7, <1>8 DEF TypeInv, RowsOK

-----------------------------------------------------------------------------
(* What the agreements say of each other                                     *)

Agreed ==
    /\ \A a \in Attempts : attempt[a].status = "NONE" =>
          attempt[a].contract = None /\ attempt[a].service = None
    /\ \A a \in Attempts, c \in Contracts :
          /\ attempt[a].contract = c => contract[c].status = "ACCEPTED"
          /\ attempt[a].service = c => service[c].status = "USED"
    /\ \A a, b \in Attempts, c \in Contracts :
          /\ attempt[a].contract = c /\ attempt[b].contract = c => a = b
          /\ attempt[a].service = c /\ attempt[b].service = c => a = b
    /\ \A c \in Contracts :
          /\ contract[c].status = "ACCEPTED" => \E a \in Attempts : attempt[a].contract = c
          /\ service[c].status = "USED" => \E a \in Attempts : attempt[a].service = c

LEMMA AgreesAgreed == Agreed /\ Agrees => Agreed'
  BY DEF Agreed, Agrees, SameAttempts, SameContracts, SameServices

LEMMA BreedsAgreed ==
    ASSUME TypeInv, Agreed, NEW a \in Attempts,
           NEW c \in Contracts \cup {None}, NEW s \in Contracts \cup {None}, MakesAttempt(a, c, s)
    PROVE  /\ Agreed'
           /\ NoneFailed(attempt, attempt')
           /\ \A b \in Attempts : b # a => attempt'[b] = attempt[b]
           /\ \A d \in Contracts :
                 /\ d # c => contract'[d] = contract[d]
                 /\ d # s => service'[d] = service[d]
           /\ attempt'[a].status = "INITIATED"
<1>0. /\ attempt \in [Attempts -> AttemptRows]
      /\ contract \in [Contracts -> ContractRows] /\ service \in [Contracts -> ServiceRows]
  BY DEF TypeInv, RowsOK
<1>1. /\ attempt'[a].status = "INITIATED"
      /\ attempt'[a].contract = c /\ attempt'[a].service = s
      /\ \A b \in Attempts : b # a => attempt'[b] = attempt[b]
  <2>1. PICK seed \in Seeds : attempt' = [attempt EXCEPT ![a] = NewAttempt(seed, c, s)]
    BY DEF MakesAttempt
  <2>2. PICK r : r = NewAttempt(seed, c, s)
    OBVIOUS
  <2>3. r.status = "INITIATED" /\ r.contract = c /\ r.service = s
    BY <2>1, <2>2, NewRow
  <2>4. QED
    BY <1>0, <2>1, <2>2, <2>3
<1>2. /\ \A d \in Contracts : d # c => contract'[d] = contract[d]
      /\ c \in Contracts => contract[c].status # "ACCEPTED" /\ contract'[c].status = "ACCEPTED"
  BY <1>0, ContractsAssumption DEF MakesAttempt
<1>3. /\ \A d \in Contracts : d # s => service'[d] = service[d]
      /\ s \in Contracts => service[s].status # "USED" /\ service'[s].status = "USED"
  BY <1>0, ContractsAssumption DEF MakesAttempt
<1>4. attempt[a].contract = None /\ attempt[a].service = None
  BY DEF Agreed, MakesAttempt
<1>5. None \notin Contracts
  BY ContractsAssumption
<1>6. \A b \in Attempts, d \in Contracts :
        /\ attempt'[b].contract = d <=> attempt[b].contract = d \/ (b = a /\ d = c)
        /\ attempt'[b].service = d <=> attempt[b].service = d \/ (b = a /\ d = s)
  BY <1>1, <1>4, <1>5
<1>7. \A d \in Contracts :
        /\ contract'[d].status = "ACCEPTED" <=> contract[d].status = "ACCEPTED" \/ d = c
        /\ service'[d].status = "USED" <=> service[d].status = "USED" \/ d = s
  BY <1>2, <1>3
<1>8. c \in Contracts => \A b \in Attempts : attempt[b].contract # c
  BY <1>2 DEF Agreed
<1>9. s \in Contracts => \A b \in Attempts : attempt[b].service # s
  BY <1>3 DEF Agreed
<1>10. \A b \in Attempts : attempt'[b].status = "NONE" =>
          attempt'[b].contract = None /\ attempt'[b].service = None
  BY <1>1 DEF Agreed
<1>11. Agreed'
  BY <1>6, <1>7, <1>8, <1>9, <1>10 DEF Agreed
<1>12. NoneFailed(attempt, attempt')
  BY <1>1 DEF NoneFailed
<1>13. QED
  BY <1>1, <1>2, <1>3, <1>11, <1>12

-----------------------------------------------------------------------------
(* The invariant                                                             *)

IInv == TypeInv /\ Agreed /\ TreatmentIsPaidOnce /\ NoLitterIsRepaid

(* An action property of every step.                                         *)
Decided ==
    /\ \A c \in Contracts :
          /\ contract[c].status \in Answered =>
               /\ contract'[c].status = contract[c].status
               /\ contract'[c].noLitter = contract[c].noLitter
               /\ contract'[c].small = contract[c].small
          /\ service[c].status \in Ended => service'[c] = service[c]
    /\ accident.status \notin {"NONE", "PENDING"} => accident' = accident

LEMMA TriedRow ==
    ASSUME NEW c \in Contracts \cup {None}
    PROVE  /\ Tried(c) \in AttemptRows
           /\ Tried(c).status = "CHECKED_NOT_PREGNANT"
           /\ Tried(c).contract = c /\ Tried(c).service = None
  BY DEF Tried, NoAttempt, AttemptRows, AttemptStatuses, Seeds

LEMMA InitIInv == Init => IInv
<1> SUFFICES ASSUME Init
             PROVE  IInv
  OBVIOUS
<1>1. /\ life \in Lives /\ life.past \in [Attempts -> Contracts \cup {None, "free"}]
      /\ life.listing \in {"NONE", "ACTIVE"}
      /\ \A a, b \in Attempts :
            life.past[a] = life.past[b] /\ life.past[a] \in Contracts => a = b
  BY LivesAssumption DEF Init
<1>2. ASSUME NEW a \in Attempts
      PROVE  /\ attempt[a] \in AttemptRows
             /\ attempt[a].service = None
             /\ attempt[a].status \in {"NONE", "CHECKED_NOT_PREGNANT"}
             /\ attempt[a].contract = IF life.past[a] = "free" THEN None ELSE life.past[a]
             /\ attempt[a].status = "NONE" => attempt[a].contract = None
  <2>1. CASE life.past[a] = "free"
    BY <2>1 DEF Init, NoAttempt, AttemptRows, AttemptStatuses, Seeds
  <2>2. CASE life.past[a] # "free"
    <3>1. life.past[a] \in Contracts \cup {None} /\ attempt[a] = Tried(life.past[a])
      BY <1>1, <2>2 DEF Init
    <3>2. QED
      BY <2>2, <3>1, TriedRow
  <2>3. QED
    BY <2>1, <2>2
<1> DEFINE owing == {c \in Contracts : \E a \in Attempts : life.past[a] = c}
<1>3. ASSUME NEW c \in Contracts
      PROVE  /\ contract[c] \in ContractRows /\ service[c] \in ServiceRows
             /\ contract[c].status = IF c \in owing THEN "ACCEPTED" ELSE "NONE"
             /\ service[c].status = IF c \in owing THEN "AVAILABLE" ELSE "NONE"
  BY DEF Init, Bound, NoContract, Owing, NoService, ContractRows, ServiceRows
<1>4. attempt \in [Attempts -> AttemptRows]
  <2>1. attempt = [a \in Attempts |-> attempt[a]]
    BY DEF Init
  <2>2. QED
    BY <1>2, <2>1
<1>5. contract \in [Contracts -> ContractRows] /\ service \in [Contracts -> ServiceRows]
  <2>1. /\ contract = [c \in Contracts |-> contract[c]]
        /\ service = [c \in Contracts |-> service[c]]
    BY DEF Init
  <2>2. QED
    BY <1>3, <2>1
<1>6. emergency \in [Attempts -> EmergencyRows]
  BY DEF Init, NoEmergency, EmergencyRows
<1>7. ProcOK
  BY DEF Init, ProcOK, Procs, Idle, Fits, Handlers, Readings
<1>8. /\ dam \in [alive: BOOLEAN, owner: Kennels, resting: BOOLEAN, barred: BOOLEAN]
      /\ sire \in {"ready", "recovering", "gone"}
      /\ accident \in AccidentRows
      /\ listing \in {"NONE", "ACTIVE", "SOLD", "EXPIRED"}
  BY <1>1 DEF Init, Kennels, AccidentRows
<1>9. TypeInv
  BY <1>1, <1>4, <1>5, <1>6, <1>7, <1>8 DEF TypeInv, RowsOK
<1>10. TreatmentIsPaidOnce
  BY DEF Init, NoEmergency, TreatmentIsPaidOnce
<1>11. None \notin Contracts /\ "free" \notin Contracts
  BY ContractsAssumption
<1>12. \A a \in Attempts, c \in Contracts : attempt[a].contract = c <=> life.past[a] = c
  BY <1>2, <1>11
<1>13. Agreed
  BY <1>1, <1>2, <1>3, <1>11, <1>12 DEF Agreed
<1>14. NoLitterIsRepaid
  BY <1>3, <1>12 DEF NoLitterIsRepaid
<1>15. QED
  BY <1>9, <1>10, <1>13, <1>14 DEF IInv

LEMMA AgreesKeepsPromises ==
    ASSUME Agreed, NoLitterIsRepaid, Agrees, NoneFailed(attempt, attempt')
    PROVE  NoLitterIsRepaid'
<1> SUFFICES ASSUME NEW a \in Attempts, NEW c \in Contracts,
                    attempt'[a].status = "CHECKED_NOT_PREGNANT", attempt'[a].contract = c,
                    contract'[c].noLitter
             PROVE  service'[c].status # "NONE"
  BY DEF NoLitterIsRepaid
<1>1. attempt[a].status = "CHECKED_NOT_PREGNANT" /\ attempt[a].contract = c
  BY DEF Agrees, SameAttempts, NoneFailed
<1>2. contract[c].status = "ACCEPTED"
  BY <1>1 DEF Agreed
<1>3. contract[c].noLitter
  BY <1>2 DEF Agrees, SameContracts, Answered
<1>4. QED
  BY <1>1, <1>3 DEF NoLitterIsRepaid, Agrees, SameServices

LEMMA AgreesDecided ==
    Agrees /\ (accident.status \notin {"NONE", "PENDING"} => accident' = accident) => Decided
  BY DEF Agrees, SameContracts, SameServices, Decided

LEMMA KeepsIInv ==
    ASSUME IInv, Keeps, Settles
    PROVE  IInv' /\ Decided
  BY AgreesAgreed, AgreesKeepsPromises, AgreesDecided DEF IInv, Keeps, Settles

LEMMA CheckIInv ==
    ASSUME IInv, NEW p \in Processes, CommitCheck(p)
    PROVE  IInv' /\ Decided
<1>1. /\ TypeInv' /\ Agrees
      /\ UNCHANGED <<contract, emergency, accident>>
      /\ \A a \in Attempts : attempt'[a].status = "CHECKED_NOT_PREGNANT" =>
            \/ attempt[a].status = "CHECKED_NOT_PREGNANT"
            \/ \A c \in ContractOf(a) : contract[c].noLitter => service'[c].status # "NONE"
  BY CheckStep DEF IInv
<1>2. ASSUME NEW a \in Attempts, NEW c \in Contracts,
             attempt'[a].status = "CHECKED_NOT_PREGNANT", attempt'[a].contract = c,
             contract'[c].noLitter
      PROVE  service'[c].status # "NONE"
  <2>1. attempt[a].contract = c /\ contract[c].noLitter
    BY <1>1, <1>2 DEF Agrees, SameAttempts
  <2>2. c \in ContractOf(a)
    BY <2>1 DEF ContractOf, IInv, Agreed
  <2>3. CASE attempt[a].status = "CHECKED_NOT_PREGNANT"
    BY <1>1, <2>1, <2>3 DEF IInv, NoLitterIsRepaid, Agrees, SameServices
  <2>4. CASE attempt[a].status # "CHECKED_NOT_PREGNANT"
    BY <1>1, <1>2, <2>1, <2>2, <2>4
  <2>5. QED
    BY <2>3, <2>4
<1>3. NoLitterIsRepaid'
  BY <1>2 DEF NoLitterIsRepaid
<1>4. QED
  BY <1>1, <1>3, AgreesAgreed, AgreesDecided, SettlesUnchanged DEF IInv, Settles

LEMMA BreedIInv ==
    ASSUME IInv, NEW p \in Processes, CommitBreed(p)
    PROVE  IInv' /\ Decided
<1>1. /\ TypeInv' /\ UNCHANGED <<emergency, accident>>
      /\ \E a \in Attempts, c, s \in Contracts \cup {None} : MakesAttempt(a, c, s)
  BY BreedStep DEF IInv
<1>2. PICK a \in Attempts, c, s \in Contracts \cup {None} : MakesAttempt(a, c, s)
  BY <1>1
<1>3. /\ Agreed'
      /\ \A b \in Attempts : b # a => attempt'[b] = attempt[b]
      /\ \A d \in Contracts :
            /\ d # c => contract'[d] = contract[d]
            /\ d # s => service'[d] = service[d]
      /\ attempt'[a].status = "INITIATED"
  BY <1>2, BreedsAgreed DEF IInv
<1>4. /\ c \in Contracts => contract[c].status \in {"NONE", "PENDING"}
      /\ s \in Contracts => /\ service[s].status = "AVAILABLE"
                            /\ service'[s].status = "USED"
  BY <1>2, ContractsAssumption DEF MakesAttempt, IInv, TypeInv, RowsOK
<1>5. ASSUME NEW b \in Attempts, NEW d \in Contracts,
             attempt'[b].status = "CHECKED_NOT_PREGNANT", attempt'[b].contract = d,
             contract'[d].noLitter
      PROVE  service'[d].status # "NONE"
  <2>1. attempt[b].status = "CHECKED_NOT_PREGNANT" /\ attempt[b].contract = d
    BY <1>3, <1>5
  <2>2. contract[d].status = "ACCEPTED"
    BY <2>1 DEF IInv, Agreed
  <2>3. d # c /\ contract[d].noLitter
    BY <1>3, <1>4, <1>5, <2>2
  <2>4. service[d].status # "NONE"
    BY <2>1, <2>3 DEF IInv, NoLitterIsRepaid
  <2>5. QED
    BY <1>3, <1>4, <2>4
<1>6. NoLitterIsRepaid'
  BY <1>5 DEF NoLitterIsRepaid
<1>7. Decided
  BY <1>1, <1>3, <1>4 DEF Decided, Answered, Ended
<1>8. QED
  BY <1>1, <1>3, <1>6, <1>7, SettlesUnchanged DEF IInv, Settles

LEMMA NextIInv ==
    ASSUME IInv, [Next]_vars
    PROVE  IInv' /\ (Decided \/ UNCHANGED vars)
<1>0. TypeInv
  BY DEF IInv
<1>1. CASE ContractNext
  BY <1>0, <1>1, ContractStep, SettlesUnchanged, KeepsIInv
<1>2. ASSUME NEW p \in life.jobs, JobBegins(p)
      PROVE  IInv' /\ Decided
  <2>1. p \in Processes
    BY <1>0, LivesAssumption DEF TypeInv, RowsOK
  <2>2. CASE DieMark(p)
    BY <1>0, <2>1, <2>2, DeathSteps, SettlesUnchanged, KeepsIInv
  <2>3. CASE ~DieMark(p)
    <3>1. Keeps /\ UNCHANGED rows
      BY <1>0, <1>2, <2>1, <2>3, EventBegins, DamBegins DEF JobBegins
    <3>2. QED
      BY <3>1, SettlesUnchanged, KeepsIInv DEF rows
  <2>4. QED
    BY <2>2, <2>3
<1>3. ASSUME NEW p \in life.webs, WebBegins(p)
      PROVE  IInv' /\ Decided
  <2>1. p \in Processes
    BY <1>0, LivesAssumption DEF TypeInv, RowsOK
  <2>2. Keeps /\ UNCHANGED rows
    BY <1>0, <1>3, <2>1, BreedBegins, EventBegins, DamBegins DEF WebBegins
  <2>3. QED
    BY <2>2, SettlesUnchanged, KeepsIInv DEF rows
<1>4. ASSUME NEW p \in Processes, Commits(p)
      PROVE  IInv' /\ Decided
  <2>1. CASE CommitBreed(p)
    BY <2>1, BreedIInv
  <2>2. CASE CommitCheck(p)
    BY <2>2, CheckIInv
  <2>3. CASE CommitWhelp(p)
    BY <1>0, <2>3, WhelpStep, KeepsIInv
  <2>4. CASE CommitTreat(p) \/ CommitRefuse(p)
    BY <1>0, <2>4, DecideStep, KeepsIInv
  <2>5. CASE CommitResolve(p)
    BY <1>0, <2>5, ResolveStep, KeepsIInv
  <2>6. CASE CommitOpen(p) \/ CommitCare(p) \/ CommitForgo(p)
    BY <1>0, <2>6, AccidentSteps, KeepsIInv
  <2>7. CASE CommitBuy(p)
    BY <1>0, <2>7, BuyStep, SettlesUnchanged, KeepsIInv
  <2>8. CASE Dies(p)
    BY <1>0, <2>8, DeathSteps, SettlesUnchanged, KeepsIInv
  <2>9. QED
    BY <1>4, <2>1, <2>2, <2>3, <2>4, <2>5, <2>6, <2>7, <2>8 DEF Commits
<1>5. ASSUME NEW p \in Processes, Abort(p)
      PROVE  IInv' /\ Decided
  BY <1>0, <1>5, AbortStep, SettlesUnchanged, KeepsIInv
<1>6. CASE Clocks
  BY <1>0, <1>6, ClockStep, ClocksSettle, KeepsIInv
<1>7. CASE ExpireCare
  BY <1>0, <1>7, ExpireCareStep, KeepsIInv
<1>8. CASE UNCHANGED vars
  BY <1>8 DEF vars, rows, IInv, TypeInv, RowsOK, ProcOK, Agreed, TreatmentIsPaidOnce, NoLitterIsRepaid
<1>9. QED
  BY <1>1, <1>2, <1>3, <1>4, <1>5, <1>6, <1>7, <1>8 DEF Next

(* The invariant holds in every state.                                       *)
THEOREM Invariance == Spec => []IInv
<1>1. IInv /\ [Next]_vars => IInv'
  BY NextIInv
<1>2. QED
  BY InitIInv, <1>1, PTL DEF Spec

-----------------------------------------------------------------------------
(* The theorems                                                              *)

(* The rows of a dam, her stud, her contracts, emergencies and sale keep     *)
(* their shape, whatever the requests and the jobs do meanwhile.             *)
THEOREM TypeCorrect == Spec => []TypeOK
<1>1. IInv => TypeOK
  BY TypeFits DEF IInv
<1>2. QED
  BY Invariance, <1>1, PTL

(* Every accepted contract, and every used Return Service, has exactly one   *)
(* breeding attempt, and no other has any: createBreedingAttemptForKennel    *)
(* accepts or uses it in the transaction that creates the attempt.           *)
THEOREM BredOnce == Spec => []AgreementIsBredOnce
<1>1. IInv => AgreementIsBredOnce
  <2> SUFFICES ASSUME Agreed, NEW c \in Contracts
               PROVE  /\ Cardinality({a \in Attempts : attempt[a].contract = c}) =
                            (IF contract[c].status = "ACCEPTED" THEN 1 ELSE 0)
                      /\ Cardinality({a \in Attempts : attempt[a].service = c}) =
                            (IF service[c].status = "USED" THEN 1 ELSE 0)
    BY DEF IInv, AgreementIsBredOnce
  <2>1. Cardinality({a \in Attempts : attempt[a].contract = c}) =
            (IF contract[c].status = "ACCEPTED" THEN 1 ELSE 0)
    <3>1. CASE contract[c].status = "ACCEPTED"
      <4>1. PICK a \in Attempts : attempt[a].contract = c
        BY <3>1 DEF Agreed
      <4>2. {b \in Attempts : attempt[b].contract = c} = {a}
        BY <4>1 DEF Agreed
      <4>3. QED
        BY <3>1, <4>2, FS_Singleton
    <3>2. CASE contract[c].status # "ACCEPTED"
      <4>1. {b \in Attempts : attempt[b].contract = c} = {}
        BY <3>2 DEF Agreed
      <4>2. QED
        BY <3>2, <4>1, FS_EmptySet
    <3>3. QED
      BY <3>1, <3>2
  <2>2. Cardinality({a \in Attempts : attempt[a].service = c}) =
            (IF service[c].status = "USED" THEN 1 ELSE 0)
    <3>1. CASE service[c].status = "USED"
      <4>1. PICK a \in Attempts : attempt[a].service = c
        BY <3>1 DEF Agreed
      <4>2. {b \in Attempts : attempt[b].service = c} = {a}
        BY <4>1 DEF Agreed
      <4>3. QED
        BY <3>1, <4>2, FS_Singleton
    <3>2. CASE service[c].status # "USED"
      <4>1. {b \in Attempts : attempt[b].service = c} = {}
        BY <3>2 DEF Agreed
      <4>2. QED
        BY <3>2, <4>1, FS_EmptySet
    <3>3. QED
      BY <3>1, <3>2
  <2>3. QED
    BY <2>1, <2>2
<1>2. QED
  BY Invariance, <1>1, PTL

(* A treatment, of a whelping or of an accident, is charged once and exactly *)
(* when it is given: the decision and the resolution repeat in their updates *)
(* the status they were made for.                                            *)
THEOREM PaidOnce == Spec => []TreatmentIsPaidOnce
<1>1. IInv => TreatmentIsPaidOnce
  BY DEF IInv
<1>2. QED
  BY Invariance, <1>1, PTL

(* Whoever resolves the pregnancy check of a contract's breeding that did    *)
(* not take, the No-Litter Return Service it promised is there.              *)
THEOREM NoLitterRepaid == Spec => []NoLitterIsRepaid
<1>1. IInv => NoLitterIsRepaid
  BY DEF IInv
<1>2. QED
  BY Invariance, <1>1, PTL

(* Answers, terms, ended Return Services and the outcome of an accident are  *)
(* never changed, however late or often the handlers run.                    *)
THEOREM Final == Spec => DecisionsAreFinal
<1>1. IInv /\ [Next]_vars => [Decided]_vars
  BY NextIInv
<1>2. IInv /\ [Next]_vars =>
        [/\ \A c \in Contracts :
              /\ contract[c].status \in {"ACCEPTED", "DECLINED", "EXPIRED"} =>
                   /\ contract'[c].status = contract[c].status
                   /\ contract'[c].noLitter = contract[c].noLitter
                   /\ contract'[c].small = contract[c].small
              /\ service[c].status \in {"USED", "EXPIRED", "EXTINGUISHED"} =>
                   service'[c] = service[c]
         /\ accident.status \notin {"NONE", "PENDING"} => accident' = accident]_vars
  BY <1>1 DEF Decided, Answered, Ended
<1>3. QED
  BY Invariance, <1>2, PTL DEF Spec, DecisionsAreFinal
=============================================================================
