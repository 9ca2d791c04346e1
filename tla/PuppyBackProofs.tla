--------------------------- MODULE PuppyBackProofs ---------------------------
(* Proofs about the Puppy Back selection, for any litter, any terms, any     *)
(* number of lifecycle runs and of killed processes.                         *)
EXTENDS PuppyBack, TLAPS

-----------------------------------------------------------------------------
(* The inductive invariant                                                   *)

StudRequest == request["STUD_OWNER"]

(* The row says what was kept and what was picked.                           *)
TurnsFit ==
    /\ selection.status = "DAM_FIRST_PICK" => selection.damPick = None
    /\ selection.status \in {"SELECTED", "COMPLETED"} =>
          selection.selected \in contract.fitting \ {selection.damPick}

(* A puppy that the stud owner is about to pick, or has picked, cannot have  *)
(* left, and nothing is about to take it away.                               *)
Stays(p) == owner[p] = "dam" /\ life[p] # "TRANSFERRED" /\ move[p].pc = "idle"

(* The stud owner's request: no puppy was picked since it was read, and no   *)
(* move was admitted while it had a turn to fill.                            *)
PicksFit ==
    /\ \A o \in Owners : request[o].pc = "pick" => request[o].dog \in Puppies
    /\ StudRequest.pc = "pick" => selection.status \notin {"DAM_FIRST_PICK", "SELECTED"}
    /\ StudRequest.pc = "pick" /\ selection.status = "STUD_PICK" =>
          /\ StudRequest.dog \in contract.fitting \ {selection.damPick}
          /\ Stays(StudRequest.dog)

(* Before Day 56 all puppies are at home; a picked one still is.             *)
StaysFit ==
    /\ epoch < Day56 => \A p \in Puppies : Stays(p)
    /\ selection.status = "SELECTED" => Stays(selection.selected)

(* Processes know no later time than now.                                    *)
ClocksFit ==
    /\ \A p \in Puppies : death[p].at <= epoch
    /\ \A j \in Jobs : job[j].at <= epoch

(* The transfer that holds the lock moves the puppy the row names.           *)
TransferFits ==
    \A j \in Jobs : job[j].pc = "transfer" =>
        /\ selection.status = "SELECTED" /\ selection.selected = job[j].dog
        /\ job[j].at >= Day56
        /\ \A k \in Jobs : job[k].pc = "transfer" => k = j

(* Who saw no puppy left to pick saw rightly, and none comes back.           *)
Spent == Selectable = {} \/ epoch >= Day56

WantIsReal ==
    /\ \A j \in Jobs : job[j].pc = "pass" /\ ~job[j].ok => Selectable = {}
    /\ \A j \in Jobs : job[j].pc = "reopen" /\ ~job[j].ok => Spent
    /\ \A p \in Puppies : death[p].pc = "reopen" /\ ~death[p].ok => Spent

Fit ==
    /\ TurnsFit /\ PicksFit /\ StaysFit /\ ClocksFit /\ TransferFits /\ WantIsReal
    /\ OnlyThePickIsTransferred /\ UnfulfilledOnlyForWant

IInv == TypeOK /\ Fit

-----------------------------------------------------------------------------
(* Types                                                                     *)

JobLabels == {"turns", "pass", "forfeit", "deaths", "reopen", "transfers", "transfer"}

Selections == [status: Statuses, damPick: Puppies \cup {None},
               selected: Puppies \cup {None}, deadline: 0..Day56]

LEMMA Times ==
    /\ Day56 \in Nat /\ Horizon \in Nat /\ Turn \in Nat
    /\ 0 \in 0..Horizon /\ Day56 \in 0..Horizon /\ 0..Day56 \subseteq 0..Horizon
    /\ 0 \in 0..Day56 /\ Turn \in 0..Day56 /\ SecondDeadline \in 0..Day56
    /\ SecondDeadline < Day56
    /\ \A now \in Nat : ReopenDeadline(now) \in 0..Day56
    /\ \A now \in 0..Horizon : Earlier(now, Day56 - 1) \in 0..Horizon
                                 /\ Earlier(now, Day56 - 1) <= now
  BY TurnAssumption DEF Horizon, SecondDeadline, ReopenDeadline, Earlier

LEMMA IdleRow == \A labels : Idle \in Rows(labels)
  BY Times DEF Idle, Rows

(* What a process may do to its own row.                                     *)
LEMMA RowMoves ==
    ASSUME NEW labels, NEW x \in Rows(labels), NEW pc \in labels,
           NEW dog \in Puppies \cup {None}, NEW ok \in BOOLEAN
    PROVE  /\ [x EXCEPT !.pc = pc] \in Rows(labels)
           /\ [x EXCEPT !.pc = pc, !.ok = ok] \in Rows(labels)
           /\ [x EXCEPT !.pc = pc, !.dog = dog] \in Rows(labels)
           /\ [x EXCEPT !.pc = pc, !.dog = dog, !.ok = ok] \in Rows(labels)
  BY DEF Rows

LEMMA InitType == Init => TypeOK
<1> SUFFICES ASSUME Init
             PROVE  TypeOK
  OBVIOUS
<1>1. selection \in Selections
  BY Times DEF Init, InitialTurn, Statuses, Selections
<1>2. QED
  BY <1>1, Times, IdleRow, CrashesAssumption DEF Init, TypeOK, Selections, Lives

(* The rows of the selection that the conditional updates write.             *)
LEMMA SelectionMoves ==
    ASSUME NEW x \in Selections
    PROVE  /\ \A p \in Puppies :
                /\ [x EXCEPT !.status = "STUD_PICK", !.damPick = p,
                             !.deadline = SecondDeadline] \in Selections
                /\ [x EXCEPT !.status = "SELECTED", !.selected = p, !.deadline = 0] \in Selections
           /\ \A now \in Nat :
                [x EXCEPT !.status = "STUD_PICK", !.selected = None,
                          !.deadline = ReopenDeadline(now)] \in Selections
           /\ [x EXCEPT !.status = "STUD_PICK", !.deadline = SecondDeadline] \in Selections
           /\ \A st \in Final : [x EXCEPT !.status = st, !.deadline = 0] \in Selections
  BY Times DEF Selections, Statuses, Final

(* Owners' requests, moves and the closing.                                  *)
LEMMA PlayerType ==
    ASSUME TypeOK, PicksFit,
           \/ \E o \in Owners : ReadPick(o) \/ WritePick(o)
           \/ \E p \in Puppies : ReadMove(p) \/ MoveStep(p)
           \/ ReadClosing \/ Close
    PROVE  TypeOK'
<1>0. TypeOK /\ PicksFit /\ None \notin Puppies
  BY PuppiesAssumption
<1>1. ASSUME NEW o \in Owners, ReadPick(o)
      PROVE  TypeOK'
  <2>1. PICK p \in Puppies :
          request' = [request EXCEPT ![o] = [Idle EXCEPT !.pc = "pick", !.now = epoch, !.dog = p]]
    BY <1>0, <1>1, ContractsAssumption DEF ReadPick, Pickable, Selectable, TypeOK
  <2>2. [Idle EXCEPT !.pc = "pick", !.now = epoch, !.dog = p] \in Rows({"pick"})
    BY <1>0, Times DEF Idle, Rows, TypeOK
  <2>3. QED
    BY <1>0, <1>1, <2>1, <2>2 DEF ReadPick, TypeOK, dogs
<1>2. ASSUME NEW o \in Owners, WritePick(o)
      PROVE  TypeOK'
  <2>1. selection \in Selections /\ request[o].dog \in Puppies
    BY <1>0, <1>2 DEF TypeOK, Selections, WritePick, PicksFit
  <2>2. selection' \in Selections
    BY <1>2, <2>1, SelectionMoves DEF WritePick
  <2>3. QED
    BY <1>0, <1>2, <2>2, IdleRow DEF WritePick, TypeOK, dogs, Selections
<1>3. ASSUME NEW p \in Puppies, ReadMove(p)
      PROVE  TypeOK'
  <2>1. PICK kind \in {"rehome", "sale"} :
          move' = [move EXCEPT ![p] = [Idle EXCEPT !.pc = kind, !.now = epoch]]
    BY <1>3 DEF ReadMove
  <2>2. [Idle EXCEPT !.pc = kind, !.now = epoch] \in Rows({"rehome", "sale"})
    BY <1>0, Times DEF Idle, Rows, TypeOK
  <2>3. QED
    BY <1>0, <1>3, <2>1, <2>2 DEF ReadMove, TypeOK, dogs
<1>4. ASSUME NEW p \in Puppies, MoveStep(p)
      PROVE  TypeOK'
  BY <1>0, <1>4, IdleRow DEF MoveStep, Rehome, Sell, TypeOK, dogs, Lives
<1>5. CASE ReadClosing
  <2>1. [Idle EXCEPT !.pc = "close", !.now = epoch] \in Rows({"close"})
    BY <1>0, Times DEF Idle, Rows, TypeOK
  <2>2. QED
    BY <1>0, <1>5, <2>1 DEF ReadClosing, TypeOK, dogs
<1>6. CASE Close
  BY <1>0, <1>6, IdleRow DEF Close, TypeOK, Lives
<1>7. QED
  BY <1>1, <1>2, <1>3, <1>4, <1>5, <1>6

LEMMA DeathType ==
    ASSUME TypeOK, NEW p \in Puppies, Die(p) \/ DeathStep(p)
    PROVE  TypeOK'
<1>0. TypeOK /\ selection \in Selections /\ death[p] \in Rows({"dead", "reopen"})
  BY DEF TypeOK, Selections
<1>1. CASE Die(p)
  <2>1. PICK at \in 0..Horizon :
          death' = [death EXCEPT ![p] = [Idle EXCEPT !.pc = "dead", !.now = epoch, !.at = at]]
    BY <1>0, <1>1, Times DEF Die, TypeOK
  <2>2. [Idle EXCEPT !.pc = "dead", !.now = epoch, !.at = at] \in Rows({"dead", "reopen"})
    BY <1>0, Times DEF Idle, Rows, TypeOK
  <2>3. QED
    BY <1>0, <1>1, <2>1, <2>2 DEF Die, TypeOK, Lives, players
<1>2. CASE ReadDeath(p)
  <2>1. PICK ok \in BOOLEAN : ok = Replaceable(death[p].at)
    BY DEF Replaceable
  <2>2. [death[p] EXCEPT !.pc = "reopen", !.dog = p, !.ok = ok] \in Rows({"dead", "reopen"})
    BY <1>0, RowMoves
  <2>3. death' \in [Puppies -> Rows({"dead", "reopen"})]
    BY <1>0, <1>2, <2>1, <2>2, IdleRow DEF ReadDeath, TypeOK
  <2>4. QED
    BY <1>0, <1>2, <2>3 DEF ReadDeath, TypeOK, dogs, players
<1>3. CASE Reopen(p)
  <2>1. death[p].now \in Nat
    BY <1>0, Times DEF Rows
  <2>2. selection' \in Selections
    BY <1>0, <1>3, <2>1, SelectionMoves DEF Reopen, Reopened, Final
  <2>3. QED
    BY <1>0, <1>3, <2>2, IdleRow DEF Reopen, TypeOK, Selections, dogs, players
<1>4. QED
  BY <1>1, <1>2, <1>3 DEF DeathStep

LEMMA JobType ==
    ASSUME TypeOK, NEW j \in Jobs, StartRun(j) \/ JobStep(j)
    PROVE  TypeOK'
<1>0. TypeOK /\ selection \in Selections /\ job[j] \in Rows(JobLabels)
  BY DEF TypeOK, Selections, JobLabels
<1>1. ASSUME NEW r \in Rows(JobLabels), job' = [job EXCEPT ![j] = r],
             UNCHANGED <<epoch, contract, selection, dogs, players, death, crashes>>
      PROVE  TypeOK'
  BY <1>0, <1>1 DEF TypeOK, dogs, players, JobLabels
<1>2. CASE StartRun(j)
  <2>1. [Idle EXCEPT !.pc = "turns", !.now = epoch, !.at = epoch] \in Rows(JobLabels)
    BY <1>0, Times DEF Idle, Rows, TypeOK, JobLabels
  <2>2. QED
    BY <1>1, <1>2, <2>1 DEF StartRun
<1>3. CASE ReadTurn(j)
  <2>1. PICK ok \in BOOLEAN : ok = (Selectable # {})
    OBVIOUS
  <2>2. \E r \in Rows(JobLabels) : job' = [job EXCEPT ![j] = r]
    BY <1>0, <1>3, <2>1, RowMoves DEF ReadTurn, JobLabels
  <2>3. QED
    BY <1>1, <1>3, <2>2 DEF ReadTurn
<1>4. CASE FindDeath(j)
  <2>1. PICK ok \in BOOLEAN : ok = Replaceable(job[j].at)
    BY DEF Replaceable
  <2>2. selection.selected \in Puppies \cup {None}
    BY <1>0 DEF Selections
  <2>3. \E r \in Rows(JobLabels) : job' = [job EXCEPT ![j] = r]
    <3>1. CASE \E p \in Puppies : PickDied(p)
      <4>1. job' = [job EXCEPT ![j] = [job[j] EXCEPT !.pc = "reopen", !.dog = selection.selected,
                                                     !.ok = ok]]
        BY <1>0, <1>4, <2>1, <3>1 DEF FindDeath, TypeOK, Rows
      <4>2. QED
        BY <1>0, <2>2, <4>1, RowMoves DEF JobLabels
    <3>2. CASE ~\E p \in Puppies : PickDied(p)
      BY <1>0, <1>4, <3>2, RowMoves DEF FindDeath, Goto, JobLabels
    <3>3. QED
      BY <3>1, <3>2
  <2>4. QED
    BY <1>1, <1>4, <2>3 DEF FindDeath
<1>5. CASE LockTransfer(j)
  <2>1. selection.selected \in Puppies \cup {None}
    BY <1>0 DEF Selections
  <2>2. \E r \in Rows(JobLabels) : job' = [job EXCEPT ![j] = r]
    BY <1>0, <1>5, <2>1, RowMoves, IdleRow DEF LockTransfer, JobLabels
  <2>3. QED
    BY <1>1, <1>5, <2>2 DEF LockTransfer
<1>6. CASE Pass(j) \/ Forfeit(j) \/ JobReopen(j)
  <2>1. job[j].now \in Nat
    BY <1>0, Times DEF Rows
  <2>2. selection' \in Selections
    BY <1>0, <1>6, <2>1, SelectionMoves DEF Pass, Forfeit, JobReopen, Reopened, Final
  <2>3. \E r \in Rows(JobLabels) : job' = [job EXCEPT ![j] = r]
    BY <1>0, <1>6, RowMoves DEF Pass, Forfeit, JobReopen, Goto, JobLabels
  <2>4. QED
    BY <1>0, <1>6, <2>2, <2>3 DEF Pass, Forfeit, JobReopen, TypeOK, Selections, dogs, players, JobLabels
<1>7. CASE Transfer(j)
  <2>1. selection' \in Selections
    BY <1>0, <1>7, SelectionMoves DEF Transfer, Final
  <2>2. owner' \in [Puppies -> {"dam", "stud", "buyer", "none"}]
    BY <1>0, <1>7 DEF Transfer, TypeOK
  <2>3. QED
    BY <1>0, <1>7, <2>1, <2>2, IdleRow DEF Transfer, TypeOK, Selections, players
<1>8. QED
  BY <1>2, <1>3, <1>4, <1>5, <1>6, <1>7 DEF JobStep

LEMMA CrashType == TypeOK /\ Crash => TypeOK'
<1> SUFFICES ASSUME TypeOK, Crash
             PROVE  TypeOK'
  OBVIOUS
<1>1. crashes' \in 0..MaxCrashes
  BY CrashesAssumption DEF Crash, TypeOK
<1>2. /\ request' \in [Owners -> Rows({"pick"})]
      /\ move' \in [Puppies -> Rows({"rehome", "sale"})]
      /\ closing' \in Rows({"close"})
      /\ death' \in [Puppies -> Rows({"dead", "reopen"})]
      /\ job' \in [Jobs -> Rows(JobLabels)]
  BY IdleRow DEF Crash, TypeOK, players, JobLabels
<1>3. QED
  BY <1>1, <1>2 DEF Crash, TypeOK, dogs, JobLabels

LEMMA TickType == TypeOK /\ Tick => TypeOK'
  BY Times DEF Tick, TypeOK, dogs, players

LEMMA NextType == TypeOK /\ PicksFit /\ [Next]_vars => TypeOK'
<1>1. TypeOK /\ UNCHANGED vars => TypeOK'
  BY DEF TypeOK, vars, dogs, players
<1>2. QED
  BY <1>1, PlayerType, DeathType, JobType, CrashType, TickType DEF Next

-----------------------------------------------------------------------------
(* What no step takes back                                                   *)

Ages ==
    /\ epoch' >= epoch
    /\ contract' = contract
    /\ \A p \in Puppies : life'[p] = "ALIVE" => life[p] = "ALIVE"
    /\ selection'.damPick = selection.damPick \/ selection.damPick = None

LEMMA StepAges ==
    ASSUME TypeOK, TurnsFit, [Next]_vars
    PROVE  Ages
<1>0. TypeOK /\ TurnsFit
  OBVIOUS
<1>1. epoch' >= epoch
  <2>1. CASE Tick
    BY <1>0, <2>1, Times DEF Tick, TypeOK
  <2>2. CASE ~Tick
    <3>1. epoch' = epoch
      BY <2>2 DEF Next, vars, ReadPick, WritePick, ReadMove, MoveStep, Rehome, Sell, Die,
         DeathStep, ReadDeath, Reopen, ReadClosing, Close, StartRun, JobStep, ReadTurn, Pass,
         Forfeit, FindDeath, JobReopen, LockTransfer, Transfer, Crash
    <3>2. QED
      BY <1>0, <3>1, Times DEF TypeOK
  <2>3. QED
    BY <2>1, <2>2
<1>2. contract' = contract
  BY DEF Next, vars, Tick, ReadPick, WritePick, ReadMove, MoveStep, Rehome, Sell, Die,
     DeathStep, ReadDeath, Reopen, ReadClosing, Close, StartRun, JobStep, ReadTurn, Pass, Forfeit,
     FindDeath, JobReopen, LockTransfer, Transfer, Crash
<1>3. \A p \in Puppies : life'[p] = "ALIVE" => life[p] = "ALIVE"
  BY <1>0 DEF TypeOK, Next, vars, dogs, Tick, ReadPick, WritePick, ReadMove, MoveStep, Rehome, Sell, Die,
     DeathStep, ReadDeath, Reopen, ReadClosing, Close, StartRun, JobStep, ReadTurn, Pass, Forfeit,
     FindDeath, JobReopen, LockTransfer, Transfer, Crash
<1>4. selection'.damPick = selection.damPick \/ selection.damPick = None
  <2>1. ASSUME NEW o \in Owners, WritePick(o)
        PROVE  selection'.damPick = selection.damPick \/ selection.damPick = None
    BY <1>0, <2>1 DEF WritePick, HasTurn, TurnOf, TypeOK, TurnsFit
  <2>2. ASSUME NEW p \in Puppies, Reopen(p)
        PROVE  selection'.damPick = selection.damPick
    BY <1>0, <2>2 DEF Reopen, Reopened, TypeOK
  <2>3. ASSUME NEW j \in Jobs, Pass(j) \/ Forfeit(j) \/ JobReopen(j) \/ Transfer(j)
        PROVE  selection'.damPick = selection.damPick
    BY <1>0, <2>3 DEF Pass, Forfeit, JobReopen, Reopened, Transfer, TypeOK
  <2>4. QED
    BY <2>1, <2>2, <2>3 DEF Next, vars, Tick, ReadPick, ReadMove, MoveStep, Rehome, Sell, Die,
       DeathStep, ReadDeath, ReadClosing, Close, StartRun, JobStep, ReadTurn,
       FindDeath, LockTransfer, Crash
<1>5. QED
  BY <1>1, <1>2, <1>3, <1>4 DEF Ages

(* So fewer and fewer puppies are left to pick.                              *)
LEMMA SelectableShrinks ==
    ASSUME TypeOK, TypeOK', Ages
    PROVE  Selectable' \subseteq Selectable /\ (Spent => Spent')
<1>1. \A p \in contract.fitting : p \in Puppies /\ p # None
  BY PuppiesAssumption, ContractsAssumption DEF TypeOK
<1>2. Selectable' \subseteq Selectable
  BY <1>1 DEF Ages, Selectable
<1>3. epoch >= Day56 => epoch' >= Day56
  BY Times DEF Ages, TypeOK
<1>4. QED
  BY <1>2, <1>3 DEF Spent

-----------------------------------------------------------------------------
(* What a step does to the selection, to a request and to a puppy at home    *)

DamTurnEnds ==
    /\ selection.status = "DAM_FIRST_PICK" /\ selection'.status = "STUD_PICK"

PickMade ==
    /\ StudRequest.pc = "pick" /\ selection.status = "STUD_PICK"
    /\ selection'.status = "SELECTED" /\ selection'.selected = StudRequest.dog
    /\ selection'.damPick = selection.damPick
    /\ StudRequest'.pc = "idle" /\ UNCHANGED <<dogs, move>>

PickReopened ==
    /\ selection.status = "SELECTED" /\ selection'.status = "STUD_PICK"

(* The end of a selection that is not completed.                             *)
Lost ==
    /\ selection.status \notin Final
    /\ \/ selection'.status = "FORFEITED"
       \/ selection'.status = "UNFULFILLABLE" /\ Spent

Completed ==
    /\ selection.status = "SELECTED" /\ selection'.status = "COMPLETED"
    /\ selection'.selected = selection.selected /\ selection'.damPick = selection.damPick

LEMMA SelectionSteps ==
    ASSUME TypeOK, Fit, [Next]_vars
    PROVE  \/ selection' = selection
           \/ DamTurnEnds \/ PickMade \/ PickReopened \/ Lost \/ Completed
<1>0. TypeOK /\ Fit /\ selection \in Selections
  BY DEF TypeOK, Selections
<1>1. CASE WritePick("DAM_OWNER")
  BY <1>0, <1>1 DEF WritePick, HasTurn, TurnOf, DamTurnEnds, Selections
<1>2. CASE WritePick("STUD_OWNER")
  BY <1>0, <1>2 DEF WritePick, HasTurn, TurnOf, PickMade, StudRequest, Selections, TypeOK, Idle,
     Owners, Rows
<1>3. ASSUME NEW p \in Puppies, Reopen(p)
      PROVE  selection' = selection \/ PickReopened \/ Lost
  BY <1>0, <1>3 DEF Reopen, Reopened, PickReopened, Lost, Selections, Fit, WantIsReal, Final
<1>4. ASSUME NEW j \in Jobs, JobReopen(j)
      PROVE  selection' = selection \/ PickReopened \/ Lost
  BY <1>0, <1>4 DEF JobReopen, Reopened, PickReopened, Lost, Selections, Fit, WantIsReal, Final
<1>5. ASSUME NEW j \in Jobs, Pass(j)
      PROVE  selection' = selection \/ DamTurnEnds \/ Lost
  BY <1>0, <1>5 DEF Pass, StillExpired, DamTurnEnds, Lost, Selections, Fit, WantIsReal, Final, Spent
<1>6. ASSUME NEW j \in Jobs, Forfeit(j)
      PROVE  selection' = selection \/ Lost
  BY <1>0, <1>6 DEF Forfeit, StillExpired, Lost, Selections, Final
<1>7. ASSUME NEW j \in Jobs, Transfer(j)
      PROVE  selection' = selection \/ Completed
  BY <1>0, <1>7 DEF Transfer, Completed, Selections, Fit, TransferFits
<1>8. QED
  BY <1>1, <1>2, <1>3, <1>4, <1>5, <1>6, <1>7 DEF Owners, Next, vars, Tick, ReadPick, ReadMove,
     MoveStep, Rehome, Sell, Die, DeathStep, ReadDeath, ReadClosing, Close, StartRun, JobStep,
     ReadTurn, FindDeath, LockTransfer, Crash

(* A request that is open was open, or has just been read.                   *)
LEMMA RequestSteps ==
    ASSUME TypeOK, [Next]_vars, NEW o \in Owners, request'[o].pc = "pick"
    PROVE  request'[o] = request[o] \/ ReadPick(o)
<1>0. TypeOK /\ request'[o].pc = "pick"
  OBVIOUS
<1>1. ASSUME NEW q \in Owners, ReadPick(q) \/ WritePick(q)
      PROVE  request'[o] = request[o] \/ ReadPick(o)
  <2>1. CASE ReadPick(o)
    BY <2>1
  <2>2. CASE WritePick(o)
    BY <1>0, <2>2 DEF WritePick, TypeOK, Idle
  <2>3. CASE q # o
    BY <1>0, <1>1, <2>3 DEF ReadPick, WritePick, TypeOK
  <2>4. QED
    BY <1>1, <2>1, <2>2, <2>3
<1>2. CASE Crash
  BY <1>0, <1>2 DEF Crash, TypeOK, Idle, players
<1>3. QED
  BY <1>1, <1>2 DEF Next, vars, players, Tick, ReadMove, MoveStep, Rehome, Sell, Die, DeathStep,
     ReadDeath, Reopen, ReadClosing, Close, StartRun, JobStep, ReadTurn, Pass, Forfeit, FindDeath,
     JobReopen, LockTransfer, Transfer

(* Only an admitted move or the transfer ends a puppy's stay.                *)
LEMMA StaySteps ==
    ASSUME TypeOK, Fit, [Next]_vars, NEW p \in Puppies, Stays(p)
    PROVE  \/ Stays(p)'
           \/ ReadMove(p)
           \/ Completed /\ epoch >= Day56
<1>0. TypeOK /\ Fit /\ Stays(p) /\ selection \in Selections
  BY DEF TypeOK, Selections
<1>1. ASSUME NEW q \in Puppies, ReadMove(q) \/ MoveStep(q) \/ Die(q)
      PROVE  Stays(p)' \/ ReadMove(p)
  BY <1>0, <1>1 DEF ReadMove, MoveStep, Rehome, Sell, Die, Stays, TypeOK, Idle, dogs, players
<1>2. CASE Close \/ Crash
  BY <1>0, <1>2 DEF Close, Crash, Stays, TypeOK, Idle, dogs, players
<1>3. ASSUME NEW j \in Jobs, Transfer(j)
      PROVE  Stays(p)' \/ (Completed /\ epoch >= Day56)
  <2>1. job[j].at \in Nat /\ epoch \in Nat /\ Day56 \in Nat
    BY <1>0, Times DEF TypeOK, Rows
  <2>2. epoch >= Day56
    BY <1>0, <1>3, <2>1 DEF Transfer, Fit, TransferFits, ClocksFit
  <2>3. QED
    BY <1>0, <1>3, <2>2 DEF Transfer, Fit, TransferFits, Completed, Selections, Stays, TypeOK, players
<1>4. QED
  BY <1>0, <1>1, <1>2, <1>3 DEF Stays, Next, vars, dogs, players, Tick, ReadPick, WritePick,
     DeathStep, ReadDeath, Reopen, ReadClosing, StartRun, JobStep, ReadTurn, Pass, Forfeit,
     FindDeath, JobReopen, LockTransfer

-----------------------------------------------------------------------------
(* The invariant is inductive                                                *)

LEMMA InitFit == Init => Fit
<1> SUFFICES ASSUME Init
             PROVE  Fit
  OBVIOUS
<1>1. /\ selection.status = InitialTurn(contract) /\ selection.damPick = None
      /\ selection.status \in {"STUD_PICK", "DAM_FIRST_PICK"}
  BY DEF Init, InitialTurn
<1>2. /\ \A p \in Puppies : /\ owner[p] = "dam" /\ life[p] = "ALIVE" /\ move[p] = Idle
                             /\ death[p] = Idle
      /\ \A o \in Owners : request[o] = Idle
      /\ \A j \in Jobs : job[j] = Idle
      /\ epoch = 0
  BY DEF Init
<1>3. Idle.pc = "idle" /\ Idle.at = 0
  BY DEF Idle
<1>4. TurnsFit /\ StaysFit
  BY <1>1, <1>2, <1>3 DEF TurnsFit, StaysFit, Stays
<1>5. PicksFit /\ ClocksFit /\ TransferFits /\ WantIsReal
  BY <1>2, <1>3 DEF PicksFit, StudRequest, Owners, ClocksFit, TransferFits, WantIsReal
<1>6. OnlyThePickIsTransferred /\ UnfulfilledOnlyForWant
  BY <1>1, <1>2 DEF OnlyThePickIsTransferred, UnfulfilledOnlyForWant
<1>7. QED
  BY <1>4, <1>5, <1>6 DEF Fit

LEMMA TurnsInductive ==
    ASSUME TypeOK, TypeOK', Fit, Ages, [Next]_vars
    PROVE  TurnsFit'
<1>0. TypeOK /\ TypeOK' /\ Fit /\ contract' = contract
  BY DEF Ages
<1>1. CASE selection' = selection
  BY <1>0, <1>1 DEF TurnsFit, Fit
<1>2. CASE DamTurnEnds \/ PickReopened \/ Lost
  BY <1>0, <1>2 DEF TurnsFit, DamTurnEnds, PickReopened, Lost
<1>3. CASE PickMade
  BY <1>0, <1>3 DEF TurnsFit, PickMade, Fit, PicksFit
<1>4. CASE Completed
  BY <1>0, <1>4 DEF TurnsFit, Completed, Fit
<1>5. QED
  BY <1>1, <1>2, <1>3, <1>4, SelectionSteps

LEMMA PicksInductive ==
    ASSUME TypeOK, TypeOK', Fit, Ages, [Next]_vars
    PROVE  PicksFit'
<1>0. /\ TypeOK /\ TypeOK' /\ Fit /\ Ages /\ "STUD_OWNER" \in Owners
      /\ \A p \in contract.fitting : p \in Puppies
  BY ContractsAssumption DEF Owners, TypeOK
<1>1. ASSUME NEW o \in Owners, request'[o].pc = "pick"
      PROVE  request'[o].dog \in Puppies
  <2>1. CASE request'[o] = request[o]
    BY <1>0, <1>1, <2>1 DEF Fit, PicksFit
  <2>2. CASE ReadPick(o)
    BY <1>0, <2>2 DEF ReadPick, Pickable, Selectable, TypeOK, Idle
  <2>3. QED
    BY <1>1, <2>1, <2>2, RequestSteps
<1>2. ASSUME StudRequest'.pc = "pick", StudRequest' = StudRequest
      PROVE  /\ selection'.status \notin {"DAM_FIRST_PICK", "SELECTED"}
             /\ selection'.status = "STUD_PICK" =>
                   /\ StudRequest.dog \in contract.fitting \ {selection'.damPick}
                   /\ Stays(StudRequest.dog)'
  <2>1. selection.status \notin {"DAM_FIRST_PICK", "SELECTED"}
    BY <1>0, <1>2 DEF Fit, PicksFit
  <2>2. selection' = selection \/ Lost \/ Completed
    BY <1>2, <2>1, SelectionSteps DEF DamTurnEnds, PickMade, PickReopened
  <2>3. selection'.status \notin {"DAM_FIRST_PICK", "SELECTED"}
    BY <2>1, <2>2 DEF Lost, Completed
  <2>4. ASSUME selection'.status = "STUD_PICK"
        PROVE  /\ StudRequest.dog \in contract.fitting \ {selection'.damPick}
               /\ Stays(StudRequest.dog)'
    <3>1. selection' = selection
      BY <2>2, <2>4 DEF Lost, Completed
    <3>2. /\ StudRequest.dog \in contract.fitting \ {selection.damPick}
          /\ Stays(StudRequest.dog)
      BY <1>0, <1>2, <2>4, <3>1 DEF Fit, PicksFit
    <3>3. ~ReadMove(StudRequest.dog)
      BY <2>4, <3>1, <3>2 DEF ReadMove, Protected, Selectable
    <3>4. ~Completed
      BY <2>4 DEF Completed
    <3>5. Stays(StudRequest.dog)'
      BY <1>0, <1>2, <3>2, <3>3, <3>4, StaySteps DEF Stays
    <3>6. QED
      BY <3>1, <3>2, <3>5
  <2>5. QED
    BY <2>3, <2>4
<1>3. CASE ReadPick("STUD_OWNER")
  <2>1. PICK p \in Selectable :
          request' = [request EXCEPT !["STUD_OWNER"] = [Idle EXCEPT !.pc = "pick", !.now = epoch,
                                                                    !.dog = p]]
    BY <1>3 DEF ReadPick, Pickable
  <2>2. StudRequest'.dog = p /\ p \in Puppies /\ p \in contract.fitting \ {selection.damPick}
    BY <1>0, <2>1 DEF StudRequest, TypeOK, Idle, Selectable
  <2>3. selection' = selection /\ selection.status = "STUD_PICK" /\ epoch < selection.deadline
    BY <1>3 DEF ReadPick, HasTurn, TurnOf
  <2>4. epoch < Day56
    BY <1>0, <2>3, Times DEF TypeOK
  <2>5. Stays(p)
    BY <1>0, <2>2, <2>4 DEF Fit, StaysFit
  <2>6. Stays(p)'
    BY <1>3, <2>5 DEF ReadPick, Stays, dogs
  <2>7. /\ selection'.status \notin {"DAM_FIRST_PICK", "SELECTED"}
        /\ StudRequest'.dog \in contract'.fitting \ {selection'.damPick}
        /\ Stays(StudRequest.dog)'
    BY <1>0, <2>2, <2>3, <2>6 DEF Ages, Stays
  <2>8. QED
    BY <1>1, <2>7 DEF PicksFit
<1>4. CASE StudRequest'.pc # "pick"
  BY <1>1, <1>4 DEF PicksFit
<1>5. CASE StudRequest'.pc = "pick" /\ StudRequest' = StudRequest
  <2>1. contract' = contract
    BY <1>0 DEF Ages
  <2>2. QED
    BY <1>1, <1>2, <1>5, <2>1 DEF PicksFit, Stays
<1>6. QED
  BY <1>0, <1>3, <1>4, <1>5, RequestSteps DEF StudRequest

LEMMA StaysInductive ==
    ASSUME TypeOK, TypeOK', Fit, Ages, [Next]_vars
    PROVE  StaysFit'
<1>0. /\ TypeOK /\ TypeOK' /\ Fit /\ Ages /\ epoch \in Nat /\ epoch' \in Nat /\ Day56 \in Nat
      /\ \A p \in contract.fitting : p \in Puppies
  BY Times, ContractsAssumption DEF TypeOK
<1>1. ASSUME NEW p \in Puppies, epoch' < Day56
      PROVE  Stays(p)'
  <2>1. epoch < Day56
    BY <1>0, <1>1 DEF Ages
  <2>2. Stays(p) /\ ~ReadMove(p)
    BY <1>0, <2>1 DEF Fit, StaysFit, ReadMove, OfAge
  <2>3. QED
    BY <1>0, <2>1, <2>2, StaySteps
<1>2. ASSUME selection'.status = "SELECTED"
      PROVE  Stays(selection.selected)'
  <2>1. CASE selection' = selection
    <3>1. selection.selected \in Puppies /\ Stays(selection.selected)
      BY <1>0, <1>2, <2>1 DEF Fit, StaysFit, TurnsFit
    <3>2. ~ReadMove(selection.selected) /\ ~Completed
      BY <1>2, <2>1 DEF ReadMove, Protected, Completed
    <3>3. QED
      BY <1>0, <2>1, <3>1, <3>2, StaySteps DEF Stays
  <2>2. CASE PickMade
    BY <1>0, <2>2 DEF PickMade, Fit, PicksFit, Stays, dogs
  <2>3. QED
    BY <1>0, <1>2, <2>1, <2>2, SelectionSteps DEF DamTurnEnds, PickReopened, Lost, Completed
<1>3. QED
  BY <1>1, <1>2 DEF StaysFit

LEMMA OutcomesInductive ==
    ASSUME TypeOK, TypeOK', Fit, TurnsFit', Ages, [Next]_vars
    PROVE  OnlyThePickIsTransferred' /\ UnfulfilledOnlyForWant'
<1>0. TypeOK /\ TypeOK' /\ Fit /\ TurnsFit' /\ Ages
  OBVIOUS
<1>1. UnfulfilledOnlyForWant'
  <2>1. selection'.status = "UNFULFILLABLE" => Spent
    BY <1>0, SelectionSteps DEF DamTurnEnds, PickMade, PickReopened, Lost, Completed, Fit,
       UnfulfilledOnlyForWant, Spent
  <2>2. QED
    BY <1>0, <2>1, SelectableShrinks DEF UnfulfilledOnlyForWant, Spent
<1>2. ASSUME NEW p \in Puppies, owner'[p] = "stud"
      PROVE  /\ selection'.status = "COMPLETED" /\ selection'.selected = p
             /\ p \in contract'.fitting \ {selection'.damPick}
  <2>1. CASE owner[p] = "stud"
    <3>1. selection.status = "COMPLETED" /\ selection.selected = p
      BY <1>0, <2>1 DEF Fit, OnlyThePickIsTransferred
    <3>2. selection' = selection
      BY <1>0, <3>1, SelectionSteps DEF DamTurnEnds, PickMade, PickReopened, Lost, Completed, Final
    <3>3. QED
      BY <1>0, <3>1, <3>2 DEF TurnsFit
  <2>2. CASE owner[p] # "stud"
    <3>1. PICK j \in Jobs : Transfer(j)
      BY <1>0, <1>2, <2>2 DEF TypeOK, Next, vars, dogs, players, Tick, ReadPick, WritePick, ReadMove,
         MoveStep, Rehome, Sell, Die, DeathStep, ReadDeath, Reopen, ReadClosing, Close, StartRun,
         JobStep, ReadTurn, Pass, Forfeit, FindDeath, JobReopen, LockTransfer, Crash
    <3>2. selection'.status = "COMPLETED" /\ selection'.selected = p
      BY <1>0, <1>2, <2>2, <3>1 DEF Transfer, Fit, TransferFits, TypeOK
    <3>3. QED
      BY <1>0, <3>2 DEF TurnsFit
  <2>3. QED
    BY <2>1, <2>2
<1>3. QED
  BY <1>1, <1>2 DEF OnlyThePickIsTransferred

(* The lifecycle runs and the deaths: a row is as it was, gone, or rewritten *)
(* by its own process.                                                       *)
LEMMA RowsInductive ==
    ASSUME TypeOK, TypeOK', Fit, Ages,
           selection' = selection \/ Unlocked,
           \A p \in Puppies : \/ death'[p] = death[p]
                              \/ /\ death'[p].at <= epoch
                                 /\ death'[p].pc = "reopen" /\ ~death'[p].ok => Spent,
           \A j \in Jobs : \/ job'[j] = job[j]
                           \/ /\ job'[j].at <= epoch
                              /\ job'[j].pc = "pass" /\ ~job'[j].ok => Selectable = {}
                              /\ job'[j].pc = "reopen" /\ ~job'[j].ok => Spent
                              /\ job'[j].pc # "transfer"
    PROVE  ClocksFit' /\ TransferFits' /\ WantIsReal'
<1>0. /\ TypeOK /\ TypeOK' /\ Fit /\ Ages /\ epoch \in Nat /\ epoch' \in Nat
      /\ \A p \in Puppies : death[p].at \in Nat /\ death'[p].at \in Nat
      /\ \A j \in Jobs : job[j].at \in Nat /\ job'[j].at \in Nat
  BY Times DEF TypeOK, Rows
<1>1. ClocksFit'
  BY <1>0 DEF ClocksFit, Fit, Ages
<1>2. TransferFits'
  <2>1. \A j \in Jobs : job'[j].pc = "transfer" => job'[j] = job[j] /\ job[j].pc = "transfer"
    OBVIOUS
  <2>2. \A j \in Jobs : job'[j].pc = "transfer" => selection' = selection
    BY <2>1 DEF Unlocked
  <2>3. QED
    BY <1>0, <2>1, <2>2 DEF TransferFits, Fit
<1>3. WantIsReal'
  BY <1>0, SelectableShrinks DEF WantIsReal, Fit
<1>4. QED
  BY <1>1, <1>2, <1>3

(* A pick that a death at an epoch in the past cannot replace is lost.       *)
LEMMA NotReplaceable ==
    ASSUME TypeOK, NEW at \in Nat, at <= epoch, ~Replaceable(at)
    PROVE  Spent
<1>1. epoch \in Nat /\ Day56 \in Nat
  BY Times DEF TypeOK
<1>2. QED
  BY <1>1 DEF Replaceable, Spent

LEMMA DeathProcesses ==
    ASSUME TypeOK, TypeOK', Fit, Ages, NEW p \in Puppies, Die(p) \/ DeathStep(p)
    PROVE  ClocksFit' /\ TransferFits' /\ WantIsReal'
<1>0. /\ TypeOK /\ TypeOK' /\ Fit /\ Ages /\ epoch \in Nat /\ epoch \in 0..Horizon
      /\ Day56 \in Nat /\ death[p].at \in Nat /\ death[p].at <= epoch
      /\ Idle.at = 0 /\ Idle.pc = "idle" /\ death[p] \in Rows({"dead", "reopen"})
  BY Times DEF TypeOK, Rows, Fit, ClocksFit, Idle
<1>1. job' = job /\ \A q \in Puppies : q # p => death'[q] = death[q]
  BY <1>0 DEF Die, DeathStep, ReadDeath, Reopen, TypeOK
<1>2. selection' = selection \/ Unlocked
  BY DEF Die, DeathStep, ReadDeath, Reopen
<1>3. /\ death'[p].at <= epoch
      /\ death'[p].pc = "reopen" /\ ~death'[p].ok => Spent
  <2>1. CASE Die(p)
    <3>1. PICK at \in {epoch, Earlier(epoch, Day56 - 1)} :
            death' = [death EXCEPT ![p] = [Idle EXCEPT !.pc = "dead", !.now = epoch, !.at = at]]
      BY <2>1 DEF Die
    <3>2. at <= epoch
      BY <1>0, <3>1, Times
    <3>3. death'[p].at = at /\ death'[p].pc = "dead"
      BY <1>0, <3>1 DEF Idle, TypeOK
    <3>4. QED
      BY <3>2, <3>3
  <2>2. CASE ReadDeath(p)
    <3>1. CASE PickDied(p)
      <4>1. PICK ok \in BOOLEAN : ok = Replaceable(death[p].at)
        BY DEF Replaceable
      <4>2. death'[p] = [death[p] EXCEPT !.pc = "reopen", !.dog = p, !.ok = ok]
        BY <1>0, <2>2, <3>1, <4>1 DEF ReadDeath, TypeOK
      <4>3. death'[p].at = death[p].at /\ death'[p].ok = ok
        BY <1>0, <4>2 DEF Rows
      <4>4. ~ok => Spent
        BY <1>0, <4>1, NotReplaceable
      <4>5. QED
        BY <1>0, <4>3, <4>4
    <3>2. CASE ~PickDied(p)
      BY <1>0, <2>2, <3>2 DEF ReadDeath, TypeOK
    <3>3. QED
      BY <3>1, <3>2
  <2>3. CASE Reopen(p)
    BY <1>0, <2>3 DEF Reopen, TypeOK
  <2>4. QED
    BY <2>1, <2>2, <2>3 DEF DeathStep
<1>4. QED
  BY <1>1, <1>2, <1>3, RowsInductive

LEMMA JobProcesses ==
    ASSUME TypeOK, TypeOK', Fit, Ages, NEW j \in Jobs, StartRun(j) \/ JobStep(j)
    PROVE  ClocksFit' /\ TransferFits' /\ WantIsReal'
<1>0. /\ TypeOK /\ TypeOK' /\ Fit /\ Ages /\ epoch \in Nat /\ Day56 \in Nat
      /\ job[j].at \in Nat /\ job[j].at <= epoch
      /\ Idle.at = 0 /\ Idle.pc = "idle" /\ job[j] \in Rows(JobLabels)
  BY Times DEF TypeOK, Rows, Fit, ClocksFit, Idle, JobLabels
<1>1. death' = death /\ \A k \in Jobs : k # j => job'[k] = job[k]
  BY <1>0 DEF StartRun, JobStep, ReadTurn, Pass, Forfeit, FindDeath, JobReopen, LockTransfer,
     Transfer, Goto, TypeOK
<1>2. ASSUME selection' = selection \/ Unlocked,
             job'[j].at <= epoch,
             job'[j].pc = "pass" /\ ~job'[j].ok => Selectable = {},
             job'[j].pc = "reopen" /\ ~job'[j].ok => Spent,
             job'[j].pc # "transfer"
      PROVE  ClocksFit' /\ TransferFits' /\ WantIsReal'
  BY <1>1, <1>2, RowsInductive
<1>3. CASE StartRun(j)
  <2>1. job'[j].at = epoch /\ job'[j].pc = "turns"
    BY <1>0, <1>3 DEF StartRun, TypeOK, Idle
  <2>2. QED
    BY <1>0, <1>2, <1>3, <2>1 DEF StartRun
<1>4. CASE ReadTurn(j)
  <2>1. PICK ok \in BOOLEAN : ok = (Selectable # {})
    OBVIOUS
  <2>2. /\ job'[j].at = job[j].at /\ job'[j].pc \in {"deaths", "forfeit", "pass"}
        /\ job'[j].pc = "pass" => job'[j].ok = ok
    BY <1>0, <1>4, <2>1 DEF ReadTurn, TypeOK, Rows
  <2>3. QED
    BY <1>0, <1>2, <1>4, <2>1, <2>2 DEF ReadTurn
<1>5. CASE Pass(j) \/ Forfeit(j) \/ JobReopen(j)
  <2>1. job'[j].at = job[j].at /\ job'[j].pc \in {"deaths", "transfers"}
    BY <1>0, <1>5 DEF Pass, Forfeit, JobReopen, Goto, TypeOK, Rows
  <2>2. QED
    BY <1>0, <1>2, <1>5, <2>1 DEF Pass, Forfeit, JobReopen
<1>6. CASE FindDeath(j)
  <2>1. PICK ok \in BOOLEAN : ok = Replaceable(job[j].at)
    BY DEF Replaceable
  <2>2. ~ok => Spent
    BY <1>0, <2>1, NotReplaceable
  <2>3. /\ job'[j].at = job[j].at /\ job'[j].pc \in {"reopen", "transfers"}
        /\ job'[j].pc = "reopen" => job'[j].ok = ok
    BY <1>0, <1>6, <2>1 DEF FindDeath, Goto, TypeOK, Rows
  <2>4. QED
    BY <1>0, <1>2, <1>6, <2>2, <2>3 DEF FindDeath
<1>7. CASE LockTransfer(j)
  <2>1. CASE Due(j)
    <3>1. /\ job'[j].at = job[j].at /\ job'[j].pc = "transfer"
          /\ job'[j].dog = selection.selected
      BY <1>0, <1>7, <2>1 DEF LockTransfer, TypeOK, Rows
    <3>2. selection' = selection /\ selection.status = "SELECTED" /\ job[j].at >= Day56 /\ Unlocked
      BY <1>7, <2>1 DEF LockTransfer, Due
    <3>3. TransferFits'
      BY <1>0, <1>1, <3>1, <3>2 DEF TransferFits, Unlocked
    <3>4. ClocksFit'
      BY <1>0, <1>1, <1>7, <3>1 DEF ClocksFit, LockTransfer, Fit
    <3>5. WantIsReal'
      BY <1>0, <1>1, <3>1, SelectableShrinks DEF WantIsReal, Fit
    <3>6. QED
      BY <3>3, <3>4, <3>5
  <2>2. CASE ~Due(j)
    BY <1>0, <1>2, <1>7, <2>2 DEF LockTransfer, TypeOK
  <2>3. QED
    BY <2>1, <2>2
<1>8. CASE Transfer(j)
  <2>1. job'[j] = Idle /\ Day56 >= 0
    BY <1>0, <1>8 DEF Transfer, TypeOK
  <2>2. \A k \in Jobs : job'[k].pc # "transfer"
    BY <1>0, <1>1, <1>8, <2>1 DEF Transfer, Fit, TransferFits
  <2>3. TransferFits'
    BY <2>2 DEF TransferFits
  <2>4. ClocksFit'
    BY <1>0, <1>1, <1>8, <2>1 DEF ClocksFit, Transfer, Fit
  <2>5. WantIsReal'
    BY <1>0, <1>1, <2>1, SelectableShrinks DEF WantIsReal, Fit
  <2>6. QED
    BY <2>3, <2>4, <2>5
<1>9. QED
  BY <1>3, <1>4, <1>5, <1>6, <1>7, <1>8 DEF JobStep

LEMMA ProcessesInductive ==
    ASSUME TypeOK, TypeOK', Fit, Ages, [Next]_vars
    PROVE  ClocksFit' /\ TransferFits' /\ WantIsReal'
<1>0. /\ TypeOK /\ TypeOK' /\ Fit /\ Ages /\ epoch \in Nat
      /\ Idle.at = 0 /\ Idle.pc = "idle"
  BY Times DEF TypeOK, Idle
<1>1. ASSUME NEW p \in Puppies, Die(p) \/ DeathStep(p)
      PROVE  ClocksFit' /\ TransferFits' /\ WantIsReal'
  BY <1>0, <1>1, DeathProcesses
<1>2. ASSUME NEW j \in Jobs, StartRun(j) \/ JobStep(j)
      PROVE  ClocksFit' /\ TransferFits' /\ WantIsReal'
  BY <1>0, <1>2, JobProcesses
<1>3. ASSUME NEW o \in Owners, WritePick(o)
      PROVE  ClocksFit' /\ TransferFits' /\ WantIsReal'
  BY <1>0, <1>3, RowsInductive DEF WritePick
<1>4. CASE Crash
  <2>1. \A p \in Puppies : death'[p] = death[p] \/ death'[p] = Idle
    BY <1>0, <1>4 DEF Crash, TypeOK
  <2>2. \A j \in Jobs : job'[j] = job[j] \/ job'[j] = Idle
    BY <1>0, <1>4 DEF Crash, TypeOK
  <2>3. selection' = selection
    BY <1>4 DEF Crash
  <2>4. QED
    BY <1>0, <2>1, <2>2, <2>3, RowsInductive
<1>5. CASE UNCHANGED <<selection, death, job>>
  BY <1>0, <1>5, RowsInductive
<1>6. QED
  BY <1>1, <1>2, <1>3, <1>4, <1>5 DEF Next, vars, players, Tick, ReadPick, ReadMove, MoveStep,
     Rehome, Sell, ReadClosing, Close

LEMMA Inductive == IInv /\ [Next]_vars => IInv'
<1> SUFFICES ASSUME IInv, [Next]_vars
             PROVE  IInv'
  OBVIOUS
<1>0. TypeOK /\ Fit /\ TurnsFit
  BY DEF IInv, Fit
<1>1. TypeOK'
  BY <1>0, NextType DEF Fit
<1>2. Ages
  BY <1>0, StepAges
<1>3. TurnsFit'
  BY <1>0, <1>1, <1>2, TurnsInductive
<1>4. PicksFit' /\ StaysFit'
  BY <1>0, <1>1, <1>2, PicksInductive, StaysInductive
<1>5. ClocksFit' /\ TransferFits' /\ WantIsReal'
  BY <1>0, <1>1, <1>2, ProcessesInductive
<1>6. OnlyThePickIsTransferred' /\ UnfulfilledOnlyForWant'
  BY <1>0, <1>1, <1>2, <1>3, OutcomesInductive
<1>7. QED
  BY <1>1, <1>3, <1>4, <1>5, <1>6 DEF IInv, Fit

-----------------------------------------------------------------------------
(* The theorems                                                              *)

(* The rows stay related as described above in every behaviour.              *)
THEOREM Invariance == Spec => []IInv
<1>1. Init => IInv
  BY InitType, InitFit DEF IInv
<1>2. QED
  BY <1>1, Inductive, PTL DEF Spec

(* The rows keep their types, and no turn lasts beyond Day 56, the day from  *)
(* which the puppies may leave (the deadlines of                             *)
(* studContractPuppySelection.service.ts).                                   *)
THEOREM TypeCorrect == Spec => []TypeOK
<1>1. IInv => TypeOK
  BY DEF IInv
<1>2. QED
  BY <1>1, Invariance, PTL

(* No sale or rehoming takes a picked puppy from the dam kennel, although    *)
(* each reads the protection in one step and moves the puppy in another, and *)
(* although a death can move the pick in between.                            *)
THEOREM PickStays == Spec => []PickIsNotGivenAway
<1>1. IInv => PickIsNotGivenAway
  BY DEF IInv, Fit, StaysFit, Stays, PickIsNotGivenAway
<1>2. QED
  BY <1>1, Invariance, PTL

(* Whatever runs of the lifecycle route overlap or are killed, the stud      *)
(* kennel gets no puppy but the one it picked, and no second one.            *)
THEOREM OnlyPickTransferred == Spec => []OnlyThePickIsTransferred
<1>1. IInv => OnlyThePickIsTransferred
  BY DEF IInv, Fit
<1>2. QED
  BY <1>1, Invariance, PTL

(* A selection ends as unfulfillable on what a run or a death has seen some  *)
(* time before; what it saw is still so when it writes.                      *)
THEOREM UnfulfilledForWant == Spec => []UnfulfilledOnlyForWant
<1>1. IInv => UnfulfilledOnlyForWant
  BY DEF IInv, Fit
<1>2. QED
  BY <1>1, Invariance, PTL

(* A late conditional update, a second run or a second death never reopens   *)
(* or rewrites a selection that ended, nor changes the puppy that was kept.  *)
THEOREM OutcomeStands == Spec => OutcomeIsFinal
<1>1. IInv /\ [Next]_vars =>
        [/\ selection.status \in Final => selection' = selection
         /\ selection.damPick # None => selection'.damPick = selection.damPick]_vars
  <2> SUFFICES ASSUME IInv, [Next]_vars
               PROVE  /\ selection.status \in Final => selection' = selection
                      /\ selection.damPick # None => selection'.damPick = selection.damPick
    OBVIOUS
  <2>1. TypeOK /\ Fit /\ TurnsFit
    BY DEF IInv, Fit
  <2>2. selection.status \in Final => selection' = selection
    BY <2>1, SelectionSteps DEF DamTurnEnds, PickMade, PickReopened, Lost, Completed, Final
  <2>3. selection.damPick # None => selection'.damPick = selection.damPick
    BY <2>1, StepAges DEF Ages
  <2>4. QED
    BY <2>2, <2>3
<1>2. QED
  BY <1>1, Invariance, PTL DEF Spec, OutcomeIsFinal
=============================================================================
