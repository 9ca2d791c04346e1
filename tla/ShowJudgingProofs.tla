-------------------------- MODULE ShowJudgingProofs --------------------------
(* Proofs about ShowJudging for any cluster, any entries and any number of   *)
(* overlapping judging runs, finalizers, errors and kills: the types, and    *)
(* that no block is judged twice.                                            *)
EXTENDS ShowJudging, FiniteSetTheorems, TLAPS

-----------------------------------------------------------------------------
(* Min(S) is a member of S.  The library states that the naturals are well   *)
(* founded with an operator as parameter, which the provers cannot use; the  *)
(* inclusion of finite sets is well founded too, and a least set of smaller  *)
(* numbers belongs to the least number.                                      *)

Below(S, x) == {y \in S : y < x}

LEMMA MinMember ==
    ASSUME NEW S \in SUBSET Nat, S # {}
    PROVE  Min(S) \in S
<1> DEFINE T == {Below(S, x) : x \in S}
<1>0. \A x \in S : /\ x \in Nat
                  /\ \A y : y \in Below(S, x) <=> y \in S /\ y < x
  BY DEF Below
<1>1. ASSUME NEW x \in S
      PROVE  Below(S, x) \in FiniteSubsetsOf(Nat)
  <2>0. ASSUME NEW y \in Below(S, x)
        PROVE  y \in Nat /\ y <= x
    <3>1. y \in S /\ y < x
      BY <1>0
    <3>2. x \in Nat /\ y \in Nat
      BY <1>0, <3>1
    <3>3. QED
      BY <3>1, <3>2
  <2>1. x \in Nat /\ Below(S, x) \in SUBSET Nat
    BY <1>0, <2>0
  <2>2. IsFiniteSet(Below(S, x))
    BY <2>0, <2>1, FS_BoundedSetOfNaturals
  <2>3. QED
    BY <2>1, <2>2 DEF FiniteSubsetsOf
<1>2. T \subseteq FiniteSubsetsOf(Nat) /\ T # {}
  BY <1>1
<1>3. PICK A \in T : \A B \in T : <<B, A>> \notin StrictSubsetOrdering(Nat)
  <2> HIDE DEF T
  <2>1. QED
    BY <1>2, FS_StrictSubsetOrderingWellFounded, WFMin, Zenon
<1>4. PICK x \in S : A = Below(S, x)
  BY <1>3
<1>5. ASSUME NEW y \in S, y < x
      PROVE  FALSE
  <2>1. Below(S, y) \subseteq A /\ y \in A /\ y \notin Below(S, y)
    BY <1>0, <1>4, <1>5
  <2>2. A \in SUBSET Nat /\ Below(S, y) \in SUBSET Nat
    BY <1>0, <1>4
  <2>3. <<Below(S, y), A>> \in StrictSubsetOrdering(Nat)
    BY <2>1, <2>2 DEF StrictSubsetOrdering
  <2>4. QED
    BY <1>3, <2>3
<1>6. \A y \in S : x <= y
  BY <1>0, <1>5
<1>7. QED
  BY <1>6 DEF Min

-----------------------------------------------------------------------------
(* Types *)

LEMMA IdleType == Idle \in JobRows
<1>1. Unseen \in [Entries -> EntryStatus]
  BY DEF Unseen, EntryStatus
<1>2. "idle" \in Labels /\ "SCHEDULED" \in ShowStatus
  BY DEF Labels, ShowStatus, Open
<1>3. QED
  BY <1>1, <1>2 DEF Idle, JobRows

(* The invariant: besides the types, a run works on the blocks, or days, it  *)
(* selected and remembers an undecided status of the block it judges ...     *)
OnDay == {"closeDay", "count", "group", "bis", "readCredits", "writeCredits",
          "clearPrestige", "addPrestige", "markPrestige", "publish"}

JudgeRow(j) ==
    /\ job[j].pc \notin OnDay
    /\ job[j].todo \subseteq Blocks
    /\ job[j].pc \in Working \cup {"claim"} =>
          job[j].on \in Blocks /\ job[j].prior \notin Terminal

FinalRow(j) ==
    /\ job[j].todo \subseteq Days
    /\ job[j].pc \in OnDay => job[j].on \in Days

RunRows == (\A j \in JudgeJobs : JudgeRow(j)) /\ (\A j \in FinalJobs : FinalRow(j))

(* ... and a block is held by one run at a time, undecided or cancelled      *)
(* under its hands.                                                          *)
Holds(j, b) == job[j].pc \in Working /\ job[j].on = b

OneHolder ==
    \A i, j \in JudgeJobs : \A b \in Blocks : Holds(i, b) /\ Holds(j, b) => i = j

HeldIsClaimed ==
    \A j \in JudgeJobs : \A b \in Blocks :
        Holds(j, b) => block[b] \in {"JUDGING", "CANCELLED"}

OneClaim == OneHolder /\ HeldIsClaimed /\ JudgedOnce

Inv == TypeOK /\ RunRows /\ OneClaim

LEMMA InitInv == Init => Inv
<1>1. "SCHEDULED" \in ShowStatus /\ "SCHEDULED" # "RESULTS_PUBLISHED"
  BY DEF ShowStatus, Open
<1>2. Unseen \in [Entries -> EntryStatus]
  BY DEF Unseen, EntryStatus
<1>3. /\ Idle.pc = "idle"
      /\ Idle.todo = {}
      /\ "idle" \notin Working \cup {"claim"}
      /\ "idle" \notin OnDay
  BY DEF Idle, Working, OnDay
<1>4. Init => TypeOK
  BY <1>1, <1>2, IdleType, BoundsAssumption DEF Init, TypeOK, NoRequest
<1>5. Init => \A j \in Jobs : job[j] = Idle
  BY DEF Init
<1>6. Init => RunRows
  BY <1>3, <1>5 DEF RunRows, JudgeRow, FinalRow, Jobs
<1>7. Init => OneHolder /\ HeldIsClaimed
  BY <1>3, <1>5 DEF OneHolder, HeldIsClaimed, Holds, Jobs
<1>8. Init => JudgedOnce
  BY <1>1 DEF Init, JudgedOnce
<1>9. QED
  BY <1>4, <1>6, <1>7, <1>8 DEF Inv, OneClaim

(* How a run moves.                                                          *)
LEMMA MoveType ==
    ASSUME TypeOK, NEW j \in Jobs
    PROVE  /\ job[j] \in JobRows
           /\ \A r \in JobRows : [job EXCEPT ![j] = r] \in [Jobs -> JobRows]
           /\ \A l \in Labels : /\ Goto(j, l) => job' \in [Jobs -> JobRows]
                                /\ NextOne(j, l) => job' \in [Jobs -> JobRows]
<1>1. job \in [Jobs -> JobRows] /\ job[j] \in JobRows
  BY DEF TypeOK
<1>2. ASSUME NEW l \in Labels, Goto(j, l)
      PROVE  job' \in [Jobs -> JobRows]
  <2>1. [job[j] EXCEPT !.pc = l] \in JobRows
    BY <1>1 DEF JobRows
  <2>2. QED
    BY <1>1, <1>2, <2>1 DEF Goto
<1>3. ASSUME NEW l \in Labels, NextOne(j, l)
      PROVE  job' \in [Jobs -> JobRows]
  <2>1. [Idle EXCEPT !.pc = l, !.at = job[j].at, !.todo = job[j].todo \ {job[j].on}] \in JobRows
    BY <1>1, IdleType DEF JobRows
  <2>2. QED
    BY <1>1, <1>3, <2>1 DEF NextOne
<1>4. QED
  BY <1>1, <1>2, <1>3

(* Closing an empty day cancels, and changes nothing that is decided.        *)
LEMMA CancelType ==
    ASSUME NEW d, NEW at, NEW ent,
           NEW dy \in [Days -> ShowStatus], NEW blk \in [Blocks -> ShowStatus],
           CancelEmpty(d, at, ent, dy, blk)
    PROVE  /\ day' \in [Days -> ShowStatus]
           /\ block' \in [Blocks -> ShowStatus]
           /\ \A b \in Blocks : \/ block'[b] = blk[b]
                                \/ blk[b] \notin Terminal /\ block'[b] = "CANCELLED"
<1>1. "CANCELLED" \in ShowStatus
  BY DEF ShowStatus, Terminal
<1>2. CASE IsEmpty(d, at, ent, dy)
  BY <1>1, <1>2 DEF CancelEmpty
<1>3. CASE ~IsEmpty(d, at, ent, dy)
  BY <1>3 DEF CancelEmpty
<1>4. QED
  BY <1>2, <1>3

(* The clock and the requests.                                               *)
LEMMA RequestType ==
    ASSUME TypeOK,
           Tick \/ \E e \in Entries : EntryStep(e)
    PROVE  TypeOK'
<1>1. CASE Tick
  BY <1>1 DEF Tick, TypeOK, show, scores, bounds
<1>2. NoRequest \in [kind: {"idle", "enter", "pull"}, at: Nat]
  BY DEF NoRequest
<1>3. {"ENTERED", "ABSENT", "INELIGIBLE"} \subseteq EntryStatus
  BY DEF EntryStatus
<1>4. ASSUME NEW e \in Entries, Enter(e)
      PROVE  TypeOK'
  <2>1. [kind |-> "enter", at |-> epoch] \in [kind: {"idle", "enter", "pull"}, at: Nat]
    BY DEF TypeOK
  <2>2. QED
    BY <1>4, <2>1 DEF Enter, TypeOK, scores, bounds
<1>5. ASSUME NEW e \in Entries, Pull(e)
      PROVE  TypeOK'
  <2>1. [kind |-> "pull", at |-> epoch] \in [kind: {"idle", "enter", "pull"}, at: Nat]
    BY DEF TypeOK
  <2>2. QED
    BY <1>5, <2>1 DEF Pull, TypeOK, scores, bounds
<1>6. ASSUME NEW e \in Entries, CommitEntry(e)
      PROVE  TypeOK'
  BY <1>2, <1>3, <1>6 DEF CommitEntry, TypeOK, scores, bounds
<1>7. ASSUME NEW e \in Entries, CommitPull(e)
      PROVE  TypeOK'
  BY <1>2, <1>3, <1>7 DEF CommitPull, TypeOK, scores, bounds
<1>8. ASSUME NEW e \in Entries, Disqualify(e)
      PROVE  TypeOK'
  BY <1>3, <1>8 DEF Disqualify, TypeOK, scores, bounds
<1>9. QED
  BY <1>1, <1>4, <1>5, <1>6, <1>7, <1>8 DEF EntryStep

LEMMA JudgeType ==
    ASSUME Inv, NEW j \in JudgeJobs, JudgeStep(j) \/ JudgeError(j) \/ Unanswered(j)
    PROVE  TypeOK'
<1>0. /\ TypeOK
      /\ j \in Jobs
      /\ job[j] \in JobRows
      /\ job[j].at \in Nat
      /\ job[j].todo \subseteq Blocks
      /\ Blocks \subseteq Nat
  BY MoveType, BlocksAssumption DEF Inv, RunRows, JudgeRow, Jobs, JobRows
<1>1. CASE SelectBlocks(j)
  <2>1. "first" \in Labels
    BY DEF Labels
  <2>2. ASSUME NEW todo \in SUBSET Blocks
        PROVE  [Idle EXCEPT !.pc = "first", !.at = epoch, !.todo = todo] \in JobRows
    BY <1>0, <2>1, IdleType DEF TypeOK, JobRows
  <2>3. \A d : ReadyBlocks(epoch) \cap BlocksOf(d) \in SUBSET Blocks
    BY DEF BlocksOf
  <2>4. job' \in [Jobs -> JobRows]
    BY <1>0, <1>1, <2>2, <2>3, MoveType DEF SelectBlocks
  <2>5. QED
    BY <1>1, <1>0, <2>4 DEF SelectBlocks, TypeOK, show, scores, bounds
<1>2. CASE ReadBlock(j)
  <2> DEFINE b == Min(job[j].todo)
  <2>1. "pick" \in Labels /\ "claim" \in Labels
    BY DEF Labels
  <2>2. b \in Nat /\ b \in Blocks
    BY <1>0, <1>2, MinMember DEF ReadBlock
  <2>3. block[b] \in ShowStatus
    BY <1>0, <2>2 DEF TypeOK
  <2> HIDE DEF b
  <2>4. [job[j] EXCEPT !.todo = job[j].todo \ {b}, !.pc = "pick"] \in JobRows
    BY <1>0, <2>1 DEF JobRows
  <2>5. [job[j] EXCEPT !.on = b, !.prior = block[b], !.pc = "claim"] \in JobRows
    BY <1>0, <2>1, <2>2, <2>3 DEF JobRows
  <2>6. \/ job' = [job EXCEPT ![j] = [job[j] EXCEPT !.todo = job[j].todo \ {b}, !.pc = "pick"]]
        \/ job' = [job EXCEPT ![j] = [job[j] EXCEPT !.on = b, !.prior = block[b], !.pc = "claim"]]
    BY <1>0, <1>2 DEF ReadBlock, b, TypeOK
  <2>7. job' \in [Jobs -> JobRows]
    BY <1>0, <2>4, <2>5, <2>6, MoveType
  <2>8. QED
    BY <1>2, <1>0, <2>7 DEF ReadBlock, TypeOK, show, scores, bounds
<1>3. CASE EndRun(j)
  BY <1>3, <1>0, IdleType DEF EndRun, TypeOK, show, scores, bounds
<1>4. CASE Claim(j)
  <2>1. "prepare" \in Labels /\ "pick" \in Labels
    BY DEF Labels
  <2>2. "JUDGING" \in ShowStatus
    BY DEF ShowStatus
  <2>3. job' \in [Jobs -> JobRows]
    BY <1>4, <1>0, <2>1, MoveType DEF Claim
  <2>4. block' \in [Blocks -> ShowStatus]
    BY <1>4, <1>0, <2>2 DEF Claim, TypeOK
  <2>5. QED
    BY <1>4, <1>0, <2>3, <2>4 DEF Claim, TypeOK, scores, bounds
<1>5. CASE Prepare(j)
  <2>1. "release" \in Labels /\ "check" \in Labels
    BY DEF Labels
  <2>2. PICK fit \in Dispositions(job[j].on) :
          job' = [job EXCEPT
                    ![j].pc = IF day[DayOf[job[j].on]] = "CANCELLED" THEN "release" ELSE "check",
                    ![j].seen = [e \in Entries |->
                                   IF e \in EntriesOf(job[j].on) THEN entry[e] ELSE "NONE"],
                    ![j].fit = fit]
    BY <1>5 DEF Prepare
  <2>3. fit \subseteq Entries
    BY DEF Dispositions, EntriesOf
  <2>4. [e \in Entries |-> IF e \in EntriesOf(job[j].on) THEN entry[e] ELSE "NONE"]
           \in [Entries -> EntryStatus]
    BY <1>0 DEF TypeOK, EntryStatus
  <2>5. job' \in [Jobs -> JobRows]
    BY <1>0, <2>1, <2>2, <2>3, <2>4 DEF TypeOK, JobRows
  <2>6. QED
    BY <1>5, <1>0, <2>5 DEF Prepare, TypeOK, show, scores, bounds
<1>6. CASE Check(j)
  <2>1. "write" \in Labels /\ "release" \in Labels
    BY DEF Labels
  <2>2. QED
    BY <1>6, <1>0, <2>1, MoveType DEF Check, TypeOK, show, scores, bounds
<1>7. CASE WriteCancelled(j)
  <2>1. /\ "pick" \in Labels
        /\ "JUDGING" \in ShowStatus
        /\ "CANCELLED" \in ShowStatus
        /\ {"ABSENT", "INELIGIBLE"} \subseteq EntryStatus
    BY DEF Labels, ShowStatus, Terminal, EntryStatus
  <2>2. job' \in [Jobs -> JobRows]
    BY <1>7, <1>0, <2>1, MoveType DEF WriteCancelled
  <2>3. PICK mark \in Marks(j) :
          LET d == DayOf[job[j].on]
              marked == [e \in Entries |-> IF e \in Unfit(j) THEN mark[e] ELSE entry[e]]
          IN  /\ entry' = marked
              /\ CancelEmpty(d, job[j].at, marked,
                             IF Entered(j) = {} THEN day ELSE [day EXCEPT ![d] = "JUDGING"],
                             [block EXCEPT ![job[j].on] = "CANCELLED"])
    BY <1>7 DEF WriteCancelled, Judging
  <2>4. entry' \in [Entries -> EntryStatus]
    BY <1>0, <2>1, <2>3 DEF TypeOK, Marks
  <2>5. /\ (IF Entered(j) = {} THEN day ELSE [day EXCEPT ![DayOf[job[j].on]] = "JUDGING"])
              \in [Days -> ShowStatus]
        /\ [block EXCEPT ![job[j].on] = "CANCELLED"] \in [Blocks -> ShowStatus]
    BY <1>0, <2>1 DEF TypeOK
  <2>6. day' \in [Days -> ShowStatus] /\ block' \in [Blocks -> ShowStatus]
    BY <2>3, <2>5, CancelType
  <2>7. QED
    BY <1>7, <1>0, <2>2, <2>4, <2>6 DEF WriteCancelled, Judging, TypeOK, scores, bounds
<1>8. CASE WriteResults(j)
  <2>1. /\ "pick" \in Labels
        /\ "JUDGING" \in ShowStatus
        /\ "RESULTS_PUBLISHED" \in ShowStatus
        /\ {"ABSENT", "INELIGIBLE", "JUDGED"} \subseteq EntryStatus
    BY DEF Labels, ShowStatus, Terminal, EntryStatus
  <2>2. job' \in [Jobs -> JobRows]
    BY <1>8, <1>0, <2>1, MoveType DEF WriteResults
  <2>3. /\ day' \in [Days -> ShowStatus]
        /\ block' \in [Blocks -> ShowStatus]
    BY <1>8, <1>0, <2>1 DEF WriteResults, Judging, TypeOK
  <2>4. entry' \in [Entries -> EntryStatus]
    <3>1. PICK mark \in Marks(j) :
            entry' = [e \in Entries |-> CASE e \in job[j].fit -> "JUDGED"
                                         [] e \in Unfit(j) -> mark[e]
                                         [] OTHER -> entry[e]]
      BY <1>8 DEF WriteResults
    <3>2. QED
      BY <1>0, <2>1, <3>1 DEF TypeOK, Marks
  <2>5. results' \subseteq Entries
    BY <1>8, <1>0 DEF WriteResults, TypeOK, JobRows
  <2>6. breedAwards' \in [Blocks -> Nat]
    <3>1. job[j].on \in Blocks
      BY <1>8 DEF WriteResults, Inv, RunRows, JudgeRow, Working
    <3>2. breedAwards[job[j].on] \in Nat
      BY <1>0, <3>1 DEF TypeOK
    <3>3. breedAwards' = [breedAwards EXCEPT ![job[j].on] = breedAwards[job[j].on] + 1]
      BY <1>8 DEF WriteResults
    <3>4. breedAwards[job[j].on] + 1 \in Nat
      BY <3>2
    <3>5. QED
      BY <1>0, <3>3, <3>4 DEF TypeOK
  <2>7. QED
    BY <1>8, <1>0, <2>2, <2>3, <2>4, <2>5, <2>6 DEF WriteResults, TypeOK, bounds
<1>9. CASE Release(j)
  <2>1. "pick" \in Labels
    BY DEF Labels
  <2>2. job' \in [Jobs -> JobRows]
    BY <1>9, <1>0, <2>1, MoveType DEF Release
  <2>3. block' \in [Blocks -> ShowStatus]
    BY <1>9, <1>0 DEF Release, Released, TypeOK, JobRows
  <2>4. QED
    BY <1>9, <1>0, <2>2, <2>3 DEF Release, TypeOK, scores, bounds
<1>10. CASE JudgeError(j)
  <2>1. "release" \in Labels
    BY DEF Labels
  <2>2. job' \in [Jobs -> JobRows]
    BY <1>10, <1>0, <2>1, MoveType DEF JudgeError
  <2>3. fails' \in 0..MaxFails
    BY <1>10, <1>0, BoundsAssumption DEF JudgeError, TypeOK
  <2>4. QED
    BY <1>10, <1>0, <2>2, <2>3 DEF JudgeError, TypeOK, show, scores
<1>11. CASE Unanswered(j)
  <2>1. "pick" \in Labels /\ "JUDGING" \in ShowStatus
    BY DEF Labels, ShowStatus
  <2>2. job' \in [Jobs -> JobRows]
    BY <1>11, <1>0, <2>1, MoveType DEF Unanswered
  <2>3. lost' \in 0..MaxLost
    BY <1>11, <1>0, BoundsAssumption DEF Unanswered, TypeOK
  <2>4. block' \in [Blocks -> ShowStatus]
    BY <1>11, <1>0, <2>1 DEF Unanswered, TypeOK
  <2>5. QED
    BY <1>11, <1>0, <2>2, <2>3, <2>4 DEF Unanswered, TypeOK, scores
<1>12. QED
  BY <1>1, <1>2, <1>3, <1>4, <1>5, <1>6, <1>7, <1>8, <1>9, <1>10, <1>11 DEF JudgeStep

LEMMA FinalType ==
    ASSUME Inv, NEW j \in FinalJobs, FinalStep(j) \/ FinalError(j)
    PROVE  TypeOK'
<1>0. /\ TypeOK
      /\ j \in Jobs
      /\ job[j] \in JobRows
      /\ job[j].at \in Nat
      /\ job[j].todo \subseteq Days
      /\ Days \subseteq Nat
      /\ job[j].pc \in OnDay => job[j].on \in Days
  BY MoveType, DaysAssumption DEF Inv, RunRows, FinalRow, Jobs, JobRows, Days
<1>1. CASE StartFinalizer(j)
  <2>1. "empties" \in Labels
    BY DEF Labels
  <2>2. EmptyDays(epoch) \in SUBSET Nat
    BY <1>0 DEF EmptyDays
  <2>3. [Idle EXCEPT !.pc = "empties", !.at = epoch, !.todo = EmptyDays(epoch)] \in JobRows
    BY <1>0, <2>1, <2>2, IdleType DEF TypeOK, JobRows
  <2>4. job' \in [Jobs -> JobRows]
    BY <1>0, <1>1, <2>3, MoveType DEF StartFinalizer
  <2>5. QED
    BY <1>1, <1>0, <2>4 DEF StartFinalizer, TypeOK, show, scores, bounds
<1>2. CASE CloseEmptyDay(j)
  <2>1. day' \in [Days -> ShowStatus] /\ block' \in [Blocks -> ShowStatus]
    BY <1>2, <1>0, CancelType DEF CloseEmptyDay, TypeOK
  <2>2. job' \in [Jobs -> JobRows]
    BY <1>2, <1>0 DEF CloseEmptyDay, TypeOK, JobRows
  <2>3. QED
    BY <1>2, <1>0, <2>1, <2>2 DEF CloseEmptyDay, TypeOK, scores, bounds
<1>3. CASE SelectDays(j)
  <2>1. "firstDay" \in Labels
    BY DEF Labels
  <2>2. ReadyDays(job[j].at) \in SUBSET Nat
    BY <1>0 DEF ReadyDays
  <2>3. job' \in [Jobs -> JobRows]
    BY <1>3, <1>0, <2>1, <2>2 DEF SelectDays, TypeOK, JobRows
  <2>4. QED
    BY <1>3, <1>0, <2>3 DEF SelectDays, TypeOK, show, scores, bounds
<1>4. CASE ReadDay(j)
  <2>1. "pickDay" \in Labels /\ "closeDay" \in Labels
    BY DEF Labels
  <2>2. Min(job[j].todo) \in Nat
    BY <1>4, <1>0, MinMember DEF ReadDay
  <2>3. job' \in [Jobs -> JobRows]
    <3> DEFINE d == Min(job[j].todo)
    <3>1. /\ [job[j] EXCEPT !.todo = job[j].todo \ {d}, !.pc = "pickDay"] \in JobRows
          /\ [job[j] EXCEPT !.on = d, !.pc = "closeDay"] \in JobRows
      BY <1>0, <2>1, <2>2 DEF JobRows
    <3>2. \/ job' = [job EXCEPT ![j] = [job[j] EXCEPT !.todo = job[j].todo \ {d}, !.pc = "pickDay"]]
          \/ job' = [job EXCEPT ![j] = [job[j] EXCEPT !.on = d, !.pc = "closeDay"]]
      BY <1>4, <1>0 DEF ReadDay, TypeOK
    <3>3. QED
      BY <1>0, <3>1, <3>2, MoveType
  <2>4. QED
    BY <1>4, <1>0, <2>3 DEF ReadDay, TypeOK, show, scores, bounds
<1>5. CASE EndRun(j)
  BY <1>5, <1>0, IdleType DEF EndRun, TypeOK, show, scores, bounds
<1>6. CASE CloseDay(j)
  <2>1. "count" \in Labels
    BY DEF Labels
  <2>2. day' \in [Days -> ShowStatus] /\ block' \in [Blocks -> ShowStatus]
    BY <1>6, <1>0, CancelType DEF CloseDay, TypeOK
  <2>3. job' \in [Jobs -> JobRows]
    BY <1>6, <1>0, <2>1, MoveType DEF CloseDay
  <2>4. QED
    BY <1>6, <1>0, <2>2, <2>3 DEF CloseDay, TypeOK, scores, bounds
<1>7. CASE CountBlocks(j)
  <2>1. "group" \in Labels /\ "pickDay" \in Labels
    BY DEF Labels
  <2>2. job' \in [Jobs -> JobRows]
    BY <1>7, <1>0, <2>1, MoveType DEF CountBlocks
  <2>3. QED
    BY <1>7, <1>0, <2>2 DEF CountBlocks, TypeOK, show, scores, bounds
<1>8. CASE Group(j)
  <2>1. "bis" \in Labels
    BY DEF Labels
  <2>2. job' \in [Jobs -> JobRows]
    BY <1>8, <1>0, <2>1, MoveType DEF Group
  <2>3. finals' \in [Days -> SUBSET Blocks]
    BY <1>8, <1>0 DEF Group, GroupFinals, PublishedBlocks, BlocksOf, TypeOK
  <2>4. QED
    BY <1>8, <1>0, <2>2, <2>3 DEF Group, TypeOK, show, bounds
<1>9. CASE Bis(j)
  <2>1. "readCredits" \in Labels
    BY DEF Labels
  <2>2. job' \in [Jobs -> JobRows]
    BY <1>9, <1>0, <2>1, MoveType DEF Bis
  <2>3. bis' \subseteq Days
    BY <1>9, <1>0 DEF Bis, BestInShow, OnDay, TypeOK
  <2>4. QED
    BY <1>9, <1>0, <2>2, <2>3 DEF Bis, TypeOK, show, bounds
<1>10. CASE ReadCredits(j)
  <2>1. "writeCredits" \in Labels /\ "pickDay" \in Labels
    BY DEF Labels
  <2>2. job' \in [Jobs -> JobRows]
    <3>1. CASE Unjudged(job[j].on) = {}
      <4>1. day[job[j].on] \in ShowStatus
        BY <1>10, <1>0 DEF ReadCredits, OnDay, TypeOK
      <4>2. [job[j] EXCEPT !.pc = "writeCredits", !.prior = day[job[j].on]] \in JobRows
        BY <1>0, <2>1, <4>1 DEF JobRows
      <4>3. job' = [job EXCEPT ![j] = [job[j] EXCEPT !.pc = "writeCredits",
                                                     !.prior = day[job[j].on]]]
        BY <1>10, <1>0, <3>1 DEF ReadCredits, TypeOK
      <4>4. QED
        BY <1>0, <4>2, <4>3, MoveType
    <3>2. CASE Unjudged(job[j].on) # {}
      BY <1>10, <1>0, <2>1, <3>2, MoveType DEF ReadCredits
    <3>3. QED
      BY <3>1, <3>2
  <2>3. QED
    BY <1>10, <1>0, <2>2 DEF ReadCredits, TypeOK, show, scores, bounds
<1>11. CASE WriteCredits(j)
  <2>1. "clearPrestige" \in Labels
    BY DEF Labels
  <2>2. job' \in [Jobs -> JobRows]
    BY <1>11, <1>0, <2>1, MoveType DEF WriteCredits
  <2>3. credits' \in [Days -> Nat]
    BY <1>11, <1>0 DEF WriteCredits, TypeOK
  <2>4. QED
    BY <1>11, <1>0, <2>2, <2>3 DEF WriteCredits, TypeOK, show, bounds
<1>12. CASE ClearPrestige(j)
  <2>1. "addPrestige" \in Labels
    BY DEF Labels
  <2>2. job' \in [Jobs -> JobRows]
    BY <1>12, <1>0, <2>1, MoveType DEF ClearPrestige
  <2>3. QED
    BY <1>12, <1>0, <2>2 DEF ClearPrestige, TypeOK, show, bounds
<1>13. CASE AddPrestige(j)
  <2>1. "markPrestige" \in Labels /\ "pickDay" \in Labels
    BY DEF Labels
  <2>2. job' \in [Jobs -> JobRows]
    BY <1>13, <1>0, <2>1, MoveType DEF AddPrestige
  <2>3. prestige' \subseteq Days
    BY <1>13, <1>0 DEF AddPrestige, Scored, OnDay, TypeOK
  <2>4. QED
    BY <1>13, <1>0, <2>2, <2>3 DEF AddPrestige, TypeOK, show, bounds
<1>14. CASE MarkPrestige(j)
  <2>1. "publish" \in Labels
    BY DEF Labels
  <2>2. job' \in [Jobs -> JobRows]
    BY <1>14, <1>0, <2>1, MoveType DEF MarkPrestige
  <2>3. calculated' \subseteq Days
    BY <1>14, <1>0 DEF MarkPrestige, OnDay, TypeOK
  <2>4. QED
    BY <1>14, <1>0, <2>2, <2>3 DEF MarkPrestige, TypeOK, show, bounds
<1>15. CASE Publish(j)
  <2>1. "pickDay" \in Labels /\ "RESULTS_PUBLISHED" \in ShowStatus
    BY DEF Labels, ShowStatus, Terminal
  <2>2. job' \in [Jobs -> JobRows]
    BY <1>15, <1>0, <2>1, MoveType DEF Publish
  <2>3. day' \in [Days -> ShowStatus] /\ cluster' \in {"SCHEDULED", "COMPLETE"}
    BY <1>15, <1>0, <2>1 DEF Publish, TypeOK
  <2>4. QED
    BY <1>15, <1>0, <2>2, <2>3 DEF Publish, TypeOK, scores, bounds
<1>16. CASE FinalError(j)
  <2>1. "pickDay" \in Labels
    BY DEF Labels
  <2>2. job' \in [Jobs -> JobRows]
    BY <1>16, <1>0, <2>1, MoveType DEF FinalError, AfterError
  <2>3. fails' \in 0..MaxFails
    BY <1>16, <1>0, BoundsAssumption DEF FinalError, TypeOK
  <2>4. cut' \subseteq Days
    BY <1>16, <1>0 DEF FinalError, Cuts, OnDay, TypeOK
  <2>5. QED
    BY <1>16, <1>0, <2>2, <2>3, <2>4 DEF FinalError, TypeOK, show, scores
<1>17. QED
  BY <1>1, <1>2, <1>3, <1>4, <1>5, <1>6, <1>7, <1>8, <1>9, <1>10, <1>11, <1>12, <1>13, <1>14, <1>15, <1>16
  DEF FinalStep

LEMMA CrashType ==
    ASSUME Inv, NEW j \in Jobs, Crash(j)
    PROVE  TypeOK'
<1>1. job' \in [Jobs -> JobRows]
  BY IdleType DEF Crash, Inv, TypeOK
<1>2. crashes' \in 0..MaxCrashes
  BY BoundsAssumption DEF Crash, Inv, TypeOK
<1>3. job[j].pc = "addPrestige" => job[j].on \in Days
  BY DEF Inv, RunRows, JudgeRow, FinalRow, OnDay, Jobs
<1>4. cut' \subseteq Days
  BY <1>3 DEF Crash, Cuts, Inv, TypeOK
<1>5. QED
  BY <1>1, <1>2, <1>4 DEF Crash, Inv, TypeOK, show, scores

-----------------------------------------------------------------------------
(* Where the runs stand *)

(* A step of one run leaves the others where they are.                       *)
Only(j) == \A i \in Jobs \ {j} : job'[i] = job[i]

LEMMA GotoRow ==
    ASSUME TypeOK, NEW j \in Jobs, NEW l, Goto(j, l)
    PROVE  /\ Only(j)
           /\ job'[j].pc = l
           /\ job'[j].todo = job[j].todo
           /\ job'[j].on = job[j].on
           /\ job'[j].prior = job[j].prior
<1>1. job \in [Jobs -> JobRows] /\ job[j] \in JobRows
  BY DEF TypeOK
<1>2. Only(j) /\ job'[j] = [job[j] EXCEPT !.pc = l]
  BY <1>1 DEF Goto, Only
<1>3. QED
  BY <1>1, <1>2 DEF JobRows

LEMMA NextRow ==
    ASSUME TypeOK, NEW j \in Jobs, NEW l, NextOne(j, l)
    PROVE  /\ Only(j)
           /\ job'[j].pc = l
           /\ job'[j].todo = job[j].todo \ {job[j].on}
<1>1. job \in [Jobs -> JobRows]
  BY DEF TypeOK
<1>2. Only(j) /\ job'[j] = [Idle EXCEPT !.pc = l, !.at = job[j].at,
                                        !.todo = job[j].todo \ {job[j].on}]
  BY <1>1 DEF NextOne, Only
<1>3. QED
  BY <1>2 DEF Idle

(* A run that is through holds nothing.                                      *)
LEMMA IdleRow ==
    ASSUME NEW j \in Jobs, job'[j] = Idle
    PROVE  /\ JudgeRow(j)' /\ FinalRow(j)'
           /\ job'[j].pc \notin Working
BY DEF JudgeRow, FinalRow, Idle, Working, OnDay

LEMMA JudgeRowAfter ==
    ASSUME Inv, NEW j \in JudgeJobs, JudgeStep(j) \/ JudgeError(j) \/ Unanswered(j)
    PROVE  Only(j) /\ JudgeRow(j)'
<1>0. /\ TypeOK
      /\ j \in Jobs
      /\ job \in [Jobs -> JobRows]
      /\ job[j] \in JobRows
      /\ JudgeRow(j)
      /\ job[j].todo \subseteq Blocks
      /\ Blocks \subseteq Nat
  BY BlocksAssumption DEF Inv, RunRows, JudgeRow, Jobs, TypeOK
<1> DEFINE Held == Working \cup {"claim"}
<1>a. /\ "first" \notin Held /\ "pick" \notin Held
      /\ {"prepare", "check", "write", "release", "claim"} = Held
      /\ ({"first", "pick"} \cup Held) \cap OnDay = {}
  BY DEF Working, OnDay
<1>1. CASE SelectBlocks(j)
  <2> DEFINE todo == ReadyBlocks(epoch)
                       \cap BlocksOf(Min({DayOf[b] : b \in ReadyBlocks(epoch)}))
  <2>1. todo \subseteq Blocks
    BY DEF BlocksOf
  <2> HIDE DEF todo
  <2>2. job' = [job EXCEPT ![j] = [Idle EXCEPT !.pc = "first", !.at = epoch, !.todo = todo]]
    BY <1>1 DEF SelectBlocks, todo
  <2>3. Only(j) /\ job'[j].pc = "first" /\ job'[j].todo = todo
    BY <1>0, <2>2 DEF Only, Idle
  <2>4. QED
    BY <1>a, <2>1, <2>3 DEF JudgeRow
<1>2. CASE ReadBlock(j)
  <2> DEFINE b == Min(job[j].todo)
  <2>1. b \in Blocks
    BY <1>0, <1>2, MinMember DEF ReadBlock
  <2> HIDE DEF b
  <2>2. CASE block[b] \in Terminal
    <3>1. job' = [job EXCEPT ![j] = [job[j] EXCEPT !.todo = job[j].todo \ {b}, !.pc = "pick"]]
      BY <1>0, <1>2, <2>2 DEF ReadBlock, b
    <3>2. Only(j) /\ job'[j].pc = "pick" /\ job'[j].todo = job[j].todo \ {b}
      BY <1>0, <3>1 DEF Only, JobRows
    <3>3. QED
      BY <1>0, <1>a, <3>2 DEF JudgeRow
  <2>3. CASE block[b] \notin Terminal
    <3>1. job' = [job EXCEPT ![j] = [job[j] EXCEPT !.on = b, !.prior = block[b], !.pc = "claim"]]
      BY <1>0, <1>2, <2>3 DEF ReadBlock, b
    <3>2. /\ Only(j)
          /\ job'[j].pc = "claim"
          /\ job'[j].on = b
          /\ job'[j].prior = block[b]
          /\ job'[j].todo = job[j].todo
      BY <1>0, <3>1 DEF Only, JobRows
    <3>3. QED
      BY <1>0, <1>a, <2>1, <2>3, <3>2 DEF JudgeRow
  <2>4. QED
    BY <2>2, <2>3
<1>3. CASE EndRun(j)
  <2>1. Only(j) /\ job'[j] = Idle
    BY <1>0, <1>3 DEF EndRun, Only
  <2>2. QED
    BY <1>0, <2>1, IdleRow
<1>4. CASE Claim(j)
  <2>1. CASE block[job[j].on] \in Claimable
    BY <1>0, <1>4, <1>a, <2>1, GotoRow DEF Claim, JudgeRow
  <2>2. CASE block[job[j].on] \notin Claimable
    BY <1>0, <1>4, <1>a, <2>2, NextRow DEF Claim, JudgeRow
  <2>3. QED
    BY <2>1, <2>2
<1>5. CASE Prepare(j)
  <2>1. PICK fit \in Dispositions(job[j].on) :
          job' = [job EXCEPT
                    ![j].pc = IF day[DayOf[job[j].on]] = "CANCELLED" THEN "release" ELSE "check",
                    ![j].seen = [e \in Entries |->
                                   IF e \in EntriesOf(job[j].on) THEN entry[e] ELSE "NONE"],
                    ![j].fit = fit]
    BY <1>5 DEF Prepare
  <2>2. /\ Only(j)
        /\ job'[j].pc \in {"release", "check"}
        /\ job'[j].on = job[j].on
        /\ job'[j].prior = job[j].prior
        /\ job'[j].todo = job[j].todo
    BY <1>0, <2>1 DEF Only, JobRows
  <2>3. QED
    BY <1>0, <1>5, <1>a, <2>2 DEF Prepare, JudgeRow
<1>6. CASE Check(j)
  BY <1>0, <1>6, <1>a, GotoRow DEF Check, JudgeRow
<1>7. CASE WriteCancelled(j)
  BY <1>0, <1>7, <1>a, NextRow DEF WriteCancelled, JudgeRow
<1>8. CASE WriteResults(j)
  BY <1>0, <1>8, <1>a, NextRow DEF WriteResults, JudgeRow
<1>9. CASE Release(j)
  BY <1>0, <1>9, <1>a, NextRow DEF Release, JudgeRow
<1>10. CASE JudgeError(j)
  BY <1>0, <1>10, <1>a, GotoRow DEF JudgeError, JudgeRow
<1>11. CASE Unanswered(j)
  BY <1>0, <1>11, <1>a, NextRow DEF Unanswered, JudgeRow
<1>12. QED
  BY <1>1, <1>2, <1>3, <1>4, <1>5, <1>6, <1>7, <1>8, <1>9, <1>10, <1>11 DEF JudgeStep

LEMMA FinalRowAfter ==
    ASSUME Inv, NEW j \in FinalJobs, FinalStep(j) \/ FinalError(j)
    PROVE  Only(j) /\ FinalRow(j)'
<1>0. /\ TypeOK
      /\ j \in Jobs
      /\ job \in [Jobs -> JobRows]
      /\ job[j] \in JobRows
      /\ FinalRow(j)
      /\ job[j].todo \subseteq Days
      /\ Days \subseteq Nat
  BY DaysAssumption DEF Inv, RunRows, FinalRow, Jobs, TypeOK, Days
<1>a. /\ {"empties", "firstDay", "pickDay"} \cap OnDay = {}
      /\ {"closeDay", "count", "group", "bis", "readCredits", "writeCredits",
          "clearPrestige", "addPrestige", "markPrestige", "publish"} = OnDay
  BY DEF OnDay
<1>1. CASE StartFinalizer(j)
  <2>1. EmptyDays(epoch) \subseteq Days
    BY DEF EmptyDays
  <2>2. Only(j) /\ job'[j].pc = "empties" /\ job'[j].todo = EmptyDays(epoch)
    BY <1>0, <1>1 DEF StartFinalizer, Only, Idle
  <2>3. QED
    BY <1>a, <2>1, <2>2 DEF FinalRow
<1>2. CASE CloseEmptyDay(j)
  <2>1. Only(j) /\ job'[j].pc = "empties" /\ job'[j].todo \subseteq job[j].todo
    BY <1>0, <1>2 DEF CloseEmptyDay, Only, JobRows
  <2>2. QED
    BY <1>0, <1>a, <2>1 DEF FinalRow
<1>3. CASE SelectDays(j)
  <2>1. ReadyDays(job[j].at) \subseteq Days
    BY DEF ReadyDays
  <2>2. Only(j) /\ job'[j].pc = "firstDay" /\ job'[j].todo = ReadyDays(job[j].at)
    BY <1>0, <1>3 DEF SelectDays, Only, JobRows
  <2>3. QED
    BY <1>a, <2>1, <2>2 DEF FinalRow
<1>4. CASE ReadDay(j)
  <2> DEFINE d == Min(job[j].todo)
  <2>1. d \in Days
    BY <1>0, <1>4, MinMember DEF ReadDay
  <2> HIDE DEF d
  <2>2. CASE day[d] = "CANCELLED"
    <3>1. job' = [job EXCEPT ![j] = [job[j] EXCEPT !.todo = job[j].todo \ {d}, !.pc = "pickDay"]]
      BY <1>0, <1>4, <2>2 DEF ReadDay, d
    <3>2. Only(j) /\ job'[j].pc = "pickDay" /\ job'[j].todo = job[j].todo \ {d}
      BY <1>0, <3>1 DEF Only, JobRows
    <3>3. QED
      BY <1>0, <1>a, <3>2 DEF FinalRow
  <2>3. CASE day[d] # "CANCELLED"
    <3>1. job' = [job EXCEPT ![j] = [job[j] EXCEPT !.on = d, !.pc = "closeDay"]]
      BY <1>0, <1>4, <2>3 DEF ReadDay, d
    <3>2. Only(j) /\ job'[j].on = d /\ job'[j].todo = job[j].todo
      BY <1>0, <3>1 DEF Only, JobRows
    <3>3. QED
      BY <1>0, <2>1, <3>2 DEF FinalRow
  <2>4. QED
    BY <2>2, <2>3
<1>5. CASE EndRun(j)
  <2>1. Only(j) /\ job'[j] = Idle
    BY <1>0, <1>5 DEF EndRun, Only
  <2>2. QED
    BY <1>0, <2>1, IdleRow
<1>6. CASE CloseDay(j)
  BY <1>0, <1>6, <1>a, GotoRow DEF CloseDay, FinalRow
<1>7. CASE CountBlocks(j)
  <2>1. CASE Goto(j, "group")
    BY <1>0, <1>7, <1>a, <2>1, GotoRow DEF CountBlocks, FinalRow
  <2>2. CASE NextOne(j, "pickDay")
    BY <1>0, <1>a, <2>2, NextRow DEF FinalRow
  <2>3. QED
    BY <1>7, <2>1, <2>2 DEF CountBlocks
<1>8. CASE Group(j)
  BY <1>0, <1>8, <1>a, GotoRow DEF Group, FinalRow
<1>9. CASE Bis(j)
  BY <1>0, <1>9, <1>a, GotoRow DEF Bis, FinalRow
<1>10. CASE ReadCredits(j)
  <2>1. CASE Unjudged(job[j].on) = {}
    <3>1. job[j].on \in Days
      BY <1>0, <1>10, <1>a DEF ReadCredits, FinalRow
    <3>2. job' = [job EXCEPT ![j] = [job[j] EXCEPT !.pc = "writeCredits",
                                                   !.prior = day[job[j].on]]]
      BY <1>0, <1>10, <2>1 DEF ReadCredits
    <3>3. Only(j) /\ job'[j].on = job[j].on /\ job'[j].todo = job[j].todo
      BY <1>0, <3>2 DEF Only, JobRows
    <3>4. QED
      BY <1>0, <3>1, <3>3 DEF FinalRow
  <2>2. CASE Unjudged(job[j].on) # {}
    BY <1>0, <1>10, <1>a, <2>2, NextRow DEF ReadCredits, FinalRow
  <2>3. QED
    BY <2>1, <2>2
<1>11. CASE WriteCredits(j)
  BY <1>0, <1>11, <1>a, GotoRow DEF WriteCredits, FinalRow
<1>12. CASE ClearPrestige(j)
  BY <1>0, <1>12, <1>a, GotoRow DEF ClearPrestige, FinalRow
<1>13. CASE AddPrestige(j)
  <2>1. CASE Goto(j, "markPrestige")
    BY <1>0, <1>13, <1>a, <2>1, GotoRow DEF AddPrestige, FinalRow
  <2>2. CASE NextOne(j, "pickDay")
    BY <1>0, <1>a, <2>2, NextRow DEF FinalRow
  <2>3. QED
    BY <1>13, <2>1, <2>2 DEF AddPrestige
<1>14. CASE MarkPrestige(j)
  BY <1>0, <1>14, <1>a, GotoRow DEF MarkPrestige, FinalRow
<1>15. CASE Publish(j)
  BY <1>0, <1>15, <1>a, NextRow DEF Publish, FinalRow
<1>16. CASE FinalError(j)
  BY <1>0, <1>16, <1>a, NextRow DEF FinalError, AfterError, FinalRow
<1>17. QED
  BY <1>1, <1>2, <1>3, <1>4, <1>5, <1>6, <1>7, <1>8, <1>9, <1>10, <1>11, <1>12, <1>13, <1>14, <1>15, <1>16
  DEF FinalStep

LEMMA RowsAfter ==
    ASSUME Inv, Next
    PROVE  RunRows'
<1>1. RunRows /\ JudgeJobs \cap FinalJobs = {}
  BY JobsAssumption DEF Inv
<1>2. ASSUME job' = job
      PROVE  RunRows'
  BY <1>1, <1>2 DEF RunRows, JudgeRow, FinalRow
<1>3. ASSUME NEW j \in Jobs, Only(j),
             j \in JudgeJobs => JudgeRow(j)', j \in FinalJobs => FinalRow(j)'
      PROVE  RunRows'
  BY <1>1, <1>3 DEF RunRows, JudgeRow, FinalRow, Only, Jobs
<1>4. CASE Tick \/ \E e \in Entries : EntryStep(e)
  BY <1>2, <1>4 DEF Tick, EntryStep, Enter, CommitEntry, Pull, CommitPull, Disqualify
<1>5. ASSUME NEW j \in JudgeJobs, JudgeStep(j) \/ JudgeError(j) \/ Unanswered(j)
      PROVE  RunRows'
  <2>1. j \in Jobs /\ j \notin FinalJobs
    BY <1>1 DEF Jobs
  <2>2. Only(j) /\ JudgeRow(j)'
    BY <1>5, JudgeRowAfter
  <2>3. QED
    BY <1>3, <2>1, <2>2
<1>6. ASSUME NEW j \in FinalJobs, FinalStep(j) \/ FinalError(j)
      PROVE  RunRows'
  <2>1. j \in Jobs /\ j \notin JudgeJobs
    BY <1>1 DEF Jobs
  <2>2. Only(j) /\ FinalRow(j)'
    BY <1>6, FinalRowAfter
  <2>3. QED
    BY <1>3, <2>1, <2>2
<1>7. ASSUME NEW j \in Jobs, Crash(j)
      PROVE  RunRows'
  <2>1. Only(j) /\ job'[j] = Idle
    BY <1>7 DEF Crash, Only, Inv, TypeOK
  <2>2. QED
    BY <1>3, <2>1, IdleRow
<1>8. QED
  BY <1>4, <1>5, <1>6, <1>7 DEF Next

-----------------------------------------------------------------------------
(* One claim, one judging *)

(* What claims nothing and at most cancels undecided blocks is harmless.     *)
CancelsOnly ==
    /\ \A b \in Blocks : \/ block'[b] = block[b]
                         \/ block[b] \notin Terminal /\ block'[b] = "CANCELLED"
    /\ breedAwards' = breedAwards

LEMMA NoNewClaim ==
    ASSUME OneClaim, CancelsOnly,
           \A i \in JudgeJobs : \A b \in Blocks : Holds(i, b)' => Holds(i, b)
    PROVE  OneClaim'
<1>1. OneHolder'
  BY DEF OneClaim, OneHolder
<1>2. HeldIsClaimed'
  BY DEF OneClaim, HeldIsClaimed, CancelsOnly
<1>3. JudgedOnce'
  BY DEF OneClaim, JudgedOnce, CancelsOnly, Terminal
<1>4. QED
  BY <1>1, <1>2, <1>3 DEF OneClaim

LEMMA HoldsOnly ==
    ASSUME NEW j \in JudgeJobs, Only(j), job'[j].pc \notin Working
    PROVE  \A i \in JudgeJobs : \A b \in Blocks :
              /\ Holds(i, b)' => Holds(i, b)
              /\ Holds(i, b)' => i # j
BY DEF Holds, Only, Jobs

LEMMA JudgeClaim ==
    ASSUME Inv, NEW j \in JudgeJobs, JudgeStep(j) \/ JudgeError(j) \/ Unanswered(j)
    PROVE  OneClaim'
<1>0. /\ TypeOK
      /\ OneClaim
      /\ j \in Jobs
      /\ job \in [Jobs -> JobRows]
      /\ job[j] \in JobRows
      /\ JudgeRow(j)
      /\ Only(j)
      /\ block \in [Blocks -> ShowStatus]
      /\ breedAwards \in [Blocks -> Nat]
  BY JudgeRowAfter DEF Inv, RunRows, Jobs, TypeOK
<1>a. /\ {"first", "pick", "claim", "idle"} \cap Working = {}
      /\ {"prepare", "check", "write", "release"} = Working
      /\ Terminal = {"RESULTS_PUBLISHED", "CANCELLED"}
      /\ Claimable \cap {"JUDGING", "CANCELLED", "RESULTS_PUBLISHED"} = {}
  BY DEF Working, Terminal, Claimable, Open
<1>b. ASSUME block' = block, breedAwards' = breedAwards
      PROVE  CancelsOnly
  BY <1>b DEF CancelsOnly
<1>c. ASSUME job'[j].pc \in Working => job[j].pc \in Working /\ job'[j].on = job[j].on
      PROVE  \A i \in JudgeJobs : \A b \in Blocks : Holds(i, b)' => Holds(i, b)
  BY <1>0, <1>c DEF Holds, Only, Jobs
<1>1. CASE SelectBlocks(j)
  <2>1. job'[j].pc = "first"
    BY <1>0, <1>1 DEF SelectBlocks, Idle
  <2>2. QED
    BY <1>0, <1>1, <1>a, <1>b, <1>c, <2>1, NoNewClaim DEF SelectBlocks, show, scores
<1>2. CASE ReadBlock(j)
  <2>1. job'[j].pc \in {"pick", "claim"}
    BY <1>0, <1>2 DEF ReadBlock, JobRows
  <2>2. QED
    BY <1>0, <1>2, <1>a, <1>b, <1>c, <2>1, NoNewClaim DEF ReadBlock, show, scores
<1>3. CASE EndRun(j)
  <2>1. job'[j].pc = "idle"
    BY <1>0, <1>3 DEF EndRun, Idle
  <2>2. QED
    BY <1>0, <1>3, <1>a, <1>b, <1>c, <2>1, NoNewClaim DEF EndRun, show, scores
<1>4. CASE Claim(j)
  <2>1. CASE block[job[j].on] \notin Claimable
    <3>1. job'[j].pc = "pick" /\ block' = block /\ breedAwards' = breedAwards
      BY <1>0, <1>4, <2>1, NextRow DEF Claim, scores
    <3>2. QED
      BY <1>0, <1>a, <1>b, <1>c, <3>1, NoNewClaim
  <2>2. CASE block[job[j].on] \in Claimable
    <3> DEFINE b == job[j].on
    <3>1. b \in Blocks
      BY <1>0, <1>4 DEF Claim, JudgeRow
    <3>2. /\ job'[j].pc = "prepare" /\ job'[j].on = b
          /\ block' = [block EXCEPT ![b] = "JUDGING"]
          /\ breedAwards' = breedAwards
      BY <1>0, <1>4, <2>2, GotoRow DEF Claim, scores
    <3>3. \A i \in JudgeJobs : ~Holds(i, b)
      BY <1>0, <1>a, <2>2, <3>1 DEF OneClaim, HeldIsClaimed
    <3>4. \A i \in JudgeJobs : \A c \in Blocks :
             Holds(i, c)' => IF i = j THEN c = b ELSE Holds(i, c) /\ c # b
      BY <1>0, <3>2, <3>3 DEF Holds, Only, Jobs
    <3> HIDE DEF b
    <3>5. OneHolder'
      BY <1>0, <3>4 DEF OneClaim, OneHolder
    <3>6. HeldIsClaimed'
      BY <1>0, <3>1, <3>2, <3>4 DEF OneClaim, HeldIsClaimed
    <3>7. JudgedOnce'
      BY <1>0, <1>a, <2>2, <3>1, <3>2 DEF OneClaim, JudgedOnce, b
    <3>8. QED
      BY <3>5, <3>6, <3>7 DEF OneClaim
  <2>3. QED
    BY <2>1, <2>2
<1>5. CASE Prepare(j)
  <2>1. PICK fit \in Dispositions(job[j].on) :
          job' = [job EXCEPT
                    ![j].pc = IF day[DayOf[job[j].on]] = "CANCELLED" THEN "release" ELSE "check",
                    ![j].seen = [e \in Entries |->
                                   IF e \in EntriesOf(job[j].on) THEN entry[e] ELSE "NONE"],
                    ![j].fit = fit]
    BY <1>5 DEF Prepare
  <2>2. job'[j].on = job[j].on /\ job[j].pc \in Working
    BY <1>0, <1>5, <1>a, <2>1 DEF Prepare, JobRows
  <2>3. QED
    BY <1>0, <1>5, <1>b, <1>c, <2>2, NoNewClaim DEF Prepare, show, scores
<1>6. CASE Check(j)
  <2>1. job'[j].on = job[j].on /\ job[j].pc \in Working
    BY <1>0, <1>6, <1>a, GotoRow DEF Check
  <2>2. QED
    BY <1>0, <1>6, <1>b, <1>c, <2>1, NoNewClaim DEF Check, show, scores
<1>7. CASE JudgeError(j)
  <2>1. job'[j].on = job[j].on /\ job[j].pc \in Working
    BY <1>0, <1>7, <1>a, GotoRow DEF JudgeError
  <2>2. QED
    BY <1>0, <1>7, <1>b, <1>c, <2>1, NoNewClaim DEF JudgeError, show, scores
<1>8. CASE WriteCancelled(j)
  <2> DEFINE b == job[j].on
  <2>1. b \in Blocks /\ Holds(j, b)
    BY <1>0, <1>8, <1>a DEF WriteCancelled, JudgeRow, Holds
  <2>2. block[b] \in {"JUDGING", "CANCELLED"}
    BY <1>0, <2>1 DEF OneClaim, HeldIsClaimed
  <2>3. PICK d, at, ent, dy :
          /\ dy \in [Days -> ShowStatus]
          /\ CancelEmpty(d, at, ent, dy, [block EXCEPT ![b] = "CANCELLED"])
    <3>1. "JUDGING" \in ShowStatus
      BY DEF ShowStatus
    <3>2. (IF Entered(j) = {} THEN day ELSE [day EXCEPT ![DayOf[b]] = "JUDGING"])
             \in [Days -> ShowStatus]
      BY <1>0, <3>1 DEF TypeOK
    <3>3. QED
      BY <1>8, <3>2 DEF WriteCancelled, Judging
  <2>4. [block EXCEPT ![b] = "CANCELLED"] \in [Blocks -> ShowStatus]
    BY <1>0 DEF ShowStatus, Terminal
  <2>5. \A c \in Blocks :
           \/ block'[c] = [block EXCEPT ![b] = "CANCELLED"][c]
           \/ /\ [block EXCEPT ![b] = "CANCELLED"][c] \notin Terminal
              /\ block'[c] = "CANCELLED"
    <3> DEFINE blk == [block EXCEPT ![b] = "CANCELLED"]
    <3>1. blk \in [Blocks -> ShowStatus] /\ CancelEmpty(d, at, ent, dy, blk)
      BY <2>3, <2>4
    <3> HIDE DEF blk
    <3>2. \A c \in Blocks : \/ block'[c] = blk[c]
                            \/ blk[c] \notin Terminal /\ block'[c] = "CANCELLED"
      BY <2>3, <3>1, CancelType
    <3>3. QED
      BY <3>2 DEF blk
  <2>6. CancelsOnly
    BY <1>0, <1>8, <1>a, <2>1, <2>2, <2>5 DEF CancelsOnly, WriteCancelled, Judging, scores
  <2>7. job'[j].pc = "pick"
    BY <1>0, <1>8, NextRow DEF WriteCancelled
  <2>8. QED
    BY <1>0, <1>a, <1>c, <2>6, <2>7, NoNewClaim
<1>9. CASE WriteResults(j)
  <2> DEFINE b == job[j].on
  <2>1. b \in Blocks /\ Holds(j, b)
    BY <1>0, <1>9, <1>a DEF WriteResults, JudgeRow, Holds
  <2>2. block[b] \in {"JUDGING", "CANCELLED"}
    BY <1>0, <2>1 DEF OneClaim, HeldIsClaimed
  <2>3. job'[j].pc \notin Working
    BY <1>0, <1>9, <1>a, NextRow DEF WriteResults
  <2>4. \A i \in JudgeJobs : \A c \in Blocks : Holds(i, c)' => Holds(i, c) /\ c # b
    BY <1>0, <2>1, <2>3, HoldsOnly DEF OneClaim, OneHolder
  <2>5. /\ block' = [block EXCEPT ![b] = "RESULTS_PUBLISHED"]
        /\ breedAwards' = [breedAwards EXCEPT ![b] = breedAwards[b] + 1]
    BY <1>9 DEF WriteResults
  <2> HIDE DEF b
  <2>6. OneHolder'
    BY <1>0, <2>4 DEF OneClaim, OneHolder
  <2>7. HeldIsClaimed'
    BY <1>0, <2>1, <2>4, <2>5 DEF OneClaim, HeldIsClaimed
  <2>8. JudgedOnce'
    <3>1. breedAwards[b] = 0
      BY <1>0, <2>1, <2>2 DEF OneClaim, JudgedOnce
    <3>2. QED
      BY <1>0, <2>1, <2>5, <3>1 DEF OneClaim, JudgedOnce
  <2>9. QED
    BY <2>6, <2>7, <2>8 DEF OneClaim
<1>10. CASE Release(j)
  <2> DEFINE b == job[j].on
  <2>1. b \in Blocks /\ Holds(j, b) /\ job[j].prior \notin Terminal
    BY <1>0, <1>10, <1>a DEF Release, JudgeRow, Holds
  <2>2. block[b] \in {"JUDGING", "CANCELLED"}
    BY <1>0, <2>1 DEF OneClaim, HeldIsClaimed
  <2>3. job'[j].pc \notin Working
    BY <1>0, <1>10, <1>a, NextRow DEF Release
  <2>4. \A i \in JudgeJobs : \A c \in Blocks : Holds(i, c)' => Holds(i, c) /\ c # b
    BY <1>0, <2>1, <2>3, HoldsOnly DEF OneClaim, OneHolder
  <2>5. /\ block' = [block EXCEPT ![b] = Released(j)]
        /\ breedAwards' = breedAwards
    BY <1>10 DEF Release, scores
  <2>6. Released(j) # "RESULTS_PUBLISHED"
    BY <1>a, <2>1, <2>2 DEF Released
  <2> HIDE DEF b
  <2>7. OneHolder'
    BY <1>0, <2>4 DEF OneClaim, OneHolder
  <2>8. HeldIsClaimed'
    BY <1>0, <2>1, <2>4, <2>5 DEF OneClaim, HeldIsClaimed
  <2>9. JudgedOnce'
    <3>1. block[b] # "RESULTS_PUBLISHED"
      BY <2>2
    <3>2. QED
      BY <1>0, <2>1, <2>5, <2>6, <3>1 DEF OneClaim, JudgedOnce
  <2>10. QED
    BY <2>7, <2>8, <2>9 DEF OneClaim
<1>11. CASE Unanswered(j)
  <2> DEFINE b == job[j].on
  <2>1. job'[j].pc = "pick" /\ breedAwards' = breedAwards
    BY <1>0, <1>11, NextRow DEF Unanswered, scores
  <2>2. CASE block' = block
    BY <1>0, <1>a, <1>b, <1>c, <2>1, <2>2, NoNewClaim
  <2>3. CASE /\ job[j].pc = "claim" /\ block[b] \in Claimable
             /\ block' = [block EXCEPT ![b] = "JUDGING"]
    <3>1. b \in Blocks
      BY <1>0, <2>3 DEF JudgeRow
    <3>2. \A i \in JudgeJobs : \A c \in Blocks : Holds(i, c)' => Holds(i, c)
      BY <1>0, <1>a, <1>c, <2>1
    <3> HIDE DEF b
    <3>3. OneHolder'
      BY <1>0, <3>2 DEF OneClaim, OneHolder
    <3>4. HeldIsClaimed'
      BY <1>0, <2>3, <3>1, <3>2 DEF OneClaim, HeldIsClaimed
    <3>5. JudgedOnce'
      BY <1>0, <1>a, <2>1, <2>3, <3>1 DEF OneClaim, JudgedOnce
    <3>6. QED
      BY <3>3, <3>4, <3>5 DEF OneClaim
  <2>4. QED
    BY <1>11, <2>2, <2>3 DEF Unanswered
<1>12. QED
  BY <1>1, <1>2, <1>3, <1>4, <1>5, <1>6, <1>7, <1>8, <1>9, <1>10, <1>11 DEF JudgeStep

LEMMA OtherClaim ==
    ASSUME Inv, [Next]_vars,
           \A j \in JudgeJobs : ~(JudgeStep(j) \/ JudgeError(j) \/ Unanswered(j))
    PROVE  OneClaim'
<1>0. /\ TypeOK
      /\ OneClaim
      /\ JudgeJobs \cap FinalJobs = {}
      /\ JudgeJobs \subseteq Jobs
  BY JobsAssumption DEF Inv, Jobs
<1>1. ASSUME CancelsOnly, \A i \in JudgeJobs : job'[i] = job[i]
      PROVE  OneClaim'
  BY <1>0, <1>1, NoNewClaim DEF Holds
<1>2. ASSUME block' = block, breedAwards' = breedAwards, \A i \in JudgeJobs : job'[i] = job[i]
      PROVE  OneClaim'
  BY <1>1, <1>2 DEF CancelsOnly
<1>3. CASE Tick
  BY <1>2, <1>3 DEF Tick, show, scores
<1>4. ASSUME NEW e \in Entries, EntryStep(e)
      PROVE  OneClaim'
  BY <1>2, <1>4 DEF EntryStep, Enter, CommitEntry, Pull, CommitPull, Disqualify, scores
<1>5. ASSUME NEW j \in FinalJobs, FinalStep(j) \/ FinalError(j)
      PROVE  OneClaim'
  <2>1. \A i \in JudgeJobs : job'[i] = job[i]
    BY <1>0, <1>5, FinalRowAfter DEF Only
  <2>2. ASSUME NEW d, NEW at, CancelEmpty(d, at, entry, day, block),
               breedAwards' = breedAwards
        PROVE  CancelsOnly
    <3>1. day \in [Days -> ShowStatus] /\ block \in [Blocks -> ShowStatus]
      BY <1>0 DEF TypeOK
    <3>2. \A b \in Blocks : \/ block'[b] = block[b]
                            \/ block[b] \notin Terminal /\ block'[b] = "CANCELLED"
      BY <2>2, <3>1, CancelType
    <3>3. QED
      BY <2>2, <3>2 DEF CancelsOnly
  <2>3. CASE CloseEmptyDay(j) \/ CloseDay(j)
    BY <1>1, <2>1, <2>2, <2>3 DEF CloseEmptyDay, CloseDay, scores
  <2>4. CASE ~(CloseEmptyDay(j) \/ CloseDay(j))
    <3>1. block' = block /\ breedAwards' = breedAwards
      BY <1>5, <2>4
      DEF FinalStep, FinalError, StartFinalizer, SelectDays, ReadDay, EndRun, CountBlocks,
          Group, Bis, ReadCredits, WriteCredits, ClearPrestige, AddPrestige, MarkPrestige,
          Publish, show, scores
    <3>2. QED
      BY <1>2, <2>1, <3>1
  <2>5. QED
    BY <2>3, <2>4
<1>6. ASSUME NEW j \in Jobs, Crash(j)
      PROVE  OneClaim'
  <2>1. job'[j].pc \notin Working /\ Only(j)
    BY <1>0, <1>6 DEF Crash, Only, Idle, Working, TypeOK
  <2>2. \A i \in JudgeJobs : \A b \in Blocks : Holds(i, b)' => Holds(i, b)
    BY <1>0, <2>1 DEF Holds, Only
  <2>3. CancelsOnly
    BY <1>6 DEF Crash, CancelsOnly, show, scores
  <2>4. QED
    BY <1>0, <2>2, <2>3, NoNewClaim
<1>7. CASE UNCHANGED vars
  BY <1>2, <1>7 DEF vars, show, scores
<1>8. QED
  BY <1>3, <1>4, <1>5, <1>6, <1>7 DEF Next

-----------------------------------------------------------------------------
(* Theorems *)

LEMMA NextInv == Inv /\ [Next]_vars => Inv'
<1> SUFFICES ASSUME Inv, [Next]_vars
             PROVE  Inv'
  OBVIOUS
<1>1. TypeOK'
  <2>1. CASE Next
    BY <2>1, RequestType, JudgeType, FinalType, CrashType DEF Next, Inv
  <2>2. CASE UNCHANGED vars
    BY <2>2 DEF vars, show, scores, bounds, Inv, TypeOK
  <2>3. QED
    BY <2>1, <2>2
<1>2. RunRows'
  <2>1. CASE Next
    BY <2>1, RowsAfter
  <2>2. CASE UNCHANGED vars
    BY <2>2 DEF vars, Inv, RunRows, JudgeRow, FinalRow
  <2>3. QED
    BY <2>1, <2>2
<1>3. OneClaim'
  BY JudgeClaim, OtherClaim
<1>4. QED
  BY <1>1, <1>2, <1>3 DEF Inv

LEMMA Invariance == Spec => []Inv
BY InitInv, NextInv, PTL DEF Spec

(* Every variable keeps its type.                                            *)
THEOREM TypeCorrect == Spec => []TypeOK
<1>1. Inv => TypeOK
  BY DEF Inv
<1>2. QED
  BY <1>1, Invariance, PTL

(* A block is judged at most once, however many runs of the cron route       *)
(* overlap, fail or are killed: awards are written only under the claim.     *)
THEOREM BlockJudgedOnce == Spec => []JudgedOnce
<1>1. Inv => JudgedOnce
  BY DEF Inv, OneClaim
<1>2. QED
  BY <1>1, Invariance, PTL
=============================================================================
