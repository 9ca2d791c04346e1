-------------------------- MODULE ShowFinalsProofs --------------------------
(* Proofs about what a show cluster comes to, for any days, blocks, entries, *)
(* runs, errors and kills: no entry is left waiting, finals see every breed, *)
(* a closed day is what its status says, and stays so.                       *)
EXTENDS ShowJudgingProofs

-----------------------------------------------------------------------------
(* The inductive invariant, in three layers                                  *)

Holding == Working \cup {"claim"}
Seeking == {"firstDay", "pickDay"}

(* First, with no assumption: what is due.  An open request to enter is of   *)
(* the hour before the entries closed.                                       *)
RequestFits(e) ==
    LET r == request[e]
    IN  /\ r.kind = "enter" => r.at = 0 /\ epoch <= 1
        /\ r.kind = "pull" => r.at < DueAt(DayOf[BlockOf[e]]) /\ (Prompt => r.at = epoch)

(* A run judges blocks that are due and have entries, and knows of every     *)
(* entry that is still to be judged.                                         *)
JudgeFits(j) ==
    LET x == job[j]
    IN  /\ x.at <= epoch
        /\ \A b \in x.todo : x.at >= DueAt(DayOf[b]) /\ HasEntries(b)
        /\ x.pc \in Holding => x.at >= DueAt(DayOf[x.on]) /\ HasEntries(x.on)
        /\ x.pc \in {"check", "write"} =>
              /\ \A e \in x.fit : x.seen[e] = "ENTERED" /\ entry[e] # "NONE"
              /\ \A e \in Entries : x.seen[e] = "ENTERED" => BlockOf[e] = x.on
              /\ \A e \in EntriesOf(x.on) : entry[e] = "ENTERED" => x.seen[e] = "ENTERED"

(* Nothing is decided before it is due; results and published blocks go      *)
(* together, and a decided block leaves no entry waiting.                    *)
BlockFits(b) ==
    /\ block[b] # "SCHEDULED" => epoch >= DueAt(DayOf[b])
    /\ block[b] = "RESULTS_PUBLISHED" => EntriesOf(b) \cap results # {}
    /\ \A e \in EntriesOf(b) :
          /\ entry[e] = "JUDGED" \/ e \in results => block[b] = "RESULTS_PUBLISHED"
          /\ block[b] \in Terminal => entry[e] # "ENTERED"

Due ==
    /\ \A e \in Entries : RequestFits(e)
    /\ \A j \in JudgeJobs : JudgeFits(j)
    /\ \A b \in Blocks : BlockFits(b)
    /\ \A j \in FinalJobs : job[j].at <= epoch

(* Second, when no entry is withdrawn under the hands of the run that writes *)
(* its results: what it compared still holds ...                             *)
Calm == Prompt /\ ~LateDeaths

WriterFits(j) ==
    job[j].pc = "write" => \A e \in EntriesOf(job[j].on) : entry[e] = job[j].seen[e]

(* ... a day is what its status says, and has results once all its breeds    *)
(* are judged ...                                                            *)
Shown(d) == \E b \in BlocksOf(d) : HasEntries(b)

DayFits(d) ==
    /\ day[d] = "CANCELLED" =>
          Remaining(d, entry) = {} /\ \A b \in BlocksOf(d) : block[b] = "CANCELLED"
    /\ Shown(d) /\ Unjudged(d) = {} => PublishedBlocks(d) # {} \/ day[d] = "CANCELLED"
    /\ finals[d] # {} => Unjudged(d) = {} /\ finals[d] = PublishedBlocks(d)
    /\ day[d] = "RESULTS_PUBLISHED" =>
          /\ Unjudged(d) = {} /\ PublishedBlocks(d) # {}
          /\ finals[d] # {} /\ d \in bis /\ credits[d] # 0 /\ d \in calculated

(* ... and a finalizer has done on its day what its phase comes after.       *)
Phases == OnDay \ {"closeDay", "count"}

PhaseFits(j) ==
    LET x == job[j]
        d == job[j].on
    IN  /\ x.pc \in Seeking \cup OnDay => \A c \in x.todo : x.at >= DueAt(c) /\ Shown(c)
        /\ x.pc \in OnDay => x.at >= DueAt(d) /\ Shown(d)
        /\ x.pc \in Phases => Unjudged(d) = {}
        /\ x.pc \in Phases /\ PublishedBlocks(d) # {} =>
              /\ x.pc # "group" => finals[d] # {}
              /\ x.pc \notin {"group", "bis"} => d \in bis
              /\ x.pc = "writeCredits" /\ x.prior = "RESULTS_PUBLISHED" => credits[d] # 0
              /\ x.pc \notin {"group", "bis", "readCredits", "writeCredits"} => credits[d] # 0

Settled ==
    /\ \A j \in JudgeJobs : WriterFits(j)
    /\ \A d \in Days : DayFits(d)
    /\ \A j \in FinalJobs : PhaseFits(j)
    /\ CompleteClusterIsSettled

-----------------------------------------------------------------------------
(* How a run moves                                                           *)

LEMMA GotoAll ==
    ASSUME TypeOK, NEW j \in Jobs, NEW l, Goto(j, l)
    PROVE  /\ Only(j)
           /\ job'[j].pc = l /\ job'[j].at = job[j].at /\ job'[j].todo = job[j].todo
           /\ job'[j].on = job[j].on /\ job'[j].prior = job[j].prior
           /\ job'[j].seen = job[j].seen /\ job'[j].fit = job[j].fit
<1>1. job \in [Jobs -> JobRows] /\ job[j] \in JobRows
  BY DEF TypeOK
<1>2. Only(j) /\ job'[j] = [job[j] EXCEPT !.pc = l]
  BY <1>1 DEF Goto, Only
<1>3. QED
  BY <1>1, <1>2 DEF JobRows

LEMMA NextAll ==
    ASSUME TypeOK, NEW j \in Jobs, NEW l, NextOne(j, l)
    PROVE  /\ Only(j)
           /\ job'[j].pc = l /\ job'[j].at = job[j].at
           /\ job'[j].todo = job[j].todo \ {job[j].on}
<1>1. job \in [Jobs -> JobRows]
  BY DEF TypeOK
<1>2. Only(j) /\ job'[j] = [Idle EXCEPT !.pc = l, !.at = job[j].at,
                                        !.todo = job[j].todo \ {job[j].on}]
  BY <1>1 DEF NextOne, Only
<1>3. QED
  BY <1>2 DEF Idle

(* A judging run begins, passes over a block, takes one, works on it, ends.  *)
JudgeTurn(j) ==
    LET x == job[j]
        y == job'[j]
    IN  \/ y.pc = "idle" /\ y.at = 0 /\ y.todo = {}
        \/ y.pc = "first" /\ y.at = epoch /\ y.todo \subseteq ReadyBlocks(epoch)
        \/ y.pc = "pick" /\ y.at = x.at /\ y.todo \subseteq x.todo
        \/ /\ y.pc = "claim" /\ y.at = x.at /\ y.todo = x.todo
           /\ x.pc \in {"first", "pick"} /\ y.on \in x.todo
           /\ y.prior = block[y.on]
        \/ /\ x.pc \in Holding /\ y.pc \in Working
           /\ y.at = x.at /\ y.todo = x.todo /\ y.on = x.on /\ y.prior = x.prior
           /\ y.pc = "check" =>
                 /\ y.seen = [e \in Entries |-> IF e \in EntriesOf(x.on) THEN entry[e] ELSE "NONE"]
                 /\ y.fit \subseteq {e \in EntriesOf(x.on) : entry[e] = "ENTERED"}
           /\ y.pc = "write" =>
                 x.pc = "check" /\ Current(j) /\ y.seen = x.seen /\ y.fit = x.fit

LEMMA JudgeTurns ==
    ASSUME Inv, NEW j \in JudgeJobs, JudgeStep(j) \/ JudgeError(j) \/ Unanswered(j)
    PROVE  Only(j) /\ JudgeTurn(j)
<1>0. /\ TypeOK /\ j \in Jobs
      /\ job \in [Jobs -> JobRows] /\ job[j] \in JobRows
      /\ job[j].todo \subseteq Blocks /\ Blocks \subseteq Nat
  BY BlocksAssumption DEF Inv, RunRows, JudgeRow, Jobs, TypeOK
<1>a. Working = {"prepare", "check", "write", "release"} /\ Holding = Working \cup {"claim"}
  BY DEF Working, Holding
<1>1. CASE SelectBlocks(j)
  <2> DEFINE todo == ReadyBlocks(epoch)
                       \cap BlocksOf(Min({DayOf[b] : b \in ReadyBlocks(epoch)}))
  <2>1. todo \subseteq ReadyBlocks(epoch)
    OBVIOUS
  <2> HIDE DEF todo
  <2>2. job' = [job EXCEPT ![j] = [Idle EXCEPT !.pc = "first", !.at = epoch, !.todo = todo]]
    BY <1>1 DEF SelectBlocks, todo
  <2>3. Only(j) /\ job'[j].pc = "first" /\ job'[j].at = epoch /\ job'[j].todo = todo
    BY <1>0, <2>2 DEF Only, Idle
  <2>4. QED
    BY <2>1, <2>3 DEF JudgeTurn
<1>2. CASE ReadBlock(j)
  <2> DEFINE b == Min(job[j].todo)
  <2>1. b \in job[j].todo
    BY <1>0, <1>2, MinMember DEF ReadBlock
  <2> HIDE DEF b
  <2>2. CASE block[b] \in Terminal
    <3>1. job' = [job EXCEPT ![j] = [job[j] EXCEPT !.todo = job[j].todo \ {b}, !.pc = "pick"]]
      BY <1>0, <1>2, <2>2 DEF ReadBlock, b
    <3>2. /\ Only(j) /\ job'[j].pc = "pick" /\ job'[j].at = job[j].at
          /\ job'[j].todo = job[j].todo \ {b}
      BY <1>0, <3>1 DEF Only, JobRows
    <3>3. QED
      BY <3>2 DEF JudgeTurn
  <2>3. CASE block[b] \notin Terminal
    <3>1. job' = [job EXCEPT ![j] = [job[j] EXCEPT !.on = b, !.prior = block[b], !.pc = "claim"]]
      BY <1>0, <1>2, <2>3 DEF ReadBlock, b
    <3>2. /\ Only(j) /\ job'[j].pc = "claim" /\ job'[j].at = job[j].at
          /\ job'[j].on = b /\ job'[j].prior = block[b] /\ job'[j].todo = job[j].todo
      BY <1>0, <3>1 DEF Only, JobRows
    <3>3. job[j].pc \in {"first", "pick"}
      BY <1>2 DEF ReadBlock
    <3>4. QED
      BY <2>1, <3>2, <3>3 DEF JudgeTurn
  <2>4. QED
    BY <2>2, <2>3
<1>3. CASE EndRun(j)
  <2>1. Only(j) /\ job'[j] = Idle
    BY <1>0, <1>3 DEF EndRun, Only
  <2>2. QED
    BY <2>1 DEF JudgeTurn, Idle
<1>4. CASE Claim(j)
  <2>1. CASE block[job[j].on] \in Claimable
    BY <1>0, <1>4, <1>a, <2>1, GotoAll DEF Claim, JudgeTurn
  <2>2. CASE block[job[j].on] \notin Claimable
    BY <1>0, <1>4, <1>a, <2>2, NextAll DEF Claim, JudgeTurn
  <2>3. QED
    BY <2>1, <2>2
<1>5. CASE Prepare(j)
  <2>1. PICK fit \in Dispositions(job[j].on) :
          job' = [job EXCEPT
                    ![j].pc = IF day[DayOf[job[j].on]] = "CANCELLED" THEN "release" ELSE "check",
                    ![j].seen = [e \in Entries |->
                                   IF e \in EntriesOf(job[j].on) THEN entry[e] ELSE "NONE"],
                    ![j].fit = fit]
    BY <1>5 DEF Prepare
  <2>2. /\ Only(j)
        /\ job'[j].pc \in {"release", "check"} /\ job'[j].at = job[j].at
        /\ job'[j].on = job[j].on /\ job'[j].prior = job[j].prior
        /\ job'[j].todo = job[j].todo /\ job'[j].fit = fit
        /\ job'[j].seen = [e \in Entries |->
                             IF e \in EntriesOf(job[j].on) THEN entry[e] ELSE "NONE"]
    BY <1>0, <2>1 DEF Only, JobRows
  <2>3. QED
    BY <1>5, <1>a, <2>2 DEF Prepare, JudgeTurn, Dispositions
<1>6. CASE Check(j)
  BY <1>0, <1>6, <1>a, GotoAll DEF Check, JudgeTurn
<1>7. CASE WriteCancelled(j)
  BY <1>0, <1>7, NextAll DEF WriteCancelled, JudgeTurn
<1>8. CASE WriteResults(j)
  BY <1>0, <1>8, NextAll DEF WriteResults, JudgeTurn
<1>9. CASE Release(j)
  BY <1>0, <1>9, NextAll DEF Release, JudgeTurn
<1>10. CASE JudgeError(j)
  BY <1>0, <1>10, <1>a, GotoAll DEF JudgeError, JudgeTurn
<1>11. CASE Unanswered(j)
  BY <1>0, <1>11, NextAll DEF Unanswered, JudgeTurn
<1>12. QED
  BY <1>1, <1>2, <1>3, <1>4, <1>5, <1>6, <1>7, <1>8, <1>9, <1>10, <1>11 DEF JudgeStep

(* A finalizer begins, closes empty days, lists the ready ones, passes over  *)
(* one, takes one, or goes through its phases; it ends, or fails, between.   *)
Follows == {<<"closeDay", "count">>, <<"count", "group">>, <<"group", "bis">>,
            <<"bis", "readCredits">>, <<"readCredits", "writeCredits">>,
            <<"writeCredits", "clearPrestige">>, <<"clearPrestige", "addPrestige">>,
            <<"addPrestige", "markPrestige">>, <<"markPrestige", "publish">>}

FinalTurn(j) ==
    LET x == job[j]
        y == job'[j]
    IN  \/ y.pc = "idle" /\ y.at = 0
        \/ y.pc = "empties" /\ y.at \in {epoch, x.at}
        \/ y.pc = "firstDay" /\ y.at = x.at /\ y.todo = ReadyDays(x.at)
        \/ /\ x.pc \in Seeking \cup OnDay
           /\ y.pc = "pickDay" /\ y.at = x.at
           /\ y.todo \subseteq x.todo
           /\ x.pc = "publish" => y.todo = x.todo \ {x.on}
        \/ /\ x.pc \in Seeking
           /\ y.pc = "closeDay" /\ y.at = x.at /\ y.todo = x.todo
           /\ y.on \in x.todo
        \/ /\ <<x.pc, y.pc>> \in Follows
           /\ y.at = x.at /\ y.todo = x.todo /\ y.on = x.on
           /\ y.pc \in {"group", "writeCredits"} => Unjudged(x.on) = {}
           /\ y.pc = "writeCredits" => y.prior = day[x.on]

LEMMA FinalTurns ==
    ASSUME Inv, NEW j \in FinalJobs, FinalStep(j) \/ FinalError(j)
    PROVE  Only(j) /\ FinalTurn(j)
<1>0. /\ TypeOK /\ j \in Jobs
      /\ job \in [Jobs -> JobRows] /\ job[j] \in JobRows
      /\ job[j].todo \subseteq Days /\ Days \subseteq Nat
  BY DaysAssumption DEF Inv, RunRows, FinalRow, Jobs, TypeOK, Days
<1>1. CASE StartFinalizer(j)
  <2>1. Only(j) /\ job'[j].pc = "empties" /\ job'[j].at = epoch
    BY <1>0, <1>1 DEF StartFinalizer, Only, Idle
  <2>2. QED
    BY <2>1 DEF FinalTurn
<1>2. CASE CloseEmptyDay(j)
  <2>1. Only(j) /\ job'[j].pc = "empties" /\ job'[j].at = job[j].at
    BY <1>0, <1>2 DEF CloseEmptyDay, Only, JobRows
  <2>2. QED
    BY <2>1 DEF FinalTurn
<1>3. CASE SelectDays(j)
  <2>1. /\ Only(j) /\ job'[j].pc = "firstDay" /\ job'[j].at = job[j].at
        /\ job'[j].todo = ReadyDays(job[j].at)
    BY <1>0, <1>3 DEF SelectDays, Only, JobRows
  <2>2. QED
    BY <2>1 DEF FinalTurn
<1>4. CASE ReadDay(j)
  <2> DEFINE d == Min(job[j].todo)
  <2>1. d \in job[j].todo
    BY <1>0, <1>4, MinMember DEF ReadDay
  <2>2. job[j].pc \in Seeking
    BY <1>4 DEF ReadDay, Seeking
  <2> HIDE DEF d
  <2>3. CASE day[d] = "CANCELLED"
    <3>1. job' = [job EXCEPT ![j] = [job[j] EXCEPT !.todo = job[j].todo \ {d}, !.pc = "pickDay"]]
      BY <1>0, <1>4, <2>3 DEF ReadDay, d
    <3>2. /\ Only(j) /\ job'[j].pc = "pickDay" /\ job'[j].at = job[j].at
          /\ job'[j].todo = job[j].todo \ {d}
      BY <1>0, <3>1 DEF Only, JobRows
    <3>3. QED
      BY <2>2, <3>2 DEF FinalTurn, Seeking
  <2>4. CASE day[d] # "CANCELLED"
    <3>1. job' = [job EXCEPT ![j] = [job[j] EXCEPT !.on = d, !.pc = "closeDay"]]
      BY <1>0, <1>4, <2>4 DEF ReadDay, d
    <3>2. /\ Only(j) /\ job'[j].pc = "closeDay" /\ job'[j].at = job[j].at
          /\ job'[j].on = d /\ job'[j].todo = job[j].todo
      BY <1>0, <3>1 DEF Only, JobRows
    <3>3. QED
      BY <2>1, <2>2, <3>2 DEF FinalTurn
  <2>5. QED
    BY <2>3, <2>4
<1>5. CASE EndRun(j)
  <2>1. Only(j) /\ job'[j] = Idle
    BY <1>0, <1>5 DEF EndRun, Only
  <2>2. QED
    BY <2>1 DEF FinalTurn, Idle
<1>6. ASSUME NEW l, <<job[j].pc, l>> \in Follows, l \notin {"group", "writeCredits"}, Goto(j, l)
      PROVE  Only(j) /\ FinalTurn(j)
  BY <1>0, <1>6, GotoAll DEF FinalTurn
<1>7. ASSUME job[j].pc \in OnDay, NextOne(j, "pickDay")
      PROVE  Only(j) /\ FinalTurn(j)
  BY <1>0, <1>7, NextAll DEF FinalTurn
<1>8. CASE CloseDay(j)
  BY <1>6, <1>8 DEF CloseDay, Follows
<1>9. CASE CountBlocks(j)
  <2>1. CASE Unjudged(job[j].on) = {}
    BY <1>0, <1>9, <2>1, GotoAll DEF CountBlocks, FinalTurn, Follows
  <2>2. CASE Unjudged(job[j].on) # {}
    BY <1>7, <1>9, <2>2 DEF CountBlocks, OnDay
  <2>3. QED
    BY <2>1, <2>2
<1>10. CASE Group(j)
  BY <1>6, <1>10 DEF Group, Follows
<1>11. CASE Bis(j)
  BY <1>6, <1>11 DEF Bis, Follows
<1>12. CASE ReadCredits(j)
  <2>1. CASE Unjudged(job[j].on) = {}
    <3>1. job' = [job EXCEPT ![j] = [job[j] EXCEPT !.pc = "writeCredits", !.prior = day[job[j].on]]]
      BY <1>0, <1>12, <2>1 DEF ReadCredits
    <3>2. /\ Only(j) /\ job'[j].pc = "writeCredits" /\ job'[j].at = job[j].at
          /\ job'[j].todo = job[j].todo /\ job'[j].on = job[j].on
          /\ job'[j].prior = day[job[j].on]
      BY <1>0, <3>1 DEF Only, JobRows
    <3>3. <<job[j].pc, "writeCredits">> \in Follows
      BY <1>12 DEF ReadCredits, Follows
    <3>4. QED
      BY <2>1, <3>2, <3>3 DEF FinalTurn
  <2>2. CASE Unjudged(job[j].on) # {}
    BY <1>7, <1>12, <2>2 DEF ReadCredits, OnDay
  <2>3. QED
    BY <2>1, <2>2
<1>13. CASE WriteCredits(j)
  BY <1>6, <1>13 DEF WriteCredits, Follows
<1>14. CASE ClearPrestige(j)
  BY <1>6, <1>14 DEF ClearPrestige, Follows
<1>15. CASE AddPrestige(j)
  BY <1>6, <1>7, <1>15 DEF AddPrestige, Follows, OnDay
<1>16. CASE MarkPrestige(j)
  BY <1>6, <1>16 DEF MarkPrestige, Follows
<1>17. CASE Publish(j)
  BY <1>7, <1>17 DEF Publish, OnDay
<1>18. CASE FinalError(j)
  BY <1>7, <1>18 DEF FinalError, AfterError, OnDay
<1>19. QED
  BY <1>1, <1>2, <1>3, <1>4, <1>5, <1>8, <1>9, <1>10, <1>11, <1>12, <1>13, <1>14, <1>15, <1>16,
     <1>17, <1>18 DEF FinalStep

-----------------------------------------------------------------------------
(* What the writes do                                                        *)

LEMMA Dates ==
    /\ \A d \in Days : DueAt(d) \in Nat /\ DueAt(d) >= 2
    /\ \A b \in Blocks : DayOf[b] \in Days /\ DueAt(DayOf[b]) \in Nat /\ DueAt(DayOf[b]) >= 2
    /\ \A e \in Entries : BlockOf[e] \in Blocks
BY DaysAssumption, BlocksAssumption, EntriesAssumption DEF Days, DueAt

LEMMA Statuses ==
    /\ Terminal = {"RESULTS_PUBLISHED", "CANCELLED"}
    /\ Open = {"SCHEDULED"}
    /\ Working = {"prepare", "check", "write", "release"}
    /\ Holding = {"prepare", "check", "write", "release", "claim"}
BY DEF Terminal, Open, Working, Holding

(* Closing a day cancels its undecided blocks, when nobody remains in it.    *)
Closes(d, ent, dy, blk) ==
    /\ dy[d] \notin Terminal /\ Remaining(d, ent) = {}
    /\ day' = [dy EXCEPT ![d] = "CANCELLED"]
    /\ \A b \in Blocks : block'[b] = IF DayOf[b] = d /\ blk[b] \notin Terminal
                                     THEN "CANCELLED" ELSE blk[b]

LEMMA CancelFacts ==
    ASSUME NEW d, NEW at, NEW ent, NEW dy, NEW blk, CancelEmpty(d, at, ent, dy, blk)
    PROVE  \/ Closes(d, ent, dy, blk) /\ at >= DueAt(d)
           \/ ~IsEmpty(d, at, ent, dy) /\ day' = dy /\ block' = blk
<1>1. CASE IsEmpty(d, at, ent, dy)
  BY <1>1 DEF CancelEmpty, IsEmpty, Closes, BlocksOf
<1>2. CASE ~IsEmpty(d, at, ent, dy)
  BY <1>2 DEF CancelEmpty
<1>3. QED
  BY <1>1, <1>2

(* The run that writes holds its block, and takes nobody but those who are   *)
(* still ENTERED or were found fit.                                          *)
Marked(j, e) == e \in Unfit(j) /\ entry'[e] \in {"ABSENT", "INELIGIBLE"}

LEMMA CancelledFacts ==
    ASSUME Inv, NEW j \in JudgeJobs, WriteCancelled(j)
    PROVE  /\ job[j].pc = "write" /\ job[j].on \in Blocks /\ job[j].fit = {}
           /\ block[job[j].on] \in {"JUDGING", "CANCELLED"}
           /\ \A e \in Entries : Marked(j, e) \/ (e \notin Unfit(j) /\ entry'[e] = entry[e])
           /\ CancelEmpty(DayOf[job[j].on], job[j].at, entry',
                          IF Entered(j) = {} THEN day ELSE Judging(DayOf[job[j].on]),
                          [block EXCEPT ![job[j].on] = "CANCELLED"])
           /\ UNCHANGED <<epoch, cluster, request, results, scores>>
<1>1. job[j].pc = "write" /\ job[j].fit = {}
  BY DEF WriteCancelled
<1>2. job[j].on \in Blocks /\ block[job[j].on] \in {"JUDGING", "CANCELLED"}
  BY <1>1 DEF Inv, RunRows, JudgeRow, OneClaim, HeldIsClaimed, Holds, Working
<1>3. PICK mark \in Marks(j) :
         /\ entry' = [e \in Entries |-> IF e \in Unfit(j) THEN mark[e] ELSE entry[e]]
         /\ CancelEmpty(DayOf[job[j].on], job[j].at,
                        [e \in Entries |-> IF e \in Unfit(j) THEN mark[e] ELSE entry[e]],
                        IF Entered(j) = {} THEN day ELSE Judging(DayOf[job[j].on]),
                        [block EXCEPT ![job[j].on] = "CANCELLED"])
  BY DEF WriteCancelled
<1>4. \A e \in Unfit(j) : mark[e] \in {"ABSENT", "INELIGIBLE"}
  BY DEF Marks
<1>5. CancelEmpty(DayOf[job[j].on], job[j].at, entry',
                  IF Entered(j) = {} THEN day ELSE Judging(DayOf[job[j].on]),
                  [block EXCEPT ![job[j].on] = "CANCELLED"])
  BY <1>3
<1>6. \A e \in Entries : Marked(j, e) \/ (e \notin Unfit(j) /\ entry'[e] = entry[e])
  BY <1>3, <1>4 DEF Marked
<1>7. UNCHANGED <<epoch, cluster, request, results, scores>>
  BY DEF WriteCancelled
<1>8. QED
  BY <1>1, <1>2, <1>5, <1>6, <1>7

LEMMA ResultsFacts ==
    ASSUME Inv, NEW j \in JudgeJobs, WriteResults(j)
    PROVE  /\ job[j].pc = "write" /\ job[j].on \in Blocks
           /\ job[j].fit # {} /\ job[j].fit \subseteq Entries
           /\ block[job[j].on] \in {"JUDGING", "CANCELLED"}
           /\ \A e \in Entries : \/ e \in job[j].fit /\ entry'[e] = "JUDGED"
                                 \/ e \notin job[j].fit /\ Marked(j, e)
                                 \/ e \notin job[j].fit \cup Unfit(j) /\ entry'[e] = entry[e]
           /\ block' = [block EXCEPT ![job[j].on] = "RESULTS_PUBLISHED"]
           /\ day' = Judging(DayOf[job[j].on])
           /\ results' = results \cup job[j].fit
           /\ UNCHANGED <<epoch, cluster, request, finals, bis, credits, prestige, calculated>>
<1>1. job[j].pc = "write" /\ job[j].fit # {}
  BY DEF WriteResults
<1>2. job[j].on \in Blocks /\ block[job[j].on] \in {"JUDGING", "CANCELLED"}
  BY <1>1 DEF Inv, RunRows, JudgeRow, OneClaim, HeldIsClaimed, Holds, Working
<1>3. job[j].fit \subseteq Entries
  BY DEF Inv, TypeOK, JobRows, Jobs
<1>4. PICK mark \in Marks(j) :
         entry' = [e \in Entries |-> CASE e \in job[j].fit -> "JUDGED"
                                      [] e \in Unfit(j) -> mark[e]
                                      [] OTHER -> entry[e]]
  BY DEF WriteResults
<1>5. \A e \in Unfit(j) : mark[e] \in {"ABSENT", "INELIGIBLE"} /\ e \notin job[j].fit
  BY DEF Marks, Unfit
<1>6. \A e \in Entries : \/ e \in job[j].fit /\ entry'[e] = "JUDGED"
                         \/ e \notin job[j].fit /\ Marked(j, e)
                         \/ e \notin job[j].fit \cup Unfit(j) /\ entry'[e] = entry[e]
  BY <1>4, <1>5 DEF Marked
<1>7. QED
  BY <1>1, <1>2, <1>3, <1>6 DEF WriteResults

(* A claim is made, whether its answer arrives or not.                       *)
Claims(j) ==
    /\ job[j].pc = "claim" /\ block[job[j].on] \in Claimable
    /\ block' = [block EXCEPT ![job[j].on] = "JUDGING"]
    /\ UNCHANGED <<epoch, entry, results>>

(* Every other step of a run leaves entries and results as they are.         *)
LEMMA JudgeKeeps ==
    ASSUME NEW j, JudgeStep(j) \/ JudgeError(j) \/ Unanswered(j),
           ~WriteCancelled(j), ~WriteResults(j)
    PROVE  /\ UNCHANGED <<epoch, day, cluster, entry, request, results, scores>>
           /\ Claims(j) \/ Release(j) \/ block' = block
BY DEF JudgeStep, JudgeError, Unanswered, SelectBlocks, ReadBlock, EndRun, Claim, Claims, Prepare,
       Check, Release, show, scores

LEMMA FinalKeeps ==
    ASSUME NEW j, FinalStep(j) \/ FinalError(j)
    PROVE  /\ UNCHANGED <<epoch, entry, request, results, breedAwards>>
           /\ CloseEmptyDay(j) \/ CloseDay(j) \/ block' = block
           /\ CloseEmptyDay(j) \/ CloseDay(j) \/ Publish(j) \/ day' = day
           /\ Publish(j) \/ cluster' = cluster
BY DEF FinalStep, FinalError, StartFinalizer, CloseEmptyDay, SelectDays, ReadDay, EndRun, CloseDay,
       CountBlocks, Group, Bis, ReadCredits, WriteCredits, ClearPrestige, AddPrestige,
       MarkPrestige, Publish, show, scores

LEMMA ClosingFacts ==
    ASSUME NEW j, CloseEmptyDay(j) \/ CloseDay(j)
    PROVE  /\ \E d : CancelEmpty(d, job[j].at, entry, day, block)
           /\ UNCHANGED <<epoch, cluster, entry, request, results, scores>>
BY DEF CloseEmptyDay, CloseDay

-----------------------------------------------------------------------------
(* What never comes back                                                     *)

(* A run that writes does so after the day is due.                           *)
LEMMA WriterIsLate ==
    ASSUME Inv, Due, NEW j \in JudgeJobs, job[j].pc \in Holding
    PROVE  /\ job[j].on \in Blocks /\ DayOf[job[j].on] \in Days
           /\ job[j].at >= DueAt(DayOf[job[j].on]) /\ job[j].at \in Nat
           /\ epoch >= job[j].at /\ epoch >= 2 /\ epoch \in Nat
<1>1. job[j].on \in Blocks
  BY DEF Inv, RunRows, JudgeRow, Holding
<1>2. job[j].at \in Nat /\ epoch \in Nat
  BY DEF Inv, TypeOK, JobRows, Jobs
<1>3. job[j].at <= epoch /\ job[j].at >= DueAt(DayOf[job[j].on])
  BY DEF Due, JudgeFits
<1>4. QED
  BY <1>1, <1>2, <1>3, Dates

(* An entry that exists stays; once a day is due none is made, and none      *)
(* waits that did not before.                                                *)
EntryMoves ==
    \A e \in Entries :
        /\ entry[e] # "NONE" => entry'[e] # "NONE"
        /\ epoch >= 2 /\ entry[e] = "NONE" => entry'[e] = "NONE"
        /\ epoch >= 2 /\ entry'[e] = "ENTERED" => entry[e] = "ENTERED"

LEMMA EntriesMove ==
    ASSUME Inv, Due, [Next]_vars
    PROVE  EntryMoves
<1>0. TypeOK /\ entry \in [Entries -> EntryStatus] /\ epoch \in Nat
  BY DEF Inv, TypeOK
<1>1. ASSUME entry' = entry
      PROVE  EntryMoves
  BY <1>1 DEF EntryMoves
<1>2. ASSUME NEW e \in Entries, EntryStep(e)
      PROVE  EntryMoves
  <2>1. CASE CommitEntry(e)
    <3>1. epoch <= 1
      BY <2>1 DEF CommitEntry, Due, RequestFits
    <3>2. entry' = [entry EXCEPT ![e] = "ENTERED"] /\ ~(epoch >= 2)
      BY <1>0, <2>1, <3>1 DEF CommitEntry
    <3>3. QED
      BY <1>0, <3>2 DEF EntryMoves
  <2>2. CASE CommitPull(e)
    <3>1. entry' = [entry EXCEPT ![e] = IF entry[e] = "ENTERED" THEN "ABSENT" ELSE entry[e]]
      BY <2>2 DEF CommitPull
    <3>2. QED
      BY <1>0, <3>1 DEF EntryMoves
  <2>3. CASE Disqualify(e)
    <3>1. entry[e] = "ENTERED" /\ entry' = [entry EXCEPT ![e] = "INELIGIBLE"]
      BY <2>3 DEF Disqualify
    <3>2. QED
      BY <1>0, <3>1 DEF EntryMoves
  <2>4. QED
    BY <1>1, <1>2, <2>1, <2>2, <2>3 DEF EntryStep, Enter, Pull
<1>3. ASSUME NEW j \in JudgeJobs, WriteCancelled(j)
      PROVE  EntryMoves
  BY <1>3, CancelledFacts DEF Marked, Unfit, EntryMoves
<1>4. ASSUME NEW j \in JudgeJobs, WriteResults(j)
      PROVE  EntryMoves
  <2>1. \A e \in job[j].fit : entry[e] # "NONE"
    BY <1>4, ResultsFacts DEF Due, JudgeFits
  <2>2. QED
    BY <1>4, <2>1, ResultsFacts DEF Marked, Unfit, EntryMoves
<1>5. QED
  <2>1. CASE Tick \/ \E j \in Jobs : Crash(j)
    BY <1>1, <2>1 DEF Tick, Crash, show
  <2>2. CASE UNCHANGED vars
    BY <1>1, <2>2 DEF vars, show
  <2>3. ASSUME NEW j \in JudgeJobs, JudgeStep(j) \/ JudgeError(j) \/ Unanswered(j)
        PROVE  EntryMoves
    BY <1>1, <1>3, <1>4, <2>3, JudgeKeeps
  <2>4. ASSUME NEW j \in FinalJobs, FinalStep(j) \/ FinalError(j)
        PROVE  EntryMoves
    BY <1>1, <2>4, FinalKeeps
  <2>5. QED
    BY <1>2, <2>1, <2>2, <2>3, <2>4 DEF Next

(* A decided block stays decided, a published one published, and only the    *)
(* run that writes its results publishes a block.                            *)
BlockMoves ==
    /\ \A b \in Blocks :
          /\ block[b] \in Terminal => block'[b] \in Terminal
          /\ block[b] = "RESULTS_PUBLISHED" => block'[b] = "RESULTS_PUBLISHED"
          /\ block'[b] = "RESULTS_PUBLISHED" /\ block[b] # "RESULTS_PUBLISHED" =>
                \E j \in JudgeJobs : WriteResults(j) /\ job[j].on = b
    /\ results \subseteq results'

LEMMA BlocksMove ==
    ASSUME Inv, [Next]_vars
    PROVE  BlockMoves
<1>0. TypeOK /\ block \in [Blocks -> ShowStatus]
  BY DEF Inv, TypeOK
<1>1. ASSUME block' = block, results' = results
      PROVE  BlockMoves
  BY <1>1 DEF BlockMoves
<1>2. ASSUME NEW j \in JudgeJobs, WriteCancelled(j)
      PROVE  BlockMoves
  <2> DEFINE blk == [block EXCEPT ![job[j].on] = "CANCELLED"]
  <2>1. /\ job[j].on \in Blocks /\ block[job[j].on] \in {"JUDGING", "CANCELLED"}
        /\ \A b \in Blocks : \/ block'[b] = blk[b]
                             \/ blk[b] \notin Terminal /\ block'[b] = "CANCELLED"
        /\ results' = results
    <3>1. PICK d, at, ent, dy : CancelEmpty(d, at, ent, dy, blk)
      BY <1>2, CancelledFacts
    <3> HIDE DEF blk
    <3>2. \A b \in Blocks : \/ block'[b] = blk[b]
                            \/ blk[b] \notin Terminal /\ block'[b] = "CANCELLED"
      BY <3>1, CancelFacts DEF Closes
    <3>3. QED
      BY <1>2, <3>2, CancelledFacts
  <2>2. \A b \in Blocks : blk[b] = IF b = job[j].on THEN "CANCELLED" ELSE block[b]
    BY <1>0
  <2> HIDE DEF blk
  <2>3. QED
    BY <2>1, <2>2, Statuses DEF BlockMoves
<1>3. ASSUME NEW j \in JudgeJobs, WriteResults(j)
      PROVE  BlockMoves
  BY <1>0, <1>3, ResultsFacts, Statuses DEF BlockMoves
<1>4. ASSUME NEW j \in JudgeJobs, Claims(j) \/ Release(j)
      PROVE  BlockMoves
  <2>1. CASE Claims(j)
    BY <1>0, <2>1, Statuses DEF Claims, Claimable, BlockMoves
  <2>2. CASE Release(j)
    <3>1. block' = [block EXCEPT ![job[j].on] = Released(j)] /\ results' = results
      BY <2>2 DEF Release
    <3>2. \A b \in Blocks : block'[b] = block[b] \/ (block[b] = "JUDGING" /\ block'[b] = job[j].prior)
      BY <1>0, <3>1 DEF Released
    <3>3. job[j].prior \notin Terminal
      BY <2>2 DEF Release, Inv, RunRows, JudgeRow, Working
    <3>4. QED
      BY <3>1, <3>2, <3>3, Statuses DEF BlockMoves
  <2>3. QED
    BY <1>4, <2>1, <2>2
<1>5. ASSUME NEW j, CloseEmptyDay(j) \/ CloseDay(j)
      PROVE  BlockMoves
  <2>1. PICK d : CancelEmpty(d, job[j].at, entry, day, block)
    BY <1>5, ClosingFacts
  <2>2. \A b \in Blocks : \/ block'[b] = block[b]
                          \/ block[b] \notin Terminal /\ block'[b] = "CANCELLED"
    BY <2>1, CancelFacts DEF Closes
  <2>3. QED
    BY <1>5, <2>2, ClosingFacts, Statuses DEF BlockMoves
<1>6. QED
  <2>1. CASE Tick \/ (\E e \in Entries : EntryStep(e)) \/ \E j \in Jobs : Crash(j)
    BY <1>1, <2>1 DEF Tick, Crash, show, EntryStep, Enter, Pull, CommitEntry, CommitPull, Disqualify
  <2>2. CASE UNCHANGED vars
    BY <1>1, <2>2 DEF vars, show
  <2>3. ASSUME NEW j \in JudgeJobs, JudgeStep(j) \/ JudgeError(j) \/ Unanswered(j)
        PROVE  BlockMoves
    BY <1>1, <1>2, <1>3, <1>4, <2>3, JudgeKeeps
  <2>4. ASSUME NEW j \in FinalJobs, FinalStep(j) \/ FinalError(j)
        PROVE  BlockMoves
    BY <1>1, <1>5, <2>4, FinalKeeps
  <2>5. QED
    BY <2>1, <2>2, <2>3, <2>4 DEF Next

-----------------------------------------------------------------------------
(* The first layer is kept                                                   *)

LEMMA ClockMoves ==
    ASSUME Inv, [Next]_vars
    PROVE  epoch \in Nat /\ epoch' \in Nat /\ epoch' >= epoch /\ (Tick \/ epoch' = epoch)
<1>1. epoch \in Nat
  BY DEF Inv, TypeOK
<1>2. CASE Tick
  BY <1>1, <1>2 DEF Tick
<1>3. CASE ~Tick
  <2>1. ASSUME NEW e \in Entries, EntryStep(e)
        PROVE  epoch' = epoch
    BY <2>1 DEF EntryStep, Enter, Pull, CommitEntry, CommitPull, Disqualify
  <2>2. ASSUME NEW j \in JudgeJobs, JudgeStep(j) \/ JudgeError(j) \/ Unanswered(j)
        PROVE  epoch' = epoch
    BY <2>2, JudgeKeeps, CancelledFacts, ResultsFacts
  <2>3. epoch' = epoch
    BY <1>3, <2>1, <2>2, FinalKeeps DEF Next, Crash, vars
  <2>4. QED
    BY <1>1, <2>3
<1>4. QED
  BY <1>2, <1>3

LEMMA RequestsFit ==
    ASSUME Inv, Due, [Next]_vars
    PROVE  \A e \in Entries : RequestFits(e)'
<1> TAKE e \in Entries
<1>0. /\ RequestFits(e) /\ epoch \in Nat
      /\ request \in [Entries -> [kind: {"idle", "enter", "pull"}, at: Nat]]
      /\ request[e].at \in Nat
  BY DEF Inv, TypeOK, Due
<1>1. ASSUME request'[e] = request[e], epoch' = epoch
      PROVE  RequestFits(e)'
  BY <1>0, <1>1 DEF RequestFits
<1>2. CASE Tick
  <2>1. request' = request /\ epoch' = epoch + 1
    BY <1>2 DEF Tick, show
  <2>2. request[e] # NoRequest => request[e].at = epoch /\ ~Prompt
    BY <1>2 DEF Tick
  <2>3. request[e].kind \in {"enter", "pull"} => request[e] # NoRequest
    BY DEF NoRequest
  <2>4. QED
    BY <1>0, <2>1, <2>2, <2>3 DEF RequestFits
<1>3. ASSUME NEW g \in Entries, EntryStep(g)
      PROVE  RequestFits(e)'
  <2>1. CASE g # e
    BY <1>0, <1>1, <1>3, <2>1
    DEF EntryStep, Enter, Pull, CommitEntry, CommitPull, Disqualify
  <2>2. CASE Enter(e)
    <3>1. request'[e] = [kind |-> "enter", at |-> epoch] /\ epoch < 1 /\ epoch' = epoch
      BY <1>0, <2>2 DEF Enter, EnterOpen, EntryClose
    <3>2. QED
      BY <1>0, <3>1 DEF RequestFits
  <2>3. CASE Pull(e)
    <3>1. /\ request'[e] = [kind |-> "pull", at |-> epoch] /\ epoch' = epoch
          /\ epoch < DueAt(DayOf[BlockOf[e]])
      BY <1>0, <2>3 DEF Pull
    <3>2. QED
      BY <1>0, <3>1 DEF RequestFits
  <2>4. CASE CommitEntry(e) \/ CommitPull(e)
    <3>1. request'[e] = NoRequest
      BY <1>0, <2>4 DEF CommitEntry, CommitPull
    <3>2. QED
      BY <3>1 DEF RequestFits, NoRequest
  <2>5. CASE Disqualify(e)
    BY <1>1, <2>5 DEF Disqualify
  <2>6. QED
    BY <1>3, <2>1, <2>2, <2>3, <2>4, <2>5 DEF EntryStep
<1>4. QED
  <2>1. ASSUME NEW j \in JudgeJobs, JudgeStep(j) \/ JudgeError(j) \/ Unanswered(j)
        PROVE  request' = request /\ epoch' = epoch
    BY <2>1, JudgeKeeps, CancelledFacts, ResultsFacts
  <2>2. CASE UNCHANGED vars \/ \E j \in Jobs : Crash(j)
    BY <1>1, <2>2 DEF vars, Crash, show
  <2>3. QED
    BY <1>1, <1>2, <1>3, <2>1, <2>2, FinalKeeps DEF Next

LEMMA HasEntriesStays ==
    ASSUME EntryMoves, NEW b, HasEntries(b)
    PROVE  HasEntries(b)'
BY DEF EntryMoves, HasEntries, EntriesOf

LEMMA JudgeStands ==
    ASSUME Inv, Due, EntryMoves, epoch' >= epoch, epoch' \in Nat,
           NEW j \in JudgeJobs, job'[j] = job[j]
    PROVE  JudgeFits(j)'
<1>1. JudgeFits(j) /\ job[j].at \in Nat /\ epoch \in Nat /\ job[j].fit \subseteq Entries
  BY DEF Due, Inv, TypeOK, JobRows, Jobs
<1>2. job'[j].at <= epoch'
  BY <1>1 DEF JudgeFits
<1>3. \A b \in job'[j].todo : job'[j].at >= DueAt(DayOf[b]) /\ HasEntries(b)'
  BY <1>1, HasEntriesStays DEF JudgeFits
<1>4. job'[j].pc \in Holding =>
         job'[j].at >= DueAt(DayOf[job'[j].on]) /\ HasEntries(job[j].on)'
  BY <1>1, HasEntriesStays DEF JudgeFits
<1>5. ASSUME job[j].pc \in {"check", "write"}
      PROVE  /\ \A e \in job'[j].fit : job'[j].seen[e] = "ENTERED" /\ entry'[e] # "NONE"
             /\ \A e \in Entries : job'[j].seen[e] = "ENTERED" => BlockOf[e] = job'[j].on
             /\ \A e \in EntriesOf(job'[j].on) : entry'[e] = "ENTERED" => job'[j].seen[e] = "ENTERED"
  <2>1. epoch >= 2
    BY <1>5, WriterIsLate, Statuses
  <2>2. QED
    BY <1>1, <1>5, <2>1 DEF JudgeFits, EntryMoves, EntriesOf
<1>6. QED
  BY <1>2, <1>3, <1>4, <1>5 DEF JudgeFits, EntriesOf

(* The run that moves does so in an hour, and on entries, that stay.         *)
LEMMA JudgeGoesOn ==
    ASSUME Inv, Due, EntryMoves, epoch' = epoch,
           NEW j \in JudgeJobs, JudgeTurn(j), entry' = entry \/ job'[j].pc \notin Working
    PROVE  JudgeFits(j)'
<1>0. JudgeFits(j) /\ job[j].at \in Nat /\ epoch \in Nat
  BY DEF Due, Inv, TypeOK, JobRows, Jobs
<1>1. CASE job'[j].pc = "idle" /\ job'[j].at = 0 /\ job'[j].todo = {}
  BY <1>0, <1>1, Statuses DEF JudgeFits
<1>2. CASE /\ job'[j].pc = "first" /\ job'[j].at = epoch
           /\ job'[j].todo \subseteq ReadyBlocks(epoch)
  <2>1. \A b \in job'[j].todo : epoch >= DueAt(DayOf[b]) /\ HasEntries(b)'
    BY <1>2, HasEntriesStays DEF ReadyBlocks
  <2>2. QED
    BY <1>0, <1>2, <2>1, Statuses DEF JudgeFits
<1>3. CASE job'[j].pc = "pick" /\ job'[j].at = job[j].at /\ job'[j].todo \subseteq job[j].todo
  <2>1. \A b \in job'[j].todo : job[j].at >= DueAt(DayOf[b]) /\ HasEntries(b)'
    BY <1>0, <1>3, HasEntriesStays DEF JudgeFits
  <2>2. QED
    BY <1>0, <1>3, <2>1, Statuses DEF JudgeFits
<1>4. CASE /\ job'[j].pc = "claim" /\ job'[j].at = job[j].at
           /\ job'[j].todo = job[j].todo /\ job'[j].on \in job[j].todo
  <2>1. \A b \in job'[j].todo : job[j].at >= DueAt(DayOf[b]) /\ HasEntries(b)'
    BY <1>0, <1>4, HasEntriesStays DEF JudgeFits
  <2>2. QED
    BY <1>0, <1>4, <2>1, Statuses DEF JudgeFits
<1>5. CASE /\ job[j].pc \in Holding /\ job'[j].pc \in Working
           /\ job'[j].at = job[j].at /\ job'[j].todo = job[j].todo /\ job'[j].on = job[j].on
           /\ job'[j].pc = "check" =>
                 /\ job'[j].seen = [e \in Entries |-> IF e \in EntriesOf(job[j].on)
                                                      THEN entry[e] ELSE "NONE"]
                 /\ job'[j].fit \subseteq {e \in EntriesOf(job[j].on) : entry[e] = "ENTERED"}
           /\ job'[j].pc = "write" =>
                 /\ job[j].pc = "check"
                 /\ job'[j].seen = job[j].seen /\ job'[j].fit = job[j].fit
  <2>1. entry' = entry
    BY <1>5
  <2>2. \A b \in job'[j].todo : job[j].at >= DueAt(DayOf[b]) /\ HasEntries(b)'
    BY <1>0, <1>5, HasEntriesStays DEF JudgeFits
  <2>3. job[j].at >= DueAt(DayOf[job[j].on]) /\ HasEntries(job[j].on)'
    BY <1>0, <1>5, HasEntriesStays DEF JudgeFits
  <2>4. ASSUME job'[j].pc \in {"check", "write"}
        PROVE  /\ \A e \in job'[j].fit : job'[j].seen[e] = "ENTERED" /\ entry[e] # "NONE"
               /\ \A e \in Entries : job'[j].seen[e] = "ENTERED" => BlockOf[e] = job[j].on
               /\ \A e \in EntriesOf(job[j].on) : entry[e] = "ENTERED" => job'[j].seen[e] = "ENTERED"
    <3>1. CASE job'[j].pc = "check"
      BY <1>5, <3>1 DEF EntriesOf
    <3>2. CASE job'[j].pc = "write"
      BY <1>0, <1>5, <3>2 DEF JudgeFits
    <3>3. QED
      BY <2>4, <3>1, <3>2
  <2>5. QED
    BY <1>0, <1>5, <2>1, <2>2, <2>3, <2>4 DEF JudgeFits, EntriesOf
<1>6. QED
  BY <1>1, <1>2, <1>3, <1>4, <1>5 DEF JudgeTurn

(* The run that writes decides every entry of its block that still waits.    *)
LEMMA WriterSees ==
    ASSUME Inv, Due, NEW j \in JudgeJobs, job[j].pc = "write"
    PROVE  /\ \A e \in job[j].fit : e \in Entries /\ BlockOf[e] = job[j].on
           /\ \A e \in Entries : Marked(j, e) => BlockOf[e] = job[j].on
           /\ \A e \in EntriesOf(job[j].on) :
                 entry[e] = "ENTERED" => e \in job[j].fit \cup Unfit(j)
<1>1. JudgeFits(j) /\ job[j].fit \subseteq Entries
  BY DEF Due, Inv, TypeOK, JobRows, Jobs
<1>2. \A e \in Entries : job[j].seen[e] = "ENTERED" => BlockOf[e] = job[j].on
  BY <1>1 DEF JudgeFits
<1>3. \A e \in Entries : Marked(j, e) => job[j].seen[e] = "ENTERED"
  BY DEF Marked, Unfit, Entered
<1>4. \A e \in EntriesOf(job[j].on) :
         entry[e] = "ENTERED" => e \in Entries /\ job[j].seen[e] = "ENTERED"
  BY <1>1 DEF JudgeFits, EntriesOf
<1>5. QED
  BY <1>1, <1>2, <1>3, <1>4 DEF JudgeFits, Unfit, Entered

LEMMA BlocksFit ==
    ASSUME Inv, Due, [Next]_vars
    PROVE  \A b \in Blocks : BlockFits(b)'
<1> TAKE b \in Blocks
<1>0. /\ BlockFits(b) /\ TypeOK /\ block \in [Blocks -> ShowStatus] /\ entry \in [Entries -> EntryStatus]
      /\ EntryMoves /\ BlockMoves /\ epoch \in Nat /\ epoch' \in Nat /\ epoch' >= epoch
      /\ EntriesOf(b) \subseteq Entries
      /\ DueAt(DayOf[b]) \in Nat /\ DueAt(DayOf[b]) >= 2 /\ DayOf[b] \in Days
      /\ results \subseteq Entries
  BY EntriesMove, BlocksMove, ClockMoves, Dates DEF Due, Inv, TypeOK, EntriesOf
<1>1. ASSUME block'[b] = block[b], results' = results,
             \A e \in EntriesOf(b) : entry'[e] = entry[e] \/ entry'[e] \in {"ABSENT", "INELIGIBLE"}
      PROVE  BlockFits(b)'
  BY <1>0, <1>1 DEF BlockFits, EntriesOf
<1>2. ASSUME NEW e \in Entries, EntryStep(e)
      PROVE  BlockFits(b)'
  <2>1. block' = block /\ results' = results /\ epoch' = epoch
    BY <1>2 DEF EntryStep, Enter, Pull, CommitEntry, CommitPull, Disqualify
  <2>2. CASE CommitEntry(e)
    <3>1. epoch <= 1
      BY <2>2 DEF CommitEntry, Due, RequestFits
    <3>2. block[b] = "SCHEDULED"
      BY <1>0, <3>1 DEF BlockFits
    <3>3. \A g \in EntriesOf(b) : entry'[g] = entry[g] \/ entry'[g] = "ENTERED"
      BY <1>0, <2>2 DEF CommitEntry
    <3>4. QED
      BY <1>0, <2>1, <3>2, <3>3, Statuses DEF BlockFits, EntriesOf
  <2>3. CASE ~CommitEntry(e)
    <3>1. \A g \in Entries : entry'[g] = entry[g] \/ entry'[g] \in {"ABSENT", "INELIGIBLE"}
      BY <1>0, <1>2, <2>3 DEF EntryStep, Enter, Pull, CommitPull, Disqualify
    <3>2. QED
      BY <1>0, <1>1, <2>1, <3>1
  <2>4. QED
    BY <2>2, <2>3
<1>3. ASSUME NEW j \in JudgeJobs, Claims(j) \/ Release(j)
      PROVE  BlockFits(b)'
  <2>1. entry' = entry /\ results' = results /\ epoch' = epoch
    BY <1>3 DEF Claims, Release
  <2>2. CASE block'[b] = block[b]
    BY <1>1, <2>1, <2>2
  <2>3. CASE block'[b] # block[b]
    <3>1. b = job[j].on /\ job[j].pc \in Holding /\ block'[b] \notin Terminal /\ block[b] \notin Terminal
      <4>1. CASE Claims(j)
        BY <1>0, <2>3, <4>1, Statuses DEF Claims, Claimable
      <4>2. CASE Release(j)
        <5>1. job[j].pc = "release" /\ block' = [block EXCEPT ![job[j].on] = Released(j)]
          BY <4>2 DEF Release
        <5>2. job[j].prior \notin Terminal
          BY <5>1 DEF Inv, RunRows, JudgeRow, Working
        <5>3. QED
          BY <1>0, <2>3, <5>1, <5>2, Statuses DEF Released
      <4>3. QED
        BY <1>3, <4>1, <4>2
    <3>2. epoch >= DueAt(DayOf[b])
      BY <1>0, <3>1, WriterIsLate
    <3>3. \A e \in EntriesOf(b) : entry[e] # "JUDGED" /\ e \notin results
      BY <1>0, <3>1, Statuses DEF BlockFits
    <3>4. QED
      BY <1>0, <2>1, <3>1, <3>2, <3>3, Statuses DEF BlockFits, EntriesOf
  <2>4. QED
    BY <2>2, <2>3
<1>4. ASSUME NEW j \in JudgeJobs, WriteResults(j)
      PROVE  BlockFits(b)'
  <2>1. job[j].pc = "write" /\ job[j].on \in Blocks
    BY <1>4, ResultsFacts
  <2>2. CASE b = job[j].on
    <3>1. /\ block'[b] = "RESULTS_PUBLISHED" /\ epoch' = epoch
          /\ results' = results \cup job[j].fit /\ job[j].fit # {}
      BY <1>0, <1>4, <2>2, ResultsFacts
    <3>2. epoch >= DueAt(DayOf[b])
      BY <1>0, <2>1, <2>2, WriterIsLate, Statuses
    <3>3. job[j].fit \subseteq EntriesOf(b)
      BY <1>0, <2>1, <2>2, WriterSees DEF EntriesOf
    <3>4. \A e \in EntriesOf(b) : entry'[e] # "ENTERED"
      BY <1>0, <1>4, <2>1, <2>2, WriterSees, ResultsFacts DEF Marked
    <3>5. QED
      BY <3>1, <3>2, <3>3, <3>4 DEF BlockFits, EntriesOf
  <2>3. CASE b # job[j].on
    <3>1. block'[b] = block[b] /\ epoch' = epoch /\ results' = results \cup job[j].fit
      BY <1>0, <1>4, <2>3, ResultsFacts
    <3>2. \A e \in EntriesOf(b) : e \notin job[j].fit /\ entry'[e] = entry[e]
      BY <1>0, <1>4, <2>1, <2>3, WriterSees, ResultsFacts DEF EntriesOf
    <3>3. QED
      BY <1>0, <3>1, <3>2 DEF BlockFits, EntriesOf
  <2>4. QED
    BY <2>2, <2>3
<1>5. ASSUME NEW j \in JudgeJobs, WriteCancelled(j)
      PROVE  BlockFits(b)'
  <2> DEFINE d == DayOf[job[j].on]
             dy == IF Entered(j) = {} THEN day ELSE Judging(d)
             blk == [block EXCEPT ![job[j].on] = "CANCELLED"]
  <2>1. /\ job[j].pc = "write" /\ job[j].on \in Blocks /\ job[j].fit = {}
        /\ block[job[j].on] \in {"JUDGING", "CANCELLED"}
        /\ epoch' = epoch /\ results' = results
    BY <1>5, CancelledFacts
  <2>2. \A e \in Entries : entry'[e] = entry[e] \/ Marked(j, e)
    BY <1>5, CancelledFacts
  <2>3. CancelEmpty(d, job[j].at, entry', dy, blk)
    BY <1>5, CancelledFacts
  <2>4. /\ blk \in [Blocks -> ShowStatus]
        /\ \A c \in Blocks : blk[c] = IF c = job[j].on THEN "CANCELLED" ELSE block[c]
    BY <1>0 DEF ShowStatus, Terminal
  <2>5. d \in Days /\ epoch >= DueAt(d)
    BY <1>0, <2>1, WriterIsLate, Dates, Statuses
  <2> HIDE DEF d, dy, blk
  <2>6. \/ Closes(d, entry', dy, blk)
        \/ block' = blk
    BY <2>3, CancelFacts
  <2>7. CASE b = job[j].on
    <3>1. block'[b] = "CANCELLED"
      BY <2>4, <2>6, <2>7, Statuses DEF Closes
    <3>2. epoch >= DueAt(DayOf[b])
      BY <2>5, <2>7 DEF d
    <3>3. \A e \in EntriesOf(b) : entry[e] # "JUDGED" /\ e \notin results
      BY <1>0, <2>1, <2>7 DEF BlockFits
    <3>4. \A e \in EntriesOf(b) : entry'[e] \notin {"ENTERED", "JUDGED"}
      BY <1>0, <1>5, <2>1, <2>7, <3>3, WriterSees, CancelledFacts DEF Marked
    <3>5. QED
      BY <2>1, <3>1, <3>2, <3>3, <3>4, Statuses DEF BlockFits, EntriesOf
  <2>8. CASE b # job[j].on /\ block'[b] = block[b]
    BY <1>0, <1>1, <2>1, <2>2, <2>8 DEF Marked
  <2>9. CASE b # job[j].on /\ block'[b] # block[b]
    <3>1. Closes(d, entry', dy, blk) /\ DayOf[b] = d /\ block'[b] = "CANCELLED"
      BY <2>4, <2>6, <2>9 DEF Closes
    <3>2. \A e \in EntriesOf(b) : entry'[e] \notin {"ENTERED", "JUDGED"} /\ e \notin results
      BY <3>1 DEF Closes, Remaining, EntriesOf
    <3>3. QED
      BY <2>1, <2>5, <3>1, <3>2, Statuses DEF BlockFits, EntriesOf
  <2>10. QED
    BY <2>7, <2>8, <2>9
<1>6. ASSUME NEW j \in FinalJobs, CloseEmptyDay(j) \/ CloseDay(j)
      PROVE  BlockFits(b)'
  <2>1. PICK d : CancelEmpty(d, job[j].at, entry, day, block)
    BY <1>6, ClosingFacts
  <2>2. entry' = entry /\ results' = results /\ epoch' = epoch
    BY <1>6, ClosingFacts
  <2>3. CASE block'[b] = block[b]
    BY <1>1, <2>2, <2>3
  <2>4. CASE block'[b] # block[b]
    <3>1. Closes(d, entry, day, block) /\ job[j].at >= DueAt(d)
      BY <2>1, <2>4, CancelFacts
    <3>2. DayOf[b] = d /\ block'[b] = "CANCELLED"
      BY <2>4, <3>1 DEF Closes
    <3>3. \A e \in EntriesOf(b) : entry[e] \notin {"ENTERED", "JUDGED"} /\ e \notin results
      BY <3>1, <3>2 DEF Closes, Remaining, EntriesOf
    <3>4. epoch >= DueAt(DayOf[b])
      <4>1. job[j].at <= epoch /\ job[j].at \in Nat
        BY DEF Due, Inv, TypeOK, JobRows, Jobs
      <4>2. QED
        BY <1>0, <3>1, <3>2, <4>1
    <3>5. QED
      BY <2>2, <3>2, <3>3, <3>4, Statuses DEF BlockFits, EntriesOf
  <2>5. QED
    BY <2>3, <2>4
<1>7. QED
  <2>1. CASE Tick \/ (\E j \in Jobs : Crash(j)) \/ UNCHANGED vars
    BY <1>1, <2>1 DEF Tick, Crash, vars, show
  <2>2. ASSUME NEW j \in JudgeJobs, JudgeStep(j) \/ JudgeError(j) \/ Unanswered(j)
        PROVE  BlockFits(b)'
    BY <1>1, <1>3, <1>4, <1>5, <2>2, JudgeKeeps
  <2>3. ASSUME NEW j \in FinalJobs, FinalStep(j) \/ FinalError(j)
        PROVE  BlockFits(b)'
    BY <1>1, <1>6, <2>3, FinalKeeps
  <2>4. QED
    BY <1>2, <2>1, <2>2, <2>3 DEF Next

(* In a step a run stands or makes one turn, and the clock stands with it.   *)
JudgeGoes(j) ==
    /\ JudgeTurn(j) /\ epoch' = epoch
    /\ entry' = entry \/ job'[j].pc \notin Working

LEMMA RunsMove ==
    ASSUME Inv, [Next]_vars
    PROVE  /\ \A j \in JudgeJobs : job'[j] = job[j] \/ JudgeGoes(j)
           /\ \A j \in FinalJobs : job'[j] = job[j] \/ (FinalTurn(j) /\ epoch' = epoch)
<1>0. TypeOK /\ job \in [Jobs -> JobRows] /\ JudgeJobs \subseteq Jobs /\ FinalJobs \subseteq Jobs
  BY DEF Inv, TypeOK, Jobs
<1>1. CASE Tick \/ (\E e \in Entries : EntryStep(e)) \/ UNCHANGED vars
  BY <1>1 DEF Tick, EntryStep, Enter, Pull, CommitEntry, CommitPull, Disqualify, vars
<1>2. ASSUME NEW i \in JudgeJobs, JudgeStep(i) \/ JudgeError(i) \/ Unanswered(i)
      PROVE  /\ \A j \in JudgeJobs : job'[j] = job[j] \/ JudgeGoes(j)
             /\ \A j \in FinalJobs : job'[j] = job[j]
  <2>1. Only(i) /\ JudgeTurn(i)
    BY <1>2, JudgeTurns
  <2>2. CASE WriteCancelled(i) \/ WriteResults(i)
    <3>1. epoch' = epoch
      BY <1>2, <2>2, CancelledFacts, ResultsFacts
    <3>2. NextOne(i, "pick")
      BY <2>2 DEF WriteCancelled, WriteResults
    <3>3. job'[i].pc = "pick"
      BY <1>0, <1>2, <3>2, NextAll
    <3>4. QED
      BY <1>0, <2>1, <3>1, <3>3, Statuses, JobsAssumption DEF Only, JudgeGoes
  <2>3. CASE ~WriteCancelled(i) /\ ~WriteResults(i)
    BY <1>0, <1>2, <2>1, <2>3, JudgeKeeps, JobsAssumption DEF Only, JudgeGoes
  <2>4. QED
    BY <2>2, <2>3
<1>3. ASSUME NEW i \in FinalJobs, FinalStep(i) \/ FinalError(i)
      PROVE  /\ \A j \in JudgeJobs : job'[j] = job[j]
             /\ \A j \in FinalJobs : job'[j] = job[j] \/ (FinalTurn(j) /\ epoch' = epoch)
  BY <1>0, <1>3, FinalTurns, FinalKeeps, JobsAssumption DEF Only
<1>4. ASSUME NEW i \in Jobs, Crash(i)
      PROVE  /\ \A j \in JudgeJobs : job'[j] = job[j] \/ JudgeGoes(j)
             /\ \A j \in FinalJobs : job'[j] = job[j] \/ (FinalTurn(j) /\ epoch' = epoch)
  <2>1. Only(i) /\ job'[i] = Idle /\ epoch' = epoch /\ entry' = entry
    BY <1>0, <1>4 DEF Crash, Only, show
  <2>2. job'[i].pc = "idle" /\ job'[i].at = 0 /\ job'[i].todo = {}
    BY <2>1 DEF Idle
  <2>3. QED
    BY <1>0, <2>1, <2>2 DEF Only, JudgeGoes, JudgeTurn, FinalTurn
<1>5. QED
  BY <1>1, <1>2, <1>3, <1>4 DEF Next

LEMMA NextDue ==
    ASSUME Inv, Due, [Next]_vars
    PROVE  Due'
<1>1. EntryMoves /\ epoch \in Nat /\ epoch' \in Nat /\ epoch' >= epoch
  BY EntriesMove, ClockMoves
<1>2. \A j \in JudgeJobs : JudgeFits(j)'
  BY <1>1, RunsMove, JudgeStands, JudgeGoesOn DEF JudgeGoes
<1>3. ASSUME NEW j \in FinalJobs
      PROVE  job'[j].at <= epoch'
  <2>1. job[j].at <= epoch /\ job[j].at \in Nat
    BY DEF Due, Inv, TypeOK, JobRows, Jobs
  <2>2. job'[j] = job[j] \/ (FinalTurn(j) /\ epoch' = epoch)
    BY RunsMove
  <2>3. FinalTurn(j) => job'[j].at \in {0, epoch, job[j].at}
    BY DEF FinalTurn
  <2>4. QED
    BY <1>1, <2>1, <2>2, <2>3
<1>4. QED
  BY <1>2, <1>3, RequestsFit, BlocksFit DEF Due

LEMMA InitDue == Init => Due
<1> SUFFICES ASSUME Init
             PROVE  Due
  OBVIOUS
<1>1. \A j \in Jobs : job[j].pc = "idle" /\ job[j].at = 0 /\ job[j].todo = {}
  BY DEF Init, Idle
<1>2. \A e \in Entries : request[e].kind = "idle" /\ entry[e] = "NONE"
  BY DEF Init, NoRequest, Unseen
<1>3. \A j \in JudgeJobs : JudgeFits(j)
  BY <1>1, Statuses DEF Init, JudgeFits, Jobs
<1>4. \A b \in Blocks : BlockFits(b)
  BY <1>2, Statuses DEF Init, BlockFits, EntriesOf
<1>5. QED
  BY <1>1, <1>2, <1>3, <1>4 DEF Init, Due, RequestFits, Jobs

LEMMA DueAlways == Spec => [](Inv /\ Due)
<1>1. Init => Inv /\ Due
  BY InitInv, InitDue
<1>2. (Inv /\ Due) /\ [Next]_vars => (Inv /\ Due)'
  BY NextInv, NextDue
<1>3. QED
  BY <1>1, <1>2, PTL DEF Spec

(* A published or cancelled block leaves no paid entry waiting, whenever the *)
(* hours change, entries are pulled, dogs die, and runs overlap, fail or are *)
(* killed: the run that decides a block compares what it judged with the     *)
(* entries before it writes, and no entry is made once its block is due.     *)
THEOREM EntriesAllSettled == Spec => []EntriesSettled
<1>1. Inv /\ Due => EntriesSettled
  BY Dates DEF Due, BlockFits, EntriesOf, EntriesSettled
<1>2. QED
  BY <1>1, DueAlways, PTL

-----------------------------------------------------------------------------
(* The second layer is kept                                                  *)

(* A run that writes and had somebody to judge still holds an undecided      *)
(* block of an open day.                                                     *)
LEMMA WriterStays ==
    ASSUME Inv, Due, Settled, NEW j \in JudgeJobs, job[j].pc = "write", Entered(j) # {}
    PROVE  /\ block[job[j].on] = "JUDGING" /\ job[j].on \in Unjudged(DayOf[job[j].on])
           /\ day[DayOf[job[j].on]] \notin Terminal
<1> DEFINE b == job[j].on
<1>0. b \in Blocks /\ DayOf[b] \in Days /\ HasEntries(b) /\ Holds(j, b)
  BY WriterIsLate, Statuses DEF Due, JudgeFits, Holds
<1>1. PICK e \in Entries : job[j].seen[e] = "ENTERED"
  BY DEF Entered
<1>2. e \in EntriesOf(b)
  BY <1>1 DEF Due, JudgeFits, EntriesOf
<1>3. entry[e] = "ENTERED"
  BY <1>1, <1>2 DEF Settled, WriterFits
<1>4. block[b] \notin Terminal
  BY <1>0, <1>2, <1>3 DEF Due, BlockFits
<1>5. block[b] = "JUDGING"
  BY <1>0, <1>4, Statuses DEF Inv, OneClaim, HeldIsClaimed
<1>6. b \in Unjudged(DayOf[b])
  BY <1>0, <1>4 DEF Unjudged, BlocksOf
<1>7. e \in Remaining(DayOf[b], entry)
  BY <1>2, <1>3 DEF Remaining, EntriesOf
<1>8. DayFits(DayOf[b])
  BY <1>0 DEF Settled
<1>9. day[DayOf[b]] # "CANCELLED" /\ day[DayOf[b]] # "RESULTS_PUBLISHED"
  BY <1>6, <1>7, <1>8 DEF DayFits
<1>10. QED
  BY <1>5, <1>6, <1>9, Statuses

(* Whoever writes results had somebody to judge.                             *)
LEMMA ResultsStay ==
    ASSUME Inv, Due, Settled, NEW j \in JudgeJobs, WriteResults(j)
    PROVE  /\ job[j].on \in Blocks /\ DayOf[job[j].on] \in Days
           /\ block[job[j].on] = "JUDGING" /\ job[j].on \in Unjudged(DayOf[job[j].on])
           /\ day[DayOf[job[j].on]] \notin Terminal
<1>1. job[j].pc = "write" /\ job[j].fit # {} /\ job[j].fit \subseteq Entries
  BY ResultsFacts
<1>2. Entered(j) # {}
  BY <1>1 DEF Due, JudgeFits, Entered
<1>3. QED
  BY <1>1, <1>2, WriterStays, WriterIsLate, Statuses

LEMMA WritersFit ==
    ASSUME Calm, Inv, Due, Settled, [Next]_vars
    PROVE  \A j \in JudgeJobs : WriterFits(j)'
<1> SUFFICES ASSUME NEW j \in JudgeJobs, job'[j].pc = "write", NEW e \in EntriesOf(job'[j].on)
             PROVE  entry'[e] = job'[j].seen[e]
  BY DEF WriterFits, EntriesOf
<1>0. /\ e \in Entries /\ BlockOf[e] = job'[j].on /\ entry \in [Entries -> EntryStatus]
      /\ JudgeJobs \subseteq Jobs /\ TypeOK
  BY DEF EntriesOf, Inv, TypeOK, Jobs
<1>1. CASE job'[j] # job[j]
  <2>1. JudgeGoes(j)
    BY <1>1, RunsMove
  <2>2. /\ entry' = entry /\ job[j].pc = "check" /\ Current(j)
        /\ job'[j].on = job[j].on /\ job'[j].seen = job[j].seen
    BY <2>1, Statuses DEF JudgeGoes, JudgeTurn
  <2>3. QED
    BY <1>0, <2>2 DEF Current, EntriesOf
<1>2. CASE job'[j] = job[j]
  <2>0. /\ job[j].pc = "write" /\ entry[e] = job[j].seen[e] /\ BlockOf[e] = job[j].on
        /\ epoch >= 2 /\ epoch \in Nat /\ epoch >= DueAt(DayOf[BlockOf[e]])
        /\ job[j].on \in Blocks /\ Holds(j, job[j].on)
    <3>1. /\ job[j].pc = "write" /\ entry[e] = job[j].seen[e] /\ BlockOf[e] = job[j].on
      BY <1>0, <1>2 DEF Settled, WriterFits, EntriesOf
    <3>2. QED
      BY <3>1, WriterIsLate, Dates, Statuses DEF Holds
  <2>1. ASSUME NEW g \in Entries, EntryStep(g)
        PROVE  entry'[e] = entry[e]
    <3>1. CASE CommitEntry(g)
      BY <2>0, <3>1 DEF CommitEntry, Due, RequestFits
    <3>2. CASE CommitPull(g)
      <4>1. request[g].at = epoch /\ request[g].at < DueAt(DayOf[BlockOf[g]])
        BY <3>2 DEF CommitPull, Due, RequestFits, Calm
      <4>2. g # e
        BY <2>0, <4>1, Dates
      <4>3. QED
        BY <1>0, <3>2, <4>2 DEF CommitPull
    <3>3. CASE Disqualify(g)
      <4>1. g # e
        BY <2>0, <3>3 DEF Disqualify, Calm
      <4>2. QED
        BY <1>0, <3>3, <4>1 DEF Disqualify
    <3>4. QED
      BY <2>1, <3>1, <3>2, <3>3 DEF EntryStep, Enter, Pull
  <2>2. ASSUME NEW i \in JudgeJobs, WriteCancelled(i) \/ WriteResults(i)
        PROVE  entry'[e] = entry[e]
    <3>1. job[i].pc = "write" /\ NextOne(i, "pick")
      BY <2>2 DEF WriteCancelled, WriteResults
    <3>2. job'[i].pc = "pick"
      BY <1>0, <3>1, NextAll
    <3>3. job[i].on # job[j].on
      BY <1>2, <2>0, <3>1, <3>2 DEF Inv, OneClaim, OneHolder, Holds, Working
    <3>4. e \notin job[i].fit /\ ~Marked(i, e)
      BY <1>0, <2>0, <3>1, <3>3, WriterSees
    <3>5. QED
      BY <1>0, <2>2, <3>4, CancelledFacts, ResultsFacts
  <2>3. entry'[e] = entry[e]
    <3>1. CASE Tick \/ (\E i \in Jobs : Crash(i)) \/ UNCHANGED vars
      BY <3>1 DEF Tick, Crash, vars, show
    <3>2. ASSUME NEW i \in JudgeJobs, JudgeStep(i) \/ JudgeError(i) \/ Unanswered(i)
          PROVE  entry'[e] = entry[e]
      BY <2>2, <3>2, JudgeKeeps
    <3>3. QED
      BY <2>1, <3>1, <3>2, FinalKeeps DEF Next
  <2>4. QED
    BY <1>2, <2>0, <2>3
<1>3. QED
  BY <1>1, <1>2

(* A closed day stays as it is.                                              *)
DaysStay == \A d \in Days : day[d] \in Terminal => day'[d] = day[d]

LEMMA DaysKept ==
    ASSUME Inv, Due, Settled, [Next]_vars
    PROVE  DaysStay
<1>0. day \in [Days -> ShowStatus]
  BY DEF Inv, TypeOK
<1>1. ASSUME NEW j \in JudgeJobs, WriteResults(j)
      PROVE  DaysStay
  BY <1>0, <1>1, ResultsStay, ResultsFacts DEF Judging, DaysStay
<1>2. ASSUME NEW j \in JudgeJobs, WriteCancelled(j)
      PROVE  DaysStay
  <2> DEFINE d == DayOf[job[j].on]
             dy == IF Entered(j) = {} THEN day ELSE Judging(d)
             blk == [block EXCEPT ![job[j].on] = "CANCELLED"]
  <2>1. CancelEmpty(d, job[j].at, entry', dy, blk)
    BY <1>2, CancelledFacts
  <2>2. Entered(j) # {} => day[d] \notin Terminal
    BY <1>2, CancelledFacts, WriterStays
  <2>3. /\ dy \in [Days -> ShowStatus]
        /\ \A c \in Days : day[c] \in Terminal => dy[c] = day[c]
    BY <1>0, <2>2 DEF Judging, ShowStatus
  <2> HIDE DEF d, dy, blk
  <2>4. QED
    BY <2>1, <2>3, CancelFacts DEF Closes, DaysStay
<1>3. ASSUME NEW j, CloseEmptyDay(j) \/ CloseDay(j)
      PROVE  DaysStay
  BY <1>0, <1>3, ClosingFacts, CancelFacts DEF Closes, DaysStay
<1>4. ASSUME NEW j, Publish(j)
      PROVE  DaysStay
  BY <1>0, <1>4, Statuses DEF Publish, Publishable, DaysStay
<1>5. CASE day' = day
  BY <1>5 DEF DaysStay
<1>6. QED
  <2>1. CASE Tick \/ (\E e \in Entries : EntryStep(e)) \/ (\E j \in Jobs : Crash(j)) \/ UNCHANGED vars
    BY <1>5, <2>1 DEF Tick, Crash, show, vars, EntryStep, Enter, Pull, CommitEntry, CommitPull, Disqualify
  <2>2. QED
    BY <1>1, <1>2, <1>3, <1>4, <1>5, <2>1, JudgeKeeps, FinalKeeps DEF Next

(* A judged day stays judged, with the same breeds.                          *)
LEMMA JudgedStays ==
    ASSUME Inv, Due, Settled, [Next]_vars, epoch >= 2, NEW d \in Days, Unjudged(d) = {}
    PROVE  Unjudged(d)' = {} /\ PublishedBlocks(d)' = PublishedBlocks(d)
<1>1. EntryMoves /\ BlockMoves
  BY EntriesMove, BlocksMove
<1>2. \A b \in Blocks : HasEntries(b)' => HasEntries(b)
  BY <1>1 DEF EntryMoves, HasEntries, EntriesOf
<1>3. Unjudged(d)' = {}
  BY <1>1, <1>2 DEF BlockMoves, Unjudged, BlocksOf
<1>4. ASSUME NEW b \in BlocksOf(d), block'[b] = "RESULTS_PUBLISHED", block[b] # "RESULTS_PUBLISHED"
      PROVE  FALSE
  <2>1. b \in Blocks /\ DayOf[b] = d
    BY DEF BlocksOf
  <2>2. PICK j \in JudgeJobs : WriteResults(j) /\ job[j].on = b
    BY <1>1, <1>4, <2>1 DEF BlockMoves
  <2>3. QED
    BY <2>1, <2>2, ResultsStay
<1>5. PublishedBlocks(d)' = PublishedBlocks(d)
  BY <1>1, <1>4 DEF BlockMoves, PublishedBlocks, BlocksOf
<1>6. QED
  BY <1>3, <1>5

(* What was awarded stays awarded.                                           *)
ScoresStay ==
    /\ \A d \in Days :
          /\ finals[d] # {} => finals'[d] = finals[d]
          /\ finals'[d] # finals[d] =>
                \E j \in FinalJobs : /\ job[j].pc = "group" /\ job[j].on = d
                                     /\ finals'[d] = PublishedBlocks(d)
          /\ credits[d] # 0 => credits'[d] # 0
    /\ bis \subseteq bis' /\ calculated \subseteq calculated'

(* Who works on a day does so when it is due, and has entries to show.       *)
LEMMA PhaseIsLate ==
    ASSUME Inv, Due, Settled, NEW j \in FinalJobs, job[j].pc \in OnDay
    PROVE  /\ job[j].on \in Days /\ job[j].at \in Nat /\ job[j].at >= 2
           /\ epoch \in Nat /\ epoch >= 2 /\ Shown(job[j].on)
<1>1. job[j].on \in Days /\ job[j].at \in Nat /\ epoch \in Nat
  BY DEF Inv, RunRows, FinalRow, TypeOK, JobRows, Jobs
<1>2. job[j].at >= DueAt(job[j].on) /\ Shown(job[j].on) /\ job[j].at <= epoch
  BY DEF Settled, PhaseFits, Due
<1>3. QED
  BY <1>1, <1>2, Dates

LEMMA ScoresKept ==
    ASSUME Inv, Due, Settled, [Next]_vars
    PROVE  ScoresStay
<1>0. /\ finals \in [Days -> SUBSET Blocks] /\ credits \in [Days -> Nat]
  BY DEF Inv, TypeOK
<1>1. CASE UNCHANGED scores
  BY <1>1 DEF scores, ScoresStay
<1>2. ASSUME NEW j \in FinalJobs, Group(j)
      PROVE  ScoresStay
  <2>1. job[j].pc = "group" /\ finals' = [finals EXCEPT ![job[j].on] = GroupFinals(job[j].on)]
        /\ UNCHANGED <<bis, credits, calculated>>
    BY <1>2 DEF Group
  <2>2. QED
    BY <1>0, <2>1 DEF GroupFinals, ScoresStay
<1>3. ASSUME NEW j \in FinalJobs, WriteCredits(j)
      PROVE  ScoresStay
  <2>1. /\ UNCHANGED <<finals, bis, calculated>>
        /\ credits' = [credits EXCEPT ![job[j].on] =
                         IF Credited(j) THEN job[j].at ELSE credits[job[j].on]]
    BY <1>3 DEF WriteCredits
  <2>2. job[j].at \in Nat /\ job[j].at >= 2
    BY <1>3, PhaseIsLate DEF WriteCredits, OnDay
  <2>3. \A d \in Days : credits[d] # 0 => credits'[d] # 0
    BY <1>0, <2>1, <2>2
  <2>4. QED
    BY <2>1, <2>3 DEF ScoresStay
<1>4. ASSUME NEW j \in FinalJobs, Bis(j) \/ ClearPrestige(j) \/ AddPrestige(j) \/ MarkPrestige(j)
      PROVE  ScoresStay
  BY <1>4 DEF Bis, ClearPrestige, AddPrestige, MarkPrestige, ScoresStay
<1>5. ASSUME NEW j \in JudgeJobs, WriteResults(j)
      PROVE  ScoresStay
  BY <1>5, ResultsFacts DEF ScoresStay
<1>6. ASSUME NEW j \in FinalJobs, FinalStep(j) \/ FinalError(j)
      PROVE  ScoresStay
  <2>1. CASE Group(j) \/ WriteCredits(j) \/ Bis(j) \/ ClearPrestige(j) \/ AddPrestige(j) \/ MarkPrestige(j)
    BY <1>2, <1>3, <1>4, <2>1
  <2>2. CASE ~(Group(j) \/ WriteCredits(j) \/ Bis(j) \/ ClearPrestige(j) \/ AddPrestige(j) \/ MarkPrestige(j))
    <3>1. UNCHANGED scores
      BY <1>6, <2>2
      DEF FinalStep, FinalError, StartFinalizer, CloseEmptyDay, SelectDays, ReadDay, EndRun, CloseDay,
          CountBlocks, ReadCredits, Publish
    <3>2. QED
      BY <1>1, <3>1
  <2>3. QED
    BY <2>1, <2>2
<1>7. QED
  <2>1. CASE Tick \/ (\E e \in Entries : EntryStep(e)) \/ (\E j \in Jobs : Crash(j)) \/ UNCHANGED vars
    BY <1>1, <2>1 DEF Tick, Crash, vars, EntryStep, Enter, Pull, CommitEntry, CommitPull, Disqualify
  <2>2. ASSUME NEW j \in JudgeJobs, JudgeStep(j) \/ JudgeError(j) \/ Unanswered(j)
        PROVE  ScoresStay
    BY <1>1, <1>5, <2>2, JudgeKeeps, CancelledFacts
  <2>3. QED
    BY <1>6, <2>1, <2>2 DEF Next

(* The four parts of DayFits.  A day is cancelled only as a whole ...        *)
LEMMA CancelledFits ==
    ASSUME Inv, Due, Settled, [Next]_vars, NEW d \in Days, day'[d] = "CANCELLED"
    PROVE  Remaining(d, entry)' = {} /\ \A b \in BlocksOf(d) : block'[b] = "CANCELLED"
<1>0. /\ BlockMoves /\ DayFits(d) /\ day \in [Days -> ShowStatus]
      /\ \A b \in Blocks : BlockFits(b)'
  BY BlocksMove, BlocksFit DEF Settled, Inv, TypeOK
<1>a. \A b \in Blocks : block'[b] = "RESULTS_PUBLISHED" => EntriesOf(b) \cap results' # {}
  BY <1>0 DEF BlockFits, EntriesOf
<1>1. ASSUME day[d] = "CANCELLED", NEW b \in BlocksOf(d)
      PROVE  block'[b] = "CANCELLED"
  <2>1. block[b] = "CANCELLED" /\ b \in Blocks /\ DayOf[b] = d
    BY <1>0, <1>1 DEF DayFits, BlocksOf
  <2>2. block'[b] # "RESULTS_PUBLISHED"
    BY <1>0, <2>1, ResultsStay, Statuses DEF BlockMoves
  <2>3. QED
    BY <1>0, <2>1, <2>2, Statuses DEF BlockMoves
<1>2. ASSUME NEW ent, NEW dy, NEW blk, Closes(d, ent, dy, blk), results' = results,
             NEW b \in BlocksOf(d)
      PROVE  block'[b] = "CANCELLED"
  <2>1. b \in Blocks /\ DayOf[b] = d
    BY DEF BlocksOf
  <2>2. EntriesOf(b) \cap results = {}
    BY <1>2, <2>1 DEF Closes, Remaining, EntriesOf
  <2>3. block'[b] # "RESULTS_PUBLISHED"
    BY <1>2, <1>a, <2>1, <2>2
  <2>4. block'[b] \in Terminal
    BY <1>2, <2>1, Statuses DEF Closes
  <2>5. QED
    BY <2>3, <2>4, Statuses
<1>3. ASSUME NEW c, NEW at, NEW ent, NEW dy, NEW blk, CancelEmpty(c, at, ent, dy, blk),
             dy \in [Days -> ShowStatus], dy[d] # "CANCELLED", results' = results
      PROVE  \A b \in BlocksOf(d) : block'[b] = "CANCELLED"
  <2>1. Closes(c, ent, dy, blk) /\ c = d
    BY <1>3, CancelFacts DEF Closes
  <2>2. QED
    BY <1>2, <1>3, <2>1
<1>4. ASSUME day[d] # "CANCELLED"
      PROVE  \A b \in BlocksOf(d) : block'[b] = "CANCELLED"
  <2>1. ASSUME NEW j \in JudgeJobs, WriteCancelled(j)
        PROVE  \A b \in BlocksOf(d) : block'[b] = "CANCELLED"
    <3> DEFINE dy == IF Entered(j) = {} THEN day ELSE Judging(DayOf[job[j].on])
               blk == [block EXCEPT ![job[j].on] = "CANCELLED"]
    <3>1. CancelEmpty(DayOf[job[j].on], job[j].at, entry', dy, blk) /\ results' = results
      BY <2>1, CancelledFacts
    <3>2. dy \in [Days -> ShowStatus] /\ dy[d] # "CANCELLED"
      BY <1>0, <1>4 DEF Judging, ShowStatus
    <3> HIDE DEF dy, blk
    <3>3. QED
      BY <1>3, <3>1, <3>2
  <2>2. ASSUME NEW j \in JudgeJobs, WriteResults(j)
        PROVE  FALSE
    BY <1>0, <1>4, <2>2, ResultsFacts DEF Judging
  <2>3. ASSUME NEW j, CloseEmptyDay(j) \/ CloseDay(j)
        PROVE  \A b \in BlocksOf(d) : block'[b] = "CANCELLED"
    BY <1>0, <1>3, <1>4, <2>3, ClosingFacts
  <2>4. ASSUME NEW j, Publish(j)
        PROVE  FALSE
    BY <1>0, <1>4, <2>4 DEF Publish
  <2>5. CASE day' = day
    BY <1>4, <2>5
  <2>6. CASE Tick \/ (\E e \in Entries : EntryStep(e)) \/ (\E j \in Jobs : Crash(j)) \/ UNCHANGED vars
    BY <2>5, <2>6 DEF Tick, Crash, show, vars, EntryStep, Enter, Pull, CommitEntry, CommitPull, Disqualify
  <2>7. QED
    BY <2>1, <2>2, <2>3, <2>4, <2>5, <2>6, JudgeKeeps, FinalKeeps DEF Next
<1>5. \A b \in BlocksOf(d) : block'[b] = "CANCELLED"
  BY <1>1, <1>4
<1>6. ASSUME NEW e \in Entries, DayOf[BlockOf[e]] = d
      PROVE  entry'[e] \notin {"ENTERED", "JUDGED"} /\ e \notin results'
  <2>1. BlockOf[e] \in Blocks /\ BlockOf[e] \in BlocksOf(d) /\ e \in EntriesOf(BlockOf[e])
    BY <1>6, Dates DEF BlocksOf, EntriesOf
  <2>2. block'[BlockOf[e]] = "CANCELLED"
    BY <1>5, <2>1
  <2>3. QED
    BY <1>0, <2>1, <2>2, Statuses DEF BlockFits, EntriesOf
<1>7. Remaining(d, entry)' = {}
  BY <1>6 DEF Remaining
<1>8. QED
  BY <1>5, <1>7

(* ... a judged day has results or is cancelled: the run that cancels its    *)
(* last block looks for other entries of the day in the same transaction ... *)
LEMMA JudgedFits ==
    ASSUME Inv, Due, Settled, [Next]_vars, NEW d \in Days, Shown(d)', Unjudged(d)' = {}
    PROVE  PublishedBlocks(d)' # {} \/ day'[d] = "CANCELLED"
<1> SUFFICES ASSUME PublishedBlocks(d)' = {}, day'[d] # "CANCELLED"
             PROVE  FALSE
  OBVIOUS
<1>0. /\ BlockMoves /\ EntryMoves /\ DaysStay /\ DayFits(d)
      /\ day \in [Days -> ShowStatus] /\ block \in [Blocks -> ShowStatus]
      /\ entry \in [Entries -> EntryStatus]
      /\ epoch \in Nat /\ (Tick \/ epoch' = epoch)
      /\ \A b \in Blocks : BlockFits(b) /\ BlockFits(b)'
  BY EntriesMove, BlocksMove, DaysKept, ClockMoves, BlocksFit DEF Settled, Due, Inv, TypeOK
<1>1. PICK b \in Blocks : DayOf[b] = d /\ HasEntries(b)' /\ block'[b] = "CANCELLED"
  BY Statuses DEF Shown, Unjudged, PublishedBlocks, BlocksOf
<1>2. epoch >= 2
  <2>1. CASE Tick
    <3>1. block[b] = "CANCELLED"
      BY <1>1, <2>1 DEF Tick, show
    <3>2. QED
      BY <1>0, <1>1, <3>1, Dates DEF BlockFits
  <2>2. CASE epoch' = epoch
    <3>1. epoch' >= DueAt(DayOf[b])
      BY <1>0, <1>1 DEF BlockFits
    <3>2. QED
      BY <1>0, <2>2, <3>1, Dates
  <2>3. QED
    BY <1>0, <2>1, <2>2
<1>3. \A c \in Blocks : HasEntries(c)' => HasEntries(c)
  BY <1>0, <1>2 DEF EntryMoves, HasEntries, EntriesOf
<1>4. Unjudged(d) # {}
  <2> SUFFICES ASSUME Unjudged(d) = {}
               PROVE  FALSE
    OBVIOUS
  <2>1. PublishedBlocks(d) = {}
    BY <1>2, JudgedStays
  <2>2. Shown(d)
    BY <1>1, <1>3 DEF Shown, BlocksOf
  <2>3. day[d] = "CANCELLED"
    BY <1>0, <2>1, <2>2 DEF DayFits
  <2>4. QED
    BY <1>0, <2>3, Statuses DEF DaysStay
<1>5. PICK c \in Blocks : /\ DayOf[c] = d /\ block[c] \notin Terminal /\ HasEntries(c)
  BY <1>4 DEF Unjudged, BlocksOf
<1>6. HasEntries(c)'
  BY <1>0, <1>5, HasEntriesStays
<1>7. block'[c] = "CANCELLED"
  BY <1>5, <1>6, Statuses DEF Unjudged, PublishedBlocks, BlocksOf
<1>8. day[d] \notin Terminal
  <2>1. day[d] # "RESULTS_PUBLISHED"
    BY <1>0, <1>4 DEF DayFits
  <2>2. QED
    BY <1>0, <2>1, Statuses DEF DaysStay
<1>9. ASSUME NEW g, NEW at, NEW ent, NEW dy, NEW blk, CancelEmpty(g, at, ent, dy, blk),
             dy \in [Days -> ShowStatus], dy[d] # "CANCELLED", blk[c] \notin Terminal
      PROVE  FALSE
  <2>1. Closes(g, ent, dy, blk) /\ g = d
    BY <1>5, <1>7, <1>9, CancelFacts, Statuses DEF Closes
  <2>2. day'[d] = "CANCELLED"
    BY <1>9, <2>1 DEF Closes
  <2>3. QED
    BY <2>2
<1>10. ASSUME NEW j \in JudgeJobs, WriteCancelled(j)
       PROVE  FALSE
  <2> DEFINE dy == IF Entered(j) = {} THEN day ELSE Judging(DayOf[job[j].on])
             blk == [block EXCEPT ![job[j].on] = "CANCELLED"]
  <2>1. /\ CancelEmpty(DayOf[job[j].on], job[j].at, entry', dy, blk) /\ results' = results
        /\ job[j].pc = "write"
    BY <1>10, CancelledFacts
  <2>2. dy \in [Days -> ShowStatus] /\ dy[d] \notin Terminal
    BY <1>0, <1>8, Statuses DEF Judging, ShowStatus
  <2>3. c # job[j].on => blk[c] \notin Terminal
    BY <1>0, <1>5
  <2> HIDE DEF dy, blk
  <2>4. c = job[j].on
    BY <1>9, <2>1, <2>2, <2>3, Statuses
  <2>5. job[j].at >= DueAt(d)
    BY <1>5, <2>1, <2>4, WriterIsLate, Statuses
  <2>6. ~IsEmpty(d, job[j].at, entry', dy)
    <3>1. ~Closes(d, entry', dy, blk)
      BY <2>2 DEF Closes
    <3>2. QED
      BY <1>5, <2>1, <2>4, <3>1, CancelFacts
  <2>7. PICK e \in Remaining(d, entry') : TRUE
    BY <2>2, <2>5, <2>6 DEF IsEmpty
  <2>8. /\ e \in Entries /\ DayOf[BlockOf[e]] = d
        /\ entry'[e] \in {"ENTERED", "JUDGED"} \/ e \in results'
        /\ BlockOf[e] \in Blocks /\ e \in EntriesOf(BlockOf[e])
    BY <2>1, <2>7, Dates DEF Remaining, EntriesOf
  <2>9. CASE entry'[e] = "JUDGED" \/ e \in results'
    <3>1. block'[BlockOf[e]] = "RESULTS_PUBLISHED"
      BY <1>0, <2>8, <2>9 DEF BlockFits, EntriesOf
    <3>2. QED
      BY <2>8, <3>1 DEF PublishedBlocks, BlocksOf
  <2>10. CASE entry'[e] = "ENTERED"
    <3>1. block'[BlockOf[e]] \notin Terminal
      BY <1>0, <2>8, <2>10 DEF BlockFits, EntriesOf
    <3>2. HasEntries(BlockOf[e])'
      BY <2>8, <2>10 DEF HasEntries, EntriesOf
    <3>3. QED
      BY <2>8, <3>1, <3>2 DEF Unjudged, BlocksOf
  <2>11. QED
    BY <2>8, <2>9, <2>10
<1>11. ASSUME NEW j \in JudgeJobs, WriteResults(j)
       PROVE  FALSE
  BY <1>0, <1>5, <1>7, <1>11, ResultsFacts, Statuses
<1>12. ASSUME NEW j \in JudgeJobs, Claims(j) \/ Release(j)
       PROVE  FALSE
  <2>1. CASE Claims(j)
    BY <1>0, <1>5, <1>7, <2>1, Statuses DEF Claims
  <2>2. CASE Release(j)
    <3>1. job[j].prior \notin Terminal /\ block' = [block EXCEPT ![job[j].on] = Released(j)]
      BY <2>2 DEF Release, Inv, RunRows, JudgeRow, Working
    <3>2. QED
      BY <1>0, <1>5, <1>7, <3>1, Statuses DEF Released
  <2>3. QED
    BY <1>12, <2>1, <2>2
<1>13. ASSUME NEW j, CloseEmptyDay(j) \/ CloseDay(j)
       PROVE  FALSE
  BY <1>0, <1>5, <1>8, <1>9, <1>13, ClosingFacts, Statuses
<1>14. CASE block' = block
  BY <1>5, <1>7, <1>14, Statuses
<1>15. CASE Tick \/ (\E e \in Entries : EntryStep(e)) \/ (\E j \in Jobs : Crash(j)) \/ UNCHANGED vars
  BY <1>14, <1>15 DEF Tick, Crash, show, vars, EntryStep, Enter, Pull, CommitEntry, CommitPull, Disqualify
<1>16. QED
  BY <1>10, <1>11, <1>12, <1>13, <1>14, <1>15, JudgeKeeps, FinalKeeps DEF Next

(* ... finals are written when all breeds are judged ...                     *)
LEMMA FinalsFit ==
    ASSUME Inv, Due, Settled, [Next]_vars, NEW d \in Days, finals'[d] # {}
    PROVE  Unjudged(d)' = {} /\ finals'[d] = PublishedBlocks(d)'
<1>1. ScoresStay /\ DayFits(d)
  BY ScoresKept DEF Settled
<1>2. CASE finals'[d] = finals[d]
  <2>1. Unjudged(d) = {} /\ finals[d] = PublishedBlocks(d)
    BY <1>1, <1>2 DEF DayFits
  <2>2. PICK b \in Blocks : DayOf[b] = d /\ block[b] = "RESULTS_PUBLISHED"
    BY <1>2, <2>1 DEF PublishedBlocks, BlocksOf
  <2>3. epoch >= 2
    BY <2>2, Dates DEF Due, BlockFits, Inv, TypeOK
  <2>4. QED
    BY <1>2, <2>1, <2>3, JudgedStays
<1>3. CASE finals'[d] # finals[d]
  <2>1. PICK j \in FinalJobs : /\ job[j].pc = "group" /\ job[j].on = d
                               /\ finals'[d] = PublishedBlocks(d)
    BY <1>1, <1>3 DEF ScoresStay
  <2>2. Unjudged(d) = {} /\ epoch >= 2
    BY <2>1, PhaseIsLate DEF Settled, PhaseFits, Phases, OnDay
  <2>3. QED
    BY <2>1, <2>2, JudgedStays
<1>4. QED
  BY <1>2, <1>3

LEMMA WhoPublished ==
    ASSUME Inv, [Next]_vars, NEW d \in Days,
           day'[d] = "RESULTS_PUBLISHED", day[d] # "RESULTS_PUBLISHED"
    PROVE  \E j \in FinalJobs : Publish(j) /\ job[j].on = d /\ Publishable(d)
<1>0. day \in [Days -> ShowStatus]
  BY DEF Inv, TypeOK
<1>1. ASSUME NEW j \in FinalJobs, Publish(j)
      PROVE  job[j].on = d /\ Publishable(d)
  BY <1>0, <1>1 DEF Publish
<1>2. ASSUME NEW g, NEW at, NEW ent, NEW dy, NEW blk, CancelEmpty(g, at, ent, dy, blk),
             dy \in [Days -> ShowStatus], dy[d] # "RESULTS_PUBLISHED"
      PROVE  FALSE
  BY <1>2, CancelFacts DEF Closes
<1>3. ASSUME NEW j \in JudgeJobs, WriteCancelled(j)
      PROVE  FALSE
  <2> DEFINE dy == IF Entered(j) = {} THEN day ELSE Judging(DayOf[job[j].on])
             blk == [block EXCEPT ![job[j].on] = "CANCELLED"]
  <2>1. CancelEmpty(DayOf[job[j].on], job[j].at, entry', dy, blk)
    BY <1>3, CancelledFacts
  <2>2. dy \in [Days -> ShowStatus] /\ dy[d] # "RESULTS_PUBLISHED"
    BY <1>0 DEF Judging, ShowStatus
  <2> HIDE DEF dy, blk
  <2>3. QED
    BY <1>2, <2>1, <2>2
<1>4. ASSUME NEW j \in JudgeJobs, WriteResults(j)
      PROVE  FALSE
  BY <1>0, <1>4, ResultsFacts DEF Judging
<1>5. ASSUME NEW j, CloseEmptyDay(j) \/ CloseDay(j)
      PROVE  FALSE
  BY <1>0, <1>2, <1>5, ClosingFacts
<1>6. CASE Tick \/ (\E e \in Entries : EntryStep(e)) \/ (\E j \in Jobs : Crash(j)) \/ UNCHANGED vars
  BY <1>6 DEF Tick, Crash, show, vars, EntryStep, Enter, Pull, CommitEntry, CommitPull, Disqualify
<1>7. QED
  BY <1>1, <1>3, <1>4, <1>5, <1>6, JudgeKeeps, FinalKeeps DEF Next

(* ... and a day is published after all of it.                               *)
LEMMA PublishedFits ==
    ASSUME Inv, Due, Settled, [Next]_vars, NEW d \in Days, day'[d] = "RESULTS_PUBLISHED"
    PROVE  /\ Unjudged(d)' = {} /\ PublishedBlocks(d)' # {}
           /\ finals'[d] # {} /\ d \in bis' /\ credits'[d] # 0 /\ d \in calculated'
<1>0. ScoresStay /\ DayFits(d)
  BY ScoresKept DEF Settled
<1>1. /\ Unjudged(d) = {} /\ PublishedBlocks(d) # {}
      /\ finals[d] # {} /\ d \in bis /\ credits[d] # 0 /\ d \in calculated
  <2>1. CASE day[d] = "RESULTS_PUBLISHED"
    BY <1>0, <2>1 DEF DayFits
  <2>2. CASE day[d] # "RESULTS_PUBLISHED"
    <3>1. PICK j \in FinalJobs : job[j].pc = "publish" /\ job[j].on = d /\ Publishable(d)
      BY <2>2, WhoPublished DEF Publish
    <3>2. Shown(d)
      BY <3>1, PhaseIsLate DEF OnDay
    <3>3. Unjudged(d) = {} /\ d \in calculated /\ day[d] # "CANCELLED"
      BY <3>1 DEF Publishable
    <3>4. PublishedBlocks(d) # {}
      BY <1>0, <3>2, <3>3 DEF DayFits
    <3>5. PhaseFits(j)
      BY DEF Settled
    <3>6. finals[d] # {} /\ d \in bis /\ credits[d] # 0
      BY <3>1, <3>4, <3>5 DEF PhaseFits, Phases, OnDay
    <3>7. QED
      BY <3>3, <3>4, <3>6
  <2>3. QED
    BY <2>1, <2>2
<1>2. PICK b \in Blocks : DayOf[b] = d /\ block[b] = "RESULTS_PUBLISHED"
  BY <1>1 DEF PublishedBlocks, BlocksOf
<1>3. epoch >= 2
  BY <1>2, Dates DEF Due, BlockFits, Inv, TypeOK
<1>4. QED
  BY <1>0, <1>1, <1>3, JudgedStays DEF ScoresStay

LEMMA DaysFit ==
    ASSUME Inv, Due, Settled, [Next]_vars
    PROVE  \A d \in Days : DayFits(d)'
<1> TAKE d \in Days
<1>1. day'[d] = "CANCELLED" =>
         Remaining(d, entry)' = {} /\ \A b \in BlocksOf(d) : block'[b] = "CANCELLED"
  BY CancelledFits
<1>2. Shown(d)' /\ Unjudged(d)' = {} => PublishedBlocks(d)' # {} \/ day'[d] = "CANCELLED"
  BY JudgedFits
<1>3. finals'[d] # {} => Unjudged(d)' = {} /\ finals'[d] = PublishedBlocks(d)'
  BY FinalsFit
<1>4. day'[d] = "RESULTS_PUBLISHED" =>
         /\ Unjudged(d)' = {} /\ PublishedBlocks(d)' # {}
         /\ finals'[d] # {} /\ d \in bis' /\ credits'[d] # 0 /\ d \in calculated'
  BY PublishedFits
<1>5. QED
  BY <1>1, <1>2, <1>3, <1>4 DEF DayFits, BlocksOf

(* What a phase writes.                                                      *)
PhaseWrites(j) ==
    LET x == job[j]
        y == job'[j]
    IN  /\ y.pc = "bis" => finals'[x.on] = GroupFinals(x.on)
        /\ y.pc = "readCredits" => bis' = bis \cup BestInShow(x.on)
        /\ y.pc = "clearPrestige" => credits'[x.on] = IF Credited(j) THEN x.at ELSE credits[x.on]

LEMMA PhasesWrite ==
    ASSUME Inv, Due, Settled, NEW j \in FinalJobs, FinalStep(j) \/ FinalError(j)
    PROVE  PhaseWrites(j)
<1>0. /\ TypeOK /\ j \in Jobs /\ finals \in [Days -> SUBSET Blocks] /\ credits \in [Days -> Nat]
      /\ job \in [Jobs -> JobRows] /\ job[j] \in JobRows
  BY DEF Inv, TypeOK, Jobs
<1>a. job[j].pc \in OnDay => job[j].on \in Days
  BY DEF Inv, RunRows, FinalRow
<1>1. CASE Group(j)
  <2>1. job'[j].pc = "bis" /\ job[j].on \in Days
    BY <1>0, <1>a, <1>1, GotoAll DEF Group, OnDay
  <2>2. QED
    BY <1>0, <1>1, <2>1 DEF Group, PhaseWrites
<1>2. CASE Bis(j)
  BY <1>0, <1>2, GotoAll DEF Bis, PhaseWrites
<1>3. CASE WriteCredits(j)
  <2>1. job'[j].pc = "clearPrestige" /\ job[j].on \in Days
    BY <1>0, <1>a, <1>3, GotoAll DEF WriteCredits, OnDay
  <2>2. QED
    BY <1>0, <1>3, <2>1 DEF WriteCredits, PhaseWrites
<1>4. CASE ~Group(j) /\ ~Bis(j) /\ ~WriteCredits(j)
  <2>1. FinalTurn(j) /\ \A l : Goto(j, l) => job'[j].pc = l
    BY <1>0, FinalTurns, GotoAll
  <2>2. job'[j].pc \notin {"bis", "readCredits", "clearPrestige"}
    <3>1. ASSUME NextOne(j, "pickDay")
          PROVE  job'[j].pc = "pickDay"
      BY <1>0, <3>1, NextAll
    <3>2. CASE FinalError(j)
      BY <3>1, <3>2 DEF FinalError, AfterError
    <3>3. CASE FinalStep(j)
      <4>1. job[j].pc \notin {"group", "bis", "writeCredits"}
        BY <1>4, <3>3
        DEF FinalStep, StartFinalizer, CloseEmptyDay, SelectDays, ReadDay, EndRun, CloseDay,
            CountBlocks, ReadCredits, ClearPrestige, AddPrestige, MarkPrestige, Publish
      <4>2. QED
        BY <2>1, <4>1 DEF FinalTurn, Follows
    <3>4. QED
      BY <3>2, <3>3
  <2>3. QED
    BY <2>2 DEF PhaseWrites
<1>5. QED
  BY <1>1, <1>2, <1>3, <1>4

LEMMA ShownStays ==
    ASSUME EntryMoves, NEW d, Shown(d)
    PROVE  Shown(d)'
BY HasEntriesStays DEF Shown, BlocksOf

(* A run that stands still has done what it had, whatever others do.         *)
LEMMA PhaseStands ==
    ASSUME Inv, Due, Settled, [Next]_vars, NEW j \in FinalJobs, job'[j] = job[j]
    PROVE  PhaseFits(j)'
<1>0. PhaseFits(j) /\ EntryMoves /\ ScoresStay
  BY EntriesMove, ScoresKept DEF Settled
<1>1. job[j].pc \in Seeking \cup OnDay => \A c \in job[j].todo : job[j].at >= DueAt(c) /\ Shown(c)'
  BY <1>0, ShownStays DEF PhaseFits
<1>2. CASE job[j].pc \notin OnDay
  <2>1. job[j].pc \notin Phases
    BY <1>2 DEF Phases
  <2>2. QED
    BY <1>1, <1>2, <2>1 DEF PhaseFits
<1>3. CASE job[j].pc \in OnDay
  <2>1. PICK d \in Days : d = job[j].on
    BY <1>3, PhaseIsLate
  <2>2. epoch >= 2 /\ job[j].at >= DueAt(d) /\ Shown(d)'
    BY <1>0, <1>3, <2>1, PhaseIsLate, ShownStays DEF PhaseFits
  <2>3. job[j].pc \in Phases => Unjudged(d) = {}
    BY <1>0, <2>1 DEF PhaseFits
  <2>4. job[j].pc \in Phases => Unjudged(d)' = {} /\ PublishedBlocks(d)' = PublishedBlocks(d)
    BY <2>2, <2>3, JudgedStays
  <2>5. job[j].pc \in Phases /\ PublishedBlocks(d)' # {} =>
           /\ job[j].pc # "group" => finals'[d] # {}
           /\ job[j].pc \notin {"group", "bis"} => d \in bis'
           /\ job[j].pc = "writeCredits" /\ job[j].prior = "RESULTS_PUBLISHED" => credits'[d] # 0
           /\ job[j].pc \notin {"group", "bis", "readCredits", "writeCredits"} => credits'[d] # 0
    BY <1>0, <2>1, <2>4 DEF PhaseFits, ScoresStay
  <2>6. QED
    BY <1>1, <2>1, <2>2, <2>4, <2>5 DEF PhaseFits
<1>4. QED
  BY <1>2, <1>3

(* The next phase of a day finds what the last one wrote.                    *)
LEMMA PhaseGoesOn ==
    ASSUME Inv, Due, Settled, [Next]_vars, NEW j \in FinalJobs, PhaseWrites(j), NEW d \in Days,
           <<job[j].pc, job'[j].pc>> \in Follows, job[j].on = d, job'[j].on = d,
           job'[j].at = job[j].at, job'[j].todo = job[j].todo,
           job'[j].pc \in {"group", "writeCredits"} => Unjudged(d) = {},
           job'[j].pc = "writeCredits" => job'[j].prior = day[d]
    PROVE  PhaseFits(j)'
<1>0. PhaseFits(j) /\ DayFits(d) /\ EntryMoves /\ ScoresStay
  BY EntriesMove, ScoresKept DEF Settled
<1>1. job[j].pc \in OnDay
  BY DEF Follows, OnDay
<1>2. /\ epoch >= 2 /\ job[j].at >= DueAt(d) /\ Shown(d)' /\ job[j].at \in Nat /\ job[j].at >= 2
      /\ \A c \in job[j].todo : job[j].at >= DueAt(c) /\ Shown(c)'
  BY <1>0, <1>1, PhaseIsLate, ShownStays DEF PhaseFits
<1>3. ASSUME job'[j].pc \in Phases
      PROVE  /\ job[j].pc \in Phases \/ (job[j].pc = "count" /\ job'[j].pc = "group")
             /\ Unjudged(d)' = {} /\ PublishedBlocks(d)' = PublishedBlocks(d)
  <2>1. job[j].pc \in Phases \/ (job[j].pc = "count" /\ job'[j].pc = "group")
    BY <1>3 DEF Follows, Phases, OnDay
  <2>2. Unjudged(d) = {}
    BY <1>0, <2>1 DEF PhaseFits
  <2>3. QED
    BY <1>2, <2>1, <2>2, JudgedStays
<1>4. ASSUME job'[j].pc \in Phases, PublishedBlocks(d)' # {}
      PROVE  /\ job'[j].pc # "group" => finals'[d] # {}
             /\ job'[j].pc \notin {"group", "bis"} => d \in bis'
             /\ job'[j].pc = "writeCredits" /\ job'[j].prior = "RESULTS_PUBLISHED" => credits'[d] # 0
             /\ job'[j].pc \notin {"group", "bis", "readCredits", "writeCredits"} => credits'[d] # 0
  <2>1. PublishedBlocks(d) # {}
    BY <1>3, <1>4
  <2>2. CASE job'[j].pc = "group"
    BY <2>2
  <2>3. CASE job'[j].pc = "bis"
    <3>1. finals'[d] = GroupFinals(d)
      BY <2>3 DEF PhaseWrites
    <3>2. QED
      BY <2>1, <2>3, <3>1 DEF GroupFinals
  <2>4. CASE job'[j].pc \notin {"group", "bis"}
    <3>1. job[j].pc \in Phases /\ job[j].pc # "group"
      BY <1>3, <1>4, <2>4 DEF Follows
    <3>2. finals[d] # {} /\ (job[j].pc # "bis" => d \in bis)
      BY <1>0, <2>1, <3>1 DEF PhaseFits
    <3>3. finals'[d] # {} /\ (job[j].pc # "bis" => d \in bis')
      BY <1>0, <3>2 DEF ScoresStay
    <3>4. CASE job'[j].pc = "readCredits"
      <4>1. d \in bis'
        BY <3>2, <3>4 DEF PhaseWrites, BestInShow
      <4>2. QED
        BY <3>3, <3>4, <4>1
    <3>5. CASE job'[j].pc = "writeCredits"
      <4>1. job[j].pc # "bis"
        BY <3>5 DEF Follows
      <4>2. day[d] = "RESULTS_PUBLISHED" => credits[d] # 0
        BY <1>0 DEF DayFits
      <4>3. QED
        BY <1>0, <3>3, <3>5, <4>1, <4>2 DEF ScoresStay
    <3>6. CASE job'[j].pc = "clearPrestige"
      <4>1. job[j].pc = "writeCredits"
        BY <3>6 DEF Follows
      <4>2. credits'[d] = IF Credited(j) THEN job[j].at ELSE credits[d]
        BY <3>6 DEF PhaseWrites
      <4>3. job[j].prior = "RESULTS_PUBLISHED" => credits[d] # 0
        BY <1>0, <2>1, <3>1, <4>1 DEF PhaseFits
      <4>4. ~Credited(j) => job[j].prior = "RESULTS_PUBLISHED"
        BY <2>1 DEF Credited
      <4>5. credits'[d] # 0
        BY <1>2, <4>2, <4>3, <4>4
      <4>6. QED
        BY <3>3, <3>6, <4>1, <4>5
    <3>7. CASE job'[j].pc \in {"addPrestige", "markPrestige", "publish"}
      <4>1. job[j].pc \in {"clearPrestige", "addPrestige", "markPrestige"}
        BY <3>7 DEF Follows
      <4>2. credits[d] # 0
        BY <1>0, <2>1, <3>1, <4>1 DEF PhaseFits
      <4>3. QED
        BY <1>0, <3>3, <3>7, <4>1, <4>2 DEF ScoresStay
    <3>8. QED
      BY <1>4, <2>4, <3>4, <3>5, <3>6, <3>7 DEF Phases, OnDay
  <2>5. QED
    BY <2>2, <2>3, <2>4
<1>5. QED
  BY <1>2, <1>3, <1>4 DEF PhaseFits

LEMMA WhoMoved ==
    ASSUME Inv, [Next]_vars, NEW j \in FinalJobs, job'[j] # job[j]
    PROVE  FinalStep(j) \/ FinalError(j) \/ job'[j].pc = "idle"
<1>0. TypeOK /\ JudgeJobs \cap FinalJobs = {} /\ j \in Jobs /\ job \in [Jobs -> JobRows]
  BY JobsAssumption DEF Inv, TypeOK, Jobs
<1>1. ASSUME NEW i \in JudgeJobs, JudgeStep(i) \/ JudgeError(i) \/ Unanswered(i)
      PROVE  FALSE
  BY <1>0, <1>1, JudgeTurns DEF Only
<1>2. ASSUME NEW i \in FinalJobs, FinalStep(i) \/ FinalError(i)
      PROVE  i = j
  BY <1>0, <1>2, FinalTurns DEF Only
<1>3. ASSUME NEW i \in Jobs, Crash(i)
      PROVE  job'[j].pc = "idle"
  BY <1>0, <1>3 DEF Crash, Idle
<1>4. ~Tick /\ ~(\E e \in Entries : EntryStep(e)) /\ ~UNCHANGED vars
  BY DEF Tick, EntryStep, Enter, Pull, CommitEntry, CommitPull, Disqualify, vars
<1>5. QED
  BY <1>1, <1>2, <1>3, <1>4 DEF Next

LEMMA PhasesFit ==
    ASSUME Inv, Due, Settled, [Next]_vars
    PROVE  \A j \in FinalJobs : PhaseFits(j)'
<1> SUFFICES ASSUME NEW j \in FinalJobs, job'[j] # job[j]
             PROVE  PhaseFits(j)'
  BY PhaseStands
<1>0. PhaseFits(j) /\ EntryMoves
  BY EntriesMove DEF Settled
<1>1. FinalTurn(j)
  BY RunsMove
<1>2. FinalStep(j) \/ FinalError(j) \/ job'[j].pc = "idle"
  BY WhoMoved
<1>3. CASE job'[j].pc \in {"idle", "empties"}
  BY <1>3 DEF PhaseFits, Phases, OnDay, Seeking
<1>4. ASSUME job'[j].pc \in Seeking, job'[j].at = job[j].at,
             \A c \in job'[j].todo : job[j].at >= DueAt(c) /\ Shown(c)
      PROVE  PhaseFits(j)'
  <2>1. \A c \in job'[j].todo : job'[j].at >= DueAt(c) /\ Shown(c)'
    BY <1>0, <1>4, ShownStays
  <2>2. job'[j].pc \notin OnDay /\ job'[j].pc \notin Phases
    BY <1>4 DEF Seeking, OnDay, Phases
  <2>3. QED
    BY <2>1, <2>2 DEF PhaseFits
<1>5. CASE job'[j].pc = "firstDay" /\ job'[j].at = job[j].at /\ job'[j].todo = ReadyDays(job[j].at)
  <2>1. \A c \in ReadyDays(job[j].at) : job[j].at >= DueAt(c) /\ Shown(c)
    BY DEF ReadyDays, Shown
  <2>2. QED
    BY <1>4, <1>5, <2>1 DEF Seeking
<1>6. CASE /\ job[j].pc \in Seeking \cup OnDay
           /\ job'[j].pc = "pickDay" /\ job'[j].at = job[j].at /\ job'[j].todo \subseteq job[j].todo
  BY <1>0, <1>4, <1>6 DEF PhaseFits, Seeking
<1>7. CASE /\ job[j].pc \in Seeking /\ job'[j].pc = "closeDay"
           /\ job'[j].at = job[j].at /\ job'[j].todo = job[j].todo /\ job'[j].on \in job[j].todo
  <2>1. \A c \in job[j].todo : job[j].at >= DueAt(c) /\ Shown(c)'
    BY <1>0, <1>7, ShownStays DEF PhaseFits
  <2>2. job'[j].pc \notin Phases
    BY <1>7 DEF Phases
  <2>3. QED
    BY <1>7, <2>1, <2>2 DEF PhaseFits
<1>8. CASE /\ <<job[j].pc, job'[j].pc>> \in Follows
           /\ job'[j].at = job[j].at /\ job'[j].todo = job[j].todo /\ job'[j].on = job[j].on
           /\ job'[j].pc \in {"group", "writeCredits"} => Unjudged(job[j].on) = {}
           /\ job'[j].pc = "writeCredits" => job'[j].prior = day[job[j].on]
  <2>1. job[j].pc \in OnDay /\ job'[j].pc # "idle"
    BY <1>8 DEF Follows, OnDay
  <2>2. PICK d \in Days : d = job[j].on
    BY <2>1, PhaseIsLate
  <2>3. PhaseWrites(j)
    BY <1>2, <2>1, PhasesWrite
  <2>4. QED
    BY <1>8, <2>2, <2>3, PhaseGoesOn
<1>9. QED
  BY <1>1, <1>3, <1>5, <1>6, <1>7, <1>8 DEF FinalTurn

LEMMA ClusterFits ==
    ASSUME Inv, Due, Settled, [Next]_vars
    PROVE  CompleteClusterIsSettled'
<1>0. DaysStay /\ CompleteClusterIsSettled /\ day \in [Days -> ShowStatus]
  BY DaysKept DEF Settled, Inv, TypeOK
<1>1. CASE cluster' = cluster
  BY <1>0, <1>1 DEF CompleteClusterIsSettled, DaysStay
<1>2. ASSUME NEW j \in FinalJobs, Publish(j)
      PROVE  CompleteClusterIsSettled'
  <2>1. PICK d \in Days : d = job[j].on
    BY <1>2, PhaseIsLate DEF Publish, OnDay
  <2>2. CASE Publishable(d) /\ Completes(d)
    <3>1. day' = [day EXCEPT ![d] = "RESULTS_PUBLISHED"]
      BY <1>2, <2>1, <2>2 DEF Publish
    <3>2. \A c \in Days : day'[c] \in Terminal
      BY <1>0, <2>2, <3>1, Statuses DEF Completes
    <3>3. QED
      BY <3>2 DEF CompleteClusterIsSettled
  <2>3. CASE ~(Publishable(d) /\ Completes(d))
    BY <1>1, <1>2, <2>1, <2>3 DEF Publish
  <2>4. QED
    BY <2>2, <2>3
<1>3. QED
  <2>1. CASE Tick \/ (\E e \in Entries : EntryStep(e)) \/ (\E j \in Jobs : Crash(j)) \/ UNCHANGED vars
    BY <1>1, <2>1 DEF Tick, Crash, show, vars, EntryStep, Enter, Pull, CommitEntry, CommitPull, Disqualify
  <2>2. QED
    BY <1>1, <1>2, <2>1, JudgeKeeps, FinalKeeps, CancelledFacts, ResultsFacts DEF Next

LEMMA NextSettled ==
    ASSUME Calm, Inv, Due, Settled, [Next]_vars
    PROVE  Settled'
BY WritersFit, DaysFit, PhasesFit, ClusterFits DEF Settled

LEMMA InitSettled == Init => Settled
<1> SUFFICES ASSUME Init
             PROVE  Settled
  OBVIOUS
<1>1. \A j \in Jobs : job[j].pc = "idle"
  BY DEF Init, Idle
<1>2. \A e \in Entries : entry[e] = "NONE"
  BY DEF Init, Unseen
<1>3. \A j \in JudgeJobs : WriterFits(j)
  BY <1>1 DEF WriterFits, Jobs
<1>4. \A j \in FinalJobs : PhaseFits(j)
  BY <1>1 DEF PhaseFits, Phases, OnDay, Seeking, Jobs
<1>5. \A d \in Days : DayFits(d)
  BY <1>2 DEF Init, DayFits, Shown, HasEntries, EntriesOf
<1>6. CompleteClusterIsSettled
  BY DEF Init, CompleteClusterIsSettled
<1>7. QED
  BY <1>3, <1>4, <1>5, <1>6 DEF Settled

LEMMA SettledAlways == Spec => [](Inv /\ Due /\ (Calm => Settled))
<1>1. Init => Inv /\ Due /\ (Calm => Settled)
  BY InitInv, InitDue, InitSettled
<1>2. (Inv /\ Due /\ (Calm => Settled)) /\ [Next]_vars => (Inv /\ Due /\ (Calm => Settled))'
  BY NextInv, NextDue, NextSettled DEF Calm
<1>3. QED
  BY <1>1, <1>2, PTL DEF Spec

(* The group finals of a day chose among the BOBs of all its breeds, and     *)
(* none is published after them: whatever runs overlap, fail or are killed   *)
(* between judging, group finals and Best in Show.  That entries are pulled  *)
(* before the hour of their day (Prompt) and that none is disqualified while *)
(* its results are written is needed: else the block that was counted as     *)
(* closed is judged after the finals.                                        *)
THEOREM FinalsAreWhole == Calm => (Spec => []FinalsSeeEveryBreed)
<1>1. Calm /\ (Inv /\ Due /\ (Calm => Settled)) => FinalsSeeEveryBreed
  BY DEF Settled, DayFits, FinalsSeeEveryBreed
<1>2. ASSUME Calm
      PROVE  Spec => []FinalsSeeEveryBreed
  <2>1. (Inv /\ Due /\ (Calm => Settled)) => FinalsSeeEveryBreed
    BY <1>1, <1>2
  <2>2. QED
    BY <2>1, SettledAlways, PTL
<1>3. QED
  BY <1>2

(* A published day is complete and a cancelled one has no results, although  *)
(* several runs share the phases of a day and any of them may end between    *)
(* two: each phase looks again whether something is left to judge.           *)
THEOREM ClosedDaysSettled == Calm => (Spec => []ClosedDayIsSettled)
<1>1. Inv /\ Settled => ClosedDayIsSettled
  BY DEF Settled, DayFits, ClosedDayIsSettled, BlocksOf
<1>2. ASSUME Calm
      PROVE  Spec => []ClosedDayIsSettled
  <2>1. (Inv /\ Due /\ (Calm => Settled)) => ClosedDayIsSettled
    BY <1>1, <1>2
  <2>2. QED
    BY <2>1, SettledAlways, PTL
<1>3. QED
  BY <1>2

(* The cluster is complete only when all its days are, whichever of them is  *)
(* published last.                                                           *)
THEOREM CompleteClustersSettled == Calm => (Spec => []CompleteClusterIsSettled)
<1>1. ASSUME Calm
      PROVE  Spec => []CompleteClusterIsSettled
  <2>1. (Inv /\ Due /\ (Calm => Settled)) => CompleteClusterIsSettled
    BY <1>1 DEF Settled
  <2>2. QED
    BY <2>1, SettledAlways, PTL
<1>2. QED
  BY <1>1

(* A published or cancelled day is never opened again, neither by a run that *)
(* judges a late block of it nor by one that publishes a day it listed       *)
(* before.                                                                   *)
ClosedDaysStay == [][\A d \in Days : day[d] \in Terminal => day'[d] = day[d]]_vars

THEOREM ClosedDaysAreFinal == Calm => (Spec => ClosedDaysStay)
<1>1. ASSUME Calm
      PROVE  Spec => ClosedDaysStay
  <2>1. (Inv /\ Due /\ (Calm => Settled)) /\ [Next]_vars =>
           [\A d \in Days : day[d] \in Terminal => day'[d] = day[d]]_vars
    BY <1>1, DaysKept DEF DaysStay
  <2>2. QED
    BY <2>1, SettledAlways, PTL DEF Spec, ClosedDaysStay
<1>2. QED
  BY <1>1

-----------------------------------------------------------------------------
(* Claims                                                                    *)

(* Besides its own claim, which it then works under, a run makes a block     *)
(* JUDGING only by restoring the JUDGING it had read; and it stops working   *)
(* under a claim only by writing the block or giving it back.                *)
LEMMA JudgeGivesBack ==
    ASSUME Inv, NEW j \in JudgeJobs, JudgeStep(j) \/ JudgeError(j),
           NEW b \in Blocks, ~Orphaned(b), Orphaned(b)'
    PROVE  job[j].on = b /\ job[j].pc = "release" /\ job[j].prior = "JUDGING"
<1>0. /\ TypeOK /\ block \in [Blocks -> ShowStatus] /\ job \in [Jobs -> JobRows]
      /\ j \in Jobs /\ JudgeJobs \subseteq Jobs
      /\ \A l : Goto(j, l) => job'[j].pc = l /\ job'[j].on = job[j].on
      /\ Only(j)
      /\ block'[b] = "JUDGING"
      /\ job'[j].on = b => job'[j].pc \notin Working
  BY GotoAll, JudgeTurns DEF Inv, TypeOK, Jobs, Orphaned
<1>1. block[b] = "JUDGING" => job[j].on = b /\ job[j].pc \in Working
  BY <1>0 DEF Orphaned, Only
<1>2. CASE Claim(j)
  BY <1>0, <1>1, <1>2, Statuses DEF Claim
<1>3. CASE Release(j)
  <2>1. job[j].pc = "release" /\ block' = [block EXCEPT ![job[j].on] = Released(j)]
    BY <1>3 DEF Release
  <2>2. job[j].on \in Blocks
    BY <2>1, Statuses DEF Inv, RunRows, JudgeRow
  <2>3. CASE job[j].on = b
    <3>1. Released(j) = "JUDGING"
      BY <1>0, <2>1, <2>2, <2>3
    <3>2. QED
      BY <1>1, <2>1, <2>3, <3>1 DEF Released
  <2>4. CASE job[j].on # b
    BY <1>0, <1>1, <2>1, <2>4
  <2>5. QED
    BY <2>3, <2>4
<1>4. CASE WriteResults(j)
  BY <1>0, <1>1, <1>4, ResultsFacts
<1>5. CASE WriteCancelled(j)
  <2> DEFINE blk == [block EXCEPT ![job[j].on] = "CANCELLED"]
  <2>1. PICK d, at, ent, dy : CancelEmpty(d, at, ent, dy, blk)
    BY <1>5, CancelledFacts
  <2>2. blk[b] = "JUDGING" => block[b] = "JUDGING" /\ b # job[j].on
    BY <1>0
  <2> HIDE DEF blk
  <2>3. blk[b] = "JUDGING"
    BY <1>0, <2>1, CancelFacts DEF Closes
  <2>4. QED
    BY <1>1, <2>2, <2>3
<1>6. CASE ~Claim(j) /\ ~Release(j) /\ ~WriteResults(j) /\ ~WriteCancelled(j)
  <2>0. block' = block
    BY <1>6 DEF JudgeStep, JudgeError, SelectBlocks, ReadBlock, EndRun, Prepare, Check, show
  <2>1. job[j].on = b /\ job[j].pc \in Working
    BY <1>0, <1>1, <2>0
  <2>2. CASE Prepare(j)
    <3>1. PICK fit \in Dispositions(job[j].on) :
            job' = [job EXCEPT
                      ![j].pc = IF day[DayOf[job[j].on]] = "CANCELLED" THEN "release" ELSE "check",
                      ![j].seen = [e \in Entries |->
                                     IF e \in EntriesOf(job[j].on) THEN entry[e] ELSE "NONE"],
                      ![j].fit = fit]
      BY <2>2 DEF Prepare
    <3>2. job'[j].pc \in {"release", "check"} /\ job'[j].on = job[j].on
      BY <1>0, <3>1 DEF JobRows
    <3>3. QED
      BY <1>0, <2>1, <3>2, Statuses
  <2>3. CASE Check(j) \/ JudgeError(j)
    BY <1>0, <2>1, <2>3, Statuses DEF Check, JudgeError
  <2>4. QED
    BY <1>6, <2>1, <2>2, <2>3, Statuses DEF JudgeStep, SelectBlocks, ReadBlock, EndRun
<1>7. QED
  BY <1>2, <1>3, <1>4, <1>5, <1>6

(* Whatever runs overlap and fail, a claim is left behind only when a run is *)
(* killed, when the database does not answer its claim or its release, or    *)
(* when a run restores the JUDGING of another run that it had read before it *)
(* claimed the block itself.                                                 *)
THEOREM ClaimsComeBack == Spec => ClaimIsGivenBack
<1> DEFINE Left(b) == \/ crashes' > crashes
                      \/ lost' > lost
                      \/ \E j \in JudgeJobs :
                            job[j].on = b /\ job[j].pc = "release" /\ job[j].prior = "JUDGING"
<1>1. ASSUME Inv, [Next]_vars, NEW b \in Blocks, ~Orphaned(b), Orphaned(b)'
      PROVE  Left(b)
  <2>0. /\ JudgeJobs \subseteq Jobs /\ JudgeJobs \cap FinalJobs = {}
        /\ crashes \in Nat /\ lost \in Nat
    BY <1>1, JobsAssumption, BoundsAssumption DEF Inv, TypeOK, Jobs
  <2>1. ASSUME block'[b] = "JUDGING" => block[b] = "JUDGING", \A j \in JudgeJobs : job'[j] = job[j]
        PROVE  FALSE
    BY <1>1, <2>1 DEF Orphaned
  <2>2. CASE Tick \/ (\E e \in Entries : EntryStep(e)) \/ UNCHANGED vars
    BY <2>1, <2>2 DEF Tick, vars, show, EntryStep, Enter, Pull, CommitEntry, CommitPull, Disqualify
  <2>3. ASSUME NEW j \in FinalJobs, FinalStep(j) \/ FinalError(j)
        PROVE  FALSE
    <3>1. \A i \in JudgeJobs : job'[i] = job[i]
      BY <1>1, <2>0, <2>3, FinalTurns DEF Only
    <3>2. CASE CloseEmptyDay(j) \/ CloseDay(j)
      <4>1. PICK d : CancelEmpty(d, job[j].at, entry, day, block)
        BY <3>2, ClosingFacts
      <4>2. block'[b] = "JUDGING" => block[b] = "JUDGING"
        BY <4>1, CancelFacts DEF Closes
      <4>3. QED
        BY <2>1, <3>1, <4>2
    <3>3. QED
      BY <2>1, <2>3, <3>1, <3>2, FinalKeeps
  <2>4. ASSUME NEW j \in Jobs, Crash(j)
        PROVE  Left(b)
    BY <2>0, <2>4 DEF Crash
  <2>5. ASSUME NEW j \in JudgeJobs, Unanswered(j)
        PROVE  Left(b)
    BY <2>0, <2>5 DEF Unanswered
  <2>6. ASSUME NEW j \in JudgeJobs, JudgeStep(j) \/ JudgeError(j)
        PROVE  Left(b)
    BY <1>1, <2>6, JudgeGivesBack
  <2>7. QED
    BY <1>1, <2>2, <2>3, <2>4, <2>5, <2>6 DEF Next
<1>2. Inv /\ [Next]_vars => [\A b \in Blocks : ~Orphaned(b) /\ Orphaned(b)' => Left(b)]_vars
  BY <1>1
<1>3. QED
  BY <1>2, Invariance, PTL DEF Spec, ClaimIsGivenBack

-----------------------------------------------------------------------------
(* Prestige                                                                  *)

(* The third layer, for any number of finalizers: a day that is published,   *)
(* or about to be, has its prestige credits, or a run that will create them, *)
(* or one that was to and stopped, or nothing to give credits for.           *)
Scoring(d) ==
    \/ day[d] = "RESULTS_PUBLISHED"
    \/ \E j \in FinalJobs : /\ job[j].on = d
                            /\ job[j].pc \in {"addPrestige", "markPrestige", "publish"}

PrestigeFits == \A d \in Days : Scoring(d) => HasPrestige(d) \/ PublishedBlocks(d) = {}

(* What a run does to the credits of a day.                                  *)
ScoreTurn(j) ==
    LET x == job[j]
        y == job'[j]
    IN  \/ y.pc = "addPrestige" /\ x.pc = "clearPrestige" /\ y.on = x.on
           /\ prestige' = prestige \ {x.on} /\ cut' = cut
        \/ /\ x.pc = "addPrestige" /\ y.pc # "addPrestige"
           /\ \/ x.on \in prestige /\ prestige' = prestige /\ cut' = cut
              \/ prestige' = prestige \cup Scored(x.on) /\ cut' = cut \ {x.on}
              \/ prestige' = prestige /\ cut' = cut \cup {x.on}
        \/ x.pc # "addPrestige" /\ y.pc # "addPrestige" /\ prestige' = prestige /\ cut' = cut

LEMMA ScoreTurns ==
    ASSUME Inv, NEW j \in FinalJobs, FinalStep(j) \/ FinalError(j) \/ Crash(j)
    PROVE  Only(j) /\ ScoreTurn(j)
<1>0. /\ TypeOK /\ j \in Jobs /\ job \in [Jobs -> JobRows]
      /\ \A l : /\ Goto(j, l) => job'[j].pc = l /\ job'[j].on = job[j].on
                /\ NextOne(j, l) => job'[j].pc = l
  BY GotoAll, NextAll DEF Inv, TypeOK, Jobs
<1>1. CASE ClearPrestige(j)
  BY <1>0, <1>1, GotoAll DEF ClearPrestige, bounds, ScoreTurn
<1>2. CASE AddPrestige(j)
  <2>1. CASE job[j].on \in prestige
    BY <1>0, <1>2, <2>1, NextAll DEF AddPrestige, ScoreTurn
  <2>2. CASE job[j].on \notin prestige
    BY <1>0, <1>2, <2>2, GotoAll DEF AddPrestige, ScoreTurn
  <2>3. QED
    BY <2>1, <2>2
<1>3. CASE FinalError(j)
  BY <1>0, <1>3, NextAll DEF FinalError, AfterError, Cuts, scores, ScoreTurn
<1>4. CASE Crash(j)
  <2>1. Only(j) /\ job'[j].pc = "idle"
    BY <1>0, <1>4 DEF Crash, Only, Idle
  <2>2. QED
    BY <1>4, <2>1 DEF Crash, Cuts, scores, ScoreTurn
<1>5. CASE FinalStep(j) /\ ~ClearPrestige(j) /\ ~AddPrestige(j)
  <2>1. prestige' = prestige /\ cut' = cut /\ job[j].pc # "addPrestige" /\ job[j].pc # "clearPrestige"
    BY <1>5
    DEF FinalStep, StartFinalizer, CloseEmptyDay, SelectDays, ReadDay, EndRun, CloseDay, CountBlocks,
        Group, Bis, ReadCredits, WriteCredits, MarkPrestige, Publish, scores, bounds
  <2>2. Only(j) /\ FinalTurn(j)
    BY <1>5, FinalTurns
  <2>3. job'[j].pc # "addPrestige"
    BY <2>1, <2>2 DEF FinalTurn, Follows
  <2>4. QED
    BY <2>1, <2>2, <2>3 DEF ScoreTurn
<1>6. QED
  BY <1>1, <1>2, <1>3, <1>4, <1>5

(* Only they do.                                                             *)
LEMMA ScoreMoves ==
    ASSUME Inv, [Next]_vars
    PROVE  \/ /\ prestige' = prestige /\ cut' = cut
              /\ \A i \in FinalJobs : job'[i] = job[i]
           \/ \E j \in FinalJobs : Only(j) /\ ScoreTurn(j)
<1>0. JudgeJobs \cap FinalJobs = {} /\ FinalJobs \subseteq Jobs
  BY JobsAssumption DEF Jobs
<1>1. CASE Tick \/ (\E e \in Entries : EntryStep(e)) \/ UNCHANGED vars
  BY <1>1 DEF Tick, vars, scores, bounds, EntryStep, Enter, Pull, CommitEntry, CommitPull, Disqualify
<1>2. ASSUME NEW j \in JudgeJobs, JudgeStep(j) \/ JudgeError(j) \/ Unanswered(j)
      PROVE  /\ prestige' = prestige /\ cut' = cut
             /\ \A i \in FinalJobs : job'[i] = job[i]
  <2>1. \A i \in FinalJobs : job'[i] = job[i]
    BY <1>0, <1>2, JudgeTurns DEF Only
  <2>2. prestige' = prestige
    BY <1>2, JudgeKeeps, CancelledFacts, ResultsFacts DEF scores
  <2>3. cut' = cut
    BY <1>2 DEF JudgeStep, JudgeError, Unanswered, SelectBlocks, ReadBlock, EndRun, Claim, Prepare,
                Check, WriteCancelled, WriteResults, Release, bounds
  <2>4. QED
    BY <2>1, <2>2, <2>3
<1>3. ASSUME NEW j \in JudgeJobs, Crash(j)
      PROVE  /\ prestige' = prestige /\ cut' = cut
             /\ \A i \in FinalJobs : job'[i] = job[i]
  <2>1. job[j].pc # "addPrestige"
    BY DEF Inv, RunRows, JudgeRow, OnDay
  <2>2. \A i \in FinalJobs : job'[i] = job[i]
    BY <1>0, <1>3 DEF Crash, Inv, TypeOK
  <2>3. QED
    BY <1>3, <2>1, <2>2 DEF Crash, Cuts, scores
<1>4. QED
  BY <1>1, <1>2, <1>3, ScoreTurns DEF Next, Jobs

(* A day keeps its credits, or the prospect of them.                         *)
LEMMA PrestigeStands ==
    ASSUME Inv, [Next]_vars, NEW d \in Days, HasPrestige(d)
    PROVE  HasPrestige(d)' \/ PublishedBlocks(d) = {}
<1>1. CASE prestige' = prestige /\ cut' = cut /\ \A i \in FinalJobs : job'[i] = job[i]
  BY <1>1 DEF HasPrestige
<1>2. ASSUME NEW j \in FinalJobs, Only(j), ScoreTurn(j)
      PROVE  HasPrestige(d)' \/ PublishedBlocks(d) = {}
  <2>1. \A i \in FinalJobs : i # j => job'[i] = job[i]
    BY <1>2 DEF Only, Jobs
  <2>2. CASE job[j].on = d
    BY <1>2, <2>1, <2>2 DEF ScoreTurn, HasPrestige, Scored
  <2>3. CASE job[j].on # d
    BY <1>2, <2>1, <2>3 DEF ScoreTurn, HasPrestige, Scored
  <2>4. QED
    BY <2>2, <2>3
<1>3. QED
  BY <1>1, <1>2, ScoreMoves

LEMMA NextPrestige ==
    ASSUME Inv, Due, Settled, PrestigeFits, [Next]_vars
    PROVE  PrestigeFits'
<1> SUFFICES ASSUME NEW d \in Days, Scoring(d)'
             PROVE  HasPrestige(d)' \/ PublishedBlocks(d)' = {}
  BY DEF PrestigeFits
<1>1. CASE \E j \in FinalJobs : job'[j].on = d /\ job'[j].pc = "addPrestige"
  BY <1>1 DEF HasPrestige
<1>2. CASE ~\E j \in FinalJobs : job'[j].on = d /\ job'[j].pc = "addPrestige"
  <2>1. Scoring(d)
    <3>1. CASE day'[d] = "RESULTS_PUBLISHED" /\ day[d] # "RESULTS_PUBLISHED"
      BY <3>1, WhoPublished DEF Publish, Scoring
    <3>2. ASSUME NEW j \in FinalJobs, job'[j].on = d, job'[j].pc \in {"markPrestige", "publish"}
          PROVE  Scoring(d)
      <4>1. CASE job'[j] = job[j]
        BY <3>2, <4>1 DEF Scoring
      <4>2. CASE job'[j] # job[j]
        <5>1. FinalTurn(j)
          BY <4>2, RunsMove
        <5>2. job'[j].on = job[j].on /\ job[j].pc \in {"addPrestige", "markPrestige"}
          BY <3>2, <5>1 DEF FinalTurn, Follows
        <5>3. QED
          BY <3>2, <5>2 DEF Scoring
      <4>3. QED
        BY <4>1, <4>2
    <3>3. QED
      BY <1>2, <3>1, <3>2 DEF Scoring
  <2>2. CASE day[d] = "RESULTS_PUBLISHED"
    <3>1. PublishedBlocks(d) # {}
      BY <2>2 DEF Settled, DayFits
    <3>2. QED
      BY <2>1, <3>1, PrestigeStands DEF PrestigeFits
  <2>3. ASSUME NEW j \in FinalJobs, job[j].on = d,
               job[j].pc \in {"addPrestige", "markPrestige", "publish"}
        PROVE  HasPrestige(d)' \/ PublishedBlocks(d)' = {}
    <3>1. epoch >= 2 /\ Unjudged(d) = {}
      BY <2>3, PhaseIsLate DEF Settled, PhaseFits, Phases, OnDay
    <3>2. PublishedBlocks(d)' = PublishedBlocks(d)
      BY <3>1, JudgedStays
    <3>3. QED
      BY <2>1, <3>2, PrestigeStands DEF PrestigeFits
  <2>4. QED
    BY <2>1, <2>2, <2>3 DEF Scoring
<1>3. QED
  BY <1>1, <1>2

(* A published day has its prestige credits, although they are deleted and   *)
(* created again outside any transaction while other finalizers publish it:  *)
(* whichever run finds them gone is about to create them, and only a run     *)
(* that an error or a kill stops right there leaves the day without.         *)
THEOREM PrestigeStays == Calm => (Spec => []PrestigeIsKept)
<1>1. ASSUME Calm
      PROVE  Spec => []PrestigeIsKept
  <2>1. Init => PrestigeFits
    <3>1. Init => \A j \in Jobs : job[j].pc = "idle"
      BY DEF Init, Idle
    <3>2. QED
      BY <3>1 DEF Init, PrestigeFits, Scoring, Jobs
  <2>2. (Inv /\ Due /\ (Calm => Settled)) /\ PrestigeFits /\ [Next]_vars => PrestigeFits'
    BY <1>1, NextPrestige
  <2>3. (Inv /\ Due /\ (Calm => Settled)) /\ PrestigeFits => PrestigeIsKept
    BY <1>1 DEF PrestigeFits, Scoring, Settled, DayFits, PrestigeIsKept
  <2>4. QED
    BY <2>1, <2>2, <2>3, SettledAlways, PTL DEF Spec
<1>2. QED
  BY <1>1

-----------------------------------------------------------------------------
(* Grand champion credits                                                    *)

(* The third layer, when finalizers do not overlap: no run works on a        *)
(* published day.                                                            *)
OneFinalizer == \A i, j \in FinalJobs : i = j

Kept ==
    \A j \in FinalJobs :
        /\ job[j].pc \in Seeking \cup OnDay =>
              \A d \in job[j].todo : day[d] # "RESULTS_PUBLISHED"
        /\ job[j].pc \in OnDay => day[job[j].on] # "RESULTS_PUBLISHED"

LEMMA PublishedIsFree ==
    ASSUME OneFinalizer, Inv, Due, Settled, Kept, [Next]_vars,
           NEW j \in FinalJobs, NEW d \in Days, day'[d] = "RESULTS_PUBLISHED"
    PROVE  \/ day[d] = "RESULTS_PUBLISHED"
           \/ /\ Publish(j) /\ job[j].pc = "publish" /\ job[j].on = d
              /\ job'[j].pc = "pickDay" /\ job'[j].todo = job[j].todo \ {d}
<1>1. ASSUME day[d] # "RESULTS_PUBLISHED"
      PROVE  Publish(j) /\ job[j].pc = "publish" /\ job[j].on = d /\ NextOne(j, "pickDay")
  BY <1>1, WhoPublished DEF OneFinalizer, Publish
<1>2. QED
  BY <1>1, NextAll DEF Inv, Jobs

LEMMA FreeFits ==
    ASSUME OneFinalizer, Inv, Due, Settled, Kept, [Next]_vars, NEW j \in FinalJobs
    PROVE  /\ job'[j].pc \in Seeking \cup OnDay =>
                \A d \in job'[j].todo : day'[d] # "RESULTS_PUBLISHED"
           /\ job'[j].pc \in OnDay => day'[job'[j].on] # "RESULTS_PUBLISHED"
<1>0. /\ job[j].todo \subseteq Days /\ (job[j].pc \in OnDay => job[j].on \in Days)
      /\ Inv' /\ job'[j].todo \subseteq Days /\ (job'[j].pc \in OnDay => job'[j].on \in Days)
      /\ Seeking \cap OnDay = {} /\ "publish" \in OnDay /\ "pickDay" \notin OnDay
  BY NextInv DEF Inv, RunRows, FinalRow, Seeking, OnDay
<1>a. ASSUME NEW d \in Days, day[d] # "RESULTS_PUBLISHED", day'[d] = "RESULTS_PUBLISHED"
      PROVE  /\ job[j].pc = "publish" /\ job[j].on = d
             /\ job'[j].pc = "pickDay" /\ job'[j].todo = job[j].todo \ {d}
  BY <1>a, PublishedIsFree
<1>1. CASE job'[j] = job[j]
  BY <1>0, <1>1, <1>a DEF Kept
<1>2. CASE job'[j] # job[j]
  <2>1. FinalTurn(j)
    BY <1>2, RunsMove
  <2>2. CASE job'[j].pc \in {"idle", "empties"}
    BY <2>2 DEF Seeking, OnDay
  <2>3. CASE job'[j].pc = "firstDay" /\ job'[j].todo = ReadyDays(job[j].at)
    <3>1. \A d \in ReadyDays(job[j].at) : d \in Days /\ Unfinished(d) /\ DayFits(d)
      BY DEF ReadyDays, Settled
    <3>2. \A d \in ReadyDays(job[j].at) : day[d] # "RESULTS_PUBLISHED"
      BY <3>1 DEF Unfinished, DayFits
    <3>3. QED
      BY <1>0, <1>a, <2>3, <3>1, <3>2 DEF OnDay
  <2>4. CASE /\ job[j].pc \in Seeking \cup OnDay /\ job'[j].pc = "pickDay"
             /\ job'[j].todo \subseteq job[j].todo
    BY <1>0, <1>a, <2>4 DEF Kept
  <2>5. CASE /\ job[j].pc \in Seeking /\ job'[j].pc = "closeDay"
             /\ job'[j].todo = job[j].todo /\ job'[j].on \in job[j].todo
    BY <1>0, <1>a, <2>5 DEF Kept
  <2>6. CASE /\ <<job[j].pc, job'[j].pc>> \in Follows
             /\ job'[j].todo = job[j].todo /\ job'[j].on = job[j].on
    <3>1. job[j].pc \in OnDay /\ job'[j].pc # "pickDay"
      BY <2>6 DEF Follows, OnDay
    <3>2. QED
      BY <1>0, <1>a, <2>6, <3>1 DEF Kept
  <2>7. QED
    BY <2>1, <2>2, <2>3, <2>4, <2>5, <2>6 DEF FinalTurn
<1>3. QED
  BY <1>1, <1>2

LEMMA KeptAlways == Calm /\ OneFinalizer => (Spec => [](Inv /\ Due /\ Settled /\ Kept))
<1>1. ASSUME Calm, OneFinalizer
      PROVE  Spec => [](Inv /\ Due /\ Settled /\ Kept)
  <2>1. Init => Inv /\ Due /\ Settled /\ Kept
    <3>1. Init => \A j \in Jobs : job[j].pc = "idle"
      BY DEF Init, Idle
    <3>2. Init => Kept
      BY <3>1 DEF Init, Kept, Seeking, OnDay, Jobs
    <3>3. QED
      BY <3>2, InitInv, InitDue, InitSettled
  <2>2. (Inv /\ Due /\ Settled /\ Kept) /\ [Next]_vars => (Inv /\ Due /\ Settled /\ Kept)'
    BY <1>1, NextInv, NextDue, NextSettled, FreeFits DEF Kept
  <2>3. QED
    BY <2>1, <2>2, PTL DEF Spec
<1>2. QED
  BY <1>1

(* The grand champion credits of a published day are not rewritten where one *)
(* finalizer runs at a time, whatever fails: a published day is not chosen   *)
(* again.  A second finalizer can rewrite them (ShowRewrite).                *)
THEOREM CreditsStayFrozen == Calm /\ OneFinalizer => (Spec => CreditsAreFrozen)
<1>1. ASSUME Calm, OneFinalizer
      PROVE  Spec => CreditsAreFrozen
  <2>1. ASSUME Inv, Due, Settled, Kept, [Next]_vars,
               NEW d \in Days, day[d] = "RESULTS_PUBLISHED"
        PROVE  credits'[d] = credits[d]
    <3>0. credits \in [Days -> Nat]
      BY <2>1 DEF Inv, TypeOK
    <3>1. ASSUME NEW j \in FinalJobs, FinalStep(j) \/ FinalError(j)
          PROVE  credits'[d] = credits[d]
      <4>1. CASE WriteCredits(j)
        <5>1. job[j].on # d /\ job[j].on \in Days
          BY <2>1, <4>1 DEF WriteCredits, OnDay, Kept, Inv, RunRows, FinalRow
        <5>2. QED
          BY <3>0, <4>1, <5>1 DEF WriteCredits
      <4>2. CASE ~WriteCredits(j)
        BY <3>1, <4>2
        DEF FinalStep, FinalError, StartFinalizer, CloseEmptyDay, SelectDays, ReadDay, EndRun,
            CloseDay, CountBlocks, Group, Bis, ReadCredits, ClearPrestige, AddPrestige,
            MarkPrestige, Publish, scores
      <4>3. QED
        BY <4>1, <4>2
    <3>2. CASE Tick \/ (\E e \in Entries : EntryStep(e)) \/ (\E j \in Jobs : Crash(j)) \/ UNCHANGED vars
      BY <3>2 DEF Tick, Crash, vars, scores, EntryStep, Enter, Pull, CommitEntry, CommitPull, Disqualify
    <3>3. ASSUME NEW j \in JudgeJobs, JudgeStep(j) \/ JudgeError(j) \/ Unanswered(j)
          PROVE  credits' = credits
      BY <2>1, <3>3, JudgeKeeps, CancelledFacts, ResultsFacts DEF scores
    <3>4. QED
      BY <2>1, <3>1, <3>2, <3>3 DEF Next
  <2>2. (Inv /\ Due /\ Settled /\ Kept) /\ [Next]_vars =>
           [\A d \in Days : day[d] = "RESULTS_PUBLISHED" => credits'[d] = credits[d]]_vars
    BY <2>1
  <2>3. Spec => [](Inv /\ Due /\ Settled /\ Kept)
    BY <1>1, KeptAlways
  <2>4. QED
    BY <2>2, <2>3, PTL DEF Spec, CreditsAreFrozen
<1>2. QED
  BY <1>1

=============================================================================
