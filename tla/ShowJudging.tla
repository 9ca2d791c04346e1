----------------------------- MODULE ShowJudging -----------------------------
(* One show cluster from its last entries to published results.              *)
(*                                                                           *)
(* Three kinds of processes share the rows of the cluster: player requests   *)
(* that enter or pull a dog, with deaths that disqualify it, runs of the     *)
(* cron route that judges breed blocks (every minute) and runs of the one    *)
(* that finalizes show days (every two minutes).  A run may still be going   *)
(* when the next begins.  Each database statement or transaction is a step,  *)
(* and a transaction that reads first and writes later without a row lock    *)
(* (READ COMMITTED) is two.                                                  *)
(*                                                                           *)
(* An epoch is an hour; day d is due at epoch d + 1 and its blocks start     *)
(* with it; entries close at epoch 1, hours before the first day.  What the  *)
(* judging engine decides (ranks, points, titles) is left out: an award is   *)
(* that it was given, a prestige credit that it is there.  Title progress is *)
(* recalculated from the awards and is not modelled.                         *)
EXTENDS Integers, FiniteSets, FiniteSetsExt

CONSTANTS
    NDays,          \* show days of the cluster
    Blocks,         \* judging blocks, numbered in judging order
    DayOf,          \* DayOf[b]: the day of block b
    Entries,        \* (dog, day) pairs a player may enter
    BlockOf,        \* BlockOf[e]: the block entry e belongs to
    JudgeJobs,      \* overlapping runs of judge-show-blocks
    FinalJobs,      \* overlapping runs of finalize-show-results
    Prompt,         \* TRUE: a request commits in the hour whose clock it read
    LateDeaths,     \* FALSE: no entry is disqualified while its results are written
    MaxFails,       \* bound: database errors of the work
    MaxLost,        \* bound: claims and releases that fail or whose answer is lost
    MaxCrashes      \* bound: killed runs

ASSUME DaysAssumption == NDays \in Nat \ {0}
ASSUME BlocksAssumption ==
    /\ Blocks \subseteq Nat \ {0}
    /\ IsFiniteSet(Blocks)
    /\ DayOf \in [Blocks -> 1..NDays]
ASSUME EntriesAssumption == IsFiniteSet(Entries) /\ BlockOf \in [Entries -> Blocks]
ASSUME JobsAssumption == JudgeJobs \cap FinalJobs = {}
ASSUME BoundsAssumption ==
    /\ Prompt \in BOOLEAN /\ LateDeaths \in BOOLEAN
    /\ MaxFails \in Nat /\ MaxLost \in Nat /\ MaxCrashes \in Nat

Days == 1..NDays
Jobs == JudgeJobs \cup FinalJobs

VARIABLES
    epoch,          \* game clock
    day,            \* ShowDay.status
    block,          \* ShowJudgingBlock.status
    cluster,        \* ShowCluster.status
    entry,          \* ShowEntry.entryStatus, NONE before the row exists
    request,        \* request[e]: a player's open transaction on entry e
    results,        \* entries that have a ShowResult row
    breedAwards,    \* breedAwards[b]: times the BREED awards of b were written
    finals,         \* finals[d]: blocks whose BOB the GROUP awards of d chose from
    bis,            \* days with BEST_IN_SHOW awards
    credits,        \* credits[d]: epoch the grand champion credits carry, 0 none
    prestige,       \* days that have their prestige credits
    calculated,     \* days with prestigeCalculatedAtEpoch
    job,            \* where each run stands
    fails, lost,    \* errors so far
    crashes,        \* kills so far
    cut             \* history: days whose prestige credits a run deleted, then stopped

show == <<day, block, cluster, entry, request, results>>
scores == <<breedAwards, finals, bis, credits, prestige, calculated>>
bounds == <<fails, lost, crashes, cut>>
vars == <<epoch, show, scores, job, bounds>>

Open == {"SCHEDULED"}                        \* SCHEDULED, ENTRY_OPEN, ENTRY_LOCKED
Terminal == {"RESULTS_PUBLISHED", "CANCELLED"}
ShowStatus == Open \cup Terminal \cup {"JUDGING"}
EntryStatus == {"NONE", "ENTERED", "ABSENT", "INELIGIBLE", "JUDGED"}

DueAt(d) == d + 1
EntryClose == 1

BlocksOf(d) == {b \in Blocks : DayOf[b] = d}
EntriesOf(b) == {e \in Entries : BlockOf[e] = b}
HasEntries(b) == \E e \in EntriesOf(b) : entry[e] # "NONE"

(* A run that is not going; its fields: pc, the epoch `at` it read when it   *)
(* began, the blocks or days still to do, the one it is on, the status of    *)
(* that one as read (`prior`), the entry statuses and the fit entries of the *)
(* preparation.                                                              *)
Unseen == [e \in Entries |-> "NONE"]
Idle == [pc |-> "idle", at |-> 0, todo |-> {}, on |-> 0, prior |-> "SCHEDULED",
         seen |-> Unseen, fit |-> {}]

NoRequest == [kind |-> "idle", at |-> 0]

Init ==
    /\ epoch = 0
    /\ day = [d \in Days |-> "SCHEDULED"]
    /\ block = [b \in Blocks |-> "SCHEDULED"]
    /\ cluster = "SCHEDULED"
    /\ entry = Unseen
    /\ request = [e \in Entries |-> NoRequest]
    /\ results = {}
    /\ breedAwards = [b \in Blocks |-> 0]
    /\ finals = [d \in Days |-> {}]
    /\ bis = {}
    /\ credits = [d \in Days |-> 0]
    /\ prestige = {}
    /\ calculated = {}
    /\ job = [j \in Jobs |-> Idle]
    /\ fails = 0
    /\ lost = 0
    /\ crashes = 0
    /\ cut = {}

-----------------------------------------------------------------------------
(* Helpers.  Definitions named ...Fault are plausible mistakes in the        *)
(* definition that follows them (see the README, "Mutants").                 *)

Goto(j, label) == job' = [job EXCEPT ![j].pc = label]

(* The run is through with its block or day and takes the next one.          *)
NextOne(j, label) ==
    job' = [job EXCEPT ![j] =
              [Idle EXCEPT !.pc = label, !.at = job[j].at,
                           !.todo = job[j].todo \ {job[j].on}]]

PublishedBlocks(d) == {b \in BlocksOf(d) : block[b] = "RESULTS_PUBLISHED"}

(* Blocks with entries that still keep the day from its finals.              *)
UnjudgedFault(d) == {b \in BlocksOf(d) : block[b] \in Open /\ HasEntries(b)}
UnjudgedEmptyFault(d) == {b \in BlocksOf(d) : block[b] \notin Terminal}
Unjudged(d) == {b \in BlocksOf(d) : block[b] \notin Terminal /\ HasEntries(b)}

(* cancelReadyEmptyShowDay, in a transaction that has the entries at ent, the *)
(* days at dy and the blocks at blk: a due day without a live entry or a     *)
(* result closes, and with it its open blocks.                               *)
Remaining(d, ent) ==
    {e \in Entries : /\ DayOf[BlockOf[e]] = d
                     /\ ent[e] \in {"ENTERED", "JUDGED"} \/ e \in results}

IsEmpty(d, at, ent, dy) ==
    /\ dy[d] \notin Terminal
    /\ at >= DueAt(d)
    /\ Remaining(d, ent) = {}

CancelEmpty(d, at, ent, dy, blk) ==
    IF IsEmpty(d, at, ent, dy)
    THEN /\ day' = [dy EXCEPT ![d] = "CANCELLED"]
         /\ block' = [b \in Blocks |->
                        IF b \in BlocksOf(d) /\ blk[b] \notin Terminal
                        THEN "CANCELLED" ELSE blk[b]]
    ELSE day' = dy /\ block' = blk

-----------------------------------------------------------------------------
(* Player requests.  Each is one transaction: it reads the statuses with the *)
(* clock of its start and writes later.                                      *)

Undecided(b) == block[b] \in Open /\ day[DayOf[b]] \in Open

(* createShowEntry: inside the entry window of the cluster.                  *)
EnterOpenFault(b) == epoch < DueAt(DayOf[b])
EnterOpen(b) == cluster # "COMPLETE" /\ epoch < EntryClose

Enter(e) ==
    /\ request[e] = NoRequest
    /\ entry[e] = "NONE"
    /\ Undecided(BlockOf[e])
    /\ EnterOpen(BlockOf[e])
    /\ request' = [request EXCEPT ![e] = [kind |-> "enter", at |-> epoch]]
    /\ UNCHANGED <<epoch, day, block, cluster, entry, results, scores, job, bounds>>

(* pullShowEntry: until the day is due or judging has begun.                 *)
Pull(e) ==
    /\ request[e] = NoRequest
    /\ entry[e] = "ENTERED"
    /\ Undecided(BlockOf[e])
    /\ epoch < DueAt(DayOf[BlockOf[e]])
    /\ request' = [request EXCEPT ![e] = [kind |-> "pull", at |-> epoch]]
    /\ UNCHANGED <<epoch, day, block, cluster, entry, results, scores, job, bounds>>

CommitEntry(e) ==
    /\ request[e].kind = "enter"
    /\ request' = [request EXCEPT ![e] = NoRequest]
    /\ entry' = [entry EXCEPT ![e] = "ENTERED"]
    /\ UNCHANGED <<epoch, day, block, cluster, results, scores, job, bounds>>

(* The pull writes only where the entry is still ENTERED, else it throws.    *)
CommitPull(e) ==
    /\ request[e].kind = "pull"
    /\ request' = [request EXCEPT ![e] = NoRequest]
    /\ entry' = [entry EXCEPT ![e] = IF @ = "ENTERED" THEN "ABSENT" ELSE @]
    /\ UNCHANGED <<epoch, day, block, cluster, results, scores, job, bounds>>

(* The dog dies, or its owner closes the account: at any time, since a death *)
(* is processed after the hour it happened in.                               *)
Disqualify(e) ==
    /\ entry[e] = "ENTERED"
    /\ LateDeaths \/ \A j \in JudgeJobs : job[j].pc = "write" => job[j].on # BlockOf[e]
    /\ entry' = [entry EXCEPT ![e] = "INELIGIBLE"]
    /\ UNCHANGED <<epoch, day, block, cluster, request, results, scores, job, bounds>>

(* The clock.  A transaction lasts seconds: it may see one hour begin, never *)
(* a second one.                                                             *)
Tick ==
    /\ epoch < DueAt(NDays) + 1
    /\ \A e \in Entries : request[e] # NoRequest => request[e].at = epoch /\ ~Prompt
    /\ epoch' = epoch + 1
    /\ UNCHANGED <<show, scores, job, bounds>>

-----------------------------------------------------------------------------
(* A run of judge-show-blocks: runPublishShowResultsJob and, for each block, *)
(* judgeShowBlock.                                                           *)

ReadyBlocks(at) ==
    {b \in Blocks : /\ at >= DueAt(DayOf[b])
                    /\ block[b] \notin Terminal
                    /\ HasEntries(b)
                    /\ day[DayOf[b]] # "CANCELLED"}

(* The blocks of the earliest day that has one.                              *)
SelectBlocks(j) ==
    /\ job[j].pc = "idle"
    /\ ReadyBlocks(epoch) # {}
    /\ LET first == Min({DayOf[b] : b \in ReadyBlocks(epoch)})
       IN  job' = [job EXCEPT ![j] =
                     [Idle EXCEPT !.pc = "first", !.at = epoch,
                                  !.todo = ReadyBlocks(epoch) \cap BlocksOf(first)]]
    /\ UNCHANGED <<epoch, show, scores, bounds>>

(* The next block of the run: its status is read and remembered; a published *)
(* or cancelled one is passed over.                                          *)
ReadBlock(j) ==
    /\ job[j].pc \in {"first", "pick"}
    /\ job[j].todo # {}
    /\ LET b == Min(job[j].todo)
       IN  IF block[b] \in Terminal
           THEN job' = [job EXCEPT ![j].todo = @ \ {b}, ![j].pc = "pick"]
           ELSE job' = [job EXCEPT ![j].on = b, ![j].prior = block[b], ![j].pc = "claim"]
    /\ UNCHANGED <<epoch, show, scores, bounds>>

(* The list is done, or the runtime budget is spent, which is looked at      *)
(* before each block or day and is minutes: never before the first.          *)
EndRun(j) ==
    /\ \/ job[j].pc \in {"pick", "pickDay"}
       \/ job[j].pc = "firstDay" /\ job[j].todo = {}
    /\ job' = [job EXCEPT ![j] = Idle]
    /\ UNCHANGED <<epoch, show, scores, bounds>>

(* The conditional update that takes the block; the loser moves on.          *)
ClaimableFault == Open \cup {"JUDGING"}
Claimable == Open

Claim(j) ==
    /\ job[j].pc = "claim"
    /\ IF block[job[j].on] \in Claimable
       THEN /\ block' = [block EXCEPT ![job[j].on] = "JUDGING"]
            /\ Goto(j, "prepare")
       ELSE NextOne(j, "pick") /\ UNCHANGED block
    /\ UNCHANGED <<epoch, day, cluster, entry, request, results, scores, bounds>>

(* Which entries may be shown: any of the ENTERED ones, depending on dogs    *)
(* (alive, same owner, of age, not pregnant ...).                            *)
Dispositions(b) == SUBSET {e \in EntriesOf(b) : entry[e] = "ENTERED"}

(* The block is read with its entries and judged in memory.                  *)
Prepare(j) ==
    /\ job[j].pc = "prepare"
    /\ LET b == job[j].on
       IN  \E fit \in Dispositions(b) :
              job' = [job EXCEPT
                        ![j].pc = IF day[DayOf[b]] = "CANCELLED" THEN "release" ELSE "check",
                        ![j].seen = [e \in Entries |->
                                       IF e \in EntriesOf(b) THEN entry[e] ELSE "NONE"],
                        ![j].fit = fit]
    /\ UNCHANGED <<epoch, show, scores, bounds>>

(* The transaction begins by comparing the block with the preparation.       *)
Current(j) ==
    /\ block[job[j].on] = "JUDGING"
    /\ \A e \in EntriesOf(job[j].on) : entry[e] = job[j].seen[e]

Check(j) ==
    /\ job[j].pc = "check"
    /\ Goto(j, IF Current(j) THEN "write" ELSE "release")
    /\ UNCHANGED <<epoch, show, scores, bounds>>

(* The day shows that judging is under way (maybePublishShowDay no more).    *)
Judging(d) == [day EXCEPT ![d] = "JUDGING"]

(* Nobody is left to judge: the block is cancelled, and the day if it has    *)
(* become empty.  Entries that are not fit are marked where still ENTERED.   *)
Entered(j) == {e \in Entries : job[j].seen[e] = "ENTERED"}

Unfit(j) == {e \in Entered(j) \ job[j].fit : entry[e] = "ENTERED"}
MarksFault(j) == [Unfit(j) -> {"ABSENT", "CANCELLED"}]
Marks(j) == [Unfit(j) -> {"ABSENT", "INELIGIBLE"}]

WriteCancelled(j) ==
    /\ job[j].pc = "write"
    /\ job[j].fit = {}
    /\ \E mark \in Marks(j) :
         LET d == DayOf[job[j].on]
             marked == [e \in Entries |-> IF e \in Unfit(j) THEN mark[e] ELSE entry[e]]
         IN  /\ entry' = marked
             /\ CancelEmpty(d, job[j].at, marked,
                            IF Entered(j) = {} THEN day ELSE Judging(d),
                            [block EXCEPT ![job[j].on] = "CANCELLED"])
    /\ NextOne(j, "pick")
    /\ UNCHANGED <<epoch, cluster, request, results, scores, bounds>>

(* Results and awards of the fit entries.  ShowResult.showEntryId is unique, *)
(* so no entry gets a second result.                                         *)
WriteResults(j) ==
    /\ job[j].pc = "write"
    /\ job[j].fit # {}
    /\ job[j].fit \cap results = {}
    /\ day' = Judging(DayOf[job[j].on])
    /\ block' = [block EXCEPT ![job[j].on] = "RESULTS_PUBLISHED"]
    /\ \E mark \in Marks(j) :
          entry' = [e \in Entries |-> CASE e \in job[j].fit -> "JUDGED"
                                       [] e \in Unfit(j) -> mark[e]
                                       [] OTHER -> entry[e]]
    /\ results' = results \cup job[j].fit
    /\ breedAwards' = [breedAwards EXCEPT ![job[j].on] = @ + 1]
    /\ NextOne(j, "pick")
    /\ UNCHANGED <<epoch, cluster, request, finals, bis, credits, prestige, calculated, bounds>>

(* The transaction aborts on such a result, and a statement between claim    *)
(* and release on a database error (at most MaxFails).                       *)
JudgeError(j) ==
    /\ job[j].pc \in {"prepare", "check", "write"}
    /\ fails' = IF job[j].fit \cap results = {} THEN fails + 1 ELSE fails
    /\ fails' <= MaxFails
    /\ Goto(j, "release")
    /\ UNCHANGED <<epoch, show, scores, lost, crashes, cut>>

(* An error after the claim: the claim is given back if it is still there.   *)
ReleasedLostFault(j) == block[job[j].on]
Released(j) == IF block[job[j].on] = "JUDGING" THEN job[j].prior ELSE block[job[j].on]

Release(j) ==
    /\ job[j].pc = "release"
    /\ block' = [block EXCEPT ![job[j].on] = Released(j)]
    /\ NextOne(j, "pick")
    /\ UNCHANGED <<epoch, day, cluster, entry, request, results, scores, bounds>>

(* The claim fails, or is made and its answer lost, or the release fails: no *)
(* catch is around either, and the run goes on with the next block.          *)
Unanswered(j) ==
    /\ job[j].pc \in {"claim", "release"}
    /\ lost < MaxLost
    /\ lost' = lost + 1
    /\ \/ UNCHANGED block
       \/ /\ job[j].pc = "claim" /\ block[job[j].on] \in Claimable
          /\ block' = [block EXCEPT ![job[j].on] = "JUDGING"]
    /\ NextOne(j, "pick")
    /\ UNCHANGED <<epoch, day, cluster, entry, request, results, scores, fails, crashes, cut>>

-----------------------------------------------------------------------------
(* A run of finalize-show-results: it closes the empty days, then takes the  *)
(* judged ones through finalizeReadyShowDayResults.                          *)

EmptyDays(at) == {d \in Days : IsEmpty(d, at, entry, day)}

(* A day is chosen again after publication only if it lacks its GROUP awards *)
(* or was never scored.                                                      *)
Unfinished(d) ==
    \/ day[d] # "RESULTS_PUBLISHED"
    \/ PublishedBlocks(d) # {} /\ (finals[d] = {} \/ d \notin calculated)

ReadyDays(at) ==
    {d \in Days :
        /\ at >= DueAt(d)
        /\ day[d] # "CANCELLED"
        /\ \E b \in BlocksOf(d) : HasEntries(b)
        /\ Unjudged(d) = {}
        /\ Unfinished(d)}

StartFinalizer(j) ==
    /\ job[j].pc = "idle"
    /\ EmptyDays(epoch) \cup ReadyDays(epoch) # {}
    /\ job' = [job EXCEPT ![j] = [Idle EXCEPT !.pc = "empties", !.at = epoch,
                                             !.todo = EmptyDays(epoch)]]
    /\ UNCHANGED <<epoch, show, scores, bounds>>

CloseEmptyDay(j) ==
    /\ job[j].pc = "empties"
    /\ job[j].todo # {}
    /\ CancelEmpty(Min(job[j].todo), job[j].at, entry, day, block)
    /\ job' = [job EXCEPT ![j].todo = @ \ {Min(@)}]
    /\ UNCHANGED <<epoch, cluster, entry, request, results, scores, bounds>>

SelectDays(j) ==
    /\ job[j].pc = "empties"
    /\ job[j].todo = {}
    /\ job' = [job EXCEPT ![j].pc = "firstDay", ![j].todo = ReadyDays(job[j].at)]
    /\ UNCHANGED <<epoch, show, scores, bounds>>

ReadDay(j) ==
    /\ job[j].pc \in {"firstDay", "pickDay"}
    /\ job[j].todo # {}
    /\ LET d == Min(job[j].todo)
       IN  IF day[d] = "CANCELLED"
           THEN job' = [job EXCEPT ![j].todo = @ \ {d}, ![j].pc = "pickDay"]
           ELSE job' = [job EXCEPT ![j].on = d, ![j].pc = "closeDay"]
    /\ UNCHANGED <<epoch, show, scores, bounds>>

CloseDay(j) ==
    /\ job[j].pc = "closeDay"
    /\ CancelEmpty(job[j].on, job[j].at, entry, day, block)
    /\ Goto(j, "count")
    /\ UNCHANGED <<epoch, cluster, entry, request, results, scores, bounds>>

CountBlocks(j) ==
    /\ job[j].pc = "count"
    /\ IF Unjudged(job[j].on) = {} THEN Goto(j, "group") ELSE NextOne(j, "pickDay")
    /\ UNCHANGED <<epoch, show, scores, bounds>>

(* GROUP awards among the BOBs of the day, BEST_IN_SHOW among the winners.   *)
(* Their keys are unique: a second writer of the same awards adds nothing.   *)
GroupFinals(d) == IF finals[d] = {} THEN PublishedBlocks(d) ELSE finals[d]

Group(j) ==
    /\ job[j].pc = "group"
    /\ finals' = [finals EXCEPT ![job[j].on] = GroupFinals(job[j].on)]
    /\ Goto(j, "bis")
    /\ UNCHANGED <<epoch, show, breedAwards, bis, credits, prestige, calculated, bounds>>

BestInShow(d) == {c \in {d} : finals[c] # {}}

Bis(j) ==
    /\ job[j].pc = "bis"
    /\ bis' = bis \cup BestInShow(job[j].on)
    /\ Goto(j, "readCredits")
    /\ UNCHANGED <<epoch, show, breedAwards, finals, credits, prestige, calculated, bounds>>

(* Grand champion credits: the status of the day is read first; those of a   *)
(* day read as published are left alone, others are created or rewritten.    *)
ReadCredits(j) ==
    /\ job[j].pc = "readCredits"
    /\ IF Unjudged(job[j].on) = {}
       THEN job' = [job EXCEPT ![j].pc = "writeCredits", ![j].prior = day[job[j].on]]
       ELSE NextOne(j, "pickDay")
    /\ UNCHANGED <<epoch, show, scores, bounds>>

Credited(j) == job[j].prior # "RESULTS_PUBLISHED" /\ PublishedBlocks(job[j].on) # {}

WriteCredits(j) ==
    /\ job[j].pc = "writeCredits"
    /\ credits' = [credits EXCEPT ![job[j].on] = IF Credited(j) THEN job[j].at ELSE @]
    /\ Goto(j, "clearPrestige")
    /\ UNCHANGED <<epoch, show, breedAwards, finals, bis, prestige, calculated, bounds>>

(* refreshPrestigeStatsForShowDay, outside any transaction: the credits of   *)
(* the day are deleted, then created (one per dog and day, or an error).     *)
ClearPrestige(j) ==
    /\ job[j].pc = "clearPrestige"
    /\ prestige' = prestige \ {job[j].on}
    /\ Goto(j, "addPrestige")
    /\ UNCHANGED <<epoch, show, breedAwards, finals, bis, credits, calculated, bounds>>

ScoredFault(d) == {c \in {d} : PublishedBlocks(c) # {} /\ c \notin calculated}
Scored(d) == {c \in {d} : PublishedBlocks(c) # {}}

AddPrestige(j) ==
    /\ job[j].pc = "addPrestige"
    /\ IF job[j].on \in prestige
       THEN NextOne(j, "pickDay") /\ UNCHANGED <<prestige, cut>>
       ELSE /\ prestige' = prestige \cup Scored(job[j].on)
            /\ cut' = cut \ {job[j].on}
            /\ Goto(j, "markPrestige")
    /\ UNCHANGED <<epoch, show, breedAwards, finals, bis, credits, calculated, fails, lost, crashes>>

MarkPrestige(j) ==
    /\ job[j].pc = "markPrestige"
    /\ calculated' = calculated \cup {job[j].on}
    /\ Goto(j, "publish")
    /\ UNCHANGED <<epoch, show, breedAwards, finals, bis, credits, prestige, bounds>>

(* publishStatus: the final guards, the day, and the cluster with its last   *)
(* day.                                                                      *)
Publishable(d) == day[d] # "CANCELLED" /\ Unjudged(d) = {} /\ d \in calculated

CompletesFault(d) == TRUE
Completes(d) == \A c \in Days \ {d} : day[c] \in Terminal

Publish(j) ==
    /\ job[j].pc = "publish"
    /\ LET d == job[j].on
       IN  IF Publishable(d)
           THEN /\ day' = [day EXCEPT ![d] = "RESULTS_PUBLISHED"]
                /\ cluster' = IF Completes(d) THEN "COMPLETE" ELSE cluster
           ELSE UNCHANGED <<day, cluster>>
    /\ NextOne(j, "pickDay")
    /\ UNCHANGED <<epoch, block, entry, request, results, scores, bounds>>

(* A run that stops between the two leaves the day without them.             *)
Cuts(j) ==
    cut' = IF job[j].pc = "addPrestige" /\ job[j].on \notin prestige
           THEN cut \cup {job[j].on} ELSE cut

(* A database error in a phase: the run goes on with the next day.           *)
AfterErrorFault(j) == Goto(j, "clearPrestige")
AfterError(j) == NextOne(j, "pickDay")

FinalError(j) ==
    /\ job[j].pc \in {"closeDay", "count", "group", "bis", "readCredits", "writeCredits",
                      "clearPrestige", "addPrestige", "markPrestige", "publish"}
    /\ fails < MaxFails
    /\ fails' = fails + 1
    /\ AfterError(j)
    /\ Cuts(j)
    /\ UNCHANGED <<epoch, show, scores, lost, crashes>>

(* The process of a run is killed.                                           *)
Crash(j) ==
    /\ job[j].pc # "idle"
    /\ crashes < MaxCrashes
    /\ crashes' = crashes + 1
    /\ job' = [job EXCEPT ![j] = Idle]
    /\ Cuts(j)
    /\ UNCHANGED <<epoch, show, scores, fails, lost>>

-----------------------------------------------------------------------------
EntryStep(e) == Enter(e) \/ CommitEntry(e) \/ Pull(e) \/ CommitPull(e) \/ Disqualify(e)

JudgeStep(j) ==
    \/ SelectBlocks(j) \/ ReadBlock(j) \/ EndRun(j) \/ Claim(j) \/ Prepare(j)
    \/ Check(j) \/ WriteCancelled(j) \/ WriteResults(j) \/ Release(j)

FinalStep(j) ==
    \/ StartFinalizer(j) \/ CloseEmptyDay(j) \/ SelectDays(j) \/ ReadDay(j)
    \/ EndRun(j) \/ CloseDay(j) \/ CountBlocks(j) \/ Group(j) \/ Bis(j)
    \/ ReadCredits(j) \/ WriteCredits(j) \/ ClearPrestige(j) \/ AddPrestige(j)
    \/ MarkPrestige(j) \/ Publish(j)

Next ==
    \/ Tick
    \/ \E e \in Entries : EntryStep(e)
    \/ \E j \in JudgeJobs : JudgeStep(j) \/ JudgeError(j) \/ Unanswered(j)
    \/ \E j \in FinalJobs : FinalStep(j) \/ FinalError(j)
    \/ \E j \in Jobs : Crash(j)

Spec == Init /\ [][Next]_vars

-----------------------------------------------------------------------------
(* Properties *)

Labels == {"idle", "first", "pick", "claim", "prepare", "check", "write",
           "release", "empties", "firstDay", "pickDay", "closeDay", "count",
           "group", "bis", "readCredits", "writeCredits", "clearPrestige",
           "addPrestige", "markPrestige", "publish"}

JobRows == [pc: Labels, at: Nat, todo: SUBSET Nat, on: Nat, prior: ShowStatus,
            seen: [Entries -> EntryStatus], fit: SUBSET Entries]

(* Every variable keeps its type.                                            *)
TypeOK ==
    /\ epoch \in Nat
    /\ day \in [Days -> ShowStatus]
    /\ block \in [Blocks -> ShowStatus]
    /\ cluster \in {"SCHEDULED", "COMPLETE"}
    /\ entry \in [Entries -> EntryStatus]
    /\ request \in [Entries -> [kind: {"idle", "enter", "pull"}, at: Nat]]
    /\ results \subseteq Entries
    /\ breedAwards \in [Blocks -> Nat]
    /\ finals \in [Days -> SUBSET Blocks]
    /\ bis \subseteq Days
    /\ credits \in [Days -> Nat]
    /\ prestige \subseteq Days
    /\ calculated \subseteq Days
    /\ job \in [Jobs -> JobRows]
    /\ fails \in 0..MaxFails
    /\ lost \in 0..MaxLost
    /\ cut \subseteq Days
    /\ crashes \in 0..MaxCrashes

(* A block is judged once: overlapping, failing and killed runs never write  *)
(* its breed awards twice, and a published block has them.                   *)
JudgedOnce ==
    \A b \in Blocks : breedAwards[b] = IF block[b] = "RESULTS_PUBLISHED" THEN 1 ELSE 0

(* A published or cancelled block leaves no paid entry waiting: each one is  *)
(* judged, absent or ineligible.                                             *)
EntriesSettled ==
    \A e \in Entries : block[BlockOf[e]] \in Terminal => entry[e] # "ENTERED"

(* A claim that no run works under keeps a block, and with it every later    *)
(* day, from being judged for ever.                                          *)
Working == {"prepare", "check", "write", "release"}
Orphaned(b) ==
    /\ block[b] = "JUDGING"
    /\ \A j \in JudgeJobs : job[j].on = b => job[j].pc \notin Working

ClaimIsHeld == \A b \in Blocks : ~Orphaned(b)

(* Overlapping and failing runs give their claims back: one is left behind   *)
(* only when a run is killed, when the database does not answer the claim or *)
(* the release, or when the run had read the JUDGING of another run before   *)
(* it claimed, and restores that.                                            *)
ClaimIsGivenBack ==
    [][\A b \in Blocks : ~Orphaned(b) /\ Orphaned(b)' =>
          \/ crashes' > crashes
          \/ lost' > lost
          \/ \E j \in JudgeJobs :
                job[j].on = b /\ job[j].pc = "release" /\ job[j].prior = "JUDGING"]_vars

(* Group finals choose among the BOBs of all breeds: when they are written   *)
(* no block of the day is still to be judged, or ever will be.               *)
FinalsSeeEveryBreed ==
    \A d \in Days : finals[d] # {} => finals[d] = PublishedBlocks(d)

(* A day is closed only as what it is: a published day is complete, although *)
(* its awards and scores were written by several runs in several             *)
(* transactions (nothing is left to judge, it has finals, Best in Show and   *)
(* grand champion credits), and a cancelled day has no results.              *)
ClosedDayIsSettled ==
    \A d \in Days :
        /\ day[d] = "RESULTS_PUBLISHED" =>
              /\ Unjudged(d) = {}
              /\ PublishedBlocks(d) # {}
              /\ finals[d] # {} /\ d \in bis /\ credits[d] # 0 /\ d \in calculated
        /\ day[d] = "CANCELLED" => \A b \in BlocksOf(d) : block[b] # "RESULTS_PUBLISHED"

(* The cluster is complete only when all its days are.                       *)
CompleteClusterIsSettled ==
    cluster = "COMPLETE" => \A d \in Days : day[d] \in Terminal

(* Overlapping finalizers delete and create the prestige credits of a day    *)
(* while one of them publishes it: a published day has them, or some run is  *)
(* about to create them, unless a run stopped after it had deleted them.     *)
HasPrestige(d) ==
    \/ d \in prestige \cup cut
    \/ \E j \in FinalJobs : job[j].on = d /\ job[j].pc = "addPrestige"

PrestigeIsKept == \A d \in Days : day[d] = "RESULTS_PUBLISHED" => HasPrestige(d)

(* "Results-published ShowDays are immutable historical facts": their grand  *)
(* champion credits are not rewritten.                                       *)
CreditsAreFrozen ==
    [][\A d \in Days : day[d] = "RESULTS_PUBLISHED" => credits'[d] = credits[d]]_vars

-----------------------------------------------------------------------------
(* Liveness.  The routes are invoked for ever, a run's statements return,    *)
(* the clock goes on and a request's transaction ends.                       *)
Fairness ==
    /\ WF_vars(Tick)
    /\ \A e \in Entries : WF_vars(CommitEntry(e) \/ CommitPull(e))
    /\ \A j \in JudgeJobs : WF_vars(JudgeStep(j))
    /\ \A j \in FinalJobs : WF_vars(FinalStep(j))

FairSpec == Spec /\ Fairness

(* Every day is published or cancelled in the end, whatever errors and kills *)
(* there are on the way, unless the claim of one of its blocks, or of an     *)
(* earlier day's, is left behind for good.                                   *)
EveryDaySettles ==
    \A d \in Days :
        \/ <>(day[d] \in Terminal)
        \/ <>[](\E b \in Blocks : DayOf[b] <= d /\ Orphaned(b))
=============================================================================
