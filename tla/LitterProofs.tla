------------------------------ MODULE LitterProofs ------------------------------
(* One litter per breeding attempt.  The pregnancy check and the whelping    *)
(* write their attempt without looking at it again, so the count rests on    *)
(* who may be resolving it, and, when the whelping became an emergency, on   *)
(* the event alone.                                                          *)
EXTENDS DamLifeProofs

(* Process p has read attempt a and is about to write its check or whelping. *)
Resolving(p, a) == proc[p].at \in {"check", "whelp"} /\ proc[p].a = a

Unborn == {"INITIATED", "PREGNANT"}

(* Only a seed that comes to it makes an emergency, and the emergency gives  *)
(* its litter when it is resolved.                                           *)
EmergencyFits(a) ==
    /\ emergency[a].status # "NONE" => attempt[a].seed = "crisis" /\ attempt[a].status # "NONE"
    /\ attempt[a].seed = "crisis" =>
          /\ attempt[a].litters \in {0, 1}
          /\ emergency[a].status \notin Resolved => attempt[a].litters = 0

(* Without overlapping runs, one process at a time is resolving an attempt,  *)
(* and there is no litter before it writes.                                  *)
WhelpingFits(a) ==
    ~life.overlapping =>
        /\ attempt[a].seed # "crisis" =>
              /\ attempt[a].litters \in {0, 1}
              /\ attempt[a].status \in Unborn => attempt[a].litters = 0
              /\ \A p \in Processes : Resolving(p, a) => attempt[a].litters = 0
        /\ \A p, q \in Processes : Resolving(p, a) /\ Resolving(q, a) => p = q

LittersFit == \A a \in Attempts : EmergencyFits(a) /\ WhelpingFits(a)

-----------------------------------------------------------------------------
(* What most steps leave as it was                                           *)

SameLitters(x, y) ==
    \A a \in Attempts :
        /\ y[a].litters = x[a].litters /\ y[a].seed = x[a].seed
        /\ y[a].status \in Unborn => x[a].status \in Unborn
        /\ y[a].status = "NONE" => x[a].status = "NONE"

SameEvent(a) ==
    /\ emergency'[a].status = "NONE" <=> emergency[a].status = "NONE"
    /\ emergency'[a].status \in Resolved <=> emergency[a].status \in Resolved

NobodyNew == \A p \in Processes, a \in Attempts : Resolving(p, a)' => Resolving(p, a)

Calm ==
    /\ SameLitters(attempt, attempt') /\ NobodyNew /\ life' = life
    /\ \A a \in Attempts : SameEvent(a)

LEMMA CalmFits == LittersFit /\ Calm => LittersFit'
  BY DEF LittersFit, Calm, SameLitters, SameEvent, NobodyNew, EmergencyFits, WhelpingFits

LEMMA SameLittersUnchanged == \A x : SameLitters(x, x)
  BY DEF SameLitters

LEMMA SameEventUnchanged ==
    ASSUME UNCHANGED emergency
    PROVE  \A a \in Attempts : SameEvent(a)
  BY DEF SameEvent

LEMMA FailedLitters ==
    ASSUME NEW x \in [Attempts -> AttemptRows]
    PROVE  SameLitters(x, Failed(x))
<1>1. ASSUME NEW r \in AttemptRows
      PROVE  LET f == [r EXCEPT !.status = "FAILED"]
             IN  f.status = "FAILED" /\ f.seed = r.seed /\ f.litters = r.litters
  BY DEF AttemptRows, AttemptStatuses
<1>2. QED
  BY <1>1 DEF Failed, SameLitters, Unborn

LEMMA DeathLitters ==
    ASSUME NEW x \in [Attempts -> AttemptRows], NEW s, DiesAfter(x, s)
    PROVE  SameLitters(x, attempt')
  BY FailedLitters, SameLittersUnchanged DEF DiesAfter

(* Who leaves a handler, or is in another one, resolves nothing.             *)
LEMMA Elsewhere ==
    ASSUME TypeInv, NEW p \in Processes, NEW r, r.at \notin {"check", "whelp"},
           proc' = [proc EXCEPT ![p] = r]
    PROVE  NobodyNew /\ \A a \in Attempts : ~Resolving(p, a)'
  BY DEF TypeInv, ProcOK, NobodyNew, Resolving

LEMMA LeaveElsewhere ==
    ASSUME TypeInv, NEW p \in Processes, Leave(p)
    PROVE  /\ NobodyNew /\ \A a \in Attempts : ~Resolving(p, a)'
<1>1. Idle.at \notin {"check", "whelp"}
  BY DEF Idle
<1>2. QED
  BY <1>1, Elsewhere DEF Leave

LEMMA EnterElsewhere ==
    ASSUME TypeInv, NEW p \in Processes, NEW at \in Handlers \ {"check", "whelp"},
           NEW a, NEW c, NEW was, Enter(p, at, a, c, was)
    PROVE  Calm
<1>1. PICK r : r = [Idle EXCEPT !.at = at, !.a = a, !.c = c, !.was = was]
  OBVIOUS
<1>2. r.at \notin {"check", "whelp"}
  BY <1>1 DEF Idle
<1>3. NobodyNew
  BY <1>1, <1>2, Elsewhere DEF Enter
<1>4. QED
  BY <1>3, SameLittersUnchanged, SameEventUnchanged DEF Enter, rows, Calm

(* A scheduled death in its statements.                                      *)
LEMMA DeathCalm ==
    ASSUME TypeInv, NEW p \in Processes, DieMark(p) \/ Dies(p)
    PROVE  Calm
<1>0. TypeInv /\ attempt \in [Attempts -> AttemptRows]
  BY DEF TypeInv, RowsOK
<1>1. SameLitters(attempt, attempt') /\ UNCHANGED <<emergency, life>>
  BY <1>0, FailedLitters, SameLittersUnchanged
  DEF DieMark, Dies, DieExtinguish, DieDelist, DieFail, DieRepay
<1>2. NobodyNew
  <2>1. CASE DieRepay(p)
    BY <1>0, <2>1, LeaveElsewhere DEF DieRepay
  <2>2. CASE DieMark(p) \/ DieExtinguish(p) \/ DieFail(p) \/ DieDelist(p)
    <3>1. PICK r : proc' = [proc EXCEPT ![p] = r] /\ r.at \notin {"check", "whelp"}
      <4>0. proc[p] \in Procs
        BY <1>0 DEF TypeInv, ProcOK
      <4>1. ASSUME NEW at \in {"deadMarked", "deadExtinguished", "deadFailed"},
                   proc' = [proc EXCEPT ![p].at = at]
            PROVE  \E r : proc' = [proc EXCEPT ![p] = r] /\ r.at \notin {"check", "whelp"}
        <5>1. PICK r : r = [proc[p] EXCEPT !.at = at]
          OBVIOUS
        <5>2. r.at = at
          BY <4>0, <5>1 DEF Procs
        <5>3. QED
          BY <1>0, <4>1, <5>1, <5>2 DEF TypeInv, ProcOK
      <4>2. CASE DieDelist(p)
        <5>1. PICK r : r = [proc[p] EXCEPT !.at = "deadOwed", !.owed = Owed(attempt)]
          OBVIOUS
        <5>2. r.at = "deadOwed"
          BY <4>0, <5>1 DEF Procs
        <5>3. proc' = [proc EXCEPT ![p] = r]
          BY <1>0, <4>0, <4>2, <5>1 DEF DieDelist, TypeInv, ProcOK, Procs
        <5>4. QED
          BY <5>2, <5>3
      <4>3. QED
        BY <2>2, <4>1, <4>2 DEF DieMark, DieExtinguish, DieFail
    <3>2. QED
      BY <1>0, <3>1, Elsewhere
  <2>3. QED
    BY <2>1, <2>2 DEF Dies
<1>3. QED
  BY <1>1, <1>2, SameEventUnchanged DEF Calm

LEMMA AccidentCalm ==
    ASSUME TypeInv, NEW p \in Processes,
           CommitOpen(p) \/ CommitCare(p) \/ CommitForgo(p) \/ CommitBuy(p) \/ ExpireCare
    PROVE  Calm
<1>0. TypeInv /\ attempt \in [Attempts -> AttemptRows]
  BY DEF TypeInv, RowsOK
<1>1. SameLitters(attempt, attempt') /\ UNCHANGED <<emergency, life>>
  BY <1>0, DeathLitters, SameLittersUnchanged
  DEF CommitOpen, CommitCare, CommitForgo, CommitBuy, ExpireCare
<1>2. NobodyNew
  BY <1>0, LeaveElsewhere
  DEF CommitOpen, CommitCare, CommitForgo, CommitBuy, ExpireCare, NobodyNew, Resolving
<1>3. QED
  BY <1>1, <1>2, SameEventUnchanged DEF Calm

LEMMA DecideCalm ==
    ASSUME TypeInv, NEW p \in Processes, CommitTreat(p) \/ CommitRefuse(p)
    PROVE  Calm
<1>0. TypeInv /\ emergency \in [Attempts -> EmergencyRows]
  BY DEF TypeInv, RowsOK
<1>1. PICK a \in Attempts : a = proc[p].a /\ emergency[a].status = "PENDING"
  BY <1>0 DEF CommitTreat, CommitRefuse, EmergencyUnchanged, TypeInv, ProcOK, Fits
<1>2. /\ \A b \in Attempts : b # a => emergency'[b] = emergency[b]
      /\ emergency'[a].status \in {"TREATMENT_AUTHORIZED", "TREATMENT_DECLINED"}
  BY <1>0, <1>1 DEF CommitTreat, CommitRefuse, EmergencyRows
<1>3. \A b \in Attempts : SameEvent(b)
  BY <1>1, <1>2 DEF SameEvent, Resolved
<1>4. NobodyNew
  BY <1>0, LeaveElsewhere DEF CommitTreat, CommitRefuse
<1>5. QED
  BY <1>3, <1>4, SameLittersUnchanged DEF CommitTreat, CommitRefuse, Calm

LEMMA ClockCalm ==
    ASSUME TypeInv, Clocks
    PROVE  Calm
<1>0. TypeInv /\ attempt \in [Attempts -> AttemptRows] /\ emergency \in [Attempts -> EmergencyRows]
  BY DEF TypeInv, RowsOK
<1>1. NobodyNew /\ life' = life
  BY DEF Clocks, AttemptClock, EmergencyWindowEnds, AccidentWindowEnds, DamRecovers, NobodyNew, Resolving
<1>2. SameLitters(attempt, attempt')
  <2>1. ASSUME NEW a \in Attempts, AttemptClock(a)
        PROVE  SameLitters(attempt, attempt')
    <3>1. PICK d \in {"check", "whelp"} : attempt' = [attempt EXCEPT ![a].due = d]
      BY <2>1 DEF AttemptClock
    <3>2. PICK x \in AttemptRows : x = attempt[a]
      BY <1>0
    <3>3. PICK r : r = [x EXCEPT !.due = d]
      OBVIOUS
    <3>4. r.status = x.status /\ r.seed = x.seed /\ r.litters = x.litters
      BY <3>2, <3>3 DEF AttemptRows
    <3>5. QED
      BY <1>0, <3>1, <3>2, <3>3, <3>4 DEF SameLitters
  <2>2. QED
    BY <2>1, SameLittersUnchanged
    DEF Clocks, EmergencyWindowEnds, AccidentWindowEnds, DamRecovers
<1>3. \A b \in Attempts : SameEvent(b)
  <2>1. ASSUME NEW a \in Attempts, EmergencyWindowEnds(a)
        PROVE  \A b \in Attempts : SameEvent(b)
    BY <1>0, <2>1 DEF EmergencyWindowEnds, SameEvent, EmergencyRows
  <2>2. QED
    BY <2>1, SameEventUnchanged DEF Clocks, AttemptClock, AccidentWindowEnds, DamRecovers
<1>4. QED
  BY <1>1, <1>2, <1>3 DEF Calm

-----------------------------------------------------------------------------
(* The steps that resolve an attempt                                         *)

(* One attempt is written by the process that leaves; the others are as they *)
(* were.                                                                     *)
Writes(a) ==
    /\ life' = life
    /\ \A b \in Attempts \ {a} : attempt'[b] = attempt[b] /\ SameEvent(b)
    /\ NobodyNew

LEMMA WritesFit ==
    ASSUME LittersFit, NEW a \in Attempts, Writes(a), EmergencyFits(a)', WhelpingFits(a)'
    PROVE  LittersFit'
<1>1. ASSUME NEW b \in Attempts, b # a
      PROVE  EmergencyFits(b)' /\ WhelpingFits(b)'
  BY <1>1 DEF Writes, SameEvent, NobodyNew, LittersFit, EmergencyFits, WhelpingFits
<1>2. QED
  BY <1>1 DEF LittersFit

LEMMA BeginFits ==
    ASSUME TypeInv, LittersFit, NEW p \in Processes, NEW a \in Attempts,
           BeginCheck(p, a) \/ BeginWhelp(p, a)
    PROVE  LittersFit'
<1>0. TypeInv /\ LittersFit /\ proc \in [Processes -> Procs]
  BY DEF TypeInv, ProcOK
<1>1. UNCHANGED <<attempt, emergency, life>>
  BY DEF BeginCheck, BeginWhelp, Enter, rows
<1>2. attempt[a].status \in Unborn
  BY DEF BeginCheck, BeginWhelp, Due, Unborn
<1>3. ~life.overlapping => \A q \in Processes : ~Resolving(q, a)
  BY DEF BeginCheck, BeginWhelp, Alone, Resolving
<1>4. \A q \in Processes, b \in Attempts :
        Resolving(q, b)' => Resolving(q, b) \/ (q = p /\ b = a)
  <2>1. PICK at \in {"check", "whelp"} : Enter(p, at, a, None, "none")
    BY DEF BeginCheck, BeginWhelp
  <2>2. PICK r : r = [Idle EXCEPT !.at = at, !.a = a, !.c = None, !.was = "none"]
    OBVIOUS
  <2>3. r.a = a /\ proc' = [proc EXCEPT ![p] = r]
    BY <2>1, <2>2 DEF Enter, Idle
  <2>4. QED
    BY <1>0, <2>3 DEF Resolving
<1>5. ASSUME NEW b \in Attempts
      PROVE  EmergencyFits(b)' /\ WhelpingFits(b)'
  <2>1. EmergencyFits(b) /\ WhelpingFits(b)
    BY <1>0 DEF LittersFit
  <2>2. EmergencyFits(b)'
    BY <1>1, <2>1 DEF EmergencyFits
  <2>3. CASE b # a
    BY <1>1, <1>4, <2>1, <2>2, <2>3 DEF WhelpingFits
  <2>4. CASE b = a
    BY <1>1, <1>2, <1>3, <1>4, <2>1, <2>2, <2>4 DEF WhelpingFits
  <2>5. QED
    BY <2>3, <2>4
<1>6. QED
  BY <1>5 DEF LittersFit

LEMMA CheckFits ==
    ASSUME TypeInv, LittersFit, NEW p \in Processes, CommitCheck(p)
    PROVE  LittersFit'
<1>0. TypeInv /\ LittersFit /\ attempt \in [Attempts -> AttemptRows]
  BY DEF TypeInv, RowsOK
<1>1. PICK a \in Attempts : a = proc[p].a /\ Resolving(p, a)
  BY <1>0 DEF CommitCheck, TypeInv, ProcOK, Fits, Resolving
<1>2. PICK st \in {"PREGNANT", "CHECKED_NOT_PREGNANT"} : attempt' = [attempt EXCEPT ![a].status = st]
  BY <1>1 DEF CommitCheck
<1>3. /\ attempt'[a].status # "NONE" /\ attempt'[a].seed = attempt[a].seed
      /\ attempt'[a].litters = attempt[a].litters
      /\ \A b \in Attempts \ {a} : attempt'[b] = attempt[b]
  <2>1. PICK x \in AttemptRows : x = attempt[a]
    BY <1>0
  <2>2. PICK r : r = [x EXCEPT !.status = st]
    OBVIOUS
  <2>3. r.status = st /\ r.seed = x.seed /\ r.litters = x.litters
    BY <2>1, <2>2 DEF AttemptRows
  <2>4. QED
    BY <1>0, <1>2, <2>1, <2>2, <2>3
<1>4. Writes(a) /\ SameEvent(a)
  BY <1>0, <1>3, LeaveElsewhere, SameEventUnchanged DEF CommitCheck, Writes
<1>5. EmergencyFits(a) /\ WhelpingFits(a)
  BY <1>0 DEF LittersFit
<1>6. EmergencyFits(a)'
  BY <1>3, <1>4, <1>5 DEF EmergencyFits, SameEvent
<1>7. WhelpingFits(a)'
  BY <1>1, <1>3, <1>4, <1>5 DEF WhelpingFits, Writes, NobodyNew
<1>8. QED
  BY <1>0, <1>4, <1>6, <1>7, WritesFit

LEMMA WhelpFits ==
    ASSUME TypeInv, LittersFit, NEW p \in Processes, CommitWhelp(p)
    PROVE  LittersFit'
<1>0. /\ TypeInv /\ LittersFit /\ attempt \in [Attempts -> AttemptRows]
      /\ emergency \in [Attempts -> EmergencyRows]
  BY DEF TypeInv, RowsOK
<1>1. PICK a \in Attempts : a = proc[p].a /\ Resolving(p, a)
  BY <1>0 DEF CommitWhelp, TypeInv, ProcOK, Fits, Resolving
<1>2. EmergencyFits(a) /\ WhelpingFits(a)
  BY <1>0 DEF LittersFit
<1>3. NobodyNew /\ life' = life /\ ~Resolving(p, a)'
  BY <1>0, LeaveElsewhere DEF CommitWhelp
<1>4. CASE attempt[a].seed = "crisis" /\ StillPregnant(a) /\ Complicate(a)
  <2>1. PICK x \in AttemptRows : x = attempt[a]
    BY <1>0
  <2>2. PICK r : r = [x EXCEPT !.status = "REPRODUCTIVE_EMERGENCY"]
    OBVIOUS
  <2>3. r.status = "REPRODUCTIVE_EMERGENCY" /\ r.seed = x.seed /\ r.litters = x.litters
    BY <2>1, <2>2 DEF AttemptRows
  <2>4. attempt' = [attempt EXCEPT ![a] = r]
    BY <1>0, <1>4, <2>1, <2>2 DEF Complicate
  <2>5. PICK n : emergency' = [emergency EXCEPT ![a].status = "PENDING", ![a].order = n]
    BY <1>4 DEF Complicate
  <2>6. PICK e \in EmergencyRows : e = emergency[a]
    BY <1>0
  <2>7. PICK f : f = [e EXCEPT !.status = "PENDING", !.order = n]
    OBVIOUS
  <2>8. f.status = "PENDING"
    BY <2>6, <2>7 DEF EmergencyRows
  <2>9. emergency' = [emergency EXCEPT ![a] = f]
    BY <1>0, <2>5, <2>6, <2>7 DEF EmergencyRows
  <2>10. Writes(a)
    BY <1>0, <1>3, <2>4, <2>9 DEF Writes, SameEvent
  <2>11. attempt'[a].litters = 0 /\ attempt'[a].seed = "crisis" /\ attempt'[a].status # "NONE"
    BY <1>0, <1>2, <1>4, <2>1, <2>3, <2>4 DEF EmergencyFits, StillPregnant, Resolved
  <2>12. EmergencyFits(a)'
    BY <2>11 DEF EmergencyFits
  <2>13. WhelpingFits(a)'
    BY <1>2, <1>3, <2>11 DEF WhelpingFits, NobodyNew
  <2>14. QED
    BY <1>0, <2>10, <2>12, <2>13, WritesFit
<1>5. CASE attempt[a].seed # "crisis" /\ Whelp(a)
  <2>1. PICK x \in AttemptRows : x = attempt[a]
    BY <1>0
  <2>2. PICK m \in Nat : m = x.litters + 1
    BY <2>1 DEF AttemptRows
  <2>3. PICK n : n = PupCount(a)
    OBVIOUS
  <2>4. PICK r : r = [x EXCEPT !.status = "WHELPED", !.pups = n, !.litters = m]
    OBVIOUS
  <2>5. r.status = "WHELPED" /\ r.seed = x.seed /\ r.litters = m
    BY <2>1, <2>4 DEF AttemptRows
  <2>6. attempt' = [attempt EXCEPT ![a] = r]
    BY <1>0, <1>5, <2>1, <2>2, <2>3, <2>4 DEF Whelp, AttemptRows
  <2>7. Writes(a) /\ SameEvent(a)
    BY <1>0, <1>3, <1>5, <2>6, SameEventUnchanged DEF Writes, Whelp
  <2>8. attempt'[a].seed # "crisis" /\ attempt'[a].status = "WHELPED"
    BY <1>0, <1>5, <2>1, <2>5, <2>6
  <2>9. EmergencyFits(a)'
    BY <1>2, <1>5, <2>7, <2>8 DEF EmergencyFits, SameEvent
  <2>10. ~life.overlapping => /\ attempt'[a].litters = 1
                             /\ \A q \in Processes : ~Resolving(q, a)'
    BY <1>0, <1>1, <1>2, <1>3, <1>5, <2>1, <2>2, <2>5, <2>6 DEF WhelpingFits, NobodyNew
  <2>11. WhelpingFits(a)'
    BY <1>3, <2>8, <2>10 DEF WhelpingFits, Unborn
  <2>12. QED
    BY <1>0, <2>7, <2>9, <2>11, WritesFit
<1>6. QED
  BY <1>1, <1>4, <1>5 DEF CommitWhelp

(* The resolution of an emergency writes the attempt whatever it is now.     *)
LEMMA ResolveFits ==
    ASSUME TypeInv, LittersFit, NEW p \in Processes, CommitResolve(p)
    PROVE  LittersFit'
<1>0. /\ TypeInv /\ RowsOK /\ LittersFit /\ attempt \in [Attempts -> AttemptRows]
      /\ emergency \in [Attempts -> EmergencyRows]
  BY DEF TypeInv, RowsOK
<1>1. PICK a \in Attempts :
        /\ a = proc[p].a
        /\ emergency[a].status \in {"PENDING", "TREATMENT_AUTHORIZED", "TREATMENT_DECLINED"}
  BY <1>0 DEF CommitResolve, EmergencyUnchanged, TypeInv, ProcOK, Fits
<1>2. EmergencyFits(a) /\ WhelpingFits(a)
  BY <1>0 DEF LittersFit
<1>3. attempt[a].seed = "crisis" /\ attempt[a].litters = 0 /\ attempt[a].status # "NONE"
  BY <1>1, <1>2 DEF EmergencyFits, Resolved
<1>4. NobodyNew /\ life' = life
  BY <1>0, LeaveElsewhere DEF CommitResolve
<1>5. PICK n \in Survivors : DamAfterEmergency(a, n)
  BY <1>1 DEF CommitResolve
<1>6. PICK st \in {"WHELPED", "FAILED"}, k \in {0, 1} :
        AfterEmergency(a, n) = [attempt EXCEPT ![a].status = st, ![a].pups = n, ![a].litters = @ + k]
  BY DEF AfterEmergency
<1>7. PICK x \in AttemptRows : x = attempt[a]
  BY <1>0
<1>8. x.litters + k = k
  BY <1>3, <1>7
<1>9. PICK r : r = [x EXCEPT !.status = st, !.pups = n, !.litters = k]
  OBVIOUS
<1>10. r.status = st /\ r.seed = x.seed /\ r.litters = k
  BY <1>7, <1>9 DEF AttemptRows
<1>11. AfterEmergency(a, n) = [attempt EXCEPT ![a] = r]
  BY <1>0, <1>6, <1>7, <1>8, <1>9 DEF AttemptRows
<1>12. SameLitters(AfterEmergency(a, n), attempt')
  BY <1>0, <1>1, <1>5, AfterEmergencyKeeps, DeathLitters, SameLittersUnchanged DEF DamAfterEmergency
<1>13. /\ attempt'[a].litters \in {0, 1} /\ attempt'[a].seed = "crisis"
       /\ attempt'[a].status # "NONE"
  BY <1>0, <1>3, <1>7, <1>10, <1>11, <1>12 DEF SameLitters
<1>14. /\ emergency'[a].status \in Resolved
       /\ \A b \in Attempts : b # a => emergency'[b] = emergency[b]
  <2>1. PICK es \in Resolved : emergency' = [emergency EXCEPT ![a].status = es]
    BY <1>1 DEF CommitResolve, Resolved
  <2>2. QED
    BY <1>0, <2>1 DEF EmergencyRows
<1>15. EmergencyFits(a)' /\ WhelpingFits(a)'
  BY <1>2, <1>4, <1>13, <1>14 DEF EmergencyFits, WhelpingFits, NobodyNew
<1>16. ASSUME NEW b \in Attempts, b # a
       PROVE  EmergencyFits(b)' /\ WhelpingFits(b)'
  <2>1. EmergencyFits(b) /\ WhelpingFits(b)
    BY <1>0 DEF LittersFit
  <2>2. /\ attempt'[b].litters = attempt[b].litters /\ attempt'[b].seed = attempt[b].seed
        /\ attempt'[b].status \in Unborn => attempt[b].status \in Unborn
        /\ attempt'[b].status = "NONE" => attempt[b].status = "NONE"
    BY <1>0, <1>11, <1>12, <1>16 DEF SameLitters
  <2>3. QED
    BY <1>4, <1>14, <1>16, <2>1, <2>2 DEF EmergencyFits, WhelpingFits, NobodyNew
<1>17. QED
  BY <1>15, <1>16 DEF LittersFit

LEMMA BreedFits ==
    ASSUME TypeInv, LittersFit, NEW p \in Processes, CommitBreed(p)
    PROVE  LittersFit'
<1>0. TypeInv /\ LittersFit /\ attempt \in [Attempts -> AttemptRows]
  BY DEF TypeInv, RowsOK
<1>1. PICK a \in Attempts, c, s \in Contracts \cup {None} : MakesAttempt(a, c, s)
  BY <1>0, BreedStep
<1>2. PICK seed \in Seeds : attempt' = [attempt EXCEPT ![a] = NewAttempt(seed, c, s)]
  BY <1>1 DEF MakesAttempt
<1>3. PICK r : r = NewAttempt(seed, c, s)
  OBVIOUS
<1>4. r.status = "INITIATED" /\ r.litters = 0
  BY <1>3 DEF NewAttempt, NoAttempt
<1>5. /\ attempt'[a] = r
      /\ \A b \in Attempts \ {a} : attempt'[b] = attempt[b]
  BY <1>0, <1>2, <1>3
<1>6. Writes(a) /\ SameEvent(a)
  BY <1>0, <1>5, LeaveElsewhere, SameEventUnchanged DEF CommitBreed, Writes
<1>7. emergency[a].status = "NONE" /\ WhelpingFits(a)
  BY <1>0, <1>1 DEF MakesAttempt, LittersFit, EmergencyFits
<1>8. EmergencyFits(a)'
  BY <1>4, <1>5, <1>6, <1>7 DEF EmergencyFits, SameEvent
<1>9. WhelpingFits(a)'
  BY <1>4, <1>5, <1>6, <1>7 DEF WhelpingFits, Writes, NobodyNew
<1>10. QED
  BY <1>0, <1>6, <1>8, <1>9, WritesFit

-----------------------------------------------------------------------------
(* The theorem                                                               *)

LEMMA InitLitters == Init => LittersFit
<1> SUFFICES ASSUME Init, NEW a \in Attempts
             PROVE  EmergencyFits(a) /\ WhelpingFits(a)
  BY DEF LittersFit
<1>1. attempt[a].litters = 0
  BY DEF Init, Tried, NoAttempt
<1>2. emergency[a].status = "NONE" /\ \A p \in Processes : ~Resolving(p, a)
  BY DEF Init, NoEmergency, Idle, Resolving
<1>3. QED
  BY <1>1, <1>2 DEF EmergencyFits, WhelpingFits

LEMMA NextLitters ==
    ASSUME TypeInv, LittersFit, [Next]_vars
    PROVE  LittersFit'
<1>0. TypeInv /\ LittersFit
  OBVIOUS
<1>1. CASE ContractNext
  <2>1. UNCHANGED <<attempt, emergency, proc, life>>
    BY <1>1 DEF ContractNext, RequestContract, DeclineContract, ContractJob, ExpireContract,
       ExpireService, ContractClock, ApprovalWindowEnds, ServiceWindowEnds, Quiet,
       SireLeaves, SireRecovers
  <2>2. Calm
    BY <2>1, SameLittersUnchanged, SameEventUnchanged DEF Calm, NobodyNew, Resolving
  <2>3. QED
    BY <1>0, <2>2, CalmFits
<1>2. ASSUME NEW p \in Processes, JobBegins(p) \/ WebBegins(p)
      PROVE  LittersFit'
  <2>1. ASSUME NEW a \in Attempts, Resolves(p, a)
        PROVE  LittersFit'
    BY <1>0, <2>1, BeginFits DEF Resolves
  <2>2. CASE DieMark(p)
    BY <1>0, <2>2, DeathCalm, CalmFits
  <2>3. ASSUME NEW at \in Handlers \ {"check", "whelp"}, NEW a, NEW c, NEW was,
               Enter(p, at, a, c, was)
        PROVE  LittersFit'
    BY <1>0, <2>3, EnterElsewhere, CalmFits
  <2>4. {"breed", "resolve", "treat", "refuse", "open", "care", "forgo", "buy"}
            \subseteq Handlers \ {"check", "whelp"}
    BY DEF Handlers
  <2>5. CASE Breeds(p)
    BY <2>3, <2>4, <2>5 DEF Breeds, BeginBreed
  <2>6. ASSUME NEW a \in Attempts, BeginResolve(p, a) \/ BeginTreat(p, a) \/ BeginRefuse(p, a)
        PROVE  LittersFit'
    BY <2>3, <2>4, <2>6 DEF BeginResolve, BeginTreat, BeginRefuse
  <2>7. CASE BeginOpen(p) \/ BeginCare(p) \/ BeginForgo(p) \/ BeginBuy(p)
    BY <2>3, <2>4, <2>7 DEF BeginOpen, BeginCare, BeginForgo, BeginBuy
  <2>8. QED
    BY <1>2, <2>1, <2>2, <2>5, <2>6, <2>7 DEF JobBegins, WebBegins
<1>3. ASSUME NEW p \in Processes, Commits(p)
      PROVE  LittersFit'
  <2>1. CASE CommitBreed(p) \/ CommitCheck(p) \/ CommitWhelp(p) \/ CommitResolve(p)
    BY <1>0, <2>1, BreedFits, CheckFits, WhelpFits, ResolveFits
  <2>2. CASE CommitTreat(p) \/ CommitRefuse(p)
    BY <1>0, <2>2, DecideCalm, CalmFits
  <2>3. CASE CommitOpen(p) \/ CommitCare(p) \/ CommitForgo(p) \/ CommitBuy(p)
    BY <1>0, <2>3, AccidentCalm, CalmFits
  <2>4. CASE Dies(p)
    BY <1>0, <2>4, DeathCalm, CalmFits
  <2>5. QED
    BY <1>3, <2>1, <2>2, <2>3, <2>4 DEF Commits
<1>4. ASSUME NEW p \in Processes, Abort(p)
      PROVE  LittersFit'
  <2>1. Calm
    BY <1>0, <1>4, LeaveElsewhere, SameLittersUnchanged, SameEventUnchanged DEF Abort, rows, Calm
  <2>2. QED
    BY <1>0, <2>1, CalmFits
<1>5. CASE Clocks
  BY <1>0, <1>5, ClockCalm, CalmFits
<1>6. CASE ExpireCare
  <2>1. SameLitters(attempt, attempt') /\ UNCHANGED <<emergency, proc, life>>
    BY <1>0, <1>6, DeathLitters DEF ExpireCare, TypeInv, RowsOK
  <2>2. Calm
    BY <2>1, SameEventUnchanged DEF Calm, NobodyNew, Resolving
  <2>3. QED
    BY <1>0, <2>2, CalmFits
<1>7. CASE UNCHANGED vars
  <2>1. Calm
    BY <1>7, SameLittersUnchanged, SameEventUnchanged DEF vars, rows, Calm, NobodyNew, Resolving
  <2>2. QED
    BY <1>0, <2>1, CalmFits
<1>8. life.jobs \subseteq Processes /\ life.webs \subseteq Processes
  BY <1>0, LivesAssumption DEF TypeInv, RowsOK
<1>9. QED
  BY <1>1, <1>2, <1>3, <1>4, <1>5, <1>6, <1>7, <1>8 DEF Next

(* However often and late the pages and the jobs resolve a due attempt, it   *)
(* gives one litter, when no two of them resolve it at a time; an attempt    *)
(* whose whelping became an emergency gives one even if they do, for the     *)
(* event is created once and its status repeated by what resolves it         *)
(* (reproductiveEmergencyResolution.service.ts).                             *)
THEOREM OneLitter == Spec => []OneLitterPerAttempt
<1>1. Init => TypeInv /\ LittersFit
  BY InitIInv, InitLitters DEF IInv
<1>2. IInv /\ LittersFit /\ [Next]_vars => LittersFit'
  BY NextLitters DEF IInv
<1>3. LittersFit => OneLitterPerAttempt
  BY DEF LittersFit, EmergencyFits, WhelpingFits, OneLitterPerAttempt
<1>4. QED
  BY <1>1, <1>2, <1>3, Invariance, PTL DEF Spec
=============================================================================
