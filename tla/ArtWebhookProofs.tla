-------------------------- MODULE ArtWebhookProofs --------------------------
(* Proofs about the inbox of PayPal's events: whatever is delivered, twice,  *)
(* late or not at all, the payments follow the protocol of ArtPayments, and  *)
(* the event of a capture is put away only when its money has arrived.       *)
EXTENDS ArtWebhook, ArtPaymentsProofs

-----------------------------------------------------------------------------
(* Every step of the inbox is a step of the protocol, or none                *)

InboxStep(w) ==
    \/ Mailing(w) \/ Works(w) \/ WorkFails(w) \/ DiesAtWork(w) \/ DiesBetween(w)
    \/ \E a \in Attempts : Cron(w, a)

(* The event a busy worker serves is a row of the inbox.                     *)
MailOK ==
    /\ inbox \in [Events -> {"NONE", "RECEIVED", "PROCESSED", "IGNORED", "FAILED"}]
    /\ mail \in [Workers -> [event: Events \cup {None}, stage: Stages]]
    /\ \A w \in Workers : mail[w].stage # "idle" =>
          mail[w].event \in Events /\ inbox[mail[w].event] # "NONE"

Elsewhere ==
    \/ \E r \in Requests : RequestStep(r) \/ ReconcileStep(r) \/ ProviderDown(r) \/ Crash(r)
    \/ CompleteArtwork
    \/ \E a \in Attempts : Outside(a)

LEMMA InboxCases ==
    [InboxNext]_<<vars, inboxVars>> <=>
        \/ \E w \in Workers : InboxStep(w)
        \/ Elsewhere /\ UNCHANGED inboxVars
        \/ UNCHANGED <<vars, inboxVars>>
  BY DEF InboxNext, InboxStep, Elsewhere

LEMMA WorkerFollows ==
    ASSUME TypeOK, MailOK, NEW w \in Workers, InboxStep(w)
    PROVE  ProcessStep(w) \/ ProviderDown(w) \/ Crash(w) \/ UNCHANGED vars
<1>1. CASE \E e \in Events : Receive(w, e) \/ Replay(w, e)
  BY <1>1 DEF Receive, Replay
<1>2. CASE Resolve(w)
  <2>1. mail[w].event \in Events
    BY <1>2 DEF Resolve, MailOK
  <2> DEFINE a == About[mail[w].event].attempt
  <2>2. a \in Attempts /\ About[mail[w].event].resource \in {"order", "auth", "cap"}
    BY <2>1, EventsAssumption DEF Resources
  <2>3. attempt[a].order \/ attempt[a].auth \/ attempt[a].cap
    BY <1>2, <2>2 DEF Resolve, Named
  <2>4. WebhookPicks(w, a)
    BY <1>2, <2>3 DEF Resolve, WebhookPicks
  <2>5. QED
    BY <2>2, <2>4 DEF ProcessStep
<1>3. CASE Unresolved(w) \/ Conclude(w) \/ DiesBetween(w)
  BY <1>3 DEF Unresolved, Conclude, DiesBetween
<1>4. CASE Works(w)
  BY <1>4 DEF Works, ProcessStep
<1>5. CASE WorkFails(w) \/ DiesAtWork(w)
  BY <1>5 DEF WorkFails, DiesAtWork
<1>6. CASE \E a \in Attempts : Cron(w, a)
  BY <1>6 DEF Cron, ProcessStep
<1>7. QED
  BY <1>1, <1>2, <1>3, <1>4, <1>5, <1>6 DEF InboxStep, Mailing

LEMMA MailInit == InboxInit => MailOK
  BY DEF InboxInit, MailOK, NoMail, Stages

LEMMA MailStep ==
    ASSUME MailOK, NEW w \in Workers, InboxStep(w)
    PROVE  MailOK'
<1> USE DEF MailOK
<1>0. /\ mail[w] \in [event: Events \cup {None}, stage: Stages]
      /\ NoMail \in [event: Events \cup {None}, stage: Stages]
  BY DEF NoMail, Stages
<1>1. ASSUME NEW e \in Events, Receive(w, e)
      PROVE  MailOK'
  BY <1>1 DEF Receive, Serve, Stages
<1>2. ASSUME NEW e \in Events, Replay(w, e)
      PROVE  MailOK'
  BY <1>2 DEF Replay, Replayable, Serve, Stages
<1>3. CASE Resolve(w)
  BY <1>3 DEF Resolve, Serve, Stages
<1>4. CASE Unresolved(w)
  BY <1>4, <1>0 DEF Unresolved, NoMail, Stages
<1>5. CASE Conclude(w)
  <2>1. Outcome(mail[w].stage) \in {"PROCESSED", "IGNORED", "FAILED"}
    BY <1>5 DEF Conclude, Outcome
  <2>2. PICK status \in {"PROCESSED", "IGNORED", "FAILED"} :
            inbox' = [inbox EXCEPT ![mail[w].event] = status]
    BY <1>5, <2>1 DEF Conclude
  <2>3. mail' = [mail EXCEPT ![w] = NoMail]
    BY <1>5 DEF Conclude
  <2>4. QED
    BY <1>0, <2>2, <2>3 DEF NoMail
<1>6. CASE Works(w)
  BY <1>6 DEF Works, Stages
<1>7. CASE WorkFails(w)
  BY <1>7 DEF WorkFails, Stages
<1>8. CASE DiesAtWork(w) \/ DiesBetween(w)
  BY <1>8, <1>0 DEF DiesAtWork, DiesBetween, NoMail
<1>9. CASE \E a \in Attempts : Cron(w, a)
  BY <1>9 DEF Cron, inboxVars
<1>10. QED
  BY <1>1, <1>2, <1>3, <1>4, <1>5, <1>6, <1>7, <1>8, <1>9 DEF InboxStep, Mailing

LEMMA Follows ==
    ASSUME TypeOK, MailOK, [InboxNext]_<<vars, inboxVars>>
    PROVE  [Next]_vars /\ MailOK'
<1>1. ASSUME NEW w \in Workers, InboxStep(w)
      PROVE  [Next]_vars /\ MailOK'
  BY <1>1, WorkerFollows, MailStep DEF Next, Processes
<1>2. CASE Elsewhere /\ UNCHANGED inboxVars
  <2>1. Next
    BY <1>2 DEF Elsewhere, Next, ProcessStep, Processes
  <2>2. QED
    BY <1>2, <2>1 DEF inboxVars, MailOK
<1>3. CASE UNCHANGED <<vars, inboxVars>>
  BY <1>3 DEF inboxVars, MailOK
<1>4. QED
  BY <1>1, <1>2, <1>3, InboxCases

(* The inbox adds nothing to the payment protocol: every behaviour of the    *)
(* two is one of ArtPayments, so all that is proved of that holds here.      *)
THEOREM DeliveriesFollowProtocol == InboxSpec => Spec
<1>1. InboxInit => Init /\ TypeOK /\ MailOK
  BY MailInit, InitType DEF InboxInit
<1>2. TypeOK /\ MailOK /\ [InboxNext]_<<vars, inboxVars>> => [Next]_vars /\ TypeOK' /\ MailOK'
  BY Follows, NextType
<1>3. QED
  BY <1>1, <1>2, PTL DEF InboxSpec, Spec
-----------------------------------------------------------------------------
(* An event that is put away has done its work                               *)

(* A completed attempt has its contribution, whatever is written later.      *)
CompletedIsCounted == \A a \in Attempts : attempt[a].status = "COMPLETED" => a \in contributions

(* What a step of the protocol never takes back.                             *)
Kept ==
    /\ contributions \subseteq contributions'
    /\ \A a \in Attempts : /\ attempt[a].cap => attempt'[a].cap
                           /\ Settled(a) => Settled(a)'

(* Of a capture only what was completed is told.                             *)
Heard ==
    \A e \in Events :
        About[e].resource = "cap" /\ inbox[e] # "NONE" => Settled(About[e].attempt)

(* A worker that serves the event of a capture is on the way to its          *)
(* contribution, and has thrown when it does not arrive there.               *)
OnTheWay(w) ==
    mail[w].stage # "idle" /\ About[mail[w].event].resource = "cap" =>
        LET a == About[mail[w].event].attempt IN
        /\ mail[w].stage = "running" =>
              /\ target[w] = a
              /\ attempt[a].cap
              /\ pc[w] \in {"reconcile", "recAuthorization", "recVoid",
                            "recCapture", "recCaptured", "recFund"}
        /\ mail[w].stage = "returned" => a \in contributions

InboxInv ==
    /\ IInv
    /\ MailOK
    /\ CompletedIsCounted
    /\ Heard
    /\ \A w \in Workers : OnTheWay(w)
    /\ ProcessedCaptureIsFunded

LEMMA InboxInvInit == InboxInit => InboxInv
<1> SUFFICES ASSUME InboxInit
             PROVE  InboxInv
  OBVIOUS
<1>1. IInv /\ MailOK
  BY InitInvariant, MailInit DEF InboxInit
<1>2. CompletedIsCounted
  BY DEF InboxInit, Init, NoRow, CompletedIsCounted
<1>3. Heard /\ ProcessedCaptureIsFunded
  BY DEF InboxInit, Heard, ProcessedCaptureIsFunded
<1>4. \A w \in Workers : OnTheWay(w)
  BY DEF InboxInit, NoMail, OnTheWay
<1>5. QED
  BY <1>1, <1>2, <1>3, <1>4 DEF InboxInv

(* No handler takes back a capture id, or writes COMPLETED but for Fund.     *)
RowsKept ==
    /\ \A a \in Attempts : attempt[a].cap => attempt'[a].cap
    /\ \A a \in Attempts : attempt'[a].status = "COMPLETED" =>
          attempt[a].status = "COMPLETED" \/ a \in contributions'

LEMMA RequestRows ==
    ASSUME TypeOK, NEW r \in Requests, RequestStep(r)
    PROVE  RowsKept
<1> USE DEF RowsKept, TypeOK, Rows
<1>0. target[r] \in Attempts
  BY DEF Processes
<1>1. CASE StartAttempt(r)
  BY <1>1, <1>0 DEF StartAttempt
<1>2. CASE StartSave(r)
  BY <1>2, <1>0 DEF StartSave
<1>3. CASE ReturnSave(r)
  BY <1>3, <1>0 DEF ReturnSave, SetStatus
<1>4. CASE AuthorizeId(r)
  BY <1>4, <1>0 DEF AuthorizeId
<1>5. CASE AuthorizeSave(r)
  BY <1>5, <1>0 DEF AuthorizeSave
<1>6. CASE ReserveWrite(r)
  BY <1>6, <1>0 DEF ReserveWrite
<1>7. CASE CaptureId(r)
  BY <1>7, <1>0 DEF CaptureId
<1>8. CASE CaptureSave(r)
  BY <1>8, <1>0 DEF CaptureSave
<1>9. CASE VoidId(r)
  BY <1>9, <1>0 DEF VoidId, SetStatus
<1>10. CASE VoidRetry(r)
  BY <1>10, <1>0 DEF VoidRetry, SetStatus
<1>11. CASE UNCHANGED attempt
  BY <1>11
<1>12. QED
  BY <1>1, <1>2, <1>3, <1>4, <1>5, <1>6, <1>7, <1>8, <1>9, <1>10, <1>11
  DEF RequestStep, table, StartCheck, StartOrder, ReturnRead, ReturnReadUnordered, ReturnOrder,
      FinalizeRead, FinalizeOrder, Authorize, ReserveLock, Dispatch, Capture

LEMMA ReconcileRows ==
    ASSUME TypeOK, NEW p \in Processes, ReconcileStep(p)
    PROVE  RowsKept
<1> USE DEF RowsKept, TypeOK, Rows
<1>0. target[p] \in Attempts
  OBVIOUS
<1>1. CASE Release(p)
  BY <1>1, <1>0 DEF Release, Released
<1>2. CASE Fund(p)
  BY <1>2, <1>0 DEF Fund, table
<1>3. CASE UNCHANGED attempt
  BY <1>3
<1>4. QED
  BY <1>1, <1>2, <1>3
  DEF ReconcileStep, table, Reconcile, RecAuthorization, RecCapture, RecOrder, Void, CapturedRead

LEMMA StepKeeps ==
    ASSUME IInv, CompletedIsCounted, [Next]_vars
    PROVE  Kept /\ CompletedIsCounted'
<1>0. TypeOK /\ CaptureUsesAuthorization
  BY DEF IInv
<1> DEFINE Goal == /\ contributions \subseteq contributions' /\ RowsKept
                   /\ \A a \in Attempts : Settled(a) => Settled(a)'
<1>1. ASSUME NEW p \in Requests, RequestStep(p)
      PROVE  Goal
  BY <1>1, <1>0, RequestRows, RequestMoney, RequestPayPal DEF PayPalKeeps
<1>2. ASSUME NEW p \in Processes, ReconcileStep(p)
      PROVE  Goal
  <2>1. contributions \subseteq contributions'
    BY <1>2, ReconcileMoney DEF Fund, table
  <2>2. QED
    BY <1>2, <1>0, <2>1, ReconcileRows, ReconcilePayPal DEF PayPalKeeps
<1>3. ASSUME UNCHANGED <<table, paypal>>
      PROVE  Goal
  BY <1>3 DEF table, RowsKept, Settled
<1>4. ASSUME NEW a \in Attempts, Outside(a)
      PROVE  Goal
  BY <1>4, <1>0
  DEF Outside, PlayerApproves, AuthorizationExpires, CaptureSettles, table, RowsKept, Settled,
      TypeOK, PayPalStates
<1>5. ASSUME CompleteArtwork
      PROVE  Goal
  BY <1>5 DEF CompleteArtwork, RowsKept, Settled
<1>6. UNCHANGED vars => UNCHANGED <<table, paypal>>
  BY DEF vars, table
<1>7. ASSUME NEW p \in Processes, ProcessStep(p) \/ ProviderDown(p) \/ Crash(p)
      PROVE  Goal
  BY <1>7, <1>1, <1>2, <1>3 DEF ProcessStep, CronPicks, WebhookPicks, Picks, ProviderDown, Crash
<1>8. Goal
  BY <1>3, <1>4, <1>5, <1>6, <1>7 DEF Next
<1>9. QED
  BY <1>8 DEF Kept, RowsKept, CompletedIsCounted
(* A step of one process is none of another.                                 *)
LEMMA OthersStay ==
    ASSUME IInv, NEW w \in Workers,
           \/ \E p \in Processes \ {w} : ProcessStep(p) \/ ProviderDown(p) \/ Crash(p)
           \/ CompleteArtwork
           \/ \E a \in Attempts : Outside(a)
           \/ UNCHANGED vars
    PROVE  pc'[w] = pc[w] /\ target'[w] = target[w]
<1>0. w \in Processes /\ pc \in [Processes -> Labels] /\ target \in [Processes -> Attempts]
  BY DEF IInv, TypeOK, Processes
<1> USE <1>0 DEF Goto, Finish
<1>1. ASSUME NEW p \in Processes \ {w}, p \in Requests, RequestStep(p)
      PROVE  pc'[w] = pc[w] /\ target'[w] = target[w]
  BY <1>1
  DEF RequestStep, StartCheck, StartAttempt, StartOrder, StartSave, ReturnRead, ReturnReadUnordered,
      ReturnOrder, ReturnSave, FinalizeRead, FinalizeOrder, AuthorizeId, Authorize, AuthorizeSave,
      ReserveLock, ReserveWrite, Dispatch, CaptureId, Capture, CaptureSave, VoidId, VoidRetry
<1>2. ASSUME NEW p \in Processes \ {w}, ReconcileStep(p)
      PROVE  pc'[w] = pc[w] /\ target'[w] = target[w]
  BY <1>2
  DEF ReconcileStep, Reconcile, RecAuthorization, RecCapture, RecOrder, Void, Release, CapturedRead,
      Fund
<1>3. ASSUME NEW p \in Processes \ {w}, NEW a \in Attempts, Picks(p, a)
      PROVE  pc'[w] = pc[w] /\ target'[w] = target[w]
  BY <1>3 DEF Picks
<1>4. ASSUME NEW p \in Processes \ {w}, ProviderDown(p) \/ Crash(p)
      PROVE  pc'[w] = pc[w] /\ target'[w] = target[w]
  BY <1>4 DEF ProviderDown, Crash
<1>5. ASSUME NEW a \in Attempts, Outside(a)
      PROVE  pc'[w] = pc[w] /\ target'[w] = target[w]
  BY <1>5 DEF Outside, PlayerApproves, AuthorizationExpires, CaptureSettles
<1>6. QED
  BY <1>1, <1>2, <1>3, <1>4, <1>5 DEF ProcessStep, CronPicks, WebhookPicks, CompleteArtwork, vars

(* The way of a worker to the contribution: it stays on it, throws, or has   *)
(* arrived.                                                                  *)
LEMMA WorkStaysOnTheWay ==
    ASSUME InboxInv, Kept, NEW w \in Workers, Works(w)
    PROVE  OnTheWay(w)'
<1> DEFINE a == About[mail[w].event].attempt
<1>0. /\ w \in Processes /\ Finished(w) = "ready"
      /\ pc \in [Processes -> Labels] /\ target \in [Processes -> Attempts]
      /\ mail \in [Workers -> [event: Events \cup {None}, stage: Stages]]
  BY ProcessAssumption DEF Processes, Finished, InboxInv, IInv, TypeOK, MailOK
<1>1. /\ mail'[w].event = mail[w].event
      /\ mail'[w].stage # mail[w].stage =>
            /\ mail[w].stage = "running" /\ pc'[w] = "ready"
            /\ mail'[w].stage = (IF Throws(w) THEN "threw" ELSE "returned")
      /\ mail'[w].stage = "running" => pc'[w] # "ready"
  BY <1>0 DEF Works
<1>2. CASE mail[w].stage # "running"
  BY <1>1, <1>2, EventsAssumption DEF OnTheWay, InboxInv, MailOK, Kept
<1>3. CASE mail[w].stage = "running" /\ About[mail[w].event].resource # "cap"
  BY <1>1, <1>3 DEF OnTheWay
<1>4. CASE mail[w].stage = "running" /\ About[mail[w].event].resource = "cap"
  <2>1. /\ a \in Attempts /\ target[w] = a /\ attempt[a].cap /\ attempt'[a].cap
        /\ pc[w] \in {"reconcile", "recAuthorization", "recVoid",
                      "recCapture", "recCaptured", "recFund"}
        /\ Settled(a)
    BY <1>4, EventsAssumption DEF InboxInv, OnTheWay, MailOK, Heard, Kept
  <2>2. paypal[a].auth = "CAPTURED" /\ (attempt[a].status = "COMPLETED" => a \in contributions)
    BY <2>1 DEF InboxInv, IInv, CaptureUsesAuthorization, Settled, CompletedIsCounted
  <2> DEFINE Arrives == \/ /\ target'[w] = a
                           /\ pc'[w] \in {"recAuthorization", "recVoid",
                                          "recCapture", "recCaptured", "recFund"}
                        \/ pc'[w] = "ready" /\ (Throws(w) \/ a \in contributions')
  <2>3. Arrives
    <3> USE DEF Goto, Finish
    <3>1. CASE Reconcile(w)
      BY <3>1, <1>0, <2>1, <2>2 DEF Reconcile, table
    <3>2. CASE RecAuthorization(w)
      BY <3>2, <1>0, <2>1, <2>2 DEF RecAuthorization, GivenBack
    <3>3. CASE RecCapture(w)
      BY <3>3, <1>0, <2>1 DEF RecCapture
    <3>4. CASE RecOrder(w) \/ Release(w)
      BY <3>4, <2>1 DEF RecOrder, Release
    <3>5. CASE Void(w)
      BY <3>5, <1>0, <2>1, <2>2 DEF Void, Throws
    <3>6. CASE CapturedRead(w)
      BY <3>6, <1>0, <2>1 DEF CapturedRead, table
    <3>7. CASE Fund(w)
      BY <3>7, <1>0, <2>1 DEF Fund, Throws
    <3>8. QED
      BY <3>1, <3>2, <3>3, <3>4, <3>5, <3>6, <3>7 DEF Works, ReconcileStep
  <2>4. CASE pc'[w] = "ready"
    BY <1>0, <1>1, <1>4, <2>3, <2>4 DEF OnTheWay, Works
  <2>5. CASE pc'[w] # "ready"
    BY <1>1, <1>4, <2>1, <2>3, <2>5 DEF OnTheWay
  <2>6. QED
    BY <2>4, <2>5
<1>5. QED
  BY <1>2, <1>3, <1>4
(* What the mail of a worker says stays true while others work.              *)
LEMMA OthersLeaveTheWay ==
    ASSUME InboxInv, Kept, NEW w \in Workers,
           mail'[w] = mail[w], pc'[w] = pc[w], target'[w] = target[w]
    PROVE  OnTheWay(w)'
  BY EventsAssumption DEF OnTheWay, InboxInv, MailOK, Kept

(* A worker's own step, of whatever kind, leaves it on its way.              *)
LEMMA WorkerOnTheWay ==
    ASSUME InboxInv, Kept, NEW w \in Workers, InboxStep(w)
    PROVE  OnTheWay(w)'
<1>0. /\ w \in Processes
      /\ pc \in [Processes -> Labels] /\ target \in [Processes -> Attempts]
      /\ mail \in [Workers -> [event: Events \cup {None}, stage: Stages]]
      /\ OnTheWay(w)
  BY DEF Processes, InboxInv, IInv, TypeOK, MailOK
<1>1. CASE \E e \in Events : Receive(w, e) \/ Replay(w, e)
  BY <1>0, <1>1 DEF Receive, Replay, Serve, OnTheWay
<1>2. CASE Resolve(w)
  <2> DEFINE e == mail[w].event
  <2>1. /\ e \in Events /\ About[e].attempt \in Attempts
        /\ mail' = [mail EXCEPT ![w] = [event |-> e, stage |-> "running"]]
        /\ pc' = [pc EXCEPT ![w] = "reconcile"]
        /\ target' = [target EXCEPT ![w] = About[e].attempt]
        /\ attempt[About[e].attempt][About[e].resource]
    BY <1>2, EventsAssumption DEF Resolve, Serve, Picks, Named, InboxInv, MailOK
  <2>2. About[e].resource = "cap" => attempt'[About[e].attempt].cap
    BY <2>1 DEF Kept
  <2>3. QED
    BY <1>0, <2>1, <2>2 DEF OnTheWay
<1>3. CASE Unresolved(w)
  BY <1>0, <1>3 DEF Unresolved, NoMail, OnTheWay
<1>4. CASE Conclude(w) \/ DiesBetween(w) \/ DiesAtWork(w)
  BY <1>0, <1>4 DEF Conclude, DiesBetween, DiesAtWork, NoMail, OnTheWay
<1>5. CASE Works(w)
  BY <1>5, WorkStaysOnTheWay
<1>6. CASE WorkFails(w)
  <2>1. mail[w].stage = "running" => mail'[w].stage = "threw"
    BY <1>0, <1>6 DEF WorkFails
  <2>2. mail[w].stage # "running" => mail' = mail
    BY <1>0, <1>6 DEF WorkFails
  <2>3. CASE mail[w].stage = "running"
    BY <2>1, <2>3 DEF OnTheWay
  <2>4. CASE mail[w].stage # "running"
    BY <1>0, <2>2, <2>4, EventsAssumption DEF OnTheWay, Kept, InboxInv, MailOK
  <2>5. QED
    BY <2>3, <2>4
<1>7. CASE \E a \in Attempts : Cron(w, a)
  BY <1>0, <1>7 DEF Cron, Free, inboxVars, NoMail, OnTheWay
<1>8. QED
  BY <1>1, <1>2, <1>3, <1>4, <1>5, <1>6, <1>7 DEF InboxStep, Mailing

(* An event is told when it has happened, and put away when the worker that  *)
(* served it has arrived.                                                    *)
LEMMA WorkerInbox ==
    ASSUME InboxInv, Kept, NEW w \in Workers, InboxStep(w)
    PROVE  Heard' /\ ProcessedCaptureIsFunded'
<1>0. /\ \A e \in Events : About[e].attempt \in Attempts
      /\ \A e \in Events : About[e].resource = "cap" /\ inbox[e] # "NONE"
                           => Settled(About[e].attempt)'
      /\ \A e \in Events : About[e].resource = "cap" /\ inbox[e] = "PROCESSED"
                           => About[e].attempt \in contributions'
  BY EventsAssumption DEF InboxInv, Heard, ProcessedCaptureIsFunded, Kept
<1>1. CASE UNCHANGED inbox
  BY <1>0, <1>1 DEF Heard, ProcessedCaptureIsFunded
<1>2. ASSUME NEW e \in Events, Receive(w, e)
      PROVE  Heard' /\ ProcessedCaptureIsFunded'
  <2>1. inbox' = [inbox EXCEPT ![e] = IF @ = "NONE" THEN "RECEIVED" ELSE @] /\ UNCHANGED vars
    BY <1>2 DEF Receive
  <2>2. About[e].resource = "cap" => Settled(About[e].attempt)
    BY <1>2 DEF Receive, Happened, Settled
  <2>3. inbox \in [Events -> {"NONE", "RECEIVED", "PROCESSED", "IGNORED", "FAILED"}]
    BY DEF InboxInv, MailOK
  <2>4. \A f \in Events : f # e => inbox'[f] = inbox[f]
    BY <2>1, <2>3
  <2>5. Settled(About[e].attempt)' <=> Settled(About[e].attempt)
    BY <2>1 DEF vars, Settled
  <2>6. inbox'[e] = "PROCESSED" => inbox[e] = "PROCESSED"
    BY <2>1, <2>3
  <2>7. QED
    BY <1>0, <2>2, <2>4, <2>5, <2>6 DEF Heard, ProcessedCaptureIsFunded
<1>3. CASE Conclude(w)
  <2> DEFINE e == mail[w].event
  <2>1. /\ e \in Events /\ inbox[e] # "NONE"
        /\ inbox \in [Events -> {"NONE", "RECEIVED", "PROCESSED", "IGNORED", "FAILED"}]
    BY <1>3 DEF Conclude, InboxInv, MailOK
  <2>2. \A f \in Events : f # e => inbox'[f] = inbox[f]
    BY <1>3, <2>1 DEF Conclude
  <2>3. inbox'[e] = "PROCESSED" => mail[w].stage = "returned"
    BY <1>3, <2>1 DEF Conclude, Outcome
  <2>4. inbox'[e] = "PROCESSED" /\ About[e].resource = "cap" => About[e].attempt \in contributions'
    BY <2>1, <2>3, <1>0 DEF InboxInv, OnTheWay, Kept
  <2>5. QED
    BY <1>0, <2>1, <2>2, <2>4 DEF Heard, ProcessedCaptureIsFunded
<1>4. QED
  BY <1>1, <1>2, <1>3
  DEF InboxStep, Mailing, Replay, Resolve, Unresolved, Works, WorkFails, DiesAtWork, DiesBetween,
      Cron, inboxVars

LEMMA MailOfOthers ==
    ASSUME MailOK, NEW w \in Workers, InboxStep(w)
    PROVE  \A v \in Workers \ {w} : mail'[v] = mail[v]
<1>1. mail \in [Workers -> [event: Events \cup {None}, stage: Stages]]
  BY DEF MailOK
<1>2. QED
  BY <1>1
  DEF InboxStep, Mailing, Receive, Replay, Resolve, Unresolved, Conclude, Works, WorkFails,
      DiesAtWork, DiesBetween, Cron, Serve, inboxVars

LEMMA InboxInvNext == InboxInv /\ [InboxNext]_<<vars, inboxVars>> => InboxInv'
<1> SUFFICES ASSUME InboxInv, [InboxNext]_<<vars, inboxVars>>
             PROVE  InboxInv'
  OBVIOUS
<1>0. IInv /\ TypeOK /\ MailOK /\ CompletedIsCounted
  BY DEF InboxInv, IInv
<1>1. [Next]_vars /\ MailOK'
  BY <1>0, Follows
<1>2. IInv' /\ Kept /\ CompletedIsCounted'
  BY <1>0, <1>1, NextInvariant, StepKeeps
<1> DEFINE Goal == Heard' /\ ProcessedCaptureIsFunded' /\ \A v \in Workers : OnTheWay(v)'
<1>3. ASSUME NEW w \in Workers, InboxStep(w)
      PROVE  Goal
  <2>1. \/ ProcessStep(w) \/ ProviderDown(w) \/ Crash(w)
        \/ UNCHANGED vars
    BY <1>0, <1>3, WorkerFollows
  <2>2. \A v \in Workers \ {w} : pc'[v] = pc[v] /\ target'[v] = target[v]
    BY <1>0, <2>1, OthersStay DEF Processes
  <2>3. \A v \in Workers \ {w} : OnTheWay(v)'
    BY <1>0, <1>2, <1>3, <2>2, MailOfOthers, OthersLeaveTheWay
  <2>4. QED
    BY <1>2, <1>3, <2>3, WorkerOnTheWay, WorkerInbox
<1>4. ASSUME Elsewhere \/ UNCHANGED vars, UNCHANGED inboxVars
      PROVE  Goal
  <2>1. Heard' /\ ProcessedCaptureIsFunded'
    BY <1>2, <1>4, EventsAssumption
    DEF InboxInv, Heard, ProcessedCaptureIsFunded, Kept, inboxVars
  <2>2. ASSUME NEW v \in Workers
        PROVE  OnTheWay(v)'
    <3>1. \/ \E p \in Processes \ {v} : ProcessStep(p) \/ ProviderDown(p) \/ Crash(p)
          \/ CompleteArtwork
          \/ \E a \in Attempts : Outside(a)
          \/ UNCHANGED vars
      BY <1>4, ProcessAssumption DEF Elsewhere, ProcessStep, Processes
    <3>2. pc'[v] = pc[v] /\ target'[v] = target[v]
      BY <1>0, <3>1, OthersStay
    <3>3. QED
      BY <1>2, <1>4, <3>2, OthersLeaveTheWay DEF inboxVars
  <2>3. QED
    BY <2>1, <2>2
<1>5. Goal
  BY <1>3, <1>4, InboxCases DEF inboxVars
<1>6. QED
  BY <1>1, <1>2, <1>5 DEF InboxInv

(* The event of a completed capture is put away as PROCESSED, and so never   *)
(* looked at again, only when the money has become a contribution.           *)
THEOREM ProcessedEventsAreFunded == InboxSpec => []ProcessedCaptureIsFunded
<1>1. InboxInit => InboxInv
  BY InboxInvInit
<1>2. InboxInv /\ [InboxNext]_<<vars, inboxVars>> => InboxInv'
  BY InboxInvNext
<1>3. InboxInv => ProcessedCaptureIsFunded
  BY DEF InboxInv
<1>4. QED
  BY <1>1, <1>2, <1>3, PTL DEF InboxSpec

(* With events delivered in any way, the goal is still never exceeded and    *)
(* nothing is contributed that was not paid.                                 *)
THEOREM DeliveriesKeepTheGoal == InboxSpec => [](FundedWithinGoal /\ ContributionIsPaid)
  BY DeliveriesFollowProtocol, GoalRespected, ContributionsPaid, PTL
=============================================================================
