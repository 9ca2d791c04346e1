---------------------------- MODULE ArtPayments ----------------------------
(* Breed Art contributions: checkout, return, finalization, reconciliation.  *)
(*                                                                           *)
(* Players pay for units of one finite campaign through PayPal.  A web       *)
(* request or a background worker is a process: each of its database         *)
(* statements or transactions is one step and each PayPal call is one step,  *)
(* so that any two processes interleave between them.  Statements outside a  *)
(* transaction work from the row as the process last read it (`snap`); a     *)
(* transaction that runs SELECT ... FOR UPDATE on the campaign excludes the  *)
(* other such transactions, and nothing else.                                *)
(*                                                                           *)
(* PayPal is modelled from how the services call it: a request id makes a    *)
(* repeated call return the first answer, an authorization is captured or    *)
(* voided at most once, and any call may fail with or without effect.        *)
(* Amounts, currencies and order details always match (verifyProviderOrder   *)
(* and amountMatches succeed): the server derives both sides from the row.   *)
EXTENDS Integers, FiniteSets, Functions

CONSTANTS
    Attempts,       \* contribution attempts (rows of ArtPaymentAttempt)
    Units,          \* Units[a]: requestedUnits of attempt a
    Total,          \* totalFundingUnits of the campaign
    Requests,       \* web requests; each runs once
    RequestFor,     \* RequestFor[r]: the attempt request r is about
    Workers,        \* cron passes and webhook deliveries; each runs forever
    SingleTab,      \* TRUE: a player's requests for one attempt never overlap
    None            \* no request id, no lock holder

ASSUME UnitsAssumption == Units \in [Attempts -> Nat \ {0}]
ASSUME TotalAssumption == Total \in Nat \ {0}
ASSUME AttemptsAssumption == Attempts # {}
ASSUME RequestAssumption == RequestFor \in [Requests -> Attempts]
ASSUME ProcessAssumption ==
    /\ Requests \cap Workers = {}
    /\ None \notin Requests \cup Workers
ASSUME TabAssumption == SingleTab \in BOOLEAN

Processes == Requests \cup Workers

VARIABLES
    attempt,        \* the ArtPaymentAttempt rows
    contributions,  \* attempts that have an ArtContribution row
    funded,         \* sum of fundedUnits over the contributions
    campaign,       \* ArtCampaign.status
    lock,           \* process whose open transaction holds the campaign row
    paypal,         \* PayPal's order, authorization and capture, per attempt
    pc,             \* where each process stands
    target,         \* the attempt each process is working on
    snap            \* the row as the process last read it

vars == <<attempt, contributions, funded, campaign, lock, paypal, pc, target, snap>>

Statuses == {"NONE", "CREATED", "ORDER_CREATED", "APPROVED", "AUTHORIZED",
             "RESERVED", "UNAVAILABLE_AFTER_AUTH", "CAPTURE_PENDING",
             "COMPLETED", "FAILED", "VOID_PENDING", "VOIDED", "CANCELLED",
             "RECONCILING"}

RequestId == Requests \cup {None}

(* A row: status, whether each provider id is recorded, the stored request   *)
(* ids, reservedUnits (0 for null).  status NONE: the row does not exist.    *)
Rows == [status: Statuses, order: BOOLEAN, auth: BOOLEAN, cap: BOOLEAN,
         authReq: RequestId, capReq: RequestId, units: Nat]

NoRow == [status |-> "NONE", order |-> FALSE, auth |-> FALSE, cap |-> FALSE,
          authReq |-> None, capReq |-> None, units |-> 0]

PayPalStates ==
    [order: {"NONE", "CREATED", "APPROVED", "COMPLETED"},
     auth: {"NONE", "CREATED", "CAPTURED", "VOIDED", "EXPIRED"},
     cap: {"NONE", "PENDING", "COMPLETED", "DECLINED"},
     authReq: RequestId, capReq: RequestId]

(* A request has its attempt; an idle worker has none in particular.         *)
Home(p) == IF p \in Requests THEN RequestFor[p] ELSE CHOOSE a \in Attempts : TRUE

Init ==
    /\ attempt = [a \in Attempts |-> NoRow]
    /\ contributions = {}
    /\ funded = 0
    /\ campaign = "NEEDS_FUNDING"
    /\ lock = None
    /\ paypal = [a \in Attempts |->
                   [order |-> "NONE", auth |-> "NONE", cap |-> "NONE",
                    authReq |-> None, capReq |-> None]]
    /\ pc = [p \in Processes |-> "ready"]
    /\ target = [p \in Processes |-> Home(p)]
    /\ snap = [p \in Processes |-> NoRow]

-----------------------------------------------------------------------------
(* Helpers *)

table == <<attempt, contributions, funded, campaign>>

(* A finished request never runs again; a worker waits for its next pass.    *)
Finished(p) == IF p \in Requests THEN "done" ELSE "ready"

Goto(p, label) ==
    /\ pc' = [pc EXCEPT ![p] = label]
    /\ UNCHANGED target

Read(p) == snap' = [snap EXCEPT ![p] = attempt[target[p]]]
Forget(p) == snap' = [snap EXCEPT ![p] = NoRow]

(* The handler returns or throws: nothing of it survives.                    *)
Finish(p) ==
    /\ pc' = [pc EXCEPT ![p] = Finished(p)]
    /\ target' = [target EXCEPT ![p] = Home(p)]
    /\ Forget(p)

(* A request may start: with SingleTab the player waits for the last answer. *)
MayStart(r) ==
    /\ r \in Requests
    /\ pc[r] = "ready"
    /\ SingleTab => \A q \in Requests :
                       RequestFor[q] = RequestFor[r] => pc[q] \in {"ready", "done"}

(* Definitions named ...Fault are plausible mistakes in the definition that  *)
(* follows them; no specification uses them (see the README, "Mutants").     *)

Holding == {"RESERVED", "CAPTURE_PENDING", "RECONCILING"}

(* Units promised to attempts whose payment is under way.                    *)
Reserved ==
    FoldFunctionOnSet(+, 0, [a \in Attempts |-> attempt[a].units],
                      {a \in Attempts : attempt[a].status \in Holding})

PromisedFault == funded

(* Units funded or promised, as reserveAttempt sums them.                    *)
Promised == funded + Reserved

CanAcceptContributions == campaign = "NEEDS_FUNDING" /\ funded < Total

(* One update statement: only the columns it names are written.              *)
SetStatus(a, s) == attempt' = [attempt EXCEPT ![a].status = s]

-----------------------------------------------------------------------------
(* Checkout: startArtPaymentAttempt *)

(* The campaign is read once, before the attempt exists.                     *)
StartCheck(r) ==
    /\ MayStart(r)
    /\ CanAcceptContributions
    /\ Units[target[r]] <= Total - funded
    /\ Goto(r, "startAttempt")
    /\ UNCHANGED <<table, lock, paypal, snap>>

(* Find or create the attempt: (userId, clientRequestId) is unique, so a     *)
(* losing create reads the winner's row.                                     *)
StartAttempt(r) ==
    /\ pc[r] = "startAttempt"
    /\ attempt' = IF attempt[target[r]].status = "NONE"
                  THEN [attempt EXCEPT ![target[r]].status = "CREATED"]
                  ELSE attempt
    /\ snap' = [snap EXCEPT ![r] = attempt'[target[r]]]
    /\ Goto(r, "startOrder")
    /\ UNCHANGED <<contributions, funded, campaign, lock, paypal>>

(* createOrReconcilePayPalOrder: an order the row names is only looked up;   *)
(* otherwise PayPal creates it, once per stored create request id.           *)
StartOrder(r) ==
    /\ pc[r] = "startOrder"
    /\ \/ /\ snap[r].order
          /\ Finish(r)
          /\ UNCHANGED paypal
       \/ /\ ~snap[r].order
          /\ paypal' = IF paypal[target[r]].order = "NONE"
                       THEN [paypal EXCEPT ![target[r]].order = "CREATED"]
                       ELSE paypal
          /\ \/ Goto(r, "startSave") /\ Forget(r)
             \/ Finish(r)                        \* the answer is lost
    /\ UNCHANGED <<table, lock>>

StartSave(r) ==
    /\ pc[r] = "startSave"
    /\ attempt' = [attempt EXCEPT ![target[r]].order = TRUE,
                                  ![target[r]].status = "ORDER_CREATED"]
    /\ Finish(r)
    /\ UNCHANGED <<contributions, funded, campaign, lock, paypal>>

-----------------------------------------------------------------------------
(* Return page: getArtPaymentAttemptForReturn *)

ReturnRead(r) ==
    /\ MayStart(r)
    /\ attempt[target[r]].order
    /\ \E cancelled \in BOOLEAN :
          Goto(r, IF cancelled THEN "cancelOrder" ELSE "returnOrder")
    /\ Read(r)
    /\ UNCHANGED <<table, lock, paypal>>

(* Cancelled before the order was recorded: the row read is CREATED.         *)
ReturnReadUnordered(r) ==
    /\ MayStart(r)
    /\ attempt[target[r]].status = "CREATED"
    /\ ~attempt[target[r]].order
    /\ Goto(r, "cancelSave")
    /\ UNCHANGED <<table, lock, paypal, snap>>

CancellableFault == Statuses

Cancellable == {"CREATED", "ORDER_CREATED"}

(* PayPal's order decides, against the row read before the call; when        *)
(* neither applies only providerOrderStatus is written.                      *)
ReturnOrder(r) ==
    LET approved == paypal[target[r]].order = "APPROVED"
        cancels == /\ pc[r] = "cancelOrder" /\ ~approved
                   /\ snap[r].status \in Cancellable
        approves == approved /\ snap[r].status = "ORDER_CREATED"
    IN  /\ pc[r] \in {"cancelOrder", "returnOrder"}
        /\ \/ cancels /\ Goto(r, "cancelSave") /\ Forget(r)
           \/ approves /\ Goto(r, "approveSave") /\ Forget(r)
           \/ ~cancels /\ ~approves /\ Finish(r)
        /\ UNCHANGED <<table, lock, paypal>>

ReturnSave(r) ==
    /\ pc[r] \in {"cancelSave", "approveSave"}
    /\ SetStatus(target[r], IF pc[r] = "cancelSave" THEN "CANCELLED" ELSE "APPROVED")
    /\ Finish(r)
    /\ UNCHANGED <<contributions, funded, campaign, lock, paypal>>

-----------------------------------------------------------------------------
(* Finalization: finalizeArtPaymentAttempt *)

FinalizeRead(r) ==
    /\ MayStart(r)
    /\ attempt[target[r]].status \notin {"NONE", "COMPLETED"}
    /\ IF attempt[target[r]].status \in {"RECONCILING", "VOID_PENDING"}
       THEN Goto(r, "reconcile") /\ UNCHANGED snap
       ELSE attempt[target[r]].order /\ Goto(r, "order") /\ Read(r)
    /\ UNCHANGED <<table, lock, paypal>>

(* The order must be approved, unless an authorization is already known.  A  *)
(* first authorization stores this request's id in the row before the call.  *)
FinalizeOrder(r) ==
    /\ pc[r] = "order"
    /\ \/ snap[r].auth /\ Goto(r, "reserve") /\ Forget(r)
       \/ /\ ~snap[r].auth
          /\ paypal[target[r]].order = "APPROVED"
          /\ Goto(r, IF snap[r].authReq = None THEN "authorizeId" ELSE "authorize")
          /\ UNCHANGED snap
       \/ /\ ~snap[r].auth
          /\ paypal[target[r]].order # "APPROVED"
          /\ Finish(r)
    /\ UNCHANGED <<table, lock, paypal>>

AuthorizeId(r) ==
    /\ pc[r] = "authorizeId"
    /\ attempt' = [attempt EXCEPT ![target[r]].authReq = r]
    /\ snap' = [snap EXCEPT ![r] = attempt'[target[r]]]
    /\ Goto(r, "authorize")
    /\ UNCHANGED <<contributions, funded, campaign, lock, paypal>>

(* PayPal authorizes an approved order once and repeats its answer to the    *)
(* same request id; the service wants a CREATED authorization.               *)
Authorize(r) ==
    LET a == target[r]
        first == paypal[a].auth = "NONE" /\ paypal[a].order = "APPROVED"
        again == paypal[a].authReq = snap[r].authReq /\ paypal[a].auth = "CREATED"
    IN  /\ pc[r] = "authorize"
        /\ paypal' = IF first
                     THEN [paypal EXCEPT ![a].auth = "CREATED", ![a].order = "COMPLETED",
                                         ![a].authReq = snap[r].authReq]
                     ELSE paypal
        /\ \/ (first \/ again) /\ Goto(r, "authorizeSave") /\ UNCHANGED snap
           \/ Finish(r)                          \* refused, or the answer is lost
        /\ UNCHANGED <<table, lock>>

AuthorizeSave(r) ==
    /\ pc[r] = "authorizeSave"
    /\ attempt' = [attempt EXCEPT ![target[r]].auth = TRUE,
                                  ![target[r]].status = "AUTHORIZED"]
    /\ Goto(r, "reserve")
    /\ Forget(r)
    /\ UNCHANGED <<contributions, funded, campaign, lock, paypal>>

(* reserveAttempt: the campaign is locked, the row and the sums are read     *)
(* under the lock, and the outcome is written by a later statement.          *)
ReserveLock(r) ==
    LET row == attempt[target[r]]
        settled == row.status \in Holding \cup {"COMPLETED"}
    IN  /\ pc[r] = "reserve"
        /\ lock = None
        /\ \/ settled /\ Goto(r, "reserved") /\ Read(r) /\ UNCHANGED lock
           \/ /\ ~settled
              /\ lock' = r
              /\ UNCHANGED snap
              /\ Goto(r, IF Promised > Total THEN "reserveReconcile"
                         ELSE IF row.status # "AUTHORIZED" \/ Units[target[r]] > Total - Promised
                              THEN "reserveRefuse" ELSE "reserveGrant")
        /\ UNCHANGED <<table, paypal>>

ReserveWrite(r) ==
    /\ attempt' = CASE pc[r] = "reserveReconcile" ->
                         [attempt EXCEPT ![target[r]].status = "RECONCILING"]
                    [] pc[r] = "reserveRefuse" ->
                         [attempt EXCEPT ![target[r]].status = "UNAVAILABLE_AFTER_AUTH"]
                    [] OTHER ->
                         [attempt EXCEPT ![target[r]].status = "RESERVED",
                                         ![target[r]].units = Units[target[r]]]
    /\ pc[r] \in {"reserveReconcile", "reserveRefuse", "reserveGrant"}
    /\ snap' = [snap EXCEPT ![r] = attempt'[target[r]]]
    /\ Goto(r, "reserved")
    /\ lock' = None
    /\ UNCHANGED <<contributions, funded, campaign, paypal>>

(* What finalization does with the row the reservation returned.             *)
Dispatch(r) ==
    /\ pc[r] = "reserved"
    /\ \/ snap[r].status = "UNAVAILABLE_AFTER_AUTH" /\ Goto(r, "voidId") /\ UNCHANGED snap
       \/ snap[r].status = "RECONCILING" /\ Finish(r)
       \/ /\ snap[r].status \notin {"UNAVAILABLE_AFTER_AUTH", "RECONCILING"}
          /\ IF snap[r].auth /\ snap[r].units = Units[target[r]]
             THEN Goto(r, "captureId") /\ UNCHANGED snap
             ELSE Finish(r)
    /\ UNCHANGED <<table, lock, paypal>>

(* The capture request id is the one the reserved row carried, or a new one. *)
CaptureId(r) ==
    LET id == IF snap[r].capReq = None THEN r ELSE snap[r].capReq
    IN  /\ pc[r] = "captureId"
        /\ attempt' = [attempt EXCEPT ![target[r]].capReq = id,
                                      ![target[r]].status = "CAPTURE_PENDING"]
        /\ snap' = [snap EXCEPT ![r].capReq = id]
        /\ Goto(r, "capture")
        /\ UNCHANGED <<contributions, funded, campaign, lock, paypal>>

UnansweredFault == "captureFailed"

(* A capture without a definitive answer is neither made nor failed.         *)
Unanswered == "captureUnknown"

(* captureArtAuthorization.  PayPal captures a live authorization once and   *)
(* repeats its answer to the same request id; any other capture is refused   *)
(* with a 4xx (a definitive failure), and any call may be left unanswered.   *)
(* A 4xx is taken at its word: it never answers a capture that was made      *)
(* under the same request id.                                                *)
Capture(r) ==
    LET a == target[r]
        again == paypal[a].capReq = snap[r].capReq /\ paypal[a].cap # "NONE"
        outcome(c) ==
            \/ c = "COMPLETED" /\ Goto(r, "captured")
            \/ c # "COMPLETED" /\ Goto(r, "capturePending")
            \/ Goto(r, Unanswered)
    IN  /\ pc[r] = "capture"
        /\ \/ \E c \in {"COMPLETED", "PENDING", "DECLINED"} :
                 /\ paypal[a].auth = "CREATED"
                 /\ paypal' = [paypal EXCEPT ![a].auth = "CAPTURED", ![a].cap = c,
                                             ![a].capReq = snap[r].capReq]
                 /\ outcome(c)
           \/ again /\ outcome(paypal[a].cap) /\ UNCHANGED paypal
           \/ ~again /\ Goto(r, "captureFailed") /\ UNCHANGED paypal
           \/ Goto(r, Unanswered) /\ UNCHANGED paypal
        /\ Forget(r)
        /\ UNCHANGED <<table, lock>>

(* After the capture: record a pending capture, or note that it is unclear.  *)
CaptureSave(r) ==
    /\ pc[r] \in {"capturePending", "captureUnknown"}
    /\ attempt' = [attempt EXCEPT ![target[r]].status = "RECONCILING",
                                  ![target[r]].cap = @ \/ pc[r] = "capturePending"]
    /\ Finish(r)
    /\ UNCHANGED <<contributions, funded, campaign, lock, paypal>>

-----------------------------------------------------------------------------
(* The two closing transactions *)

ReleasedFault(p) == IF pc[p] \in {"voided", "releaseVoided"} THEN "VOIDED" ELSE "RELEASED"
ReleasedSwapFault(p) == IF pc[p] \in {"voided", "releaseVoided"} THEN "FAILED" ELSE "VOIDED"

Released(p) == IF pc[p] \in {"voided", "releaseVoided"} THEN "VOIDED" ELSE "FAILED"

(* releaseReservation: it locks the campaign, then writes without looking.   *)
Release(p) ==
    /\ pc[p] \in {"captureFailed", "releaseFailed", "voided", "releaseVoided"}
    /\ lock = None
    /\ attempt' = [attempt EXCEPT ![target[p]].units = 0, ![target[p]].status = Released(p)]
    /\ Finish(p)
    /\ UNCHANGED <<contributions, funded, campaign, lock, paypal>>

(* finalizeCapturedAttempt reads the row and its contribution ...            *)
CapturedRead(p) ==
    /\ pc[p] \in {"captured", "recCaptured"}
    /\ IF target[p] \in contributions
       THEN Finish(p)
       ELSE /\ Goto(p, IF pc[p] = "captured" THEN "fund" ELSE "recFund")
            /\ Read(p)
    /\ UNCHANGED <<table, lock, paypal>>

(* The row read holds no full reservation, the campaign is too full, or the  *)
(* unique contribution exists by now.                                        *)
FundRefused(p) ==
    \/ snap[p].units # Units[target[p]]
    \/ funded + Units[target[p]] > Total
    \/ target[p] \in contributions

ClosedByFault(total) == IF funded = Total /\ campaign = "NEEDS_FUNDING" THEN "FUNDED" ELSE campaign

(* The contribution that reaches the goal closes the campaign.               *)
ClosedBy(total) == IF total = Total /\ campaign = "NEEDS_FUNDING" THEN "FUNDED" ELSE campaign

(* ... and decides on that reading once it holds the campaign.  A refusal    *)
(* throws: finalization catches it and marks the attempt RECONCILING,        *)
(* reconciliation does not.                                                  *)
Fund(p) ==
    LET a == target[p] IN
    /\ pc[p] \in {"fund", "recFund"}
    /\ lock = None
    /\ \/ /\ ~FundRefused(p)
          /\ contributions' = contributions \cup {a}
          /\ funded' = funded + Units[a]
          /\ attempt' = [attempt EXCEPT ![a].status = "COMPLETED", ![a].cap = TRUE, ![a].units = 0]
          /\ campaign' = ClosedBy(funded + Units[a])
          /\ Finish(p)
       \/ /\ FundRefused(p)
          /\ UNCHANGED table
          /\ IF pc[p] = "fund" THEN Goto(p, "captureUnknown") /\ Forget(p) ELSE Finish(p)
    /\ UNCHANGED <<lock, paypal>>

-----------------------------------------------------------------------------
(* Giving the authorization back *)

VoidId(r) ==
    /\ pc[r] = "voidId"
    /\ SetStatus(target[r], "VOID_PENDING")
    /\ Goto(r, "void")
    /\ Forget(r)
    /\ UNCHANGED <<contributions, funded, campaign, lock, paypal>>

(* voidArtAuthorization, from finalization or from reconciliation: PayPal    *)
(* voids a live authorization, whether or not its answer arrives.  After a   *)
(* failed call finalization writes VOID_PENDING again, reconciliation throws.*)
Void(p) ==
    LET failed == IF pc[p] = "void" THEN Goto(p, "voidRetry") /\ Forget(p) ELSE Finish(p)
    IN  /\ pc[p] \in {"void", "recVoid"}
        /\ \/ /\ paypal[target[p]].auth \in {"CREATED", "VOIDED"}
              /\ paypal' = [paypal EXCEPT ![target[p]].auth = "VOIDED"]
              /\ (Goto(p, "voided") /\ Forget(p)) \/ failed
           \/ failed /\ UNCHANGED paypal
        /\ UNCHANGED <<table, lock>>

VoidRetry(r) ==
    /\ pc[r] = "voidRetry"
    /\ SetStatus(target[r], "VOID_PENDING")
    /\ Finish(r)
    /\ UNCHANGED <<contributions, funded, campaign, lock, paypal>>

-----------------------------------------------------------------------------
(* Reconciliation: reconcileArtPaymentAttempt *)

PendingStatusesFault == {"RECONCILING"}

PendingStatuses == {"RECONCILING", "VOID_PENDING"}

Picks(w, a) ==
    /\ w \in Workers
    /\ pc[w] = "ready"
    /\ target' = [target EXCEPT ![w] = a]
    /\ pc' = [pc EXCEPT ![w] = "reconcile"]
    /\ UNCHANGED <<table, lock, paypal, snap>>

(* A cron pass takes the attempts waiting for PayPal, oldest first.          *)
CronPicks(w, a) == attempt[a].status \in PendingStatuses /\ Picks(w, a)

(* A webhook takes whichever attempt a provider id of the event resolves to. *)
WebhookPicks(w, a) ==
    /\ attempt[a].order \/ attempt[a].auth \/ attempt[a].cap
    /\ Picks(w, a)

UnclearFault(row, a) ==
    /\ row.status = "CAPTURE_PENDING" /\ row.auth
    /\ row.capReq # None /\ row.units = Units[a]

(* A capture was asked for under a full reservation and never answered.      *)
Unclear(row, a) ==
    /\ row.status = "RECONCILING" /\ row.auth
    /\ row.capReq # None /\ row.units = Units[a]

(* What the row, read once, asks for.                                        *)
Reconcile(p) ==
    LET row == attempt[target[p]]
        unclear == Unclear(row, target[p])
        voiding == row.status = "VOID_PENDING" /\ row.auth
    IN  /\ pc[p] = "reconcile"
        /\ IF row.status = "COMPLETED" \/ ~(voiding \/ row.cap \/ unclear)
           THEN Finish(p)
           ELSE /\ Goto(p, IF voiding THEN "recAuthorization"
                           ELSE IF row.cap THEN "recCapture" ELSE "recOrder")
                /\ UNCHANGED snap
        /\ UNCHANGED <<table, lock, paypal>>

GivenBack(a) == paypal[a].auth \in {"VOIDED", "EXPIRED"}

RecAuthorization(p) ==
    /\ pc[p] = "recAuthorization"
    /\ Goto(p, IF GivenBack(target[p]) THEN "releaseVoided" ELSE "recVoid")
    /\ UNCHANGED <<table, lock, paypal, snap>>

SettledFault(a) == paypal[a].cap \in {"COMPLETED", "PENDING"}

(* PayPal reports the capture completed, by its id or in the order.          *)
Settled(a) == paypal[a].cap = "COMPLETED"

DeclinedFault(a) == paypal[a].cap # "COMPLETED"

Declined(a) == paypal[a].cap = "DECLINED"

RecCapture(p) ==
    /\ pc[p] = "recCapture"
    /\ IF Settled(target[p]) \/ Declined(target[p])
       THEN /\ Goto(p, IF Settled(target[p]) THEN "recCaptured" ELSE "releaseFailed")
            /\ UNCHANGED snap
       ELSE Finish(p)
    /\ UNCHANGED <<table, lock, paypal>>

RecOrder(p) ==
    /\ pc[p] = "recOrder"
    /\ IF Settled(target[p]) THEN Goto(p, "recCaptured") /\ UNCHANGED snap ELSE Finish(p)
    /\ UNCHANGED <<table, lock, paypal>>

-----------------------------------------------------------------------------
(* Artwork completion, failures, and the outside world *)

(* completeArtCampaignArtwork: one transaction under the campaign lock.      *)
CompleteArtwork ==
    /\ lock = None
    /\ campaign = "FUNDED"
    /\ funded = Total
    /\ campaign' = "DRAWING_COMPLETE"
    /\ UNCHANGED <<attempt, contributions, funded, lock, paypal, pc, target, snap>>

(* A lookup or a call PayPal never served: the handler throws.               *)
ProviderDown(p) ==
    /\ pc[p] \in {"startOrder", "cancelOrder", "returnOrder", "order", "authorize",
                  "recAuthorization", "recCapture", "recOrder", "recVoid"}
    /\ Finish(p)
    /\ UNCHANGED <<table, lock, paypal>>

(* The process dies between two steps; an open transaction rolls back.       *)
Crash(p) ==
    /\ pc[p] \notin {"ready", "done"}
    /\ Finish(p)
    /\ lock' = IF lock = p THEN None ELSE lock
    /\ UNCHANGED <<table, paypal>>

(* The player approves the order on PayPal's page.                           *)
PlayerApproves(a) ==
    /\ paypal[a].order = "CREATED"
    /\ paypal' = [paypal EXCEPT ![a].order = "APPROVED"]
    /\ UNCHANGED <<table, lock, pc, target, snap>>

AuthorizationExpires(a) ==
    /\ paypal[a].auth = "CREATED"
    /\ paypal' = [paypal EXCEPT ![a].auth = "EXPIRED"]
    /\ UNCHANGED <<table, lock, pc, target, snap>>

CaptureSettles(a) ==
    /\ paypal[a].cap = "PENDING"
    /\ \E c \in {"COMPLETED", "DECLINED"} : paypal' = [paypal EXCEPT ![a].cap = c]
    /\ UNCHANGED <<table, lock, pc, target, snap>>

-----------------------------------------------------------------------------
RequestStep(r) ==
    \/ StartCheck(r) \/ StartAttempt(r) \/ StartOrder(r) \/ StartSave(r)
    \/ ReturnRead(r) \/ ReturnReadUnordered(r) \/ ReturnOrder(r) \/ ReturnSave(r)
    \/ FinalizeRead(r) \/ FinalizeOrder(r)
    \/ AuthorizeId(r) \/ Authorize(r) \/ AuthorizeSave(r)
    \/ ReserveLock(r) \/ ReserveWrite(r) \/ Dispatch(r)
    \/ CaptureId(r) \/ Capture(r) \/ CaptureSave(r)
    \/ VoidId(r) \/ VoidRetry(r)

(* The steps a web request and a worker share.                               *)
ReconcileStep(p) ==
    \/ Reconcile(p) \/ RecAuthorization(p) \/ RecCapture(p) \/ RecOrder(p)
    \/ Void(p) \/ Release(p) \/ CapturedRead(p) \/ Fund(p)

ProcessStep(p) ==
    \/ p \in Requests /\ RequestStep(p)
    \/ ReconcileStep(p)
    \/ \E a \in Attempts : CronPicks(p, a) \/ WebhookPicks(p, a)

Outside(a) == PlayerApproves(a) \/ AuthorizationExpires(a) \/ CaptureSettles(a)

Next ==
    \/ \E p \in Processes : ProcessStep(p) \/ ProviderDown(p) \/ Crash(p)
    \/ CompleteArtwork
    \/ \E a \in Attempts : Outside(a)

Spec == Init /\ [][Next]_vars

-----------------------------------------------------------------------------
(* Properties *)

Labels == {"ready", "done", "startAttempt", "startOrder", "startSave",
           "cancelOrder", "returnOrder", "cancelSave", "approveSave", "order",
           "authorizeId", "authorize", "authorizeSave", "reserve",
           "reserveReconcile", "reserveRefuse", "reserveGrant", "reserved",
           "captureId", "capture", "capturePending", "captureUnknown",
           "captureFailed", "captured", "fund", "voidId", "void", "voidRetry",
           "voided", "reconcile", "recAuthorization", "recCapture", "recOrder",
           "recVoid", "recCaptured", "recFund", "releaseFailed", "releaseVoided"}

(* Every variable keeps its type.                                            *)
TypeOK ==
    /\ attempt \in [Attempts -> Rows]
    /\ contributions \subseteq Attempts
    /\ funded \in Nat
    /\ campaign \in {"NEEDS_FUNDING", "FUNDED", "DRAWING_COMPLETE"}
    /\ lock \in Requests \cup {None}
    /\ paypal \in [Attempts -> PayPalStates]
    /\ pc \in [Processes -> Labels]
    /\ target \in [Processes -> Attempts]
    /\ snap \in [Processes -> Rows]

(* Two payers cannot fund the same last unit, whatever their requests, the   *)
(* cron passes and the webhooks do at once; and the campaign is open exactly *)
(* while units are missing (finalizeCapturedAttempt, under the row lock).    *)
FundedWithinGoal ==
    /\ funded <= Total
    /\ campaign = "NEEDS_FUNDING" <=> funded < Total

(* A contribution is recorded only for money PayPal has captured, although   *)
(* the capture is looked at several steps before the contribution is made.   *)
ContributionIsPaid ==
    \A a \in contributions : paypal[a].cap = "COMPLETED"

(* An attempt shown as VOIDED ("You were not charged") was not charged, even *)
(* if a capture and a void of its authorization raced.                       *)
VoidedIsNotCharged ==
    \A a \in Attempts : attempt[a].status = "VOIDED" => paypal[a].cap = "NONE"

(* An attempt shown as FAILED ("No contribution was completed") was not      *)
(* charged.                                                                  *)
FailedIsNotCharged ==
    \A a \in Attempts : attempt[a].status = "FAILED" => paypal[a].cap # "COMPLETED"

(* An attempt shown as CANCELLED ("You were not charged") was not charged.   *)
CancelledIsNotCharged ==
    \A a \in Attempts : attempt[a].status = "CANCELLED" => paypal[a].cap # "COMPLETED"

(* Captured money is never orphaned: it is a contribution already, or the    *)
(* attempt still holds all its units in a state that can become one.         *)
CapturedHoldsItsUnits ==
    \A a \in Attempts :
        paypal[a].cap = "COMPLETED" /\ a \notin contributions =>
            /\ attempt[a].status \in {"CAPTURE_PENDING", "RECONCILING"}
            /\ attempt[a].units = Units[a]

(* Funded and promised units together never exceed the goal, so a capture    *)
(* that succeeds always finds room for its contribution.                     *)
ReservationsFit == funded + Reserved <= Total

(* COMPLETED is final: no late write of a stale handler takes it back.       *)
CompletedIsFinal ==
    [][\A a \in Attempts :
         attempt[a].status = "COMPLETED" => attempt'[a].status = "COMPLETED"]_vars

(* The payment protocol implements the serialized claim boundary.            *)
Boundary == INSTANCE ArtFunding WITH claimed <- contributions
ClaimBoundary == Boundary!Spec

-----------------------------------------------------------------------------
(* Liveness.  The cron route runs for ever and PayPal answers again and      *)
(* again: each process keeps stepping, and a call or lookup that is retried  *)
(* for ever is at some time served.  Crashes are finite in a fair run only   *)
(* as far as a worker's pass is repeated for ever and so completes at last.  *)
Progress(p) ==
    \/ p \in Requests /\ RequestStep(p) /\ ~MayStart(p)
    \/ ReconcileStep(p)

Fairness ==
    /\ \A p \in Processes : WF_vars(Progress(p))
    /\ \A w \in Workers, a \in Attempts :
          /\ SF_vars(CronPicks(w, a))
          /\ SF_vars(target[w] = a /\ Reconcile(w))
          /\ SF_vars(target[w] = a /\ RecAuthorization(w))
          /\ SF_vars(target[w] = a /\ Void(w) /\ pc'[w] = "voided")
          /\ SF_vars(target[w] = a /\ RecCapture(w))
          /\ SF_vars(target[w] = a /\ RecOrder(w))
          /\ SF_vars(target[w] = a /\ CapturedRead(w))
          /\ SF_vars(target[w] = a /\ Fund(w))
          /\ SF_vars(target[w] = a /\ Release(w))

FairSpec == Spec /\ Fairness

(* An unclear payment whose money PayPal did capture becomes a contribution: *)
(* the cron finds the capture, by its id or in the order.                    *)
UnclearCaptureIsFunded ==
    \A a \in Attempts :
        (attempt[a].status = "RECONCILING" /\ paypal[a].cap = "COMPLETED")
            ~> (a \in contributions)

(* A refused reservation is given back: VOID_PENDING does not last while the *)
(* authorization is one that PayPal can void or has let expire.              *)
VoidIsFinished ==
    \A a \in Attempts :
        (attempt[a].status = "VOID_PENDING" /\ paypal[a].auth # "CAPTURED")
            ~> (attempt[a].status # "VOID_PENDING")

(* "A successful PayPal payment must create exactly one canonical            *)
(* contribution": every completed capture ends as a contribution.            *)
CaptureIsFunded ==
    \A a \in Attempts : (paypal[a].cap = "COMPLETED") ~> (a \in contributions)
=============================================================================
