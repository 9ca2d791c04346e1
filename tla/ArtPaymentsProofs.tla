-------------------------- MODULE ArtPaymentsProofs --------------------------
(* Proofs about ArtPayments for every campaign and every set of attempts,    *)
(* web requests and workers.  Whether or not requests overlap: the types,    *)
(* the funding goal, the backing of contributions by captured money, and the *)
(* implementation of the claim boundary of ArtFunding.  Where a player's     *)
(* requests for one attempt do not overlap (SingleTab): no captured money is *)
(* orphaned or refused, reservations fit, COMPLETED is final, and nobody who *)
(* is told FAILED or CANCELLED was charged.  The sum that Reserved folds     *)
(* over the rows is reasoned about by smallest counterexamples (Sums).       *)
EXTENDS ArtPayments, FiniteSetTheorems, WellFoundedInduction, TLAPS

-----------------------------------------------------------------------------
(* Types *)

LEMMA HomeType == \A p \in Processes : Home(p) \in Attempts
<1>1. (CHOOSE a \in Attempts : TRUE) \in Attempts
  BY AttemptsAssumption
<1>2. QED
  BY <1>1, RequestAssumption DEF Home, Processes

LEMMA NoRowType == NoRow \in Rows
  BY DEF NoRow, Rows, Statuses, RequestId

LEMMA InitType == Init => TypeOK
  BY HomeType, NoRowType
  DEF Init, TypeOK, RequestId, PayPalStates, Labels

(* How a process moves, and what it remembers.                               *)
LEMMA MoveType ==
    ASSUME TypeOK
    PROVE  \A p \in Processes :
             /\ target[p] \in Attempts
             /\ attempt[target[p]] \in Rows
             /\ paypal[target[p]] \in PayPalStates
             /\ snap[p] \in Rows
             /\ \A l \in Labels :
                  Goto(p, l) => /\ pc' \in [Processes -> Labels]
                                /\ target' \in [Processes -> Attempts]
             /\ Forget(p) => snap' \in [Processes -> Rows]
             /\ Read(p) => snap' \in [Processes -> Rows]
             /\ Finish(p) => /\ pc' \in [Processes -> Labels]
                             /\ target' \in [Processes -> Attempts]
                             /\ snap' \in [Processes -> Rows]
<1>1. TAKE p \in Processes
<1>2. /\ target[p] \in Attempts
      /\ attempt[target[p]] \in Rows
      /\ paypal[target[p]] \in PayPalStates
      /\ snap[p] \in Rows
  BY DEF TypeOK
<1>3. ASSUME NEW l \in Labels, Goto(p, l)
      PROVE  /\ pc' \in [Processes -> Labels]
             /\ target' \in [Processes -> Attempts]
  BY <1>3 DEF TypeOK, Goto
<1>4. ASSUME Forget(p)
      PROVE  snap' \in [Processes -> Rows]
  BY <1>4, NoRowType DEF TypeOK, Forget
<1>5. ASSUME Read(p)
      PROVE  snap' \in [Processes -> Rows]
  BY <1>5, <1>2 DEF TypeOK, Read
<1>6. ASSUME Finish(p)
      PROVE  /\ pc' \in [Processes -> Labels]
             /\ target' \in [Processes -> Attempts]
             /\ snap' \in [Processes -> Rows]
  <2>1. Finished(p) \in Labels
    BY DEF Finished, Labels
  <2>2. QED
    BY <1>4, <1>6, <2>1, HomeType DEF TypeOK, Finish
<1>7. QED
  BY <1>2, <1>3, <1>4, <1>5, <1>6

LEMMA RequestStepType ==
    ASSUME TypeOK, NEW r \in Requests, RequestStep(r)
    PROVE  TypeOK'
<1>0. /\ r \in Processes
      /\ target[r] \in Attempts
      /\ attempt[target[r]] \in Rows
      /\ paypal[target[r]] \in PayPalStates
      /\ snap[r] \in Rows
  BY MoveType DEF Processes
<1>1. CASE StartCheck(r)
  <2>1. "startAttempt" \in Labels
    BY DEF Labels
  <2>2. QED
    BY <1>1, <1>0, <2>1, MoveType DEF StartCheck, TypeOK, table
<1>2. CASE StartAttempt(r)
  <2>1. /\ "startOrder" \in Labels
        /\ "CREATED" \in Statuses
    BY DEF Labels, Statuses
  <2>2. attempt' \in [Attempts -> Rows]
    BY <1>2, <1>0, <2>1 DEF StartAttempt, TypeOK, Rows
  <2>3. snap' \in [Processes -> Rows]
    BY <1>2, <1>0, <2>2 DEF StartAttempt, TypeOK
  <2>4. QED
    BY <1>2, <1>0, <2>1, <2>2, <2>3, MoveType DEF StartAttempt, TypeOK, table
<1>3. CASE StartOrder(r)
  <2>1. "startSave" \in Labels
    BY DEF Labels
  <2>2. paypal' \in [Attempts -> PayPalStates]
    BY <1>3, <1>0 DEF StartOrder, TypeOK, PayPalStates
  <2>3. QED
    BY <1>3, <1>0, <2>1, <2>2, MoveType DEF StartOrder, TypeOK, table
<1>4. CASE StartSave(r)
  <2>1. "ORDER_CREATED" \in Statuses
    BY DEF Statuses
  <2>2. attempt' \in [Attempts -> Rows]
    BY <1>4, <1>0, <2>1 DEF StartSave, TypeOK, Rows
  <2>3. QED
    BY <1>4, <1>0, <2>1, <2>2, MoveType DEF StartSave, TypeOK, table
<1>5. CASE ReturnRead(r)
  <2>1. /\ "cancelOrder" \in Labels
        /\ "returnOrder" \in Labels
    BY DEF Labels
  <2>2. QED
    BY <1>5, <1>0, <2>1, MoveType DEF ReturnRead, TypeOK, table
<1>6. CASE ReturnReadUnordered(r)
  <2>1. "cancelSave" \in Labels
    BY DEF Labels
  <2>2. QED
    BY <1>6, <1>0, <2>1, MoveType DEF ReturnReadUnordered, TypeOK, table
<1>7. CASE ReturnOrder(r)
  <2>1. /\ "cancelSave" \in Labels
        /\ "approveSave" \in Labels
    BY DEF Labels
  <2>2. QED
    BY <1>7, <1>0, <2>1, MoveType DEF ReturnOrder, TypeOK, table
<1>8. CASE ReturnSave(r)
  <2>1. /\ "CANCELLED" \in Statuses
        /\ "APPROVED" \in Statuses
    BY DEF Statuses
  <2>2. attempt' \in [Attempts -> Rows]
    BY <1>8, <1>0, <2>1 DEF ReturnSave, SetStatus, TypeOK, Rows
  <2>3. QED
    BY <1>8, <1>0, <2>1, <2>2, MoveType DEF ReturnSave, SetStatus, TypeOK, table
<1>9. CASE FinalizeRead(r)
  <2>1. /\ "reconcile" \in Labels
        /\ "order" \in Labels
    BY DEF Labels
  <2>2. QED
    BY <1>9, <1>0, <2>1, MoveType DEF FinalizeRead, TypeOK, table
<1>10. CASE FinalizeOrder(r)
  <2>1. /\ "reserve" \in Labels
        /\ "authorizeId" \in Labels
        /\ "authorize" \in Labels
    BY DEF Labels
  <2>2. QED
    BY <1>10, <1>0, <2>1, MoveType DEF FinalizeOrder, TypeOK, table
<1>11. CASE AuthorizeId(r)
  <2>1. "authorize" \in Labels
    BY DEF Labels
  <2>2. attempt' \in [Attempts -> Rows]
    BY <1>11, <1>0, <2>1 DEF AuthorizeId, TypeOK, Rows, RequestId
  <2>3. snap' \in [Processes -> Rows]
    BY <1>11, <1>0, <2>2 DEF AuthorizeId, TypeOK
  <2>4. QED
    BY <1>11, <1>0, <2>1, <2>2, <2>3, MoveType DEF AuthorizeId, TypeOK, table
<1>12. CASE Authorize(r)
  <2>1. "authorizeSave" \in Labels
    BY DEF Labels
  <2>2. paypal' \in [Attempts -> PayPalStates]
    BY <1>12, <1>0 DEF Authorize, TypeOK, PayPalStates, Rows
  <2>3. QED
    BY <1>12, <1>0, <2>1, <2>2, MoveType DEF Authorize, TypeOK, table
<1>13. CASE AuthorizeSave(r)
  <2>1. /\ "reserve" \in Labels
        /\ "AUTHORIZED" \in Statuses
    BY DEF Labels, Statuses
  <2>2. attempt' \in [Attempts -> Rows]
    BY <1>13, <1>0, <2>1 DEF AuthorizeSave, TypeOK, Rows
  <2>3. QED
    BY <1>13, <1>0, <2>1, <2>2, MoveType DEF AuthorizeSave, TypeOK, table
<1>14. CASE ReserveLock(r)
  <2>1. /\ "reserved" \in Labels
        /\ "reserveReconcile" \in Labels
        /\ "reserveRefuse" \in Labels
        /\ "reserveGrant" \in Labels
    BY DEF Labels
  <2>2. QED
    BY <1>14, <1>0, <2>1, MoveType DEF ReserveLock, TypeOK, table
<1>15. CASE ReserveWrite(r)
  <2>1. /\ "reserved" \in Labels
        /\ "RECONCILING" \in Statuses
        /\ "UNAVAILABLE_AFTER_AUTH" \in Statuses
        /\ "RESERVED" \in Statuses
    BY DEF Labels, Statuses
  <2>2. attempt' \in [Attempts -> Rows]
    BY <1>15, <1>0, <2>1, UnitsAssumption DEF ReserveWrite, TypeOK, Rows
  <2>3. snap' \in [Processes -> Rows]
    BY <1>15, <1>0, <2>2 DEF ReserveWrite, TypeOK
  <2>4. QED
    BY <1>15, <1>0, <2>1, <2>2, <2>3, MoveType DEF ReserveWrite, TypeOK, table
<1>16. CASE Dispatch(r)
  <2>1. /\ "voidId" \in Labels
        /\ "captureId" \in Labels
    BY DEF Labels
  <2>2. QED
    BY <1>16, <1>0, <2>1, MoveType DEF Dispatch, TypeOK, table
<1>17. CASE CaptureId(r)
  <2>1. /\ "capture" \in Labels
        /\ "CAPTURE_PENDING" \in Statuses
    BY DEF Labels, Statuses
  <2>2. attempt' \in [Attempts -> Rows]
    BY <1>17, <1>0, <2>1 DEF CaptureId, TypeOK, Rows, RequestId
  <2>3. snap' \in [Processes -> Rows]
    BY <1>17, <1>0, <2>2 DEF CaptureId, TypeOK, Rows, RequestId
  <2>4. QED
    BY <1>17, <1>0, <2>1, <2>2, <2>3, MoveType DEF CaptureId, TypeOK, table
<1>18. CASE Capture(r)
  <2>1. /\ "captured" \in Labels
        /\ "capturePending" \in Labels
        /\ "captureUnknown" \in Labels
        /\ "captureFailed" \in Labels
    BY DEF Labels
  <2>2. paypal' \in [Attempts -> PayPalStates]
    BY <1>18, <1>0 DEF Capture, Unanswered, TypeOK, PayPalStates, Rows
  <2>3. QED
    BY <1>18, <1>0, <2>1, <2>2, MoveType DEF Capture, Unanswered, TypeOK, table
<1>19. CASE CaptureSave(r)
  <2>1. "RECONCILING" \in Statuses
    BY DEF Statuses
  <2>2. attempt' \in [Attempts -> Rows]
    BY <1>19, <1>0, <2>1 DEF CaptureSave, TypeOK, Rows
  <2>3. QED
    BY <1>19, <1>0, <2>1, <2>2, MoveType DEF CaptureSave, TypeOK, table
<1>20. CASE VoidId(r)
  <2>1. /\ "void" \in Labels
        /\ "VOID_PENDING" \in Statuses
    BY DEF Labels, Statuses
  <2>2. attempt' \in [Attempts -> Rows]
    BY <1>20, <1>0, <2>1 DEF VoidId, SetStatus, TypeOK, Rows
  <2>3. QED
    BY <1>20, <1>0, <2>1, <2>2, MoveType DEF VoidId, SetStatus, TypeOK, table
<1>21. CASE VoidRetry(r)
  <2>1. "VOID_PENDING" \in Statuses
    BY DEF Statuses
  <2>2. attempt' \in [Attempts -> Rows]
    BY <1>21, <1>0, <2>1 DEF VoidRetry, SetStatus, TypeOK, Rows
  <2>3. QED
    BY <1>21, <1>0, <2>1, <2>2, MoveType DEF VoidRetry, SetStatus, TypeOK, table
<1>22. QED
  BY <1>1, <1>2, <1>3, <1>4, <1>5, <1>6, <1>7, <1>8, <1>9, <1>10, <1>11, <1>12, <1>13, <1>14, <1>15, <1>16, <1>17, <1>18, <1>19, <1>20, <1>21 DEF RequestStep

LEMMA ReconcileStepType ==
    ASSUME TypeOK, NEW p \in Processes, ReconcileStep(p)
    PROVE  TypeOK'
<1>0. /\ p \in Processes
      /\ target[p] \in Attempts
      /\ attempt[target[p]] \in Rows
      /\ paypal[target[p]] \in PayPalStates
      /\ snap[p] \in Rows
  BY MoveType DEF Processes
<1>1. CASE Reconcile(p)
  <2>1. /\ "recAuthorization" \in Labels
        /\ "recCapture" \in Labels
        /\ "recOrder" \in Labels
    BY DEF Labels
  <2>2. QED
    BY <1>1, <1>0, <2>1, MoveType DEF Reconcile, TypeOK, table
<1>2. CASE RecAuthorization(p)
  <2>1. /\ "releaseVoided" \in Labels
        /\ "recVoid" \in Labels
    BY DEF Labels
  <2>2. QED
    BY <1>2, <1>0, <2>1, MoveType DEF RecAuthorization, TypeOK, table
<1>3. CASE RecCapture(p)
  <2>1. /\ "recCaptured" \in Labels
        /\ "releaseFailed" \in Labels
    BY DEF Labels
  <2>2. QED
    BY <1>3, <1>0, <2>1, MoveType DEF RecCapture, TypeOK, table
<1>4. CASE RecOrder(p)
  <2>1. "recCaptured" \in Labels
    BY DEF Labels
  <2>2. QED
    BY <1>4, <1>0, <2>1, MoveType DEF RecOrder, TypeOK, table
<1>5. CASE Void(p)
  <2>1. /\ "voided" \in Labels
        /\ "voidRetry" \in Labels
    BY DEF Labels
  <2>2. paypal' \in [Attempts -> PayPalStates]
    BY <1>5, <1>0 DEF Void, TypeOK, PayPalStates
  <2>3. QED
    BY <1>5, <1>0, <2>1, <2>2, MoveType DEF Void, TypeOK, table
<1>6. CASE Release(p)
  <2>1. /\ "VOIDED" \in Statuses
        /\ "FAILED" \in Statuses
    BY DEF Statuses
  <2>2. attempt' \in [Attempts -> Rows]
    BY <1>6, <1>0, <2>1 DEF Release, Released, TypeOK, Rows
  <2>3. QED
    BY <1>6, <1>0, <2>1, <2>2, MoveType DEF Release, Released, TypeOK, table
<1>7. CASE CapturedRead(p)
  <2>1. /\ "fund" \in Labels
        /\ "recFund" \in Labels
    BY DEF Labels
  <2>2. QED
    BY <1>7, <1>0, <2>1, MoveType DEF CapturedRead, TypeOK, table
<1>8. CASE Fund(p)
  <2>1. /\ "captureUnknown" \in Labels
        /\ "COMPLETED" \in Statuses
    BY DEF Labels, Statuses
  <2>2. attempt' \in [Attempts -> Rows]
    BY <1>8, <1>0, <2>1 DEF Fund, ClosedBy, TypeOK, Rows, table
  <2>3. QED
    BY <1>8, <1>0, <2>1, <2>2, MoveType, UnitsAssumption DEF Fund, ClosedBy, TypeOK, table
<1>9. QED
  BY <1>1, <1>2, <1>3, <1>4, <1>5, <1>6, <1>7, <1>8 DEF ReconcileStep

LEMMA NextType == TypeOK /\ [Next]_vars => TypeOK'
<1> SUFFICES ASSUME TypeOK, [Next]_vars
             PROVE  TypeOK'
  OBVIOUS
<1>1. ASSUME NEW p \in Processes, ProcessStep(p)
      PROVE  TypeOK'
  <2>1. CASE p \in Requests /\ RequestStep(p)
    BY <2>1, RequestStepType
  <2>2. CASE ReconcileStep(p)
    BY <2>2, ReconcileStepType
  <2>3. CASE \E a \in Attempts : CronPicks(p, a) \/ WebhookPicks(p, a)
    <3>1. PICK a \in Attempts : Picks(p, a)
      BY <2>3 DEF CronPicks, WebhookPicks
    <3>2. "reconcile" \in Labels
      BY DEF Labels
    <3>3. QED
      BY <3>1, <3>2 DEF Picks, TypeOK, table
  <2>4. QED
    BY <1>1, <2>1, <2>2, <2>3 DEF ProcessStep
<1>2. ASSUME NEW p \in Processes, ProviderDown(p)
      PROVE  TypeOK'
  BY <1>2, MoveType DEF ProviderDown, TypeOK, table
<1>3. ASSUME NEW p \in Processes, Crash(p)
      PROVE  TypeOK'
  BY <1>3, MoveType DEF Crash, TypeOK, table
<1>4. CASE CompleteArtwork
  BY <1>4 DEF CompleteArtwork, TypeOK
<1>5. ASSUME NEW a \in Attempts, Outside(a)
      PROVE  TypeOK'
  <2>1. paypal' \in [Attempts -> PayPalStates]
    BY <1>5 DEF Outside, PlayerApproves, AuthorizationExpires, CaptureSettles, TypeOK, PayPalStates
  <2>2. QED
    BY <1>5, <2>1 DEF Outside, PlayerApproves, AuthorizationExpires, CaptureSettles, TypeOK, table
<1>6. CASE UNCHANGED vars
  BY <1>6 DEF vars, TypeOK
<1>7. QED
  BY <1>1, <1>2, <1>3, <1>4, <1>5, <1>6 DEF Next

(* Every variable keeps its type, whatever the processes do.                 *)
THEOREM TypeCorrect == Spec => []TypeOK
<1>1. Init => TypeOK
  BY InitType
<1>2. TypeOK /\ [Next]_vars => TypeOK'
  BY NextType
<1>3. QED
  BY <1>1, <1>2, PTL DEF Spec

-----------------------------------------------------------------------------
(* The inductive invariant *)

(* PayPal uses an authorization up when it captures it.                      *)
CaptureUsesAuthorization ==
    \A a \in Attempts : paypal[a].cap # "NONE" => paypal[a].auth = "CAPTURED"

(* A process about to make a contribution has seen the completed capture ... *)
FundersSawCapture ==
    \A p \in Processes :
        pc[p] \in {"captured", "recCaptured", "fund", "recFund"} => Settled(target[p])

(* ... and one about to write VOIDED has seen the authorization given back.  *)
VoidersSawVoid ==
    \A p \in Processes : pc[p] \in {"voided", "releaseVoided"} => GivenBack(target[p])

VoidedIsGivenBack ==
    \A a \in Attempts : attempt[a].status = "VOIDED" => GivenBack(a)

IInv ==
    /\ TypeOK
    /\ CaptureUsesAuthorization
    /\ FundersSawCapture
    /\ VoidersSawVoid
    /\ VoidedIsGivenBack
    /\ FundedWithinGoal
    /\ ContributionIsPaid

(* What PayPal has done it never takes back.                                 *)
PayPalKeeps ==
    /\ CaptureUsesAuthorization'
    /\ \A a \in Attempts : (Settled(a) => Settled(a)') /\ (GivenBack(a) => GivenBack(a)')

(* The processes' part of the invariant.                                     *)
Witnessed == FundersSawCapture /\ VoidersSawVoid /\ VoidedIsGivenBack

LEMMA RequestPayPal ==
    ASSUME TypeOK, CaptureUsesAuthorization, NEW r \in Requests, RequestStep(r)
    PROVE  PayPalKeeps
<1> USE DEF PayPalKeeps, CaptureUsesAuthorization, Settled, GivenBack
<1>1. CASE StartOrder(r)
  BY <1>1 DEF StartOrder, TypeOK, PayPalStates, Processes
<1>2. CASE Authorize(r)
  BY <1>2 DEF Authorize, TypeOK, PayPalStates, Processes
<1>3. CASE Capture(r)
  BY <1>3 DEF Capture, TypeOK, PayPalStates, Processes
<1>4. CASE UNCHANGED paypal
  BY <1>4
<1>5. QED
  BY <1>1, <1>2, <1>3, <1>4
  DEF RequestStep, StartCheck, StartAttempt, StartSave, ReturnRead, ReturnReadUnordered, ReturnOrder, ReturnSave, FinalizeRead, FinalizeOrder, AuthorizeId, AuthorizeSave, ReserveLock, ReserveWrite, Dispatch, CaptureId, CaptureSave, VoidId, VoidRetry

LEMMA ReconcilePayPal ==
    ASSUME TypeOK, CaptureUsesAuthorization, NEW p \in Processes, ReconcileStep(p)
    PROVE  PayPalKeeps
<1> USE DEF PayPalKeeps, CaptureUsesAuthorization, Settled, GivenBack
<1>1. CASE Void(p)
  BY <1>1 DEF Void, TypeOK, PayPalStates, Processes
<1>2. CASE UNCHANGED paypal
  BY <1>2
<1>3. QED
  BY <1>1, <1>2
  DEF ReconcileStep, Reconcile, RecAuthorization, RecCapture, RecOrder, Release, CapturedRead, Fund

LEMMA RequestWitness ==
    ASSUME IInv, PayPalKeeps, NEW r \in Requests, RequestStep(r)
    PROVE  Witnessed'
<1> USE DEF IInv, PayPalKeeps, Witnessed, FundersSawCapture, VoidersSawVoid, VoidedIsGivenBack,
        TypeOK, Processes, Goto, Finish, Finished
<1>1. CASE StartCheck(r)
  BY <1>1 DEF StartCheck, table
<1>2. CASE StartAttempt(r)
  BY <1>2 DEF StartAttempt, table
<1>3. CASE StartOrder(r)
  BY <1>3 DEF StartOrder, table
<1>4. CASE StartSave(r)
  BY <1>4 DEF StartSave, table
<1>5. CASE ReturnRead(r)
  BY <1>5 DEF ReturnRead, table
<1>6. CASE ReturnReadUnordered(r)
  BY <1>6 DEF ReturnReadUnordered, table
<1>7. CASE ReturnOrder(r)
  BY <1>7 DEF ReturnOrder, table
<1>8. CASE ReturnSave(r)
  BY <1>8 DEF ReturnSave, SetStatus, table
<1>9. CASE FinalizeRead(r)
  BY <1>9 DEF FinalizeRead, table
<1>10. CASE FinalizeOrder(r)
  BY <1>10 DEF FinalizeOrder, table
<1>11. CASE AuthorizeId(r)
  BY <1>11 DEF AuthorizeId, table
<1>12. CASE Authorize(r)
  BY <1>12 DEF Authorize, table
<1>13. CASE AuthorizeSave(r)
  BY <1>13 DEF AuthorizeSave, table
<1>14. CASE ReserveLock(r)
  BY <1>14 DEF ReserveLock, table
<1>15. CASE ReserveWrite(r)
  BY <1>15 DEF ReserveWrite, table
<1>16. CASE Dispatch(r)
  BY <1>16 DEF Dispatch, table
<1>17. CASE CaptureId(r)
  BY <1>17 DEF CaptureId, table
<1>18. CASE Capture(r)
  <2>1. UNCHANGED attempt
    BY <1>18 DEF Capture, table
  <2>2. VoidersSawVoid' /\ VoidedIsGivenBack'
    BY <1>18, <2>1 DEF Capture, Unanswered
  <2>3. pc'[r] = "captured" => Settled(target[r])'
    BY <1>18 DEF Capture, Unanswered, Settled, PayPalStates
  <2>4. FundersSawCapture'
    BY <1>18, <2>3 DEF Capture, Unanswered
  <2>5. QED
    BY <2>2, <2>4
<1>19. CASE CaptureSave(r)
  BY <1>19 DEF CaptureSave, table
<1>20. CASE VoidId(r)
  BY <1>20 DEF VoidId, SetStatus, table
<1>21. CASE VoidRetry(r)
  BY <1>21 DEF VoidRetry, SetStatus, table
<1>22. QED
  BY <1>1, <1>2, <1>3, <1>4, <1>5, <1>6, <1>7, <1>8, <1>9, <1>10, <1>11, <1>12, <1>13, <1>14, <1>15, <1>16, <1>17, <1>18, <1>19, <1>20, <1>21 DEF RequestStep

LEMMA ReconcileWitness ==
    ASSUME IInv, PayPalKeeps, NEW p \in Processes, ReconcileStep(p)
    PROVE  Witnessed'
<1> USE DEF IInv, PayPalKeeps, Witnessed, FundersSawCapture, VoidersSawVoid, VoidedIsGivenBack,
        TypeOK, Processes, Goto, Finish, Finished
<1>1. CASE Reconcile(p)
  BY <1>1 DEF Reconcile, table
<1>2. CASE RecAuthorization(p)
  BY <1>2 DEF RecAuthorization, table
<1>3. CASE RecCapture(p)
  BY <1>3 DEF RecCapture, table
<1>4. CASE RecOrder(p)
  BY <1>4 DEF RecOrder, table
<1>5. CASE Void(p)
  <2>1. pc'[p] = "voided" => GivenBack(target[p])'
    BY <1>5 DEF Void, GivenBack, PayPalStates
  <2>2. QED
    BY <1>5, <2>1 DEF Void, table
<1>6. CASE Release(p)
  BY <1>6 DEF Release, Released, table
<1>7. CASE CapturedRead(p)
  BY <1>7 DEF CapturedRead, table
<1>8. CASE Fund(p)
  <2>1. \A a \in Attempts : attempt'[a].status = "VOIDED" => attempt[a].status = "VOIDED"
    BY <1>8 DEF Fund, Rows, table
  <2>2. FundersSawCapture' /\ VoidersSawVoid'
    BY <1>8 DEF Fund
  <2>3. QED
    BY <2>1, <2>2
<1>9. QED
  BY <1>1, <1>2, <1>3, <1>4, <1>5, <1>6, <1>7, <1>8 DEF ReconcileStep

(* The money: only Fund makes contributions, and only Fund and the artwork   *)
(* change the campaign.                                                      *)
LEMMA FundMoney ==
    ASSUME IInv, PayPalKeeps, NEW p \in Processes, Fund(p)
    PROVE  FundedWithinGoal' /\ ContributionIsPaid'
<1> DEFINE a == target[p]
<1>1. a \in Attempts /\ Units[a] \in Nat \ {0} /\ funded \in Nat /\ Total \in Nat
  BY UnitsAssumption, TotalAssumption DEF IInv, TypeOK
<1>2. Settled(a)
  BY DEF IInv, FundersSawCapture, Fund
<1>3. CASE FundRefused(p)
  BY <1>3 DEF Fund, FundRefused, table, IInv, FundedWithinGoal, ContributionIsPaid, PayPalKeeps
<1>4. CASE ~FundRefused(p)
  <2>1. /\ funded' = funded + Units[a]
        /\ contributions' = contributions \cup {a}
        /\ campaign' = ClosedBy(funded + Units[a])
        /\ paypal' = paypal
        /\ ~(funded + Units[a] > Total)
    BY <1>4 DEF Fund, FundRefused
  <2>2. FundedWithinGoal'
    BY <1>1, <2>1 DEF ClosedBy, IInv, FundedWithinGoal
  <2>3. ContributionIsPaid'
    BY <1>2, <2>1 DEF Settled, IInv, ContributionIsPaid
  <2>4. QED
    BY <2>2, <2>3
<1>5. QED
  BY <1>3, <1>4

LEMMA MoneyKeeps ==
    ASSUME IInv, PayPalKeeps, UNCHANGED <<contributions, funded, campaign>>
    PROVE  FundedWithinGoal' /\ ContributionIsPaid'
  BY DEF IInv, FundedWithinGoal, ContributionIsPaid, PayPalKeeps, Settled, TypeOK

LEMMA RequestMoney ==
    ASSUME NEW r \in Requests, RequestStep(r)
    PROVE  UNCHANGED <<contributions, funded, campaign>>
  BY DEF RequestStep, table, StartCheck, StartAttempt, StartOrder, StartSave, ReturnRead, ReturnReadUnordered, ReturnOrder, ReturnSave, FinalizeRead, FinalizeOrder, AuthorizeId, Authorize, AuthorizeSave, ReserveLock, ReserveWrite, Dispatch, CaptureId, Capture, CaptureSave, VoidId, VoidRetry

LEMMA ReconcileMoney ==
    ASSUME NEW p \in Processes, ReconcileStep(p)
    PROVE  Fund(p) \/ UNCHANGED <<contributions, funded, campaign>>
  BY DEF ReconcileStep, table, Reconcile, RecAuthorization, RecCapture, RecOrder, Void, Release, CapturedRead

LEMMA InitInvariant == Init => IInv
<1> SUFFICES ASSUME Init
             PROVE  IInv
  OBVIOUS
<1>1. TypeOK
  BY InitType
<1>2. CaptureUsesAuthorization /\ VoidedIsGivenBack /\ ContributionIsPaid
  BY DEF Init, CaptureUsesAuthorization, VoidedIsGivenBack, ContributionIsPaid, NoRow
<1>3. FundersSawCapture /\ VoidersSawVoid
  BY DEF Init, FundersSawCapture, VoidersSawVoid
<1>4. FundedWithinGoal
  BY TotalAssumption DEF Init, FundedWithinGoal
<1>5. QED
  BY <1>1, <1>2, <1>3, <1>4 DEF IInv

LEMMA NextInvariant == IInv /\ [Next]_vars => IInv'
<1> SUFFICES ASSUME IInv, [Next]_vars
             PROVE  IInv'
  OBVIOUS
<1>0. TypeOK' /\ TypeOK /\ CaptureUsesAuthorization
  BY NextType DEF IInv
<1> DEFINE Goal == PayPalKeeps /\ Witnessed' /\ FundedWithinGoal' /\ ContributionIsPaid'
<1>1. ASSUME NEW p \in Processes, ProcessStep(p)
      PROVE  Goal
  <2>1. CASE p \in Requests /\ RequestStep(p)
    BY <2>1, <1>0, RequestPayPal, RequestWitness, RequestMoney, MoneyKeeps
  <2>2. CASE ReconcileStep(p)
    BY <2>2, <1>0, ReconcilePayPal, ReconcileWitness, ReconcileMoney, MoneyKeeps, FundMoney
  <2>3. CASE \E b \in Attempts : CronPicks(p, b) \/ WebhookPicks(p, b)
    <3>1. PICK b \in Attempts : Picks(p, b)
      BY <2>3 DEF CronPicks, WebhookPicks
    <3>2. PayPalKeeps
      BY <3>1 DEF Picks, PayPalKeeps, IInv, CaptureUsesAuthorization, Settled, GivenBack
    <3>3. Witnessed'
      BY <3>1, <3>2 DEF Picks, PayPalKeeps, IInv, TypeOK, Witnessed, FundersSawCapture,
                        VoidersSawVoid, VoidedIsGivenBack, table
    <3>4. QED
      BY <3>1, <3>2, <3>3, MoneyKeeps DEF Picks, table
  <2>4. QED
    BY <1>1, <2>1, <2>2, <2>3 DEF ProcessStep
<1>2. ASSUME NEW p \in Processes, ProviderDown(p) \/ Crash(p)
      PROVE  Goal
  <2>1. UNCHANGED <<table, paypal>> /\ Finish(p)
    BY <1>2 DEF ProviderDown, Crash
  <2>2. PayPalKeeps
    BY <2>1 DEF PayPalKeeps, IInv, CaptureUsesAuthorization, Settled, GivenBack
  <2>3. Witnessed'
    BY <2>1, <2>2 DEF PayPalKeeps, IInv, TypeOK, Witnessed, FundersSawCapture, Finish, Finished,
                      VoidersSawVoid, VoidedIsGivenBack, table
  <2>4. QED
    BY <2>1, <2>2, <2>3, MoneyKeeps DEF table
<1>3. ASSUME CompleteArtwork
      PROVE  Goal
  <2>1. PayPalKeeps /\ Witnessed'
    BY <1>3 DEF CompleteArtwork, PayPalKeeps, IInv, CaptureUsesAuthorization, Settled, GivenBack,
                Witnessed, FundersSawCapture, VoidersSawVoid, VoidedIsGivenBack
  <2>2. FundedWithinGoal' /\ ContributionIsPaid'
    BY <1>3, TotalAssumption DEF CompleteArtwork, IInv, FundedWithinGoal, ContributionIsPaid
  <2>3. QED
    BY <2>1, <2>2
<1>4. ASSUME NEW b \in Attempts, Outside(b)
      PROVE  Goal
  <2>1. UNCHANGED <<table, pc, target>>
    BY <1>4 DEF Outside, PlayerApproves, AuthorizationExpires, CaptureSettles
  <2>2. PayPalKeeps
    <3>0. paypal \in [Attempts -> PayPalStates] /\ CaptureUsesAuthorization
      BY <1>0 DEF TypeOK
    <3>1. CASE PlayerApproves(b)
      BY <3>0, <3>1 DEF PlayerApproves, PayPalKeeps, CaptureUsesAuthorization, Settled, GivenBack,
                        PayPalStates
    <3>2. CASE AuthorizationExpires(b)
      BY <3>0, <3>2 DEF AuthorizationExpires, PayPalKeeps, CaptureUsesAuthorization, Settled,
                        GivenBack, PayPalStates
    <3>3. CASE CaptureSettles(b)
      BY <3>0, <3>3 DEF CaptureSettles, PayPalKeeps, CaptureUsesAuthorization, Settled, GivenBack,
                        PayPalStates
    <3>4. QED
      BY <1>4, <3>1, <3>2, <3>3 DEF Outside
  <2>3. Witnessed'
    BY <2>1, <2>2 DEF PayPalKeeps, IInv, TypeOK, Witnessed, FundersSawCapture,
                      VoidersSawVoid, VoidedIsGivenBack, table
  <2>4. QED
    BY <2>1, <2>2, <2>3, MoneyKeeps DEF table
<1>5. ASSUME UNCHANGED vars
      PROVE  Goal
  BY <1>5 DEF vars, PayPalKeeps, IInv, CaptureUsesAuthorization, Settled, GivenBack, Witnessed,
              FundersSawCapture, VoidersSawVoid, VoidedIsGivenBack, FundedWithinGoal, ContributionIsPaid
<1>6. Goal
  BY <1>1, <1>2, <1>3, <1>4, <1>5 DEF Next
<1>7. QED
  BY <1>0, <1>6 DEF IInv, PayPalKeeps, Witnessed

LEMMA Invariance == Spec => []IInv
<1>1. Init => IInv
  BY InitInvariant
<1>2. IInv /\ [Next]_vars => IInv'
  BY NextInvariant
<1>3. QED
  BY <1>1, <1>2, PTL DEF Spec

-----------------------------------------------------------------------------
(* Theorems *)

(* No interleaving of requests, cron passes, webhooks and crashes funds more *)
(* units than the campaign has, or closes it before the last one is funded.  *)
THEOREM GoalRespected == Spec => []FundedWithinGoal
<1>1. IInv => FundedWithinGoal
  BY DEF IInv
<1>2. QED
  BY <1>1, Invariance, PTL

(* Every contribution is backed by a capture that PayPal completed.          *)
THEOREM ContributionsPaid == Spec => []ContributionIsPaid
<1>1. IInv => ContributionIsPaid
  BY DEF IInv
<1>2. QED
  BY <1>1, Invariance, PTL

(* Nobody who is told VOIDED was charged.                                    *)
THEOREM VoidedNotCharged == Spec => []VoidedIsNotCharged
<1>1. IInv => VoidedIsNotCharged
  <2> SUFFICES ASSUME IInv, NEW a \in Attempts, attempt[a].status = "VOIDED"
               PROVE  paypal[a].cap = "NONE"
    BY DEF VoidedIsNotCharged
  <2>1. GivenBack(a)
    BY DEF IInv, VoidedIsGivenBack
  <2>2. QED
    BY <2>1 DEF IInv, CaptureUsesAuthorization, GivenBack
<1>2. QED
  BY <1>1, Invariance, PTL

(* The payment protocol, step by step, is the serialized claim boundary.     *)
THEOREM Implements == Spec => ClaimBoundary
<1>1. Init => Boundary!Init
  BY DEF Init, Boundary!Init
<1>2. IInv /\ [Next]_vars => [Boundary!Next]_(Boundary!vars)
  <2> SUFFICES ASSUME IInv, [Next]_vars
               PROVE  [Boundary!Next]_(Boundary!vars)
    OBVIOUS
  <2> USE DEF Boundary!vars
  <2>1. ASSUME NEW p \in Processes, Fund(p)
        PROVE  Boundary!Next \/ UNCHANGED Boundary!vars
    <3>1. /\ target[p] \in Attempts /\ Units[target[p]] \in Nat /\ funded \in Nat
          /\ Total \in Nat
      BY UnitsAssumption, TotalAssumption DEF IInv, TypeOK
    <3>2. CASE FundRefused(p)
      BY <2>1, <3>2 DEF Fund, table
    <3>3. CASE ~FundRefused(p)
      <4>1. Boundary!Claim(target[p])
        BY <2>1, <3>1, <3>3 DEF Fund, FundRefused, ClosedBy, Boundary!Claim
      <4>2. QED
        BY <3>1, <4>1 DEF Boundary!Next
    <3>4. QED
      BY <3>2, <3>3
  <2>2. CASE CompleteArtwork
    BY <2>2 DEF CompleteArtwork, Boundary!Next, Boundary!Draw
  <2>3. ASSUME NEW p \in Processes, ProcessStep(p)
        PROVE  Fund(p) \/ UNCHANGED <<contributions, funded, campaign>>
    BY <2>3, RequestMoney, ReconcileMoney
    DEF ProcessStep, CronPicks, WebhookPicks, Picks, table
  <2>4. ASSUME NEW p \in Processes, ProviderDown(p) \/ Crash(p)
        PROVE  UNCHANGED <<contributions, funded, campaign>>
    BY <2>4 DEF ProviderDown, Crash, table
  <2>5. ASSUME NEW b \in Attempts, Outside(b)
        PROVE  UNCHANGED <<contributions, funded, campaign>>
    BY <2>5 DEF Outside, PlayerApproves, AuthorizationExpires, CaptureSettles, table
  <2>6. CASE UNCHANGED vars
    BY <2>6 DEF vars
  <2>7. QED
    BY <2>1, <2>2, <2>3, <2>4, <2>5, <2>6 DEF Next
<1>3. QED
  BY <1>1, <1>2, Invariance, PTL DEF Spec, ClaimBoundary, Boundary!Spec

-----------------------------------------------------------------------------
(* Sums.  A fold over a set is a recursive function, whose value for every   *)
(* set is a matter of induction; a statement that fails for some finite set  *)
(* fails for a smallest one (WFMin), and that is how each lemma is proved.   *)

(* The element a fold takes out first, and one step of the addition of f.    *)
Pick(t) == CHOOSE x \in t : TRUE

FoldStep(f, g, t) == IF t = {} THEN 0 ELSE f[Pick(t)] + g[t \ {Pick(t)}]

(* g adds up f over every set in D.                                          *)
Adds(f, g, D) == g = [t \in D |-> FoldStep(f, g, t)]

(* The sum of f over S, as Reserved writes it.                               *)
Sum(f, S) == FoldFunctionOnSet(+, 0, f, S)

LEMMA PickIsElement == \A t : t # {} => Pick(t) \in t
  BY DEF Pick

(* A set of numbers has a least one.                                         *)
LEMMA SmallestNumber ==
    ASSUME NEW B \in SUBSET Nat, B # {}
    PROVE  \E n \in B : \A m \in B : ~(m < n)
<1>1. \E n \in B : \A m \in B : <<m, n>> \notin OpToRel(<, Nat)
  BY WFMin, NatLessThanWellFounded, Zenon
<1>2. PICK n \in B : \A m \in B : <<m, n>> \notin OpToRel(<, Nat)
  BY <1>1
<1>3. ASSUME NEW m \in B, m < n
      PROVE  <<m, n>> \in OpToRel(<, Nat)
  BY <1>3 DEF OpToRel
<1>4. QED
  BY <1>2, <1>3

(* A set of finite sets has one of which no proper part is in it.            *)
LEMMA SmallestSet ==
    ASSUME NEW S, IsFiniteSet(S), NEW B, B \subseteq SUBSET S, B # {}
    PROVE  \E s \in B : \A t \in B : ~(t \subseteq s /\ t # s)
<1>1. IsWellFoundedOn(StrictSubsetOrdering(S), SUBSET S)
  BY FS_StrictSubsetOrderingWellFounded, FS_FiniteSubsetsOfFinite
<1>2. PICK s \in B : \A t \in B : <<t, s>> \notin StrictSubsetOrdering(S)
  <2>1. IsWellFoundedOn(StrictSubsetOrdering(S), SUBSET S) =>
          \E s \in B : \A t \in B : <<t, s>> \notin StrictSubsetOrdering(S)
    BY WFMin
  <2> QED
    BY <1>1, <2>1
<1>3. \A t \in B : t \subseteq s /\ t # s => <<t, s>> \in StrictSubsetOrdering(S)
  BY DEF StrictSubsetOrdering
<1>4. \A t \in B : ~(t \subseteq s /\ t # s)
  BY <1>2, <1>3, Zenon
<1>5. QED
  BY <1>4, Zenon

LEMMA AddsExists ==
    ASSUME NEW S, IsFiniteSet(S), NEW f
    PROVE  \E g : Adds(f, g, SUBSET S)
<1> DEFINE Small(n) == {t \in SUBSET S : Cardinality(t) <= n}
           Bad == {n \in Nat : ~\E g : Adds(f, g, Small(n))}
<1>0. \A t \in SUBSET S : IsFiniteSet(t) /\ Cardinality(t) \in Nat
  BY FS_Subset, FS_CardinalityType
<1>1. Bad = {}
  <2> SUFFICES ASSUME Bad # {} PROVE FALSE
    OBVIOUS
  <2>1. PICK n \in Bad : \A m \in Bad : ~(m < n)
    <3> HIDE DEF Bad
    <3>1. Bad \in SUBSET Nat
      BY DEF Bad
    <3> QED
      BY <3>1, SmallestNumber
  <2>2. n \in Nat /\ ~\E g : Adds(f, g, Small(n))
    BY <2>1
  <2>3. CASE n = 0
    <3>1. \A t \in Small(0) : t = {}
      BY <1>0, FS_EmptySet
    <3>2. Adds(f, [t \in Small(0) |-> 0], Small(0))
      BY <3>1 DEF Adds, FoldStep
    <3>3. \E g : Adds(f, g, Small(n))
      BY <3>2, <2>3
    <3> QED
      BY <3>3, <2>2
  <2>4. CASE n # 0
    <3>1. n - 1 \in Nat /\ n - 1 \notin Bad
      <4>1. n - 1 \in Nat /\ n - 1 < n
        BY <2>2, <2>4
      <4> HIDE DEF Bad
      <4> QED
        BY <4>1, <2>1
    <3>2. PICK h : Adds(f, h, Small(n - 1))
      BY <3>1
    <3> DEFINE g == [t \in Small(n) |-> FoldStep(f, h, t)]
    <3>3. \A t \in Small(n - 1) : t \in Small(n)
      BY <1>0, <2>2
    <3>4. ASSUME NEW t \in Small(n), t # {}
          PROVE  t \ {Pick(t)} \in Small(n - 1)
      <4>1. Pick(t) \in t /\ t \in SUBSET S /\ IsFiniteSet(t) /\ Cardinality(t) \in Nat
        BY <1>0, <3>4, PickIsElement
      <4>2. Cardinality(t \ {Pick(t)}) = Cardinality(t) - 1
        BY <4>1, FS_RemoveElement
      <4> QED
        BY <4>1, <4>2, <2>2
    <3>5. ASSUME NEW t \in Small(n - 1)
          PROVE  g[t] = h[t]
      <4> HIDE DEF Small
      <4> QED
      BY <3>2, <3>3 DEF Adds
    <3>6. ASSUME NEW t \in Small(n)
          PROVE  FoldStep(f, h, t) = FoldStep(f, g, t)
      <4> HIDE DEF Small, g
      <4> QED
        BY <3>4, <3>5 DEF FoldStep
    <3>7. Adds(f, g, Small(n))
      <4> HIDE DEF Small
      <4> QED
        BY <3>6 DEF Adds
    <3> QED
      BY <3>7, <2>2
  <2> QED
    BY <2>3, <2>4
<1>2. Small(Cardinality(S)) = SUBSET S
  BY <1>0, FS_Subset
<1>3. Cardinality(S) \in Nat /\ Cardinality(S) \notin Bad
  BY <1>1, FS_CardinalityType
<1> QED
  BY <1>2, <1>3

LEMMA SumAdds ==
    ASSUME NEW S, IsFiniteSet(S), NEW f
    PROVE  \E g : Adds(f, g, SUBSET S) /\ Sum(f, S) = g[S]
<1> DEFINE it == CHOOSE g : g = [t \in SUBSET S |-> FoldStep(f, g, t)]
<1>1. Sum(f, S) = it[S]
  BY DEF Sum, FoldFunctionOnSet, MapThenFoldSet, FoldStep, Pick
<1>2. it = [t \in SUBSET S |-> FoldStep(f, it, t)]
  BY AddsExists DEF Adds
<1>3. Adds(f, it, SUBSET S)
  BY <1>2 DEF Adds
<1> HIDE DEF it
<1> QED
  BY <1>1, <1>3

(* Two functions that add up f agree on every set both are about.            *)
LEMMA AddsUnique ==
    ASSUME NEW S, IsFiniteSet(S), NEW f, NEW g, NEW D,
           SUBSET S \subseteq D, Adds(f, g, D),
           NEW h, Adds(f, h, SUBSET S)
    PROVE  g[S] = h[S]
<1> DEFINE Bad == {t \in SUBSET S : g[t] # h[t]}
<1>1. Bad = {}
  <2> SUFFICES ASSUME Bad # {} PROVE FALSE
    OBVIOUS
  <2>1. PICK s \in Bad : \A t \in Bad : ~(t \subseteq s /\ t # s)
    <3>1. Bad \subseteq SUBSET S
      OBVIOUS
    <3> HIDE DEF Bad
    <3> QED
      BY <3>1, SmallestSet
  <2>2. s \in SUBSET S /\ s \in D /\ g[s] # h[s]
    BY <2>1
  <2>3. g[s] = FoldStep(f, g, s) /\ h[s] = FoldStep(f, h, s)
    BY <2>2 DEF Adds
  <2>4. s # {}
    BY <2>2, <2>3 DEF FoldStep
  <2>5. s \ {Pick(s)} \in SUBSET S /\ s \ {Pick(s)} \subseteq s /\ s \ {Pick(s)} # s
    BY <2>2, <2>4, PickIsElement
  <2>6. g[s \ {Pick(s)}] = h[s \ {Pick(s)}]
    BY <2>1, <2>5
  <2> QED
    BY <2>2, <2>3, <2>4, <2>6 DEF FoldStep
<1> QED
  BY <1>1

LEMMA SumEmpty ==
    ASSUME NEW f
    PROVE  Sum(f, {}) = 0
<1>1. PICK g : Adds(f, g, SUBSET {}) /\ Sum(f, {}) = g[{}]
  BY SumAdds, FS_EmptySet
<1> QED
  BY <1>1 DEF Adds, FoldStep

LEMMA SumStep ==
    ASSUME NEW S, IsFiniteSet(S), NEW f, S # {}
    PROVE  Sum(f, S) = f[Pick(S)] + Sum(f, S \ {Pick(S)})
<1> DEFINE T == S \ {Pick(S)}
<1>1. IsFiniteSet(T) /\ SUBSET T \subseteq SUBSET S /\ T \in SUBSET S
  BY FS_Subset
<1>2. PICK g : Adds(f, g, SUBSET S) /\ Sum(f, S) = g[S]
  BY SumAdds
<1>3. PICK h : Adds(f, h, SUBSET T) /\ Sum(f, T) = h[T]
  BY <1>1, SumAdds
<1> HIDE DEF T
<1>4. g[T] = h[T]
  BY <1>1, <1>2, <1>3, AddsUnique
<1>5. g[S] = f[Pick(S)] + g[T]
  BY <1>2 DEF Adds, FoldStep, T
<1> QED
  BY <1>2, <1>3, <1>4, <1>5 DEF T

LEMMA SumType ==
    ASSUME NEW S, IsFiniteSet(S), NEW f, \A x \in S : f[x] \in Nat
    PROVE  Sum(f, S) \in Nat
<1> DEFINE Bad == {t \in SUBSET S : Sum(f, t) \notin Nat}
<1>1. Bad = {}
  <2> SUFFICES ASSUME Bad # {} PROVE FALSE
    OBVIOUS
  <2>1. PICK s \in Bad : \A t \in Bad : ~(t \subseteq s /\ t # s)
    <3>1. Bad \subseteq SUBSET S
      OBVIOUS
    <3> HIDE DEF Bad
    <3> QED
      BY <3>1, SmallestSet
  <2>2. s \in SUBSET S /\ Sum(f, s) \notin Nat /\ IsFiniteSet(s)
    BY <2>1, FS_Subset
  <2>3. s # {}
    BY <2>2, SumEmpty
  <2>4. Pick(s) \in s /\ s \ {Pick(s)} \in SUBSET S /\ s \ {Pick(s)} \subseteq s /\ s \ {Pick(s)} # s
    BY <2>2, <2>3, PickIsElement
  <2>5. Sum(f, s \ {Pick(s)}) \in Nat
    BY <2>1, <2>4
  <2>6. f[Pick(s)] \in Nat
    BY <2>2, <2>4
  <2>7. Sum(f, s) = f[Pick(s)] + Sum(f, s \ {Pick(s)})
    BY <2>2, <2>3, SumStep
  <2> QED
    BY <2>2, <2>5, <2>6, <2>7
<1> QED
  BY <1>1

(* The order of addition does not matter.                                    *)
LEMMA SumRemove ==
    ASSUME NEW S, IsFiniteSet(S), NEW f, \A x \in S : f[x] \in Nat, NEW e \in S
    PROVE  Sum(f, S) = f[e] + Sum(f, S \ {e})
<1> DEFINE Bad == {t \in SUBSET S : \E x \in t : Sum(f, t) # f[x] + Sum(f, t \ {x})}
<1>0. \A t \in SUBSET S : Sum(f, t) \in Nat /\ IsFiniteSet(t)
  BY FS_Subset, SumType
<1>1. Bad = {}
  <2> SUFFICES ASSUME Bad # {} PROVE FALSE
    OBVIOUS
  <2>1. PICK s \in Bad : \A t \in Bad : ~(t \subseteq s /\ t # s)
    <3>1. Bad \subseteq SUBSET S
      OBVIOUS
    <3> HIDE DEF Bad
    <3> QED
      BY <3>1, SmallestSet
  <2>2. PICK x \in s : Sum(f, s) # f[x] + Sum(f, s \ {x})
    BY <2>1
  <2> DEFINE y == Pick(s)
  <2>3. s \in SUBSET S /\ IsFiniteSet(s) /\ y \in s /\ x \in S /\ y \in S
    BY <1>0, <2>1, <2>2, PickIsElement
  <2>4. Sum(f, s) = f[y] + Sum(f, s \ {y})
    BY <2>2, <2>3, SumStep
  <2> HIDE DEF y
  <2>5. x # y
    BY <2>2, <2>4
  <2>6. /\ s \ {x} \in SUBSET S /\ s \ {x} \subseteq s /\ s \ {x} # s /\ y \in s \ {x}
        /\ s \ {y} \in SUBSET S /\ s \ {y} \subseteq s /\ s \ {y} # s /\ x \in s \ {y}
        /\ (s \ {x}) \ {y} = (s \ {y}) \ {x}
        /\ (s \ {x}) \ {y} \in SUBSET S
    BY <2>2, <2>3, <2>5
  <2>7. s \ {x} \notin Bad /\ s \ {y} \notin Bad
    <3> HIDE DEF Bad
    <3> QED
      BY <2>1, <2>6
  <2>8. Sum(f, s \ {x}) = f[y] + Sum(f, (s \ {x}) \ {y})
    BY <2>6, <2>7
  <2>9. Sum(f, s \ {y}) = f[x] + Sum(f, (s \ {y}) \ {x})
    BY <2>6, <2>7
  <2>10. /\ Sum(f, (s \ {x}) \ {y}) \in Nat /\ f[x] \in Nat /\ f[y] \in Nat
    BY <1>0, <2>3, <2>6
  <2>11. Sum(f, (s \ {x}) \ {y}) = Sum(f, (s \ {y}) \ {x})
    BY <2>6, Zenon
  <2>12. Sum(f, s) = f[x] + Sum(f, s \ {x})
    <3> HIDE DEF Bad
    <3>1. Sum(f, s) = f[y] + (f[x] + Sum(f, (s \ {x}) \ {y}))
      BY <2>4, <2>9, <2>11
    <3> QED
      BY <3>1, <2>8, <2>9, <2>10
  <2> QED
    BY <2>2, <2>12
<1> QED
  BY <1>1

LEMMA SumSame ==
    ASSUME NEW S, IsFiniteSet(S), NEW f, NEW g, \A x \in S : f[x] = g[x]
    PROVE  Sum(f, S) = Sum(g, S)
<1> DEFINE Bad == {t \in SUBSET S : Sum(f, t) # Sum(g, t)}
<1>1. Bad = {}
  <2> SUFFICES ASSUME Bad # {} PROVE FALSE
    OBVIOUS
  <2>1. PICK s \in Bad : \A t \in Bad : ~(t \subseteq s /\ t # s)
    <3>1. Bad \subseteq SUBSET S
      OBVIOUS
    <3> HIDE DEF Bad
    <3> QED
      BY <3>1, SmallestSet
  <2>2. s \in SUBSET S /\ Sum(f, s) # Sum(g, s) /\ IsFiniteSet(s)
    BY <2>1, FS_Subset
  <2>3. s # {}
    BY <2>2, SumEmpty
  <2>4. Pick(s) \in s /\ s \ {Pick(s)} \in SUBSET S /\ s \ {Pick(s)} \subseteq s /\ s \ {Pick(s)} # s
    BY <2>2, <2>3, PickIsElement
  <2>5. Sum(f, s \ {Pick(s)}) = Sum(g, s \ {Pick(s)})
    BY <2>1, <2>4
  <2> QED
    BY <2>2, <2>3, <2>4, <2>5, SumStep
<1> QED
  BY <1>1

(* One entry changes: so much changes the sum.                               *)
LEMMA SumChange ==
    ASSUME NEW S, IsFiniteSet(S), NEW T, IsFiniteSet(T), NEW x, S \ {x} = T \ {x},
           NEW f, \A y \in S : f[y] \in Nat, NEW g, \A y \in T : g[y] \in Nat,
           \A y \in S \ {x} : f[y] = g[y]
    PROVE  /\ Sum(f, S) \in Nat /\ Sum(g, T) \in Nat
           /\ Sum(f, S) - (IF x \in S THEN f[x] ELSE 0)
                = Sum(g, T) - (IF x \in T THEN g[x] ELSE 0)
<1> DEFINE R == S \ {x}
<1>1. /\ IsFiniteSet(R) /\ (\A y \in R : f[y] \in Nat /\ g[y] \in Nat /\ f[y] = g[y])
      /\ (x \notin S => R = S) /\ (x \notin T => R = T) /\ R = T \ {x}
  BY FS_Subset
<1>2. Sum(f, S) \in Nat /\ Sum(g, T) \in Nat
  BY SumType
<1>3. x \in S => Sum(f, S) = f[x] + Sum(f, R) /\ f[x] \in Nat
  BY SumRemove
<1>4. x \in T => Sum(g, T) = g[x] + Sum(g, R) /\ g[x] \in Nat
  <2>1. x \in T => Sum(g, T) = g[x] + Sum(g, T \ {x}) /\ g[x] \in Nat
    BY SumRemove
  <2> QED
    BY <2>1, <1>1
<1> HIDE DEF R
<1>5. Sum(f, R) = Sum(g, R) /\ Sum(f, R) \in Nat
  BY <1>1, SumSame, SumType
<1>6. Sum(f, S) - (IF x \in S THEN f[x] ELSE 0) = Sum(f, R)
  <2>1. CASE x \in S
    BY <1>3, <1>5, <2>1
  <2>2. CASE x \notin S
    BY <1>1, <1>2, <2>2
  <2> QED
    BY <2>1, <2>2
<1>7. Sum(g, T) - (IF x \in T THEN g[x] ELSE 0) = Sum(g, R)
  <2>1. CASE x \in T
    BY <1>4, <1>5, <2>1
  <2>2. CASE x \notin T
    <3>1. R = T
      BY <1>1, <2>2
    <3>2. Sum(g, T) = Sum(g, R)
      BY <3>1, Zenon
    <3> QED
      BY <1>2, <2>2, <3>2
  <2> QED
    BY <2>1, <2>2
<1> QED
  BY <1>2, <1>5, <1>6, <1>7

-----------------------------------------------------------------------------
(* One tab: the requests for an attempt come one after another.              *)

Busy(p) == pc[p] \notin {"ready", "done"}

(* Statuses of an attempt PayPal's authorization is not recorded for, ...    *)
Unauthorized == {"NONE", "CREATED", "ORDER_CREATED", "APPROVED", "CANCELLED"}

(* ... that can no longer be captured, ...                                   *)
Closed == {"FAILED", "UNAVAILABLE_AFTER_AUTH", "VOID_PENDING", "VOIDED"}

(* ... and of one whose capture may have been made.                          *)
AtCapture == {"CAPTURE_PENDING", "RECONCILING", "COMPLETED"}

(* A row against its contribution and against what PayPal did.               *)
RowOK(a) ==
    /\ attempt[a].auth => attempt[a].order
    /\ attempt[a].auth <=> attempt[a].status \notin Unauthorized
    /\ attempt[a].units = IF attempt[a].status \in Holding THEN Units[a] ELSE 0
    /\ attempt[a].cap => attempt[a].status \in Closed \cup {"RECONCILING", "COMPLETED"}
    /\ a \in contributions <=> attempt[a].status = "COMPLETED"
    /\ paypal[a].cap # "NONE" =>
         /\ attempt[a].status \in Closed \cup AtCapture
         /\ attempt[a].capReq # None
         /\ paypal[a].capReq = attempt[a].capReq
    /\ paypal[a].cap \in {"PENDING", "COMPLETED"} => attempt[a].status \in AtCapture

(* What a request of checkout, of the return page, or of finalization up to  *)
(* the reservation knows of the row of attempt a.                            *)
Starting(r, a) ==
    /\ pc[r] = "startOrder" => snap[r].order = attempt[a].order
    /\ pc[r] = "startSave" => ~attempt[a].order
    /\ pc[r] \in {"cancelOrder", "returnOrder"} /\ snap[r].status \in Cancellable
         => ~attempt[a].auth
    /\ pc[r] \in {"cancelSave", "approveSave"} => ~attempt[a].auth
    /\ pc[r] = "order" => attempt[a].order /\ snap[r].auth = attempt[a].auth
    /\ pc[r] \in {"authorizeId", "authorize", "authorizeSave"} =>
         attempt[a].order /\ ~attempt[a].auth
    /\ pc[r] = "reserve" => attempt[a].auth

(* What it knows from the reservation to the end of finalization.            *)
Finalizing(r, a) ==
    /\ pc[r] # "reserveReconcile"
    /\ pc[r] = "reserveRefuse" =>
         /\ attempt[a].status \in Closed \cup {"AUTHORIZED"}
         /\ paypal[a].cap \in {"NONE", "DECLINED"}
    /\ pc[r] = "reserveGrant" => attempt[a].status = "AUTHORIZED"
    /\ pc[r] = "reserved" /\ snap[r].status = "UNAVAILABLE_AFTER_AUTH" =>
         attempt[a].status \in Closed
    /\ (/\ pc[r] = "reserved"
        /\ snap[r].status \notin {"UNAVAILABLE_AFTER_AUTH", "RECONCILING"}
        /\ snap[r].units = Units[a]) =>
         attempt[a].status \in {"RESERVED", "CAPTURE_PENDING"} /\ snap[r] = attempt[a]
    /\ pc[r] = "captureId" =>
         attempt[a].status \in {"RESERVED", "CAPTURE_PENDING"} /\ snap[r] = attempt[a]
    /\ pc[r] \in {"capture", "capturePending", "captureUnknown", "captureFailed",
                  "captured", "fund"} => attempt[a].status = "CAPTURE_PENDING"
    /\ pc[r] = "capture" => snap[r].capReq = attempt[a].capReq /\ attempt[a].capReq # None
    /\ pc[r] = "captureFailed" => paypal[a].cap = "NONE"
    /\ pc[r] \in {"voidId", "void", "voidRetry"} => attempt[a].status \in Closed

(* What a process that reconciles attempt a, or voids it, knows of its row.  *)
Reconciling(p, a) ==
    /\ pc[p] \in {"recCapture", "releaseFailed"} => attempt[a].cap
    /\ pc[p] = "releaseFailed" => Declined(a)
    /\ pc[p] \in {"recAuthorization", "recVoid", "voided", "releaseVoided"} =>
         attempt[a].status \in Closed
    /\ pc[p] = "recOrder" =>
         \/ attempt[a].status = "COMPLETED"
         \/ attempt[a].status = "RECONCILING" /\ ~attempt[a].cap
    /\ pc[p] \in {"recCaptured", "recFund"} => attempt[a].status \in {"RECONCILING", "COMPLETED"}

(* Where the pass of a worker can stand.                                     *)
Passes == {"ready", "reconcile", "recAuthorization", "recCapture", "recOrder", "recVoid",
           "recCaptured", "recFund", "releaseFailed", "releaseVoided", "voided"}

Knows(p, a) ==
    /\ p \in Requests => Starting(p, a) /\ Finalizing(p, a)
    /\ p \notin Requests => pc[p] \in Passes
    /\ Reconciling(p, a)

Homes == \A r \in Requests : target[r] = RequestFor[r]

OneAtATime ==
    \A r, q \in Requests : RequestFor[r] = RequestFor[q] /\ Busy(r) /\ Busy(q) => r = q

LockHeld ==
    \A r \in Requests :
        lock = r <=> pc[r] \in {"reserveReconcile", "reserveRefuse", "reserveGrant"}

(* A request about to reserve has room, whatever happens before it writes.   *)
Room == \A r \in Requests : pc[r] = "reserveGrant" => Promised + Units[target[r]] <= Total

Serial ==
    /\ IInv
    /\ Homes /\ OneAtATime /\ LockHeld
    /\ \A a \in Attempts : RowOK(a)
    /\ \A p \in Processes : Knows(p, target[p])
    /\ ReservationsFit /\ Room

(* Nothing but process set P and attempt a is touched.                       *)
Frame(P, a) ==
    /\ \A q \in Processes \ P :
         pc'[q] = pc[q] /\ target'[q] = target[q] /\ snap'[q] = snap[q]
    /\ \A b \in Attempts \ {a} :
         /\ attempt'[b] = attempt[b] /\ paypal'[b] = paypal[b]
         /\ b \in contributions' <=> b \in contributions

(* How any step may move a row: what reconciling processes rely on.          *)
Moves(a) ==
    /\ attempt[a].cap => attempt'[a].cap
    /\ Declined(a) => Declined(a)'
    /\ attempt[a].status \in Closed => attempt'[a].status \in Closed
    /\ attempt[a].status = "COMPLETED" => attempt'[a].status = "COMPLETED"
    /\ attempt[a].status = "RECONCILING" =>
         \/ attempt'[a].status = "COMPLETED"
         \/ attempt'[a].status = "RECONCILING" /\ attempt'[a].cap = attempt[a].cap
         \/ attempt'[a].status = "FAILED" /\ attempt[a].cap /\ Declined(a)

(* How reconciliation and PayPal may move it: what a request relies on.      *)
Reconciles(a) ==
    /\ ~attempt[a].auth => attempt'[a] = attempt[a]
    /\ attempt[a].status \in {"AUTHORIZED", "RESERVED", "CAPTURE_PENDING"} =>
         attempt'[a] = attempt[a]
    /\ attempt'[a].order = attempt[a].order
    /\ attempt'[a].auth = attempt[a].auth
    /\ attempt'[a].capReq = attempt[a].capReq
    /\ paypal[a].cap = "NONE" <=> paypal'[a].cap = "NONE"

(* What others know survives a step that moves the row as it may.            *)
LEMMA KnowsStays ==
    ASSUME Serial, TypeOK', NEW P, NEW a \in Attempts, Frame(P, a), Moves(a),
           NEW q \in Processes \ P,
           q \in Requests /\ target[q] = a /\ Busy(q) => Reconciles(a)
    PROVE  Knows(q, target[q])'
<1> DEFINE b == target[q]
<1>1. /\ b \in Attempts /\ q \in Processes /\ Knows(q, b) /\ target'[q] = b
      /\ pc'[q] = pc[q] /\ snap'[q] = snap[q]
      /\ pc[q] \in {"captured", "recCaptured", "fund", "recFund"} => Settled(b)
  BY DEF Serial, IInv, TypeOK, FundersSawCapture, Frame
<1> SUFFICES ASSUME NEW c \in Attempts, c = b
             PROVE  Knows(q, c)'
  BY <1>1 DEF Knows, Starting, Finalizing, Reconciling, Declined
<1>2. CASE c # a
  <2>1. attempt'[c] = attempt[c] /\ paypal'[c] = paypal[c]
    BY <1>2 DEF Frame
  <2>2. QED
    BY <1>1, <2>1 DEF Knows, Starting, Finalizing, Reconciling, Declined
<1>3. CASE c = a
  <2>1. Reconciling(q, c)'
    BY <1>1, <1>3 DEF Knows, Reconciling, Moves, Declined, Settled
  <2>2. ASSUME q \in Requests
        PROVE  Starting(q, c)' /\ Finalizing(q, c)'
    <3>1. CASE ~Busy(q)
      BY <1>1, <3>1 DEF Busy, Starting, Finalizing
    <3>2. CASE Busy(q)
      <4>1. Reconciles(c)
        BY <1>1, <1>3, <2>2, <3>2
      <4>2. Starting(q, c)'
        BY <1>1, <2>2, <4>1 DEF Knows, Starting, Reconciles
      <4>3. Finalizing(q, c)'
        BY <1>1, <1>3, <2>2, <4>1 DEF Knows, Finalizing, Reconciles, Moves, Declined
      <4> QED
        BY <4>2, <4>3
    <3> QED
      BY <3>1, <3>2
  <2> QED
    BY <1>1, <2>1, <2>2 DEF Knows
<1> QED
  BY <1>2, <1>3

(* A step that moves one row moves the reservations by what the row holds.   *)
LEMMA ReservedMoves ==
    ASSUME IsFiniteSet(Attempts), TypeOK, TypeOK', NEW a \in Attempts,
           \A b \in Attempts \ {a} : attempt'[b] = attempt[b], RowOK(a), RowOK(a)'
    PROVE  /\ Reserved \in Nat /\ Reserved' \in Nat
           /\ Reserved' = Reserved - attempt[a].units + attempt'[a].units
<1> DEFINE f == [b \in Attempts |-> attempt[b].units]
           g == [b \in Attempts |-> attempt'[b].units]
           S == {b \in Attempts : attempt[b].status \in Holding}
           T == {b \in Attempts : attempt'[b].status \in Holding}
<1>1. Reserved = Sum(f, S)
  BY DEF Reserved, Sum
<1>2. Reserved' = Sum(g, T)
  BY DEF Reserved, Sum, FoldFunctionOnSet, MapThenFoldSet
<1>9. /\ \A b \in Attempts : attempt[b].units \in Nat /\ attempt'[b].units \in Nat
      /\ attempt[a].status \notin Holding => attempt[a].units = 0
      /\ attempt'[a].status \notin Holding => attempt'[a].units = 0
  BY DEF TypeOK, Rows, RowOK
<1>3. /\ IsFiniteSet(S) /\ IsFiniteSet(T) /\ S \ {a} = T \ {a}
      /\ (\A b \in S : f[b] \in Nat) /\ (\A b \in T : g[b] \in Nat)
      /\ \A b \in S \ {a} : f[b] = g[b]
  BY <1>9, FS_Subset
<1>4. /\ f[a] = attempt[a].units /\ g[a] = attempt'[a].units
      /\ a \notin S => f[a] = 0
      /\ a \notin T => g[a] = 0
      /\ f[a] \in Nat /\ g[a] \in Nat
  BY <1>9
<1> HIDE DEF f, g, S, T
<1>5. /\ Sum(f, S) \in Nat /\ Sum(g, T) \in Nat
      /\ Sum(f, S) - (IF a \in S THEN f[a] ELSE 0) = Sum(g, T) - (IF a \in T THEN g[a] ELSE 0)
  BY <1>3, SumChange
<1> QED
  BY <1>1, <1>2, <1>4, <1>5

LEMMA ReservedType ==
    ASSUME IsFiniteSet(Attempts), TypeOK
    PROVE  Reserved \in Nat
<1> DEFINE f == [b \in Attempts |-> attempt[b].units]
           S == {b \in Attempts : attempt[b].status \in Holding}
<1>1. IsFiniteSet(S) /\ \A b \in S : f[b] \in Nat
  BY FS_Subset DEF TypeOK, Rows
<1>2. Reserved = Sum(f, S)
  BY DEF Reserved, Sum
<1> HIDE DEF f, S
<1> QED
  BY <1>1, <1>2, SumType

(* What one process's step does, seen from its own attempt.                  *)
Local(p, a) == Frame({p}, a) /\ Moves(a) /\ RowOK(a)' /\ Knows(p, target[p])'

LEMMA RequestLocal ==
    ASSUME IsFiniteSet(Attempts), Serial, TypeOK', NEW r \in Requests, NEW a \in Attempts,
           a = target[r], RequestStep(r)
    PROVE  Local(r, a)
<1>0. /\ r \in Processes /\ TypeOK /\ RowOK(a) /\ Starting(r, a) /\ Finalizing(r, a)
      /\ attempt[a] \in Rows /\ snap[r] \in Rows
  BY DEF Serial, IInv, TypeOK, Processes, Knows
<1> USE DEF Local, Frame, TypeOK, Goto, Finish, Finished, Forget, Read, table
<1>1. CASE StartCheck(r)
  <2>1. Frame({r}, a)
    BY <1>1, <1>0 DEF StartCheck
  <2>2. attempt' = attempt /\ contributions' = contributions /\ paypal' = paypal
    BY <1>1 DEF StartCheck
  <2>3. Moves(a) /\ RowOK(a)'
    BY <2>2, <1>0 DEF Moves, RowOK, Declined, Closed
  <2>4. Knows(r, target[r])'
    BY <1>1, <1>0 DEF StartCheck, Knows, Starting, Finalizing, Reconciling
  <2>5. QED
    BY <2>1, <2>3, <2>4
<1>2. CASE StartAttempt(r)
  <2>1. Frame({r}, a)
    BY <1>2, <1>0 DEF StartAttempt
  <2>2. Moves(a)
    BY <1>2, <1>0 DEF StartAttempt, Moves, RowOK, Unauthorized, Closed, Declined
  <2>3. RowOK(a)'
    BY <1>2, <1>0 DEF StartAttempt, RowOK, Unauthorized, Closed, AtCapture, Holding
  <2>4. Knows(r, target[r])'
    BY <1>2, <1>0 DEF StartAttempt, Knows, Starting, Finalizing, Reconciling
  <2>5. QED
    BY <2>1, <2>2, <2>3, <2>4
<1>3. CASE StartOrder(r)
  <2>1. Frame({r}, a)
    BY <1>3, <1>0 DEF StartOrder
  <2>2. /\ attempt' = attempt /\ contributions' = contributions
        /\ paypal'[a].cap = paypal[a].cap /\ paypal'[a].capReq = paypal[a].capReq
    BY <1>3, <1>0 DEF StartOrder, PayPalStates
  <2>3. Moves(a) /\ RowOK(a)'
    BY <2>2, <1>0 DEF Moves, RowOK, Declined, Closed
  <2>4. Knows(r, target[r])'
    BY <1>3, <1>0 DEF StartOrder, Knows, Starting, Finalizing, Reconciling
  <2> QED
    BY <2>1, <2>3, <2>4
<1>4. CASE StartSave(r)
  <2>1. Frame({r}, a)
    BY <1>4, <1>0 DEF StartSave
  <2>2. Moves(a)
    BY <1>4, <1>0 DEF StartSave, Moves, Starting, RowOK, Unauthorized, Closed, Declined
  <2>3. RowOK(a)'
    BY <1>4, <1>0 DEF StartSave, RowOK, Starting, Unauthorized, Closed, AtCapture, Holding
  <2>4. Knows(r, target[r])'
    BY <1>4, <1>0 DEF StartSave, Knows, Starting, Finalizing, Reconciling
  <2>5. QED
    BY <2>1, <2>2, <2>3, <2>4
<1>5. CASE ReturnRead(r)
  <2>1. Frame({r}, a)
    BY <1>5, <1>0 DEF ReturnRead
  <2>2. attempt' = attempt /\ contributions' = contributions /\ paypal' = paypal
    BY <1>5 DEF ReturnRead
  <2>3. Moves(a) /\ RowOK(a)'
    BY <2>2, <1>0 DEF Moves, RowOK, Declined, Closed
  <2>4. Knows(r, target[r])'
    BY <1>5, <1>0 DEF ReturnRead, Knows, Starting, Finalizing, Reconciling, RowOK,
       Unauthorized, Cancellable
  <2>5. QED
    BY <2>1, <2>3, <2>4
<1>6. CASE ReturnReadUnordered(r)
  <2>1. Frame({r}, a)
    BY <1>6, <1>0 DEF ReturnReadUnordered
  <2>2. attempt' = attempt /\ contributions' = contributions /\ paypal' = paypal
    BY <1>6 DEF ReturnReadUnordered
  <2>3. Moves(a) /\ RowOK(a)'
    BY <2>2, <1>0 DEF Moves, RowOK, Declined, Closed
  <2>4. Knows(r, target[r])'
    BY <1>6, <1>0 DEF ReturnReadUnordered, Knows, Starting, Finalizing, Reconciling, RowOK,
       Unauthorized
  <2>5. QED
    BY <2>1, <2>3, <2>4
<1>7. CASE ReturnOrder(r)
  <2>1. Frame({r}, a)
    BY <1>7, <1>0 DEF ReturnOrder
  <2>2. attempt' = attempt /\ contributions' = contributions /\ paypal' = paypal
    BY <1>7 DEF ReturnOrder
  <2>3. Moves(a) /\ RowOK(a)'
    BY <2>2, <1>0 DEF Moves, RowOK, Declined, Closed
  <2>4. Knows(r, target[r])'
    BY <1>7, <1>0 DEF ReturnOrder, Knows, Starting, Finalizing, Reconciling, Cancellable
  <2>5. QED
    BY <2>1, <2>3, <2>4
<1>8. CASE ReturnSave(r)
  <2>1. Frame({r}, a)
    BY <1>8, <1>0 DEF ReturnSave, SetStatus
  <2>2. Moves(a)
    BY <1>8, <1>0 DEF ReturnSave, SetStatus, Moves, Starting, RowOK, Unauthorized, Closed,
       Declined
  <2>3. RowOK(a)'
    BY <1>8, <1>0 DEF ReturnSave, SetStatus, RowOK, Starting, Unauthorized, Closed, AtCapture,
       Holding
  <2>4. Knows(r, target[r])'
    BY <1>8, <1>0 DEF ReturnSave, SetStatus, Knows, Starting, Finalizing, Reconciling
  <2>5. QED
    BY <2>1, <2>2, <2>3, <2>4
<1>9. CASE FinalizeRead(r)
  <2>1. Frame({r}, a)
    BY <1>9, <1>0 DEF FinalizeRead
  <2>2. attempt' = attempt /\ contributions' = contributions /\ paypal' = paypal
    BY <1>9 DEF FinalizeRead
  <2>3. Moves(a) /\ RowOK(a)'
    BY <2>2, <1>0 DEF Moves, RowOK, Declined, Closed
  <2>4. Knows(r, target[r])'
    BY <1>9, <1>0 DEF FinalizeRead, Knows, Starting, Finalizing, Reconciling
  <2>5. QED
    BY <2>1, <2>3, <2>4
<1>10. CASE FinalizeOrder(r)
  <2>1. Frame({r}, a)
    BY <1>10, <1>0 DEF FinalizeOrder
  <2>2. attempt' = attempt /\ contributions' = contributions /\ paypal' = paypal
    BY <1>10 DEF FinalizeOrder
  <2>3. Moves(a) /\ RowOK(a)'
    BY <2>2, <1>0 DEF Moves, RowOK, Declined, Closed
  <2>4. Knows(r, target[r])'
    BY <1>10, <1>0 DEF FinalizeOrder, Knows, Starting, Finalizing, Reconciling
  <2>5. QED
    BY <2>1, <2>3, <2>4
<1>11. CASE AuthorizeId(r)
  <2>1. Frame({r}, a)
    BY <1>11, <1>0 DEF AuthorizeId
  <2>2. Moves(a)
    BY <1>11, <1>0 DEF AuthorizeId, Moves, Starting, RowOK, Unauthorized, Closed, Declined
  <2>3. RowOK(a)'
    BY <1>11, <1>0 DEF AuthorizeId, RowOK, Starting, Unauthorized, Closed, AtCapture, Holding
  <2>4. Knows(r, target[r])'
    BY <1>11, <1>0 DEF AuthorizeId, Knows, Starting, Finalizing, Reconciling
  <2>5. QED
    BY <2>1, <2>2, <2>3, <2>4
<1>12. CASE Authorize(r)
  <2>1. Frame({r}, a)
    BY <1>12, <1>0 DEF Authorize
  <2>2. /\ attempt' = attempt /\ contributions' = contributions
        /\ paypal'[a].cap = paypal[a].cap /\ paypal'[a].capReq = paypal[a].capReq
    BY <1>12, <1>0 DEF Authorize, PayPalStates
  <2>3. Moves(a) /\ RowOK(a)'
    BY <2>2, <1>0 DEF Moves, RowOK, Declined, Closed
  <2>4. Knows(r, target[r])'
    BY <1>12, <1>0 DEF Authorize, Knows, Starting, Finalizing, Reconciling
  <2>5. QED
    BY <2>1, <2>3, <2>4
<1>13. CASE AuthorizeSave(r)
  <2>1. Frame({r}, a)
    BY <1>13, <1>0 DEF AuthorizeSave
  <2>2. Moves(a)
    BY <1>13, <1>0 DEF AuthorizeSave, Moves, Starting, RowOK, Unauthorized, Closed, Declined
  <2>3. RowOK(a)'
    BY <1>13, <1>0 DEF AuthorizeSave, RowOK, Starting, Unauthorized, Closed, AtCapture, Holding
  <2>4. Knows(r, target[r])'
    BY <1>13, <1>0 DEF AuthorizeSave, Knows, Starting, Finalizing, Reconciling
  <2>5. QED
    BY <2>1, <2>2, <2>3, <2>4
<1>14. CASE ReserveLock(r)
  <2>1. Frame({r}, a)
    BY <1>14, <1>0 DEF ReserveLock
  <2>2. attempt' = attempt /\ contributions' = contributions /\ paypal' = paypal
    BY <1>14 DEF ReserveLock
  <2>3. Moves(a) /\ RowOK(a)'
    BY <2>2, <1>0 DEF Moves, RowOK, Declined, Closed
  <2>4. ~(Promised > Total)
    BY <1>0, ReservedType, TotalAssumption DEF Promised, Serial, ReservationsFit
  <2>5. Units[a] \in Nat \ {0}
    BY UnitsAssumption
  <2>6. attempt[a].status \notin Holding \cup {"COMPLETED"} =>
          attempt[a].status \in Closed \cup {"AUTHORIZED"}
    BY <1>14, <1>0 DEF ReserveLock, Starting, RowOK, Closed, Holding, Unauthorized, Rows,
       Statuses
  <2>7. attempt[a].status \in Closed \cup {"AUTHORIZED"} => paypal[a].cap \in {"NONE", "DECLINED"}
    BY <1>0 DEF RowOK, Closed, AtCapture, PayPalStates
  <2>8. Knows(r, target[r])'
    <3>1. CASE attempt[a].status \in Holding \cup {"COMPLETED"}
      BY <1>14, <1>0, <2>2, <2>5, <3>1 DEF ReserveLock, RowOK, Knows, Starting, Finalizing,
         Reconciling, Holding
    <3>2. CASE attempt[a].status \notin Holding \cup {"COMPLETED"}
      BY <1>14, <1>0, <2>2, <2>4, <2>6, <2>7, <3>2 DEF ReserveLock, Knows, Starting,
         Finalizing, Reconciling
    <3> QED
      BY <3>1, <3>2
  <2> QED
    BY <2>1, <2>3, <2>8
<1>15. CASE ReserveWrite(r)
  <2>1. Frame({r}, a)
    BY <1>15, <1>0 DEF ReserveWrite
  <2>2. Moves(a)
    BY <1>15, <1>0 DEF ReserveWrite, Moves, Finalizing, RowOK, Unauthorized, Closed, Declined
  <2>3. RowOK(a)'
    BY <1>15, <1>0 DEF ReserveWrite, RowOK, Finalizing, Unauthorized, Closed, AtCapture, Holding
  <2>4. Knows(r, target[r])'
    BY <1>15, <1>0 DEF ReserveWrite, Knows, Starting, Finalizing, Reconciling, Closed
  <2>5. QED
    BY <2>1, <2>2, <2>3, <2>4
<1>16. CASE Dispatch(r)
  <2>1. Frame({r}, a)
    BY <1>16, <1>0 DEF Dispatch
  <2>2. attempt' = attempt /\ contributions' = contributions /\ paypal' = paypal
    BY <1>16 DEF Dispatch
  <2>3. Moves(a) /\ RowOK(a)'
    BY <2>2, <1>0 DEF Moves, RowOK, Declined, Closed
  <2>4. Knows(r, target[r])'
    BY <1>16, <1>0 DEF Dispatch, Knows, Starting, Finalizing, Reconciling
  <2>5. QED
    BY <2>1, <2>3, <2>4
<1>17. CASE CaptureId(r)
  <2>1. Frame({r}, a)
    BY <1>17, <1>0 DEF CaptureId
  <2>2. Moves(a)
    BY <1>17, <1>0 DEF CaptureId, Moves, Finalizing, RowOK, Unauthorized, Closed, Declined
  <2>3. RowOK(a)'
    BY <1>17, <1>0 DEF CaptureId, RowOK, Finalizing, Unauthorized, Closed, AtCapture, Holding
  <2>4. Knows(r, target[r])'
    BY <1>17, <1>0, ProcessAssumption DEF CaptureId, Knows, Starting, Finalizing, Reconciling
  <2>5. QED
    BY <2>1, <2>2, <2>3, <2>4
<1>18. CASE Capture(r)
  <2>1. Frame({r}, a)
    BY <1>18, <1>0 DEF Capture, Unanswered
  <2>2. /\ attempt' = attempt /\ contributions' = contributions
        /\ attempt[a].status = "CAPTURE_PENDING"
        /\ snap[r].capReq = attempt[a].capReq /\ attempt[a].capReq # None
    BY <1>18, <1>0 DEF Capture, Finalizing
  <2>3. \/ paypal' = paypal
        \/ /\ paypal[a].auth = "CREATED"
           /\ paypal'[a].cap \in {"COMPLETED", "PENDING", "DECLINED"}
           /\ paypal'[a].capReq = attempt[a].capReq
    <3>1. CASE paypal' = paypal
      BY <3>1
    <3>2. ASSUME NEW c \in {"COMPLETED", "PENDING", "DECLINED"}, paypal[a].auth = "CREATED",
                 paypal' = [paypal EXCEPT ![a].auth = "CAPTURED", ![a].cap = c,
                                          ![a].capReq = snap[r].capReq]
          PROVE  paypal'[a].cap = c /\ paypal'[a].capReq = attempt[a].capReq
      BY <1>0, <2>2, <3>2 DEF PayPalStates
    <3> QED
      BY <1>18, <1>0, <3>1, <3>2 DEF Capture
  <2>4. Moves(a) /\ RowOK(a)'
    BY <1>0, <2>2, <2>3 DEF Moves, RowOK, Declined, Closed, AtCapture, Holding, Serial, IInv,
                            CaptureUsesAuthorization
  <2>5. pc'[r] = "captureFailed" => paypal'[a].cap = "NONE"
    BY <1>18, <1>0, <2>2 DEF Capture, Unanswered, RowOK
  <2>6. Knows(r, target[r])'
    BY <1>18, <1>0, <2>2, <2>5 DEF Capture, Unanswered, Knows, Starting, Finalizing, Reconciling
  <2> QED
    BY <2>1, <2>4, <2>6
<1>19. CASE CaptureSave(r)
  <2>1. Frame({r}, a)
    BY <1>19, <1>0 DEF CaptureSave
  <2>2. Moves(a)
    BY <1>19, <1>0 DEF CaptureSave, Moves, Finalizing, RowOK, Unauthorized, Closed, Declined
  <2>3. RowOK(a)'
    BY <1>19, <1>0 DEF CaptureSave, RowOK, Finalizing, Unauthorized, Closed, AtCapture, Holding
  <2>4. Knows(r, target[r])'
    BY <1>19, <1>0 DEF CaptureSave, Knows, Starting, Finalizing, Reconciling
  <2>5. QED
    BY <2>1, <2>2, <2>3, <2>4
<1>20. CASE VoidId(r)
  <2>1. Frame({r}, a)
    BY <1>20, <1>0 DEF VoidId, SetStatus
  <2>2. Moves(a)
    BY <1>20, <1>0 DEF VoidId, SetStatus, Moves, Finalizing, RowOK, Unauthorized, Closed,
       Declined
  <2>3. RowOK(a)'
    BY <1>20, <1>0 DEF VoidId, SetStatus, RowOK, Finalizing, Unauthorized, Closed, AtCapture,
       Holding
  <2>4. Knows(r, target[r])'
    BY <1>20, <1>0 DEF VoidId, SetStatus, Knows, Starting, Finalizing, Reconciling, Closed
  <2>5. QED
    BY <2>1, <2>2, <2>3, <2>4
<1>21. CASE VoidRetry(r)
  <2>1. Frame({r}, a)
    BY <1>21, <1>0 DEF VoidRetry, SetStatus
  <2>2. Moves(a)
    BY <1>21, <1>0 DEF VoidRetry, SetStatus, Moves, Finalizing, RowOK, Unauthorized, Closed,
       Declined
  <2>3. RowOK(a)'
    BY <1>21, <1>0 DEF VoidRetry, SetStatus, RowOK, Finalizing, Unauthorized, Closed,
       AtCapture, Holding
  <2>4. Knows(r, target[r])'
    BY <1>21, <1>0 DEF VoidRetry, SetStatus, Knows, Starting, Finalizing, Reconciling
  <2>5. QED
    BY <2>1, <2>2, <2>3, <2>4
<1>22. QED
  BY <1>1, <1>2, <1>3, <1>4, <1>5, <1>6, <1>7, <1>8, <1>9, <1>10, <1>11, <1>12, <1>13, <1>14,
     <1>15, <1>16, <1>17, <1>18, <1>19, <1>20, <1>21
  DEF RequestStep

LEMMA ReconcileLocal ==
    ASSUME Serial, TypeOK', NEW p \in Processes, NEW a \in Attempts, a = target[p],
           ReconcileStep(p)
    PROVE  Local(p, a) /\ (p \notin Requests => Reconciles(a))
<1>0. /\ TypeOK /\ RowOK(a) /\ Reconciling(p, a) /\ (p \notin Requests => pc[p] \in Passes)
      /\ p \in Requests => Finalizing(p, a)
      /\ attempt[a] \in Rows /\ snap[p] \in Rows /\ CaptureUsesAuthorization
      /\ pc[p] \in {"captured", "recCaptured", "fund", "recFund"} => Settled(a)
      /\ a \in contributions => Settled(a)
  BY DEF Serial, IInv, TypeOK, Knows, FundersSawCapture, ContributionIsPaid, Settled
<1> USE DEF Local, Frame, TypeOK, Goto, Finish, Finished, Forget, Read, table
<1>1. CASE Reconcile(p)
  <2>1. Frame({p}, a)
    BY <1>1, <1>0 DEF Reconcile
  <2>2. /\ attempt' = attempt /\ contributions' = contributions
        /\ paypal'[a].cap = paypal[a].cap /\ paypal'[a].capReq = paypal[a].capReq
    BY <1>1, <1>0 DEF Reconcile, PayPalStates
  <2>3. Moves(a) /\ RowOK(a)' /\ Reconciles(a)
    BY <2>2, <1>0 DEF Moves, RowOK, Reconciles, Declined, Closed
  <2>4. Knows(p, target[p])'
    BY <1>1, <1>0, <2>2 DEF Reconcile, Unclear, RowOK, Knows, Starting, Finalizing,
       Reconciling, Passes, Closed, AtCapture, Settled, Declined
  <2> QED
    BY <2>1, <2>3, <2>4
<1>2. CASE RecAuthorization(p)
  <2>1. Frame({p}, a)
    BY <1>2, <1>0 DEF RecAuthorization
  <2>2. /\ attempt' = attempt /\ contributions' = contributions
        /\ paypal'[a].cap = paypal[a].cap /\ paypal'[a].capReq = paypal[a].capReq
    BY <1>2, <1>0 DEF RecAuthorization, PayPalStates
  <2>3. Moves(a) /\ RowOK(a)' /\ Reconciles(a)
    BY <2>2, <1>0 DEF Moves, RowOK, Reconciles, Declined, Closed
  <2>4. Knows(p, target[p])'
    BY <1>2, <1>0, <2>2 DEF RecAuthorization, RowOK, Knows, Starting, Finalizing, Reconciling,
       Passes, Closed, AtCapture, Settled, Declined
  <2> QED
    BY <2>1, <2>3, <2>4
<1>3. CASE RecCapture(p)
  <2>1. Frame({p}, a)
    BY <1>3, <1>0 DEF RecCapture
  <2>2. /\ attempt' = attempt /\ contributions' = contributions
        /\ paypal'[a].cap = paypal[a].cap /\ paypal'[a].capReq = paypal[a].capReq
    BY <1>3, <1>0 DEF RecCapture, PayPalStates
  <2>3. Moves(a) /\ RowOK(a)' /\ Reconciles(a)
    BY <2>2, <1>0 DEF Moves, RowOK, Reconciles, Declined, Closed
  <2>4. Knows(p, target[p])'
    BY <1>3, <1>0, <2>2 DEF RecCapture, RowOK, Knows, Starting, Finalizing, Reconciling,
       Passes, Closed, AtCapture, Settled, Declined
  <2> QED
    BY <2>1, <2>3, <2>4
<1>4. CASE RecOrder(p)
  <2>1. Frame({p}, a)
    BY <1>4, <1>0 DEF RecOrder
  <2>2. /\ attempt' = attempt /\ contributions' = contributions
        /\ paypal'[a].cap = paypal[a].cap /\ paypal'[a].capReq = paypal[a].capReq
    BY <1>4, <1>0 DEF RecOrder, PayPalStates
  <2>3. Moves(a) /\ RowOK(a)' /\ Reconciles(a)
    BY <2>2, <1>0 DEF Moves, RowOK, Reconciles, Declined, Closed
  <2>4. Knows(p, target[p])'
    BY <1>4, <1>0, <2>2 DEF RecOrder, RowOK, Knows, Starting, Finalizing, Reconciling, Passes,
       Closed, AtCapture, Settled, Declined
  <2> QED
    BY <2>1, <2>3, <2>4
<1>5. CASE Void(p)
  <2>1. Frame({p}, a)
    BY <1>5, <1>0 DEF Void
  <2>2. /\ attempt' = attempt /\ contributions' = contributions
        /\ paypal'[a].cap = paypal[a].cap /\ paypal'[a].capReq = paypal[a].capReq
    BY <1>5, <1>0 DEF Void, PayPalStates
  <2>3. Moves(a) /\ RowOK(a)' /\ Reconciles(a)
    BY <2>2, <1>0 DEF Moves, RowOK, Reconciles, Declined, Closed
  <2>4. Knows(p, target[p])'
    BY <1>5, <1>0, <2>2 DEF Void, RowOK, Knows, Starting, Finalizing, Reconciling, Passes,
       Closed, AtCapture, Settled, Declined
  <2> QED
    BY <2>1, <2>3, <2>4
<1>6. CASE Release(p)
  <2>1. Frame({p}, a)
    BY <1>6, <1>0 DEF Release
  <2>2. Moves(a)
    BY <1>6, <1>0 DEF Release, Released, Moves, RowOK, Reconciling, Finalizing, Passes, Closed,
       Declined, Settled, Rows
  <2>3. RowOK(a)'
    BY <1>6, <1>0 DEF Release, Released, RowOK, Reconciling, Finalizing, Passes, Unauthorized,
       Closed, AtCapture, Holding, Rows, Declined, Settled, PayPalStates
  <2>4. Knows(p, target[p])'
    BY <1>6, <1>0 DEF Release, Released, Knows, Starting, Finalizing, Reconciling, Passes
  <2>5. p \notin Requests => Reconciles(a)
    BY <1>6, <1>0 DEF Release, Released, Reconciles, Reconciling, Passes, RowOK, Unauthorized,
       Closed, Rows, Declined, Settled
  <2> QED
    BY <2>1, <2>2, <2>3, <2>4, <2>5
<1>7. CASE CapturedRead(p)
  <2>1. Frame({p}, a)
    BY <1>7, <1>0 DEF CapturedRead
  <2>2. /\ attempt' = attempt /\ contributions' = contributions
        /\ paypal'[a].cap = paypal[a].cap /\ paypal'[a].capReq = paypal[a].capReq
    BY <1>7, <1>0 DEF CapturedRead, PayPalStates
  <2>3. Moves(a) /\ RowOK(a)' /\ Reconciles(a)
    BY <2>2, <1>0 DEF Moves, RowOK, Reconciles, Declined, Closed
  <2>4. Knows(p, target[p])'
    BY <1>7, <1>0, <2>2 DEF CapturedRead, RowOK, Knows, Starting, Finalizing, Reconciling,
       Passes, Closed, AtCapture, Settled, Declined
  <2> QED
    BY <2>1, <2>3, <2>4
<1>8. CASE Fund(p)
  <2>1. Frame({p}, a)
    BY <1>8, <1>0 DEF Fund
  <2>2. Moves(a)
    BY <1>8, <1>0 DEF Fund, ClosedBy, FundRefused, Moves, RowOK, Reconciling, Finalizing,
       Passes, Closed, Declined, Settled, Rows
  <2>3. RowOK(a)'
    <3>1. CASE FundRefused(p)
      BY <1>8, <1>0, <3>1 DEF Fund, RowOK
    <3>2. CASE ~FundRefused(p)
      <4>1. /\ contributions' = contributions \cup {a} /\ paypal' = paypal
            /\ attempt'[a] = [attempt[a] EXCEPT !.status = "COMPLETED", !.cap = TRUE, !.units = 0]
            /\ attempt[a].status \in {"CAPTURE_PENDING", "RECONCILING"} /\ Settled(a)
        BY <1>8, <1>0, <3>2 DEF Fund, FundRefused, Finalizing, Reconciling, Passes, RowOK
      <4> QED
        BY <1>0, <4>1 DEF RowOK, Unauthorized, AtCapture, Holding, Rows, Settled
    <3> QED
      BY <3>1, <3>2
  <2>4. Knows(p, target[p])'
    BY <1>8, <1>0 DEF Fund, ClosedBy, FundRefused, Knows, Starting, Finalizing, Reconciling,
       Passes
  <2>5. p \notin Requests => Reconciles(a)
    BY <1>8, <1>0 DEF Fund, ClosedBy, FundRefused, Reconciles, Reconciling, Passes, RowOK,
       Unauthorized, Closed, Rows, Declined, Settled
  <2> QED
    BY <2>1, <2>2, <2>3, <2>4, <2>5
<1>9. QED
  BY <1>1, <1>2, <1>3, <1>4, <1>5, <1>6, <1>7, <1>8 DEF ReconcileStep

(* Control: a request runs only in its turn, a process holds the campaign    *)
(* row exactly between ReserveLock and ReserveWrite.                         *)
Locking == {"reserveReconcile", "reserveRefuse", "reserveGrant"}

Control(p) ==
    /\ p \in Requests => /\ Busy(p) \/ MayStart(p)
                         /\ target'[p] = RequestFor[p]
    /\ \/ lock' = lock /\ pc[p] \notin Locking /\ pc'[p] \notin Locking
       \/ p \in Requests /\ lock = None /\ lock' = p /\ pc'[p] \in Locking
       \/ p \in Requests /\ lock = p /\ lock' = None /\ pc'[p] \notin Locking

(* Money: only a grant adds to what is funded and promised together.         *)
Spends(p, a) ==
    \/ funded' + attempt'[a].units <= funded + attempt[a].units
    \/ /\ p \in Requests /\ pc[p] = "reserveGrant" /\ funded' = funded
       /\ attempt[a].units = 0 /\ attempt'[a].units = Units[a]

(* A grant is decided on the sums of the moment.                             *)
Decides(p) ==
    p \in Requests /\ pc'[p] = "reserveGrant" =>
        /\ UNCHANGED <<attempt, funded, target>>
        /\ Promised + Units[target[p]] <= Total

LEMMA SerialStep ==
    ASSUME SingleTab, IsFiniteSet(Attempts), Serial, IInv',
           NEW p \in Processes, NEW a \in Attempts, a = target[p],
           Local(p, a), p \notin Requests => Reconciles(a),
           Control(p), Spends(p, a), Decides(p)
    PROVE  Serial'
<1>1. /\ TypeOK /\ TypeOK' /\ RowOK(a) /\ RowOK(a)'
      /\ Frame({p}, a) /\ Moves(a) /\ Knows(p, target[p])'
  BY DEF Serial, IInv, Local
<1>2. ASSUME NEW q \in Requests \ {p}, p \in Requests, target[q] = target[p]
      PROVE  ~Busy(q)
  BY <1>1, <1>2 DEF Control, Serial, Homes, OneAtATime, MayStart, Busy
<1>3. ASSUME NEW q \in Processes
      PROVE  Knows(q, target[q])'
  <2>1. CASE q = p
    BY <1>1, <2>1
  <2>2. CASE q # p
    <3>1. q \in Processes \ {p}
      BY <2>2
    <3>2. q \in Requests /\ target[q] = a /\ Busy(q) => Reconciles(a)
      BY <1>2, <2>2
    <3> QED
      BY <1>1, <3>1, <3>2, KnowsStays
  <2> QED
    BY <2>1, <2>2
<1>4. ASSUME NEW b \in Attempts
      PROVE  RowOK(b)'
  <2>1. CASE b = a
    BY <1>1, <2>1
  <2>2. CASE b # a
    BY <1>1, <2>2 DEF Frame, Serial, RowOK
  <2> QED
    BY <2>1, <2>2
<1>5. Homes' /\ OneAtATime'
  <2>1. \A q \in Requests \ {p} : pc'[q] = pc[q] /\ target'[q] = target[q]
    BY <1>1 DEF Frame, Processes
  <2>2. Homes'
    BY <2>1 DEF Control, Serial, Homes
  <2>3. \A q \in Requests \ {p} : p \in Requests /\ RequestFor[q] = RequestFor[p] => ~Busy(q)
    BY <1>2 DEF Serial, Homes
  <2>4. OneAtATime'
    BY <2>1, <2>3 DEF Serial, OneAtATime, Busy
  <2> QED
    BY <2>2, <2>4
<1>6. LockHeld'
  <2>1. \A q \in Requests \ {p} : pc'[q] = pc[q]
    BY <1>1 DEF Frame, Processes
  <2> QED
    BY <2>1, ProcessAssumption DEF Control, Serial, LockHeld, Locking
<1>7. /\ Reserved \in Nat /\ Reserved' \in Nat /\ funded \in Nat /\ funded' \in Nat
      /\ Total \in Nat /\ Units \in [Attempts -> Nat]
      /\ attempt[a].units \in Nat /\ attempt'[a].units \in Nat
      /\ Reserved' = Reserved - attempt[a].units + attempt'[a].units
  BY <1>1, ReservedMoves, UnitsAssumption, TotalAssumption DEF TypeOK, Rows, Frame
<1>8. CASE funded' + attempt'[a].units <= funded + attempt[a].units
  <2>1. Promised' <= Promised
    BY <1>7, <1>8 DEF Promised
  <2>2. ReservationsFit'
    BY <1>7, <1>8 DEF Serial, ReservationsFit
  <2>3. ASSUME NEW q \in Requests, pc'[q] = "reserveGrant"
        PROVE  Promised' + Units[target'[q]] <= Total
    <3>1. Promised + Units[target'[q]] <= Total
      BY <1>1, <2>3 DEF Frame, Decides, Serial, Room, Processes
    <3>2. Units[target'[q]] \in Nat
      BY <1>1, <1>7 DEF TypeOK, Processes
    <3> QED
      BY <1>7, <2>1, <3>1, <3>2 DEF Promised
  <2> QED
    BY <1>3, <1>4, <1>5, <1>6, <2>2, <2>3 DEF Serial, Room
<1>9. CASE /\ p \in Requests /\ pc[p] = "reserveGrant" /\ funded' = funded
           /\ attempt[a].units = 0 /\ attempt'[a].units = Units[a]
  <2>1. Promised + Units[a] <= Total /\ Units[a] \in Nat
    BY <1>7, <1>9 DEF Serial, Room
  <2>2. ReservationsFit'
    BY <1>7, <1>9, <2>1 DEF ReservationsFit, Promised
  <2>3. lock = p /\ pc'[p] # "reserveGrant"
    BY <1>9, ProcessAssumption DEF Control, Serial, LockHeld, Locking
  <2>4. \A q \in Requests : pc'[q] # "reserveGrant"
    BY <1>1, <2>3 DEF Frame, Serial, LockHeld, Processes
  <2> QED
    BY <1>3, <1>4, <1>5, <1>6, <2>2, <2>4 DEF Serial, Room
<1> QED
  BY <1>8, <1>9 DEF Spends

LEMMA RequestControl ==
    ASSUME TypeOK, Homes, LockHeld, NEW r \in Requests, RequestStep(r)
    PROVE  Control(r)
<1>0. r \in Processes /\ target[r] = RequestFor[r] /\ Home(r) = RequestFor[r]
  BY DEF Homes, Home, Processes
<1> USE <1>0 DEF Control, Goto, Finish, Finished, Busy, Locking, TypeOK, LockHeld
<1>1. CASE StartCheck(r)
  <2>1. MayStart(r) /\ pc[r] = "ready"
    BY <1>1 DEF StartCheck, MayStart
  <2> QED
    BY <1>1, <2>1 DEF StartCheck
<1>2. CASE StartAttempt(r)
  BY <1>2 DEF StartAttempt
<1>3. CASE StartOrder(r)
  BY <1>3 DEF StartOrder
<1>4. CASE StartSave(r)
  BY <1>4 DEF StartSave
<1>5. CASE ReturnRead(r)
  <2>1. MayStart(r) /\ pc[r] = "ready"
    BY <1>5 DEF ReturnRead, MayStart
  <2> QED
    BY <1>5, <2>1 DEF ReturnRead
<1>6. CASE ReturnReadUnordered(r)
  <2>1. MayStart(r) /\ pc[r] = "ready"
    BY <1>6 DEF ReturnReadUnordered, MayStart
  <2> QED
    BY <1>6, <2>1 DEF ReturnReadUnordered
<1>7. CASE ReturnOrder(r)
  BY <1>7 DEF ReturnOrder
<1>8. CASE ReturnSave(r)
  BY <1>8 DEF ReturnSave
<1>9. CASE FinalizeRead(r)
  <2>1. MayStart(r) /\ pc[r] = "ready"
    BY <1>9 DEF FinalizeRead, MayStart
  <2> QED
    BY <1>9, <2>1 DEF FinalizeRead
<1>10. CASE FinalizeOrder(r)
  BY <1>10 DEF FinalizeOrder
<1>11. CASE AuthorizeId(r)
  BY <1>11 DEF AuthorizeId
<1>12. CASE Authorize(r)
  BY <1>12 DEF Authorize
<1>13. CASE AuthorizeSave(r)
  BY <1>13 DEF AuthorizeSave
<1>14. CASE ReserveLock(r)
  BY <1>14 DEF ReserveLock
<1>15. CASE ReserveWrite(r)
  BY <1>15 DEF ReserveWrite
<1>16. CASE Dispatch(r)
  BY <1>16 DEF Dispatch
<1>17. CASE CaptureId(r)
  BY <1>17 DEF CaptureId
<1>18. CASE Capture(r)
  BY <1>18 DEF Capture, Unanswered
<1>19. CASE CaptureSave(r)
  BY <1>19 DEF CaptureSave
<1>20. CASE VoidId(r)
  BY <1>20 DEF VoidId
<1>21. CASE VoidRetry(r)
  BY <1>21 DEF VoidRetry
<1> QED
  BY <1>1, <1>2, <1>3, <1>4, <1>5, <1>6, <1>7, <1>8, <1>9, <1>10, <1>11, <1>12, <1>13, <1>14,
     <1>15, <1>16, <1>17, <1>18, <1>19, <1>20, <1>21 DEF RequestStep

LEMMA ReconcileControl ==
    ASSUME TypeOK, Homes, LockHeld, NEW p \in Processes, ReconcileStep(p)
    PROVE  Control(p)
<1>0. p \in Requests => target[p] = RequestFor[p] /\ Home(p) = RequestFor[p]
  BY DEF Homes, Home
<1> USE <1>0 DEF Control, Goto, Finish, Finished, Busy, Locking, TypeOK
<1>1. CASE Reconcile(p)
  BY <1>1 DEF Reconcile
<1>2. CASE RecAuthorization(p)
  BY <1>2 DEF RecAuthorization
<1>3. CASE RecCapture(p)
  BY <1>3 DEF RecCapture
<1>4. CASE RecOrder(p)
  BY <1>4 DEF RecOrder
<1>5. CASE Void(p)
  BY <1>5 DEF Void
<1>6. CASE Release(p)
  BY <1>6 DEF Release
<1>7. CASE CapturedRead(p)
  BY <1>7 DEF CapturedRead
<1>8. CASE Fund(p)
  BY <1>8 DEF Fund
<1> QED
  BY <1>1, <1>2, <1>3, <1>4, <1>5, <1>6, <1>7, <1>8 DEF ReconcileStep

LEMMA RequestSpends ==
    ASSUME IsFiniteSet(Attempts), Serial, TypeOK', NEW r \in Requests, NEW a \in Attempts,
           a = target[r], RequestStep(r)
    PROVE  Spends(r, a) /\ Decides(r)
<1>0. /\ r \in Processes /\ TypeOK /\ RowOK(a) /\ Finalizing(r, a) /\ attempt[a] \in Rows
      /\ funded \in Nat /\ attempt[a].units \in Nat /\ funded' = funded
      /\ pc[r] # "reserveReconcile" /\ Promised \in Nat /\ Units[a] \in Nat /\ Total \in Nat
  BY RequestMoney, ReservedType, UnitsAssumption, TotalAssumption
  DEF Serial, IInv, TypeOK, Processes, Knows, Finalizing, Rows, Promised
<1>1. CASE ReserveLock(r)
  BY <1>0, <1>1 DEF ReserveLock, Spends, Decides, Goto, TypeOK, table
<1>2. CASE ReserveWrite(r)
  <2>1. Decides(r)
    BY <1>0, <1>2 DEF ReserveWrite, Decides, Goto, TypeOK
  <2>2. CASE pc[r] = "reserveGrant"
    <3>1. attempt[a].units = 0
      BY <1>0, <2>2 DEF Finalizing, RowOK, Holding
    <3>2. attempt'[a].units = Units[a]
      BY <1>0, <1>2, <2>2 DEF ReserveWrite, TypeOK, Rows
    <3> QED
      BY <1>0, <2>1, <2>2, <3>1, <3>2 DEF Spends
  <2>3. CASE pc[r] = "reserveRefuse"
    <3>1. attempt'[a].units = attempt[a].units
      BY <1>0, <1>2, <2>3 DEF ReserveWrite, TypeOK, Rows
    <3> QED
      BY <1>0, <2>1, <3>1 DEF Spends
  <2> QED
    BY <1>0, <1>2, <2>2, <2>3 DEF ReserveWrite
<1>3. CASE ~ReserveLock(r) /\ ~ReserveWrite(r)
  <2>1. attempt'[a].units = attempt[a].units
    BY <1>0, <1>3
    DEF RequestStep, TypeOK, Rows, SetStatus, table, StartCheck, StartAttempt, StartOrder,
        StartSave,
        ReturnRead, ReturnReadUnordered, ReturnOrder, ReturnSave, FinalizeRead, FinalizeOrder,
        AuthorizeId, Authorize, AuthorizeSave, Dispatch, CaptureId, Capture, CaptureSave,
        VoidId, VoidRetry
  <2>2. pc'[r] # "reserveGrant"
    BY <1>0, <1>3
    DEF RequestStep, TypeOK, Goto, Finish, Finished, Unanswered, StartCheck, StartAttempt,
        StartOrder, StartSave, ReturnRead, ReturnReadUnordered, ReturnOrder, ReturnSave,
        FinalizeRead, FinalizeOrder, AuthorizeId, Authorize, AuthorizeSave, Dispatch, CaptureId,
        Capture, CaptureSave, VoidId, VoidRetry
  <2> QED
    BY <1>0, <2>1, <2>2 DEF Spends, Decides
<1> QED
  BY <1>1, <1>2, <1>3

LEMMA ReconcileSpends ==
    ASSUME Serial, TypeOK', NEW p \in Processes, NEW a \in Attempts, a = target[p],
           ReconcileStep(p)
    PROVE  Spends(p, a) /\ Decides(p)
<1>0. /\ TypeOK /\ RowOK(a) /\ Reconciling(p, a) /\ attempt[a] \in Rows
      /\ p \in Requests => Finalizing(p, a)
      /\ p \notin Requests => pc[p] \in Passes
      /\ funded \in Nat /\ attempt[a].units \in Nat /\ Units[a] \in Nat
  BY UnitsAssumption DEF Serial, IInv, TypeOK, Knows, Rows
<1>1. pc'[p] # "reserveGrant"
  BY <1>0 DEF TypeOK, Goto, Finish, Finished, ReconcileStep, Reconcile, RecAuthorization,
              RecCapture, RecOrder, Void, Release, CapturedRead, Fund
<1>2. CASE Release(p)
  <2>1. attempt'[a].units = 0 /\ funded' = funded
    BY <1>0, <1>2 DEF Release, Released, TypeOK, Rows
  <2> QED
    BY <1>0, <1>1, <2>1 DEF Spends, Decides
<1>3. CASE Fund(p)
  <2>1. CASE FundRefused(p)
    BY <1>0, <1>1, <1>3, <2>1 DEF Fund, Spends, Decides, table
  <2>2. CASE ~FundRefused(p)
    <3>1. attempt'[a].units = 0 /\ funded' = funded + Units[a]
      <4>1. /\ funded' = funded + Units[a]
            /\ attempt' = [attempt EXCEPT ![a].status = "COMPLETED", ![a].cap = TRUE,
                                          ![a].units = 0]
        BY <1>3, <2>2 DEF Fund
      <4> QED
        BY <1>0, <4>1 DEF TypeOK, Rows
    <3>2. attempt[a].units = Units[a]
      BY <1>0, <1>3, <2>2 DEF Fund, FundRefused, Finalizing, Reconciling, Passes, RowOK, Holding
    <3> QED
      BY <1>0, <1>1, <3>1, <3>2 DEF Spends, Decides
  <2> QED
    BY <2>1, <2>2
<1>4. CASE UNCHANGED <<attempt, funded>>
  BY <1>0, <1>1, <1>4 DEF Spends, Decides
<1> QED
  BY <1>2, <1>3, <1>4
  DEF ReconcileStep, table, Reconcile, RecAuthorization, RecCapture, RecOrder, Void,
      CapturedRead

(* Steps outside the processes: PayPal, the artwork, and stuttering.         *)
LEMMA SerialRest ==
    ASSUME IsFiniteSet(Attempts), Serial, IInv', NEW a \in Attempts,
           UNCHANGED <<attempt, contributions, funded, lock, pc, target, snap>>,
           Frame({}, a), Moves(a), Reconciles(a), RowOK(a)'
    PROVE  Serial'
<1>1. ASSUME NEW q \in Processes
      PROVE  Knows(q, target[q])'
  <2>1. TypeOK' /\ q \in Processes \ {}
    BY DEF IInv
  <2> QED
    BY <2>1, KnowsStays
<1>2. ASSUME NEW b \in Attempts
      PROVE  RowOK(b)'
  BY DEF Frame, Serial, RowOK
<1>3. Homes' /\ OneAtATime' /\ LockHeld'
  BY DEF Serial, Homes, OneAtATime, LockHeld, Busy
<1>4. Reserved' = Reserved /\ funded' = funded
  BY ReservedMoves, <1>2 DEF Serial, IInv, TypeOK, Rows
<1>5. Promised' = Promised
  BY <1>4 DEF Promised
<1>6. ReservationsFit' /\ Room'
  BY <1>4, <1>5 DEF Serial, ReservationsFit, Room
<1> QED
  BY <1>1, <1>2, <1>3, <1>6 DEF Serial

LEMMA OutsideSerial ==
    ASSUME IsFiniteSet(Attempts), Serial, IInv', NEW b \in Attempts, Outside(b)
    PROVE  Serial'
<1>1. /\ UNCHANGED <<attempt, contributions, funded, lock, pc, target, snap>>
      /\ paypal \in [Attempts -> PayPalStates] /\ TypeOK
  BY DEF Outside, PlayerApproves, AuthorizationExpires, CaptureSettles, table, Serial, IInv,
     TypeOK
<1>2. Frame({}, b)
  BY <1>1 DEF Outside, PlayerApproves, AuthorizationExpires, CaptureSettles, Frame
<1>3. /\ paypal'[b].capReq = paypal[b].capReq
      /\ \/ paypal'[b].cap = paypal[b].cap
         \/ paypal[b].cap = "PENDING" /\ paypal'[b].cap \in {"COMPLETED", "DECLINED"}
  <2>1. CASE PlayerApproves(b)
    BY <1>1, <2>1 DEF PlayerApproves, PayPalStates
  <2>2. CASE AuthorizationExpires(b)
    BY <1>1, <2>2 DEF AuthorizationExpires, PayPalStates
  <2>3. CASE CaptureSettles(b)
    <3>1. PICK c \in {"COMPLETED", "DECLINED"} : paypal' = [paypal EXCEPT ![b].cap = c]
      BY <2>3 DEF CaptureSettles
    <3> QED
      BY <1>1, <2>3, <3>1 DEF CaptureSettles, PayPalStates
  <2> QED
    BY <2>1, <2>2, <2>3 DEF Outside
<1>4. Moves(b) /\ Reconciles(b) /\ RowOK(b)'
  BY <1>1, <1>3 DEF Moves, Reconciles, RowOK, Declined, Closed, AtCapture, Serial
<1> QED
  BY <1>1, <1>2, <1>4, SerialRest

LEMMA InitSerial ==
    ASSUME IsFiniteSet(Attempts), Init
    PROVE  Serial
<1>1. IInv
  BY InitInvariant
<1>2. Homes
  BY DEF Init, Homes, Home, Processes
<1>3. OneAtATime /\ LockHeld
  BY ProcessAssumption DEF Init, OneAtATime, LockHeld, Busy, Processes
<1>4. \A a \in Attempts : RowOK(a)
  BY DEF Init, RowOK, NoRow, Unauthorized, Holding, Closed
<1>5. \A p \in Processes : Knows(p, target[p])
  BY DEF Init, Knows, Starting, Finalizing, Reconciling, Passes
<1>6. Reserved = 0
  <2>1. {a \in Attempts : attempt[a].status \in Holding} = {}
    BY DEF Init, NoRow, Holding
  <2>2. Reserved = Sum([a \in Attempts |-> attempt[a].units],
                       {a \in Attempts : attempt[a].status \in Holding})
    BY DEF Reserved, Sum
  <2> QED
    BY <2>1, <2>2, SumEmpty
<1>7. ReservationsFit
  BY <1>6, TotalAssumption DEF Init, ReservationsFit
<1>8. Room
  BY DEF Init, Room, Processes
<1> QED
  BY <1>1, <1>2, <1>3, <1>4, <1>5, <1>7, <1>8 DEF Serial

LEMMA NextSerial ==
    ASSUME SingleTab, IsFiniteSet(Attempts), Serial, [Next]_vars
    PROVE  Serial'
<1>0. /\ IInv /\ IInv' /\ TypeOK /\ TypeOK' /\ Homes /\ LockHeld
      /\ \A p \in Processes : target[p] \in Attempts
  <2>1. IInv /\ IInv'
    BY NextInvariant DEF Serial
  <2> QED
    BY <2>1 DEF Serial, IInv, TypeOK
<1>1. ASSUME NEW p \in Processes, ProcessStep(p)
      PROVE  Serial'
  <2>0. PICK a \in Attempts : a = target[p]
    BY <1>0
  <2>1. CASE p \in Requests /\ RequestStep(p)
    <3>1. Local(p, a)
      BY <1>0, <2>0, <2>1, RequestLocal
    <3>2. Spends(p, a) /\ Decides(p)
      BY <1>0, <2>0, <2>1, RequestSpends
    <3>3. Control(p)
      BY <1>0, <2>1, RequestControl
    <3> QED
      BY <1>0, <2>0, <2>1, <3>1, <3>2, <3>3, SerialStep
  <2>2. CASE ReconcileStep(p)
    <3>1. Local(p, a) /\ (p \notin Requests => Reconciles(a))
      BY <1>0, <2>0, <2>2, ReconcileLocal
    <3>2. Spends(p, a) /\ Decides(p)
      BY <1>0, <2>0, <2>2, ReconcileSpends
    <3>3. Control(p)
      BY <1>0, <2>2, ReconcileControl
    <3> QED
      BY <1>0, <2>0, <3>1, <3>2, <3>3, SerialStep
  <2>3. CASE \E b \in Attempts : CronPicks(p, b) \/ WebhookPicks(p, b)
    <3>1. PICK b \in Attempts : Picks(p, b)
      BY <2>3 DEF CronPicks, WebhookPicks
    <3>2. p \notin Requests
      BY <3>1, ProcessAssumption DEF Picks
    <3>3. UNCHANGED <<table, lock, paypal>>
      BY <3>1 DEF Picks
    <3>4. Moves(a) /\ Reconciles(a) /\ RowOK(a)'
      BY <2>0, <3>3 DEF Moves, Reconciles, RowOK, Declined, table, Serial
    <3>5. Frame({p}, a)
      BY <1>0, <3>1 DEF Picks, Frame, table, TypeOK
    <3>6. Knows(p, target[p])'
      BY <1>0, <3>1, <3>2 DEF Picks, Knows, Reconciling, Passes, TypeOK
    <3>7. Spends(p, a)
      BY <1>0, <2>0, <3>3 DEF Spends, table, TypeOK, Rows
    <3>8. Control(p) /\ Decides(p)
      BY <1>0, <3>1, <3>2 DEF Picks, Control, Decides, Locking, TypeOK
    <3> QED
      BY <1>0, <2>0, <3>4, <3>5, <3>6, <3>7, <3>8, SerialStep DEF Local
  <2> QED
    BY <1>1, <2>1, <2>2, <2>3 DEF ProcessStep
<1>2. ASSUME NEW p \in Processes, ProviderDown(p) \/ Crash(p)
      PROVE  Serial'
  <2>0. PICK a \in Attempts : a = target[p]
    BY <1>0
  <2>1. UNCHANGED <<table, paypal>> /\ Finish(p)
    BY <1>2 DEF ProviderDown, Crash
  <2>2. Moves(a) /\ Reconciles(a) /\ RowOK(a)'
    BY <2>0, <2>1 DEF Moves, Reconciles, RowOK, Declined, table, Serial
  <2>3. Frame({p}, a)
    BY <1>0, <2>1 DEF Finish, Forget, Frame, table, TypeOK
  <2>4. pc'[p] = Finished(p)
    BY <1>0, <2>1 DEF Finish, TypeOK
  <2>5. Knows(p, target[p])'
    BY <2>4 DEF Finished, Knows, Starting, Finalizing, Reconciling, Passes
  <2>6. Spends(p, a)
    BY <1>0, <2>0, <2>1 DEF Spends, table, TypeOK, Rows
  <2>7. Decides(p)
    BY <2>4 DEF Finished, Decides
  <2>8. Busy(p)
    BY <1>2 DEF ProviderDown, Crash, Busy
  <2>9. p \in Requests => target'[p] = RequestFor[p]
    BY <1>0, <2>1 DEF Finish, Home, TypeOK
  <2>10. Control(p)
    <3>1. CASE ProviderDown(p)
      BY <2>4, <2>8, <2>9, <3>1 DEF ProviderDown, Control, Finished, Locking
    <3>2. CASE Crash(p)
      <4>1. lock = p => p \in Requests
        BY <1>0, ProcessAssumption DEF TypeOK, Processes
      <4>2. p \in Requests => (lock = p <=> pc[p] \in Locking)
        BY <1>0 DEF LockHeld, Locking
      <4>3. p \notin Requests => pc[p] \notin Locking
        BY DEF Serial, Knows, Passes, Locking
      <4> QED
        BY <2>4, <2>8, <2>9, <3>2, <4>1, <4>2, <4>3 DEF Crash, Control, Finished, Locking
    <3> QED
      BY <1>2, <3>1, <3>2
  <2> QED
    BY <1>0, <2>0, <2>2, <2>3, <2>5, <2>6, <2>7, <2>10, SerialStep DEF Local
<1>3. ASSUME NEW b \in Attempts, Outside(b)
      PROVE  Serial'
  BY <1>0, <1>3, OutsideSerial
<1>4. CASE CompleteArtwork \/ UNCHANGED vars
  <2>1. UNCHANGED <<attempt, contributions, funded, lock, paypal, pc, target, snap>>
    BY <1>4 DEF CompleteArtwork, vars
  <2>2. PICK b \in Attempts : TRUE
    BY AttemptsAssumption
  <2>3. Frame({}, b) /\ Moves(b) /\ Reconciles(b) /\ RowOK(b)'
    BY <2>1 DEF Frame, Moves, Reconciles, RowOK, Declined, Serial
  <2> QED
    BY <1>0, <2>1, <2>3, SerialRest
<1> QED
  BY <1>1, <1>2, <1>3, <1>4 DEF Next

LEMMA SerialInvariance == SingleTab /\ IsFiniteSet(Attempts) => (Spec => []Serial)
<1>1. ASSUME SingleTab, IsFiniteSet(Attempts)
      PROVE  Spec => []Serial
  <2>1. Init => Serial
    BY <1>1, InitSerial
  <2>2. Serial /\ [Next]_vars => Serial'
    BY <1>1, NextSerial
  <2> QED
    BY <2>1, <2>2, PTL DEF Spec
<1> QED
  BY <1>1

-----------------------------------------------------------------------------
(* Theorems for one tab *)

(* Money that PayPal has captured is never orphaned: until finalization or   *)
(* reconciliation makes the contribution, the attempt keeps all its units in *)
(* a status both still work on, through crashes, lost answers and workers    *)
(* that act on what they read long ago.                                      *)
THEOREM CapturedStaysHeld ==
    SingleTab /\ IsFiniteSet(Attempts) => (Spec => []CapturedHoldsItsUnits)
<1>1. Serial => CapturedHoldsItsUnits
  BY DEF Serial, RowOK, CapturedHoldsItsUnits, AtCapture, Holding
<1>2. QED
  BY <1>1, SerialInvariance, PTL

(* reserveAttempt never promises more than is left, although the statuses it *)
(* sums over are written outside the campaign lock and its own outcome is    *)
(* written by a later statement.                                             *)
THEOREM ReservationsAlwaysFit ==
    SingleTab /\ IsFiniteSet(Attempts) => (Spec => []ReservationsFit)
<1>1. Serial => ReservationsFit
  BY DEF Serial
<1>2. QED
  BY <1>1, SerialInvariance, PTL

(* Nobody who is told FAILED was charged: releaseReservation writes without  *)
(* looking, but no capture can succeed before, between or after.             *)
THEOREM FailedNotCharged ==
    SingleTab /\ IsFiniteSet(Attempts) => (Spec => []FailedIsNotCharged)
<1>1. Serial => FailedIsNotCharged
  BY DEF Serial, RowOK, FailedIsNotCharged, AtCapture
<1>2. QED
  BY <1>1, SerialInvariance, PTL

(* Nobody who is told CANCELLED was charged, if the player uses one tab: the *)
(* stale cancellation needs a second request for the attempt.                *)
THEOREM CancelledNotCharged ==
    SingleTab /\ IsFiniteSet(Attempts) => (Spec => []CancelledIsNotCharged)
<1>1. Serial => CancelledIsNotCharged
  BY DEF Serial, RowOK, CancelledIsNotCharged, AtCapture
<1>2. QED
  BY <1>1, SerialInvariance, PTL

(* No step of a request, a worker or a crash takes COMPLETED back.           *)
THEOREM CompletedStays ==
    SingleTab /\ IsFiniteSet(Attempts) => (Spec => CompletedIsFinal)
<1>1. [Next]_vars => contributions \subseteq contributions'
  <2> SUFFICES ASSUME [Next]_vars
               PROVE  contributions \subseteq contributions'
    OBVIOUS
  <2>1. ASSUME NEW p \in Processes, ProcessStep(p)
        PROVE  contributions \subseteq contributions'
    BY <2>1, RequestMoney, ReconcileMoney
    DEF ProcessStep, CronPicks, WebhookPicks, Picks, Fund, table
  <2>2. ASSUME NEW p \in Processes, ProviderDown(p) \/ Crash(p)
        PROVE  contributions \subseteq contributions'
    BY <2>2 DEF ProviderDown, Crash, table
  <2>3. ASSUME NEW b \in Attempts, Outside(b)
        PROVE  contributions \subseteq contributions'
    BY <2>3 DEF Outside, PlayerApproves, AuthorizationExpires, CaptureSettles, table
  <2>4. CASE CompleteArtwork \/ UNCHANGED vars
    BY <2>4 DEF CompleteArtwork, vars
  <2>5. QED
    BY <2>1, <2>2, <2>3, <2>4 DEF Next
<1>2. Serial /\ Serial' /\ [Next]_vars =>
        [\A a \in Attempts :
           attempt[a].status = "COMPLETED" => attempt'[a].status = "COMPLETED"]_vars
  BY <1>1 DEF Serial, RowOK
<1>3. QED
  BY <1>2, SerialInvariance, PTL DEF Spec, CompletedIsFinal

(* A process about to make a contribution read a row that holds its units.   *)
FundersReadUnits ==
    \A p \in Processes : pc[p] \in {"fund", "recFund"} => snap[p].units = Units[target[p]]

(* finalizeCapturedAttempt refuses only what is a contribution already: for  *)
(* captured money the full reservation it looks for is there, and the        *)
(* campaign has room, however long ago the row was read.                     *)
CapturedIsNotRefused ==
    \A p \in Processes :
        pc[p] \in {"fund", "recFund"} /\ FundRefused(p) => target[p] \in contributions

LEMMA NextFundersRead ==
    ASSUME Serial, FundersReadUnits, [Next]_vars
    PROVE  FundersReadUnits'
<1>0. TypeOK /\ \A p \in Processes : target[p] \in Attempts
  BY DEF Serial, IInv, TypeOK
<1> USE DEF FundersReadUnits, TypeOK
<1>1. ASSUME NEW p \in Processes, CapturedRead(p)
      PROVE  FundersReadUnits'
  <2>1. target[p] \notin contributions => attempt[target[p]].units = Units[target[p]]
    BY <1>0, <1>1 DEF CapturedRead, Serial, IInv, FundersSawCapture, Settled, RowOK, AtCapture,
       Holding
  <2>2. QED
    BY <1>0, <1>1, <2>1 DEF CapturedRead, Finish, Finished, Goto, Forget, Read
<1>2. ASSUME NEW p \in Processes, ReconcileStep(p), ~CapturedRead(p)
      PROVE  FundersReadUnits'
  BY <1>0, <1>2 DEF ReconcileStep, Reconcile, RecAuthorization, RecCapture, RecOrder, Void,
     Release,
                    Fund, Goto, Finish, Finished, Forget, Read
<1>3. ASSUME NEW r \in Requests, RequestStep(r)
      PROVE  FundersReadUnits'
  <2>0. r \in Processes
    BY DEF Processes
  <2>1. /\ \A q \in Processes \ {r} : pc'[q] = pc[q] /\ target'[q] = target[q] /\ snap'[q] = snap[q]
        /\ pc'[r] \notin {"fund", "recFund"}
    BY <1>0, <1>3, <2>0
    DEF RequestStep, Goto, Finish, Finished, Forget, Read, Unanswered, StartCheck, StartAttempt,
        StartOrder, StartSave, ReturnRead, ReturnReadUnordered, ReturnOrder, ReturnSave,
        FinalizeRead, FinalizeOrder, AuthorizeId, Authorize, AuthorizeSave, ReserveLock,
        ReserveWrite, Dispatch, CaptureId, Capture, CaptureSave, VoidId, VoidRetry
  <2>2. QED
    BY <2>0, <2>1
<1>4. ASSUME NEW p \in Processes, ProviderDown(p) \/ Crash(p)
      PROVE  FundersReadUnits'
  BY <1>0, <1>4 DEF ProviderDown, Crash, Finish, Finished, Forget
<1>5. ASSUME NEW p \in Processes, NEW b \in Attempts, Picks(p, b)
      PROVE  FundersReadUnits'
  BY <1>0, <1>5 DEF Picks
<1>6. ASSUME UNCHANGED <<pc, target, snap>>
      PROVE  FundersReadUnits'
  BY <1>6
<1>7. QED
  BY <1>1, <1>2, <1>3, <1>4, <1>5, <1>6
  DEF Next, ProcessStep, CronPicks, WebhookPicks, CompleteArtwork, Outside, PlayerApproves,
      AuthorizationExpires, CaptureSettles, vars

(* Once PayPal has captured the money, no reader of the capture is turned    *)
(* away: what finalizeCapturedAttempt refuses is already a contribution.     *)
THEOREM CapturedNeverRefused ==
    SingleTab /\ IsFiniteSet(Attempts) => (Spec => []CapturedIsNotRefused)
<1>1. ASSUME IsFiniteSet(Attempts), Serial, FundersReadUnits
      PROVE  CapturedIsNotRefused
  <2> SUFFICES ASSUME NEW p \in Processes, pc[p] \in {"fund", "recFund"}, FundRefused(p),
                      NEW a \in Attempts, a = target[p], a \notin contributions
               PROVE  FALSE
    BY <1>1 DEF CapturedIsNotRefused, Serial, IInv, TypeOK
  <2> DEFINE f == [b \in Attempts |-> attempt[b].units]
             S == {b \in Attempts : attempt[b].status \in Holding}
  <2>1. a \in S /\ f[a] = Units[a] /\ snap[p].units = Units[a]
    BY <1>1 DEF Serial, IInv, FundersSawCapture, Settled, RowOK, AtCapture, Holding,
       FundersReadUnits
  <2>2. /\ IsFiniteSet(S) /\ (\A b \in S : f[b] \in Nat)
        /\ funded \in Nat /\ Units[a] \in Nat /\ Total \in Nat
    BY <1>1, FS_Subset, UnitsAssumption, TotalAssumption DEF Serial, IInv, TypeOK, Rows
  <2>3. Reserved = Sum(f, S)
    BY DEF Reserved, Sum
  <2> HIDE DEF f, S
  <2>4. Sum(f, S) = f[a] + Sum(f, S \ {a})
    BY <2>1, <2>2, SumRemove
  <2>5. Sum(f, S \ {a}) \in Nat
    <3>1. IsFiniteSet(S \ {a})
      BY <2>2, FS_Subset
    <3>2. QED
      BY <2>2, <3>1, SumType
  <2>6. funded + Units[a] <= Total
    BY <1>1, <2>1, <2>2, <2>3, <2>4, <2>5 DEF Serial, ReservationsFit
  <2>7. QED
    BY <2>1, <2>2, <2>6 DEF FundRefused
<1>2. ASSUME SingleTab, IsFiniteSet(Attempts)
      PROVE  Spec => []CapturedIsNotRefused
  <2>1. Init => FundersReadUnits
    BY DEF Init, FundersReadUnits
  <2>2. Serial /\ FundersReadUnits /\ [Next]_vars => FundersReadUnits'
    BY NextFundersRead
  <2>3. Serial /\ FundersReadUnits => CapturedIsNotRefused
    BY <1>1, <1>2
  <2>4. Spec => []Serial
    BY <1>2, SerialInvariance
  <2>5. QED
    BY <2>1, <2>2, <2>3, <2>4, PTL DEF Spec
<1>3. QED
  BY <1>2
=============================================================================
