----------------------------- MODULE ArtWebhook -----------------------------
(* The inbox of PayPal's events, in front of the reconciliation.             *)
(*                                                                           *)
(* PayPal delivers an event about an order, an authorization or a capture at *)
(* least once, at any time after it happened.  The route stores the event    *)
(* under its unique id, finds the attempt whose row names the resource, has  *)
(* the attempt reconciled, and writes what came of it; a scheduled route     *)
(* replays the events that failed.  The worker that serves an event takes    *)
(* the steps of ArtPayments in between: its handler here is `mail`.          *)
EXTENDS ArtPayments

CONSTANTS
    Events,         \* rows of ArtPaymentProviderEvent, by providerEventId
    About           \* About[e]: the attempt and the resource of event e

Resources == {"order", "auth", "cap"}

ASSUME EventsAssumption == About \in [Events -> [attempt: Attempts, resource: Resources]]
ASSUME NoEventAssumption == None \notin Events

VARIABLES
    inbox,          \* processingStatus of each event
    mail            \* the event each worker serves, and how far it is

inboxVars == <<inbox, mail>>

Stages == {"idle", "received", "replayed", "running", "returned", "ignored", "threw"}

NoMail == [event |-> None, stage |-> "idle"]

InboxInit ==
    /\ Init
    /\ inbox = [e \in Events |-> "NONE"]
    /\ mail = [w \in Workers |-> NoMail]

-----------------------------------------------------------------------------
(* PayPal has something to tell.                                             *)
Happened(e) ==
    LET p == paypal[About[e].attempt] IN
    CASE About[e].resource = "order" -> p.order \in {"APPROVED", "COMPLETED"}
      [] About[e].resource = "auth"  -> p.auth # "NONE"
      [] About[e].resource = "cap"   -> p.cap = "COMPLETED"

(* resolveAttempt: the attempt's row carries the resource's id.              *)
Named(e) == attempt[About[e].attempt][About[e].resource]

Serve(w, e, stage) == mail' = [mail EXCEPT ![w] = [event |-> e, stage |-> stage]]

Free(w) == pc[w] = "ready" /\ mail[w] = NoMail

(* processVerifiedArtPaymentWebhook: a new event is stored; one that was     *)
(* processed or ignored is answered at once, and nothing happens.            *)
Receive(w, e) ==
    /\ Free(w)
    /\ Happened(e)
    /\ inbox[e] \in {"NONE", "RECEIVED", "FAILED"}
    /\ inbox' = [inbox EXCEPT ![e] = IF @ = "NONE" THEN "RECEIVED" ELSE @]
    /\ Serve(w, e, "received")
    /\ UNCHANGED vars

ReplayableFault == {"RECEIVED"}

Replayable == {"FAILED"}

(* replayFailedArtPaymentProviderEvent, for one of the selected events.      *)
Replay(w, e) ==
    /\ Free(w)
    /\ inbox[e] \in Replayable
    /\ Serve(w, e, "replayed")
    /\ UNCHANGED <<vars, inbox>>

(* processArtProviderEvent: the attempt is looked up, and reconciled.        *)
Resolve(w) ==
    LET e == mail[w].event IN
    /\ mail[w].stage \in {"received", "replayed"}
    /\ Named(e)
    /\ Picks(w, About[e].attempt)
    /\ Serve(w, e, "running")
    /\ UNCHANGED inbox

(* No row names the resource: a delivery is ignored for ever, a replay       *)
(* leaves the event as it is.                                                *)
Unresolved(w) ==
    /\ mail[w].stage \in {"received", "replayed"}
    /\ ~Named(mail[w].event)
    /\ mail' = [mail EXCEPT ![w] = IF @.stage = "received" THEN [@ EXCEPT !.stage = "ignored"]
                                                            ELSE NoMail]
    /\ UNCHANGED <<vars, inbox>>

(* A reconciliation that stops at this step did not return: its contribution *)
(* was refused, or its void failed.                                          *)
Throws(w) == pc[w] = "recVoid" \/ (pc[w] = "recFund" /\ FundRefused(w))

(* The next step of the reconciliation a worker runs, for an event or not.   *)
Works(w) ==
    /\ ReconcileStep(w)
    /\ IF mail[w].stage = "running" /\ pc'[w] = "ready"
       THEN mail' = [mail EXCEPT ![w].stage = IF Throws(w) THEN "threw" ELSE "returned"]
       ELSE UNCHANGED mail
    /\ UNCHANGED inbox

(* A lookup fails in the middle of it.                                       *)
WorkFails(w) ==
    /\ ProviderDown(w)
    /\ mail' = [mail EXCEPT ![w].stage = IF @ = "running" THEN "threw" ELSE @]
    /\ UNCHANGED inbox

OutcomeFault(stage) == IF stage = "ignored" THEN "IGNORED" ELSE "PROCESSED"

Outcome(stage) ==
    CASE stage = "returned" -> "PROCESSED"
      [] stage = "ignored"  -> "IGNORED"
      [] stage = "threw"    -> "FAILED"

(* What came of it is written; when that fails, the failure is.              *)
Conclude(w) ==
    /\ mail[w].stage \in {"returned", "ignored", "threw"}
    /\ \E status \in {Outcome(mail[w].stage), "FAILED"} :
          inbox' = [inbox EXCEPT ![mail[w].event] = status]
    /\ mail' = [mail EXCEPT ![w] = NoMail]
    /\ UNCHANGED vars

(* The process dies: the event keeps the status it has.                      *)
DiesAtWork(w) ==
    /\ Crash(w)
    /\ mail' = [mail EXCEPT ![w] = NoMail]
    /\ UNCHANGED inbox

DiesBetween(w) ==
    /\ pc[w] = "ready"
    /\ mail[w] # NoMail
    /\ mail' = [mail EXCEPT ![w] = NoMail]
    /\ UNCHANGED <<vars, inbox>>

Cron(w, a) ==
    /\ Free(w)
    /\ CronPicks(w, a)
    /\ UNCHANGED inboxVars

-----------------------------------------------------------------------------
Mailing(w) ==
    \/ \E e \in Events : Receive(w, e) \/ Replay(w, e)
    \/ Resolve(w) \/ Unresolved(w) \/ Conclude(w)

InboxNext ==
    \/ \E w \in Workers :
          \/ Mailing(w) \/ Works(w) \/ WorkFails(w) \/ DiesAtWork(w) \/ DiesBetween(w)
          \/ \E a \in Attempts : Cron(w, a)
    \/ /\ \/ \E r \in Requests : RequestStep(r) \/ ReconcileStep(r) \/ ProviderDown(r) \/ Crash(r)
          \/ CompleteArtwork
          \/ \E a \in Attempts : Outside(a)
       /\ UNCHANGED inboxVars

InboxSpec == InboxInit /\ [][InboxNext]_<<vars, inboxVars>>

(* The replay route comes again and again for every event that failed, and   *)
(* a handler that is not killed goes on.                                     *)
InboxFairness ==
    /\ \A w \in Workers : WF_<<vars, inboxVars>>(Resolve(w) \/ Unresolved(w) \/ Conclude(w))
    /\ \A e \in Events : SF_<<vars, inboxVars>>(\E w \in Workers : Replay(w, e))

FairInbox == InboxSpec /\ Fairness /\ InboxFairness

-----------------------------------------------------------------------------
(* What must hold *)

(* An event of a completed capture is PROCESSED, and so never looked at      *)
(* again, only when the money has become a contribution.                     *)
ProcessedCaptureIsFunded ==
    \A e \in Events :
        inbox[e] = "PROCESSED" /\ About[e].resource = "cap" => About[e].attempt \in contributions

Outage(w) ==
    \/ WorkFails(w) \/ DiesAtWork(w)
    \/ DiesBetween(w) /\ ~Unresolved(w)
    \/ Works(w) /\ pc[w] = "recVoid" /\ pc'[w] = "ready"
    \/ Conclude(w) /\ \E e \in Events : inbox[e] # "FAILED" /\ inbox'[e] = "FAILED"

OutagesEnd == <>[][\A w \in Workers : ~Outage(w)]_<<vars, inboxVars>>

(* Once outages end, no event stays FAILED whose resource a row names: a     *)
(* replay finds its attempt and reconciles it.                               *)
FailedEventsRecover ==
    OutagesEnd => \A e \in Events : []<>(inbox[e] # "FAILED" \/ ~Named(e))
=============================================================================
