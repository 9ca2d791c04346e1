------------------------ MODULE SupportSubscriptions ------------------------
(* One player's support subscriptions at PayPal (supportSubscription.service *)
(* and paypalWebhook.service): subscribing, upgrading to a new subscription  *)
(* that replaces the old one, a scheduled downgrade, cancelling, the         *)
(* reconcile button, and PayPal's events, which come late, twice and out of  *)
(* order.  A handler reads PayPal outside any transaction and writes what it *)
(* read later; between the two, other handlers and PayPal go on.             *)
EXTENDS Naturals, Sequences, FiniteSets, FiniteSetsExt

CONSTANTS
    Subs,           \* subscriptions PayPal may create, in this order
    Tiers,          \* support levels, the higher the number the higher
    Handlers,       \* web requests and deliveries that may be at work at once
    Stories         \* bounds: what may happen to a player, one of these

(* A story bounds the levels he takes, the payments PayPal tries of each     *)
(* subscription, the subscriptions it creates, the operations that are asked *)
(* for, how many handlers are at work, and which of them (plain) serve the   *)
(* events that are not about a payment.                                      *)
Operations == {"cancel", "upgrade", "downgrade", "reconcile", "leave", "wait"}

ASSUME SubsAssumption == Subs \subseteq Nat \ {0} /\ IsFiniteSet(Subs)
ASSUME TiersAssumption == Tiers \subseteq Nat \ {0}
ASSUME HandlersAssumption == Handlers \subseteq Nat \ {0}
ASSUME StoriesAssumption ==
    Stories \subseteq [subs : SUBSET Subs, tiers : SUBSET Tiers, bills : Nat,
                      may : SUBSET Operations, slots : SUBSET Handlers, plain : SUBSET Handlers]

VARIABLES
    provider,       \* PayPal's subscriptions
    row,            \* SupportSubscription, by providerSubscriptionId
    upgrade,        \* SupportSubscriptionChange of type UPGRADE, by its target
    downgrade,      \* ... and of type DOWNGRADE, by its source
    event,          \* SupportProviderEvent of each payment, OPEN while it may be delivered
    account,        \* the handler that holds the lock on the User row
    run,            \* where each handler stands
    story           \* the bounds of this behaviour

vars == <<provider, row, upgrade, downgrade, event, account, run, story>>
rows == <<row, upgrade, downgrade, event>>

None == 0

Current == {"PENDING", "ACTIVE", "PAYMENT_RETRY", "CANCELLATION_SCHEDULED"}

(* Definitions named ...Fault are plausible mistakes in the definition that  *)
(* follows them; no specification uses them.                                 *)
LiveFault == {"PENDING_APPROVAL", "TARGET_ACTIVE_CANCELLATION_PENDING"}

Live == {"PENDING_APPROVAL", "TARGET_ACTIVE_CANCELLATION_PENDING", "CLEANUP_FAILED"}

NoProvider == [st |-> "NONE", plan |-> 0, revision |-> 0, bills |-> <<>>, by |-> "nobody"]
NoRow == [status |-> "NONE", tier |-> 0, intent |-> FALSE, paid |-> "none",
          failure |-> 0, recovery |-> 0, open |-> <<>>, late |-> 0]
NoUpgrade == [status |-> "NONE", source |-> None, activated |-> FALSE]
NoDowngrade == [status |-> "NONE", tier |-> 0]
NoRead == [st |-> "NONE", plan |-> 0, failed |-> 0, paidOn |-> FALSE, bills |-> 0]

(* A handler: the step it is at, the operation, the subscription, the level  *)
(* it works with, the payment of the event it handles (0: none), what it     *)
(* read of PayPal or what the synchronization returned, whether the          *)
(* subscription was superseded then, and the upgrade it is about.            *)
Idle == [at |-> "idle", op |-> "none", s |-> None, tier |-> 0, bill |-> 0,
         read |-> NoRead, superseded |-> FALSE, u |-> None]

Init ==
    /\ story \in Stories
    /\ provider = [s \in Subs |-> NoProvider]
    /\ row = [s \in Subs |-> NoRow]
    /\ upgrade = [s \in Subs |-> NoUpgrade]
    /\ downgrade = [s \in Subs |-> NoDowngrade]
    /\ event = [s \in Subs |-> [t \in 1..story.bills |-> "OPEN"]]
    /\ account = None
    /\ run = [h \in Handlers |-> Idle]

-----------------------------------------------------------------------------
(* Helpers                                                                   *)

(* The last payment of s that failed, as PayPal reports it.                  *)
LastFailed(s) == Max({0} \cup {t \in DOMAIN provider[s].bills : provider[s].bills[t] = "FAILED"})

(* The statuses that a payment shows to be over.                             *)
Unpaid == {"APPROVAL_PENDING", "SUSPENDED"}

(* An answer of PayPal; it does not say how many payments came before it,    *)
(* which is kept, of a subscription that is not paid, to tell how old it is. *)
Seen(s) == [st |-> provider[s].st, plan |-> provider[s].plan, failed |-> LastFailed(s),
            paidOn |-> FALSE,
            bills |-> IF provider[s].st \in Unpaid THEN Len(provider[s].bills) ELSE 0]

(* translatePayPalStatus; of a cancelled subscription PayPal may name a next *)
(* billing time that is still to come.                                       *)
Translated(st, paidOn) ==
    CASE st = "APPROVAL_PENDING"      -> "PENDING"
      [] st = "ACTIVE"                -> "ACTIVE"
      [] st = "SUSPENDED"             -> "PAYMENT_RETRY"
      [] st = "CANCELLED" /\ paidOn   -> "CANCELLATION_SCHEDULED"
      [] OTHER                        -> "ENDED"

Lapsed(s) == row[s].status = "CANCELLATION_SCHEDULED" /\ row[s].paid # "future"

LiveUpgrades == {u \in Subs : upgrade[u].status \in Live}
Downgrading == {s \in Subs : downgrade[s].status = "PENDING_APPROVAL"}
Changing == LiveUpgrades \cup Downgrading # {}

(* getCanonicalSupportSubscription: the side that counts of the latest live  *)
(* change (a downgrade is asked for after any upgrade that is still live),   *)
(* or else the only current row; None when there are several.                *)
Selected ==
    LET current == {s \in Subs : row[s].status \in Current}
        latest == Max(LiveUpgrades)
    IN  IF Downgrading # {} THEN Max(Downgrading)
        ELSE IF LiveUpgrades # {}
        THEN IF upgrade[latest].activated /\ row[latest].status = "ACTIVE"
             THEN latest ELSE upgrade[latest].source
        ELSE IF Cardinality(current) = 1 THEN Max(current) ELSE None

(* ... and nobody's when its paid period is over.                            *)
Canonical == IF Selected # None /\ ~Lapsed(Selected) THEN Selected ELSE None

(* isSupersededUpgradeSource                                                 *)
Superseding(s) == {u \in Subs : upgrade[u].source = s /\ upgrade[u].activated}

Goto(h, step) == run' = [run EXCEPT ![h].at = step]
Done(h) == run' = [run EXCEPT ![h] = Idle]

(* The end of a handler: an event's outcome is still to be written, and      *)
(* reconcile goes on from the target of a change to the current subscription.*)
Return(h) ==
    LET x == run[h]
    IN  run' = [run EXCEPT ![h] =
            IF x.bill # 0 THEN [Idle EXCEPT !.at = "mark", !.s = x.s, !.bill = x.bill]
            ELSE IF x.op = "target" THEN [Idle EXCEPT !.at = "canonical"] ELSE Idle]

-----------------------------------------------------------------------------
(* synchronizeVerifiedPayPalSubscription: one transaction that locks the row *)

NewerFailureFault(r, at) == TRUE

(* A failure counts when it is newer than the last recovery ...              *)
NewerFailure(r, at) == at > r.recovery

(* ... and a recovery when it is newer than the last failure.                *)
Recovered(r, kind, t, read) == kind = "PAID" /\ read.st = "ACTIVE" /\ t > r.failure

EffectiveStatus(r, kind, t, read, failedAt, superseded) ==
    LET status == Translated(read.st, read.paidOn)
    IN  IF superseded /\ read.st = "CANCELLED" THEN "ENDED"
        ELSE IF r.intent /\ read.st = "CANCELLED"
             THEN IF r.paid = "future" THEN "CANCELLATION_SCHEDULED" ELSE "ENDED"
        ELSE IF kind = "FAILED" /\ NewerFailure(r, failedAt) THEN "PAYMENT_RETRY"
        ELSE IF r.status = "PAYMENT_RETRY" /\ status = "ACTIVE" /\ ~Recovered(r, kind, t, read)
             THEN "PAYMENT_RETRY"
        ELSE status

Supported == {"ACTIVE", "PAYMENT_RETRY", "CANCELLATION_SCHEDULED"}

OpenPeriodsFault(open, status, tier) ==
    IF status \in Supported /\ open = <<>> THEN <<tier>> ELSE open

(* Tier history: the open period of another level is closed, a new one       *)
(* opened.                                                                   *)
OpenPeriods(open, status, tier) ==
    IF status \in Supported /\ (open = <<>> \/ Head(open) # tier)
    THEN (IF open = <<>> THEN open ELSE Tail(open)) \o <<tier>>
    ELSE open

Synchronized(r, kind, t, read, tier, failedAt, superseded) ==
    LET status == EffectiveStatus(r, kind, t, read, failedAt, superseded)
    IN  [status   |-> status,
         tier     |-> tier,
         intent   |-> status = "CANCELLATION_SCHEDULED",
         paid     |-> IF status = "ACTIVE" THEN "future" ELSE r.paid,
         failure  |-> IF kind = "FAILED" /\ NewerFailure(r, failedAt)
                      THEN Max({failedAt, r.failure}) ELSE r.failure,
         recovery |-> IF Recovered(r, kind, t, read) THEN Max({t, r.recovery}) ELSE r.recovery,
         open     |-> OpenPeriods(r.open, status, tier),
         late     |-> r.late]

(* The payment event a handler is about; the other events carry none.        *)
Kind(h) == IF run[h].bill = 0 THEN "plain" ELSE provider[run[h].s].bills[run[h].bill]

(* A status that the newest payment has overtaken since it was read.         *)
Outdated(s, read) ==
    read.st \in Unpaid /\ read.bills < Len(provider[s].bills)

Aged(r, s, read) ==
    [r EXCEPT !.late = IF Outdated(s, read) THEN Len(provider[s].bills) ELSE r.late]

(* Of a cancelled subscription, an answer names a next billing time or none. *)
Answers(read) ==
    {read} \cup (IF read.st = "CANCELLED" THEN {[read EXCEPT !.paidOn = TRUE]} ELSE {})

(* Of a failed payment, PayPal's answer names the last one, or none.         *)
Synchronize(h) ==
    LET x == run[h]
    IN  /\ x.at = "sync"
        /\ \E failedAt \in {x.bill} \cup ({x.read.failed} \ {0}), read \in Answers(x.read) :
              row' = [row EXCEPT ![x.s] =
                  Aged(Synchronized(@, Kind(h), x.bill, read, x.tier, failedAt, x.superseded),
                       x.s, read)]
        /\ run' = [run EXCEPT ![h] =
              CASE x.op = "cancel" -> Idle
                [] x.op = "verify" -> [x EXCEPT !.at = "intend", !.op = "cancel", !.read = NoRead]
                [] OTHER -> [x EXCEPT !.at = "settle", !.superseded = FALSE,
                                      !.read = [NoRead EXCEPT !.st = row'[x.s].status]]]
        /\ UNCHANGED <<provider, upgrade, downgrade, event, account, story>>

-----------------------------------------------------------------------------
(* PayPal's events, and the reconcile button                                 *)

(* processVerifiedPayPalWebhook, up to its look at PayPal.  Only events of   *)
(* payments are kept count of: a duplicate of another one changes nothing.   *)
Deliver(h, s, t) ==
    /\ run[h].at = "idle"
    /\ provider[s].st # "NONE"
    /\ t = 0 \/ (t \in DOMAIN provider[s].bills /\ event[s][t] = "OPEN")
    /\ run' = [run EXCEPT ![h] = [Idle EXCEPT !.at = "verify", !.op = "event", !.s = s,
                                              !.bill = t, !.read = Seen(s)]]
    /\ UNCHANGED <<provider, rows, account, story>>

(* reconcilePayPalSupportSubscription: the target of a change first ...      *)
ReconcileTarget(h, u) ==
    /\ run[h].at = "idle"
    /\ u \in LiveUpgrades /\ ~upgrade[u].activated
    /\ run' = [run EXCEPT ![h] =
          IF provider[u].plan = row[u].tier
          THEN [Idle EXCEPT !.at = "sync", !.op = "target", !.s = u, !.tier = row[u].tier,
                            !.read = Seen(u)]
          ELSE Idle]
    /\ UNCHANGED <<provider, rows, account, story>>

(* ... then the subscription that counts.                                    *)
ReconcileCanonical(h) ==
    /\ \/ run[h].at = "canonical"
       \/ run[h].at = "idle" /\ (Downgrading # {} \/ \A u \in LiveUpgrades : upgrade[u].activated)
    /\ run' = [run EXCEPT ![h] =
          IF Canonical = None THEN Idle
          ELSE [Idle EXCEPT !.at = "verify", !.op = "reconcile", !.s = Canonical,
                            !.read = Seen(Canonical)]]
    /\ UNCHANGED <<provider, rows, account, story>>

(* The rows as the handler finds them: PayPal's level must be the stored one *)
(* or the one of a pending downgrade; unknown subscriptions are ignored.     *)
Verify(h) ==
    LET x == run[h]
        known == row[x.s].status # "NONE"
                    /\ (x.s \in Downgrading => x.read.plan \in {row[x.s].tier, downgrade[x.s].tier})
    IN  /\ x.at = "verify"
        /\ run' = [run EXCEPT ![h] =
              IF known
              THEN [x EXCEPT !.at = "sync", !.tier = x.read.plan,
                             !.superseded = x.op = "event" /\ Superseding(x.s) # {}]
              ELSE Idle]
        /\ UNCHANGED <<provider, rows, account, story>>

ReachedFault(s, tier) == downgrade[s].status = "PENDING_APPROVAL"

(* completeVerifiedScheduledDowngrade                                        *)
Reached(s, tier) == downgrade[s].status = "PENDING_APPROVAL" /\ downgrade[s].tier = tier

(* finalizeSupersededUpgradeSource: the change whose source s has ended.     *)
Completed(s) ==
    IF Superseding(s) = {} THEN UNCHANGED upgrade
    ELSE \E u \in Superseding(s) : upgrade' = [upgrade EXCEPT ![u].status = "COMPLETED"]

(* After the synchronization: the change this subscription is the source of. *)
Settle(h) ==
    LET x == run[h]
    IN  /\ x.at = "settle"
        /\ IF x.op = "event" /\ x.read.st = "ENDED" THEN Completed(x.s) ELSE UNCHANGED upgrade
        /\ downgrade' = IF x.op # "target" /\ Reached(x.s, x.tier)
                        THEN [downgrade EXCEPT ![x.s].status = "COMPLETED"] ELSE downgrade
        /\ run' = [run EXCEPT ![h] = [x EXCEPT !.at = "advance", !.read = NoRead, !.tier = 0]]
        /\ UNCHANGED <<provider, row, event, account, story>>

-----------------------------------------------------------------------------
(* advanceSupportSubscriptionChange, of the subscription as a target         *)

ReplacesFault(s) == row[s].status # "ENDED"

(* A replacement takes over once its row is ACTIVE.                          *)
Replaces(s) == row[s].status = "ACTIVE"

(* The change is read; an ended target abandons it.                          *)
Advance(h) ==
    LET u == run[h].s
    IN  /\ run[h].at = "advance"
        /\ IF u \in LiveUpgrades /\ Replaces(u)
           THEN /\ run' = [run EXCEPT ![h].at = IF upgrade[u].activated THEN "source" ELSE "promote",
                                      ![h].u = u]
                /\ UNCHANGED upgrade
           ELSE /\ upgrade' = IF u \in LiveUpgrades /\ row[u].status = "ENDED"
                                 /\ upgrade[u].status = "PENDING_APPROVAL"
                              THEN [upgrade EXCEPT ![u].status = "ABANDONED"] ELSE upgrade
                /\ Return(h)
        /\ UNCHANGED <<provider, row, downgrade, event, account, story>>

(* The promotion, a transaction: the source's open periods are closed.       *)
Promote(h) ==
    LET u == run[h].u
    IN  /\ run[h].at = "promote"
        /\ IF upgrade[u].activated THEN UNCHANGED <<row, upgrade>>
           ELSE /\ row' = [row EXCEPT ![upgrade[u].source].open = <<>>]
                /\ upgrade' = [upgrade EXCEPT ![u].status = "TARGET_ACTIVE_CANCELLATION_PENDING",
                                              ![u].activated = TRUE]
        /\ Goto(h, "source")
        /\ UNCHANGED <<provider, downgrade, event, account, story>>

(* The catch of the cleanup; like its other writes it asks nothing.          *)
CleanupFails(h) ==
    /\ upgrade' = [upgrade EXCEPT ![run[h].u].status = "CLEANUP_FAILED"]
    /\ Return(h)

(* The source as PayPal has it: still to be cancelled, cancelled, or else.   *)
LookAtSource(h) ==
    LET u == run[h].u
        source == provider[upgrade[u].source]
    IN  /\ run[h].at = "source"
        /\ CASE source.st = "ACTIVE" ->
                  /\ upgrade' = [upgrade EXCEPT ![u].status = "TARGET_ACTIVE_CANCELLATION_PENDING"]
                  /\ Goto(h, "replace")
             [] source.st = "CANCELLED" -> Goto(h, "retire") /\ UNCHANGED upgrade
             [] OTHER -> CleanupFails(h)
        /\ UNCHANGED <<provider, row, downgrade, event, account, story>>

(* The source is cancelled and read again; the call fails when it is not     *)
(* active any more.                                                          *)
CancelSource(h) ==
    LET s == upgrade[run[h].u].source
    IN  /\ run[h].at = "replace"
        /\ IF provider[s].st \in {"ACTIVE", "SUSPENDED"}
           THEN /\ provider' = [provider EXCEPT ![s].st = "CANCELLED", ![s].by = "upgrade"]
                /\ Goto(h, "retire")
                /\ UNCHANGED upgrade
           ELSE CleanupFails(h) /\ UNCHANGED provider
        /\ UNCHANGED <<row, downgrade, event, account, story>>

(* Its row ends (PayPal's level must be the stored one) ...                  *)
RetireSource(h) ==
    LET s == upgrade[run[h].u].source
    IN  /\ run[h].at = "retire"
        /\ IF provider[s].plan = row[s].tier
           THEN /\ row' = [row EXCEPT ![s] = Synchronized(@, "plain", 0, Seen(s), @.tier, 0, TRUE)]
                /\ Goto(h, "complete")
                /\ UNCHANGED upgrade
           ELSE CleanupFails(h) /\ UNCHANGED row
        /\ UNCHANGED <<provider, downgrade, event, account, story>>

(* ... and the change is completed.                                          *)
Complete(h) ==
    /\ run[h].at = "complete"
    /\ Completed(upgrade[run[h].u].source)
    /\ Return(h)
    /\ UNCHANGED <<provider, row, downgrade, event, account, story>>

(* PayPal does not answer in the middle of it; a cancellation may have been  *)
(* performed.                                                                *)
CleanupOutage(h) ==
    /\ run[h].at \in {"source", "replace"}
    /\ \/ UNCHANGED provider
       \/ /\ run[h].at = "replace" /\ provider[upgrade[run[h].u].source].st = "ACTIVE"
          /\ provider' = [provider EXCEPT ![upgrade[run[h].u].source].st = "CANCELLED",
                                          ![upgrade[run[h].u].source].by = "upgrade"]
    /\ CleanupFails(h)
    /\ UNCHANGED <<row, downgrade, event, account, story>>

(* The event is PROCESSED, whatever became of the cleanup.                   *)
Mark(h) ==
    /\ run[h].at = "mark"
    /\ event' = [event EXCEPT ![run[h].s][run[h].bill] = "PROCESSED"]
    /\ Done(h)
    /\ UNCHANGED <<provider, row, upgrade, downgrade, account, story>>

-----------------------------------------------------------------------------
(* Subscribing, and changing the level: transactions that hold the lock on   *)
(* the User row while they talk to PayPal                                    *)

Ask(h, op, s, tier) ==
    /\ account' = h
    /\ run' = [run EXCEPT ![h] = [Idle EXCEPT !.at = "ask", !.op = op, !.s = s, !.tier = tier]]
    /\ UNCHANGED <<provider, rows, story>>

Free(h) == run[h].at = "idle" /\ account = None

(* createPayPalSupportSubscription                                           *)
Create(h, tier) ==
    /\ Free(h)
    /\ \A s \in Subs : row[s].status \notin Current
    /\ Ask(h, "create", None, tier)

(* createPayPalSupportSubscriptionChange, to a higher level: a pending       *)
(* change to the same level is looked at first.                              *)
Upgrade(h, tier) ==
    /\ Free(h)
    /\ Canonical # None /\ row[Canonical].status = "ACTIVE" /\ tier > row[Canonical].tier
    /\ \A u \in LiveUpgrades : upgrade[u].status = "PENDING_APPROVAL"
                                  /\ row[u].status = "PENDING" /\ row[u].tier = tier
    /\ Downgrading = {}
    /\ Ask(h, "upgrade", Canonical, tier)

(* ... to a lower one: the subscription itself is to be revised.             *)
Downgrade(h, tier) ==
    /\ Free(h)
    /\ Canonical # None /\ row[Canonical].status = "ACTIVE" /\ tier < row[Canonical].tier
    /\ LiveUpgrades = {}
    /\ \A s \in Downgrading : s = Canonical /\ downgrade[s].tier = tier
    /\ Ask(h, "downgrade", Canonical, tier)

Unused == {s \in story.subs : provider[s].st = "NONE"}

(* A pending upgrade that was not approved yet is shown again.               *)
Shown == {u \in LiveUpgrades : provider[u].st = "APPROVAL_PENDING"}

(* PayPal creates a subscription (up to the bound), or takes the revision.   *)
AskPayPal(h) ==
    LET x == run[h]
        n == Min(Unused)
    IN  /\ x.at = "ask"
        /\ \/ /\ Unused = {} \/ (x.op = "upgrade" /\ Shown # {})
              /\ x.op # "downgrade"
              /\ Done(h) /\ account' = None /\ UNCHANGED provider
           \/ /\ x.op = "create" \/ (x.op = "upgrade" /\ Shown = {})
              /\ Unused # {}
              /\ provider' = [provider EXCEPT ![n].st = "APPROVAL_PENDING", ![n].plan = x.tier]
              /\ run' = [run EXCEPT ![h].at = "commit", ![h].u = n]
              /\ UNCHANGED account
           \/ /\ x.op = "downgrade"
              /\ provider' = IF provider[x.s].st = "ACTIVE" /\ provider[x.s].plan # x.tier
                             THEN [provider EXCEPT ![x.s].revision = x.tier] ELSE provider
              /\ Goto(h, "commit")
              /\ UNCHANGED account
        /\ UNCHANGED <<rows, story>>

NewRow(tier) == [NoRow EXCEPT !.status = "PENDING", !.tier = tier]

(* The transaction commits; a change it replaces is abandoned.               *)
Commit(h) ==
    LET x == run[h]
    IN  /\ x.at = "commit"
        /\ row' = IF x.op = "downgrade" THEN row ELSE [row EXCEPT ![x.u] = NewRow(x.tier)]
        /\ upgrade' = IF x.op # "upgrade" THEN upgrade
                      ELSE [u \in Subs |->
                              CASE u = x.u -> [NoUpgrade EXCEPT !.status = "PENDING_APPROVAL",
                                                                !.source = x.s]
                                [] u \in LiveUpgrades \ {x.u} -> [upgrade[u] EXCEPT !.status = "ABANDONED"]
                                [] OTHER -> upgrade[u]]
        /\ downgrade' = IF x.op # "downgrade" THEN downgrade
                        ELSE [downgrade EXCEPT ![x.s].status = "PENDING_APPROVAL", ![x.s].tier = x.tier]
        /\ account' = None
        /\ Done(h)
        /\ UNCHANGED <<provider, event, story>>

-----------------------------------------------------------------------------
(* cancelPayPalSupportSubscription                                           *)

(* The checks, a transaction of their own; when the paid period is over,     *)
(* PayPal is asked for the next one.                                         *)
Cancel(h) ==
    /\ Free(h)
    /\ Canonical # None /\ row[Canonical].status = "ACTIVE" /\ ~Changing
    /\ LET s == Canonical
           asked == provider[s].st = "ACTIVE" /\ provider[s].plan = row[s].tier
           x == [Idle EXCEPT !.op = "cancel", !.s = s, !.tier = row[s].tier]
       IN  run' = [run EXCEPT ![h] =
              CASE row[s].paid = "future" -> [x EXCEPT !.at = "intend"]
                [] row[s].paid # "future" /\ asked ->
                      [x EXCEPT !.at = "sync", !.op = "verify", !.read = Seen(s)]
                [] OTHER -> Idle]
    /\ UNCHANGED <<provider, rows, account, story>>

(* The intent is stored before PayPal is asked ...                           *)
Intend(h) ==
    /\ run[h].at = "intend"
    /\ row' = [row EXCEPT ![run[h].s].intent = TRUE]
    /\ Goto(h, "stop")
    /\ UNCHANGED <<provider, upgrade, downgrade, event, account, story>>

(* ... who cancels; the row follows by what is read then ...                 *)
Stop(h) ==
    LET s == run[h].s
    IN  /\ run[h].at = "stop"
        /\ provider[s].st \in {"ACTIVE", "SUSPENDED"}
        /\ provider' = [provider EXCEPT ![s].st = "CANCELLED", ![s].by = "player"]
        /\ run' = [run EXCEPT ![h].at = "sync", ![h].read = [Seen(s) EXCEPT !.st = "CANCELLED"]]
        /\ UNCHANGED <<rows, account, story>>

(* ... or does not, or his answer is lost: the intent is withdrawn.          *)
Withdraw(h) ==
    LET s == run[h].s
    IN  /\ run[h].at = "stop"
        /\ \/ UNCHANGED provider
           \/ /\ provider[s].st = "ACTIVE"
              /\ provider' = [provider EXCEPT ![s].st = "CANCELLED", ![s].by = "player"]
        /\ row' = [row EXCEPT ![s].intent = FALSE]
        /\ Done(h)
        /\ UNCHANGED <<upgrade, downgrade, event, account, story>>

(* finalizeElapsedCancellation, by any page that asks for the subscription.  *)
Lapse(s) ==
    /\ s = Selected /\ Lapsed(s) /\ row[s].paid = "past"
    /\ row' = [row EXCEPT ![s].status = "ENDED", ![s].open = <<>>]
    /\ UNCHANGED <<provider, upgrade, downgrade, event, account, run, story>>

-----------------------------------------------------------------------------
(* A handler throws, is killed, or its transaction is rolled back: PayPal    *)
(* keeps what it was asked.                                                  *)
Dies(h) ==
    /\ run[h].at # "idle"
    /\ Done(h)
    /\ account' = IF account = h THEN None ELSE account
    /\ UNCHANGED <<provider, rows, story>>

(* PayPal and the player.                                                    *)
AtPayPal(s) ==
    LET p == provider[s]
        Becomes(st) == provider' = [provider EXCEPT ![s].st = st] IN
    /\ \/ p.st = "APPROVAL_PENDING" /\ row[s].status # "NONE" /\ Becomes("ACTIVE")
       \/ p.st = "APPROVAL_PENDING" /\ Becomes("EXPIRED")
       \/ p.st = "SUSPENDED" /\ Becomes("ACTIVE")
       \/ p.st = "ACTIVE" /\ p.revision # 0
             /\ provider' = [provider EXCEPT ![s].plan = p.revision, ![s].revision = 0]
    /\ UNCHANGED <<rows, account, run, story>>

(* The player cancels there.                                                 *)
Leaves(s) ==
    /\ provider[s].st \in {"ACTIVE", "SUSPENDED"}
    /\ provider' = [provider EXCEPT ![s].st = "CANCELLED", ![s].by = "player"]
    /\ UNCHANGED <<rows, account, run, story>>

(* A payment is tried; when it fails, the subscription may be suspended.     *)
Bill(s, outcome) ==
    LET p == provider[s]
    IN  /\ p.st = "ACTIVE" /\ Len(p.bills) < story.bills
        /\ \E st \in {"ACTIVE"} \cup (IF outcome = "FAILED" THEN {"SUSPENDED"} ELSE {}) :
              provider' = [provider EXCEPT ![s].st = st, ![s].bills = Append(@, outcome)]
        /\ UNCHANGED <<rows, account, run, story>>

(* The date in currentPaidPeriodEnd passes.                                  *)
PeriodPasses(s) ==
    /\ row[s].paid = "future"
    /\ row' = [row EXCEPT ![s].paid = "past"]
    /\ UNCHANGED <<provider, upgrade, downgrade, event, account, run, story>>

-----------------------------------------------------------------------------
Step(h) ==
    \/ Verify(h) \/ Synchronize(h) \/ Settle(h)
    \/ Advance(h) \/ Promote(h)
    \/ LookAtSource(h) \/ CancelSource(h) \/ RetireSource(h) \/ Complete(h)
    \/ Mark(h)
    \/ run[h].at = "canonical" /\ ReconcileCanonical(h)
    \/ AskPayPal(h) \/ Commit(h)
    \/ Intend(h) \/ Stop(h) \/ Withdraw(h)

May(operation) == operation \in story.may

Begin(h) ==
    \/ \E s \in story.subs, t \in 0..story.bills : (t = 0 => h \in story.plain) /\ Deliver(h, s, t)
    \/ May("reconcile") /\ \E u \in story.subs : ReconcileTarget(h, u)
    \/ May("reconcile") /\ run[h].at = "idle" /\ ReconcileCanonical(h)
    \/ \E tier \in story.tiers : Create(h, tier)
    \/ May("upgrade") /\ \E tier \in story.tiers : Upgrade(h, tier)
    \/ May("downgrade") /\ \E tier \in story.tiers : Downgrade(h, tier)
    \/ May("cancel") /\ Cancel(h)

(* A request is served by the first handler that is idle.                    *)
FirstIdle(h) == h \in story.slots /\ \A k \in story.slots : k < h => run[k].at # "idle"

Next ==
    \/ \E h \in Handlers : (FirstIdle(h) /\ Begin(h)) \/ Step(h) \/ CleanupOutage(h) \/ Dies(h)
    \/ \E s \in story.subs :
          \/ AtPayPal(s) \/ (May("leave") /\ Leaves(s))
          \/ (May("wait") /\ PeriodPasses(s)) \/ Lapse(s)
          \/ \E outcome \in {"PAID", "FAILED"} : Bill(s, outcome)

Spec == Init /\ [][Next]_vars

(* A handler that is not killed goes on, and PayPal has an event to send of  *)
(* every subscription month after month.                                     *)
Fairness ==
    /\ \A h \in Handlers : WF_vars(Step(h))
    /\ \A s \in Subs : SF_vars(\E h \in Handlers : FirstIdle(h) /\ Deliver(h, s, 0))

FairSpec == Spec /\ Fairness

-----------------------------------------------------------------------------
(* What must hold *)

(* The history of levels follows the row: while it is supported, its one     *)
(* open period is of its level, or a replacement has closed it.              *)
PeriodsFollowTier ==
    \A s \in Subs :
        row[s].status \in Supported =>
            \/ row[s].open = <<row[s].tier>>
            \/ row[s].open = <<>> /\ Superseding(s) # {}

(* Once every payment event is processed, in whatever order and however late *)
(* they came, and whatever handlers read of PayPal before, the row's newest  *)
(* failure is later than its newest recovery exactly when the newest payment *)
(* failed; and its status says so too, but where a handler has written a     *)
(* status other than ACTIVE that it read before that payment.                *)
LatestPaymentWins ==
    \A s \in Subs :
        LET bills == provider[s].bills
            failed == bills[Len(bills)] = "FAILED"
        IN  provider[s].st = "ACTIVE" /\ bills # <<>>
               /\ (\A t \in DOMAIN bills : event[s][t] = "PROCESSED")
            => /\ row[s].failure > row[s].recovery <=> failed
               /\ row[s].late = Len(bills) \/ (row[s].status = "PAYMENT_RETRY" <=> failed)

(* Of two levels, a scheduled downgrade is completed only when PayPal has    *)
(* made it.  (Of three, a request whose handler died may still move PayPal's *)
(* plan on, to a level that the completed change does not name.)             *)
DowngradeIsVerified ==
    (\E low, high \in Tiers : story.tiers \subseteq {low, high})
    => \A s \in Subs :
          downgrade[s].status = "COMPLETED" => provider[s].plan = downgrade[s].tier

(* An upgrade stops the old subscription only when the new one was approved, *)
(* and is completed only when the old one has stopped.                       *)
ReplacementIsExact ==
    /\ \A s \in Subs : provider[s].by = "upgrade" =>
          \E u \in Superseding(s) : provider[u].st \in {"ACTIVE", "SUSPENDED", "CANCELLED"}
    /\ \A u \in Subs : upgrade[u].status = "COMPLETED" =>
          provider[upgrade[u].source].st \in {"CANCELLED", "EXPIRED"}

Outage(h) == (Dies(h) \/ CleanupOutage(h)) /\ ~Step(h)

OutagesEnd == <>[][\A h \in Handlers : ~Outage(h)]_vars

(* A cleanup is owed for an active replacement whose source PayPal can still *)
(* cancel, or has cancelled.                                                 *)
CleanupOwed(u) ==
    /\ upgrade[u].activated
    /\ upgrade[u].status \in {"TARGET_ACTIVE_CANCELLATION_PENDING", "CLEANUP_FAILED"}
    /\ provider[u].st = "ACTIVE" /\ row[u].status = "ACTIVE"
    /\ provider[upgrade[u].source].st \in {"ACTIVE", "CANCELLED"}

(* Once outages end, an active replacement that took over does not leave for *)
(* ever what it replaced to be paid, or its own change open.                 *)
CleanupEnds == OutagesEnd => \A u \in Subs : []<>~CleanupOwed(u)
=============================================================================
