---------------------------- MODULE SupportProofs ----------------------------
(* Proofs about the support subscriptions of a player, for any subscriptions *)
(* and levels, any number of handlers, and any bounds.                       *)
EXTENDS SupportSubscriptions, FiniteSetTheorems, WellFoundedInduction, TLAPS

-----------------------------------------------------------------------------
(* The highest and the lowest of finitely many numbers                       *)

(* A set without a highest number would hold a smaller one like it.          *)
LEMMA HighestExists ==
    ASSUME NEW S, S \subseteq Nat, IsFiniteSet(S), S # {}
    PROVE  \E x \in S : \A y \in S : x >= y
<1> DEFINE Bad == {T \in FiniteSubsetsOf(S) : T # {} /\ ~ \E x \in T : \A y \in T : x >= y}
<1> SUFFICES Bad = {}
    BY DEF FiniteSubsetsOf
<1> SUFFICES ASSUME Bad # {} PROVE FALSE
    OBVIOUS
<1>1. PICK T \in Bad : \A U \in Bad : <<U, T>> \notin StrictSubsetOrdering(S)
    BY FS_StrictSubsetOrderingWellFounded, WFMin, Bad \subseteq FiniteSubsetsOf(S)
<1>2. PICK x : x \in T
    OBVIOUS
<1> DEFINE U == T \ {x}
<1>3. T \subseteq S /\ IsFiniteSet(T) /\ U \in FiniteSubsetsOf(S)
    BY FS_Subset DEF FiniteSubsetsOf
<1>4. <<U, T>> \in StrictSubsetOrdering(S)
    BY <1>2, <1>3 DEF StrictSubsetOrdering
<1>5. U = {} \/ \E z \in U : \A y \in U : z >= y
    BY <1>1, <1>3, <1>4
<1>6. CASE U = {}
    BY <1>2, <1>3, <1>6
<1>7. CASE \E z \in U : \A y \in U : z >= y
    BY <1>2, <1>3, <1>7
<1> QED BY <1>5, <1>6, <1>7

LEMMA LowestExists ==
    ASSUME NEW S, S \subseteq Nat, IsFiniteSet(S), S # {}
    PROVE  \E x \in S : \A y \in S : x <= y
<1> DEFINE Bad == {T \in FiniteSubsetsOf(S) : T # {} /\ ~ \E x \in T : \A y \in T : x <= y}
<1> SUFFICES Bad = {}
    BY DEF FiniteSubsetsOf
<1> SUFFICES ASSUME Bad # {} PROVE FALSE
    OBVIOUS
<1>1. PICK T \in Bad : \A U \in Bad : <<U, T>> \notin StrictSubsetOrdering(S)
    BY FS_StrictSubsetOrderingWellFounded, WFMin, Bad \subseteq FiniteSubsetsOf(S)
<1>2. PICK x : x \in T
    OBVIOUS
<1> DEFINE U == T \ {x}
<1>3. T \subseteq S /\ IsFiniteSet(T) /\ U \in FiniteSubsetsOf(S)
    BY FS_Subset DEF FiniteSubsetsOf
<1>4. <<U, T>> \in StrictSubsetOrdering(S)
    BY <1>2, <1>3 DEF StrictSubsetOrdering
<1>5. U = {} \/ \E z \in U : \A y \in U : z <= y
    BY <1>1, <1>3, <1>4
<1>6. CASE U = {}
    BY <1>2, <1>3, <1>6
<1>7. CASE \E z \in U : \A y \in U : z <= y
    BY <1>2, <1>3, <1>7
<1> QED BY <1>5, <1>6, <1>7

LEMMA MaxIsHighest ==
    ASSUME NEW S, S \subseteq Nat, IsFiniteSet(S), S # {}
    PROVE  Max(S) \in S /\ \A y \in S : Max(S) >= y
BY HighestExists DEF Max

LEMMA MinIsLowest ==
    ASSUME NEW S, S \subseteq Nat, IsFiniteSet(S), S # {}
    PROVE  Min(S) \in S /\ \A y \in S : Min(S) <= y
BY LowestExists DEF Min

-----------------------------------------------------------------------------
(* The types                                                                 *)

ProviderStates == {"NONE", "APPROVAL_PENDING", "ACTIVE", "SUSPENDED", "CANCELLED", "EXPIRED"}
RowStates == {"NONE", "PENDING", "ACTIVE", "PAYMENT_RETRY", "CANCELLATION_SCHEDULED", "ENDED"}
UpgradeStates == {"NONE", "ABANDONED", "COMPLETED"} \cup Live
Outcomes == {"PAID", "FAILED"}
Reference == Subs \cup {None}

Replacing == {"promote", "source", "replace", "retire", "complete"}
Steps == {"idle", "verify", "canonical", "sync", "settle", "advance", "mark",
          "ask", "commit", "intend", "stop"} \cup Replacing
Requests == {"create", "upgrade", "downgrade"}
Errands == {"none", "event", "target", "reconcile", "cancel", "verify"} \cup Requests

ProviderSet == [st : ProviderStates, plan : Nat, revision : Nat, bills : Seq(Outcomes),
                by : {"nobody", "player", "upgrade"}]
RowSet == [status : RowStates, tier : Nat, intent : BOOLEAN, paid : {"none", "future", "past"},
           failure : Nat, recovery : Nat, open : {<<>>} \cup {<<t>> : t \in Nat}, late : Nat]
UpgradeSet == [status : UpgradeStates, source : Reference, activated : BOOLEAN]
DowngradeSet == [status : {"NONE", "PENDING_APPROVAL", "COMPLETED"}, tier : Nat]
ReadSet == [st : ProviderStates \cup RowStates, plan : Nat, failed : Nat, paidOn : BOOLEAN,
            bills : Nat]
RunSet == [at : Steps, op : Errands, s : Reference, tier : Nat, bill : Nat,
           read : ReadSet, superseded : BOOLEAN, u : Reference]

TypeOK ==
    /\ provider \in [Subs -> ProviderSet]
    /\ row \in [Subs -> RowSet]
    /\ upgrade \in [Subs -> UpgradeSet]
    /\ downgrade \in [Subs -> DowngradeSet]
    /\ event \in [Subs -> [1..story.bills -> {"OPEN", "PROCESSED"}]]
    /\ account \in Handlers \cup {None}
    /\ run \in [Handlers -> RunSet]
    /\ story \in Stories

-----------------------------------------------------------------------------
(* The inductive invariant                                                   *)

Approved(s) == provider[s].st \in {"ACTIVE", "SUSPENDED", "CANCELLED"}
Stopped(s) == provider[s].st \in {"CANCELLED", "EXPIRED"}
Known(s) == s \in Subs /\ row[s].status # "NONE"

(* What the records say of each other, and of PayPal: only a subscription    *)
(* that was approved there is ACTIVE here or has been promoted.              *)
RecordsFit ==
    \A s \in Subs :
        /\ Known(s) => provider[s].st # "NONE"
        /\ Approved(s) => Known(s)
        /\ row[s].status = "ACTIVE" => Approved(s)
        /\ downgrade[s].status # "NONE" => Known(s)
        /\ upgrade[s].status # "NONE" => Known(s) /\ Known(upgrade[s].source)
        /\ upgrade[s].activated => upgrade[s].status # "NONE" /\ Approved(s)

(* What a handler has read of PayPal may be old, but an approval stands, and *)
(* so does an end.                                                           *)
ReadFits(h) ==
    LET x == run[h]
    IN  x.at \in {"verify", "sync"} =>
          /\ x.s \in Subs /\ provider[x.s].st # "NONE"
          /\ x.read.st \in ProviderStates \ {"NONE"}
          /\ x.read.st \in {"ACTIVE", "SUSPENDED", "CANCELLED"} => Approved(x.s)
          /\ x.read.st \in {"CANCELLED", "EXPIRED"} => Stopped(x.s)

(* The subscription a handler works on is known, a new one to itself alone.  *)
WorkFits(h) ==
    LET x == run[h]
    IN  /\ x.at \in {"sync", "settle", "advance", "intend", "stop"} \cup Replacing => Known(x.s)
        /\ x.at = "mark" => x.s \in Subs
        /\ x.at \in {"ask", "commit"} =>
              /\ account = h
              /\ x.op \in Requests
              /\ x.op # "create" => Known(x.s)
        /\ x.at = "commit" /\ x.op # "downgrade" =>
              /\ x.u \in Subs /\ ~Known(x.u)
              /\ provider[x.u].st # "NONE"

(* The replacement a handler performs: promoted only when PayPal approved    *)
(* it, and ended here only when PayPal has ended the source.                 *)
CleanupFits(h) ==
    LET x == run[h]
    IN  /\ x.at \in Replacing => x.u \in Subs /\ upgrade[x.u].status # "NONE" /\ Approved(x.u)
        /\ x.at \in Replacing \ {"promote"} => upgrade[x.u].activated
        /\ x.at \in {"retire", "complete"} => provider[upgrade[x.u].source].st = "CANCELLED"
        /\ x.at = "settle" /\ x.op = "event" /\ x.read.st = "ENDED" => Stopped(x.s)

HandlerFits(h) == ReadFits(h) /\ WorkFits(h) /\ CleanupFits(h)
HandlersFit == \A h \in Handlers : HandlerFits(h)

(* Payments: the row remembers failures and recoveries PayPal has reported.  *)
Failed(s) == {t \in DOMAIN provider[s].bills : provider[s].bills[t] = "FAILED"}
Paid(s) == {t \in DOMAIN provider[s].bills : provider[s].bills[t] = "PAID"}
Newest(s) == Len(provider[s].bills)
Billed(s) == provider[s].bills # <<>>
Over(s) == provider[s].st = "CANCELLED"

(* The newest payment has reached the row.                                   *)
Synced(s) == Newest(s) \in {row[s].failure, row[s].recovery}

(* The row's status was read before the newest payment.                      *)
Overtaken(s) == row[s].late = Newest(s)

PaymentsFit ==
    \A s \in Subs :
        /\ Billed(s) => Approved(s)
        /\ provider[s].st = "SUSPENDED" => Newest(s) \in Failed(s)
        /\ row[s].failure \in {0} \cup Failed(s)
        /\ row[s].recovery \in {0} \cup Paid(s)
        /\ Newest(s) <= story.bills
        /\ \A t \in DOMAIN event[s] : event[s][t] = "PROCESSED" => t <= Newest(s)
        /\ Billed(s) /\ ~Over(s) =>
              /\ row[s].failure = Newest(s) => row[s].status = "PAYMENT_RETRY" \/ Overtaken(s)
              /\ row[s].recovery = Newest(s) => row[s].status = "ACTIVE" \/ Overtaken(s)
              /\ event[s][Newest(s)] = "PROCESSED" => Synced(s)

(* What a handler reads of payments may be old, but the payments it names    *)
(* are PayPal's, and it knows at least the one its event is about.           *)
ReadOfPayments(read, t, s) ==
    /\ t # 0 => t \in DOMAIN provider[s].bills
    /\ read.failed \in {0} \cup Failed(s)
    /\ t \in Failed(s) => read.failed >= t
    /\ read.bills <= Newest(s)
    /\ read.st \in Unpaid => t <= read.bills
    /\ read.st = "APPROVAL_PENDING" => read.bills = 0
    /\ read.st = "SUSPENDED" /\ read.bills = Newest(s) => Newest(s) \in Failed(s)
    /\ read.st = "CANCELLED" => Over(s)
    /\ Billed(s) => read.st \in {"APPROVAL_PENDING", "ACTIVE", "SUSPENDED", "CANCELLED"}

PaymentWorkFits(h) ==
    LET x == run[h]
    IN  /\ x.at \in {"verify", "sync"} =>
              /\ ReadOfPayments(x.read, x.bill, x.s)
              /\ x.op = "verify" => x.bill = 0
        /\ x.at \in {"intend", "stop"} => x.bill = 0
        /\ x.at \in {"settle", "advance", "mark"} \cup Replacing /\ x.bill # 0 =>
              /\ x.bill \in DOMAIN provider[x.s].bills
              /\ x.bill = Newest(x.s) => Synced(x.s) \/ Over(x.s)

PaymentWorkFit == \A h \in Handlers : PaymentWorkFits(h)

(* Of two levels, every revision is to the lower one, where PayPal's plan    *)
(* stays: who read it, or stored it, is right.                               *)
TwoLevels == \E low, high \in Tiers : story.tiers \subseteq {low, high}
Low(tier) == tier \in story.tiers /\ \A other \in story.tiers : tier <= other

Level(tier, s) == tier \in story.tiers /\ (Low(tier) => provider[s].plan = tier)

LevelsFit ==
    \A s \in Subs :
        /\ provider[s].st # "NONE" => provider[s].plan \in story.tiers
        /\ provider[s].revision # 0 => Low(provider[s].revision) /\ Known(s)
        /\ Known(s) => Level(row[s].tier, s)
        /\ downgrade[s].status # "NONE" => Low(downgrade[s].tier)
        /\ downgrade[s].status = "COMPLETED" => provider[s].plan = downgrade[s].tier

LevelWorkFits(h) ==
    LET x == run[h]
    IN  /\ x.at \in {"verify", "sync"} => Level(x.read.plan, x.s)
        /\ x.at \in {"sync", "settle", "intend", "stop"} => Level(x.tier, x.s)
        /\ x.at \in {"ask", "commit"} =>
              /\ x.tier \in story.tiers
              /\ x.op = "downgrade" => Low(x.tier)
        /\ x.at = "commit" /\ x.op # "downgrade" => Level(x.tier, x.u)

LevelWorkFit == \A h \in Handlers : LevelWorkFits(h)

-----------------------------------------------------------------------------
(* What the operators return                                                 *)

LEMMA LastFailedFits ==
    ASSUME TypeOK, NEW s \in Subs
    PROVE  /\ LastFailed(s) \in {0} \cup Failed(s)
           /\ \A t \in Failed(s) : LastFailed(s) >= t
           /\ LastFailed(s) \in Nat
<1>1. provider[s] \in ProviderSet
    BY DEF TypeOK
<1>2. DOMAIN provider[s].bills = 1..Len(provider[s].bills) /\ Len(provider[s].bills) \in Nat
    BY <1>1 DEF ProviderSet
<1> DEFINE F == {0} \cup Failed(s)
<1>3. Failed(s) \subseteq DOMAIN provider[s].bills
    BY DEF Failed
<1>4. IsFiniteSet(DOMAIN provider[s].bills)
    BY <1>2, FS_Interval
<1>5. IsFiniteSet(F)
    BY <1>3, <1>4, FS_Subset, FS_Singleton, FS_Union
<1>6. F \subseteq Nat /\ F # {}
    BY <1>2, <1>3
<1>7. LastFailed(s) = Max(F)
    BY DEF LastFailed, Failed
<1>8. Max(F) \in F /\ \A y \in F : Max(F) >= y
    BY <1>5, <1>6, MaxIsHighest
<1> QED BY <1>6, <1>7, <1>8

LEMMA SeenFits ==
    ASSUME TypeOK, NEW s \in Subs
    PROVE  /\ Seen(s) \in ReadSet
           /\ Seen(s).st = provider[s].st
           /\ Seen(s).plan = provider[s].plan
           /\ Seen(s).failed = LastFailed(s)
           /\ Seen(s).bills = IF provider[s].st \in Unpaid THEN Newest(s) ELSE 0
<1>1. Newest(s) \in Nat
    BY DEF Newest, TypeOK, ProviderSet
<1> QED BY <1>1, LastFailedFits DEF Seen, ReadSet, TypeOK, ProviderSet, Newest

LEMMA HigherOfTwo ==
    ASSUME NEW a \in Nat, NEW b \in Nat
    PROVE  Max({a, b}) = IF a >= b THEN a ELSE b
BY DEF Max

LEMMA SelectedFits ==
    ASSUME TypeOK, RecordsFit, Selected # None
    PROVE  Known(Selected)
<1> DEFINE current == {s \in Subs : row[s].status \in Current}
<1>1. /\ \A s \in Downgrading : Known(s)
      /\ \A u \in LiveUpgrades : Known(u) /\ Known(upgrade[u].source)
      /\ \A s \in current : Known(s)
    BY DEF RecordsFit, Downgrading, LiveUpgrades, Known, Live, Current
<1>2. ASSUME NEW S, S \subseteq Subs, S # {}
      PROVE  Max(S) \in S
    BY <1>2, SubsAssumption, FS_Subset, MaxIsHighest
<1>3. Downgrading \subseteq Subs /\ LiveUpgrades \subseteq Subs /\ current \subseteq Subs
    BY DEF Downgrading, LiveUpgrades
<1>4. CASE Downgrading # {}
    BY <1>1, <1>2, <1>3, <1>4 DEF Selected
<1>5. CASE Downgrading = {} /\ LiveUpgrades # {}
  <2>1. Max(LiveUpgrades) \in LiveUpgrades
      BY <1>2, <1>3, <1>5
  <2>2. Selected \in {Max(LiveUpgrades), upgrade[Max(LiveUpgrades)].source}
      BY <1>5 DEF Selected
  <2> QED BY <2>1, <2>2, <1>1
<1>6. CASE Downgrading = {} /\ LiveUpgrades = {}
  <2>1. Cardinality(current) = 1 /\ Selected = Max(current)
      BY <1>6 DEF Selected
  <2>2. current # {}
      BY <2>1, FS_EmptySet
  <2> QED BY <2>1, <2>2, <1>1, <1>2, <1>3
<1> QED BY <1>4, <1>5, <1>6

LEMMA CanonicalFits ==
    ASSUME TypeOK, RecordsFit, Canonical # None
    PROVE  Known(Canonical)
BY SelectedFits DEF Canonical

(* The row after a synchronization.                                          *)
SynchronizedRow(q, r, kind, t, read, tier, failedAt, superseded) ==
    /\ q \in RowSet
    /\ q.status # "NONE"
    /\ q.late = r.late
    /\ q.status = EffectiveStatus(r, kind, t, read, failedAt, superseded)
    /\ q.tier = tier
    /\ q.status \in Supported => q.open = <<tier>>
    /\ q.status = "ACTIVE" => read.st = "ACTIVE"
    /\ q.status = "ENDED" => read.st \notin {"APPROVAL_PENDING", "ACTIVE", "SUSPENDED"}
    /\ q.failure \in {r.failure, failedAt} /\ q.failure >= r.failure
    /\ q.failure # r.failure => kind = "FAILED" /\ failedAt > r.recovery
    /\ q.recovery \in {r.recovery, t} /\ q.recovery >= r.recovery
    /\ q.recovery # r.recovery => kind = "PAID" /\ read.st = "ACTIVE" /\ t > r.failure
    /\ kind = "FAILED" /\ failedAt > r.recovery => q.failure >= failedAt
    /\ kind = "PAID" /\ read.st = "ACTIVE" /\ t > r.failure => q.recovery >= t

LEMMA SynchronizedFits ==
    ASSUME NEW r \in RowSet, NEW kind, NEW t \in Nat, NEW read \in ReadSet, NEW tier \in Nat,
           NEW failedAt \in Nat, NEW superseded \in BOOLEAN
    PROVE  SynchronizedRow(Synchronized(r, kind, t, read, tier, failedAt, superseded),
                           r, kind, t, read, tier, failedAt, superseded)
<1> DEFINE q == Synchronized(r, kind, t, read, tier, failedAt, superseded)
<1> DEFINE status == EffectiveStatus(r, kind, t, read, failedAt, superseded)
<1>1. status \in RowStates \ {"NONE"}
    BY DEF EffectiveStatus, Translated, RowStates
<1>2. status = "ACTIVE" => read.st = "ACTIVE"
    BY DEF EffectiveStatus, Translated
<1>3. status = "ENDED" => read.st \notin {"APPROVAL_PENDING", "ACTIVE", "SUSPENDED"}
    BY DEF EffectiveStatus, Translated
<1>4. PICK o : o = OpenPeriods(r.open, status, tier)
    OBVIOUS
<1>5. r.open = <<>> \/ \E a \in Nat : r.open = <<a>>
    BY DEF RowSet
<1>6. o \in {<<>>} \cup {<<a>> : a \in Nat} /\ (status \in Supported => o = <<tier>>)
  <2>1. CASE r.open = <<>>
      BY <1>4, <2>1 DEF OpenPeriods
  <2>2. CASE \E a \in Nat : r.open = <<a>>
    <3>1. PICK a \in Nat : r.open = <<a>>
        BY <2>2
    <3>2. Head(r.open) = a /\ Tail(r.open) = <<>> /\ r.open # <<>> /\ <<>> \o <<tier>> = <<tier>>
        BY <3>1
    <3> QED BY <1>4, <3>1, <3>2 DEF OpenPeriods
  <2> QED BY <1>5, <2>1, <2>2
<1>7. r.failure \in Nat /\ r.recovery \in Nat /\ r.late \in Nat /\ r.paid \in {"none", "future", "past"}
    BY DEF RowSet
<1>8. PICK failure \in Nat : failure = IF kind = "FAILED" /\ NewerFailure(r, failedAt)
                                       THEN Max({failedAt, r.failure}) ELSE r.failure
    BY <1>7, HigherOfTwo
<1>9. PICK recovery \in Nat : recovery = IF Recovered(r, kind, t, read)
                                         THEN Max({t, r.recovery}) ELSE r.recovery
    BY <1>7, HigherOfTwo
<1>10. q = [status |-> status, tier |-> tier, intent |-> status = "CANCELLATION_SCHEDULED",
            paid |-> IF status = "ACTIVE" THEN "future" ELSE r.paid,
            failure |-> failure, recovery |-> recovery, open |-> o, late |-> r.late]
    BY <1>4, <1>8, <1>9 DEF Synchronized
<1>11. q \in RowSet
    BY <1>1, <1>6, <1>7, <1>10 DEF RowSet
<1>12. failure \in {r.failure, failedAt} /\ failure >= r.failure
       /\ (failure # r.failure => kind = "FAILED" /\ failedAt > r.recovery)
       /\ (kind = "FAILED" /\ failedAt > r.recovery => failure >= failedAt)
    BY <1>7, <1>8, HigherOfTwo DEF NewerFailure
<1>13. recovery \in {r.recovery, t} /\ recovery >= r.recovery
       /\ (recovery # r.recovery => kind = "PAID" /\ read.st = "ACTIVE" /\ t > r.failure)
       /\ (kind = "PAID" /\ read.st = "ACTIVE" /\ t > r.failure => recovery >= t)
    BY <1>7, <1>9, HigherOfTwo DEF Recovered
<1>14. q.status = status /\ q.tier = tier /\ q.open = o /\ q.failure = failure
       /\ q.recovery = recovery /\ q.late = r.late
    BY <1>10
<1> HIDE DEF status, q
<1> QED BY <1>1, <1>2, <1>3, <1>6, <1>11, <1>12, <1>13, <1>14 DEF status, q, SynchronizedRow

-----------------------------------------------------------------------------
(* What a step may do to the records: h is the handler whose step it is, or  *)
(* None                                                                      *)

ProviderMoves ==
    \A s \in Subs :
        LET p == provider[s]
            q == provider'[s]
        IN  /\ \/ q.st = p.st
               \/ p.st = "NONE" /\ q.st = "APPROVAL_PENDING"
               \/ p.st = "APPROVAL_PENDING" /\ q.st = "ACTIVE" /\ Known(s)
               \/ p.st = "APPROVAL_PENDING" /\ q.st = "EXPIRED"
               \/ p.st \in {"ACTIVE", "SUSPENDED"}
                     /\ q.st \in {"ACTIVE", "SUSPENDED", "CANCELLED"}
            /\ q.by = "upgrade" => p.by = "upgrade" \/ \E u \in Superseding(s) : Approved(u)

RowMoves(h) ==
    \A s \in Subs :
        LET r == row[s]
            q == row'[s]
        IN  /\ Known(s) => q.status # "NONE"
            /\ ~Known(s) /\ q.status # "NONE" =>
                  account = h /\ h # None /\ provider[s].st # "NONE"
            /\ q.status = "ACTIVE" => r.status = "ACTIVE" \/ Approved(s)
            /\ q.status \in Supported =>
                  \/ q.open = <<q.tier>>
                  \/ q.open = <<>> /\ \E u \in Subs : upgrade'[u].source = s /\ upgrade'[u].activated
                  \/ r.status \in Supported /\ q.open = r.open /\ q.tier = r.tier

UpgradeMoves ==
    \A u \in Subs :
        LET c == upgrade[u]
            d == upgrade'[u]
        IN  \/ d = c
            \/ /\ c.status # "NONE" /\ d.status # "NONE" /\ d.source = c.source
               /\ c.activated => d.activated
               /\ d.activated => c.activated \/ Approved(u)
               /\ d.status = "COMPLETED" => c.status = "COMPLETED" \/ Stopped(c.source)
            \/ /\ ~Known(u) /\ row'[u].status # "NONE" /\ Known(d.source)
               /\ d.status = "PENDING_APPROVAL" /\ ~d.activated

DowngradeMoves ==
    \A s \in Subs : downgrade'[s].status # "NONE" => downgrade[s].status # "NONE" \/ Known(s)

AccountMoves(h) == account' = account \/ (account \in {None, h} /\ account' \in {None, h})

Moves(h) ==
    /\ ProviderMoves /\ RowMoves(h) /\ UpgradeMoves /\ DowngradeMoves /\ AccountMoves(h)
    /\ story' = story

(* What stands, stands.                                                      *)
LEMMA MovesKeep ==
    ASSUME TypeOK, TypeOK', RecordsFit, NEW h, Moves(h), NEW s \in Subs
    PROVE  /\ provider[s].st # "NONE" => provider'[s].st # "NONE"
           /\ Approved(s) => Approved(s)'
           /\ Stopped(s) => provider'[s].st = provider[s].st
           /\ Known(s) => Known(s)'
           /\ upgrade[s].status # "NONE" =>
                 /\ upgrade'[s].status # "NONE"
                 /\ upgrade'[s].source = upgrade[s].source
                 /\ upgrade[s].activated => upgrade'[s].activated
<1>1. provider[s].st # "NONE" => provider'[s].st # "NONE"
    BY DEF Moves, ProviderMoves
<1>2. Approved(s) => Approved(s)'
    BY DEF Moves, ProviderMoves, Approved
<1>3. Stopped(s) => provider'[s].st = provider[s].st
    BY DEF Moves, ProviderMoves, Stopped
<1>4. Known(s) => Known(s)'
    BY DEF Moves, RowMoves, Known
<1>5. upgrade[s].status # "NONE" =>
          /\ upgrade'[s].status # "NONE"
          /\ upgrade'[s].source = upgrade[s].source
          /\ upgrade[s].activated => upgrade'[s].activated
    BY DEF Moves, UpgradeMoves, RecordsFit
<1> QED BY <1>1, <1>2, <1>3, <1>4, <1>5

LEMMA MovesKeepSuperseding ==
    ASSUME TypeOK, TypeOK', RecordsFit, NEW h, Moves(h), NEW s \in Subs, NEW u \in Superseding(s)
    PROVE  u \in Superseding(s)'
<1>1. u \in Subs /\ upgrade[u].source = s /\ upgrade[u].activated /\ upgrade[u].status # "NONE"
    BY DEF Superseding, RecordsFit
<1>2. upgrade'[u].source = s /\ upgrade'[u].activated
    BY <1>1, MovesKeep
<1> QED BY <1>1, <1>2 DEF Superseding

LEMMA MovesKeepRecords ==
    ASSUME TypeOK, TypeOK', RecordsFit, NEW h, Moves(h)
    PROVE  RecordsFit'
<1> SUFFICES ASSUME NEW s \in Subs
             PROVE  /\ Known(s)' => provider'[s].st # "NONE"
                    /\ Approved(s)' => Known(s)'
                    /\ row'[s].status = "ACTIVE" => Approved(s)'
                    /\ downgrade'[s].status # "NONE" => Known(s)'
                    /\ upgrade'[s].status # "NONE" => Known(s)' /\ Known(upgrade[s].source)'
                    /\ upgrade'[s].activated => upgrade'[s].status # "NONE" /\ Approved(s)'
    BY DEF RecordsFit
<1>1. Known(s)' => provider'[s].st # "NONE"
    BY MovesKeep DEF Moves, RowMoves, Known, RecordsFit
<1>2. Approved(s)' => Known(s)'
  <2>1. Approved(s)' => Approved(s) \/ Known(s)
      BY DEF Moves, ProviderMoves, Approved
  <2> QED BY <2>1, MovesKeep DEF RecordsFit
<1>3. row'[s].status = "ACTIVE" => Approved(s)'
    BY MovesKeep DEF Moves, RowMoves, RecordsFit
<1>4. downgrade'[s].status # "NONE" => Known(s)'
    BY MovesKeep DEF Moves, DowngradeMoves, RecordsFit
<1>5. upgrade'[s].status # "NONE" => Known(s)' /\ Known(upgrade[s].source)'
  <2>1. CASE upgrade[s].status # "NONE"
    <3>1. Known(s) /\ Known(upgrade[s].source) /\ upgrade[s].source \in Subs
        BY <2>1 DEF RecordsFit, Known
    <3>2. Known(s)' /\ upgrade'[s].source = upgrade[s].source
        BY <2>1, <3>1, MovesKeep
    <3>3. row'[upgrade[s].source].status # "NONE"
        BY <3>1, MovesKeep DEF Known
    <3> QED BY <3>1, <3>2, <3>3 DEF Known
  <2>2. CASE upgrade[s].status = "NONE" /\ upgrade'[s].status # "NONE"
    <3>1. row'[s].status # "NONE" /\ Known(upgrade'[s].source)
        BY <2>2 DEF Moves, UpgradeMoves
    <3>2. upgrade'[s].source \in Subs /\ row'[upgrade'[s].source].status # "NONE"
        BY <3>1, MovesKeep DEF Known
    <3> QED BY <3>1, <3>2 DEF Known
  <2> QED BY <2>1, <2>2
<1>6. upgrade'[s].activated => upgrade'[s].status # "NONE" /\ Approved(s)'
    BY MovesKeep DEF Moves, UpgradeMoves, RecordsFit
<1> QED BY <1>1, <1>2, <1>3, <1>4, <1>5, <1>6

(* A handler that does not step is not disturbed.                            *)
LEMMA OthersFit ==
    ASSUME TypeOK, TypeOK', RecordsFit, NEW h, Moves(h), NEW k \in Handlers, k # h,
           run'[k] = run[k], HandlerFits(k)
    PROVE  HandlerFits(k)'
<1> DEFINE x == run[k]
<1>1. x \in RunSet /\ k # None
    BY HandlersAssumption DEF TypeOK, None
<1>2. ReadFits(k)'
  <2> SUFFICES ASSUME x.at \in {"verify", "sync"}
               PROVE  /\ x.s \in Subs /\ provider'[x.s].st # "NONE"
                      /\ x.read.st \in ProviderStates \ {"NONE"}
                      /\ x.read.st \in {"ACTIVE", "SUSPENDED", "CANCELLED"} =>
                            provider'[x.s].st \in {"ACTIVE", "SUSPENDED", "CANCELLED"}
                      /\ x.read.st \in {"CANCELLED", "EXPIRED"} =>
                            provider'[x.s].st \in {"CANCELLED", "EXPIRED"}
      BY DEF ReadFits, Approved, Stopped
  <2>1. x.s \in Subs /\ provider[x.s].st # "NONE" /\ x.read.st \in ProviderStates \ {"NONE"}
        /\ (x.read.st \in {"ACTIVE", "SUSPENDED", "CANCELLED"} => Approved(x.s))
        /\ (x.read.st \in {"CANCELLED", "EXPIRED"} => Stopped(x.s))
      BY DEF HandlerFits, ReadFits
  <2> QED BY <2>1, MovesKeep DEF Approved, Stopped
<1>3. WorkFits(k)'
  <2>1. x.at \in {"sync", "settle", "advance", "intend", "stop"} \cup Replacing =>
            x.s \in Subs /\ row'[x.s].status # "NONE"
      BY MovesKeep DEF HandlerFits, WorkFits, Known
  <2>2. x.at \in {"ask", "commit"} =>
            /\ account' = k
            /\ x.op \in Requests
            /\ x.op # "create" => x.s \in Subs /\ row'[x.s].status # "NONE"
      BY <1>1, MovesKeep DEF HandlerFits, WorkFits, Known, Moves, AccountMoves
  <2>3. x.at = "commit" /\ x.op # "downgrade" =>
            /\ x.u \in Subs /\ ~(x.u \in Subs /\ row'[x.u].status # "NONE")
            /\ provider'[x.u].st # "NONE"
    <3> SUFFICES ASSUME x.at = "commit", x.op # "downgrade"
                 PROVE  /\ x.u \in Subs /\ row'[x.u].status = "NONE"
                        /\ provider'[x.u].st # "NONE"
        OBVIOUS
    <3>1. x.u \in Subs /\ ~Known(x.u) /\ provider[x.u].st # "NONE" /\ account = k
        BY DEF HandlerFits, WorkFits
    <3> QED BY <1>1, <3>1, MovesKeep DEF Moves, RowMoves
  <2> QED BY <2>1, <2>2, <2>3 DEF WorkFits, Known, HandlerFits
<1>4. CleanupFits(k)'
  <2>1. x.at \in Replacing =>
            /\ x.u \in Subs /\ upgrade[x.u].status # "NONE" /\ upgrade'[x.u].status # "NONE"
            /\ provider'[x.u].st \in {"ACTIVE", "SUSPENDED", "CANCELLED"}
            /\ upgrade'[x.u].source = upgrade[x.u].source
            /\ upgrade[x.u].activated => upgrade'[x.u].activated
      BY MovesKeep DEF HandlerFits, CleanupFits, Approved
  <2>2. x.at \in Replacing \ {"promote"} => upgrade'[x.u].activated
      BY <2>1 DEF HandlerFits, CleanupFits
  <2>3. x.at \in {"retire", "complete"} => provider'[upgrade'[x.u].source].st = "CANCELLED"
    <3> SUFFICES ASSUME x.at \in {"retire", "complete"}
                 PROVE  provider'[upgrade'[x.u].source].st = "CANCELLED"
        OBVIOUS
    <3>1. x.at \in Replacing
        BY DEF Replacing
    <3>2. upgrade[x.u].source \in Subs /\ provider[upgrade[x.u].source].st = "CANCELLED"
        BY <2>1, <3>1 DEF HandlerFits, CleanupFits, RecordsFit, Known
    <3> QED BY <2>1, <3>1, <3>2, MovesKeep DEF Stopped
  <2>4. x.at = "settle" /\ x.op = "event" /\ x.read.st = "ENDED" =>
            provider'[x.s].st \in {"CANCELLED", "EXPIRED"}
      BY MovesKeep DEF HandlerFits, CleanupFits, WorkFits, Known, Stopped
  <2> QED BY <2>1, <2>2, <2>3, <2>4 DEF CleanupFits, Approved, Stopped
<1> QED BY <1>2, <1>3, <1>4 DEF HandlerFits

-----------------------------------------------------------------------------
(* What follows of a step that makes these moves only                        *)

LEMMA MovesKeepPeriods ==
    ASSUME TypeOK, TypeOK', RecordsFit, NEW h, Moves(h), PeriodsFollowTier
    PROVE  PeriodsFollowTier'
<1> SUFFICES ASSUME NEW s \in Subs, row'[s].status \in Supported
             PROVE  \/ row'[s].open = <<row'[s].tier>>
                    \/ row'[s].open = <<>> /\ Superseding(s)' # {}
    BY DEF PeriodsFollowTier
<1>1. CASE row'[s].open = <<row'[s].tier>>
    BY <1>1
<1>2. CASE row'[s].open = <<>> /\ \E u \in Subs : upgrade'[u].source = s /\ upgrade'[u].activated
    BY <1>2 DEF Superseding
<1>3. CASE row[s].status \in Supported /\ row'[s].open = row[s].open /\ row'[s].tier = row[s].tier
  <2>1. \/ row[s].open = <<row[s].tier>>
        \/ row[s].open = <<>> /\ Superseding(s) # {}
      BY <1>3 DEF PeriodsFollowTier
  <2> QED BY <1>3, <2>1, MovesKeepSuperseding
<1> QED BY <1>1, <1>2, <1>3 DEF Moves, RowMoves

LEMMA MovesKeepReplacement ==
    ASSUME TypeOK, TypeOK', RecordsFit, NEW h, Moves(h), ReplacementIsExact
    PROVE  ReplacementIsExact'
<1>1. ASSUME NEW s \in Subs, provider'[s].by = "upgrade"
      PROVE  \E u \in Superseding(s)' : Approved(u)'
  <2>1. PICK u \in Superseding(s) : Approved(u)
      BY <1>1 DEF Moves, ProviderMoves, ReplacementIsExact, Approved
  <2> QED BY <2>1, MovesKeep, MovesKeepSuperseding DEF Superseding
<1>2. ASSUME NEW u \in Subs, upgrade'[u].status = "COMPLETED"
      PROVE  Stopped(upgrade[u].source)'
  <2>1. upgrade[u].status # "NONE" /\ upgrade'[u].source = upgrade[u].source
        /\ Stopped(upgrade[u].source)
      BY <1>2 DEF Moves, UpgradeMoves, ReplacementIsExact, Stopped
  <2>2. upgrade[u].source \in Subs
      BY <2>1 DEF RecordsFit, Known
  <2>3. provider'[upgrade[u].source].st = provider[upgrade[u].source].st
      BY <2>1, <2>2, MovesKeep
  <2> QED BY <2>1, <2>3 DEF Stopped
<1> QED BY <1>1, <1>2 DEF ReplacementIsExact, Approved, Stopped

(* The step of a handler, and one of PayPal or the calendar.                 *)
Fine(h) ==
    /\ TypeOK'
    /\ Moves(h)
    /\ \A k \in Handlers \ {h} : run'[k] = run[k]
    /\ h \in Handlers => HandlerFits(h)'

Safe == RecordsFit /\ HandlersFit /\ PeriodsFollowTier /\ ReplacementIsExact

LEMMA FineIsSafe ==
    ASSUME TypeOK, Safe, NEW h, Fine(h)
    PROVE  TypeOK' /\ Safe'
<1>1. TypeOK' /\ Moves(h) /\ RecordsFit
    BY DEF Fine, Safe
<1>2. ASSUME NEW k \in Handlers PROVE HandlerFits(k)'
    BY <1>1, <1>2, OthersFit DEF Fine, Safe, HandlersFit
<1> QED
    BY <1>1, <1>2, MovesKeepRecords, MovesKeepPeriods, MovesKeepReplacement
    DEF Safe, HandlersFit

LEMMA Unmoved ==
    ASSUME TypeOK, RecordsFit, NEW h
    PROVE  /\ provider' = provider => ProviderMoves
           /\ row' = row => RowMoves(h)
           /\ upgrade' = upgrade => UpgradeMoves
           /\ downgrade' = downgrade => DowngradeMoves
           /\ account' = account => AccountMoves(h)
<1>1. provider' = provider => ProviderMoves
    BY DEF ProviderMoves
<1>2. row' = row => RowMoves(h)
    BY DEF RowMoves, Known
<1>3. upgrade' = upgrade => UpgradeMoves
    BY DEF UpgradeMoves
<1>4. downgrade' = downgrade => DowngradeMoves
    BY DEF DowngradeMoves
<1> QED BY <1>1, <1>2, <1>3, <1>4 DEF AccountMoves

-----------------------------------------------------------------------------
(* Where a handler goes                                                      *)

LEMMA IdleIsARun ==
    /\ Idle \in RunSet
    /\ Idle.at = "idle" /\ Idle.op = "none" /\ Idle.s = None /\ Idle.tier = 0 /\ Idle.bill = 0
    /\ Idle.read = NoRead /\ Idle.u = None /\ NoRead \in ReadSet
BY DEF Idle, NoRead, RunSet, ReadSet, Steps, Errands, Reference, ProviderStates, None

LEMMA RestFits ==
    ASSUME NEW h \in Handlers,
           run'[h].at \in {"idle", "canonical"} \/ (run'[h].at = "mark" /\ run'[h].s \in Subs)
    PROVE  HandlerFits(h)'
BY DEF HandlerFits, ReadFits, WorkFits, CleanupFits, Replacing

LEMMA DoneFits ==
    ASSUME TypeOK, NEW h \in Handlers, Done(h)
    PROVE  /\ run' \in [Handlers -> RunSet]
           /\ \A k \in Handlers \ {h} : run'[k] = run[k]
           /\ run'[h] = Idle
           /\ HandlerFits(h)'
<1>1. run' = [run EXCEPT ![h] = Idle]
    BY DEF Done
<1>2. run' \in [Handlers -> RunSet] /\ run'[h] = Idle /\ \A k \in Handlers \ {h} : run'[k] = run[k]
    BY <1>1, IdleIsARun DEF TypeOK
<1> QED BY <1>2, IdleIsARun, RestFits

LEMMA GotoFits ==
    ASSUME TypeOK, NEW h \in Handlers, NEW step \in Steps, Goto(h, step)
    PROVE  /\ run' \in [Handlers -> RunSet]
           /\ \A k \in Handlers \ {h} : run'[k] = run[k]
           /\ run'[h].at = step
           /\ run'[h].op = run[h].op /\ run'[h].s = run[h].s /\ run'[h].tier = run[h].tier
           /\ run'[h].bill = run[h].bill /\ run'[h].read = run[h].read /\ run'[h].u = run[h].u
<1>1. PICK x \in RunSet : x = run[h]
    BY DEF TypeOK
<1>2. PICK y : y = [x EXCEPT !.at = step]
    OBVIOUS
<1>3. y \in RunSet /\ y.at = step /\ y.op = x.op /\ y.s = x.s /\ y.tier = x.tier
      /\ y.bill = x.bill /\ y.read = x.read /\ y.u = x.u
    BY <1>1, <1>2 DEF RunSet
<1>4. run' = [run EXCEPT ![h] = y]
    BY <1>1, <1>2 DEF Goto
<1> QED BY <1>1, <1>3, <1>4 DEF TypeOK

LEMMA ReturnFits ==
    ASSUME TypeOK, NEW h \in Handlers, run[h].s \in Subs, Return(h)
    PROVE  /\ run' \in [Handlers -> RunSet]
           /\ \A k \in Handlers \ {h} : run'[k] = run[k]
           /\ \/ run'[h].at \in {"idle", "canonical"} /\ run'[h].s = None
              \/ run'[h].at = "mark" /\ run'[h].s = run[h].s /\ run'[h].bill = run[h].bill
           /\ HandlerFits(h)'
<1>1. PICK x \in RunSet : x = run[h]
    BY DEF TypeOK
<1>2. PICK y : y = IF x.bill # 0 THEN [Idle EXCEPT !.at = "mark", !.s = x.s, !.bill = x.bill]
                   ELSE IF x.op = "target" THEN [Idle EXCEPT !.at = "canonical"] ELSE Idle
    OBVIOUS
<1>3. run' = [run EXCEPT ![h] = y]
    BY <1>1, <1>2 DEF Return
<1>4. x.s \in Reference /\ x.bill \in Nat
    BY DEF RunSet
<1>5. y \in RunSet /\ \/ y.at \in {"idle", "canonical"} /\ y.s = None
                      \/ y.at = "mark" /\ y.s = x.s /\ y.bill = x.bill
  <2>1. CASE x.bill # 0
    <3>1. y = [Idle EXCEPT !.at = "mark", !.s = x.s, !.bill = x.bill]
        BY <1>2, <2>1
    <3>2. y \in RunSet /\ y.at = "mark" /\ y.s = x.s /\ y.bill = x.bill
        BY <1>4, <3>1, IdleIsARun DEF RunSet, Steps
    <3> QED BY <3>2
  <2>2. CASE x.bill = 0
      BY <1>2, <1>4, <2>2, IdleIsARun DEF RunSet, Steps
  <2> QED BY <2>1, <2>2
<1>6. run'[h] = y /\ run' \in [Handlers -> RunSet] /\ \A k \in Handlers \ {h} : run'[k] = run[k]
    BY <1>3, <1>5 DEF TypeOK
<1>7. HandlerFits(h)'
    BY <1>1, <1>5, <1>6, RestFits
<1> QED BY <1>1, <1>5, <1>6, <1>7

LEMMA RunMoves ==
    ASSUME TypeOK, NEW h \in Handlers, NEW y \in RunSet, run' = [run EXCEPT ![h] = y]
    PROVE  /\ run' \in [Handlers -> RunSet]
           /\ \A k \in Handlers \ {h} : run'[k] = run[k]
           /\ run'[h] = y
BY DEF TypeOK

(* A handler that has just read PayPal.                                      *)
LEMMA FreshReadFits ==
    ASSUME NEW h \in Handlers, NEW s \in Subs, provider' \in [Subs -> ProviderSet],
           run'[h].s = s, run'[h].at \in {"verify", "sync"},
           run'[h].at = "sync" => row'[s].status # "NONE",
           provider'[s].st # "NONE", run'[h].read.st = provider'[s].st
    PROVE  HandlerFits(h)'
<1>1. provider'[s].st \in ProviderStates
    BY DEF ProviderSet
<1>2. ReadFits(h)'
    BY <1>1 DEF ReadFits, Approved, Stopped
<1>3. WorkFits(h)'
    BY DEF WorkFits, Replacing, Known
<1>4. CleanupFits(h)'
    BY DEF CleanupFits, Replacing
<1> QED BY <1>2, <1>3, <1>4 DEF HandlerFits

LEMMA OnlyARunMoves ==
    ASSUME TypeOK, RecordsFit, NEW h \in Handlers, NEW y \in RunSet, run' = [run EXCEPT ![h] = y],
           HandlerFits(h)', UNCHANGED <<provider, rows, account, story>>
    PROVE  Fine(h)
<1>1. TypeOK'
    BY RunMoves DEF TypeOK, rows
<1>2. Moves(h)
    BY Unmoved DEF Moves, rows
<1> QED BY <1>1, <1>2, RunMoves DEF Fine

-----------------------------------------------------------------------------
(* The steps: reading PayPal                                                 *)

LEMMA DeliverFits ==
    ASSUME TypeOK, RecordsFit, NEW h \in Handlers, NEW s \in Subs, NEW t, Deliver(h, s, t)
    PROVE  Fine(h)
<1>1. PICK y : y = [Idle EXCEPT !.at = "verify", !.op = "event", !.s = s, !.bill = t, !.read = Seen(s)]
    OBVIOUS
<1>2. t \in Nat
  <2>1. provider[s].bills \in Seq(Outcomes)
      BY DEF TypeOK, ProviderSet
  <2> QED BY <2>1 DEF Deliver
<1>3. y \in RunSet /\ y.at = "verify" /\ y.s = s /\ y.read = Seen(s)
    BY <1>1, <1>2, IdleIsARun, SeenFits DEF RunSet, Steps, Errands, Reference
<1>4. run' = [run EXCEPT ![h] = y] /\ UNCHANGED <<provider, rows, account, story>>
      /\ provider[s].st # "NONE"
    BY <1>1 DEF Deliver
<1>5. HandlerFits(h)'
    BY <1>3, <1>4, RunMoves, SeenFits, FreshReadFits DEF TypeOK
<1> QED BY <1>3, <1>4, <1>5, OnlyARunMoves

LEMMA ReconcileTargetFits ==
    ASSUME TypeOK, RecordsFit, NEW h \in Handlers, NEW u \in Subs, ReconcileTarget(h, u)
    PROVE  Fine(h)
<1>1. PICK y : y = [Idle EXCEPT !.at = "sync", !.op = "target", !.s = u, !.tier = row[u].tier,
                                !.read = Seen(u)]
    OBVIOUS
<1>2. row[u].tier \in Nat
    BY DEF TypeOK, RowSet
<1>3. y \in RunSet /\ y.at = "sync" /\ y.s = u /\ y.read = Seen(u)
    BY <1>1, <1>2, IdleIsARun, SeenFits DEF RunSet, Steps, Errands, Reference
<1>4. row[u].status # "NONE" /\ provider[u].st # "NONE"
    BY DEF ReconcileTarget, LiveUpgrades, Live, RecordsFit, Known
<1>5. UNCHANGED <<provider, rows, account, story>>
    BY DEF ReconcileTarget
<1>6. CASE run' = [run EXCEPT ![h] = y]
  <2>1. HandlerFits(h)'
      BY <1>3, <1>4, <1>5, <1>6, RunMoves, SeenFits, FreshReadFits DEF TypeOK, rows
  <2> QED BY <1>3, <1>5, <1>6, <2>1, OnlyARunMoves
<1>7. CASE run' = [run EXCEPT ![h] = Idle]
    BY <1>5, <1>7, DoneFits, IdleIsARun, OnlyARunMoves DEF Done
<1> QED BY <1>1, <1>6, <1>7 DEF ReconcileTarget

LEMMA ReconcileCanonicalFits ==
    ASSUME TypeOK, RecordsFit, NEW h \in Handlers, ReconcileCanonical(h)
    PROVE  Fine(h)
<1>1. PICK y : y = [Idle EXCEPT !.at = "verify", !.op = "reconcile", !.s = Canonical,
                                !.read = Seen(Canonical)]
    OBVIOUS
<1>2. UNCHANGED <<provider, rows, account, story>>
    BY DEF ReconcileCanonical
<1>3. CASE Canonical # None /\ run' = [run EXCEPT ![h] = y]
  <2>1. Canonical \in Subs /\ provider[Canonical].st # "NONE"
      BY <1>3, CanonicalFits DEF Known, RecordsFit
  <2>2. y \in RunSet /\ y.at = "verify" /\ y.s = Canonical /\ y.read = Seen(Canonical)
      BY <1>1, <2>1, IdleIsARun, SeenFits DEF RunSet, Steps, Errands, Reference
  <2>3. HandlerFits(h)'
      BY <1>2, <1>3, <2>1, <2>2, RunMoves, SeenFits, FreshReadFits DEF TypeOK
  <2> QED BY <1>2, <1>3, <2>2, <2>3, OnlyARunMoves
<1>4. CASE run' = [run EXCEPT ![h] = Idle]
    BY <1>2, <1>4, DoneFits, IdleIsARun, OnlyARunMoves DEF Done
<1> QED BY <1>1, <1>3, <1>4 DEF ReconcileCanonical

LEMMA VerifyFits ==
    ASSUME TypeOK, RecordsFit, NEW h \in Handlers, HandlerFits(h), Verify(h)
    PROVE  Fine(h)
<1>1. PICK x \in RunSet : x = run[h]
    BY DEF TypeOK
<1>2. PICK flag \in BOOLEAN : flag = (x.op = "event" /\ Superseding(x.s) # {})
    OBVIOUS
<1>3. PICK y : y = [x EXCEPT !.at = "sync", !.tier = x.read.plan, !.superseded = flag]
    OBVIOUS
<1>4. x.at = "verify" /\ UNCHANGED <<provider, rows, account, story>>
    BY <1>1 DEF Verify
<1>5. y \in RunSet /\ y.at = "sync" /\ y.s = x.s /\ y.read = x.read
    BY <1>2, <1>3 DEF RunSet, ReadSet, Steps
<1>6. CASE row[x.s].status # "NONE" /\ run' = [run EXCEPT ![h] = y]
  <2>1. run'[h] = y
      BY <1>5, <1>6, RunMoves
  <2>2. ReadFits(h)'
      BY <1>1, <1>4, <1>5, <2>1 DEF HandlerFits, ReadFits, Approved, Stopped
  <2>3. WorkFits(h)'
      BY <1>1, <1>4, <1>5, <1>6, <2>1 DEF HandlerFits, ReadFits, WorkFits, Replacing, Known, rows
  <2>4. CleanupFits(h)'
      BY <1>5, <2>1 DEF CleanupFits, Replacing
  <2> QED BY <1>4, <1>5, <1>6, <2>2, <2>3, <2>4, OnlyARunMoves DEF HandlerFits
<1>7. CASE run' = [run EXCEPT ![h] = Idle]
    BY <1>4, <1>7, DoneFits, IdleIsARun, OnlyARunMoves DEF Done
<1> QED BY <1>1, <1>2, <1>3, <1>6, <1>7 DEF Verify

(* What the synchronization of s writes: p is what it makes of the reading,  *)
(* q also keeps that reading's age.                                          *)
SynchronizedAs(h, s, failedAt, read, p, q) ==
    LET x == run[h]
    IN  /\ failedAt \in {x.bill} \cup ({x.read.failed} \ {0})
        /\ read.st = x.read.st /\ read.failed = x.read.failed /\ read.bills = x.read.bills
        /\ SynchronizedRow(p, row[s], Kind(h), x.bill, read, x.tier, failedAt, x.superseded)
        /\ q.status = p.status /\ q.tier = p.tier /\ q.open = p.open
        /\ q.failure = p.failure /\ q.recovery = p.recovery
        /\ q.late = IF Outdated(s, read) THEN Newest(s) ELSE p.late
        /\ row' = [row EXCEPT ![s] = q]

LEMMA Synchronizes ==
    ASSUME TypeOK, NEW h \in Handlers, Synchronize(h), NEW s \in Subs, s = run[h].s
    PROVE  \E failedAt \in Nat, read \in ReadSet, p \in RowSet, q \in RowSet :
              SynchronizedAs(h, s, failedAt, read, p, q)
<1>1. PICK x \in RunSet : x = run[h]
    BY DEF TypeOK
<1>2. x.bill \in Nat /\ x.read \in ReadSet /\ x.tier \in Nat /\ x.superseded \in BOOLEAN
      /\ x.read.failed \in Nat
    BY DEF RunSet, ReadSet
<1>3. PICK r \in RowSet : r = row[s]
    BY DEF TypeOK
<1>4. PICK failedAt \in {x.bill} \cup ({x.read.failed} \ {0}), read \in Answers(x.read) :
          row' = [row EXCEPT ![s] =
                     Aged(Synchronized(r, Kind(h), x.bill, read, x.tier, failedAt, x.superseded),
                          s, read)]
    BY <1>1, <1>3 DEF Synchronize
<1>6. read \in ReadSet /\ read.st = x.read.st /\ read.failed = x.read.failed
      /\ read.bills = x.read.bills
    BY <1>2 DEF Answers, ReadSet
<1>7. PICK kind : kind = Kind(h)
    OBVIOUS
<1>8. PICK p : p = Synchronized(r, kind, x.bill, read, x.tier, failedAt, x.superseded)
    OBVIOUS
<1>9. SynchronizedRow(p, r, kind, x.bill, read, x.tier, failedAt, x.superseded)
    BY <1>2, <1>6, <1>8, SynchronizedFits
<1>10. p \in RowSet /\ p.late \in Nat
    BY <1>9 DEF SynchronizedRow, RowSet
<1>11. PICK late : late = IF Outdated(s, read) THEN Newest(s) ELSE p.late
    OBVIOUS
<1>12. late \in Nat
    BY <1>10, <1>11 DEF Newest, TypeOK, ProviderSet
<1>13. PICK q : q = [p EXCEPT !.late = late]
    OBVIOUS
<1>14. q \in RowSet /\ q.late = late /\ q.status = p.status /\ q.tier = p.tier
       /\ q.open = p.open /\ q.failure = p.failure /\ q.recovery = p.recovery
    BY <1>10, <1>12, <1>13 DEF RowSet
<1>15. row' = [row EXCEPT ![s] = q]
    BY <1>4, <1>7, <1>8, <1>11, <1>13 DEF Aged, Newest
<1>17. SynchronizedAs(h, s, failedAt, read, p, q)
    BY <1>1, <1>3, <1>6, <1>7, <1>9, <1>11, <1>14, <1>15 DEF SynchronizedAs
<1> QED BY <1>2, <1>6, <1>10, <1>14, <1>17

(* The synchronization writes what was read.                                 *)
LEMMA SynchronizeFits ==
    ASSUME TypeOK, RecordsFit, NEW h \in Handlers, HandlerFits(h), Synchronize(h)
    PROVE  Fine(h)
<1>1. PICK x \in RunSet : x = run[h]
    BY DEF TypeOK
<1>2. x.at = "sync" /\ UNCHANGED <<provider, upgrade, downgrade, event, account, story>>
    BY <1>1 DEF Synchronize
<1>3. x.s \in Subs /\ row[x.s].status # "NONE"
    BY <1>1, <1>2 DEF HandlerFits, WorkFits, Known
<1>4. PICK failedAt \in Nat, seen \in ReadSet, made \in RowSet, q \in RowSet :
          SynchronizedAs(h, x.s, failedAt, seen, made, q)
    BY <1>1, <1>3, Synchronizes
<1>7. row' = [row EXCEPT ![x.s] = q]
    BY <1>4 DEF SynchronizedAs
<1>9. /\ q \in RowSet
      /\ q.status # "NONE"
      /\ q.status \in Supported => q.open = <<q.tier>>
      /\ q.status = "ACTIVE" => x.read.st = "ACTIVE"
      /\ q.status = "ENDED" => x.read.st \notin {"APPROVAL_PENDING", "ACTIVE", "SUSPENDED"}
    BY <1>1, <1>4 DEF SynchronizedAs, SynchronizedRow
<1>10. row' \in [Subs -> RowSet] /\ row'[x.s] = q /\ \A s \in Subs \ {x.s} : row'[s] = row[s]
    BY <1>3, <1>7, <1>9 DEF TypeOK
<1>11. /\ x.read.st = "ACTIVE" => Approved(x.s)
       /\ x.read.st \in {"CANCELLED", "EXPIRED"} => Stopped(x.s)
       /\ x.read.st \in ProviderStates \ {"NONE"}
    BY <1>1, <1>2 DEF HandlerFits, ReadFits
<1>12. RowMoves(h)
  <2> SUFFICES ASSUME NEW s \in Subs
               PROVE  LET r == row[s]
                          p == row'[s]
                      IN  /\ Known(s) => p.status # "NONE"
                          /\ ~Known(s) /\ p.status # "NONE" =>
                                account = h /\ h # None /\ provider[s].st # "NONE"
                          /\ p.status = "ACTIVE" => r.status = "ACTIVE" \/ Approved(s)
                          /\ p.status \in Supported =>
                                \/ p.open = <<p.tier>>
                                \/ p.open = <<>> /\ \E u \in Subs : upgrade'[u].source = s
                                                                       /\ upgrade'[u].activated
                                \/ r.status \in Supported /\ p.open = r.open /\ p.tier = r.tier
      BY DEF RowMoves
  <2>1. CASE s = x.s
      BY <1>3, <1>9, <1>10, <1>11, <2>1 DEF Known
  <2>2. CASE s # x.s
      BY <1>10, <2>2 DEF Known
  <2> QED BY <2>1, <2>2
<1>13. PICK y : y = CASE x.op = "cancel" -> Idle
                      [] x.op = "verify" -> [x EXCEPT !.at = "intend", !.op = "cancel", !.read = NoRead]
                      [] OTHER -> [x EXCEPT !.at = "settle", !.superseded = FALSE,
                                            !.read = [NoRead EXCEPT !.st = q.status]]
    OBVIOUS
<1>14. run' = [run EXCEPT ![h] = y]
    BY <1>1, <1>10, <1>13 DEF Synchronize
<1>15. y \in RunSet /\ HandlerFits(h)'
  <2>1. CASE x.op = "cancel"
      BY <1>13, <1>14, <2>1, DoneFits, IdleIsARun DEF Done
  <2>2. CASE x.op = "verify"
    <3>1. y = [x EXCEPT !.at = "intend", !.op = "cancel", !.read = NoRead]
        BY <1>13, <2>2
    <3>2. y \in RunSet /\ y.at = "intend" /\ y.s = x.s
        BY <3>1, IdleIsARun DEF RunSet, Steps, Errands
    <3>3. run'[h] = y
        BY <1>14, <3>2, RunMoves
    <3> QED BY <1>3, <1>9, <1>10, <3>2, <3>3
            DEF HandlerFits, ReadFits, WorkFits, CleanupFits, Replacing, Known
  <2>3. CASE x.op \notin {"cancel", "verify"}
    <3>1. PICK read : read = [NoRead EXCEPT !.st = q.status]
        OBVIOUS
    <3>2. read \in ReadSet /\ read.st = q.status
        BY <1>9, <3>1, IdleIsARun DEF ReadSet, RowSet
    <3>3. y = [x EXCEPT !.at = "settle", !.superseded = FALSE, !.read = read]
        BY <1>13, <2>3, <3>1
    <3>4. y \in RunSet /\ y.at = "settle" /\ y.s = x.s /\ y.read = read /\ y.op = x.op
        BY <3>2, <3>3 DEF RunSet, Steps
    <3>5. run'[h] = y
        BY <1>14, <3>4, RunMoves
    <3>6. q.status = "ENDED" => Stopped(x.s)'
        BY <1>2, <1>9, <1>11 DEF ProviderStates, Stopped
    <3> QED BY <1>3, <1>9, <1>10, <3>2, <3>4, <3>5, <3>6
            DEF HandlerFits, ReadFits, WorkFits, CleanupFits, Replacing, Known, Stopped
  <2> QED BY <2>1, <2>2, <2>3
<1>16. TypeOK'
    BY <1>2, <1>10, <1>14, <1>15, RunMoves DEF TypeOK
<1>17. Moves(h)
    BY <1>2, <1>12, Unmoved DEF Moves
<1> QED BY <1>14, <1>15, <1>16, <1>17, RunMoves DEF Fine

-----------------------------------------------------------------------------
(* The steps: the change a subscription belongs to                           *)

LEMMA StatusMoves ==
    ASSUME TypeOK, NEW u \in Subs, upgrade[u].status # "NONE", NEW st \in UpgradeStates \ {"NONE"},
           st = "COMPLETED" => Stopped(upgrade[u].source),
           upgrade' = [upgrade EXCEPT ![u].status = st]
    PROVE  upgrade' \in [Subs -> UpgradeSet] /\ UpgradeMoves
<1>1. PICK c \in UpgradeSet : c = upgrade[u]
    BY DEF TypeOK
<1>2. PICK d : d = [c EXCEPT !.status = st]
    OBVIOUS
<1>3. d \in UpgradeSet /\ d.status = st /\ d.source = c.source /\ d.activated = c.activated
    BY <1>2 DEF UpgradeSet
<1>4. upgrade' = [upgrade EXCEPT ![u] = d]
    BY <1>1, <1>2
<1>5. upgrade' \in [Subs -> UpgradeSet] /\ upgrade'[u] = d
      /\ \A w \in Subs \ {u} : upgrade'[w] = upgrade[w]
    BY <1>3, <1>4 DEF TypeOK
<1> QED BY <1>1, <1>3, <1>5 DEF UpgradeMoves

LEMMA CompletedMoves ==
    ASSUME TypeOK, RecordsFit, NEW s \in Subs, Stopped(s), Completed(s)
    PROVE  upgrade' \in [Subs -> UpgradeSet] /\ UpgradeMoves
<1>1. CASE UNCHANGED upgrade
    BY <1>1 DEF TypeOK, UpgradeMoves
<1>2. CASE \E u \in Superseding(s) : upgrade' = [upgrade EXCEPT ![u].status = "COMPLETED"]
  <2>1. PICK u \in Superseding(s) : upgrade' = [upgrade EXCEPT ![u].status = "COMPLETED"]
      BY <1>2
  <2>2. u \in Subs /\ upgrade[u].source = s /\ upgrade[u].status # "NONE"
      BY DEF Superseding, RecordsFit
  <2>3. "COMPLETED" \in UpgradeStates \ {"NONE"}
      BY DEF UpgradeStates
  <2> QED BY <2>1, <2>2, <2>3, StatusMoves
<1> QED BY <1>1, <1>2 DEF Completed

LEMMA CleanupFailsMoves ==
    ASSUME TypeOK, NEW h \in Handlers, HandlerFits(h), run[h].at \in Replacing, CleanupFails(h)
    PROVE  /\ upgrade' \in [Subs -> UpgradeSet] /\ UpgradeMoves
           /\ run' \in [Handlers -> RunSet]
           /\ \A k \in Handlers \ {h} : run'[k] = run[k]
           /\ HandlerFits(h)'
<1>1. run[h].u \in Subs /\ upgrade[run[h].u].status # "NONE" /\ run[h].s \in Subs
    BY DEF HandlerFits, CleanupFits, WorkFits, Known
<1>2. "CLEANUP_FAILED" \in UpgradeStates \ {"NONE"} /\ "CLEANUP_FAILED" # "COMPLETED"
    BY DEF UpgradeStates, Live
<1>3. upgrade' = [upgrade EXCEPT ![run[h].u].status = "CLEANUP_FAILED"] /\ Return(h)
    BY DEF CleanupFails
<1>4. upgrade' \in [Subs -> UpgradeSet] /\ UpgradeMoves
    BY <1>1, <1>2, <1>3, StatusMoves
<1> QED BY <1>1, <1>3, <1>4, ReturnFits

(* The subscription that provider' ends at PayPal.                           *)
LEMMA EndMoves ==
    ASSUME TypeOK, NEW s \in Subs, provider[s].st \in {"ACTIVE", "SUSPENDED"},
           NEW who \in {"player", "upgrade"},
           who = "upgrade" => \E u \in Superseding(s) : Approved(u),
           provider' = [provider EXCEPT ![s].st = "CANCELLED", ![s].by = who]
    PROVE  /\ provider' \in [Subs -> ProviderSet] /\ ProviderMoves
           /\ provider'[s].st = "CANCELLED"
           /\ provider'[s].bills = provider[s].bills /\ provider'[s].plan = provider[s].plan
           /\ provider'[s].revision = provider[s].revision
           /\ \A o \in Subs \ {s} : provider'[o] = provider[o]
<1>1. PICK p \in ProviderSet : p = provider[s]
    BY DEF TypeOK
<1>2. PICK q : q = [p EXCEPT !.st = "CANCELLED", !.by = who]
    OBVIOUS
<1>3. q \in ProviderSet /\ q.st = "CANCELLED" /\ q.by = who /\ q.bills = p.bills
      /\ q.plan = p.plan /\ q.revision = p.revision
    BY <1>2 DEF ProviderSet, ProviderStates
<1>4. provider' = [provider EXCEPT ![s] = q]
    BY <1>1, <1>2 DEF TypeOK
<1>5. provider' \in [Subs -> ProviderSet] /\ provider'[s] = q
      /\ \A o \in Subs \ {s} : provider'[o] = provider[o]
    BY <1>3, <1>4 DEF TypeOK
<1>6. ProviderMoves
    BY <1>1, <1>3, <1>5 DEF ProviderMoves
<1> QED BY <1>1, <1>3, <1>5, <1>6

LEMMA SettleFits ==
    ASSUME TypeOK, RecordsFit, NEW h \in Handlers, HandlerFits(h), Settle(h)
    PROVE  Fine(h)
<1>1. PICK x \in RunSet : x = run[h]
    BY DEF TypeOK
<1>2. x.at = "settle" /\ UNCHANGED <<provider, row, event, account, story>>
    BY <1>1 DEF Settle
<1>3. x.s \in Subs /\ row[x.s].status # "NONE"
    BY <1>1, <1>2 DEF HandlerFits, WorkFits, Known
<1>4. upgrade' \in [Subs -> UpgradeSet] /\ UpgradeMoves
  <2>1. CASE UNCHANGED upgrade
      BY <2>1 DEF TypeOK, UpgradeMoves
  <2>2. CASE x.op = "event" /\ x.read.st = "ENDED" /\ Completed(x.s)
    <3>1. Stopped(x.s)
        BY <1>1, <1>2, <2>2 DEF HandlerFits, CleanupFits
    <3> QED BY <1>3, <2>2, <3>1, CompletedMoves
  <2> QED BY <1>1, <2>1, <2>2 DEF Settle
<1>5. downgrade' \in [Subs -> DowngradeSet] /\ DowngradeMoves
  <2>1. CASE downgrade' = downgrade
      BY <2>1 DEF TypeOK, DowngradeMoves
  <2>2. CASE downgrade' = [downgrade EXCEPT ![x.s].status = "COMPLETED"]
    <3>1. PICK d \in DowngradeSet : d = downgrade[x.s]
        BY <1>3 DEF TypeOK
    <3>2. PICK e : e = [d EXCEPT !.status = "COMPLETED"]
        OBVIOUS
    <3>3. e \in DowngradeSet /\ downgrade' = [downgrade EXCEPT ![x.s] = e]
        BY <2>2, <3>1, <3>2 DEF DowngradeSet
    <3> QED BY <1>3, <3>3 DEF TypeOK, DowngradeMoves, Known
  <2> QED BY <1>1, <2>1, <2>2 DEF Settle
<1>6. PICK y : y = [x EXCEPT !.at = "advance", !.read = NoRead, !.tier = 0]
    OBVIOUS
<1>7. y \in RunSet /\ y.at = "advance" /\ y.s = x.s
    BY <1>6, IdleIsARun DEF RunSet, Steps
<1>8. run' = [run EXCEPT ![h] = y]
    BY <1>1, <1>6 DEF Settle
<1>9. HandlerFits(h)'
    BY <1>2, <1>3, <1>7, <1>8, RunMoves
    DEF HandlerFits, ReadFits, WorkFits, CleanupFits, Replacing, Known
<1>10. TypeOK'
    BY <1>2, <1>4, <1>5, <1>7, <1>8, RunMoves DEF TypeOK
<1>11. Moves(h)
    BY <1>2, <1>4, <1>5, Unmoved DEF Moves
<1> QED BY <1>7, <1>8, <1>9, <1>10, <1>11, RunMoves DEF Fine

LEMMA AdvanceFits ==
    ASSUME TypeOK, RecordsFit, NEW h \in Handlers, HandlerFits(h), Advance(h)
    PROVE  Fine(h)
<1>1. PICK x \in RunSet : x = run[h]
    BY DEF TypeOK
<1>2. x.at = "advance" /\ UNCHANGED <<provider, row, downgrade, event, account, story>>
    BY <1>1 DEF Advance
<1>3. x.s \in Subs /\ row[x.s].status # "NONE"
    BY <1>1, <1>2 DEF HandlerFits, WorkFits, Known
<1>4. CASE x.s \in LiveUpgrades /\ Replaces(x.s)
  <2>1. upgrade' = upgrade
      BY <1>1, <1>4 DEF Advance
  <2>2. PICK at \in {"source", "promote"} : at = IF upgrade[x.s].activated THEN "source" ELSE "promote"
      OBVIOUS
  <2>3. PICK y : y = [x EXCEPT !.at = at, !.u = x.s]
      OBVIOUS
  <2>4. y \in RunSet /\ y.at = at /\ y.s = x.s /\ y.u = x.s
      BY <1>3, <2>3 DEF RunSet, Steps, Replacing, Reference
  <2>5. run' = [run EXCEPT ![h] = y]
      BY <1>1, <1>4, <2>2, <2>3 DEF Advance
  <2>6. run'[h] = y
      BY <2>4, <2>5, RunMoves
  <2>7. upgrade[x.s].status # "NONE" /\ Approved(x.s)
      BY <1>3, <1>4 DEF LiveUpgrades, Live, Replaces, RecordsFit
  <2>8. HandlerFits(h)'
      BY <1>2, <1>3, <2>1, <2>2, <2>4, <2>6, <2>7
      DEF HandlerFits, ReadFits, WorkFits, CleanupFits, Replacing, Known, Approved
  <2> QED BY <1>2, <2>1, <2>4, <2>5, <2>8, OnlyARunMoves DEF rows
<1>5. CASE ~(x.s \in LiveUpgrades /\ Replaces(x.s))
  <2>1. Return(h)
      BY <1>1, <1>5 DEF Advance
  <2>2. upgrade' \in [Subs -> UpgradeSet] /\ UpgradeMoves
    <3>1. CASE upgrade' = upgrade
        BY <3>1 DEF TypeOK, UpgradeMoves
    <3>2. CASE /\ x.s \in LiveUpgrades
               /\ upgrade' = [upgrade EXCEPT ![x.s].status = "ABANDONED"]
      <4>1. upgrade[x.s].status # "NONE"
          BY <3>2 DEF LiveUpgrades, Live
      <4>2. "ABANDONED" \in UpgradeStates \ {"NONE"}
          BY DEF UpgradeStates
      <4> QED BY <1>3, <3>2, <4>1, <4>2, StatusMoves
    <3> QED BY <1>1, <1>5, <3>1, <3>2 DEF Advance
  <2>3. TypeOK'
      BY <1>1, <1>2, <1>3, <2>1, <2>2, ReturnFits DEF TypeOK
  <2>4. Moves(h)
      BY <1>2, <2>2, Unmoved DEF Moves
  <2> QED BY <1>1, <1>3, <2>1, <2>3, <2>4, ReturnFits DEF Fine
<1> QED BY <1>4, <1>5

LEMMA PromoteFits ==
    ASSUME TypeOK, RecordsFit, NEW h \in Handlers, HandlerFits(h), Promote(h)
    PROVE  Fine(h)
<1>1. PICK u \in Subs : u = run[h].u
    BY DEF Promote, HandlerFits, CleanupFits, Replacing
<1>2. run[h].at = "promote" /\ upgrade[u].status # "NONE" /\ Approved(u) /\ Known(run[h].s)
      /\ Goto(h, "source") /\ UNCHANGED <<provider, downgrade, event, account, story>>
    BY <1>1 DEF Promote, HandlerFits, CleanupFits, WorkFits, Replacing
<1>3. PICK s \in Subs : s = upgrade[u].source
    BY <1>2 DEF RecordsFit, Known
<1>4. /\ row' \in [Subs -> RowSet] /\ RowMoves(h)
      /\ upgrade' \in [Subs -> UpgradeSet] /\ UpgradeMoves
      /\ upgrade'[u].activated /\ upgrade'[u].status # "NONE"
      /\ \A o \in Subs : row'[o].status = row[o].status
  <2>1. CASE upgrade[u].activated
    <3>1. row' = row /\ upgrade' = upgrade
        BY <1>1, <2>1 DEF Promote
    <3> QED BY <1>2, <2>1, <3>1, Unmoved DEF TypeOK
  <2>2. CASE ~upgrade[u].activated
    <3>1. /\ row' = [row EXCEPT ![s].open = <<>>]
          /\ upgrade' = [upgrade EXCEPT ![u].status = "TARGET_ACTIVE_CANCELLATION_PENDING",
                                        ![u].activated = TRUE]
        BY <1>1, <1>3, <2>2 DEF Promote
    <3>2. PICK c \in UpgradeSet : c = upgrade[u]
        BY DEF TypeOK
    <3>3. PICK d : d = [c EXCEPT !.status = "TARGET_ACTIVE_CANCELLATION_PENDING", !.activated = TRUE]
        OBVIOUS
    <3>4. d \in UpgradeSet /\ d.status = "TARGET_ACTIVE_CANCELLATION_PENDING" /\ d.source = c.source
          /\ d.activated = TRUE
        BY <3>3 DEF UpgradeSet, UpgradeStates, Live
    <3>5. upgrade' = [upgrade EXCEPT ![u] = d]
        BY <3>1, <3>2, <3>3 DEF TypeOK
    <3>6. upgrade' \in [Subs -> UpgradeSet] /\ upgrade'[u] = d
          /\ \A w \in Subs \ {u} : upgrade'[w] = upgrade[w]
        BY <3>4, <3>5 DEF TypeOK
    <3>7. UpgradeMoves
        BY <1>2, <3>2, <3>4, <3>6 DEF UpgradeMoves
    <3>8. PICK r \in RowSet : r = row[s]
        BY DEF TypeOK
    <3>9. PICK q : q = [r EXCEPT !.open = <<>>]
        OBVIOUS
    <3>10. q \in RowSet /\ q.open = <<>> /\ q.status = r.status
        BY <3>9 DEF RowSet
    <3>11. row' = [row EXCEPT ![s] = q]
        BY <3>1, <3>8, <3>9
    <3>12. row' \in [Subs -> RowSet] /\ row'[s] = q /\ \A o \in Subs \ {s} : row'[o] = row[o]
        BY <3>10, <3>11 DEF TypeOK
    <3>13. \E w \in Subs : upgrade'[w].source = s /\ upgrade'[w].activated
        BY <1>3, <3>2, <3>4, <3>6
    <3>14. RowMoves(h)
      <4> SUFFICES ASSUME NEW o \in Subs
                   PROVE  /\ Known(o) => row'[o].status # "NONE"
                          /\ ~Known(o) => row'[o].status = "NONE"
                          /\ row'[o].status = "ACTIVE" => row[o].status = "ACTIVE"
                          /\ row'[o].status \in Supported =>
                                \/ row'[o].open = <<>> /\ \E w \in Subs : upgrade'[w].source = o
                                                                             /\ upgrade'[w].activated
                                \/ row[o].status \in Supported /\ row'[o].open = row[o].open
                                      /\ row'[o].tier = row[o].tier
          BY DEF RowMoves
      <4>1. CASE o = s
          BY <3>8, <3>10, <3>12, <3>13, <4>1 DEF Known
      <4>2. CASE o # s
          BY <3>12, <4>2 DEF Known
      <4> QED BY <4>1, <4>2
    <3> QED BY <3>4, <3>6, <3>7, <3>8, <3>10, <3>12, <3>14
  <2> QED BY <2>1, <2>2
<1>5. "source" \in Steps
    BY DEF Steps, Replacing
<1>6. HandlerFits(h)'
    BY <1>1, <1>2, <1>4, <1>5, GotoFits
    DEF HandlerFits, ReadFits, WorkFits, CleanupFits, Replacing, Known, Approved
<1>7. TypeOK'
    BY <1>2, <1>4, <1>5, GotoFits DEF TypeOK
<1>8. Moves(h)
    BY <1>2, <1>4, Unmoved DEF Moves
<1> QED BY <1>2, <1>5, <1>6, <1>7, <1>8, GotoFits DEF Fine

LEMMA LookAtSourceFits ==
    ASSUME TypeOK, RecordsFit, NEW h \in Handlers, HandlerFits(h), LookAtSource(h)
    PROVE  Fine(h)
<1>1. PICK u \in Subs : u = run[h].u
    BY DEF LookAtSource, HandlerFits, CleanupFits, Replacing
<1>2. run[h].at = "source" /\ upgrade[u].status # "NONE" /\ upgrade[u].activated /\ Approved(u)
      /\ Known(run[h].s) /\ UNCHANGED <<provider, row, downgrade, event, account, story>>
    BY <1>1 DEF LookAtSource, HandlerFits, CleanupFits, WorkFits, Replacing
<1>3. CASE provider[upgrade[u].source].st = "ACTIVE"
  <2>1. upgrade' = [upgrade EXCEPT ![u].status = "TARGET_ACTIVE_CANCELLATION_PENDING"]
        /\ Goto(h, "replace")
      BY <1>1, <1>3 DEF LookAtSource
  <2>2. "TARGET_ACTIVE_CANCELLATION_PENDING" \in UpgradeStates \ {"NONE"}
      BY DEF UpgradeStates, Live
  <2>3. upgrade' \in [Subs -> UpgradeSet] /\ UpgradeMoves
      BY <1>2, <2>1, <2>2, StatusMoves
  <2>4. upgrade'[u].status # "NONE" /\ upgrade'[u].activated
      BY <1>2, <2>3 DEF UpgradeMoves, RecordsFit
  <2>5. "replace" \in Steps
      BY DEF Steps, Replacing
  <2>6. HandlerFits(h)'
      BY <1>1, <1>2, <2>1, <2>4, <2>5, GotoFits
      DEF HandlerFits, ReadFits, WorkFits, CleanupFits, Replacing, Known, Approved
  <2>7. TypeOK'
      BY <1>2, <2>1, <2>3, <2>5, GotoFits DEF TypeOK
  <2>8. Moves(h)
      BY <1>2, <2>3, Unmoved DEF Moves
  <2> QED BY <2>1, <2>5, <2>6, <2>7, <2>8, GotoFits DEF Fine
<1>4. CASE provider[upgrade[u].source].st = "CANCELLED"
  <2>1. upgrade' = upgrade /\ Goto(h, "retire")
      BY <1>1, <1>4 DEF LookAtSource
  <2>2. "retire" \in Steps
      BY DEF Steps, Replacing
  <2>3. HandlerFits(h)'
      BY <1>1, <1>2, <1>4, <2>1, <2>2, GotoFits
      DEF HandlerFits, ReadFits, WorkFits, CleanupFits, Replacing, Known, Approved
  <2>4. TypeOK'
      BY <1>2, <2>1, <2>2, GotoFits DEF TypeOK
  <2>5. Moves(h)
      BY <1>2, <2>1, Unmoved DEF Moves
  <2> QED BY <2>1, <2>2, <2>3, <2>4, <2>5, GotoFits DEF Fine
<1>5. CASE provider[upgrade[u].source].st \notin {"ACTIVE", "CANCELLED"}
  <2>1. CleanupFails(h) /\ run[h].at \in Replacing
      BY <1>1, <1>2, <1>5 DEF LookAtSource, Replacing
  <2>2. TypeOK'
      BY <1>2, <2>1, CleanupFailsMoves DEF TypeOK
  <2>3. Moves(h)
      BY <1>2, <2>1, CleanupFailsMoves, Unmoved DEF Moves
  <2> QED BY <2>1, <2>2, <2>3, CleanupFailsMoves DEF Fine
<1> QED BY <1>3, <1>4, <1>5

LEMMA CancelSourceFits ==
    ASSUME TypeOK, RecordsFit, NEW h \in Handlers, HandlerFits(h), CancelSource(h)
    PROVE  Fine(h)
<1>1. PICK u \in Subs : u = run[h].u
    BY DEF CancelSource, HandlerFits, CleanupFits, Replacing
<1>2. run[h].at = "replace" /\ upgrade[u].status # "NONE" /\ upgrade[u].activated /\ Approved(u)
      /\ Known(run[h].s) /\ UNCHANGED <<row, downgrade, event, account, story>>
    BY <1>1 DEF CancelSource, HandlerFits, CleanupFits, WorkFits, Replacing
<1>3. PICK s \in Subs : s = upgrade[u].source
    BY <1>2 DEF RecordsFit, Known
<1>4. CASE provider[s].st \in {"ACTIVE", "SUSPENDED"}
  <2>1. /\ provider' = [provider EXCEPT ![s].st = "CANCELLED", ![s].by = "upgrade"]
        /\ Goto(h, "retire") /\ upgrade' = upgrade
      BY <1>1, <1>3, <1>4 DEF CancelSource
  <2>2. \E w \in Superseding(s) : Approved(w)
      BY <1>2, <1>3 DEF Superseding
  <2>3. provider' \in [Subs -> ProviderSet] /\ ProviderMoves /\ provider'[s].st = "CANCELLED"
      BY <1>4, <2>1, <2>2, EndMoves
  <2>4. Approved(u)'
      BY <1>2, <2>3 DEF ProviderMoves, Approved
  <2>5. "retire" \in Steps
      BY DEF Steps, Replacing
  <2>6. HandlerFits(h)'
    <3>1. run'[h].at = "retire" /\ run'[h].u = u /\ run'[h].s = run[h].s
        BY <1>1, <2>1, <2>5, GotoFits
    <3>2. upgrade'[u] = upgrade[u] /\ row'[run[h].s] = row[run[h].s]
        BY <1>2, <2>1
    <3>3. ReadFits(h)' /\ WorkFits(h)'
        BY <1>2, <3>1, <3>2 DEF ReadFits, WorkFits, Replacing, Known
    <3>4. CleanupFits(h)'
        BY <1>2, <1>3, <2>3, <2>4, <3>1, <3>2 DEF CleanupFits, Replacing, Approved
    <3> QED BY <3>3, <3>4 DEF HandlerFits
  <2>7. TypeOK'
      BY <1>2, <2>1, <2>3, <2>5, GotoFits DEF TypeOK
  <2>8. Moves(h)
      BY <1>2, <2>1, <2>3, Unmoved DEF Moves
  <2> QED BY <2>1, <2>5, <2>6, <2>7, <2>8, GotoFits DEF Fine
<1>5. CASE provider[s].st \notin {"ACTIVE", "SUSPENDED"}
  <2>1. CleanupFails(h) /\ run[h].at \in Replacing /\ provider' = provider
      BY <1>1, <1>2, <1>3, <1>5 DEF CancelSource, Replacing
  <2>2. TypeOK'
      BY <1>2, <2>1, CleanupFailsMoves DEF TypeOK
  <2>3. Moves(h)
      BY <1>2, <2>1, CleanupFailsMoves, Unmoved DEF Moves
  <2> QED BY <2>1, <2>2, <2>3, CleanupFailsMoves DEF Fine
<1> QED BY <1>4, <1>5

LEMMA CleanupOutageFits ==
    ASSUME TypeOK, RecordsFit, NEW h \in Handlers, HandlerFits(h), CleanupOutage(h)
    PROVE  Fine(h)
<1>1. PICK u \in Subs : u = run[h].u
    BY DEF CleanupOutage, HandlerFits, CleanupFits, Replacing
<1>2. run[h].at \in {"source", "replace"} /\ run[h].at \in Replacing /\ CleanupFails(h)
      /\ UNCHANGED <<row, downgrade, event, account, story>>
    BY DEF CleanupOutage, Replacing
<1>3. upgrade[u].status # "NONE" /\ upgrade[u].activated /\ Approved(u)
    BY <1>1, <1>2 DEF HandlerFits, CleanupFits, Replacing
<1>4. PICK s \in Subs : s = upgrade[u].source
    BY <1>3 DEF RecordsFit, Known
<1>5. provider' \in [Subs -> ProviderSet] /\ ProviderMoves
  <2>1. CASE provider' = provider
      BY <2>1, Unmoved DEF TypeOK
  <2>2. CASE /\ provider[s].st = "ACTIVE"
             /\ provider' = [provider EXCEPT ![s].st = "CANCELLED", ![s].by = "upgrade"]
    <3>1. \E w \in Superseding(s) : Approved(w)
        BY <1>3, <1>4 DEF Superseding
    <3> QED BY <2>2, <3>1, EndMoves
  <2> QED BY <1>1, <1>4, <2>1, <2>2 DEF CleanupOutage
<1>6. TypeOK'
    BY <1>2, <1>5, CleanupFailsMoves DEF TypeOK
<1>7. Moves(h)
    BY <1>2, <1>5, CleanupFailsMoves, Unmoved DEF Moves
<1> QED BY <1>2, <1>6, <1>7, CleanupFailsMoves DEF Fine

LEMMA RetireSourceFits ==
    ASSUME TypeOK, RecordsFit, NEW h \in Handlers, HandlerFits(h), RetireSource(h)
    PROVE  Fine(h)
<1>1. PICK u \in Subs : u = run[h].u
    BY DEF RetireSource, HandlerFits, CleanupFits, Replacing
<1>2. run[h].at = "retire" /\ upgrade[u].status # "NONE" /\ upgrade[u].activated /\ Approved(u)
      /\ Known(run[h].s) /\ UNCHANGED <<provider, downgrade, event, account, story>>
    BY <1>1 DEF RetireSource, HandlerFits, CleanupFits, WorkFits, Replacing
<1>3. PICK s \in Subs : s = upgrade[u].source
    BY <1>2 DEF RecordsFit, Known
<1>4. provider[s].st = "CANCELLED"
    BY <1>1, <1>2, <1>3 DEF HandlerFits, CleanupFits
<1>5. CASE provider[s].plan = row[s].tier
  <2>1. /\ row' = [row EXCEPT ![s] = Synchronized(@, "plain", 0, Seen(s), @.tier, 0, TRUE)]
        /\ Goto(h, "complete") /\ upgrade' = upgrade
      BY <1>1, <1>3, <1>5 DEF RetireSource
  <2>2. PICK r \in RowSet : r = row[s]
      BY DEF TypeOK
  <2>3. PICK q : q = Synchronized(r, "plain", 0, Seen(s), r.tier, 0, TRUE)
      OBVIOUS
  <2>4. row' = [row EXCEPT ![s] = q]
      BY <2>1, <2>2, <2>3
  <2>5. r.tier \in Nat
      BY DEF RowSet
  <2>6. SynchronizedRow(q, r, "plain", 0, Seen(s), r.tier, 0, TRUE)
      BY <2>3, <2>5, SeenFits, SynchronizedFits
  <2>7. q \in RowSet /\ q.status = "ENDED"
      BY <1>4, <2>6, SeenFits DEF SynchronizedRow, EffectiveStatus
  <2>8. row' \in [Subs -> RowSet] /\ row'[s] = q /\ \A o \in Subs \ {s} : row'[o] = row[o]
      BY <2>4, <2>7 DEF TypeOK
  <2>9. RowMoves(h)
    <3> SUFFICES ASSUME NEW o \in Subs
                 PROVE  /\ Known(o) => row'[o].status # "NONE"
                        /\ ~Known(o) => row'[o].status = "NONE"
                        /\ row'[o].status = "ACTIVE" => row[o].status = "ACTIVE"
                        /\ row'[o].status \in Supported =>
                              row[o].status \in Supported /\ row'[o].open = row[o].open
                                 /\ row'[o].tier = row[o].tier
        BY DEF RowMoves
    <3>1. CASE o = s
      <4>1. Known(s) /\ "ENDED" \notin Supported
          BY <1>2, <1>3 DEF RecordsFit, Supported
      <4> QED BY <2>7, <2>8, <3>1, <4>1 DEF Known
    <3>2. CASE o # s
        BY <2>8, <3>2 DEF Known
    <3> QED BY <3>1, <3>2
  <2>10. "complete" \in Steps
      BY DEF Steps, Replacing
  <2>11. run[h].s \in Subs /\ row'[run[h].s].status # "NONE"
      BY <1>2, <2>9 DEF RowMoves, Known
  <2>12. HandlerFits(h)'
      BY <1>1, <1>2, <1>3, <1>4, <2>1, <2>10, <2>11, GotoFits
      DEF HandlerFits, ReadFits, WorkFits, CleanupFits, Replacing, Known, Approved
  <2>13. TypeOK'
      BY <1>2, <2>1, <2>8, <2>10, GotoFits DEF TypeOK
  <2>14. Moves(h)
      BY <1>2, <2>1, <2>9, Unmoved DEF Moves
  <2> QED BY <2>1, <2>10, <2>12, <2>13, <2>14, GotoFits DEF Fine
<1>6. CASE provider[s].plan # row[s].tier
  <2>1. CleanupFails(h) /\ run[h].at \in Replacing /\ row' = row
      BY <1>1, <1>2, <1>3, <1>6 DEF RetireSource, Replacing
  <2>2. TypeOK'
      BY <1>2, <2>1, CleanupFailsMoves DEF TypeOK
  <2>3. Moves(h)
      BY <1>2, <2>1, CleanupFailsMoves, Unmoved DEF Moves
  <2> QED BY <2>1, <2>2, <2>3, CleanupFailsMoves DEF Fine
<1> QED BY <1>5, <1>6

LEMMA CompleteFits ==
    ASSUME TypeOK, RecordsFit, NEW h \in Handlers, HandlerFits(h), Complete(h)
    PROVE  Fine(h)
<1>1. PICK u \in Subs : u = run[h].u
    BY DEF Complete, HandlerFits, CleanupFits, Replacing
<1>2. run[h].at = "complete" /\ upgrade[u].status # "NONE" /\ Known(run[h].s) /\ Return(h)
      /\ Completed(upgrade[u].source) /\ UNCHANGED <<provider, row, downgrade, event, account, story>>
    BY <1>1 DEF Complete, HandlerFits, CleanupFits, WorkFits, Replacing
<1>3. upgrade[u].source \in Subs /\ Stopped(upgrade[u].source)
    BY <1>1, <1>2 DEF RecordsFit, Known, HandlerFits, CleanupFits, Stopped
<1>4. upgrade' \in [Subs -> UpgradeSet] /\ UpgradeMoves
    BY <1>2, <1>3, CompletedMoves
<1>5. run[h].s \in Subs
    BY <1>2 DEF Known
<1>6. TypeOK'
    BY <1>2, <1>4, <1>5, ReturnFits DEF TypeOK
<1>7. Moves(h)
    BY <1>2, <1>4, Unmoved DEF Moves
<1> QED BY <1>2, <1>5, <1>6, <1>7, ReturnFits DEF Fine

LEMMA MarkFits ==
    ASSUME TypeOK, RecordsFit, NEW h \in Handlers, HandlerFits(h), Mark(h)
    PROVE  Fine(h)
<1>1. PICK s \in Subs : s = run[h].s
    BY DEF Mark, HandlerFits, WorkFits
<1>2. PICK e : e = [event[s] EXCEPT ![run[h].bill] = "PROCESSED"]
    OBVIOUS
<1>3. e \in [1..story.bills -> {"OPEN", "PROCESSED"}]
    BY <1>2 DEF TypeOK
<1>4. event' = [event EXCEPT ![s] = e]
    BY <1>1, <1>2 DEF Mark
<1>5. event' \in [Subs -> [1..story.bills -> {"OPEN", "PROCESSED"}]]
    BY <1>3, <1>4 DEF TypeOK
<1>6. Done(h) /\ UNCHANGED <<provider, row, upgrade, downgrade, account, story>>
    BY DEF Mark
<1>7. TypeOK'
    BY <1>5, <1>6, DoneFits DEF TypeOK
<1>8. Moves(h)
    BY <1>6, Unmoved DEF Moves
<1> QED BY <1>6, <1>7, <1>8, DoneFits DEF Fine

-----------------------------------------------------------------------------
(* The steps: subscribing and changing the level                             *)

LEMMA AskFits ==
    ASSUME TypeOK, RecordsFit, NEW h \in Handlers, Free(h), NEW op \in Requests,
           NEW s \in Reference, op # "create" => Known(s), NEW tier \in Nat, Ask(h, op, s, tier)
    PROVE  Fine(h)
<1>1. PICK y : y = [Idle EXCEPT !.at = "ask", !.op = op, !.s = s, !.tier = tier]
    OBVIOUS
<1>2. y \in RunSet /\ y.at = "ask" /\ y.op = op /\ y.s = s
    BY <1>1, IdleIsARun DEF RunSet, Steps, Errands
<1>3. run' = [run EXCEPT ![h] = y] /\ account' = h /\ account = None
      /\ UNCHANGED <<provider, rows, story>>
    BY <1>1 DEF Ask, Free
<1>4. HandlerFits(h)'
    BY <1>2, <1>3, RunMoves
    DEF HandlerFits, ReadFits, WorkFits, CleanupFits, Replacing, Known, rows
<1>5. TypeOK'
    BY <1>2, <1>3, RunMoves DEF TypeOK, rows
<1>6. Moves(h)
    BY <1>3, Unmoved DEF Moves, AccountMoves, rows
<1> QED BY <1>2, <1>3, <1>4, <1>5, <1>6, RunMoves DEF Fine

LEMMA CreateFits ==
    ASSUME TypeOK, RecordsFit, NEW h \in Handlers, NEW tier \in Nat, Create(h, tier)
    PROVE  Fine(h)
BY AskFits DEF Create, Requests, Reference

LEMMA UpgradeFits ==
    ASSUME TypeOK, RecordsFit, NEW h \in Handlers, NEW tier \in Nat, Upgrade(h, tier)
    PROVE  Fine(h)
<1>1. Known(Canonical) /\ Canonical \in Reference
    BY CanonicalFits DEF Upgrade, Known, Reference
<1> QED BY <1>1, AskFits DEF Upgrade, Requests

LEMMA DowngradeFits ==
    ASSUME TypeOK, RecordsFit, NEW h \in Handlers, NEW tier \in Nat, Downgrade(h, tier)
    PROVE  Fine(h)
<1>1. Known(Canonical) /\ Canonical \in Reference
    BY CanonicalFits DEF Downgrade, Known, Reference
<1> QED BY <1>1, AskFits DEF Downgrade, Requests

LEMMA UnusedFits ==
    ASSUME TypeOK, RecordsFit, Unused # {}
    PROVE  Min(Unused) \in Subs /\ provider[Min(Unused)].st = "NONE" /\ ~Known(Min(Unused))
<1>1. Unused \subseteq Subs
    BY StoriesAssumption DEF Unused, TypeOK
<1>2. IsFiniteSet(Unused) /\ Unused \subseteq Nat
    BY <1>1, SubsAssumption, FS_Subset
<1>3. Min(Unused) \in Unused
    BY <1>2, MinIsLowest
<1> QED BY <1>1, <1>3 DEF Unused, RecordsFit

(* The subscription PayPal creates.                                          *)
LEMMA CreationMoves ==
    ASSUME TypeOK, NEW n \in Subs, provider[n].st = "NONE", NEW tier \in Nat,
           provider' = [provider EXCEPT ![n].st = "APPROVAL_PENDING", ![n].plan = tier]
    PROVE  /\ provider' \in [Subs -> ProviderSet] /\ ProviderMoves
           /\ provider'[n].st = "APPROVAL_PENDING" /\ provider'[n].plan = tier
           /\ provider'[n].bills = provider[n].bills /\ provider'[n].revision = provider[n].revision
           /\ \A o \in Subs \ {n} : provider'[o] = provider[o]
<1>1. PICK p \in ProviderSet : p = provider[n]
    BY DEF TypeOK
<1>2. PICK q : q = [p EXCEPT !.st = "APPROVAL_PENDING", !.plan = tier]
    OBVIOUS
<1>3. q \in ProviderSet /\ q.st = "APPROVAL_PENDING" /\ q.plan = tier /\ q.by = p.by
      /\ q.bills = p.bills /\ q.revision = p.revision
    BY <1>2 DEF ProviderSet, ProviderStates
<1>4. provider' = [provider EXCEPT ![n] = q]
    BY <1>1, <1>2 DEF TypeOK
<1>5. provider' \in [Subs -> ProviderSet] /\ provider'[n] = q
      /\ \A o \in Subs \ {n} : provider'[o] = provider[o]
    BY <1>3, <1>4 DEF TypeOK
<1>6. ProviderMoves
    BY <1>1, <1>3, <1>5 DEF ProviderMoves
<1> QED BY <1>1, <1>3, <1>5, <1>6

LEMMA RevisionMoves ==
    ASSUME TypeOK, NEW s \in Subs, NEW tier \in Nat,
           provider' = [provider EXCEPT ![s].revision = tier]
    PROVE  /\ provider' \in [Subs -> ProviderSet] /\ ProviderMoves
           /\ provider'[s].st = provider[s].st /\ provider'[s].plan = provider[s].plan
           /\ provider'[s].bills = provider[s].bills /\ provider'[s].revision = tier
           /\ \A o \in Subs \ {s} : provider'[o] = provider[o]
<1>1. PICK p \in ProviderSet : p = provider[s]
    BY DEF TypeOK
<1>2. PICK q : q = [p EXCEPT !.revision = tier]
    OBVIOUS
<1>3. q \in ProviderSet /\ q.st = p.st /\ q.by = p.by /\ q.plan = p.plan /\ q.bills = p.bills
      /\ q.revision = tier
    BY <1>2 DEF ProviderSet
<1>4. provider' = [provider EXCEPT ![s] = q]
    BY <1>1, <1>2
<1>5. provider' \in [Subs -> ProviderSet] /\ provider'[s] = q
      /\ \A o \in Subs \ {s} : provider'[o] = provider[o]
    BY <1>3, <1>4 DEF TypeOK
<1>6. ProviderMoves
    BY <1>1, <1>3, <1>5 DEF ProviderMoves
<1> QED BY <1>1, <1>3, <1>5, <1>6

LEMMA AskPayPalFits ==
    ASSUME TypeOK, RecordsFit, NEW h \in Handlers, HandlerFits(h), AskPayPal(h)
    PROVE  Fine(h)
<1>1. PICK x \in RunSet : x = run[h]
    BY DEF TypeOK
<1>2. x.at = "ask" /\ UNCHANGED <<rows, story>> /\ account = h /\ x.op \in Requests
      /\ (x.op # "create" => Known(x.s)) /\ x.tier \in Nat
    BY <1>1 DEF AskPayPal, HandlerFits, WorkFits, RunSet
<1>3. CASE Done(h) /\ account' = None /\ UNCHANGED provider
  <2>1. TypeOK'
      BY <1>2, <1>3, DoneFits DEF TypeOK, rows
  <2>2. Moves(h)
      BY <1>2, <1>3, Unmoved DEF Moves, AccountMoves, rows
  <2> QED BY <1>3, <2>1, <2>2, DoneFits DEF Fine
<1>4. CASE /\ x.op # "downgrade" /\ Unused # {}
           /\ provider' = [provider EXCEPT ![Min(Unused)].st = "APPROVAL_PENDING",
                                           ![Min(Unused)].plan = x.tier]
           /\ run' = [run EXCEPT ![h].at = "commit", ![h].u = Min(Unused)]
           /\ UNCHANGED account
  <2>1. PICK n \in Subs : n = Min(Unused) /\ provider[n].st = "NONE" /\ ~Known(n)
      BY <1>4, UnusedFits
  <2>2. provider' \in [Subs -> ProviderSet] /\ ProviderMoves /\ provider'[n].st = "APPROVAL_PENDING"
      BY <1>2, <1>4, <2>1, CreationMoves
  <2>3. PICK y : y = [x EXCEPT !.at = "commit", !.u = n]
      OBVIOUS
  <2>4. y \in RunSet /\ y.at = "commit" /\ y.u = n /\ y.s = x.s /\ y.op = x.op
      BY <2>1, <2>3 DEF RunSet, Steps, Reference
  <2>5. run' = [run EXCEPT ![h] = y]
      BY <1>1, <1>4, <2>1, <2>3 DEF TypeOK
  <2>6. HandlerFits(h)'
    <3>1. run'[h] = y
        BY <2>4, <2>5, RunMoves
    <3>2. row' = row /\ account' = h
        BY <1>2, <1>4 DEF rows
    <3>3. ReadFits(h)' /\ CleanupFits(h)'
        BY <2>4, <3>1 DEF ReadFits, CleanupFits, Replacing
    <3>4. WorkFits(h)'
        BY <1>2, <2>1, <2>2, <2>4, <3>1, <3>2 DEF WorkFits, Replacing, Known
    <3> QED BY <3>3, <3>4 DEF HandlerFits
  <2>7. TypeOK'
      BY <1>2, <1>4, <2>2, <2>4, <2>5, RunMoves DEF TypeOK, rows
  <2>8. Moves(h)
      BY <1>2, <1>4, <2>2, Unmoved DEF Moves, rows
  <2> QED BY <2>4, <2>5, <2>6, <2>7, <2>8, RunMoves DEF Fine
<1>5. CASE /\ x.op = "downgrade"
           /\ provider' = IF provider[x.s].st = "ACTIVE" /\ provider[x.s].plan # x.tier
                          THEN [provider EXCEPT ![x.s].revision = x.tier] ELSE provider
           /\ Goto(h, "commit")
           /\ UNCHANGED account
  <2>1. x.s \in Subs
      BY <1>2, <1>5 DEF Known
  <2>2. provider' \in [Subs -> ProviderSet] /\ ProviderMoves
    <3>1. CASE provider' = provider
        BY <3>1, Unmoved DEF TypeOK
    <3>2. CASE provider' = [provider EXCEPT ![x.s].revision = x.tier]
        BY <1>2, <2>1, <3>2, RevisionMoves
    <3> QED BY <1>5, <3>1, <3>2
  <2>3. "commit" \in Steps
      BY DEF Steps
  <2>4. HandlerFits(h)'
      BY <1>1, <1>2, <1>5, <2>3, GotoFits
      DEF HandlerFits, ReadFits, WorkFits, CleanupFits, Replacing, Known, rows
  <2>5. TypeOK'
      BY <1>2, <1>5, <2>2, <2>3, GotoFits DEF TypeOK, rows
  <2>6. Moves(h)
      BY <1>2, <1>5, <2>2, Unmoved DEF Moves, rows
  <2> QED BY <1>5, <2>3, <2>4, <2>5, <2>6, GotoFits DEF Fine
<1> QED BY <1>1, <1>2, <1>3, <1>4, <1>5 DEF AskPayPal, Requests

LEMMA NewRowFits ==
    ASSUME NEW tier \in Nat
    PROVE  NewRow(tier) \in RowSet /\ NewRow(tier).status = "PENDING" /\ NewRow(tier).tier = tier
           /\ NewRow(tier).failure = 0 /\ NewRow(tier).recovery = 0
BY DEF NewRow, NoRow, RowSet, RowStates

LEMMA CommitFits ==
    ASSUME TypeOK, RecordsFit, NEW h \in Handlers, HandlerFits(h), Commit(h)
    PROVE  Fine(h)
<1>1. PICK x \in RunSet : x = run[h]
    BY DEF TypeOK
<1>2. x.at = "commit" /\ account = h /\ h # None /\ x.op \in Requests /\ x.tier \in Nat
      /\ (x.op # "create" => Known(x.s))
      /\ (x.op # "downgrade" => x.u \in Subs /\ ~Known(x.u) /\ provider[x.u].st # "NONE")
    BY <1>1, HandlersAssumption DEF Commit, HandlerFits, WorkFits, RunSet, None
<1>3. account' = None /\ Done(h) /\ UNCHANGED <<provider, event, story>>
    BY DEF Commit
<1>4. row' \in [Subs -> RowSet] /\ RowMoves(h) /\ (x.op # "downgrade" => row'[x.u].status # "NONE")
  <2>1. CASE x.op = "downgrade"
      BY <1>1, <2>1, Unmoved DEF Commit, TypeOK
  <2>2. CASE x.op # "downgrade"
    <3>1. row' = [row EXCEPT ![x.u] = NewRow(x.tier)]
        BY <1>1, <2>2 DEF Commit
    <3>2. row' \in [Subs -> RowSet] /\ row'[x.u] = NewRow(x.tier)
          /\ \A s \in Subs \ {x.u} : row'[s] = row[s]
        BY <1>2, <2>2, <3>1, NewRowFits DEF TypeOK
    <3>3. RowMoves(h)
      <4> SUFFICES ASSUME NEW o \in Subs
                   PROVE  /\ Known(o) => row'[o].status # "NONE"
                          /\ ~Known(o) /\ row'[o].status # "NONE" => provider[o].st # "NONE"
                          /\ row'[o].status = "ACTIVE" => row[o].status = "ACTIVE"
                          /\ row'[o].status \in Supported =>
                                row[o].status \in Supported /\ row'[o].open = row[o].open
                                   /\ row'[o].tier = row[o].tier
          BY <1>2 DEF RowMoves
      <4>1. CASE o = x.u
          BY <1>2, <2>2, <3>2, <4>1, NewRowFits DEF Supported
      <4>2. CASE o # x.u
          BY <3>2, <4>2 DEF Known
      <4> QED BY <4>1, <4>2
    <3> QED BY <1>2, <2>2, <3>2, <3>3, NewRowFits
  <2> QED BY <2>1, <2>2
<1>5. upgrade' \in [Subs -> UpgradeSet] /\ UpgradeMoves
  <2>1. CASE x.op # "upgrade"
      BY <1>1, <2>1, Unmoved DEF Commit, TypeOK
  <2>2. CASE x.op = "upgrade"
    <3>1. PICK new : new = [NoUpgrade EXCEPT !.status = "PENDING_APPROVAL", !.source = x.s]
        OBVIOUS
    <3>2. new \in UpgradeSet /\ new.status = "PENDING_APPROVAL" /\ new.source = x.s /\ ~new.activated
        BY <3>1 DEF NoUpgrade, UpgradeSet, UpgradeStates, Live, RunSet
    <3>3. upgrade' = [u \in Subs |->
                        CASE u = x.u -> new
                          [] u \in LiveUpgrades \ {x.u} -> [upgrade[u] EXCEPT !.status = "ABANDONED"]
                          [] OTHER -> upgrade[u]]
        BY <1>1, <2>2, <3>1 DEF Commit
    <3>4. ASSUME NEW u \in Subs
          PROVE  /\ upgrade'[u] \in UpgradeSet
                 /\ LET c == upgrade[u]
                        d == upgrade'[u]
                    IN  \/ d = c
                        \/ /\ c.status # "NONE" /\ d.status # "NONE" /\ d.source = c.source
                           /\ c.activated => d.activated
                           /\ d.activated => c.activated \/ Approved(u)
                           /\ d.status = "COMPLETED" => c.status = "COMPLETED" \/ Stopped(c.source)
                        \/ /\ ~Known(u) /\ row'[u].status # "NONE" /\ Known(d.source)
                           /\ d.status = "PENDING_APPROVAL" /\ ~d.activated
      <4>1. CASE u = x.u
        <5>1. upgrade'[u] = new
            BY <3>3, <4>1
        <5> QED BY <1>2, <1>4, <2>2, <3>2, <4>1, <5>1
      <4>2. CASE u # x.u /\ u \in LiveUpgrades
        <5>1. PICK c \in UpgradeSet : c = upgrade[u]
            BY DEF TypeOK
        <5>2. PICK d : d = [c EXCEPT !.status = "ABANDONED"]
            OBVIOUS
        <5>3. d \in UpgradeSet /\ d.status = "ABANDONED" /\ d.source = c.source
              /\ d.activated = c.activated
            BY <5>2 DEF UpgradeSet, UpgradeStates
        <5>4. upgrade'[u] = d
            BY <3>3, <4>2, <5>1, <5>2
        <5>5. c.status # "NONE"
            BY <4>2, <5>1 DEF LiveUpgrades, Live
        <5> QED BY <5>1, <5>3, <5>4, <5>5
      <4>3. CASE u # x.u /\ u \notin LiveUpgrades
        <5>1. upgrade'[u] = upgrade[u]
            BY <3>3, <4>3
        <5> QED BY <5>1 DEF TypeOK
      <4> QED BY <4>1, <4>2, <4>3
    <3> QED BY <3>3, <3>4 DEF UpgradeMoves
  <2> QED BY <2>1, <2>2
<1>6. downgrade' \in [Subs -> DowngradeSet] /\ DowngradeMoves
  <2>1. CASE x.op # "downgrade"
      BY <1>1, <2>1, Unmoved DEF Commit, TypeOK
  <2>2. CASE x.op = "downgrade"
    <3>1. x.s \in Subs
        BY <1>2, <2>2 DEF Known
    <3>2. PICK d \in DowngradeSet : d = downgrade[x.s]
        BY <3>1 DEF TypeOK
    <3>3. PICK e : e = [d EXCEPT !.status = "PENDING_APPROVAL", !.tier = x.tier]
        OBVIOUS
    <3>4. downgrade' = [downgrade EXCEPT ![x.s].status = "PENDING_APPROVAL", ![x.s].tier = x.tier]
        BY <1>1, <2>2 DEF Commit
    <3>5. e \in DowngradeSet /\ downgrade' = [downgrade EXCEPT ![x.s] = e]
        BY <1>2, <3>1, <3>2, <3>3, <3>4 DEF DowngradeSet, TypeOK
    <3> QED BY <1>2, <2>2, <3>1, <3>5 DEF TypeOK, DowngradeMoves
  <2> QED BY <2>1, <2>2
<1>7. TypeOK'
    BY <1>3, <1>4, <1>5, <1>6, DoneFits DEF TypeOK
<1>8. Moves(h)
    BY <1>2, <1>3, <1>4, <1>5, <1>6, Unmoved DEF Moves, AccountMoves
<1> QED BY <1>3, <1>7, <1>8, DoneFits DEF Fine

-----------------------------------------------------------------------------
(* The steps: cancelling, and what happens at PayPal and in time             *)

(* A row of which only the intent or the date changes.                       *)
LEMMA TouchMoves ==
    ASSUME TypeOK, RecordsFit, NEW h, NEW s \in Subs, NEW q \in RowSet, row' = [row EXCEPT ![s] = q],
           q.status = row[s].status, q.open = row[s].open, q.tier = row[s].tier
    PROVE  row' \in [Subs -> RowSet] /\ RowMoves(h)
<1>1. row' \in [Subs -> RowSet] /\ row'[s] = q /\ \A o \in Subs \ {s} : row'[o] = row[o]
    BY DEF TypeOK
<1>2. ASSUME NEW o \in Subs
      PROVE  row'[o].status = row[o].status /\ row'[o].open = row[o].open /\ row'[o].tier = row[o].tier
    BY <1>1
<1> QED BY <1>1, <1>2 DEF RowMoves, Known

LEMMA CancelFits ==
    ASSUME TypeOK, RecordsFit, NEW h \in Handlers, Cancel(h)
    PROVE  Fine(h)
<1>1. PICK s \in Subs : s = Canonical /\ Known(s) /\ provider[s].st # "NONE" /\ row[s].status # "NONE"
    BY CanonicalFits DEF Cancel, Known, RecordsFit
<1>2. PICK x : x = [Idle EXCEPT !.op = "cancel", !.s = s, !.tier = row[s].tier]
    OBVIOUS
<1>3. row[s].tier \in Nat
    BY DEF TypeOK, RowSet
<1>4. x \in RunSet /\ x.s = s
    BY <1>2, <1>3, IdleIsARun DEF RunSet, Errands, Reference
<1>5. UNCHANGED <<provider, rows, account, story>>
    BY DEF Cancel
<1>6. CASE run' = [run EXCEPT ![h] = [x EXCEPT !.at = "intend"]]
  <2>1. PICK y : y = [x EXCEPT !.at = "intend"]
      OBVIOUS
  <2>2. y \in RunSet /\ y.at = "intend" /\ y.s = s
      BY <1>4, <2>1 DEF RunSet, Steps
  <2>3. run' = [run EXCEPT ![h] = y]
      BY <1>6, <2>1
  <2>4. HandlerFits(h)'
      BY <1>1, <1>5, <2>2, <2>3, RunMoves
      DEF HandlerFits, ReadFits, WorkFits, CleanupFits, Replacing, Known, rows
  <2> QED BY <1>5, <2>2, <2>3, <2>4, OnlyARunMoves
<1>7. CASE run' = [run EXCEPT ![h] = [x EXCEPT !.at = "sync", !.op = "verify", !.read = Seen(s)]]
  <2>1. PICK y : y = [x EXCEPT !.at = "sync", !.op = "verify", !.read = Seen(s)]
      OBVIOUS
  <2>2. y \in RunSet /\ y.at = "sync" /\ y.s = s /\ y.read = Seen(s)
      BY <1>4, <2>1, SeenFits DEF RunSet, Steps, Errands
  <2>3. run' = [run EXCEPT ![h] = y]
      BY <1>7, <2>1
  <2>4. HandlerFits(h)'
      BY <1>1, <1>5, <2>2, <2>3, RunMoves, SeenFits, FreshReadFits DEF TypeOK, rows
  <2> QED BY <1>5, <2>2, <2>3, <2>4, OnlyARunMoves
<1>8. CASE run' = [run EXCEPT ![h] = Idle]
    BY <1>5, <1>8, DoneFits, IdleIsARun, OnlyARunMoves DEF Done
<1> QED BY <1>1, <1>2, <1>6, <1>7, <1>8 DEF Cancel

LEMMA IntendFits ==
    ASSUME TypeOK, RecordsFit, NEW h \in Handlers, HandlerFits(h), Intend(h)
    PROVE  Fine(h)
<1>1. PICK s \in Subs : s = run[h].s /\ row[s].status # "NONE"
    BY DEF Intend, HandlerFits, WorkFits, Known
<1>2. Goto(h, "stop") /\ UNCHANGED <<provider, upgrade, downgrade, event, account, story>>
      /\ row' = [row EXCEPT ![s].intent = TRUE]
    BY <1>1 DEF Intend
<1>3. PICK r \in RowSet : r = row[s]
    BY DEF TypeOK
<1>4. PICK q : q = [r EXCEPT !.intent = TRUE]
    OBVIOUS
<1>5. q \in RowSet /\ q.status = r.status /\ q.open = r.open /\ q.tier = r.tier
    BY <1>4 DEF RowSet
<1>6. row' = [row EXCEPT ![s] = q]
    BY <1>2, <1>3, <1>4
<1>7. row' \in [Subs -> RowSet] /\ RowMoves(h)
    BY <1>3, <1>5, <1>6, TouchMoves
<1>8. "stop" \in Steps /\ row'[s].status # "NONE"
    BY <1>1, <1>7 DEF Steps, RowMoves, Known
<1>9. HandlerFits(h)'
    BY <1>1, <1>2, <1>8, GotoFits
    DEF HandlerFits, ReadFits, WorkFits, CleanupFits, Replacing, Known
<1>10. TypeOK'
    BY <1>2, <1>7, <1>8, GotoFits DEF TypeOK
<1>11. Moves(h)
    BY <1>2, <1>7, Unmoved DEF Moves
<1> QED BY <1>2, <1>8, <1>9, <1>10, <1>11, GotoFits DEF Fine

LEMMA StopFits ==
    ASSUME TypeOK, RecordsFit, NEW h \in Handlers, HandlerFits(h), Stop(h)
    PROVE  Fine(h)
<1>1. PICK s \in Subs : s = run[h].s /\ row[s].status # "NONE"
    BY DEF Stop, HandlerFits, WorkFits, Known
<1>2. provider[s].st \in {"ACTIVE", "SUSPENDED"} /\ UNCHANGED <<rows, account, story>>
      /\ provider' = [provider EXCEPT ![s].st = "CANCELLED", ![s].by = "player"]
    BY <1>1 DEF Stop
<1>3. provider' \in [Subs -> ProviderSet] /\ ProviderMoves /\ provider'[s].st = "CANCELLED"
    BY <1>2, EndMoves
<1>4. PICK x \in RunSet : x = run[h]
    BY DEF TypeOK
<1>5. PICK read : read = [Seen(s) EXCEPT !.st = "CANCELLED"]
    OBVIOUS
<1>6. read \in ReadSet /\ read.st = "CANCELLED"
    BY <1>5, SeenFits DEF ReadSet, ProviderStates
<1>7. PICK y : y = [x EXCEPT !.at = "sync", !.read = read]
    OBVIOUS
<1>8. y \in RunSet /\ y.at = "sync" /\ y.read = read /\ y.s = s
    BY <1>1, <1>4, <1>6, <1>7 DEF RunSet, Steps
<1>9. run' = [run EXCEPT ![h].at = "sync", ![h].read = read]
    BY <1>1, <1>5 DEF Stop
<1>10. run' = [run EXCEPT ![h] = y]
    BY <1>4, <1>7, <1>9 DEF TypeOK
<1>11. row'[s].status # "NONE" /\ provider[s].st # "NONE"
    BY <1>1, <1>2 DEF rows
<1>12. run'[h] = y
    BY <1>8, <1>10, RunMoves
<1>13. ReadFits(h)'
    BY <1>3, <1>6, <1>8, <1>12 DEF ReadFits, Approved, Stopped, ProviderStates
<1>14. WorkFits(h)' /\ CleanupFits(h)'
    BY <1>8, <1>11, <1>12 DEF WorkFits, CleanupFits, Replacing, Known
<1>15. TypeOK'
    BY <1>2, <1>3, <1>8, <1>10, RunMoves DEF TypeOK, rows
<1>16. Moves(h)
    BY <1>2, <1>3, Unmoved DEF Moves, rows
<1> QED BY <1>8, <1>10, <1>13, <1>14, <1>15, <1>16, RunMoves DEF Fine, HandlerFits

LEMMA WithdrawFits ==
    ASSUME TypeOK, RecordsFit, NEW h \in Handlers, HandlerFits(h), Withdraw(h)
    PROVE  Fine(h)
<1>1. PICK s \in Subs : s = run[h].s
    BY DEF Withdraw, HandlerFits, WorkFits, Known
<1>2. Done(h) /\ UNCHANGED <<upgrade, downgrade, event, account, story>>
      /\ row' = [row EXCEPT ![s].intent = FALSE]
    BY <1>1 DEF Withdraw
<1>3. PICK r \in RowSet : r = row[s]
    BY DEF TypeOK
<1>4. PICK q : q = [r EXCEPT !.intent = FALSE]
    OBVIOUS
<1>5. q \in RowSet /\ q.status = r.status /\ q.open = r.open /\ q.tier = r.tier
    BY <1>4 DEF RowSet
<1>6. row' = [row EXCEPT ![s] = q]
    BY <1>2, <1>3, <1>4
<1>7. row' \in [Subs -> RowSet] /\ RowMoves(h)
    BY <1>3, <1>5, <1>6, TouchMoves
<1>8. provider' \in [Subs -> ProviderSet] /\ ProviderMoves
  <2>1. CASE provider' = provider
      BY <2>1, Unmoved DEF TypeOK
  <2>2. CASE provider[s].st = "ACTIVE"
             /\ provider' = [provider EXCEPT ![s].st = "CANCELLED", ![s].by = "player"]
      BY <2>2, EndMoves
  <2> QED BY <1>1, <2>1, <2>2 DEF Withdraw
<1>9. TypeOK'
    BY <1>2, <1>7, <1>8, DoneFits DEF TypeOK
<1>10. Moves(h)
    BY <1>2, <1>7, <1>8, Unmoved DEF Moves
<1> QED BY <1>2, <1>9, <1>10, DoneFits DEF Fine

LEMMA DiesFits ==
    ASSUME TypeOK, RecordsFit, NEW h \in Handlers, Dies(h)
    PROVE  Fine(h)
<1>1. Done(h) /\ account' = (IF account = h THEN None ELSE account) /\ UNCHANGED <<provider, rows, story>>
    BY DEF Dies
<1>2. TypeOK'
    BY <1>1, DoneFits DEF TypeOK, rows
<1>3. Moves(h)
    BY <1>1, Unmoved DEF Moves, AccountMoves, rows
<1> QED BY <1>1, <1>2, <1>3, DoneFits DEF Fine

LEMMA LapseFits ==
    ASSUME TypeOK, RecordsFit, NEW s \in Subs, Lapse(s)
    PROVE  Fine(None)
<1>1. row' = [row EXCEPT ![s].status = "ENDED", ![s].open = <<>>]
      /\ UNCHANGED <<provider, upgrade, downgrade, event, account, run, story>>
      /\ row[s].status = "CANCELLATION_SCHEDULED"
    BY DEF Lapse, Lapsed
<1>2. PICK r \in RowSet : r = row[s]
    BY DEF TypeOK
<1>3. PICK q : q = [r EXCEPT !.status = "ENDED", !.open = <<>>]
    OBVIOUS
<1>4. q \in RowSet /\ q.status = "ENDED"
    BY <1>3 DEF RowSet, RowStates
<1>5. row' = [row EXCEPT ![s] = q]
    BY <1>1, <1>2, <1>3 DEF TypeOK
<1>6. row' \in [Subs -> RowSet] /\ row'[s] = q /\ \A o \in Subs \ {s} : row'[o] = row[o]
    BY <1>4, <1>5 DEF TypeOK
<1>7. RowMoves(None)
  <2> SUFFICES ASSUME NEW o \in Subs
               PROVE  /\ Known(o) => row'[o].status # "NONE"
                      /\ ~Known(o) => row'[o].status = "NONE"
                      /\ row'[o].status = "ACTIVE" => row[o].status = "ACTIVE"
                      /\ row'[o].status \in Supported =>
                            row[o].status \in Supported /\ row'[o].open = row[o].open
                               /\ row'[o].tier = row[o].tier
      BY DEF RowMoves
  <2>1. CASE o = s
      BY <1>1, <1>4, <1>6, <2>1 DEF Known, Supported
  <2>2. CASE o # s
      BY <1>6, <2>2 DEF Known
  <2> QED BY <2>1, <2>2
<1>8. TypeOK'
    BY <1>1, <1>6 DEF TypeOK
<1>9. Moves(None)
    BY <1>1, <1>7, Unmoved DEF Moves
<1>10. None \notin Handlers
    BY HandlersAssumption DEF None
<1> QED BY <1>1, <1>8, <1>9, <1>10 DEF Fine

LEMMA PeriodPassesFits ==
    ASSUME TypeOK, RecordsFit, NEW s \in Subs, PeriodPasses(s)
    PROVE  Fine(None)
<1>1. row' = [row EXCEPT ![s].paid = "past"]
      /\ UNCHANGED <<provider, upgrade, downgrade, event, account, run, story>>
    BY DEF PeriodPasses
<1>2. PICK r \in RowSet : r = row[s]
    BY DEF TypeOK
<1>3. PICK q : q = [r EXCEPT !.paid = "past"]
    OBVIOUS
<1>4. q \in RowSet /\ q.status = r.status /\ q.open = r.open /\ q.tier = r.tier
    BY <1>3 DEF RowSet
<1>5. row' = [row EXCEPT ![s] = q]
    BY <1>1, <1>2, <1>3
<1>6. row' \in [Subs -> RowSet] /\ RowMoves(None)
    BY <1>2, <1>4, <1>5, TouchMoves
<1>7. TypeOK'
    BY <1>1, <1>6 DEF TypeOK
<1>8. Moves(None)
    BY <1>1, <1>6, Unmoved DEF Moves
<1>9. None \notin Handlers
    BY HandlersAssumption DEF None
<1> QED BY <1>1, <1>7, <1>8, <1>9 DEF Fine

(* A subscription that changes at PayPal otherwise.                          *)
LEMMA ProviderFits ==
    ASSUME TypeOK, RecordsFit, provider' \in [Subs -> ProviderSet], ProviderMoves,
           UNCHANGED <<rows, account, run, story>>
    PROVE  Fine(None)
<1>1. TypeOK'
    BY DEF TypeOK, rows
<1>2. Moves(None)
    BY Unmoved DEF Moves, rows
<1>3. None \notin Handlers
    BY HandlersAssumption DEF None
<1> QED BY <1>1, <1>2, <1>3 DEF Fine

LEMMA LeavesFits ==
    ASSUME TypeOK, RecordsFit, NEW s \in Subs, Leaves(s)
    PROVE  Fine(None)
BY EndMoves, ProviderFits DEF Leaves

LEMMA AtPayPalFits ==
    ASSUME TypeOK, RecordsFit, NEW s \in Subs, AtPayPal(s)
    PROVE  Fine(None)
<1>1. PICK p \in ProviderSet : p = provider[s]
    BY DEF TypeOK
<1>2. PICK q : /\ provider' = [provider EXCEPT ![s] = q]
               /\ q \in ProviderSet /\ q.by = p.by /\ q.bills = p.bills
               /\ \/ q.st = p.st
                  \/ p.st = "APPROVAL_PENDING" /\ q.st = "ACTIVE" /\ row[s].status # "NONE"
                  \/ p.st = "APPROVAL_PENDING" /\ q.st = "EXPIRED"
                  \/ p.st = "SUSPENDED" /\ q.st = "ACTIVE"
  <2>1. CASE p.st = "APPROVAL_PENDING" /\ row[s].status # "NONE"
             /\ provider' = [provider EXCEPT ![s].st = "ACTIVE"]
    <3>1. provider' = [provider EXCEPT ![s] = [p EXCEPT !.st = "ACTIVE"]]
        BY <1>1, <2>1
    <3>2. PICK q : q = [p EXCEPT !.st = "ACTIVE"]
        OBVIOUS
    <3>3. q \in ProviderSet /\ q.st = "ACTIVE" /\ q.by = p.by /\ q.bills = p.bills
        BY <3>2 DEF ProviderSet, ProviderStates
    <3> QED BY <2>1, <3>1, <3>2, <3>3
  <2>2. CASE p.st = "APPROVAL_PENDING" /\ provider' = [provider EXCEPT ![s].st = "EXPIRED"]
    <3>1. provider' = [provider EXCEPT ![s] = [p EXCEPT !.st = "EXPIRED"]]
        BY <1>1, <2>2
    <3>2. PICK q : q = [p EXCEPT !.st = "EXPIRED"]
        OBVIOUS
    <3>3. q \in ProviderSet /\ q.st = "EXPIRED" /\ q.by = p.by /\ q.bills = p.bills
        BY <3>2 DEF ProviderSet, ProviderStates
    <3> QED BY <2>2, <3>1, <3>2, <3>3
  <2>3. CASE p.st = "SUSPENDED" /\ provider' = [provider EXCEPT ![s].st = "ACTIVE"]
    <3>1. provider' = [provider EXCEPT ![s] = [p EXCEPT !.st = "ACTIVE"]]
        BY <1>1, <2>3
    <3>2. PICK q : q = [p EXCEPT !.st = "ACTIVE"]
        OBVIOUS
    <3>3. q \in ProviderSet /\ q.st = "ACTIVE" /\ q.by = p.by /\ q.bills = p.bills
        BY <3>2 DEF ProviderSet, ProviderStates
    <3> QED BY <2>3, <3>1, <3>2, <3>3
  <2>4. CASE provider' = [provider EXCEPT ![s].plan = p.revision, ![s].revision = 0]
    <3>1. provider' = [provider EXCEPT ![s] = [p EXCEPT !.plan = p.revision, !.revision = 0]]
        BY <1>1, <2>4 DEF TypeOK
    <3>2. PICK q : q = [p EXCEPT !.plan = p.revision, !.revision = 0]
        OBVIOUS
    <3>3. q \in ProviderSet /\ q.st = p.st /\ q.by = p.by /\ q.bills = p.bills
        BY <3>2 DEF ProviderSet
    <3> QED BY <3>1, <3>2, <3>3
  <2> QED BY <1>1, <2>1, <2>2, <2>3, <2>4 DEF AtPayPal
<1>3. provider' \in [Subs -> ProviderSet] /\ provider'[s] = q
      /\ \A o \in Subs \ {s} : provider'[o] = provider[o]
    BY <1>2 DEF TypeOK
<1>4. ProviderMoves
    BY <1>1, <1>2, <1>3 DEF ProviderMoves, Known
<1>5. UNCHANGED <<rows, account, run, story>>
    BY DEF AtPayPal
<1> QED BY <1>3, <1>4, <1>5, ProviderFits

LEMMA BillFits ==
    ASSUME TypeOK, RecordsFit, NEW s \in Subs, NEW outcome \in Outcomes, Bill(s, outcome)
    PROVE  /\ Fine(None)
           /\ provider[s].st = "ACTIVE"
           /\ provider'[s].bills = Append(provider[s].bills, outcome)
           /\ provider'[s].plan = provider[s].plan /\ provider'[s].revision = provider[s].revision
           /\ provider'[s].st \in {"ACTIVE", "SUSPENDED"}
           /\ provider'[s].st = "SUSPENDED" => outcome = "FAILED"
           /\ \A o \in Subs \ {s} : provider'[o] = provider[o]
<1>1. PICK p \in ProviderSet : p = provider[s]
    BY DEF TypeOK
<1>2. PICK st \in {"ACTIVE", "SUSPENDED"} :
          /\ st = "SUSPENDED" => outcome = "FAILED"
          /\ provider' = [provider EXCEPT ![s].st = st, ![s].bills = Append(@, outcome)]
    BY DEF Bill
<1>3. p.bills \in Seq(Outcomes) /\ p.st = "ACTIVE"
    BY <1>1 DEF ProviderSet, Bill
<1>4. PICK bills : bills = Append(p.bills, outcome) /\ bills \in Seq(Outcomes)
  <2>1. Append(p.bills, outcome) \in Seq(Outcomes)
      BY <1>3
  <2> QED BY <2>1
<1>5. PICK q : q = [p EXCEPT !.st = st, !.bills = bills]
    OBVIOUS
<1>6. q \in ProviderSet /\ q.st = st /\ q.bills = bills /\ q.by = p.by /\ q.plan = p.plan
      /\ q.revision = p.revision
    BY <1>4, <1>5 DEF ProviderSet, ProviderStates
<1>7. provider' = [provider EXCEPT ![s] = q]
    BY <1>1, <1>2, <1>4, <1>5 DEF TypeOK
<1>8. provider' \in [Subs -> ProviderSet] /\ provider'[s] = q
      /\ \A o \in Subs \ {s} : provider'[o] = provider[o]
    BY <1>6, <1>7 DEF TypeOK
<1>9. ProviderMoves
    BY <1>1, <1>3, <1>6, <1>8 DEF ProviderMoves
<1>10. UNCHANGED <<rows, account, run, story>>
    BY DEF Bill
<1>11. Fine(None)
    BY <1>8, <1>9, <1>10, ProviderFits
<1> QED BY <1>1, <1>2, <1>3, <1>4, <1>6, <1>8, <1>11

-----------------------------------------------------------------------------
(* Every step                                                                *)

LEMMA StoryFits ==
    ASSUME TypeOK
    PROVE  story.subs \subseteq Subs /\ story.tiers \subseteq Nat /\ story.tiers \subseteq Tiers
           /\ story.bills \in Nat
BY StoriesAssumption, TiersAssumption DEF TypeOK

LEMMA BeginFits ==
    ASSUME TypeOK, RecordsFit, NEW h \in Handlers, Begin(h)
    PROVE  Fine(h)
<1>1. CASE \E s \in story.subs, t \in 0..story.bills : Deliver(h, s, t)
    BY <1>1, StoryFits, DeliverFits
<1>2. CASE \E u \in story.subs : ReconcileTarget(h, u)
    BY <1>2, StoryFits, ReconcileTargetFits
<1>3. CASE ReconcileCanonical(h)
    BY <1>3, ReconcileCanonicalFits
<1>4. CASE \E tier \in story.tiers : Create(h, tier)
    BY <1>4, StoryFits, CreateFits
<1>5. CASE \E tier \in story.tiers : Upgrade(h, tier)
    BY <1>5, StoryFits, UpgradeFits
<1>6. CASE \E tier \in story.tiers : Downgrade(h, tier)
    BY <1>6, StoryFits, DowngradeFits
<1>7. CASE Cancel(h)
    BY <1>7, CancelFits
<1> QED BY <1>1, <1>2, <1>3, <1>4, <1>5, <1>6, <1>7 DEF Begin

LEMMA StepFits ==
    ASSUME TypeOK, RecordsFit, NEW h \in Handlers, HandlerFits(h), Step(h)
    PROVE  Fine(h)
<1>1. CASE Verify(h) \/ Synchronize(h) \/ Settle(h)
    BY <1>1, VerifyFits, SynchronizeFits, SettleFits
<1>2. CASE Advance(h) \/ Promote(h)
    BY <1>2, AdvanceFits, PromoteFits
<1>3. CASE LookAtSource(h) \/ CancelSource(h) \/ RetireSource(h) \/ Complete(h)
    BY <1>3, LookAtSourceFits, CancelSourceFits, RetireSourceFits, CompleteFits
<1>4. CASE Mark(h) \/ ReconcileCanonical(h)
    BY <1>4, MarkFits, ReconcileCanonicalFits
<1>5. CASE AskPayPal(h) \/ Commit(h)
    BY <1>5, AskPayPalFits, CommitFits
<1>6. CASE Intend(h) \/ Stop(h) \/ Withdraw(h)
    BY <1>6, IntendFits, StopFits, WithdrawFits
<1> QED BY <1>1, <1>2, <1>3, <1>4, <1>5, <1>6 DEF Step

LEMMA NextFits ==
    ASSUME TypeOK, Safe, Next
    PROVE  \E h \in Handlers \cup {None} : Fine(h)
<1> USE DEF Safe
<1>1. ASSUME NEW h \in Handlers, (FirstIdle(h) /\ Begin(h)) \/ Step(h) \/ CleanupOutage(h) \/ Dies(h)
      PROVE  Fine(h)
    BY <1>1, BeginFits, StepFits, CleanupOutageFits, DiesFits DEF HandlersFit
<1>2. ASSUME NEW s \in story.subs,
             AtPayPal(s) \/ Leaves(s) \/ PeriodPasses(s) \/ Lapse(s)
                \/ \E outcome \in {"PAID", "FAILED"} : Bill(s, outcome)
      PROVE  Fine(None)
    BY <1>2, StoryFits, AtPayPalFits, LeavesFits, PeriodPassesFits, LapseFits, BillFits DEF Outcomes
<1> QED BY <1>1, <1>2 DEF Next

LEMMA InitFits == Init => TypeOK /\ Safe
<1> SUFFICES ASSUME Init PROVE TypeOK /\ Safe
    OBVIOUS
<1>1. /\ NoProvider \in ProviderSet /\ NoProvider.st = "NONE" /\ NoProvider.by = "nobody"
      /\ NoRow \in RowSet /\ NoRow.status = "NONE"
      /\ NoUpgrade \in UpgradeSet /\ NoUpgrade.status = "NONE" /\ ~NoUpgrade.activated
      /\ NoDowngrade \in DowngradeSet /\ NoDowngrade.status = "NONE"
  <2>1. <<>> \in Seq(Outcomes)
      OBVIOUS
  <2> QED BY <2>1 DEF NoProvider, NoRow, NoUpgrade, NoDowngrade, ProviderSet, RowSet, UpgradeSet,
                      DowngradeSet, ProviderStates, RowStates, UpgradeStates, Reference, None
<1>2. TypeOK
    BY <1>1, IdleIsARun DEF Init, TypeOK
<1>3. RecordsFit
    BY <1>1 DEF Init, RecordsFit, Known, Approved
<1>4. HandlersFit
    BY IdleIsARun DEF Init, HandlersFit, HandlerFits, ReadFits, WorkFits, CleanupFits, Replacing
<1>5. PeriodsFollowTier
    BY <1>1 DEF Init, PeriodsFollowTier, Supported
<1>6. ReplacementIsExact
    BY <1>1 DEF Init, ReplacementIsExact
<1> QED BY <1>2, <1>3, <1>4, <1>5, <1>6 DEF Safe

LEMMA StutterFits ==
    ASSUME TypeOK, Safe, UNCHANGED vars
    PROVE  TypeOK' /\ Safe'
<1>1. TypeOK'
    BY DEF TypeOK, vars
<1>2. RecordsFit' /\ PeriodsFollowTier'
    BY DEF Safe, RecordsFit, PeriodsFollowTier, Known, Approved, Superseding, vars
<1>3. HandlersFit'
  <2> SUFFICES ASSUME NEW h \in Handlers PROVE HandlerFits(h)'
      BY DEF HandlersFit
  <2>1. HandlerFits(h)
      BY DEF Safe, HandlersFit
  <2> QED BY <2>1 DEF HandlerFits, ReadFits, WorkFits, CleanupFits, Known, Approved, Stopped, vars
<1>4. ReplacementIsExact'
    BY DEF Safe, ReplacementIsExact, Superseding, vars
<1> QED BY <1>1, <1>2, <1>3, <1>4 DEF Safe

(* The invariant is inductive: what handlers know of PayPal, however old, is *)
(* true of it in the sense of ReadFits, and the records agree.               *)
THEOREM Invariance == Spec => [](TypeOK /\ Safe)
<1>1. TypeOK /\ Safe /\ [Next]_vars => TypeOK' /\ Safe'
    BY NextFits, FineIsSafe, StutterFits
<1> QED BY <1>1, InitFits, PTL DEF Spec

(* Every variable has its type: in particular a row has at most one open     *)
(* period.                                                                   *)
THEOREM TypeCorrect == Spec => []TypeOK
BY Invariance, PTL

(* The tier history follows the row, whatever is read late and written later *)
(* (OpenPeriods of synchronizeVerifiedPayPalSubscription, the promotion).    *)
THEOREM PeriodsFollow == Spec => []PeriodsFollowTier
<1>1. TypeOK /\ Safe => PeriodsFollowTier
    BY DEF Safe
<1> QED BY <1>1, Invariance, PTL

(* A source is cancelled only for a replacement PayPal approved, and a       *)
(* change is completed only when its source has ended.                       *)
THEOREM ReplacementExact == Spec => []ReplacementIsExact
<1>1. TypeOK /\ Safe => ReplacementIsExact
    BY DEF Safe
<1> QED BY <1>1, Invariance, PTL

-----------------------------------------------------------------------------
(* Payments: the steps that no payment and no synchronization is part of     *)

PaymentQuiet ==
    \A s \in Subs :
        /\ provider'[s].bills = provider[s].bills
        /\ provider'[s].st = "SUSPENDED" => provider[s].st = "SUSPENDED"
        /\ row'[s].failure = row[s].failure /\ row'[s].recovery = row[s].recovery
        /\ row'[s].late = row[s].late \/ ~Billed(s)
        /\ \/ row'[s].status = row[s].status
           \/ Over(s) \/ ~Billed(s) \/ row[s].status = "CANCELLATION_SCHEDULED"

LEMMA SameBills ==
    ASSUME NEW s \in Subs, provider'[s].bills = provider[s].bills
    PROVE  /\ Failed(s)' = Failed(s) /\ Paid(s)' = Paid(s) /\ Newest(s)' = Newest(s)
           /\ Billed(s)' = Billed(s) /\ LastFailed(s)' = LastFailed(s)
<1>1. PICK b : b = provider[s].bills /\ b = provider'[s].bills
    OBVIOUS
<1>2. Failed(s)' = Failed(s) /\ Paid(s)' = Paid(s)
    BY <1>1 DEF Failed, Paid
<1>3. Newest(s)' = Newest(s) /\ Billed(s)' = Billed(s)
    BY DEF Newest, Billed
<1>4. LastFailed(s)' = LastFailed(s)
    BY <1>1 DEF LastFailed
<1> QED BY <1>2, <1>3, <1>4

LEMMA BillsFit ==
    ASSUME TypeOK, NEW s \in Subs
    PROVE  /\ Newest(s) \in Nat /\ DOMAIN provider[s].bills = 1..Newest(s)
           /\ Billed(s) <=> Newest(s) # 0
           /\ Failed(s) \subseteq 1..Newest(s) /\ Paid(s) \subseteq 1..Newest(s)
           /\ Failed(s) \cap Paid(s) = {}
           /\ Billed(s) => Newest(s) \in Failed(s) \/ Newest(s) \in Paid(s)
           /\ \A t \in 1..Newest(s) : provider[s].bills[t] \in Outcomes
<1>1. PICK b \in Seq(Outcomes) : b = provider[s].bills
    BY DEF TypeOK, ProviderSet
<1>2. Len(b) \in Nat /\ DOMAIN b = 1..Len(b) /\ (b = <<>> <=> Len(b) = 0)
      /\ \A t \in 1..Len(b) : b[t] \in Outcomes
    OBVIOUS
<1> QED BY <1>1, <1>2 DEF Newest, Billed, Failed, Paid, Outcomes

(* A reading stands while no payment is tried.                               *)
LEMMA ReadStands ==
    ASSUME NEW s \in Subs, provider'[s].bills = provider[s].bills, Over(s) => Over(s)',
           NEW read, NEW t, ReadOfPayments(read, t, s)
    PROVE  ReadOfPayments(read, t, s)'
<1>1. /\ Failed(s)' = Failed(s) /\ Newest(s)' = Newest(s) /\ Billed(s)' = Billed(s)
      /\ DOMAIN provider'[s].bills = DOMAIN provider[s].bills
    BY SameBills
<1>2. /\ t # 0 => t \in DOMAIN provider'[s].bills
      /\ read.failed \in {0} \cup Failed(s)'
      /\ t \in Failed(s)' => read.failed >= t
      /\ read.bills <= Newest(s)'
      /\ read.st \in Unpaid => t <= read.bills
      /\ read.st = "APPROVAL_PENDING" => read.bills = 0
      /\ read.st = "SUSPENDED" /\ read.bills = Newest(s)' => Newest(s)' \in Failed(s)'
      /\ read.st = "CANCELLED" => Over(s)'
      /\ Billed(s)' => read.st \in {"APPROVAL_PENDING", "ACTIVE", "SUSPENDED", "CANCELLED"}
    BY <1>1 DEF ReadOfPayments
<1> QED BY <1>2 DEF ReadOfPayments

(* A fresh one is right.                                                     *)
LEMMA SeenOfPayments ==
    ASSUME TypeOK, PaymentsFit, NEW s \in Subs, NEW t, t = 0 \/ t \in DOMAIN provider[s].bills,
           NEW read, read = Seen(s)
    PROVE  ReadOfPayments(read, t, s)
<1>1. /\ read.st = provider[s].st /\ read.failed = LastFailed(s)
      /\ read.bills = IF provider[s].st \in Unpaid THEN Newest(s) ELSE 0
    BY SeenFits
<1>2. Newest(s) \in Nat /\ DOMAIN provider[s].bills = 1..Newest(s)
      /\ (Billed(s) <=> Newest(s) # 0)
    BY BillsFit
<1>3. LastFailed(s) \in {0} \cup Failed(s) /\ \A f \in Failed(s) : LastFailed(s) >= f
    BY LastFailedFits
<1>4. /\ Billed(s) => provider[s].st \in {"ACTIVE", "SUSPENDED", "CANCELLED"}
      /\ provider[s].st = "SUSPENDED" => Newest(s) \in Failed(s)
    BY DEF PaymentsFit, Approved
<1>5. t <= Newest(s) /\ read.bills <= Newest(s)
    BY <1>1, <1>2
<1>6. provider[s].st = "APPROVAL_PENDING" => read.bills = 0
    BY <1>1, <1>2, <1>4
<1> QED BY <1>1, <1>2, <1>3, <1>4, <1>5, <1>6 DEF ReadOfPayments, Over, Unpaid

LEMMA QuietKeepsPayments ==
    ASSUME TypeOK, TypeOK', RecordsFit, NEW h, Moves(h), PaymentsFit, PaymentQuiet,
           \A s \in Subs : \A t \in DOMAIN event'[s] :
              event'[s][t] = "PROCESSED" =>
                 \/ event[s][t] = "PROCESSED" /\ t \in DOMAIN event[s]
                 \/ t <= Newest(s) /\ (t = Newest(s) => Synced(s) \/ Over(s))
    PROVE  PaymentsFit'
<1> SUFFICES ASSUME NEW s \in Subs
             PROVE  /\ Billed(s)' => Approved(s)'
                    /\ provider'[s].st = "SUSPENDED" => Newest(s)' \in Failed(s)'
                    /\ row'[s].failure \in {0} \cup Failed(s)'
                    /\ row'[s].recovery \in {0} \cup Paid(s)'
                    /\ Newest(s)' <= story'.bills
                    /\ \A t \in DOMAIN event'[s] : event'[s][t] = "PROCESSED" => t <= Newest(s)'
                    /\ Billed(s)' /\ ~Over(s)' =>
                          /\ row'[s].failure = Newest(s)' => row'[s].status = "PAYMENT_RETRY" \/ Overtaken(s)'
                          /\ row'[s].recovery = Newest(s)' => row'[s].status = "ACTIVE" \/ Overtaken(s)'
                          /\ event'[s][Newest(s)'] = "PROCESSED" => Synced(s)'
    BY DEF PaymentsFit
<1>1. /\ Failed(s)' = Failed(s) /\ Paid(s)' = Paid(s) /\ Newest(s)' = Newest(s)
      /\ Billed(s)' = Billed(s) /\ LastFailed(s)' = LastFailed(s)
    BY SameBills DEF PaymentQuiet
<1>2. Approved(s) => Approved(s)'
    BY MovesKeep
<1>3. Over(s) => Over(s)'
    BY MovesKeep DEF Over, Stopped
<1>4. row'[s].failure = row[s].failure /\ row'[s].recovery = row[s].recovery /\ story' = story
    BY DEF PaymentQuiet, Moves
<1>5. Billed(s)' => Approved(s)'
    BY <1>1, <1>2 DEF PaymentsFit
<1>6. provider'[s].st = "SUSPENDED" => Newest(s)' \in Failed(s)'
    BY <1>1 DEF PaymentsFit, PaymentQuiet
<1>7. row'[s].failure \in {0} \cup Failed(s)' /\ row'[s].recovery \in {0} \cup Paid(s)'
      /\ Newest(s)' <= story'.bills
    BY <1>1, <1>4 DEF PaymentsFit
<1>8. ASSUME NEW t \in DOMAIN event'[s], event'[s][t] = "PROCESSED"
      PROVE  t <= Newest(s)' /\ (t = Newest(s)' => Synced(s) \/ Over(s) \/ ~Billed(s))
    BY <1>1, <1>8 DEF PaymentsFit
<1>9. ASSUME Billed(s)', ~Over(s)'
      PROVE  /\ row'[s].failure = Newest(s)' => row'[s].status = "PAYMENT_RETRY" \/ Overtaken(s)'
             /\ row'[s].recovery = Newest(s)' => row'[s].status = "ACTIVE" \/ Overtaken(s)'
             /\ event'[s][Newest(s)'] = "PROCESSED" => Synced(s)'
  <2>1. Billed(s) /\ ~Over(s)
      BY <1>1, <1>3, <1>9
  <2>2. /\ row[s].failure = Newest(s) => row[s].status = "PAYMENT_RETRY" \/ Overtaken(s)
        /\ row[s].recovery = Newest(s) => row[s].status = "ACTIVE" \/ Overtaken(s)
      BY <2>1 DEF PaymentsFit
  <2>3. row[s].failure = Newest(s) \/ row[s].recovery = Newest(s) =>
            row'[s].status = row[s].status \/ Overtaken(s)
      BY <2>1, <2>2 DEF PaymentQuiet
  <2>7. Overtaken(s) => Overtaken(s)'
      BY <1>1, <2>1 DEF PaymentQuiet, Overtaken
  <2>4. Newest(s)' \in DOMAIN event'[s]
    <3>1. Newest(s)' \in 1..story'.bills
        BY <1>1, <1>7, <2>1, BillsFit, StoryFits DEF Moves
    <3> QED BY <3>1 DEF TypeOK
  <2>5. event'[s][Newest(s)'] = "PROCESSED" => Synced(s)
      BY <1>8, <2>1, <2>4
  <2>6. Synced(s)' = Synced(s)
      BY <1>1, <1>4 DEF Synced
  <2> QED BY <1>1, <1>4, <2>2, <2>3, <2>5, <2>6, <2>7
<1> QED BY <1>5, <1>6, <1>7, <1>8, <1>9

LEMMA QuietKeepsWork ==
    ASSUME TypeOK, TypeOK', RecordsFit, NEW h, Moves(h), PaymentQuiet, NEW k \in Handlers,
           HandlerFits(k), run'[k] = run[k], PaymentWorkFits(k)
    PROVE  PaymentWorkFits(k)'
<1> DEFINE x == run[k]
<1>1. CASE x.at \in {"verify", "sync", "settle", "advance", "mark"} \cup Replacing
  <2>1. x.s \in Subs
      BY <1>1 DEF HandlerFits, ReadFits, WorkFits, Known
  <2>2. provider'[x.s].bills = provider[x.s].bills
      BY <2>1 DEF PaymentQuiet
  <2>3. /\ Failed(x.s)' = Failed(x.s) /\ Paid(x.s)' = Paid(x.s) /\ Newest(x.s)' = Newest(x.s)
        /\ Billed(x.s)' = Billed(x.s) /\ LastFailed(x.s)' = LastFailed(x.s)
      BY <2>1, <2>2, SameBills
  <2>4. Over(x.s) => provider'[x.s].st = "CANCELLED"
      BY <2>1, MovesKeep DEF Over, Stopped
  <2>5. row'[x.s].failure = row[x.s].failure /\ row'[x.s].recovery = row[x.s].recovery
      BY <2>1 DEF PaymentQuiet
  <2>6. PICK s \in Subs : s = x.s
      BY <2>1
  <2>10. PICK read, t : read = x.read /\ t = x.bill
      OBVIOUS
  <2>7. x.at \in {"verify", "sync"} => ReadOfPayments(read, t, s)'
      BY <2>2, <2>4, <2>6, <2>10, ReadStands DEF PaymentWorkFits, Over
  <2>8. run'[k].read = read /\ run'[k].bill = t /\ run'[k].s = s /\ run'[k].at = x.at
      BY <2>6, <2>10
  <2>9. x.at \in {"verify", "sync"} => ReadOfPayments(run[k].read, run[k].bill, run[k].s)'
      BY <2>7, <2>8 DEF ReadOfPayments, Over, Newest, Billed, Failed
  <2> QED BY <1>1, <2>2, <2>3, <2>4, <2>5, <2>9 DEF PaymentWorkFits, Over, Synced
<1>2. CASE x.at \notin {"verify", "sync", "settle", "advance", "mark"} \cup Replacing
    BY <1>2 DEF PaymentWorkFits
<1> QED BY <1>1, <1>2

Paying == PaymentsFit /\ PaymentWorkFit

LEMMA QuietStep ==
    ASSUME TypeOK, Safe, Paying, NEW h, Fine(h), PaymentQuiet, event' = event,
           h \in Handlers => PaymentWorkFits(h)'
    PROVE  Paying'
<1>1. TypeOK' /\ Moves(h) /\ RecordsFit
    BY DEF Fine, Safe
<1>2. PaymentsFit'
    BY <1>1, QuietKeepsPayments DEF Paying
<1>3. ASSUME NEW k \in Handlers PROVE PaymentWorkFits(k)'
  <2>1. CASE k = h
      BY <2>1
  <2>2. CASE k # h
      BY <1>1, <2>2, QuietKeepsWork DEF Fine, Safe, HandlersFit, Paying, PaymentWorkFit
  <2> QED BY <2>1, <2>2
<1> QED BY <1>2, <1>3 DEF Paying, PaymentWorkFit

LEMMA SameRecordsAreQuiet ==
    ASSUME provider' = provider, row' = row
    PROVE  PaymentQuiet
BY DEF PaymentQuiet

(* Where the handler goes: to rest, on with its event, or to a fresh read.   *)
LEMMA RestPays ==
    ASSUME NEW h \in Handlers,
           run'[h].at \in {"idle", "canonical", "ask", "commit"}
              \/ (run'[h].at \in {"intend", "stop"} /\ run'[h].bill = 0)
    PROVE  PaymentWorkFits(h)'
BY DEF PaymentWorkFits, Replacing

Later == {"settle", "advance", "mark"} \cup Replacing

LEMMA LaterPays ==
    ASSUME TypeOK, TypeOK', RecordsFit, NEW h \in Handlers, HandlerFits(h), Moves(h), PaymentQuiet,
           PaymentWorkFits(h), run[h].at \in Later, run'[h].at \in Later,
           run'[h].s = run[h].s, run'[h].bill = run[h].bill
    PROVE  PaymentWorkFits(h)'
<1>1. PICK s \in Subs : s = run[h].s /\ s = run'[h].s
    BY DEF HandlerFits, WorkFits, Known, Later
<1>2. provider'[s].bills = provider[s].bills /\ Newest(s)' = Newest(s)
    BY SameBills DEF PaymentQuiet
<1>3. Over(s) => Over(s)'
    BY MovesKeep DEF Over, Stopped
<1>4. Synced(s)' = Synced(s)
    BY <1>2 DEF PaymentQuiet, Synced
<1>5. run[h].bill # 0 => /\ run[h].bill \in DOMAIN provider[s].bills
                         /\ run[h].bill = Newest(s) => Synced(s) \/ Over(s)
    BY <1>1 DEF PaymentWorkFits, Later
<1>6. run[h].bill # 0 => /\ run[h].bill \in DOMAIN provider'[s].bills
                         /\ run[h].bill = Newest(s)' => Synced(s)' \/ Over(s)'
    BY <1>2, <1>3, <1>4, <1>5
<1>7. run'[h].at \notin {"verify", "sync", "intend", "stop"}
    BY DEF Later, Replacing
<1> QED BY <1>1, <1>6, <1>7 DEF PaymentWorkFits, Newest, Synced, Over

LEMMA FreshReadPays ==
    ASSUME TypeOK, PaymentsFit, NEW h \in Handlers, NEW s \in Subs, provider' = provider,
           run'[h].at \in {"verify", "sync"}, run'[h].s = s, run'[h].read = Seen(s),
           run'[h].bill = 0 \/ (run'[h].op # "verify" /\ run'[h].bill \in DOMAIN provider[s].bills)
    PROVE  PaymentWorkFits(h)'
<1>1. PICK read, t : read = run'[h].read /\ t = run'[h].bill
    OBVIOUS
<1>2. ReadOfPayments(read, t, s)
    BY <1>1, SeenOfPayments
<1>3. ReadOfPayments(read, t, s)'
    BY <1>2, ReadStands DEF Over
<1>4. run'[h].at \notin {"settle", "advance", "mark", "intend", "stop"} \cup Replacing
    BY DEF Replacing
<1>5. ReadOfPayments(run[h].read, run[h].bill, run[h].s)'
    BY <1>1, <1>3 DEF ReadOfPayments, Over, Newest, Billed, Failed
<1> QED BY <1>4, <1>5 DEF PaymentWorkFits

-----------------------------------------------------------------------------
(* Payments: reading PayPal                                                  *)

LEMMA DeliverPays ==
    ASSUME TypeOK, RecordsFit, PaymentsFit, NEW h \in Handlers, NEW s \in Subs, NEW t, Deliver(h, s, t)
    PROVE  PaymentQuiet /\ event' = event /\ PaymentWorkFits(h)'
<1>1. PICK y : y = [Idle EXCEPT !.at = "verify", !.op = "event", !.s = s, !.bill = t, !.read = Seen(s)]
    OBVIOUS
<1>2. y.at = "verify" /\ y.op = "event" /\ y.s = s /\ y.read = Seen(s) /\ y.bill = t
    BY <1>1 DEF Idle
<1>3. run' = [run EXCEPT ![h] = y] /\ UNCHANGED <<provider, row, event>>
      /\ (t = 0 \/ t \in DOMAIN provider[s].bills)
    BY <1>1 DEF Deliver, rows
<1>4. run'[h] = y
    BY <1>3 DEF TypeOK
<1> QED BY <1>2, <1>3, <1>4, FreshReadPays, SameRecordsAreQuiet

LEMMA ReconcileTargetPays ==
    ASSUME TypeOK, RecordsFit, PaymentsFit, NEW h \in Handlers, NEW u \in Subs, ReconcileTarget(h, u)
    PROVE  PaymentQuiet /\ event' = event /\ PaymentWorkFits(h)'
<1>1. PICK y : y = [Idle EXCEPT !.at = "sync", !.op = "target", !.s = u, !.tier = row[u].tier,
                                !.read = Seen(u)]
    OBVIOUS
<1>2. y.at = "sync" /\ y.s = u /\ y.read = Seen(u) /\ y.bill = 0
    BY <1>1 DEF Idle
<1>3. UNCHANGED <<provider, row, event>>
    BY DEF ReconcileTarget, rows
<1>4. CASE run' = [run EXCEPT ![h] = y]
  <2>1. run'[h] = y
      BY <1>4 DEF TypeOK
  <2> QED BY <1>2, <1>3, <2>1, FreshReadPays, SameRecordsAreQuiet
<1>5. CASE run' = [run EXCEPT ![h] = Idle]
    BY <1>3, <1>5, DoneFits, IdleIsARun, RestPays, SameRecordsAreQuiet DEF Done
<1> QED BY <1>1, <1>4, <1>5 DEF ReconcileTarget

LEMMA ReconcileCanonicalPays ==
    ASSUME TypeOK, RecordsFit, PaymentsFit, NEW h \in Handlers, ReconcileCanonical(h)
    PROVE  PaymentQuiet /\ event' = event /\ PaymentWorkFits(h)'
<1>1. PICK y : y = [Idle EXCEPT !.at = "verify", !.op = "reconcile", !.s = Canonical,
                                !.read = Seen(Canonical)]
    OBVIOUS
<1>2. y.at = "verify" /\ y.s = Canonical /\ y.read = Seen(Canonical) /\ y.bill = 0
    BY <1>1 DEF Idle
<1>3. UNCHANGED <<provider, row, event>>
    BY DEF ReconcileCanonical, rows
<1>4. CASE Canonical # None /\ run' = [run EXCEPT ![h] = y]
  <2>1. run'[h] = y /\ Canonical \in Subs
      BY <1>4, CanonicalFits DEF TypeOK, Known
  <2> QED BY <1>2, <1>3, <2>1, FreshReadPays, SameRecordsAreQuiet
<1>5. CASE run' = [run EXCEPT ![h] = Idle]
    BY <1>3, <1>5, DoneFits, IdleIsARun, RestPays, SameRecordsAreQuiet DEF Done
<1> QED BY <1>1, <1>4, <1>5 DEF ReconcileCanonical

LEMMA VerifyPays ==
    ASSUME TypeOK, NEW h \in Handlers, HandlerFits(h), PaymentWorkFits(h), Verify(h)
    PROVE  PaymentQuiet /\ event' = event /\ PaymentWorkFits(h)'
<1>1. PICK x \in RunSet : x = run[h]
    BY DEF TypeOK
<1>2. PICK flag : flag = (x.op = "event" /\ Superseding(x.s) # {})
    OBVIOUS
<1>3. PICK y : y = [x EXCEPT !.at = "sync", !.tier = x.read.plan, !.superseded = flag]
    OBVIOUS
<1>4. x.at = "verify" /\ UNCHANGED <<provider, row, event>>
    BY <1>1 DEF Verify, rows
<1>5. y.at = "sync" /\ y.s = x.s /\ y.read = x.read /\ y.bill = x.bill /\ y.op = x.op
    BY <1>3 DEF RunSet
<1>6. CASE run' = [run EXCEPT ![h] = y]
  <2>1. run'[h] = y
      BY <1>6 DEF TypeOK
  <2>2. PICK s \in Subs : s = x.s
      BY <1>1, <1>4 DEF HandlerFits, ReadFits
  <2>3. PICK read, t : read = x.read /\ t = x.bill
      OBVIOUS
  <2>4. ReadOfPayments(read, t, s) /\ (x.op = "verify" => x.bill = 0)
      BY <1>1, <1>4, <2>2, <2>3 DEF PaymentWorkFits
  <2>5. ReadOfPayments(read, t, s)'
      BY <1>4, <2>4, ReadStands DEF Over
  <2>6. run'[h].read = read /\ run'[h].bill = t /\ run'[h].s = s /\ run'[h].at = "sync"
        /\ run'[h].op = x.op
      BY <1>5, <2>1, <2>2, <2>3
  <2>7. ReadOfPayments(run[h].read, run[h].bill, run[h].s)'
      BY <2>5, <2>6 DEF ReadOfPayments, Over, Newest, Billed, Failed
  <2>8. "sync" \notin {"settle", "advance", "mark", "intend", "stop"} \cup Replacing
      BY DEF Replacing
  <2>9. PaymentWorkFits(h)'
      BY <1>5, <2>1, <2>4, <2>6, <2>7, <2>8 DEF PaymentWorkFits
  <2> QED BY <1>4, <2>9, SameRecordsAreQuiet
<1>7. CASE run' = [run EXCEPT ![h] = Idle]
    BY <1>4, <1>7, DoneFits, IdleIsARun, RestPays, SameRecordsAreQuiet DEF Done
<1> QED BY <1>1, <1>2, <1>3, <1>6, <1>7 DEF Verify

-----------------------------------------------------------------------------
(* Payments: the synchronization                                             *)

(* A reading of PayPal, with the payment t of the event and the failure that *)
(* is taken from it.                                                         *)
NamesPayments(s, kind, t, read, failedAt) ==
    /\ ReadOfPayments(read, t, s)
    /\ kind = "plain" <=> t = 0
    /\ kind = "FAILED" => t \in Failed(s) /\ failedAt \in Failed(s) /\ failedAt \in {t, read.failed}
    /\ kind = "PAID" => t \in Paid(s)

(* The row q that follows the payments of s, t among them.                   *)
FollowsPayments(q, s, t) ==
    /\ q.failure \in {0} \cup Failed(s) /\ q.recovery \in {0} \cup Paid(s)
    /\ Synced(s) => Newest(s) \in {q.failure, q.recovery}
    /\ t # 0 /\ t = Newest(s) /\ ~Over(s) => Newest(s) \in {q.failure, q.recovery}
    /\ Billed(s) /\ ~Over(s) =>
          /\ q.failure = Newest(s) => q.status = "PAYMENT_RETRY" \/ q.late = Newest(s)
          /\ q.recovery = Newest(s) => q.status = "ACTIVE" \/ q.late = Newest(s)

LEMMA SyncedRowFits ==
    ASSUME TypeOK, PaymentsFit, NEW s \in Subs, NEW r \in RowSet, r = row[s],
           NEW kind \in {"plain"} \cup Outcomes, NEW t \in Nat, NEW read \in ReadSet, NEW tier,
           NEW failedAt \in Nat, NEW superseded,
           NEW p, SynchronizedRow(p, r, kind, t, read, tier, failedAt, superseded),
           NamesPayments(s, kind, t, read, failedAt),
           NEW q \in RowSet, q.status = p.status, q.failure = p.failure, q.recovery = p.recovery,
           q.late = IF Outdated(s, read) THEN Newest(s) ELSE p.late
    PROVE  FollowsPayments(q, s, t)
<1> USE DEF NamesPayments
<1> DEFINE n == Newest(s)
<1>1. PICK F : F = Failed(s)
    OBVIOUS
<1>2. PICK P : P = Paid(s)
    OBVIOUS
<1>3. n \in Nat /\ F \subseteq 1..n /\ P \subseteq 1..n /\ F \cap P = {} /\ (Billed(s) <=> n # 0)
      /\ (Billed(s) => n \in F \/ n \in P)
    BY <1>1, <1>2, BillsFit
<1>4. r.failure \in {0} \cup F /\ r.recovery \in {0} \cup P
    BY <1>1, <1>2 DEF PaymentsFit
<1>5. /\ q.failure \in {r.failure, failedAt} /\ q.failure >= r.failure
      /\ q.failure # r.failure => kind = "FAILED" /\ failedAt > r.recovery
      /\ q.recovery \in {r.recovery, t} /\ q.recovery >= r.recovery
      /\ q.recovery # r.recovery => kind = "PAID" /\ read.st = "ACTIVE" /\ t > r.failure
      /\ kind = "FAILED" /\ failedAt > r.recovery => q.failure >= failedAt
      /\ kind = "PAID" /\ read.st = "ACTIVE" /\ t > r.failure => q.recovery >= t
    BY DEF SynchronizedRow
<1>6. /\ q.failure \in {0} \cup F /\ q.recovery \in {0} \cup P
      /\ r.failure \in 0..n /\ r.recovery \in 0..n /\ q.failure \in 0..n /\ q.recovery \in 0..n
  <2>1. q.failure \in {0} \cup F /\ q.recovery \in {0} \cup P
      BY <1>1, <1>2, <1>4, <1>5
  <2>2. {0} \cup F \subseteq 0..n /\ {0} \cup P \subseteq 0..n
      BY <1>3
  <2> QED BY <1>4, <2>1, <2>2
<1>7. Synced(s) => n \in {q.failure, q.recovery}
    BY <1>3, <1>4, <1>5, <1>6 DEF Synced
<1>8. /\ read.failed \in {0} \cup F /\ (t \in F => read.failed >= t)
      /\ read.bills <= n /\ read.bills \in Nat
      /\ read.st \in Unpaid => t <= read.bills
      /\ read.st = "APPROVAL_PENDING" => read.bills = 0
      /\ read.st = "SUSPENDED" /\ read.bills = n => n \in F
      /\ read.st = "CANCELLED" => Over(s)
      /\ Billed(s) => read.st \in {"APPROVAL_PENDING", "ACTIVE", "SUSPENDED", "CANCELLED"}
    BY <1>1 DEF ReadOfPayments, ReadSet
<1>9. ASSUME t # 0, t = n, ~Over(s)
      PROVE  n \in {q.failure, q.recovery}
  <2>1. CASE kind = "FAILED"
    <3>1. n \in F /\ failedAt = n
        BY <1>1, <1>3, <1>8, <1>9, <2>1
    <3>2. r.recovery # n
        BY <1>3, <1>4, <1>9, <3>1
    <3>3. q.failure >= n
        BY <1>3, <1>5, <1>6, <2>1, <3>1, <3>2
    <3> QED BY <1>3, <1>6, <3>3
  <2>2. CASE kind = "PAID"
    <3>1. n \in P /\ n \notin F /\ Billed(s)
        BY <1>2, <1>3, <1>9, <2>2
    <3>2. read.st = "ACTIVE"
        BY <1>3, <1>8, <1>9, <3>1 DEF Unpaid
    <3>3. q.recovery >= n
        BY <1>1, <1>3, <1>4, <1>5, <1>9, <2>2, <3>1, <3>2
    <3> QED BY <1>3, <1>6, <3>3
  <2> QED BY <1>9, <2>1, <2>2 DEF Outcomes
<1>10. ASSUME Billed(s), ~Over(s), q.late # n
       PROVE  /\ q.failure = n => q.status = "PAYMENT_RETRY"
              /\ q.recovery = n => q.status = "ACTIVE"
  <2>1. ~Outdated(s, read) /\ r.late # n
      BY <1>10 DEF SynchronizedRow
  <2>2. read.st \in {"ACTIVE", "SUSPENDED"} /\ n # 0 /\ (read.st = "SUSPENDED" => n \in F)
      BY <1>3, <1>8, <1>10, <2>1 DEF Outdated, Unpaid, Newest
  <2>3. /\ r.failure = n => r.status = "PAYMENT_RETRY"
        /\ r.recovery = n => r.status = "ACTIVE"
      BY <1>10, <2>1 DEF PaymentsFit, Overtaken
  <2>4. q.status = EffectiveStatus(r, kind, t, read, failedAt, superseded)
      BY DEF SynchronizedRow
  <2>5. q.status = IF kind = "FAILED" /\ failedAt > r.recovery THEN "PAYMENT_RETRY"
                   ELSE IF r.status = "PAYMENT_RETRY" /\ read.st = "ACTIVE"
                              /\ ~(kind = "PAID" /\ t > r.failure) THEN "PAYMENT_RETRY"
                   ELSE IF read.st = "ACTIVE" THEN "ACTIVE" ELSE "PAYMENT_RETRY"
      BY <2>2, <2>4 DEF EffectiveStatus, Translated, NewerFailure, Recovered
  <2>6. ASSUME q.failure = n PROVE q.status = "PAYMENT_RETRY"
    <3>1. CASE r.failure = n
      <4>1. kind = "PAID" => ~(t > r.failure)
          BY <1>2, <1>3, <3>1
      <4> QED BY <2>2, <2>3, <2>5, <3>1, <4>1
    <3>2. CASE r.failure # n
        BY <1>5, <2>5, <2>6, <3>2
    <3> QED BY <3>1, <3>2
  <2>7. ASSUME q.recovery = n PROVE q.status = "ACTIVE"
    <3>1. n \in P /\ n \notin F
        BY <1>3, <1>6, <2>2, <2>7
    <3>2. read.st = "ACTIVE"
        BY <2>2, <3>1
    <3>3. CASE r.recovery = n
      <4>1. ~(kind = "FAILED" /\ failedAt > r.recovery)
          BY <1>1, <1>3, <3>3
      <4> QED BY <2>3, <2>5, <3>2, <3>3, <4>1
    <3>4. CASE r.recovery # n
        BY <1>5, <2>5, <2>7, <3>2, <3>4
    <3> QED BY <3>3, <3>4
  <2> QED BY <2>6, <2>7
<1> QED BY <1>1, <1>2, <1>6, <1>7, <1>9, <1>10 DEF FollowsPayments

LEMMA SynchronizePays ==
    ASSUME TypeOK, Safe, Paying, NEW h \in Handlers, Synchronize(h)
    PROVE  Paying'
<1>1. PICK x \in RunSet : x = run[h]
    BY DEF TypeOK
<1>2. x.at = "sync" /\ UNCHANGED <<provider, upgrade, downgrade, event, account, story>>
    BY <1>1 DEF Synchronize
<1>3. HandlerFits(h) /\ PaymentWorkFits(h) /\ RecordsFit /\ PaymentsFit
    BY DEF Safe, HandlersFit, Paying, PaymentWorkFit
<1>4. PICK s \in Subs : s = x.s
    BY <1>1, <1>2, <1>3 DEF HandlerFits, WorkFits, Known
<1>5. ReadOfPayments(x.read, x.bill, s) /\ (x.op = "verify" => x.bill = 0)
      /\ (x.bill # 0 => x.bill \in DOMAIN provider[s].bills)
    BY <1>1, <1>2, <1>3, <1>4 DEF PaymentWorkFits, ReadOfPayments
<1>6. x.bill \in Nat /\ x.read \in ReadSet /\ x.tier \in Nat /\ x.superseded \in BOOLEAN
      /\ x.read.failed \in Nat
    BY DEF RunSet, ReadSet
<1>7. PICK kind : kind = Kind(h)
    OBVIOUS
<1>8. /\ kind \in {"plain"} \cup Outcomes
      /\ kind = "plain" <=> x.bill = 0
      /\ kind = "FAILED" => x.bill \in Failed(s)
      /\ kind = "PAID" => x.bill \in Paid(s)
  <2>1. CASE x.bill = 0
      BY <1>1, <1>7, <2>1 DEF Kind
  <2>2. CASE x.bill # 0
    <3>1. kind = provider[s].bills[x.bill] /\ x.bill \in DOMAIN provider[s].bills
        BY <1>1, <1>4, <1>5, <1>7, <2>2 DEF Kind
    <3>2. kind \in Outcomes
        BY <3>1, BillsFit
    <3> QED BY <2>2, <3>1, <3>2 DEF Failed, Paid, Outcomes
  <2> QED BY <2>1, <2>2
<1>9. PICK failedAt \in Nat, read \in ReadSet, p \in RowSet, q \in RowSet :
          SynchronizedAs(h, s, failedAt, read, p, q)
    BY <1>1, <1>4, Synchronizes
<1>10. /\ read.st = x.read.st /\ read.failed = x.read.failed /\ read.bills = x.read.bills
       /\ failedAt \in {x.bill} \cup ({x.read.failed} \ {0})
       /\ q.status = p.status /\ q.failure = p.failure /\ q.recovery = p.recovery
       /\ q.late = IF Outdated(s, read) THEN Newest(s) ELSE p.late
       /\ row' = [row EXCEPT ![s] = q]
    BY <1>1, <1>9 DEF SynchronizedAs
<1>11. PICK r \in RowSet : r = row[s]
    BY DEF TypeOK
<1>12. SynchronizedRow(p, r, kind, x.bill, read, x.tier, failedAt, x.superseded)
    BY <1>1, <1>7, <1>9, <1>11 DEF SynchronizedAs
<1>13. kind = "FAILED" => failedAt \in Failed(s) /\ failedAt \in {x.bill, read.failed}
    BY <1>5, <1>8, <1>10 DEF ReadOfPayments
<1>14. ReadOfPayments(read, x.bill, s)
    BY <1>5, <1>10 DEF ReadOfPayments
<1>15. row'[s] = q /\ \A o \in Subs \ {s} : row'[o] = row[o]
    BY <1>10 DEF TypeOK
<1>16. FollowsPayments(q, s, x.bill)
  <2>1. NamesPayments(s, kind, x.bill, read, failedAt)
      BY <1>8, <1>13, <1>14 DEF NamesPayments
  <2> QED BY <1>3, <1>6, <1>8, <1>10, <1>11, <1>12, <2>1, SyncedRowFits
<1>17. ASSUME NEW o \in Subs
       PROVE  /\ Failed(o)' = Failed(o) /\ Paid(o)' = Paid(o) /\ Newest(o)' = Newest(o)
              /\ Billed(o)' = Billed(o) /\ LastFailed(o)' = LastFailed(o)
              /\ Over(o)' = Over(o) /\ Approved(o)' = Approved(o)
              /\ Synced(o) => Synced(o)'
  <2>1. Failed(o)' = Failed(o) /\ Paid(o)' = Paid(o) /\ Newest(o)' = Newest(o)
        /\ Billed(o)' = Billed(o) /\ LastFailed(o)' = LastFailed(o)
      BY <1>2, SameBills
  <2>2. Over(o)' = Over(o) /\ Approved(o)' = Approved(o)
      BY <1>2 DEF Over, Approved
  <2>3. CASE o = s
      BY <1>15, <1>16, <2>1, <2>2, <2>3 DEF Synced, FollowsPayments
  <2>4. CASE o # s
      BY <1>15, <2>1, <2>2, <2>4 DEF Synced
  <2> QED BY <2>3, <2>4, <2>1, <2>2
<1>18. PaymentsFit'
  <2> SUFFICES ASSUME NEW o \in Subs
               PROVE  /\ Billed(o)' => Approved(o)'
                      /\ provider'[o].st = "SUSPENDED" => Newest(o)' \in Failed(o)'
                      /\ row'[o].failure \in {0} \cup Failed(o)'
                      /\ row'[o].recovery \in {0} \cup Paid(o)'
                      /\ Newest(o)' <= story'.bills
                      /\ \A t \in DOMAIN event'[o] : event'[o][t] = "PROCESSED" => t <= Newest(o)'
                      /\ Billed(o)' /\ ~Over(o)' =>
                            /\ row'[o].failure = Newest(o)' => row'[o].status = "PAYMENT_RETRY" \/ Overtaken(o)'
                            /\ row'[o].recovery = Newest(o)' => row'[o].status = "ACTIVE" \/ Overtaken(o)'
                            /\ event'[o][Newest(o)'] = "PROCESSED" => Synced(o)'
      BY DEF PaymentsFit
  <2>1. /\ Billed(o)' => Approved(o)'
        /\ provider'[o].st = "SUSPENDED" => Newest(o)' \in Failed(o)'
        /\ Newest(o)' <= story'.bills
        /\ \A t \in DOMAIN event'[o] : event'[o][t] = "PROCESSED" => t <= Newest(o)'
        /\ Billed(o)' /\ ~Over(o)' /\ event'[o][Newest(o)'] = "PROCESSED" => Synced(o)'
      BY <1>2, <1>3, <1>17 DEF PaymentsFit
  <2>2. CASE o = s
      BY <1>15, <1>16, <1>17, <2>1, <2>2 DEF FollowsPayments, Overtaken
  <2>3. CASE o # s
    <3>1. Overtaken(o)' = Overtaken(o)
        BY <1>15, <1>17, <2>3 DEF Overtaken
    <3> QED BY <1>3, <1>15, <1>17, <2>1, <2>3, <3>1 DEF PaymentsFit
  <2> QED BY <2>2, <2>3
<1>19. PICK y : y = CASE x.op = "cancel" -> Idle
                      [] x.op = "verify" -> [x EXCEPT !.at = "intend", !.op = "cancel", !.read = NoRead]
                      [] OTHER -> [x EXCEPT !.at = "settle", !.superseded = FALSE,
                                            !.read = [NoRead EXCEPT !.st = q.status]]
    OBVIOUS
<1>20. run' = [run EXCEPT ![h] = y]
    BY <1>1, <1>4, <1>15, <1>19 DEF Synchronize
<1>21. run'[h] = y /\ \A k \in Handlers \ {h} : run'[k] = run[k]
    BY <1>20 DEF TypeOK
<1>22. y.at = "idle" \/ (y.at = "intend" /\ y.bill = 0)
          \/ (y.at = "settle" /\ y.bill = x.bill /\ y.s = s)
    BY <1>4, <1>5, <1>19, IdleIsARun DEF RunSet
<1>23. PaymentWorkFits(h)'
  <2>1. CASE y.at = "idle" \/ (y.at = "intend" /\ y.bill = 0)
      BY <1>21, <2>1, RestPays
  <2>2. CASE y.at = "settle" /\ y.bill = x.bill /\ y.s = s
    <3>1. x.bill # 0 => /\ x.bill \in DOMAIN provider'[s].bills
                        /\ x.bill = Newest(s)' => Synced(s)' \/ Over(s)'
        BY <1>2, <1>5, <1>15, <1>16, <1>17 DEF Synced, FollowsPayments
    <3>2. "settle" \notin {"verify", "sync", "intend", "stop"}
        OBVIOUS
    <3> QED BY <1>21, <2>2, <3>1, <3>2 DEF PaymentWorkFits, Newest, Synced, Over
  <2> QED BY <1>22, <2>1, <2>2
<1>24. ASSUME NEW k \in Handlers, k # h PROVE PaymentWorkFits(k)'
  <2> DEFINE z == run[k]
  <2>1. run'[k] = z /\ PaymentWorkFits(k) /\ HandlerFits(k)
      BY <1>21, <1>24 DEF Safe, HandlersFit, Paying, PaymentWorkFit
  <2>2. CASE z.at \in {"verify", "sync"} \cup Later
    <3>1. PICK o \in Subs : o = z.s
        BY <2>1, <2>2 DEF HandlerFits, ReadFits, WorkFits, Known, Later
    <3>2. provider'[o].bills = provider[o].bills
        BY <1>2
    <3>3. PICK seen, t : seen = z.read /\ t = z.bill
        OBVIOUS
    <3>4. z.at \in {"verify", "sync"} => ReadOfPayments(seen, t, o)'
        BY <1>2, <2>1, <3>1, <3>2, <3>3, ReadStands DEF PaymentWorkFits, Over
    <3>5. run'[k].read = seen /\ run'[k].bill = t /\ run'[k].s = o /\ run'[k].at = z.at
        BY <2>1, <3>1, <3>3
    <3>6. z.at \in {"verify", "sync"} => ReadOfPayments(run[k].read, run[k].bill, run[k].s)'
        BY <3>4, <3>5 DEF ReadOfPayments, Over, Newest, Billed, Failed
    <3> QED BY <1>2, <1>17, <2>1, <2>2, <3>1, <3>2, <3>6 DEF PaymentWorkFits, Later
  <2>3. CASE z.at \notin {"verify", "sync"} \cup Later
      BY <2>1, <2>3 DEF PaymentWorkFits, Later
  <2> QED BY <2>2, <2>3
<1> QED BY <1>18, <1>23, <1>24 DEF Paying, PaymentWorkFit

-----------------------------------------------------------------------------
(* Payments: after the synchronization                                       *)

(* The handler goes on with its event, or is done with it.                   *)
Onward(h) ==
    \/ run'[h].at \in {"idle", "canonical"}
    \/ run'[h].at \in Later /\ run'[h].s = run[h].s /\ run'[h].bill = run[h].bill

LEMMA OnwardPays ==
    ASSUME TypeOK, Safe, Paying, NEW h \in Handlers, Fine(h), PaymentQuiet, event' = event,
           run[h].at \in Later, Onward(h)
    PROVE  Paying'
<1>1. TypeOK' /\ RecordsFit /\ HandlerFits(h) /\ Moves(h) /\ PaymentWorkFits(h)
    BY DEF Safe, HandlersFit, Fine, Paying, PaymentWorkFit
<1>2. PaymentWorkFits(h)'
    BY <1>1, LaterPays, RestPays DEF Onward
<1> QED BY <1>2, QuietStep

LEMMA OnwardSteps ==
    ASSUME TypeOK, NEW h \in Handlers, HandlerFits(h), run[h].at \in Later
    PROVE  /\ Return(h) => Onward(h)
           /\ \A step \in Replacing : Goto(h, step) => Onward(h)
<1>1. run[h].s \in Subs
    BY DEF HandlerFits, WorkFits, Later, Known
<1>2. Return(h) => Onward(h)
    BY <1>1, ReturnFits DEF Onward, Later
<1>3. ASSUME NEW step \in Replacing, Goto(h, step) PROVE Onward(h)
    BY <1>3, GotoFits DEF Onward, Later, Steps
<1> QED BY <1>2, <1>3

(* A subscription that is ended at PayPal.                                   *)
LEMMA EndIsQuiet ==
    ASSUME TypeOK, NEW s \in Subs, provider[s].st \in {"ACTIVE", "SUSPENDED"},
           NEW who \in {"player", "upgrade"}, row' = row,
           provider' = [provider EXCEPT ![s].st = "CANCELLED", ![s].by = who]
    PROVE  PaymentQuiet
<1>1. PICK q : q = [provider[s] EXCEPT !.st = "CANCELLED", !.by = who]
    OBVIOUS
<1>2. q.st = "CANCELLED" /\ q.bills = provider[s].bills
    BY <1>1 DEF TypeOK, ProviderSet
<1>3. provider' = [provider EXCEPT ![s] = q]
    BY <1>1 DEF TypeOK
<1>4. provider'[s] = q /\ \A o \in Subs \ {s} : provider'[o] = provider[o]
    BY <1>3 DEF TypeOK
<1> QED BY <1>2, <1>4 DEF PaymentQuiet

LEMMA SettlePays ==
    ASSUME TypeOK, Safe, Paying, NEW h \in Handlers, Settle(h)
    PROVE  Paying'
<1>1. PICK x \in RunSet : x = run[h]
    BY DEF TypeOK
<1>2. x.at = "settle" /\ UNCHANGED <<provider, row, event>>
    BY <1>1 DEF Settle
<1>3. PICK y : y = [x EXCEPT !.at = "advance", !.read = NoRead, !.tier = 0]
    OBVIOUS
<1>4. y.at = "advance" /\ y.s = x.s /\ y.bill = x.bill
    BY <1>3 DEF RunSet
<1>5. run' = [run EXCEPT ![h] = y]
    BY <1>1, <1>3 DEF Settle
<1>6. Onward(h) /\ run[h].at \in Later
    BY <1>1, <1>2, <1>4, <1>5 DEF TypeOK, Onward, Later
<1>7. Fine(h)
    BY SettleFits DEF Safe, HandlersFit
<1> QED BY <1>2, <1>6, <1>7, OnwardPays, SameRecordsAreQuiet

LEMMA AdvancePays ==
    ASSUME TypeOK, Safe, Paying, NEW h \in Handlers, Advance(h)
    PROVE  Paying'
<1>1. PICK x \in RunSet : x = run[h]
    BY DEF TypeOK
<1>2. run[h].at \in Later /\ UNCHANGED <<provider, row, event>>
    BY DEF Advance, Later
<1>3. Fine(h) /\ HandlerFits(h)
    BY AdvanceFits DEF Safe, HandlersFit
<1>4. CASE x.s \in LiveUpgrades /\ Replaces(x.s)
  <2>1. PICK at \in {"source", "promote"} : at = IF upgrade[x.s].activated THEN "source" ELSE "promote"
      OBVIOUS
  <2>2. PICK y : y = [x EXCEPT !.at = at, !.u = x.s]
      OBVIOUS
  <2>3. y.at = at /\ y.s = x.s /\ y.bill = x.bill
      BY <2>2 DEF RunSet
  <2>4. run' = [run EXCEPT ![h] = y]
      BY <1>1, <1>4, <2>1, <2>2 DEF Advance
  <2>5. Onward(h)
      BY <1>1, <2>3, <2>4 DEF TypeOK, Onward, Later, Replacing
  <2> QED BY <1>2, <1>3, <2>5, OnwardPays, SameRecordsAreQuiet
<1>5. CASE ~(x.s \in LiveUpgrades /\ Replaces(x.s))
  <2>1. Return(h)
      BY <1>1, <1>5 DEF Advance
  <2> QED BY <1>2, <1>3, <2>1, OnwardPays, OnwardSteps, SameRecordsAreQuiet
<1> QED BY <1>4, <1>5

LEMMA PromotePays ==
    ASSUME TypeOK, Safe, Paying, NEW h \in Handlers, Promote(h)
    PROVE  Paying'
<1>1. run[h].at \in Later /\ UNCHANGED <<provider, event>> /\ Goto(h, "source")
    BY DEF Promote, Later, Replacing
<1>2. Fine(h) /\ HandlerFits(h)
    BY PromoteFits DEF Safe, HandlersFit
<1>3. Onward(h)
    BY <1>1, <1>2, OnwardSteps DEF Replacing
<1>4. PaymentQuiet
  <2>1. CASE row' = row
      BY <1>1, <2>1, SameRecordsAreQuiet
  <2>2. CASE row' = [row EXCEPT ![upgrade[run[h].u].source].open = <<>>]
    <3>1. PICK s : s = upgrade[run[h].u].source
        OBVIOUS
    <3>2. PICK q : q = [row[s] EXCEPT !.open = <<>>]
        OBVIOUS
    <3>3. row' = [row EXCEPT ![s] = q]
        BY <2>2, <3>1, <3>2
    <3>4. ASSUME NEW o \in Subs
          PROVE  row'[o].status = row[o].status /\ row'[o].failure = row[o].failure
                 /\ row'[o].recovery = row[o].recovery /\ row'[o].late = row[o].late
      <4>1. CASE o = s
          BY <3>2, <3>3, <4>1 DEF TypeOK, RowSet
      <4>2. CASE o # s
          BY <3>3, <4>2 DEF TypeOK
      <4> QED BY <4>1, <4>2
    <3> QED BY <1>1, <3>4 DEF PaymentQuiet
  <2> QED BY <2>1, <2>2 DEF Promote
<1> QED BY <1>1, <1>2, <1>3, <1>4, OnwardPays

LEMMA LookAtSourcePays ==
    ASSUME TypeOK, Safe, Paying, NEW h \in Handlers, LookAtSource(h)
    PROVE  Paying'
<1>1. run[h].at \in Later /\ UNCHANGED <<provider, row, event>>
    BY DEF LookAtSource, Later, Replacing
<1>2. Fine(h) /\ HandlerFits(h)
    BY LookAtSourceFits DEF Safe, HandlersFit
<1>3. Goto(h, "replace") \/ Goto(h, "retire") \/ Return(h)
    BY DEF LookAtSource, CleanupFails
<1>4. Onward(h)
    BY <1>1, <1>2, <1>3, OnwardSteps DEF Replacing
<1> QED BY <1>1, <1>2, <1>4, OnwardPays, SameRecordsAreQuiet

LEMMA CancelSourcePays ==
    ASSUME TypeOK, Safe, Paying, NEW h \in Handlers, CancelSource(h)
    PROVE  Paying'
<1>1. run[h].at \in Later /\ UNCHANGED <<row, event>>
    BY DEF CancelSource, Later, Replacing
<1>2. Fine(h) /\ HandlerFits(h) /\ RecordsFit
    BY CancelSourceFits DEF Safe, HandlersFit
<1>3. PICK s \in Subs : s = upgrade[run[h].u].source
  <2>1. upgrade[run[h].u].source \in Subs
      BY <1>2 DEF CancelSource, HandlerFits, CleanupFits, Replacing, RecordsFit, Known
  <2> QED BY <2>1
<1>4. Goto(h, "retire") \/ Return(h)
    BY DEF CancelSource, CleanupFails
<1>5. Onward(h)
    BY <1>1, <1>2, <1>4, OnwardSteps DEF Replacing
<1>6. PaymentQuiet
    BY <1>1, <1>3, EndIsQuiet, SameRecordsAreQuiet DEF CancelSource
<1> QED BY <1>1, <1>2, <1>5, <1>6, OnwardPays

LEMMA CleanupOutagePays ==
    ASSUME TypeOK, Safe, Paying, NEW h \in Handlers, CleanupOutage(h)
    PROVE  Paying'
<1>1. run[h].at \in Later /\ run[h].at \in Replacing /\ UNCHANGED <<row, event>> /\ Return(h)
    BY DEF CleanupOutage, CleanupFails, Later, Replacing
<1>2. Fine(h) /\ HandlerFits(h) /\ RecordsFit
    BY CleanupOutageFits DEF Safe, HandlersFit
<1>3. PICK s \in Subs : s = upgrade[run[h].u].source
  <2>1. upgrade[run[h].u].source \in Subs
      BY <1>1, <1>2 DEF HandlerFits, CleanupFits, RecordsFit, Known
  <2> QED BY <2>1
<1>4. PaymentQuiet
    BY <1>1, <1>3, EndIsQuiet, SameRecordsAreQuiet DEF CleanupOutage
<1> QED BY <1>1, <1>2, <1>4, OnwardPays, OnwardSteps

LEMMA RetireSourcePays ==
    ASSUME TypeOK, Safe, Paying, NEW h \in Handlers, RetireSource(h)
    PROVE  Paying'
<1>1. run[h].at \in Later /\ run[h].at = "retire" /\ UNCHANGED <<provider, event>>
    BY DEF RetireSource, Later, Replacing
<1>2. Fine(h) /\ HandlerFits(h) /\ RecordsFit
    BY RetireSourceFits DEF Safe, HandlersFit
<1>3. PICK s \in Subs : s = upgrade[run[h].u].source /\ provider[s].st = "CANCELLED"
  <2>1. upgrade[run[h].u].source \in Subs /\ provider[upgrade[run[h].u].source].st = "CANCELLED"
      BY <1>1, <1>2 DEF HandlerFits, CleanupFits, Replacing, RecordsFit, Known
  <2> QED BY <2>1
<1>4. Goto(h, "complete") \/ Return(h)
    BY DEF RetireSource, CleanupFails
<1>5. Onward(h)
    BY <1>1, <1>2, <1>4, OnwardSteps DEF Replacing
<1>6. PaymentQuiet
  <2>1. CASE row' = row
      BY <1>1, <2>1, SameRecordsAreQuiet
  <2>2. CASE row' = [row EXCEPT ![s] = Synchronized(@, "plain", 0, Seen(s), @.tier, 0, TRUE)]
    <3>1. PICK r \in RowSet : r = row[s]
        BY DEF TypeOK
    <3>2. PICK q : q = Synchronized(r, "plain", 0, Seen(s), r.tier, 0, TRUE)
        OBVIOUS
    <3>3. SynchronizedRow(q, r, "plain", 0, Seen(s), r.tier, 0, TRUE)
      <4>1. r.tier \in Nat
          BY DEF RowSet
      <4> QED BY <3>2, <4>1, SeenFits, SynchronizedFits
    <3>4. q.failure = r.failure /\ q.recovery = r.recovery /\ q.late = r.late
        BY <3>3 DEF SynchronizedRow
    <3>5. row' = [row EXCEPT ![s] = q]
        BY <2>2, <3>1, <3>2
    <3>6. row'[s] = q /\ \A o \in Subs \ {s} : row'[o] = row[o]
        BY <3>5 DEF TypeOK
    <3> QED BY <1>1, <1>3, <3>1, <3>4, <3>6 DEF PaymentQuiet, Over
  <2> QED BY <1>3, <2>1, <2>2 DEF RetireSource
<1> QED BY <1>1, <1>2, <1>5, <1>6, OnwardPays

LEMMA CompletePays ==
    ASSUME TypeOK, Safe, Paying, NEW h \in Handlers, Complete(h)
    PROVE  Paying'
<1>1. run[h].at \in Later /\ UNCHANGED <<provider, row, event>> /\ Return(h)
    BY DEF Complete, Later, Replacing
<1>2. Fine(h) /\ HandlerFits(h)
    BY CompleteFits DEF Safe, HandlersFit
<1> QED BY <1>1, <1>2, OnwardPays, OnwardSteps, SameRecordsAreQuiet

(* A payment's event is marked when the payment is in the row, or the        *)
(* subscription is over.                                                     *)
LEMMA MarkPays ==
    ASSUME TypeOK, Safe, Paying, NEW h \in Handlers, Mark(h)
    PROVE  Paying'
<1>1. Fine(h) /\ HandlerFits(h) /\ RecordsFit /\ PaymentsFit /\ PaymentWorkFits(h)
      /\ Moves(h) /\ TypeOK'
    BY MarkFits DEF Safe, HandlersFit, Paying, PaymentWorkFit, Fine
<1>2. PICK s \in Subs : s = run[h].s
  <2>1. run[h].s \in Subs
      BY <1>1 DEF Mark, HandlerFits, WorkFits
  <2> QED BY <2>1
<1>3. PICK bill : bill = run[h].bill
    OBVIOUS
<1>4. run[h].at = "mark" /\ UNCHANGED <<provider, row>> /\ Done(h)
      /\ event' = [event EXCEPT ![s][bill] = "PROCESSED"]
    BY <1>2, <1>3 DEF Mark
<1>5. bill # 0 => bill \in DOMAIN provider[s].bills /\ (bill = Newest(s) => Synced(s) \/ Over(s))
    BY <1>1, <1>2, <1>3, <1>4 DEF PaymentWorkFits
<1>6. ASSUME NEW o \in Subs, NEW t \in DOMAIN event'[o], event'[o][t] = "PROCESSED"
      PROVE  \/ event[o][t] = "PROCESSED" /\ t \in DOMAIN event[o]
             \/ t <= Newest(o) /\ (t = Newest(o) => Synced(o) \/ Over(o))
  <2>1. PICK e : e = [event[s] EXCEPT ![bill] = "PROCESSED"]
      OBVIOUS
  <2>2. event' = [event EXCEPT ![s] = e]
      BY <1>4, <2>1
  <2>3. event'[s] = e /\ \A w \in Subs \ {s} : event'[w] = event[w]
      BY <2>2 DEF TypeOK
  <2>4. CASE o = s /\ t = bill
    <3>1. t \in DOMAIN event[s] /\ t # 0
      <4>1. DOMAIN event[s] = 1..story.bills /\ DOMAIN event'[s] = DOMAIN event[s]
          BY <2>1, <2>3 DEF TypeOK
      <4>2. t \in 1..story.bills /\ story.bills \in Nat
          BY <1>6, <2>4, <4>1, StoryFits
      <4> QED BY <4>1, <4>2
    <3>2. t \in 1..Newest(s) /\ Newest(s) \in Nat
        BY <1>5, <2>4, <3>1, BillsFit
    <3> QED BY <1>5, <2>4, <3>1, <3>2
  <2>5. CASE o = s /\ t # bill
      BY <1>6, <2>1, <2>3, <2>5 DEF TypeOK
  <2>6. CASE o # s
      BY <1>6, <2>3, <2>6
  <2> QED BY <2>4, <2>5, <2>6
<1>7. PaymentQuiet
    BY <1>4, SameRecordsAreQuiet
<1>8. PaymentsFit'
    BY <1>1, <1>6, <1>7, QuietKeepsPayments
<1>9. ASSUME NEW k \in Handlers PROVE PaymentWorkFits(k)'
  <2>1. CASE k = h
      BY <1>4, <2>1, DoneFits, IdleIsARun, RestPays
  <2>2. CASE k # h
      BY <1>1, <1>7, <2>2, QuietKeepsWork DEF Fine, Safe, HandlersFit, Paying, PaymentWorkFit
  <2> QED BY <2>1, <2>2
<1> QED BY <1>8, <1>9 DEF Paying, PaymentWorkFit

-----------------------------------------------------------------------------
(* Payments: subscribing, changing the level, cancelling                     *)

(* A step that leaves the handler where no payment is at stake.              *)
LEMMA RestStep ==
    ASSUME TypeOK, Safe, Paying, NEW h \in Handlers, Fine(h), PaymentQuiet, event' = event,
           run'[h].at \in {"idle", "canonical", "ask", "commit"}
              \/ (run'[h].at \in {"intend", "stop"} /\ run'[h].bill = 0)
    PROVE  Paying'
BY QuietStep, RestPays

LEMMA AskPays ==
    ASSUME TypeOK, Safe, Paying, NEW h \in Handlers, NEW op, NEW s, NEW tier, Ask(h, op, s, tier), Fine(h)
    PROVE  Paying'
<1>1. PICK y : y = [Idle EXCEPT !.at = "ask", !.op = op, !.s = s, !.tier = tier]
    OBVIOUS
<1>2. y.at = "ask"
    BY <1>1 DEF Idle
<1>3. run' = [run EXCEPT ![h] = y] /\ UNCHANGED <<provider, row, event>>
    BY <1>1 DEF Ask, rows
<1>4. run'[h].at = "ask"
    BY <1>2, <1>3 DEF TypeOK
<1> QED BY <1>3, <1>4, RestStep, SameRecordsAreQuiet

LEMMA AskPayPalPays ==
    ASSUME TypeOK, Safe, Paying, NEW h \in Handlers, AskPayPal(h)
    PROVE  Paying'
<1>1. PICK x \in RunSet : x = run[h]
    BY DEF TypeOK
<1>2. Fine(h) /\ HandlerFits(h) /\ RecordsFit
    BY AskPayPalFits DEF Safe, HandlersFit
<1>3. x.at = "ask" /\ UNCHANGED <<row, event>> /\ (x.op # "create" => Known(x.s))
      /\ x.op \in Requests /\ x.tier \in Nat
    BY <1>1, <1>2 DEF AskPayPal, HandlerFits, WorkFits, rows, RunSet
<1>4. CASE Done(h) /\ UNCHANGED provider
    BY <1>2, <1>3, <1>4, DoneFits, IdleIsARun, RestStep, SameRecordsAreQuiet
<1>5. CASE /\ Unused # {}
           /\ provider' = [provider EXCEPT ![Min(Unused)].st = "APPROVAL_PENDING",
                                           ![Min(Unused)].plan = x.tier]
           /\ run' = [run EXCEPT ![h].at = "commit", ![h].u = Min(Unused)]
  <2>1. PICK n \in Subs : n = Min(Unused) /\ provider[n].st = "NONE"
      BY <1>2, <1>5, UnusedFits
  <2>2. /\ provider'[n].st = "APPROVAL_PENDING" /\ provider'[n].bills = provider[n].bills
        /\ \A o \in Subs \ {n} : provider'[o] = provider[o]
      BY <1>3, <1>5, <2>1, CreationMoves
  <2>3. PaymentQuiet
      BY <1>3, <2>2 DEF PaymentQuiet
  <2>4. PICK y : y = [x EXCEPT !.at = "commit", !.u = n]
      OBVIOUS
  <2>5. y.at = "commit"
      BY <2>4 DEF RunSet
  <2>6. run' = [run EXCEPT ![h] = y]
      BY <1>1, <1>5, <2>1, <2>4 DEF TypeOK
  <2>7. run'[h].at = "commit"
      BY <2>5, <2>6 DEF TypeOK
  <2> QED BY <1>2, <1>3, <2>3, <2>7, RestStep
<1>6. CASE /\ x.op = "downgrade"
           /\ provider' = IF provider[x.s].st = "ACTIVE" /\ provider[x.s].plan # x.tier
                          THEN [provider EXCEPT ![x.s].revision = x.tier] ELSE provider
           /\ Goto(h, "commit")
  <2>1. x.s \in Subs
      BY <1>3, <1>6 DEF Known
  <2>2. PaymentQuiet
    <3>1. CASE provider' = provider
        BY <1>3, <3>1, SameRecordsAreQuiet
    <3>2. CASE provider' = [provider EXCEPT ![x.s].revision = x.tier]
      <4>1. /\ provider'[x.s].st = provider[x.s].st /\ provider'[x.s].bills = provider[x.s].bills
            /\ \A o \in Subs \ {x.s} : provider'[o] = provider[o]
          BY <1>3, <2>1, <3>2, RevisionMoves
      <4> QED BY <1>3, <4>1 DEF PaymentQuiet
    <3> QED BY <1>6, <3>1, <3>2
  <2>3. run'[h].at = "commit"
      BY <1>6, GotoFits DEF Steps
  <2> QED BY <1>2, <1>3, <2>2, <2>3, RestStep
<1> QED BY <1>1, <1>4, <1>5, <1>6 DEF AskPayPal

LEMMA CommitPays ==
    ASSUME TypeOK, Safe, Paying, NEW h \in Handlers, Commit(h)
    PROVE  Paying'
<1>1. PICK x \in RunSet : x = run[h]
    BY DEF TypeOK
<1>2. Fine(h) /\ HandlerFits(h) /\ RecordsFit /\ PaymentsFit
    BY CommitFits DEF Safe, HandlersFit, Paying
<1>3. Done(h) /\ UNCHANGED <<provider, event>> /\ x.tier \in Nat
      /\ (x.op # "downgrade" => x.u \in Subs /\ ~Known(x.u))
    BY <1>1, <1>2 DEF Commit, HandlerFits, WorkFits, RunSet
<1>4. PaymentQuiet
  <2>1. CASE x.op = "downgrade"
    <3>1. row' = row
        BY <1>1, <2>1 DEF Commit
    <3> QED BY <1>3, <3>1, SameRecordsAreQuiet
  <2>2. CASE x.op # "downgrade"
    <3>1. PICK u \in Subs : u = x.u
        BY <1>3, <2>2
    <3>2. row' = [row EXCEPT ![u] = NewRow(x.tier)]
        BY <1>1, <2>2, <3>1 DEF Commit
    <3>3. row'[u] = NewRow(x.tier) /\ \A o \in Subs \ {u} : row'[o] = row[o]
        BY <3>2 DEF TypeOK
    <3>4. ~Billed(u)
        BY <1>2, <1>3, <2>2, <3>1 DEF RecordsFit, PaymentsFit
    <3>5. Failed(u) = {} /\ Paid(u) = {}
        BY <3>4, BillsFit
    <3>6. row[u].failure = 0 /\ row[u].recovery = 0
        BY <1>2, <3>5 DEF PaymentsFit
    <3> QED BY <1>3, <3>3, <3>4, <3>6, NewRowFits DEF PaymentQuiet
  <2> QED BY <2>1, <2>2
<1> QED BY <1>2, <1>3, <1>4, DoneFits, IdleIsARun, RestStep

LEMMA CancelPays ==
    ASSUME TypeOK, Safe, Paying, NEW h \in Handlers, Cancel(h)
    PROVE  Paying'
<1>1. Fine(h) /\ RecordsFit /\ PaymentsFit
    BY CancelFits DEF Safe, Paying
<1>2. PICK s \in Subs : s = Canonical
    BY <1>1, CanonicalFits DEF Cancel, Known
<1>3. PICK x : x = [Idle EXCEPT !.op = "cancel", !.s = s, !.tier = row[s].tier]
    OBVIOUS
<1>4. UNCHANGED <<provider, row, event>> /\ PaymentQuiet
    BY SameRecordsAreQuiet DEF Cancel, rows
<1>5. CASE run' = [run EXCEPT ![h] = [x EXCEPT !.at = "intend"]]
  <2>1. PICK y : y = [x EXCEPT !.at = "intend"]
      OBVIOUS
  <2>2. y.at = "intend" /\ y.bill = 0
      BY <1>3, <2>1 DEF Idle
  <2>3. run'[h] = y
      BY <1>5, <2>1 DEF TypeOK
  <2> QED BY <1>1, <1>4, <2>2, <2>3, RestStep
<1>6. CASE run' = [run EXCEPT ![h] = [x EXCEPT !.at = "sync", !.op = "verify", !.read = Seen(s)]]
  <2>1. PICK y : y = [x EXCEPT !.at = "sync", !.op = "verify", !.read = Seen(s)]
      OBVIOUS
  <2>2. y.at = "sync" /\ y.bill = 0 /\ y.s = s /\ y.read = Seen(s)
      BY <1>3, <2>1 DEF Idle
  <2>3. run'[h] = y
      BY <1>6, <2>1 DEF TypeOK
  <2>4. PaymentWorkFits(h)'
      BY <1>1, <1>4, <2>2, <2>3, FreshReadPays
  <2> QED BY <1>1, <1>4, <2>4, QuietStep
<1>7. CASE run' = [run EXCEPT ![h] = Idle]
    BY <1>1, <1>4, <1>7, DoneFits, IdleIsARun, RestStep DEF Done
<1> QED BY <1>2, <1>3, <1>5, <1>6, <1>7 DEF Cancel

(* A row of which only the intent or the date changes.                       *)
LEMMA TouchIsQuiet ==
    ASSUME TypeOK, NEW s \in Subs, NEW intent, NEW paid, provider' = provider,
           row' \in {[row EXCEPT ![s].intent = intent], [row EXCEPT ![s].paid = paid]}
    PROVE  PaymentQuiet
<1>1. PICK q \in {[row[s] EXCEPT !.intent = intent], [row[s] EXCEPT !.paid = paid]} :
          row' = [row EXCEPT ![s] = q]
    OBVIOUS
<1>2. q.status = row[s].status /\ q.failure = row[s].failure /\ q.recovery = row[s].recovery
      /\ q.late = row[s].late
    BY <1>1 DEF TypeOK, RowSet
<1>3. row'[s] = q /\ \A o \in Subs \ {s} : row'[o] = row[o]
    BY <1>1 DEF TypeOK
<1> QED BY <1>2, <1>3 DEF PaymentQuiet

LEMMA IntendPays ==
    ASSUME TypeOK, Safe, Paying, NEW h \in Handlers, Intend(h)
    PROVE  Paying'
<1>1. Fine(h) /\ HandlerFits(h) /\ PaymentWorkFits(h)
    BY IntendFits DEF Safe, HandlersFit, Paying, PaymentWorkFit
<1>2. PICK s : s = run[h].s /\ s \in Subs
    BY <1>1 DEF Intend, HandlerFits, WorkFits, Known
<1>3. Goto(h, "stop") /\ UNCHANGED <<provider, event>> /\ run[h].bill = 0
      /\ row' = [row EXCEPT ![s].intent = TRUE]
    BY <1>1, <1>2 DEF Intend, PaymentWorkFits
<1>4. run'[h].at = "stop" /\ run'[h].bill = 0
    BY <1>3, GotoFits DEF Steps
<1>5. PaymentQuiet
    BY <1>2, <1>3, TouchIsQuiet
<1> QED BY <1>1, <1>3, <1>4, <1>5, RestStep

LEMMA StopPays ==
    ASSUME TypeOK, Safe, Paying, NEW h \in Handlers, Stop(h)
    PROVE  Paying'
<1>1. Fine(h) /\ HandlerFits(h) /\ PaymentWorkFits(h)
    BY StopFits DEF Safe, HandlersFit, Paying, PaymentWorkFit
<1>2. PICK s : s = run[h].s /\ s \in Subs
    BY <1>1 DEF Stop, HandlerFits, WorkFits, Known
<1>3. PICK x \in RunSet : x = run[h]
    BY DEF TypeOK
<1>4. /\ x.bill = 0 /\ x.s = s /\ UNCHANGED <<row, event>>
      /\ provider[s].st \in {"ACTIVE", "SUSPENDED"}
      /\ provider' = [provider EXCEPT ![s].st = "CANCELLED", ![s].by = "player"]
    BY <1>1, <1>2, <1>3 DEF Stop, PaymentWorkFits, rows
<1>5. PaymentQuiet
    BY <1>2, <1>4, EndIsQuiet
<1>6. provider'[s].st = "CANCELLED" /\ provider'[s].bills = provider[s].bills
    BY <1>2, <1>4, EndMoves
<1>7. PICK read : read = [Seen(s) EXCEPT !.st = "CANCELLED"]
    OBVIOUS
<1>8. read.st = "CANCELLED" /\ read.failed = LastFailed(s) /\ read.bills \in 0..Newest(s)
    BY <1>2, <1>7, SeenFits, BillsFit DEF ReadSet
<1>9. PICK y : y = [x EXCEPT !.at = "sync", !.read = read]
    OBVIOUS
<1>10. y.at = "sync" /\ y.read = read /\ y.s = s /\ y.bill = 0
    BY <1>4, <1>9 DEF RunSet
<1>11. run' = [run EXCEPT ![h].at = "sync", ![h].read = read]
    BY <1>2, <1>7 DEF Stop
<1>12. run' = [run EXCEPT ![h] = y]
    BY <1>3, <1>9, <1>11 DEF TypeOK
<1>13. run'[h] = y
    BY <1>12 DEF TypeOK
<1>14. Newest(s)' = Newest(s) /\ Failed(s)' = Failed(s)
    BY <1>2, <1>6, SameBills
<1>15. "sync" \notin {"settle", "advance", "mark", "intend", "stop"} \cup Replacing
    BY DEF Replacing
<1>16. ReadOfPayments(run[h].read, run[h].bill, run[h].s)'
  <2>1. read.failed \in {0} \cup Failed(s) /\ Newest(s) \in Nat /\ 0 \notin Failed(s)
      BY <1>2, <1>8, LastFailedFits, BillsFit
  <2>2. Over(s)' /\ run'[h].read = read /\ run'[h].bill = 0 /\ run'[h].s = s
      BY <1>6, <1>10, <1>13 DEF Over
  <2>3. /\ read.failed \in {0} \cup Failed(s)'
        /\ 0 \in Failed(s)' => read.failed >= 0
        /\ read.bills <= Newest(s)'
        /\ read.st \notin Unpaid
      BY <1>8, <1>14, <2>1 DEF Unpaid
  <2> QED BY <1>8, <2>2, <2>3 DEF ReadOfPayments, Over, Newest, Failed, Billed, Unpaid
<1>17. PaymentWorkFits(h)'
    BY <1>10, <1>13, <1>15, <1>16 DEF PaymentWorkFits
<1> QED BY <1>1, <1>4, <1>5, <1>17, QuietStep

LEMMA WithdrawPays ==
    ASSUME TypeOK, Safe, Paying, NEW h \in Handlers, Withdraw(h)
    PROVE  Paying'
<1>1. Fine(h) /\ HandlerFits(h)
    BY WithdrawFits DEF Safe, HandlersFit
<1>2. PICK s : s = run[h].s /\ s \in Subs
    BY <1>1 DEF Withdraw, HandlerFits, WorkFits, Known
<1>3. Done(h) /\ event' = event /\ row' = [row EXCEPT ![s].intent = FALSE]
    BY <1>2 DEF Withdraw
<1>4. PICK q : q = [row[s] EXCEPT !.intent = FALSE]
    OBVIOUS
<1>5. row' = [row EXCEPT ![s] = q] /\ q.status = row[s].status /\ q.failure = row[s].failure
      /\ q.recovery = row[s].recovery /\ q.late = row[s].late
    BY <1>2, <1>3, <1>4 DEF TypeOK, RowSet
<1>6. row'[s] = q /\ \A o \in Subs \ {s} : row'[o] = row[o]
    BY <1>2, <1>5 DEF TypeOK
<1>7. CASE provider' = provider
  <2>1. PaymentQuiet
      BY <1>5, <1>6, <1>7 DEF PaymentQuiet
  <2> QED BY <1>1, <1>3, <2>1, DoneFits, IdleIsARun, RestStep
<1>8. CASE /\ provider[s].st = "ACTIVE"
           /\ provider' = [provider EXCEPT ![s].st = "CANCELLED", ![s].by = "player"]
  <2>1. /\ provider'[s].st = "CANCELLED" /\ provider'[s].bills = provider[s].bills
        /\ \A o \in Subs \ {s} : provider'[o] = provider[o]
      BY <1>2, <1>8, EndMoves
  <2>2. PaymentQuiet
      BY <1>5, <1>6, <2>1 DEF PaymentQuiet
  <2> QED BY <1>1, <1>3, <2>2, DoneFits, IdleIsARun, RestStep
<1> QED BY <1>2, <1>7, <1>8 DEF Withdraw

LEMMA DiesPays ==
    ASSUME TypeOK, Safe, Paying, NEW h \in Handlers, Dies(h)
    PROVE  Paying'
BY DiesFits, DoneFits, IdleIsARun, RestStep, SameRecordsAreQuiet DEF Dies, rows, Safe

-----------------------------------------------------------------------------
(* Payments: what happens at PayPal and in time                              *)

LEMMA WorldStep ==
    ASSUME TypeOK, Safe, Paying, Fine(None), PaymentQuiet, event' = event
    PROVE  Paying'
<1>1. None \notin Handlers
    BY HandlersAssumption DEF None
<1> QED BY <1>1, QuietStep

LEMMA LapsePays ==
    ASSUME TypeOK, Safe, Paying, NEW s \in Subs, Lapse(s)
    PROVE  Paying'
<1>1. Fine(None) /\ UNCHANGED <<provider, event>> /\ row[s].status = "CANCELLATION_SCHEDULED"
      /\ row' = [row EXCEPT ![s].status = "ENDED", ![s].open = <<>>]
    BY LapseFits DEF Lapse, Lapsed, Safe
<1>2. PICK q : q = [row[s] EXCEPT !.status = "ENDED", !.open = <<>>]
    OBVIOUS
<1>3. q.failure = row[s].failure /\ q.recovery = row[s].recovery /\ q.late = row[s].late
    BY <1>2 DEF TypeOK, RowSet
<1>4. row' = [row EXCEPT ![s] = q]
    BY <1>1, <1>2 DEF TypeOK
<1>5. row'[s] = q /\ \A o \in Subs \ {s} : row'[o] = row[o]
    BY <1>4 DEF TypeOK
<1>6. PaymentQuiet
    BY <1>1, <1>3, <1>5 DEF PaymentQuiet
<1> QED BY <1>1, <1>6, WorldStep

LEMMA PeriodPassesPays ==
    ASSUME TypeOK, Safe, Paying, NEW s \in Subs, PeriodPasses(s)
    PROVE  Paying'
BY PeriodPassesFits, TouchIsQuiet, WorldStep DEF PeriodPasses, Safe

LEMMA LeavesPays ==
    ASSUME TypeOK, Safe, Paying, NEW s \in Subs, Leaves(s)
    PROVE  Paying'
<1>1. PaymentQuiet
    BY EndIsQuiet DEF Leaves, rows
<1> QED BY <1>1, LeavesFits, WorldStep DEF Leaves, Safe, rows

LEMMA AtPayPalPays ==
    ASSUME TypeOK, Safe, Paying, NEW s \in Subs, AtPayPal(s)
    PROVE  Paying'
<1>1. PICK p \in ProviderSet : p = provider[s]
    BY DEF TypeOK
<1>2. PICK q \in {[p EXCEPT !.st = "ACTIVE"], [p EXCEPT !.st = "EXPIRED"],
                  [p EXCEPT !.plan = p.revision, !.revision = 0]} :
          provider' = [provider EXCEPT ![s] = q]
    BY <1>1 DEF AtPayPal, TypeOK
<1>3. q.bills = p.bills /\ (q.st = "SUSPENDED" => p.st = "SUSPENDED")
    BY <1>2 DEF ProviderSet
<1>4. provider'[s] = q /\ \A o \in Subs \ {s} : provider'[o] = provider[o]
    BY <1>2 DEF TypeOK
<1>5. UNCHANGED <<row, event>>
    BY DEF AtPayPal, rows
<1>6. PaymentQuiet
    BY <1>1, <1>3, <1>4, <1>5 DEF PaymentQuiet
<1> QED BY <1>5, <1>6, AtPayPalFits, WorldStep DEF Safe

(* A new payment is not in the row yet, and its event is not delivered yet.  *)
LEMMA BillPays ==
    ASSUME TypeOK, Safe, Paying, NEW s \in Subs, NEW outcome \in Outcomes, Bill(s, outcome)
    PROVE  Paying'
<1>1. PaymentsFit /\ RecordsFit
    BY DEF Paying, Safe
<1>2. PICK bills \in Seq(Outcomes) : bills = provider[s].bills
    BY DEF TypeOK, ProviderSet
<1>3. /\ provider[s].st = "ACTIVE"
      /\ provider'[s].bills = Append(bills, outcome)
      /\ provider'[s].st \in {"ACTIVE", "SUSPENDED"}
      /\ provider'[s].st = "SUSPENDED" => outcome = "FAILED"
      /\ \A o \in Subs \ {s} : provider'[o] = provider[o]
    BY <1>1, <1>2, BillFits
<1>4. Len(bills) < story.bills /\ UNCHANGED <<row, event, run, story>>
    BY <1>2 DEF Bill, rows
<1>5. PICK n \in Nat : n = Len(bills)
    OBVIOUS
<1>6. PICK more : more = Append(bills, outcome)
    OBVIOUS
<1>7. /\ Len(more) = n + 1 /\ DOMAIN more = 1..(n + 1) /\ DOMAIN bills = 1..n /\ more # <<>>
      /\ more[n + 1] = outcome /\ \A t \in 1..n : more[t] = bills[t]
    BY <1>5, <1>6
<1>8. Newest(s) = n /\ Newest(s)' = n + 1
    BY <1>2, <1>3, <1>5, <1>6, <1>7 DEF Newest
<1>9. /\ \A t \in Failed(s) : t \in Failed(s)'
      /\ \A t \in Paid(s) : t \in Paid(s)'
      /\ outcome = "FAILED" => n + 1 \in Failed(s)'
    BY <1>2, <1>3, <1>6, <1>7 DEF Failed, Paid
<1>10. row[s].failure \in 0..n /\ row[s].recovery \in 0..n
  <2>1. Failed(s) \subseteq 1..n /\ Paid(s) \subseteq 1..n
      BY <1>8, BillsFit
  <2> QED BY <1>1, <2>1 DEF PaymentsFit
<1>11. \A t \in DOMAIN event[s] : event[s][t] = "PROCESSED" => t <= n
    BY <1>1, <1>8 DEF PaymentsFit
<1>12. event[s][n + 1] # "PROCESSED"
  <2>1. n + 1 \in DOMAIN event[s]
      BY <1>4, <1>5, StoryFits DEF TypeOK
  <2> QED BY <1>11, <2>1
<1>13. PaymentsFit'
  <2> SUFFICES ASSUME NEW o \in Subs
               PROVE  /\ Billed(o)' => Approved(o)'
                      /\ provider'[o].st = "SUSPENDED" => Newest(o)' \in Failed(o)'
                      /\ row'[o].failure \in {0} \cup Failed(o)'
                      /\ row'[o].recovery \in {0} \cup Paid(o)'
                      /\ Newest(o)' <= story'.bills
                      /\ \A t \in DOMAIN event'[o] : event'[o][t] = "PROCESSED" => t <= Newest(o)'
                      /\ Billed(o)' /\ ~Over(o)' =>
                            /\ row'[o].failure = Newest(o)' => row'[o].status = "PAYMENT_RETRY" \/ Overtaken(o)'
                            /\ row'[o].recovery = Newest(o)' => row'[o].status = "ACTIVE" \/ Overtaken(o)'
                            /\ event'[o][Newest(o)'] = "PROCESSED" => Synced(o)'
      BY DEF PaymentsFit
  <2>1. CASE o = s
    <3>1. Approved(s)'
        BY <1>3 DEF Approved
    <3>2. provider'[s].st = "SUSPENDED" => Newest(s)' \in Failed(s)'
        BY <1>3, <1>8, <1>9
    <3>3. row'[s].failure \in {0} \cup Failed(s)' /\ row'[s].recovery \in {0} \cup Paid(s)'
        BY <1>1, <1>4, <1>9 DEF PaymentsFit
    <3>4. Newest(s)' <= story'.bills
        BY <1>4, <1>5, <1>8, StoryFits
    <3>5. \A t \in DOMAIN event'[s] : event'[s][t] = "PROCESSED" => t <= Newest(s)'
      <4> SUFFICES ASSUME NEW t \in DOMAIN event'[s], event'[s][t] = "PROCESSED"
                   PROVE  t <= Newest(s)'
          OBVIOUS
      <4>1. t \in 1..story.bills
          BY <1>4 DEF TypeOK
      <4> QED BY <1>4, <1>8, <1>11, <4>1, StoryFits
    <3>6. row'[s].failure # Newest(s)' /\ row'[s].recovery # Newest(s)'
          /\ event'[s][Newest(s)'] # "PROCESSED"
        BY <1>4, <1>8, <1>10, <1>12
    <3> QED BY <2>1, <3>1, <3>2, <3>3, <3>4, <3>5, <3>6
  <2>2. CASE o # s
    <3>1. provider'[o] = provider[o]
        BY <1>3, <2>2
    <3>2. /\ Failed(o)' = Failed(o) /\ Paid(o)' = Paid(o) /\ Newest(o)' = Newest(o)
          /\ Billed(o)' = Billed(o) /\ Over(o)' = Over(o) /\ Approved(o)' = Approved(o)
        BY <3>1, SameBills DEF Over, Approved
    <3>3. Synced(o)' = Synced(o)
        BY <1>4, <3>2 DEF Synced
    <3>4. Overtaken(o)' = Overtaken(o)
        BY <1>4, <3>2 DEF Overtaken
    <3> QED BY <1>1, <1>4, <3>1, <3>2, <3>3, <3>4 DEF PaymentsFit
  <2> QED BY <2>1, <2>2
<1>14. ASSUME NEW k \in Handlers PROVE PaymentWorkFits(k)'
  <2>1. run'[k] = run[k] /\ PaymentWorkFits(k) /\ HandlerFits(k)
      BY <1>4 DEF Safe, HandlersFit, Paying, PaymentWorkFit
  <2>2. PICK x \in RunSet : x = run[k]
      BY DEF TypeOK
  <2>3. CASE x.at \in {"verify", "sync"} \cup Later /\ x.s # s
    <3>1. PICK o : o = x.s /\ o \in Subs
        BY <2>1, <2>2, <2>3 DEF HandlerFits, ReadFits, WorkFits, Known, Later
    <3>2. provider'[o] = provider[o]
        BY <1>3, <2>3, <3>1
    <3>3. /\ Newest(o)' = Newest(o) /\ Over(o)' = Over(o)
        BY <3>1, <3>2, SameBills DEF Over
    <3>4. Synced(o)' = Synced(o)
        BY <1>4, <3>3 DEF Synced
    <3>5. PICK read, t : read = x.read /\ t = x.bill
        OBVIOUS
    <3>6. x.at \in {"verify", "sync"} => ReadOfPayments(read, t, o)'
        BY <2>1, <2>2, <3>1, <3>2, <3>5, ReadStands DEF PaymentWorkFits, Over
    <3>7. run'[k].read = read /\ run'[k].bill = t /\ run'[k].s = o /\ run'[k].at = x.at
        BY <2>1, <2>2, <3>1, <3>5
    <3>8. x.at \in {"verify", "sync"} => ReadOfPayments(run[k].read, run[k].bill, run[k].s)'
        BY <3>6, <3>7 DEF ReadOfPayments, Over, Newest, Billed, Failed
    <3> QED BY <2>1, <2>2, <2>3, <3>1, <3>2, <3>3, <3>4, <3>8
            DEF PaymentWorkFits, Newest, Over, Synced, Later
  <2>4. CASE x.at \in {"verify", "sync"} /\ x.s = s
    <3>1. /\ ReadOfPayments(x.read, x.bill, s) /\ (x.op = "verify" => x.bill = 0)
          /\ x.read.st # "EXPIRED" /\ x.read.st \in ProviderStates \ {"NONE"}
        BY <1>3, <2>1, <2>2, <2>4
           DEF PaymentWorkFits, HandlerFits, ReadFits, Stopped
    <3>2. x.bill \in Nat /\ x.read.bills \in Nat
        BY DEF RunSet, ReadSet
    <3>3. /\ x.bill # 0 => x.bill \in 1..n
          /\ x.read.failed \in {0} \cup Failed(s)
          /\ x.bill \in Failed(s) => x.read.failed >= x.bill
          /\ x.read.bills <= n
          /\ x.read.st \in Unpaid => x.bill <= x.read.bills
          /\ x.read.st = "APPROVAL_PENDING" => x.read.bills = 0
          /\ x.read.st # "CANCELLED"
        BY <1>2, <1>3, <1>7, <1>8, <3>1 DEF ReadOfPayments, Over
    <3>4. x.bill \in Failed(s)' => x.bill \in Failed(s)
      <4>1. x.bill \in Failed(s)' => x.bill \in DOMAIN more /\ more[x.bill] = "FAILED"
          BY <1>3, <1>6 DEF Failed
      <4> QED BY <1>2, <1>7, <3>3, <4>1 DEF Failed
    <3>5. run'[k] = x
        BY <2>1, <2>2
    <3>6. /\ x.bill # 0 => x.bill \in DOMAIN provider'[s].bills
          /\ x.read.failed \in {0} \cup Failed(s)'
          /\ x.bill \in Failed(s)' => x.read.failed >= x.bill
          /\ x.read.bills <= Newest(s)' /\ x.read.bills # Newest(s)'
          /\ x.read.st \in {"APPROVAL_PENDING", "ACTIVE", "SUSPENDED", "CANCELLED"}
        BY <1>3, <1>6, <1>7, <1>8, <1>9, <3>1, <3>2, <3>3, <3>4 DEF ProviderStates
    <3>7. ReadOfPayments(x.read, x.bill, s)'
        BY <2>2, <3>3, <3>5, <3>6 DEF ReadOfPayments
    <3>8. ReadOfPayments(run[k].read, run[k].bill, run[k].s)'
        BY <2>4, <3>5, <3>7 DEF ReadOfPayments, Over, Newest, Billed, Failed
    <3> QED BY <2>4, <3>1, <3>5, <3>8 DEF PaymentWorkFits, Replacing
  <2>5. CASE x.at \in Later /\ x.s = s
    <3>1. x.bill # 0 => x.bill \in 1..n
        BY <1>2, <1>7, <2>1, <2>2, <2>5 DEF PaymentWorkFits, Later
    <3>2. x.bill # 0 => x.bill \in DOMAIN provider'[s].bills /\ x.bill # Newest(s)'
        BY <1>3, <1>6, <1>7, <1>8, <3>1
    <3> QED BY <2>1, <2>2, <2>5, <3>2 DEF PaymentWorkFits, Newest, Later, Replacing
  <2>6. CASE x.at \notin {"verify", "sync"} \cup Later
      BY <2>1, <2>2, <2>6 DEF PaymentWorkFits, Later
  <2> QED BY <2>3, <2>4, <2>5, <2>6
<1> QED BY <1>13, <1>14 DEF Paying, PaymentWorkFit

-----------------------------------------------------------------------------
(* Payments: every step                                                      *)

LEMMA BeginPays ==
    ASSUME TypeOK, Safe, Paying, NEW h \in Handlers, Begin(h)
    PROVE  Paying'
<1> USE DEF Safe
<1>1. Fine(h) /\ RecordsFit /\ PaymentsFit
    BY BeginFits DEF Paying
<1>2. CASE \E s \in story.subs, t \in 0..story.bills : Deliver(h, s, t)
    BY <1>1, <1>2, StoryFits, DeliverPays, QuietStep
<1>3. CASE \E u \in story.subs : ReconcileTarget(h, u)
    BY <1>1, <1>3, StoryFits, ReconcileTargetPays, QuietStep
<1>4. CASE ReconcileCanonical(h)
    BY <1>1, <1>4, ReconcileCanonicalPays, QuietStep
<1>5. CASE \E tier \in story.tiers : Create(h, tier) \/ Upgrade(h, tier) \/ Downgrade(h, tier)
    BY <1>1, <1>5, AskPays DEF Create, Upgrade, Downgrade
<1>6. CASE Cancel(h)
    BY <1>6, CancelPays
<1> QED BY <1>2, <1>3, <1>4, <1>5, <1>6 DEF Begin

LEMMA StepPays ==
    ASSUME TypeOK, Safe, Paying, NEW h \in Handlers, Step(h)
    PROVE  Paying'
<1>1. Fine(h) /\ RecordsFit /\ PaymentsFit /\ HandlerFits(h) /\ PaymentWorkFits(h)
    BY StepFits DEF Safe, HandlersFit, Paying, PaymentWorkFit
<1>2. CASE Verify(h)
    BY <1>1, <1>2, VerifyPays, QuietStep
<1>3. CASE Synchronize(h) \/ Settle(h)
    BY <1>3, SynchronizePays, SettlePays
<1>4. CASE Advance(h) \/ Promote(h)
    BY <1>4, AdvancePays, PromotePays
<1>5. CASE LookAtSource(h) \/ CancelSource(h) \/ RetireSource(h) \/ Complete(h)
    BY <1>5, LookAtSourcePays, CancelSourcePays, RetireSourcePays, CompletePays
<1>6. CASE Mark(h)
    BY <1>6, MarkPays
<1>7. CASE ReconcileCanonical(h)
    BY <1>1, <1>7, ReconcileCanonicalPays, QuietStep
<1>8. CASE AskPayPal(h) \/ Commit(h)
    BY <1>8, AskPayPalPays, CommitPays
<1>9. CASE Intend(h) \/ Stop(h) \/ Withdraw(h)
    BY <1>9, IntendPays, StopPays, WithdrawPays
<1> QED BY <1>2, <1>3, <1>4, <1>5, <1>6, <1>7, <1>8, <1>9 DEF Step

LEMMA NextPays ==
    ASSUME TypeOK, Safe, Paying, [Next]_vars
    PROVE  Paying'
<1>1. ASSUME NEW h \in Handlers, (FirstIdle(h) /\ Begin(h)) \/ Step(h) \/ CleanupOutage(h) \/ Dies(h)
      PROVE  Paying'
    BY <1>1, BeginPays, StepPays, CleanupOutagePays, DiesPays
<1>2. ASSUME NEW s \in story.subs,
             AtPayPal(s) \/ Leaves(s) \/ PeriodPasses(s) \/ Lapse(s)
                \/ \E outcome \in {"PAID", "FAILED"} : Bill(s, outcome)
      PROVE  Paying'
    BY <1>2, StoryFits, AtPayPalPays, LeavesPays, PeriodPassesPays, LapsePays, BillPays DEF Outcomes
<1>3. CASE UNCHANGED vars
  <2>1. UNCHANGED <<provider, rows, account, run, story>>
      BY <1>3 DEF vars, rows
  <2>2. Fine(None)
      BY <2>1, ProviderFits, Unmoved DEF TypeOK, Safe
  <2> QED BY <2>1, <2>2, WorldStep, SameRecordsAreQuiet DEF rows
<1> QED BY <1>1, <1>2, <1>3 DEF Next

LEMMA InitPays == Init => Paying
<1> SUFFICES ASSUME Init PROVE Paying
    OBVIOUS
<1>1. TypeOK
    BY InitFits
<1>2. ASSUME NEW s \in Subs
      PROVE  /\ provider[s].bills = <<>> /\ provider[s].st = "NONE"
             /\ row[s].failure = 0 /\ row[s].recovery = 0
             /\ \A t \in DOMAIN event[s] : event[s][t] # "PROCESSED"
    BY DEF Init, NoProvider, NoRow
<1>3. PaymentsFit
  <2> SUFFICES ASSUME NEW s \in Subs
               PROVE  ~Billed(s) /\ Newest(s) <= story.bills
      BY <1>2 DEF PaymentsFit
  <2>1. ~Billed(s)
      BY <1>2 DEF Billed
  <2>2. Newest(s) = 0
      BY <1>1, <2>1, BillsFit
  <2> QED BY <1>1, <2>1, <2>2, StoryFits
<1>4. PaymentWorkFit
    BY IdleIsARun DEF Init, PaymentWorkFit, PaymentWorkFits, Replacing
<1> QED BY <1>3, <1>4 DEF Paying

(* Once every payment event is processed, the row's newest failure is later  *)
(* than its newest recovery exactly when the newest payment failed, and the  *)
(* status agrees unless a handler has written one it read before that        *)
(* payment: comparing with the last failure and recovery of the row          *)
(* (synchronizeVerifiedPayPalSubscription) makes the order of the deliveries *)
(* irrelevant, and the age of what they read harms at most the status.       *)
THEOREM LatestWins == Spec => []LatestPaymentWins
<1>1. TypeOK /\ Safe /\ Paying /\ [Next]_vars => Paying'
    BY NextPays
<1>2. TypeOK /\ Paying => LatestPaymentWins
  <2> SUFFICES ASSUME TypeOK, Paying, NEW s \in Subs,
                      provider[s].st = "ACTIVE", provider[s].bills # <<>>,
                      \A t \in DOMAIN provider[s].bills : event[s][t] = "PROCESSED"
               PROVE  LET failed == provider[s].bills[Len(provider[s].bills)] = "FAILED"
                      IN  /\ row[s].failure > row[s].recovery <=> failed
                          /\ \/ row[s].late = Len(provider[s].bills)
                             \/ row[s].status = "PAYMENT_RETRY" <=> failed
      BY DEF LatestPaymentWins
  <2>1. PICK n : n = Newest(s)
      OBVIOUS
  <2>2. n # 0 /\ n \in DOMAIN provider[s].bills /\ n = Len(provider[s].bills)
        /\ Billed(s) /\ ~Over(s) /\ n \in Nat
        /\ Failed(s) \subseteq 1..n /\ Paid(s) \subseteq 1..n /\ Failed(s) \cap Paid(s) = {}
      BY <2>1, BillsFit DEF Billed, Over, Newest
  <2>3. n \in {row[s].failure, row[s].recovery}
        /\ (row[s].failure = n => row[s].status = "PAYMENT_RETRY" \/ row[s].late = n)
        /\ (row[s].recovery = n => row[s].status = "ACTIVE" \/ row[s].late = n)
        /\ row[s].failure \in {0} \cup Failed(s) /\ row[s].recovery \in {0} \cup Paid(s)
      BY <2>1, <2>2 DEF Paying, PaymentsFit, Synced, Overtaken
  <2>4. n \in Failed(s) <=> provider[s].bills[Len(provider[s].bills)] = "FAILED"
      BY <2>2 DEF Failed
  <2>5. row[s].failure \in 0..n /\ row[s].recovery \in 0..n
        /\ (row[s].failure = n => row[s].recovery # n)
      BY <2>2, <2>3
  <2>6. row[s].failure = n <=> n \in Failed(s)
      BY <2>2, <2>3, <2>5
  <2>7. row[s].failure > row[s].recovery <=> row[s].failure = n
      BY <2>2, <2>3, <2>5
  <2> QED BY <2>2, <2>3, <2>4, <2>6, <2>7
<1> QED BY <1>1, <1>2, InitPays, Invariance, PTL DEF Spec

-----------------------------------------------------------------------------
(* Levels: what a step may do to them                                        *)

LEMMA LowIsOne ==
    ASSUME TypeOK, NEW a, NEW b, Low(a), Low(b)
    PROVE  a = b
BY StoryFits DEF Low

(* Of two levels, the lower is the lowest.                                   *)
LEMMA LowerIsLow ==
    ASSUME TypeOK, TwoLevels, NEW a \in story.tiers, NEW b \in story.tiers, a < b
    PROVE  Low(a)
BY StoryFits, TiersAssumption DEF Low, TwoLevels

(* PayPal's plans move to the lowest level only, which is asked of known     *)
(* subscriptions only.                                                       *)
PlanMoves ==
    \A s \in Subs :
        /\ provider'[s].st # "NONE" => provider'[s].plan \in story.tiers
        /\ provider[s].st # "NONE" =>
              provider'[s].plan = provider[s].plan \/ Low(provider'[s].plan)
        /\ \/ provider'[s].revision \in {0, provider[s].revision}
           \/ Low(provider'[s].revision) /\ Known(s)

RowLevels ==
    \A s \in Subs : row'[s].status # "NONE" =>
        \/ row[s].status # "NONE" /\ row'[s].tier = row[s].tier
        \/ /\ row'[s].tier \in story.tiers
           /\ Low(row'[s].tier) => provider'[s].plan = row'[s].tier

DowngradeLevels ==
    \A s \in Subs :
        \/ downgrade'[s] = downgrade[s]
        \/ /\ Low(downgrade'[s].tier)
           /\ downgrade'[s].status = "COMPLETED" => provider'[s].plan = downgrade'[s].tier

LevelMoves == PlanMoves /\ RowLevels /\ DowngradeLevels

LEMMA LevelStays ==
    ASSUME TypeOK, story' = story, PlanMoves, NEW s \in Subs, provider[s].st # "NONE", NEW tier,
           Level(tier, s)
    PROVE  Level(tier, s)'
<1>1. tier \in story'.tiers
    BY DEF Level
<1>2. ASSUME Low(tier)' PROVE provider'[s].plan = tier
  <2>1. Low(tier) /\ provider[s].plan = tier
      BY <1>2 DEF Level, Low
  <2> QED BY <2>1, LowIsOne DEF PlanMoves
<1> QED BY <1>1, <1>2 DEF Level

LEMMA LevelsStay ==
    ASSUME TypeOK, TypeOK', RecordsFit, NEW h, Moves(h), LevelMoves, LevelsFit
    PROVE  LevelsFit'
<1> USE DEF LevelMoves
<1>1. story' = story
    BY DEF Moves
<1> SUFFICES ASSUME NEW s \in Subs
             PROVE  /\ provider'[s].st # "NONE" => provider'[s].plan \in story'.tiers
                    /\ provider'[s].revision # 0 => Low(provider[s].revision)' /\ Known(s)'
                    /\ Known(s)' => Level(row[s].tier, s)'
                    /\ downgrade'[s].status # "NONE" => Low(downgrade[s].tier)'
                    /\ downgrade'[s].status = "COMPLETED" => provider'[s].plan = downgrade'[s].tier
    BY DEF LevelsFit
<1>2. provider'[s].st # "NONE" => provider'[s].plan \in story'.tiers
    BY <1>1 DEF PlanMoves
<1>3. provider'[s].revision # 0 => Low(provider[s].revision)' /\ Known(s)'
  <2>1. provider'[s].revision # 0 => Low(provider'[s].revision) /\ Known(s)
      BY DEF PlanMoves, LevelsFit
  <2> QED BY <1>1, <2>1, MovesKeep DEF Low
<1>4. Known(s)' => Level(row[s].tier, s)'
  <2>1. CASE row[s].status # "NONE" /\ row'[s].tier = row[s].tier
    <3>1. Level(row[s].tier, s) /\ provider[s].st # "NONE"
        BY <2>1 DEF LevelsFit, RecordsFit, Known
    <3>2. PICK tier : tier = row[s].tier
        OBVIOUS
    <3>3. Level(tier, s)
        BY <3>1, <3>2
    <3>4. Level(tier, s)'
        BY <1>1, <3>1, <3>3, LevelStays
    <3> QED BY <2>1, <3>2, <3>4 DEF Level, Low
  <2>2. CASE /\ row'[s].tier \in story.tiers
             /\ Low(row'[s].tier) => provider'[s].plan = row'[s].tier
      BY <1>1, <2>2 DEF Level, Low
  <2> QED BY <2>1, <2>2 DEF RowLevels, Known
<1>5. /\ downgrade'[s].status # "NONE" => Low(downgrade[s].tier)'
      /\ downgrade'[s].status = "COMPLETED" => provider'[s].plan = downgrade'[s].tier
  <2>1. CASE downgrade'[s] = downgrade[s]
    <3>1. downgrade[s].status # "NONE" => Low(downgrade[s].tier)
        BY DEF LevelsFit
    <3>2. ASSUME downgrade[s].status = "COMPLETED" PROVE provider'[s].plan = downgrade[s].tier
      <4>1. Low(provider[s].plan) /\ provider[s].plan = downgrade[s].tier
          BY <3>1, <3>2 DEF LevelsFit
      <4>2. provider[s].st # "NONE"
          BY <3>2 DEF RecordsFit
      <4> QED BY <4>1, <4>2, LowIsOne DEF PlanMoves
    <3> QED BY <1>1, <2>1, <3>1, <3>2 DEF Low
  <2>2. CASE /\ Low(downgrade'[s].tier)
             /\ downgrade'[s].status = "COMPLETED" => provider'[s].plan = downgrade'[s].tier
      BY <1>1, <2>2 DEF Low
  <2> QED BY <2>1, <2>2 DEF DowngradeLevels
<1> QED BY <1>2, <1>3, <1>4, <1>5

LEMMA LevelWorkStays ==
    ASSUME TypeOK, RecordsFit, story' = story, PlanMoves, NEW k \in Handlers, HandlerFits(k),
           run'[k] = run[k], LevelWorkFits(k)
    PROVE  LevelWorkFits(k)'
<1>1. PICK x \in RunSet : x = run[k] /\ x = run'[k]
    BY DEF TypeOK
<1>2. ASSUME x.at \in {"verify", "sync"} PROVE Level(x.read.plan, x.s)'
  <2>1. x.s \in Subs /\ provider[x.s].st # "NONE" /\ Level(x.read.plan, x.s)
      BY <1>1, <1>2 DEF HandlerFits, ReadFits, LevelWorkFits
  <2> QED BY <2>1, LevelStays
<1>3. ASSUME x.at \in {"sync", "settle", "intend", "stop"} PROVE Level(x.tier, x.s)'
  <2>1. Known(x.s) /\ Level(x.tier, x.s)
      BY <1>1, <1>3 DEF HandlerFits, WorkFits, LevelWorkFits
  <2>2. x.s \in Subs /\ provider[x.s].st # "NONE"
      BY <2>1 DEF Known, RecordsFit
  <2> QED BY <2>1, <2>2, LevelStays
<1>4. x.at \in {"ask", "commit"} => x.tier \in story'.tiers /\ (x.op = "downgrade" => Low(x.tier)')
    BY <1>1 DEF LevelWorkFits, Low
<1>5. ASSUME x.at = "commit", x.op # "downgrade" PROVE Level(x.tier, x.u)'
  <2>1. x.u \in Subs /\ provider[x.u].st # "NONE" /\ Level(x.tier, x.u)
      BY <1>1, <1>5 DEF HandlerFits, WorkFits, LevelWorkFits
  <2> QED BY <2>1, LevelStays
<1> QED BY <1>1, <1>2, <1>3, <1>4, <1>5 DEF LevelWorkFits, Level, Low

Levels == LevelsFit /\ LevelWorkFit

LEMMA LevelStep ==
    ASSUME TypeOK, Safe, Levels, NEW h, Fine(h), LevelMoves,
           h \in Handlers => LevelWorkFits(h)'
    PROVE  Levels'
<1>1. TypeOK' /\ Moves(h) /\ RecordsFit /\ story' = story /\ PlanMoves
    BY DEF Fine, Safe, Moves, LevelMoves
<1>2. LevelsFit'
    BY <1>1, LevelsStay DEF Levels
<1>3. ASSUME NEW k \in Handlers PROVE LevelWorkFits(k)'
  <2>1. CASE k = h
      BY <2>1
  <2>2. CASE k # h
      BY <1>1, <2>2, LevelWorkStays DEF Fine, Safe, HandlersFit, Levels, LevelWorkFit
  <2> QED BY <2>1, <2>2
<1> QED BY <1>2, <1>3 DEF Levels, LevelWorkFit

LEMMA SameLevels ==
    ASSUME TypeOK, LevelsFit
    PROVE  /\ (\A s \in Subs : /\ provider'[s].plan = provider[s].plan
                               /\ provider'[s].revision = provider[s].revision
                               /\ provider'[s].st # "NONE" => provider[s].st # "NONE") => PlanMoves
           /\ provider' = provider => PlanMoves
           /\ (\A s \in Subs : /\ row'[s].tier = row[s].tier
                               /\ row'[s].status # "NONE" => row[s].status # "NONE") => RowLevels
           /\ row' = row => RowLevels
           /\ downgrade' = downgrade => DowngradeLevels
<1>1. ASSUME \A s \in Subs : /\ provider'[s].plan = provider[s].plan
                             /\ provider'[s].revision = provider[s].revision
                             /\ provider'[s].st # "NONE" => provider[s].st # "NONE"
      PROVE  PlanMoves
    BY <1>1 DEF PlanMoves, LevelsFit
<1>2. provider' = provider => PlanMoves
    BY <1>1
<1>3. (\A s \in Subs : /\ row'[s].tier = row[s].tier
                       /\ row'[s].status # "NONE" => row[s].status # "NONE") => RowLevels
    BY DEF RowLevels
<1>4. row' = row => RowLevels
    BY <1>3
<1>5. downgrade' = downgrade => DowngradeLevels
    BY DEF DowngradeLevels
<1> QED BY <1>1, <1>2, <1>3, <1>4, <1>5

(* A handler that works with no level.                                       *)
LEMMA NoLevel ==
    ASSUME NEW h \in Handlers,
           run'[h].at \in {"idle", "canonical", "advance", "mark"} \cup Replacing
    PROVE  LevelWorkFits(h)'
BY DEF LevelWorkFits, Replacing

(* A step without a level leaves them all.                                   *)
LEMMA NoLevelStep ==
    ASSUME TypeOK, Safe, Levels, NEW h \in Handlers, Fine(h), LevelMoves,
           run'[h].at \in {"idle", "canonical", "advance", "mark"} \cup Replacing
    PROVE  Levels'
BY NoLevel, LevelStep

-----------------------------------------------------------------------------
(* Levels: reading PayPal, and the synchronization                           *)

LEMMA FreshReadLevel ==
    ASSUME TypeOK, LevelsFit, NEW h \in Handlers, NEW s \in Subs, provider[s].st # "NONE",
           provider' = provider, story' = story,
           run'[h].at \in {"verify", "sync"}, run'[h].s = s, run'[h].read = Seen(s),
           run'[h].at = "sync" => Level(run'[h].tier, s)
    PROVE  LevelWorkFits(h)'
<1>1. run'[h].read.plan = provider[s].plan /\ Level(provider[s].plan, s)
    BY SeenFits DEF LevelsFit, Level
<1>2. "sync" \notin {"ask", "commit"} /\ "verify" \notin {"ask", "commit", "settle", "intend", "stop"}
    OBVIOUS
<1> QED BY <1>1, <1>2 DEF LevelWorkFits, Level, Low

(* A step of the handler alone.                                              *)
LEMMA OnlyARunKeepsLevels ==
    ASSUME TypeOK, LevelsFit, UNCHANGED <<provider, rows>>
    PROVE  LevelMoves
BY SameLevels DEF LevelMoves, rows

LEMMA DeliverLevels ==
    ASSUME TypeOK, Safe, Levels, NEW h \in Handlers, NEW s \in Subs, NEW t, Deliver(h, s, t)
    PROVE  Levels'
<1>1. PICK y : y = [Idle EXCEPT !.at = "verify", !.op = "event", !.s = s, !.bill = t, !.read = Seen(s)]
    OBVIOUS
<1>2. y.at = "verify" /\ y.s = s /\ y.read = Seen(s)
    BY <1>1 DEF Idle
<1>3. run' = [run EXCEPT ![h] = y] /\ UNCHANGED <<provider, rows, story>> /\ provider[s].st # "NONE"
    BY <1>1 DEF Deliver
<1>4. run'[h] = y
    BY <1>3 DEF TypeOK
<1>5. LevelWorkFits(h)'
    BY <1>2, <1>3, <1>4, FreshReadLevel DEF Levels
<1> QED BY <1>3, <1>5, DeliverFits, OnlyARunKeepsLevels, LevelStep DEF Levels, Safe

LEMMA ReconcileTargetLevels ==
    ASSUME TypeOK, Safe, Levels, NEW h \in Handlers, NEW u \in Subs, ReconcileTarget(h, u)
    PROVE  Levels'
<1>1. PICK y : y = [Idle EXCEPT !.at = "sync", !.op = "target", !.s = u, !.tier = row[u].tier,
                                !.read = Seen(u)]
    OBVIOUS
<1>2. y.at = "sync" /\ y.s = u /\ y.read = Seen(u) /\ y.tier = row[u].tier
    BY <1>1 DEF Idle
<1>3. UNCHANGED <<provider, rows, story>> /\ Fine(h) /\ LevelMoves
    BY ReconcileTargetFits, OnlyARunKeepsLevels DEF ReconcileTarget, Safe, Levels
<1>4. Known(u) /\ provider[u].st # "NONE" /\ Level(row[u].tier, u)
    BY DEF ReconcileTarget, LiveUpgrades, Live, Safe, RecordsFit, Levels, LevelsFit
<1>5. CASE run' = [run EXCEPT ![h] = y]
  <2>1. run'[h] = y
      BY <1>5 DEF TypeOK
  <2>2. LevelWorkFits(h)'
      BY <1>2, <1>3, <1>4, <2>1, FreshReadLevel DEF Levels
  <2> QED BY <1>3, <2>2, LevelStep
<1>6. CASE run' = [run EXCEPT ![h] = Idle]
    BY <1>3, <1>6, DoneFits, IdleIsARun, NoLevelStep DEF Done
<1> QED BY <1>1, <1>5, <1>6 DEF ReconcileTarget

LEMMA ReconcileCanonicalLevels ==
    ASSUME TypeOK, Safe, Levels, NEW h \in Handlers, ReconcileCanonical(h)
    PROVE  Levels'
<1>1. PICK y : y = [Idle EXCEPT !.at = "verify", !.op = "reconcile", !.s = Canonical,
                                !.read = Seen(Canonical)]
    OBVIOUS
<1>2. y.at = "verify" /\ y.s = Canonical /\ y.read = Seen(Canonical)
    BY <1>1 DEF Idle
<1>3. UNCHANGED <<provider, rows, story>> /\ Fine(h) /\ LevelMoves
    BY ReconcileCanonicalFits, OnlyARunKeepsLevels DEF ReconcileCanonical, Safe, Levels
<1>4. CASE Canonical # None /\ run' = [run EXCEPT ![h] = y]
  <2>1. run'[h] = y /\ Canonical \in Subs /\ provider[Canonical].st # "NONE"
      BY <1>4, CanonicalFits DEF TypeOK, Known, Safe, RecordsFit
  <2>2. LevelWorkFits(h)'
      BY <1>2, <1>3, <2>1, FreshReadLevel DEF Levels
  <2> QED BY <1>3, <2>2, LevelStep
<1>5. CASE run' = [run EXCEPT ![h] = Idle]
    BY <1>3, <1>5, DoneFits, IdleIsARun, NoLevelStep DEF Done
<1> QED BY <1>1, <1>4, <1>5 DEF ReconcileCanonical

LEMMA VerifyLevels ==
    ASSUME TypeOK, Safe, Levels, NEW h \in Handlers, Verify(h)
    PROVE  Levels'
<1>1. PICK x \in RunSet : x = run[h]
    BY DEF TypeOK
<1>2. PICK flag : flag = (x.op = "event" /\ Superseding(x.s) # {})
    OBVIOUS
<1>3. PICK y : y = [x EXCEPT !.at = "sync", !.tier = x.read.plan, !.superseded = flag]
    OBVIOUS
<1>4. x.at = "verify" /\ UNCHANGED <<provider, rows, story>> /\ Fine(h) /\ LevelMoves
    BY <1>1, VerifyFits, OnlyARunKeepsLevels DEF Verify, Safe, HandlersFit, Levels
<1>5. y.at = "sync" /\ y.s = x.s /\ y.read = x.read /\ y.tier = x.read.plan
    BY <1>3 DEF RunSet
<1>6. Level(x.read.plan, x.s)
    BY <1>1, <1>4 DEF Levels, LevelWorkFit, LevelWorkFits
<1>7. CASE run' = [run EXCEPT ![h] = y]
  <2>1. run'[h] = y
      BY <1>7 DEF TypeOK
  <2>2. LevelWorkFits(h)'
      BY <1>4, <1>5, <1>6, <2>1 DEF LevelWorkFits, Level, Low
  <2> QED BY <1>4, <2>2, LevelStep
<1>8. CASE run' = [run EXCEPT ![h] = Idle]
    BY <1>4, <1>8, DoneFits, IdleIsARun, NoLevelStep DEF Done
<1> QED BY <1>1, <1>2, <1>3, <1>7, <1>8 DEF Verify

LEMMA SynchronizeLevels ==
    ASSUME TypeOK, Safe, Levels, NEW h \in Handlers, Synchronize(h)
    PROVE  Levels'
<1>1. PICK x \in RunSet : x = run[h]
    BY DEF TypeOK
<1>2. x.at = "sync" /\ UNCHANGED <<provider, downgrade, story>> /\ Fine(h) /\ HandlerFits(h)
      /\ LevelsFit /\ LevelWorkFits(h)
    BY <1>1, SynchronizeFits DEF Synchronize, Safe, HandlersFit, Levels, LevelWorkFit
<1>3. PICK s \in Subs : s = x.s /\ Known(s) /\ Level(x.tier, s)
    BY <1>1, <1>2 DEF HandlerFits, WorkFits, LevelWorkFits, Known
<1>4. PICK failedAt \in Nat, read \in ReadSet, p \in RowSet, q \in RowSet :
          SynchronizedAs(h, s, failedAt, read, p, q)
    BY <1>1, <1>3, Synchronizes
<1>10. q.tier = x.tier
    BY <1>1, <1>4 DEF SynchronizedAs, SynchronizedRow
<1>11. row' = [row EXCEPT ![s] = q]
    BY <1>4 DEF SynchronizedAs
<1>12. row'[s] = q /\ \A o \in Subs \ {s} : row'[o] = row[o]
    BY <1>11 DEF TypeOK
<1>13. RowLevels
  <2> SUFFICES ASSUME NEW o \in Subs, row'[o].status # "NONE"
               PROVE  \/ row[o].status # "NONE" /\ row'[o].tier = row[o].tier
                      \/ /\ row'[o].tier \in story.tiers
                         /\ Low(row'[o].tier) => provider'[o].plan = row'[o].tier
      BY DEF RowLevels
  <2>1. CASE o = s
      BY <1>2, <1>3, <1>10, <1>12, <2>1 DEF Level
  <2>2. CASE o # s
      BY <1>12, <2>2
  <2> QED BY <2>1, <2>2
<1>14. LevelMoves
    BY <1>2, <1>13, SameLevels DEF LevelMoves
<1>15. PICK y : y = CASE x.op = "cancel" -> Idle
                      [] x.op = "verify" -> [x EXCEPT !.at = "intend", !.op = "cancel", !.read = NoRead]
                      [] OTHER -> [x EXCEPT !.at = "settle", !.superseded = FALSE,
                                            !.read = [NoRead EXCEPT !.st = q.status]]
    OBVIOUS
<1>16. run' = [run EXCEPT ![h] = y]
    BY <1>1, <1>3, <1>12, <1>15 DEF Synchronize
<1>17. run'[h] = y
    BY <1>16 DEF TypeOK
<1>18. y.at = "idle" \/ (y.at \in {"intend", "settle"} /\ y.s = s /\ y.tier = x.tier)
    BY <1>3, <1>15, IdleIsARun DEF RunSet
<1>19. CASE y.at = "idle"
    BY <1>2, <1>14, <1>17, <1>19, NoLevelStep
<1>20. CASE y.at \in {"intend", "settle"} /\ y.s = s /\ y.tier = x.tier
  <2>1. LevelWorkFits(h)'
      BY <1>2, <1>3, <1>17, <1>20 DEF LevelWorkFits, Level, Low
  <2> QED BY <1>2, <1>14, <2>1, LevelStep
<1> QED BY <1>18, <1>19, <1>20

-----------------------------------------------------------------------------
(* Levels: after the synchronization                                         *)

LEMMA NoLevelOnward ==
    ASSUME TypeOK, NEW h \in Handlers, HandlerFits(h), run[h].at \in Later
    PROVE  /\ Return(h) => run'[h].at \in {"idle", "canonical", "mark"}
           /\ \A step \in Replacing : Goto(h, step) => run'[h].at \in Replacing
<1>1. run[h].s \in Subs
    BY DEF HandlerFits, WorkFits, Later, Known
<1>2. Return(h) => run'[h].at \in {"idle", "canonical", "mark"}
    BY <1>1, ReturnFits
<1>3. ASSUME NEW step \in Replacing, Goto(h, step) PROVE run'[h].at \in Replacing
    BY <1>3, GotoFits DEF Steps
<1> QED BY <1>2, <1>3

(* The scheduled downgrade is completed for the level that was read, which   *)
(* is PayPal's for good.                                                     *)
LEMMA SettleLevels ==
    ASSUME TypeOK, Safe, Levels, NEW h \in Handlers, Settle(h)
    PROVE  Levels'
<1>1. PICK x \in RunSet : x = run[h]
    BY DEF TypeOK
<1>2. x.at = "settle" /\ UNCHANGED <<provider, row>> /\ Fine(h) /\ HandlerFits(h)
      /\ LevelsFit /\ LevelWorkFits(h)
    BY <1>1, SettleFits DEF Settle, Safe, HandlersFit, Levels, LevelWorkFit
<1>3. PICK s : s = x.s /\ s \in Subs /\ Level(x.tier, s)
    BY <1>1, <1>2 DEF HandlerFits, WorkFits, LevelWorkFits, Known
<1>4. DowngradeLevels
  <2>1. CASE downgrade' = downgrade
      BY <1>2, <2>1, SameLevels
  <2>2. CASE Reached(s, x.tier) /\ downgrade' = [downgrade EXCEPT ![s].status = "COMPLETED"]
    <3>1. Low(x.tier) /\ provider[s].plan = x.tier /\ downgrade[s].tier = x.tier
        BY <1>2, <1>3, <2>2 DEF Reached, LevelsFit, Level
    <3>2. PICK d : d = [downgrade[s] EXCEPT !.status = "COMPLETED"]
        OBVIOUS
    <3>3. d.tier = x.tier
        BY <1>3, <3>1, <3>2 DEF TypeOK, DowngradeSet
    <3>4. downgrade' = [downgrade EXCEPT ![s] = d]
        BY <2>2, <3>2
    <3>5. downgrade'[s] = d /\ \A o \in Subs \ {s} : downgrade'[o] = downgrade[o]
        BY <1>3, <3>4 DEF TypeOK
    <3> QED BY <1>2, <3>1, <3>3, <3>5 DEF DowngradeLevels
  <2> QED BY <1>1, <1>3, <2>1, <2>2 DEF Settle
<1>5. LevelMoves
    BY <1>2, <1>4, SameLevels DEF LevelMoves
<1>6. run' = [run EXCEPT ![h] = [x EXCEPT !.at = "advance", !.read = NoRead, !.tier = 0]]
    BY <1>1 DEF Settle
<1>7. run'[h].at = "advance"
    BY <1>6 DEF TypeOK, RunSet
<1> QED BY <1>2, <1>5, <1>7, NoLevelStep

LEMMA AdvanceLevels ==
    ASSUME TypeOK, Safe, Levels, NEW h \in Handlers, Advance(h)
    PROVE  Levels'
<1>1. Fine(h) /\ HandlerFits(h) /\ run[h].at \in Later /\ UNCHANGED <<provider, row, downgrade>>
    BY AdvanceFits DEF Advance, Safe, HandlersFit, Later
<1>2. LevelMoves
    BY <1>1, SameLevels DEF LevelMoves, Levels
<1>3. PICK x \in RunSet : x = run[h]
    BY DEF TypeOK
<1>4. CASE x.s \in LiveUpgrades /\ Replaces(x.s)
  <2>1. PICK at \in {"source", "promote"} : at = IF upgrade[x.s].activated THEN "source" ELSE "promote"
      OBVIOUS
  <2>2. PICK y : y = [x EXCEPT !.at = at, !.u = x.s]
      OBVIOUS
  <2>3. y.at = at
      BY <2>2 DEF RunSet
  <2>4. run' = [run EXCEPT ![h] = y]
      BY <1>3, <1>4, <2>1, <2>2 DEF Advance
  <2>5. run'[h].at \in Replacing
      BY <2>3, <2>4 DEF TypeOK, Replacing
  <2> QED BY <1>1, <1>2, <2>5, NoLevelStep
<1>5. CASE Return(h)
    BY <1>1, <1>2, <1>5, NoLevelOnward, NoLevelStep
<1> QED BY <1>3, <1>4, <1>5 DEF Advance

LEMMA PromoteLevels ==
    ASSUME TypeOK, Safe, Levels, NEW h \in Handlers, Promote(h)
    PROVE  Levels'
<1>1. Fine(h) /\ HandlerFits(h) /\ run[h].at \in Later /\ UNCHANGED <<provider, downgrade>>
      /\ Goto(h, "source") /\ "source" \in Replacing
    BY PromoteFits DEF Promote, Safe, HandlersFit, Later, Replacing
<1>2. ASSUME NEW o \in Subs
      PROVE  row'[o].status = row[o].status /\ row'[o].tier = row[o].tier
  <2>1. CASE row' = row
      BY <2>1
  <2>2. CASE row' = [row EXCEPT ![upgrade[run[h].u].source].open = <<>>]
    <3>1. PICK s : s = upgrade[run[h].u].source
        OBVIOUS
    <3>2. PICK q : q = [row[s] EXCEPT !.open = <<>>]
        OBVIOUS
    <3>3. row' = [row EXCEPT ![s] = q]
        BY <2>2, <3>1, <3>2
    <3>4. CASE o = s
        BY <3>2, <3>3, <3>4 DEF TypeOK, RowSet
    <3>5. CASE o # s
        BY <3>3, <3>5 DEF TypeOK
    <3> QED BY <3>4, <3>5
  <2> QED BY <2>1, <2>2 DEF Promote
<1>3. LevelMoves
    BY <1>1, <1>2, SameLevels DEF LevelMoves, Levels
<1> QED BY <1>1, <1>3, NoLevelOnward, NoLevelStep

LEMMA LookAtSourceLevels ==
    ASSUME TypeOK, Safe, Levels, NEW h \in Handlers, LookAtSource(h)
    PROVE  Levels'
<1>1. Fine(h) /\ HandlerFits(h) /\ run[h].at \in Later /\ UNCHANGED <<provider, row, downgrade>>
    BY LookAtSourceFits DEF LookAtSource, Safe, HandlersFit, Later, Replacing
<1>2. LevelMoves
    BY <1>1, SameLevels DEF LevelMoves, Levels
<1>3. Goto(h, "replace") \/ Goto(h, "retire") \/ Return(h)
    BY DEF LookAtSource, CleanupFails
<1>4. "replace" \in Replacing /\ "retire" \in Replacing
    BY DEF Replacing
<1> QED BY <1>1, <1>2, <1>3, <1>4, NoLevelOnward, NoLevelStep

(* A subscription that is ended at PayPal keeps its level.                   *)
LEMMA EndKeepsLevels ==
    ASSUME TypeOK, LevelsFit, NEW s \in Subs, provider[s].st \in {"ACTIVE", "SUSPENDED"},
           NEW who \in {"player", "upgrade"},
           provider' = [provider EXCEPT ![s].st = "CANCELLED", ![s].by = who]
    PROVE  PlanMoves
<1>1. PICK q : q = [provider[s] EXCEPT !.st = "CANCELLED", !.by = who]
    OBVIOUS
<1>2. q.st = "CANCELLED" /\ q.plan = provider[s].plan /\ q.revision = provider[s].revision
    BY <1>1 DEF TypeOK, ProviderSet
<1>3. provider' = [provider EXCEPT ![s] = q]
    BY <1>1 DEF TypeOK
<1>4. provider'[s] = q /\ \A o \in Subs \ {s} : provider'[o] = provider[o]
    BY <1>3 DEF TypeOK
<1>5. \A o \in Subs : /\ provider'[o].plan = provider[o].plan
                      /\ provider'[o].revision = provider[o].revision
                      /\ provider'[o].st # "NONE" => provider[o].st # "NONE"
    BY <1>2, <1>4
<1> QED BY <1>5, SameLevels

LEMMA CancelSourceLevels ==
    ASSUME TypeOK, Safe, Levels, NEW h \in Handlers, CancelSource(h) \/ CleanupOutage(h)
    PROVE  Levels'
<1>1. Fine(h) /\ HandlerFits(h) /\ RecordsFit /\ LevelsFit
    BY CancelSourceFits, CleanupOutageFits DEF Safe, HandlersFit, Levels
<1>2. run[h].at \in Replacing \ {"promote"} /\ run[h].at \in Later /\ UNCHANGED <<row, downgrade>>
    BY DEF CancelSource, CleanupOutage, Later, Replacing
<1>3. PICK s \in Subs : s = upgrade[run[h].u].source
  <2>1. upgrade[run[h].u].source \in Subs
      BY <1>1, <1>2 DEF HandlerFits, CleanupFits, RecordsFit, Known
  <2> QED BY <2>1
<1>4. \/ provider' = provider
      \/ /\ provider[s].st \in {"ACTIVE", "SUSPENDED"}
         /\ provider' = [provider EXCEPT ![s].st = "CANCELLED", ![s].by = "upgrade"]
    BY <1>3 DEF CancelSource, CleanupOutage
<1>5. PlanMoves
    BY <1>1, <1>4, EndKeepsLevels, SameLevels
<1>6. LevelMoves
    BY <1>1, <1>2, <1>5, SameLevels DEF LevelMoves
<1>7. Goto(h, "retire") \/ Return(h)
    BY DEF CancelSource, CleanupOutage, CleanupFails
<1>8. "retire" \in Replacing
    BY DEF Replacing
<1> QED BY <1>1, <1>2, <1>6, <1>7, <1>8, NoLevelOnward, NoLevelStep

LEMMA RetireSourceLevels ==
    ASSUME TypeOK, Safe, Levels, NEW h \in Handlers, RetireSource(h)
    PROVE  Levels'
<1>1. Fine(h) /\ HandlerFits(h) /\ RecordsFit /\ LevelsFit
    BY RetireSourceFits DEF Safe, HandlersFit, Levels
<1>2. run[h].at = "retire" /\ run[h].at \in Later /\ UNCHANGED <<provider, downgrade>>
    BY DEF RetireSource, Later, Replacing
<1>3. PICK s \in Subs : s = upgrade[run[h].u].source /\ Known(s)
  <2>1. Known(upgrade[run[h].u].source)
      BY <1>1, <1>2 DEF HandlerFits, CleanupFits, Replacing, RecordsFit
  <2> QED BY <2>1 DEF Known
<1>4. RowLevels
  <2>1. CASE row' = row
      BY <1>1, <2>1, SameLevels
  <2>2. CASE row' = [row EXCEPT ![s] = Synchronized(@, "plain", 0, Seen(s), @.tier, 0, TRUE)]
    <3>1. PICK r \in RowSet : r = row[s]
        BY DEF TypeOK
    <3>2. PICK q : q = Synchronized(r, "plain", 0, Seen(s), r.tier, 0, TRUE)
        OBVIOUS
    <3>3. SynchronizedRow(q, r, "plain", 0, Seen(s), r.tier, 0, TRUE)
      <4>1. r.tier \in Nat
          BY DEF RowSet
      <4> QED BY <3>2, <4>1, SeenFits, SynchronizedFits
    <3>4. q.tier = r.tier
        BY <3>3 DEF SynchronizedRow
    <3>5. row' = [row EXCEPT ![s] = q]
        BY <2>2, <3>1, <3>2
    <3>6. row'[s] = q /\ \A o \in Subs \ {s} : row'[o] = row[o]
        BY <3>5 DEF TypeOK
    <3> QED BY <1>3, <3>1, <3>4, <3>6 DEF RowLevels, Known
  <2> QED BY <1>3, <2>1, <2>2 DEF RetireSource
<1>5. LevelMoves
    BY <1>1, <1>2, <1>4, SameLevels DEF LevelMoves
<1>6. Goto(h, "complete") \/ Return(h)
    BY DEF RetireSource, CleanupFails
<1>7. "complete" \in Replacing
    BY DEF Replacing
<1> QED BY <1>1, <1>2, <1>5, <1>6, <1>7, NoLevelOnward, NoLevelStep

LEMMA CompleteLevels ==
    ASSUME TypeOK, Safe, Levels, NEW h \in Handlers, Complete(h) \/ Mark(h)
    PROVE  Levels'
<1>1. Fine(h) /\ HandlerFits(h) /\ run[h].at \in Later /\ UNCHANGED <<provider, row, downgrade>>
    BY CompleteFits, MarkFits DEF Complete, Mark, Safe, HandlersFit, Later, Replacing
<1>2. LevelMoves
    BY <1>1, SameLevels DEF LevelMoves, Levels
<1>3. Return(h) \/ Done(h)
    BY DEF Complete, Mark
<1>4. run'[h].at \in {"idle", "canonical", "mark"}
    BY <1>1, <1>3, NoLevelOnward, DoneFits, IdleIsARun
<1> QED BY <1>1, <1>2, <1>4, NoLevelStep

-----------------------------------------------------------------------------
(* Levels: subscribing, changing the level, cancelling                       *)

LEMMA AskLevels ==
    ASSUME TypeOK, Safe, Levels, NEW h \in Handlers, NEW op, NEW s, NEW tier \in story.tiers,
           op = "downgrade" => Low(tier), Ask(h, op, s, tier), Fine(h)
    PROVE  Levels'
<1>1. PICK y : y = [Idle EXCEPT !.at = "ask", !.op = op, !.s = s, !.tier = tier]
    OBVIOUS
<1>2. y.at = "ask" /\ y.op = op /\ y.tier = tier
    BY <1>1 DEF Idle
<1>3. run' = [run EXCEPT ![h] = y] /\ UNCHANGED <<provider, rows, story>>
    BY <1>1 DEF Ask
<1>4. run'[h] = y
    BY <1>3 DEF TypeOK
<1>5. LevelWorkFits(h)'
    BY <1>2, <1>3, <1>4 DEF LevelWorkFits, Low
<1> QED BY <1>3, <1>5, OnlyARunKeepsLevels, LevelStep DEF Levels

LEMMA AskedLevels ==
    ASSUME TypeOK, Safe, Levels, TwoLevels, NEW h \in Handlers, NEW tier \in story.tiers,
           Create(h, tier) \/ Upgrade(h, tier) \/ Downgrade(h, tier)
    PROVE  Levels'
<1>1. tier \in Nat /\ RecordsFit
    BY StoryFits DEF Safe
<1>2. CASE Create(h, tier)
    BY <1>1, <1>2, CreateFits, AskLevels DEF Create
<1>3. CASE Upgrade(h, tier)
    BY <1>1, <1>3, UpgradeFits, AskLevels DEF Upgrade
<1>4. CASE Downgrade(h, tier)
  <2>1. Known(Canonical) /\ tier < row[Canonical].tier
      BY <1>1, <1>4, CanonicalFits DEF Downgrade
  <2>2. row[Canonical].tier \in story.tiers
      BY <2>1 DEF Levels, LevelsFit, Level, Known
  <2>3. Low(tier)
      BY <2>1, <2>2, LowerIsLow
  <2> QED BY <1>1, <1>4, <2>3, DowngradeFits, AskLevels DEF Downgrade
<1> QED BY <1>2, <1>3, <1>4

LEMMA AskPayPalLevels ==
    ASSUME TypeOK, Safe, Levels, NEW h \in Handlers, AskPayPal(h)
    PROVE  Levels'
<1>1. PICK x \in RunSet : x = run[h]
    BY DEF TypeOK
<1>2. Fine(h) /\ HandlerFits(h) /\ RecordsFit /\ LevelsFit /\ LevelWorkFits(h)
    BY AskPayPalFits DEF Safe, HandlersFit, Levels, LevelWorkFit
<1>3. x.at = "ask" /\ UNCHANGED <<rows, story>> /\ (x.op # "create" => Known(x.s))
      /\ x.op \in Requests /\ x.tier \in Nat
    BY <1>1, <1>2 DEF AskPayPal, HandlerFits, WorkFits, RunSet
<1>4. x.tier \in story.tiers /\ (x.op = "downgrade" => Low(x.tier))
    BY <1>1, <1>2, <1>3 DEF LevelWorkFits
<1>5. RowLevels /\ DowngradeLevels
    BY <1>2, <1>3, SameLevels DEF rows
<1>6. CASE Done(h) /\ UNCHANGED provider
  <2>1. LevelMoves
      BY <1>2, <1>5, <1>6, SameLevels DEF LevelMoves
  <2> QED BY <1>2, <1>6, <2>1, DoneFits, IdleIsARun, NoLevelStep
<1>7. CASE /\ x.op # "downgrade" /\ Unused # {}
           /\ provider' = [provider EXCEPT ![Min(Unused)].st = "APPROVAL_PENDING",
                                           ![Min(Unused)].plan = x.tier]
           /\ run' = [run EXCEPT ![h].at = "commit", ![h].u = Min(Unused)]
  <2>1. PICK n \in Subs : n = Min(Unused) /\ provider[n].st = "NONE"
      BY <1>2, <1>7, UnusedFits
  <2>2. /\ provider'[n].plan = x.tier /\ provider'[n].revision = provider[n].revision
        /\ \A o \in Subs \ {n} : provider'[o] = provider[o]
      BY <1>3, <1>7, <2>1, CreationMoves
  <2>3. PlanMoves
      BY <1>2, <1>4, <2>1, <2>2 DEF PlanMoves, LevelsFit
  <2>4. PICK y : y = [x EXCEPT !.at = "commit", !.u = n]
      OBVIOUS
  <2>5. y.at = "commit" /\ y.u = n /\ y.op = x.op /\ y.tier = x.tier
      BY <2>4 DEF RunSet
  <2>6. run' = [run EXCEPT ![h] = y]
      BY <1>1, <1>7, <2>1, <2>4 DEF TypeOK
  <2>7. run'[h] = y
      BY <2>6 DEF TypeOK
  <2>8. LevelWorkFits(h)'
      BY <1>3, <1>4, <1>7, <2>2, <2>5, <2>7 DEF LevelWorkFits, Level, Low
  <2>9. LevelMoves
      BY <1>5, <2>3 DEF LevelMoves
  <2> QED BY <1>2, <2>8, <2>9, LevelStep
<1>8. CASE /\ x.op = "downgrade"
           /\ provider' = IF provider[x.s].st = "ACTIVE" /\ provider[x.s].plan # x.tier
                          THEN [provider EXCEPT ![x.s].revision = x.tier] ELSE provider
           /\ Goto(h, "commit")
  <2>1. x.s \in Subs /\ Known(x.s) /\ Low(x.tier)
      BY <1>3, <1>4, <1>8 DEF Known
  <2>2. PlanMoves
    <3>1. CASE provider' = provider
        BY <1>2, <3>1, SameLevels
    <3>2. CASE provider' = [provider EXCEPT ![x.s].revision = x.tier]
      <4>1. /\ provider'[x.s].st = provider[x.s].st /\ provider'[x.s].plan = provider[x.s].plan
            /\ provider'[x.s].revision = x.tier
            /\ \A o \in Subs \ {x.s} : provider'[o] = provider[o]
          BY <1>3, <2>1, <3>2, RevisionMoves
      <4> QED BY <1>2, <2>1, <4>1 DEF PlanMoves, LevelsFit
    <3> QED BY <1>8, <3>1, <3>2
  <2>3. run'[h].at = "commit" /\ run'[h].op = "downgrade" /\ run'[h].tier = x.tier
      BY <1>1, <1>8, GotoFits DEF Steps
  <2>4. LevelWorkFits(h)'
      BY <1>3, <1>4, <2>1, <2>3 DEF LevelWorkFits, Low
  <2>5. LevelMoves
      BY <1>5, <2>2 DEF LevelMoves
  <2> QED BY <1>2, <2>4, <2>5, LevelStep
<1> QED BY <1>1, <1>6, <1>7, <1>8 DEF AskPayPal, Requests

LEMMA CommitLevels ==
    ASSUME TypeOK, Safe, Levels, NEW h \in Handlers, Commit(h)
    PROVE  Levels'
<1>1. PICK x \in RunSet : x = run[h]
    BY DEF TypeOK
<1>2. Fine(h) /\ HandlerFits(h) /\ LevelsFit /\ LevelWorkFits(h)
    BY CommitFits DEF Safe, HandlersFit, Levels, LevelWorkFit
<1>3. Done(h) /\ UNCHANGED provider /\ x.tier \in Nat
      /\ (x.op # "downgrade" => x.u \in Subs /\ Level(x.tier, x.u))
      /\ (x.op = "downgrade" => x.s \in Subs /\ Low(x.tier))
    BY <1>1, <1>2 DEF Commit, HandlerFits, WorkFits, LevelWorkFits, RunSet, Known
<1>4. RowLevels
  <2>1. CASE x.op = "downgrade"
    <3>1. row' = row
        BY <1>1, <2>1 DEF Commit
    <3> QED BY <1>2, <3>1, SameLevels
  <2>2. CASE x.op # "downgrade"
    <3>1. PICK u \in Subs : u = x.u
        BY <1>3, <2>2
    <3>2. row' = [row EXCEPT ![u] = NewRow(x.tier)]
        BY <1>1, <2>2, <3>1 DEF Commit
    <3>3. row'[u] = NewRow(x.tier) /\ \A o \in Subs \ {u} : row'[o] = row[o]
        BY <3>2 DEF TypeOK
    <3>4. row'[u].tier = x.tier
        BY <1>3, <3>3, NewRowFits
    <3>5. Level(x.tier, u) /\ provider'[u].plan = provider[u].plan
        BY <1>3, <2>2, <3>1
    <3> QED BY <3>3, <3>4, <3>5 DEF RowLevels, Level
  <2> QED BY <2>1, <2>2
<1>5. DowngradeLevels
  <2>1. CASE x.op # "downgrade"
    <3>1. downgrade' = downgrade
        BY <1>1, <2>1 DEF Commit
    <3> QED BY <1>2, <3>1, SameLevels
  <2>2. CASE x.op = "downgrade"
    <3>1. PICK s \in Subs : s = x.s
        BY <1>3, <2>2
    <3>2. PICK d \in DowngradeSet : d = downgrade[s]
        BY DEF TypeOK
    <3>3. PICK e : e = [d EXCEPT !.status = "PENDING_APPROVAL", !.tier = x.tier]
        OBVIOUS
    <3>4. e.status = "PENDING_APPROVAL" /\ e.tier = x.tier
        BY <3>3 DEF DowngradeSet
    <3>5. downgrade' = [downgrade EXCEPT ![s].status = "PENDING_APPROVAL", ![s].tier = x.tier]
        BY <1>1, <2>2, <3>1 DEF Commit
    <3>6. downgrade' = [downgrade EXCEPT ![s] = e]
        BY <3>2, <3>3, <3>5 DEF TypeOK
    <3>7. downgrade'[s] = e /\ \A o \in Subs \ {s} : downgrade'[o] = downgrade[o]
        BY <3>6 DEF TypeOK
    <3> QED BY <1>3, <2>2, <3>4, <3>7 DEF DowngradeLevels
  <2> QED BY <2>1, <2>2
<1>6. LevelMoves
    BY <1>2, <1>3, <1>4, <1>5, SameLevels DEF LevelMoves
<1> QED BY <1>2, <1>3, <1>6, DoneFits, IdleIsARun, NoLevelStep

LEMMA CancelLevels ==
    ASSUME TypeOK, Safe, Levels, NEW h \in Handlers, Cancel(h)
    PROVE  Levels'
<1>1. UNCHANGED <<provider, rows, story>> /\ Fine(h) /\ LevelMoves /\ LevelsFit
    BY CancelFits, OnlyARunKeepsLevels DEF Cancel, Safe, Levels
<1>2. PICK s \in Subs : s = Canonical /\ provider[s].st # "NONE" /\ Level(row[s].tier, s)
    BY CanonicalFits DEF Cancel, Known, Safe, RecordsFit, Levels, LevelsFit
<1>3. PICK x : x = [Idle EXCEPT !.op = "cancel", !.s = s, !.tier = row[s].tier]
    OBVIOUS
<1>4. CASE run' = [run EXCEPT ![h] = [x EXCEPT !.at = "intend"]]
  <2>1. PICK y : y = [x EXCEPT !.at = "intend"]
      OBVIOUS
  <2>2. y.at = "intend" /\ y.s = s /\ y.tier = row[s].tier
      BY <1>3, <2>1 DEF Idle
  <2>3. run'[h] = y
      BY <1>4, <2>1 DEF TypeOK
  <2>4. LevelWorkFits(h)'
      BY <1>1, <1>2, <2>2, <2>3 DEF LevelWorkFits, Level, Low
  <2> QED BY <1>1, <2>4, LevelStep
<1>5. CASE run' = [run EXCEPT ![h] = [x EXCEPT !.at = "sync", !.op = "verify", !.read = Seen(s)]]
  <2>1. PICK y : y = [x EXCEPT !.at = "sync", !.op = "verify", !.read = Seen(s)]
      OBVIOUS
  <2>2. y.at = "sync" /\ y.s = s /\ y.read = Seen(s) /\ y.tier = row[s].tier
      BY <1>3, <2>1 DEF Idle
  <2>3. run'[h] = y
      BY <1>5, <2>1 DEF TypeOK
  <2>4. LevelWorkFits(h)'
      BY <1>1, <1>2, <2>2, <2>3, FreshReadLevel
  <2> QED BY <1>1, <2>4, LevelStep
<1>6. CASE run' = [run EXCEPT ![h] = Idle]
    BY <1>1, <1>6, DoneFits, IdleIsARun, NoLevelStep DEF Done
<1> QED BY <1>2, <1>3, <1>4, <1>5, <1>6 DEF Cancel

(* A row of which only the intent changes.                                   *)
LEMMA TouchKeepsLevels ==
    ASSUME TypeOK, LevelsFit, NEW s \in Subs, NEW intent, row' = [row EXCEPT ![s].intent = intent]
    PROVE  RowLevels
<1>1. PICK q : q = [row[s] EXCEPT !.intent = intent] /\ row' = [row EXCEPT ![s] = q]
    OBVIOUS
<1>2. q.status = row[s].status /\ q.tier = row[s].tier
    BY <1>1 DEF TypeOK, RowSet
<1>3. row'[s] = q /\ \A o \in Subs \ {s} : row'[o] = row[o]
    BY <1>1 DEF TypeOK
<1>4. \A o \in Subs : /\ row'[o].tier = row[o].tier
                      /\ row'[o].status # "NONE" => row[o].status # "NONE"
    BY <1>2, <1>3
<1> QED BY <1>4, SameLevels

LEMMA IntendLevels ==
    ASSUME TypeOK, Safe, Levels, NEW h \in Handlers, Intend(h)
    PROVE  Levels'
<1>1. Fine(h) /\ HandlerFits(h) /\ LevelsFit /\ LevelWorkFits(h)
    BY IntendFits DEF Safe, HandlersFit, Levels, LevelWorkFit
<1>2. PICK s : s = run[h].s /\ s \in Subs /\ Level(run[h].tier, s)
    BY <1>1 DEF Intend, HandlerFits, WorkFits, LevelWorkFits, Known
<1>3. Goto(h, "stop") /\ UNCHANGED <<provider, downgrade, story>> /\ row' = [row EXCEPT ![s].intent = TRUE]
    BY <1>2 DEF Intend
<1>4. run'[h].at = "stop" /\ run'[h].s = s /\ run'[h].tier = run[h].tier
    BY <1>2, <1>3, GotoFits DEF Steps
<1>5. LevelWorkFits(h)'
    BY <1>2, <1>3, <1>4 DEF LevelWorkFits, Level, Low
<1>6. RowLevels
    BY <1>1, <1>2, <1>3, TouchKeepsLevels
<1>7. LevelMoves
    BY <1>1, <1>3, <1>6, SameLevels DEF LevelMoves
<1> QED BY <1>1, <1>5, <1>7, LevelStep

LEMMA StopLevels ==
    ASSUME TypeOK, Safe, Levels, NEW h \in Handlers, Stop(h)
    PROVE  Levels'
<1>1. Fine(h) /\ HandlerFits(h) /\ LevelsFit /\ LevelWorkFits(h)
    BY StopFits DEF Safe, HandlersFit, Levels, LevelWorkFit
<1>2. PICK x \in RunSet : x = run[h]
    BY DEF TypeOK
<1>3. PICK s : s = x.s /\ s \in Subs /\ Level(x.tier, s)
    BY <1>1, <1>2 DEF Stop, HandlerFits, WorkFits, LevelWorkFits, Known
<1>4. /\ UNCHANGED <<row, downgrade, story>>
      /\ provider[s].st \in {"ACTIVE", "SUSPENDED"}
      /\ provider' = [provider EXCEPT ![s].st = "CANCELLED", ![s].by = "player"]
    BY <1>2, <1>3 DEF Stop, rows
<1>5. PlanMoves /\ provider'[s].plan = provider[s].plan /\ provider[s].plan \in story.tiers
    BY <1>1, <1>3, <1>4, EndKeepsLevels, EndMoves DEF LevelsFit
<1>6. LevelMoves
    BY <1>1, <1>4, <1>5, SameLevels DEF LevelMoves
<1>7. PICK read : read = [Seen(s) EXCEPT !.st = "CANCELLED"]
    OBVIOUS
<1>8. read.plan = provider[s].plan
    BY <1>3, <1>7, SeenFits DEF ReadSet
<1>9. PICK y : y = [x EXCEPT !.at = "sync", !.read = read]
    OBVIOUS
<1>10. y.at = "sync" /\ y.read = read /\ y.s = s /\ y.tier = x.tier
    BY <1>3, <1>9 DEF RunSet
<1>11. run' = [run EXCEPT ![h].at = "sync", ![h].read = read]
    BY <1>2, <1>3, <1>7 DEF Stop
<1>12. run' = [run EXCEPT ![h] = y]
    BY <1>2, <1>9, <1>11 DEF TypeOK
<1>13. run'[h] = y
    BY <1>12 DEF TypeOK
<1>14. LevelWorkFits(h)'
    BY <1>3, <1>4, <1>5, <1>8, <1>10, <1>13 DEF LevelWorkFits, Level, Low
<1> QED BY <1>1, <1>6, <1>14, LevelStep

LEMMA WithdrawLevels ==
    ASSUME TypeOK, Safe, Levels, NEW h \in Handlers, Withdraw(h)
    PROVE  Levels'
<1>1. Fine(h) /\ HandlerFits(h) /\ LevelsFit
    BY WithdrawFits DEF Safe, HandlersFit, Levels
<1>2. PICK s : s = run[h].s /\ s \in Subs
    BY <1>1 DEF Withdraw, HandlerFits, WorkFits, Known
<1>3. Done(h) /\ downgrade' = downgrade /\ row' = [row EXCEPT ![s].intent = FALSE]
      /\ \/ provider' = provider
         \/ /\ provider[s].st = "ACTIVE"
            /\ provider' = [provider EXCEPT ![s].st = "CANCELLED", ![s].by = "player"]
    BY <1>2 DEF Withdraw
<1>4. RowLevels
    BY <1>1, <1>2, <1>3, TouchKeepsLevels
<1>5. PlanMoves
    BY <1>1, <1>2, <1>3, EndKeepsLevels, SameLevels
<1>6. LevelMoves
    BY <1>1, <1>3, <1>4, <1>5, SameLevels DEF LevelMoves
<1> QED BY <1>1, <1>3, <1>6, DoneFits, IdleIsARun, NoLevelStep

LEMMA DiesLevels ==
    ASSUME TypeOK, Safe, Levels, NEW h \in Handlers, Dies(h)
    PROVE  Levels'
<1>1. Fine(h) /\ LevelMoves /\ Done(h)
    BY DiesFits, OnlyARunKeepsLevels DEF Dies, Safe, Levels
<1> QED BY <1>1, DoneFits, IdleIsARun, NoLevelStep

-----------------------------------------------------------------------------
(* Levels: what happens at PayPal and in time                                *)

LEMMA WorldLevels ==
    ASSUME TypeOK, Safe, Levels, Fine(None), LevelMoves
    PROVE  Levels'
<1>1. None \notin Handlers
    BY HandlersAssumption DEF None
<1> QED BY <1>1, LevelStep

LEMMA LapseLevels ==
    ASSUME TypeOK, Safe, Levels, NEW s \in Subs, Lapse(s)
    PROVE  Levels'
<1>1. Fine(None) /\ LevelsFit /\ UNCHANGED <<provider, downgrade>> /\ row[s].status # "NONE"
      /\ row' = [row EXCEPT ![s].status = "ENDED", ![s].open = <<>>]
    BY LapseFits DEF Lapse, Lapsed, Safe, Levels
<1>2. PICK q : q = [row[s] EXCEPT !.status = "ENDED", !.open = <<>>]
    OBVIOUS
<1>3. q.tier = row[s].tier
    BY <1>2 DEF TypeOK, RowSet
<1>4. row' = [row EXCEPT ![s] = q]
    BY <1>1, <1>2 DEF TypeOK
<1>5. row'[s] = q /\ \A o \in Subs \ {s} : row'[o] = row[o]
    BY <1>4 DEF TypeOK
<1>6. RowLevels
    BY <1>1, <1>3, <1>5 DEF RowLevels
<1> QED BY <1>1, <1>6, SameLevels, WorldLevels DEF LevelMoves

LEMMA PeriodPassesLevels ==
    ASSUME TypeOK, Safe, Levels, NEW s \in Subs, PeriodPasses(s)
    PROVE  Levels'
<1>1. Fine(None) /\ LevelsFit /\ UNCHANGED <<provider, downgrade>>
      /\ row' = [row EXCEPT ![s].paid = "past"]
    BY PeriodPassesFits DEF PeriodPasses, Safe, Levels
<1>2. RowLevels
  <2>1. PICK q : q = [row[s] EXCEPT !.paid = "past"]
      OBVIOUS
  <2>2. q.status = row[s].status /\ q.tier = row[s].tier
      BY <2>1 DEF TypeOK, RowSet
  <2>3. row' = [row EXCEPT ![s] = q]
      BY <1>1, <2>1
  <2>4. row'[s] = q /\ \A o \in Subs \ {s} : row'[o] = row[o]
      BY <2>3 DEF TypeOK
  <2> QED BY <2>2, <2>4 DEF RowLevels
<1> QED BY <1>1, <1>2, SameLevels, WorldLevels DEF LevelMoves

LEMMA LeavesLevels ==
    ASSUME TypeOK, Safe, Levels, NEW s \in Subs, Leaves(s)
    PROVE  Levels'
<1>1. Fine(None) /\ LevelsFit /\ UNCHANGED <<row, downgrade>>
    BY LeavesFits DEF Leaves, Safe, Levels, rows
<1>2. PlanMoves
    BY <1>1, EndKeepsLevels DEF Leaves
<1> QED BY <1>1, <1>2, SameLevels, WorldLevels DEF LevelMoves

LEMMA AtPayPalLevels ==
    ASSUME TypeOK, Safe, Levels, NEW s \in Subs, AtPayPal(s)
    PROVE  Levels'
<1>1. PICK p \in ProviderSet : p = provider[s]
    BY DEF TypeOK
<1>2. Fine(None) /\ LevelsFit /\ UNCHANGED <<row, downgrade>>
    BY AtPayPalFits DEF AtPayPal, Safe, Levels, rows
<1>3. PICK q \in {[p EXCEPT !.st = "ACTIVE"], [p EXCEPT !.st = "EXPIRED"],
                  [p EXCEPT !.plan = p.revision, !.revision = 0]} :
          /\ provider' = [provider EXCEPT ![s] = q]
          /\ p.st # "NONE"
          /\ q \in {[p EXCEPT !.st = "ACTIVE"], [p EXCEPT !.st = "EXPIRED"]} \/ p.revision # 0
    BY <1>1 DEF AtPayPal, TypeOK
<1>4. \/ q.plan = p.plan /\ q.revision = p.revision
      \/ q.plan = p.revision /\ p.revision # 0 /\ q.revision = 0
    BY <1>3 DEF ProviderSet
<1>5. provider'[s] = q /\ \A o \in Subs \ {s} : provider'[o] = provider[o]
    BY <1>3 DEF TypeOK
<1>6. p.plan \in story.tiers /\ (p.revision # 0 => Low(p.revision))
    BY <1>1, <1>2, <1>3 DEF LevelsFit
<1>7. q.plan \in story.tiers /\ (q.plan = p.plan \/ Low(q.plan)) /\ q.revision \in {0, p.revision}
    BY <1>4, <1>6 DEF Low
<1>8. PlanMoves
    BY <1>1, <1>2, <1>5, <1>7 DEF PlanMoves, LevelsFit
<1> QED BY <1>2, <1>8, SameLevels, WorldLevels DEF LevelMoves

LEMMA BillLevels ==
    ASSUME TypeOK, Safe, Levels, NEW s \in Subs, NEW outcome \in Outcomes, Bill(s, outcome)
    PROVE  Levels'
<1>1. RecordsFit /\ LevelsFit /\ UNCHANGED <<row, downgrade>>
    BY DEF Bill, Safe, Levels, rows
<1>2. /\ Fine(None) /\ provider[s].st = "ACTIVE"
      /\ provider'[s].plan = provider[s].plan /\ provider'[s].revision = provider[s].revision
      /\ \A o \in Subs \ {s} : provider'[o] = provider[o]
    BY <1>1, BillFits
<1>3. \A o \in Subs : /\ provider'[o].plan = provider[o].plan
                      /\ provider'[o].revision = provider[o].revision
                      /\ provider'[o].st # "NONE" => provider[o].st # "NONE"
    BY <1>2
<1> QED BY <1>1, <1>2, <1>3, SameLevels, WorldLevels DEF LevelMoves

-----------------------------------------------------------------------------
(* Levels: every step                                                        *)

LEMMA BeginLevels ==
    ASSUME TypeOK, Safe, Levels, TwoLevels, NEW h \in Handlers, Begin(h)
    PROVE  Levels'
<1>1. CASE \E s \in story.subs, t \in 0..story.bills : Deliver(h, s, t)
    BY <1>1, StoryFits, DeliverLevels
<1>2. CASE \E u \in story.subs : ReconcileTarget(h, u)
    BY <1>2, StoryFits, ReconcileTargetLevels
<1>3. CASE ReconcileCanonical(h)
    BY <1>3, ReconcileCanonicalLevels
<1>4. CASE \E tier \in story.tiers : Create(h, tier) \/ Upgrade(h, tier) \/ Downgrade(h, tier)
    BY <1>4, AskedLevels
<1>5. CASE Cancel(h)
    BY <1>5, CancelLevels
<1> QED BY <1>1, <1>2, <1>3, <1>4, <1>5 DEF Begin

LEMMA StepLevels ==
    ASSUME TypeOK, Safe, Levels, NEW h \in Handlers, Step(h)
    PROVE  Levels'
<1>1. CASE Verify(h) \/ Synchronize(h) \/ Settle(h)
    BY <1>1, VerifyLevels, SynchronizeLevels, SettleLevels
<1>2. CASE Advance(h) \/ Promote(h)
    BY <1>2, AdvanceLevels, PromoteLevels
<1>3. CASE LookAtSource(h) \/ CancelSource(h) \/ RetireSource(h) \/ Complete(h) \/ Mark(h)
    BY <1>3, LookAtSourceLevels, CancelSourceLevels, RetireSourceLevels, CompleteLevels
<1>4. CASE ReconcileCanonical(h)
    BY <1>4, ReconcileCanonicalLevels
<1>5. CASE AskPayPal(h) \/ Commit(h)
    BY <1>5, AskPayPalLevels, CommitLevels
<1>6. CASE Intend(h) \/ Stop(h) \/ Withdraw(h)
    BY <1>6, IntendLevels, StopLevels, WithdrawLevels
<1> QED BY <1>1, <1>2, <1>3, <1>4, <1>5, <1>6 DEF Step

LEMMA NextLevels ==
    ASSUME TypeOK, Safe, Levels, TwoLevels, [Next]_vars
    PROVE  Levels'
<1>1. ASSUME NEW h \in Handlers, (FirstIdle(h) /\ Begin(h)) \/ Step(h) \/ CleanupOutage(h) \/ Dies(h)
      PROVE  Levels'
    BY <1>1, BeginLevels, StepLevels, CancelSourceLevels, DiesLevels
<1>2. ASSUME NEW s \in story.subs,
             AtPayPal(s) \/ Leaves(s) \/ PeriodPasses(s) \/ Lapse(s)
                \/ \E outcome \in {"PAID", "FAILED"} : Bill(s, outcome)
      PROVE  Levels'
    BY <1>2, StoryFits, AtPayPalLevels, LeavesLevels, PeriodPassesLevels, LapseLevels, BillLevels
    DEF Outcomes
<1>3. CASE UNCHANGED vars
  <2>1. UNCHANGED <<provider, rows, account, run, story>>
      BY <1>3 DEF vars, rows
  <2>2. Fine(None)
      BY <2>1, ProviderFits, Unmoved DEF TypeOK, Safe
  <2> QED BY <2>1, <2>2, WorldLevels, OnlyARunKeepsLevels DEF Levels
<1> QED BY <1>1, <1>2, <1>3 DEF Next

LEMMA InitLevels == Init => Levels
<1> SUFFICES ASSUME Init PROVE Levels
    OBVIOUS
<1>1. LevelsFit
    BY DEF Init, LevelsFit, NoProvider, NoRow, NoDowngrade, Known
<1>2. LevelWorkFit
    BY IdleIsARun DEF Init, LevelWorkFit, LevelWorkFits
<1> QED BY <1>1, <1>2 DEF Levels

LEMMA StoryStays ==
    ASSUME TypeOK, Safe, [Next]_vars
    PROVE  TwoLevels' = TwoLevels
<1>1. story' = story
    BY NextFits DEF Fine, Moves, vars
<1> QED BY <1>1 DEF TwoLevels

(* Of two levels, a scheduled downgrade is completed only when PayPal has    *)
(* made it (completeVerifiedScheduledDowngrade): the row of a subscription   *)
(* that is already on the lower level never allows another downgrade.        *)
THEOREM DowngradeVerified == Spec => []DowngradeIsVerified
<1>1. TypeOK /\ Safe /\ (TwoLevels => Levels) /\ [Next]_vars => (TwoLevels => Levels)'
    BY NextLevels, StoryStays
<1>2. (TwoLevels => Levels) => DowngradeIsVerified
    BY DEF TwoLevels, Levels, LevelsFit, DowngradeIsVerified
<1>3. Init => (TwoLevels => Levels)
    BY InitLevels
<1> QED BY <1>1, <1>2, <1>3, Invariance, PTL DEF Spec

=============================================================================
